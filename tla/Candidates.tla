----------------------------- MODULE Candidates -----------------------------
(***************************************************************************)
(* Trickled ICE candidates of one peer (engine/mod.rs, the Candidate arm   *)
(* and apply_remote_sdp; engine/connection.rs; engine/state.rs).  Remote   *)
(* candidates overtake the description they belong to and outlive it, so   *)
(* the engine queues the early ones, and drops those of another ICE        *)
(* generation by their username fragment.  The driver handles one message  *)
(* at a time and awaits inside; other tasks drop and replace the session   *)
(* meanwhile.  Local candidates are counted per gathering generation, from *)
(* callbacks whose order is not fixed.                                     *)
(***************************************************************************)
EXTENDS Naturals, Sequences, SequencesExt

CONSTANTS
    MaxGen,      \* bound: ICE generations of the far side, local gathers
    MaxCand,     \* bound: candidates per generation
    MaxQueue,    \* MAX_PENDING_REMOTE_CANDIDATES
    MaxEpoch,    \* bound: sessions
    Rescues      \* bound: length of RELAY_RESCUE_RETRY_BACKOFF_MS

ASSUME CandidatesAssumption ==
    MaxGen \in Nat \ {0} /\ MaxQueue \in Nat \ {0} /\ {MaxCand, MaxEpoch, Rescues} \subseteq Nat

Cand == [gen : 1..MaxGen, no : 1..MaxCand]
Resting == [at |-> "idle"]

VARIABLES
    farGen,      \* the far side's generation
    wire,        \* descriptions and candidates in flight, in any order
    conn,        \* the session in the map: epoch, description, queue, connection
    heard,       \* candidates that came in since the session opened, in order
    handling,    \* where the driver stands in its handler
    gather,      \* in progress, candidates counted; and produced in truth
    callback,    \* the callbacks of the local gathering, in arrival order
    emptied,     \* the last gather was reported empty
    rescue       \* RelayRescueWatch: attempts unconfirmed, and whether it cools

remoteVars == <<farGen, wire, conn, heard, handling>>
localVars == <<gather, callback, emptied>>
candVars == <<remoteVars, localVars, rescue>>

NoConn(e) == [ep |-> e, set |-> FALSE, ufrag |-> 0, queue |-> <<>>, added |-> {}]

CandTypeOK ==
    /\ farGen \in 1..MaxGen
    /\ conn.ep \in 1..MaxEpoch /\ conn.ufrag \in 0..MaxGen
    /\ Len(conn.queue) <= MaxQueue
    /\ conn.added \cup ToSet(heard) \cup ToSet(conn.queue) \subseteq Cand
    /\ conn.set <=> conn.ufrag # 0
    /\ rescue.attempts \in 0..Rescues

CandInit ==
    /\ farGen = 1
    /\ wire = {[type |-> "sdp", gen |-> 1]}
    /\ conn = NoConn(1)
    /\ heard = <<>>
    /\ handling = Resting
    /\ gather = [open |-> FALSE, count |-> 0, real |-> 0, no |-> 1, starts |-> FALSE, ends |-> FALSE]
    /\ callback = <<>>
    /\ emptied = FALSE
    /\ rescue = [attempts |-> 0, cooling |-> FALSE]

-----------------------------------------------------------------------------
(* The far side gathers, and restarts with a new fragment.                 *)
FarTrickles(c) ==
    /\ c.gen = farGen
    /\ [type |-> "cand", c |-> c] \notin wire /\ c \notin ToSet(heard)
    /\ wire' = wire \cup {[type |-> "cand", c |-> c]}
    /\ UNCHANGED <<farGen, conn, heard, handling, localVars, rescue>>
FarRestartsIce ==
    /\ farGen < MaxGen
    /\ farGen' = farGen + 1
    /\ wire' = wire \cup {[type |-> "sdp", gen |-> farGen + 1]}
    /\ UNCHANGED <<conn, heard, handling, localVars, rescue>>

(* candidate_matches_ufrags, for a connection whose fragment is known.     *)
Matches(c, gen) == c.gen = gen

(* The queue before the first description is bounded: the oldest goes.     *)
Queued(q, c) == Append(IF Len(q) >= MaxQueue THEN Tail(q) ELSE q, c)

(* A candidate from signaling: it proves the relay path when a rescue was  *)
(* waiting for this peer, and is queued, or applied after the await that   *)
(* reads the active fragments.                                             *)
OnCandidate(m) ==
    /\ m \in wire /\ m.type = "cand" /\ handling = Resting
    /\ wire' = wire \ {m}
    /\ heard' = Append(heard, m.c)
    /\ rescue' = [attempts |-> 0, cooling |-> FALSE]
    /\ IF conn.set
       THEN /\ handling' = [at |-> "match", c |-> m.c, ep |-> conn.ep]
            /\ UNCHANGED conn
       ELSE /\ conn' = [conn EXCEPT !.queue = Queued(@, m.c)]
            /\ UNCHANGED handling
    /\ UNCHANGED <<farGen, localVars>>
MatchCandidate_NoRecheck ==
    /\ handling.at = "match"
    /\ handling' = Resting
    /\ conn' = IF Matches(handling.c, IF handling.ep = conn.ep THEN conn.ufrag ELSE handling.c.gen)
               THEN [conn EXCEPT !.added = @ \cup {handling.c}] ELSE conn
    /\ UNCHANGED <<farGen, wire, heard, localVars, rescue>>
MatchCandidate ==
    /\ handling.at = "match"
    /\ handling' = Resting
    /\ conn' = IF handling.ep = conn.ep /\ Matches(handling.c, conn.ufrag)
               THEN [conn EXCEPT !.added = @ \cup {handling.c}] ELSE conn
    /\ UNCHANGED <<farGen, wire, heard, localVars, rescue>>

(* apply_remote_sdp: set_remote_description is awaited; if the session is  *)
(* still the one in the map the queue is taken and drained.                *)
OnDescription(m) ==
    /\ m \in wire /\ m.type = "sdp" /\ handling = Resting
    /\ wire' = wire \ {m}
    /\ handling' = [at |-> "describe", gen |-> m.gen, ep |-> conn.ep, first |-> ~conn.set]
    /\ UNCHANGED <<farGen, conn, heard, localVars, rescue>>
Described ==
    /\ handling.at = "describe"
    /\ IF handling.ep = conn.ep
       THEN /\ conn' = [conn EXCEPT !.set = TRUE, !.ufrag = handling.gen, !.queue = <<>>]
            /\ handling' = [at |-> "drain", ep |-> conn.ep, first |-> handling.first,
                            list |-> SelectSeq(conn.queue, LAMBDA c : Matches(c, handling.gen))]
       ELSE handling' = Resting /\ UNCHANGED conn
    /\ UNCHANGED <<farGen, wire, heard, localVars, rescue>>
DrainQueue ==
    /\ handling.at = "drain"
    /\ IF handling.list # <<>> /\ handling.ep = conn.ep
       THEN /\ conn' = [conn EXCEPT !.added = @ \cup {Head(handling.list)}]
            /\ handling' = [handling EXCEPT !.list = Tail(@)]
       ELSE handling' = Resting /\ UNCHANGED conn
    /\ UNCHANGED <<farGen, wire, heard, localVars, rescue>>

(* Another task drops the session and a new one replaces it; its gathering *)
(* callbacks are of the old epoch and no longer heard.                     *)
ReplaceSession ==
    /\ conn.ep < MaxEpoch
    /\ conn' = NoConn(conn.ep + 1)
    /\ heard' = <<>>
    /\ wire' = wire \cup {[type |-> "sdp", gen |-> farGen]}
    /\ UNCHANGED <<farGen, handling, localVars, rescue>>

-----------------------------------------------------------------------------
(* The transport's callbacks for one gathering: its start, its candidates  *)
(* and its end.  The start may be delivered after the first candidate, and *)
(* the end twice.                                                          *)
EmitLocal(e) == callback' = Append(callback, e)
GatherStarts ==
    /\ ~gather.starts /\ gather.real <= 1
    /\ gather' = [gather EXCEPT !.starts = TRUE]
    /\ EmitLocal("gathering")
    /\ UNCHANGED <<remoteVars, emptied, rescue>>
GatherProduces ==
    /\ gather.real < MaxCand /\ ~gather.ends
    /\ gather.starts \/ gather.real = 0
    /\ gather' = [gather EXCEPT !.real = @ + 1]
    /\ EmitLocal("candidate")
    /\ UNCHANGED <<remoteVars, emptied, rescue>>
GatherEnds ==
    /\ gather.starts /\ ~gather.ends
    /\ gather' = [gather EXCEPT !.ends = TRUE]
    /\ callback' \in {Append(callback, "complete"), callback \o <<"complete", "complete">>}
    /\ UNCHANGED <<remoteVars, emptied, rescue>>
GatherAgain ==
    /\ gather.ends /\ callback = <<>> /\ gather.no < MaxGen
    /\ gather' = [gather EXCEPT !.starts = FALSE, !.ends = FALSE, !.real = 0, !.no = @ + 1]
    /\ emptied' = FALSE
    /\ UNCHANGED <<remoteVars, callback, rescue>>

(* begin_local_gather, record_local_candidate, finish_local_gather         *)
Begun(g) == IF g.open THEN g ELSE [g EXCEPT !.open = TRUE, !.count = 0]
OnCallback ==
    /\ callback # <<>>
    /\ callback' = Tail(callback)
    /\ \/ /\ Head(callback) = "gathering"
          /\ gather' = Begun(gather)
          /\ UNCHANGED emptied
       \/ /\ Head(callback) = "candidate"
          /\ gather' = LET g == IF gather.open THEN gather ELSE Begun(gather)
                       IN  [g EXCEPT !.count = @ + 1]
          /\ UNCHANGED emptied
       \/ /\ Head(callback) = "complete"
          /\ gather' = [gather EXCEPT !.open = FALSE]
          /\ emptied' = (emptied \/ (gather.open /\ gather.count = 0))
    /\ UNCHANGED <<remoteVars, rescue>>

-----------------------------------------------------------------------------
(* RelayRescueWatch::take_permit, from a connect timeout that saw no       *)
(* remote candidate: the first at once, then after a widening backoff.     *)
Rescue ==
    /\ ~rescue.cooling /\ conn.added = {} /\ conn.queue = <<>>
    /\ rescue' = [attempts |-> IF rescue.attempts < Rescues THEN rescue.attempts + 1 ELSE Rescues,
                  cooling |-> TRUE]
    /\ UNCHANGED <<remoteVars, localVars>>
RescueCools ==
    /\ rescue.cooling
    /\ rescue' = [rescue EXCEPT !.cooling = FALSE]
    /\ UNCHANGED <<remoteVars, localVars>>

(* The remote candidates and the local gathering do not share state; a     *)
(* behaviour is of the one or the other.                                   *)
CandNext ==
    \/ \E c \in Cand : FarTrickles(c)
    \/ FarRestartsIce
    \/ \E m \in wire : OnCandidate(m) \/ OnDescription(m)
    \/ MatchCandidate \/ Described \/ DrainQueue \/ ReplaceSession
    \/ Rescue \/ RescueCools
GatherNext == GatherStarts \/ GatherProduces \/ GatherEnds \/ GatherAgain \/ OnCallback

CandSpec == CandInit /\ [][CandNext \/ GatherNext]_candVars

-----------------------------------------------------------------------------
(* Candidates of another generation than the connection's are not mixed    *)
(* in: the step that adds one finds its fragment in the description.       *)
OwnGenerationOnly ==
    [][\A c \in conn'.added \ conn.added : c.gen = conn'.ufrag /\ conn'.ep = conn.ep]_candVars

(* What arrived before the first description of a session is not lost: once *)
(* the description is in and the queue drained, the connection has every   *)
(* candidate of its generation among the last that the session heard and   *)
(* the queue could hold.                                                   *)
EarlyCandidatesApplied ==
    [][handling.at = "drain" /\ handling.first /\ handling' = Resting /\ handling.ep = conn.ep
       => \A i \in DOMAIN heard : i + MaxQueue > Len(heard) /\ heard[i].gen = conn.ufrag
                                  => heard[i] \in conn.added]_candVars

(* A gather that produced a candidate is never taken for an empty one,     *)
(* which would drop the session or arm the socket-pressure circuit.        *)
EmptyMeansEmpty == emptied => gather.real = 0

(* Candidates go where they belong: to the connection of their own         *)
(* generation, the early ones included, and a gather that found any is not *)
(* an empty one.                                                           *)
CandidatesFit ==
    [](CandTypeOK /\ EmptyMeansEmpty) /\ OwnGenerationOnly /\ EarlyCandidatesApplied
=============================================================================
