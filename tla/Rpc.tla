--------------------------------- MODULE Rpc --------------------------------
(***************************************************************************)
(* Request/response over a link (rpc.rs and the on_rpc_* handlers of       *)
(* engine/mod.rs): the caller parks an entry in `pending` under a fresh    *)
(* id, the responder answers from a task of its own, a streaming call is   *)
(* answered by numbered chunks and an end.  Every send is best-effort:     *)
(* send_to_peer may time out, and an error is ignored by the responder.    *)
(***************************************************************************)
EXTENDS Integers, Sequences, FiniteSets, SequencesExt

CONSTANTS
    Call,         \* request ids
    Streaming,    \* the calls made with call_stream
    Handler,      \* [Call -> {"none", "single", "stream"}]: what the method is at
                  \* the responder
    Chunks,       \* chunks a streaming handler yields
    MaxLost       \* frames that time out

VARIABLES
    caller,       \* [Call -> "new", "sending", "waiting", "ok", "remote", "failed",
                  \*          "ended"]: where call / the stream's reader is
    pending,      \* the entries of RpcInner.pending
    out, back,    \* frames on the link, in order
    task,         \* [Call -> the responder's task: [pc, sent]]
    stream,       \* [Call -> chunks the reader was given]
    lost,         \* frames lost so far
    up            \* the link

rpcVars == <<caller, pending, out, back, task, stream, lost, up>>

Msg(k, c, n) == [kind |-> k, id |-> c, n |-> n]

(* send_to_peer on the responder's side, its error ignored.                *)
Reply(m) ==
    \/ up /\ back' = Append(back, m) /\ UNCHANGED lost
    \/ up /\ lost < MaxLost /\ lost' = lost + 1 /\ UNCHANGED back
    \/ ~up /\ UNCHANGED <<back, lost>>

(***************************************************************************)
(* The caller                                                              *)
(***************************************************************************)
(* call, call_stream: the entry first ...                                  *)
Park(c) ==
    /\ caller[c] = "new"
    /\ pending' = pending \cup {c}
    /\ caller' = [caller EXCEPT ![c] = "sending"]
    /\ UNCHANGED <<out, back, task, stream, lost, up>>

(* ... then the send, by the driver; an error takes the entry back.  A     *)
(* send that timed out may have gone out all the same.                     *)
SendRequest(c) ==
    /\ caller[c] = "sending"
    /\ \/ /\ up
          /\ out' = Append(out, c)
          /\ caller' = [caller EXCEPT ![c] = "waiting"]
          /\ UNCHANGED <<pending, lost>>
       \/ /\ ~up \/ lost < MaxLost
          /\ lost' = IF up THEN lost + 1 ELSE lost
          /\ \/ UNCHANGED out
             \/ up /\ out' = Append(out, c)
          /\ pending' = pending \ {c}
          /\ caller' = [caller EXCEPT ![c] = "failed"]
    /\ UNCHANGED <<back, task, stream, up>>

(* What dropping the entry's sender does to whoever waits on it.           *)
Dropped(c) == IF c \in Streaming THEN "ended" ELSE "failed"

(* on_rpc_response: the entry goes; only a single-shot one gets the        *)
(* answer.                                                                 *)
OnResponse ==
    LET m == Head(back)
        c == m.id
    IN  /\ back # <<>> /\ m.kind \in {"ok", "error"}
        /\ back' = Tail(back)
        /\ IF c \notin pending THEN UNCHANGED <<caller, pending>>
           ELSE /\ pending' = pending \ {c}
                /\ caller' = [caller EXCEPT ![c] =
                      IF c \in Streaming THEN "ended"
                      ELSE IF m.kind = "ok" THEN "ok" ELSE "remote"]
        /\ UNCHANGED <<out, task, stream, lost, up>>

(* A chunk is handed over whether or not anybody waits.                    *)
OnChunk_Unclaimed ==
    LET m == Head(back)
    IN  /\ back # <<>> /\ m.kind = "chunk"
        /\ back' = Tail(back)
        /\ stream' = [stream EXCEPT ![m.id] = Append(@, m.n)]
        /\ UNCHANGED <<caller, pending, out, task, lost, up>>

(* on_rpc_stream_chunk.                                                    *)
OnChunk ==
    LET m == Head(back)
    IN  /\ back # <<>> /\ m.kind = "chunk"
        /\ back' = Tail(back)
        /\ stream' = IF m.id \in pending \cap Streaming
                     THEN [stream EXCEPT ![m.id] = Append(@, m.n)] ELSE stream
        /\ UNCHANGED <<caller, pending, out, task, lost, up>>

(* on_rpc_stream_end.                                                      *)
OnStreamEnd ==
    LET m == Head(back)
        c == m.id
    IN  /\ back # <<>> /\ m.kind = "end"
        /\ back' = Tail(back)
        /\ pending' = pending \ {c}
        /\ caller' = IF c \in pending THEN [caller EXCEPT ![c] = Dropped(c)] ELSE caller
        /\ UNCHANGED <<out, task, stream, lost, up>>

(***************************************************************************)
(* The responder                                                           *)
(***************************************************************************)

(* on_rpc_request: no handler is answered at once, the rest by a task.     *)
OnRequest ==
    LET c == Head(out)
    IN  /\ out # <<>>
        /\ out' = Tail(out)
        /\ IF Handler[c] = "none" THEN Reply(Msg("error", c, 0)) /\ UNCHANGED task
           ELSE /\ task' = [task EXCEPT ![c] = [pc |-> "run", sent |-> 0]]
                /\ UNCHANGED <<back, lost>>
        /\ UNCHANGED <<caller, pending, stream, up>>

(* The single-shot handler's answer.                                       *)
Answer(c) ==
    /\ task[c].pc = "run" /\ Handler[c] = "single"
    /\ task' = [task EXCEPT ![c].pc = "done"]
    /\ \E k \in {"ok", "error"} : Reply(Msg(k, c, 0))
    /\ UNCHANGED <<caller, pending, out, stream, up>>

(* A streaming handler's next chunk, and its end.                          *)
StreamStep(c) ==
    /\ task[c].pc = "run" /\ Handler[c] = "stream"
    /\ IF task[c].sent < Chunks
       THEN /\ task' = [task EXCEPT ![c].sent = @ + 1]
            /\ Reply(Msg("chunk", c, task[c].sent + 1))
       ELSE /\ task' = [task EXCEPT ![c].pc = "done"]
            /\ Reply(Msg("end", c, 0))
    /\ UNCHANGED <<caller, pending, out, stream, up>>

(* The session ends; what was on it is gone.                               *)
LinkEnds ==
    /\ up /\ up' = FALSE
    /\ out' = <<>> /\ back' = <<>>
    /\ UNCHANGED <<caller, pending, task, stream, lost>>

RpcInit ==
    /\ caller = [c \in Call |-> "new"] /\ pending = {}
    /\ out = <<>> /\ back = <<>>
    /\ task = [c \in Call |-> [pc |-> "none", sent |-> 0]]
    /\ stream = [c \in Call |-> <<>>]
    /\ lost = 0 /\ up = TRUE

CallStep(c) == SendRequest(c) \/ Answer(c) \/ StreamStep(c)
Inbound == OnResponse \/ OnChunk \/ OnStreamEnd

RpcNext ==
    \/ \E c \in Call : Park(c) \/ CallStep(c)
    \/ OnRequest \/ Inbound \/ LinkEnds

(* The driver sends what it is told to, a handler's task runs on, and what *)
(* arrives is handled.                                                     *)
RpcFairness ==
    /\ \A c \in Call : WF_rpcVars(CallStep(c))
    /\ WF_rpcVars(OnRequest) /\ WF_rpcVars(Inbound)
RpcSpec == RpcInit /\ [][RpcNext]_rpcVars /\ RpcFairness

(***************************************************************************)
(* Properties                                                              *)
(***************************************************************************)
RpcTypeOK ==
    /\ pending \subseteq Call
    /\ lost \in 0..MaxLost
    /\ \A c \in Call : task[c].sent \in 0..Chunks /\ Len(stream[c]) <= Chunks

(* The map holds an entry exactly for the calls someone still waits on: no *)
(* answer, end or failed send leaves one behind, and none is answered      *)
(* after it was taken out.                                                 *)
PendingIsWaiting ==
    \A c \in Call : c \in pending <=> caller[c] \in {"sending", "waiting"}

(* A stream that ended on a link that lost nothing had every chunk, in     *)
(* order ...                                                               *)
StreamIsComplete ==
    \A c \in Call : caller[c] = "ended" /\ Handler[c] = "stream" /\ up /\ lost = 0
                       => stream[c] = [i \in 1..Chunks |-> i]

(* ... and no chunk reaches a reader after the call came to its end, be it *)
(* an answer, an end or a send that failed although the request had left.  *)
StreamClosedForGood ==
    [][\A c \in Call : caller[c] \notin {"sending", "waiting"} => stream'[c] = stream[c]]_rpcVars

(* While the link holds and no frame is lost, every call comes to an end.  *)
CallsReturn ==
    \A c \in Call : caller[c] = "sending" ~> (c \notin pending \/ ~up \/ lost > 0)

(* A call has an entry as long as somebody waits on it, and its stream is  *)
(* whole and closed once it has ended.                                     *)
CallsFit ==
    /\ [](RpcTypeOK /\ PendingIsWaiting /\ StreamIsComplete)
    /\ StreamClosedForGood
=============================================================================
