------------------------------- MODULE Gateway -------------------------------
(***************************************************************************)
(* The gateway's requests (gateway/app.py, gateway/service.py) and the MCP *)
(* call each makes (mcp/client.py).                                        *)
(*                                                                         *)
(* A request is a chat answered as JSON ("post"), as a stream of events    *)
(* ("stream") or on a WebSocket ("ws"), or another endpoint ("api").  The  *)
(* first two hold one of Capacity admission slots.  A chat's call runs in  *)
(* a task of its own, which lives on unless someone cancels it.            *)
(*                                                                         *)
(* External: the clients, who may leave at any moment; the web framework,  *)
(* which iterates a stream's generator, and closes it where it stands when *)
(* the client leaves; the MCP servers and the network.  A message to a     *)
(* server arrives once or never, perhaps after the client gave it up.      *)
(* The endpoints that only read (health, statistics, static pages) and the *)
(* correlation ids are left out.                                           *)
(***************************************************************************)
EXTENDS Naturals, FiniteSets

CONSTANTS
    Requests,
    Connections,    \* the WebSocket connections
    Loads,          \* the requests' kinds, tools and connections: functions
    Capacity,       \* maximum_concurrent_chats
    MaxRetries      \* maximum_retries

Kinds == {"post", "stream", "ws", "api"}

ASSUME CapacityAssumption == Capacity \in Nat \ {0} /\ MaxRetries \in Nat
ASSUME RequestsAssumption == IsFiniteSet(Requests)
ASSUME LoadsAssumption ==
    \A load \in Loads : \A r \in Requests :
        /\ load[r].kind \in Kinds
        /\ load[r].kind = "ws" => load[r].connection \in Connections

VARIABLES
    asked,          \* request -> its kind, MCP tool and connection
    slots,          \* free admission slots
    pc,             \* request -> where its handler, generator or loop is
    phase,          \* request -> the state of its MCP call
    attempt,        \* request -> how many times the call was retried
    inflight,       \* request -> the attempts whose message is on its way
    executed,       \* request -> the attempts whose message made the server
                    \* run the tool
    open            \* the WebSocket connections still open

handlers == <<asked, slots, pc, open>>
Network == <<asked, attempt, inflight, executed>>
calls == <<phase, Network>>
vars == <<handlers, calls>>

(* "yielding": the generator is suspended at a yield, its event is being   *)
(* sent.  "waiting": it is in its loop, at is_disconnected or asyncio.wait.*)
Holding == {"chatting", "starting", "yielding", "waiting", "answering"}
Ended == {"refused", "responded", "left", "abandoned"}
Handlers == Holding \cup Ended \cup {"new", "working", "calling"}
Phases == {"none", "ready", "sent", "backoff", "ok", "failed", "cancelled"}
Busy == {"ready", "sent", "backoff"}

Init ==
    /\ asked \in Loads
    /\ slots = Capacity
    /\ pc = [r \in Requests |-> "new"]
    /\ phase = [r \in Requests |-> "none"]
    /\ attempt = [r \in Requests |-> 0]
    /\ inflight = [r \in Requests |-> {}]
    /\ executed = [r \in Requests |-> {}]
    /\ open = Connections

Goto(r, step) == pc' = [pc EXCEPT ![r] = step]
Enter(r, p) == phase' = [phase EXCEPT ![r] = p]

(***************************************************************************)
(* The MCP client.                                                         *)
(***************************************************************************)
SafeRetryTools ==
    {"analyze_query", "route_to_agents", "get_conversation_context",
     "get_session_preferences", "synthesize_response", "get_index_status",
     "parse_python_ast", "extract_entities", "find_entity", "get_dependencies",
     "get_dependents", "trace_imports", "find_related", "execute_query",
     "analyze_function", "analyze_class", "find_patterns", "get_code_snippet",
     "get_repository_metadata", "read_file", "verify_source", "search_source",
     "explain_implementation", "compare_implementations"}

(* _normalize_error: an error the tool returned, and any other, is final.  *)
Errors == {"timeout", "connection", "tool", "other"}
Retryable(error) == error \in {"timeout", "connection"}

(* Mutant: one attempt too many.                                           *)
RetriedOnceMore(r, error) ==
    asked[r].tool \in SafeRetryTools /\ Retryable(error) /\ attempt[r] <= MaxRetries

(* Mutant: every tool is retried.                                          *)
RetriedWhateverItDoes(r, error) == Retryable(error) /\ attempt[r] < MaxRetries

Retried(r, error) ==
    asked[r].tool \in SafeRetryTools /\ Retryable(error) /\ attempt[r] < MaxRetries

(* _call_once opens a session and sends the call, unless that fails.       *)
SendCall(r) ==
    /\ phase[r] = "ready"
    /\ Enter(r, "sent")
    /\ \/ inflight' = [inflight EXCEPT ![r] = @ \cup {attempt[r]}]
       \/ UNCHANGED inflight
    /\ UNCHANGED <<handlers, attempt, executed>>

(* The server runs the tool, even when nobody waits for it any more.       *)
Deliver(r, a) ==
    /\ a \in inflight[r]
    /\ inflight' = [inflight EXCEPT ![r] = @ \ {a}]
    /\ executed' = [executed EXCEPT ![r] = @ \cup {a}]
    /\ UNCHANGED <<handlers, phase, attempt>>

Lose(r, a) ==
    /\ a \in inflight[r]
    /\ inflight' = [inflight EXCEPT ![r] = @ \ {a}]
    /\ UNCHANGED <<handlers, phase, attempt, executed>>

CallSucceeds(r) ==
    /\ phase[r] = "sent"
    /\ attempt[r] \in executed[r]
    /\ Enter(r, "ok")
    /\ UNCHANGED <<handlers, Network>>

CallFails(r, error) ==
    /\ phase[r] = "sent"
    /\ error = "tool" => attempt[r] \in executed[r]
    /\ IF Retried(r, error)
       THEN /\ Enter(r, "backoff")
            /\ attempt' = [attempt EXCEPT ![r] = @ + 1]
       ELSE Enter(r, "failed") /\ UNCHANGED attempt
    /\ UNCHANGED <<handlers, inflight, executed>>

Backoff(r) ==
    /\ phase[r] = "backoff"
    /\ Enter(r, "ready")
    /\ UNCHANGED <<handlers, Network>>

(* Mutant: an error does not end the wait.                                 *)
CallAnswered(r) == phase[r] = "ok"

CallEnded(r) == phase[r] \in {"ok", "failed"}

(* task.cancel() and the await of it: the message may be on its way.       *)
Cancel(r) ==
    phase' = [phase EXCEPT ![r] = IF @ \in Busy THEN "cancelled" ELSE @]

(***************************************************************************)
(* POST /api/chat.  Nothing is awaited between locked() and acquire().     *)
(***************************************************************************)
Refuse(r) ==
    /\ pc[r] = "new" /\ asked[r].kind \in {"post", "stream"}
    /\ slots = 0
    /\ Goto(r, "refused")
    /\ UNCHANGED <<slots, open, calls>>

AdmitPost(r) ==
    /\ pc[r] = "new" /\ asked[r].kind = "post"
    /\ slots > 0
    /\ slots' = slots - 1
    /\ Goto(r, "chatting")
    /\ Enter(r, "ready")
    /\ UNCHANGED <<open, Network>>

AdmitStream(r) ==
    /\ pc[r] = "new" /\ asked[r].kind = "stream"
    /\ slots > 0
    /\ slots' = slots - 1
    /\ Goto(r, "starting")
    /\ UNCHANGED <<open, calls>>

(* The finally that frees the slot.                                        *)
Release(r, step) ==
    /\ slots' = slots + 1
    /\ Goto(r, step)

RespondPost(r) ==
    /\ pc[r] = "chatting"
    /\ CallEnded(r)
    /\ Release(r, "responded")
    /\ UNCHANGED <<open, calls>>

(* The first step of the generator creates the task and yields.            *)
StartStream(r) ==
    /\ pc[r] = "starting"
    /\ Goto(r, "yielding")
    /\ Enter(r, "ready")
    /\ UNCHANGED <<slots, open, Network>>

(* The client is gone before the first step: the generator never ran, so   *)
(* its finally never does.                                                 *)
AbandonStream(r) ==
    /\ pc[r] = "starting"
    /\ Goto(r, "abandoned")
    /\ UNCHANGED <<slots, open, calls>>

EventSent(r) ==
    /\ pc[r] = "yielding"
    /\ Goto(r, "waiting")
    /\ UNCHANGED <<slots, open, calls>>

(* Mutant: only the normal end frees the slot.                             *)
DropStreamKeepingSlot(r) ==
    /\ pc[r] \in {"yielding", "answering"}
    /\ Goto(r, "left")
    /\ UNCHANGED <<slots, open, calls>>

(* The client left while an event was being sent: GeneratorExit at the     *)
(* yield runs the finally, and not the handler of CancelledError.          *)
DropStream(r) ==
    /\ pc[r] \in {"yielding", "answering"}
    /\ Release(r, "left")
    /\ UNCHANGED <<open, calls>>

(* is_disconnected() says so, or the await itself is cancelled.            *)
CancelStream(r) ==
    /\ pc[r] = "waiting"
    /\ Cancel(r)
    /\ Release(r, "left")
    /\ UNCHANGED <<open, Network>>

Heartbeat(r) ==
    /\ pc[r] = "waiting"
    /\ ~CallEnded(r)
    /\ Goto(r, "yielding")
    /\ UNCHANGED <<slots, open, calls>>

(* The loop ends; completed, evidence, answer and DONE, or ERROR, follow.  *)
AnswerStream(r) ==
    /\ pc[r] = "waiting"
    /\ CallEnded(r)
    /\ Goto(r, "answering")
    /\ UNCHANGED <<slots, open, calls>>

FinishStream(r) ==
    /\ pc[r] = "answering"
    /\ Release(r, "responded")
    /\ UNCHANGED <<open, calls>>

(***************************************************************************)
(* WS /ws/chat: one chat of a connection at a time, and no admission.      *)
(***************************************************************************)
ReceiveChat(r) ==
    /\ pc[r] = "new" /\ asked[r].kind = "ws"
    /\ asked[r].connection \in open
    /\ \A q \in Requests :
           asked[q].kind = "ws" /\ asked[q].connection = asked[r].connection => pc[q] # "working"
    /\ Goto(r, "working")
    /\ Enter(r, "ready")
    /\ UNCHANGED <<slots, open, Network>>

(* A second message: the chat is cancelled and the client told so.         *)
SecondMessage(r) ==
    /\ pc[r] = "working"
    /\ Cancel(r)
    /\ Goto(r, "responded")
    /\ UNCHANGED <<slots, open, Network>>

(* receive() returned the disconnect.                                      *)
ClientLeaves(r) ==
    /\ pc[r] = "working"
    /\ Cancel(r)
    /\ Goto(r, "left")
    /\ open' = open \ {asked[r].connection}
    /\ UNCHANGED <<slots, Network>>

(* The client left while "working" was being sent: send_json raises, and   *)
(* only the receiving task is cancelled.                                   *)
WorkingSendFails(r) ==
    /\ pc[r] = "working"
    /\ ~CallEnded(r)
    /\ Goto(r, "left")
    /\ open' = open \ {asked[r].connection}
    /\ UNCHANGED <<slots, calls>>

AnswerChat(r) ==
    /\ pc[r] = "working"
    /\ CallEnded(r)
    /\ Goto(r, "responded")
    /\ UNCHANGED <<slots, open, calls>>

(* A connection without a chat at work closes.                             *)
CloseIdle(c) ==
    /\ c \in open
    /\ \A r \in Requests : asked[r].kind = "ws" /\ asked[r].connection = c => pc[r] # "working"
    /\ open' = open \ {c}
    /\ UNCHANGED <<slots, pc, calls>>

(* The other endpoints await one call and answer with it or with 503.      *)
CallTool(r) ==
    /\ pc[r] = "new" /\ asked[r].kind = "api"
    /\ Goto(r, "calling")
    /\ Enter(r, "ready")
    /\ UNCHANGED <<slots, open, Network>>

RespondTool(r) ==
    /\ pc[r] = "calling"
    /\ CallEnded(r)
    /\ Goto(r, "responded")
    /\ UNCHANGED <<slots, open, calls>>

(* What the gateway does once it can.                                      *)
Handle(r) ==
    \/ RespondPost(r) \/ StartStream(r) \/ Heartbeat(r) \/ AnswerStream(r)
    \/ AnswerChat(r) \/ RespondTool(r)

(* What the client, the framework and the network do with a request.       *)
Arrive(r) ==
    Refuse(r) \/ AdmitPost(r) \/ AdmitStream(r) \/ ReceiveChat(r) \/ CallTool(r)
Take(r) == EventSent(r) \/ FinishStream(r)
Leave(r) ==
    AbandonStream(r) \/ DropStream(r) \/ CancelStream(r) \/ SecondMessage(r)
    \/ ClientLeaves(r) \/ WorkingSendFails(r)
Call(r) ==
    SendCall(r) \/ CallSucceeds(r) \/ (\E e \in Errors : CallFails(r, e)) \/ Backoff(r)

Deliveries(r) == \E a \in inflight[r] : Deliver(r, a) \/ Lose(r, a)

Step(r) == Arrive(r) \/ Handle(r) \/ Take(r) \/ Leave(r) \/ Call(r) \/ Deliveries(r)

Next ==
    \/ \E r \in Requests : Step(r)
    \/ \E c \in Connections : CloseIdle(c)

Spec == Init /\ [][Next]_vars

(* The event loop runs what is ready; an attempt ends by its timeout at    *)
(* the latest; a client takes the event it is sent or leaves.              *)
Fairness ==
    \A r \in Requests : /\ WF_vars(Call(r))
                        /\ WF_vars(Handle(r))
                        /\ WF_vars(Take(r) \/ DropStream(r))
FairSpec == Spec /\ Fairness

-----------------------------------------------------------------------------
TypeOK ==
    /\ slots \in 0 .. Capacity
    /\ pc \in [Requests -> Handlers]
    /\ phase \in [Requests -> Phases]
    /\ attempt \in [Requests -> 0 .. MaxRetries]
    /\ inflight \in [Requests -> SUBSET (0 .. MaxRetries)]
    /\ executed \in [Requests -> SUBSET (0 .. MaxRetries)]
    /\ open \subseteq Connections

(* On every way out of a chat (answered, failed, cancelled, left in the    *)
(* middle of an event) its slot is given back exactly once, so a full      *)
(* gateway recovers.  A slot is lost for good in one case only: the client *)
(* of a stream left before the framework took the generator's first step.  *)
Held == {r \in Requests : pc[r] \in Holding \cup {"abandoned"}}
SlotsAccounted == slots + Cardinality(Held) = Capacity

(* A tool that changes something runs at most once for a request, however  *)
(* its message is delayed, lost or answered too late: the client never     *)
(* sends it again.                                                         *)
Mutating == {"chat", "index_repository", "acquire_repository", "set_session_preferences"}
MutatingCallsOnce ==
    \A r \in Requests : asked[r].tool \in Mutating => Cardinality(executed[r]) <= 1

(* Every request the gateway took on ends, and so does its MCP call, even  *)
(* one whose client has left: retries, heartbeats and failures included.   *)
RequestEnds ==
    \A r \in Requests :
        /\ pc[r] \in Holding \cup {"working", "calling"} ~> pc[r] \in Ended
        /\ phase[r] \in Busy ~> phase[r] \notin Busy

(* DESIGN.md of SSE and WebSocket: "Disconnect handling cancels the local  *)
(* task".  When the client has left and the handler is done with it, the   *)
(* chat's task is no longer at work.                                       *)
DisconnectCancelsChat == \A r \in Requests : pc[r] = "left" => phase[r] \notin Busy
==============================================================================
