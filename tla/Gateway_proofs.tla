---------------------------- MODULE Gateway_proofs ----------------------------
(***************************************************************************)
(* Theorems of Gateway, for any requests, capacity and number of retries:  *)
(* the type invariant, the conservation of admission slots, and that a     *)
(* tool which changes something runs at most once per request.             *)
(***************************************************************************)
EXTENDS Gateway, FiniteSetTheorems, TLAPS

(* An attempt is numbered before it is sent, and only a safe tool is ever  *)
(* given a second one.                                                     *)
AttemptsNumbered ==
    \A r \in Requests :
        /\ inflight[r] \cup executed[r] \subseteq 0 .. attempt[r]
        /\ asked[r].tool \notin SafeRetryTools => attempt[r] = 0

CallTypes ==
    /\ phase \in [Requests -> Phases]
    /\ attempt \in [Requests -> 0 .. MaxRetries]
    /\ inflight \in [Requests -> SUBSET Nat]
    /\ executed \in [Requests -> SUBSET Nat]

HandlerTypes ==
    /\ slots \in Nat
    /\ pc \in [Requests -> Handlers]
    /\ open \subseteq Connections

IInv == CallTypes /\ HandlerTypes /\ AttemptsNumbered /\ SlotsAccounted

LEMMA InitIInv == Init => IInv
  <1> SUFFICES ASSUME Init PROVE IInv
    OBVIOUS
  <1>1. CallTypes /\ HandlerTypes /\ AttemptsNumbered
    BY CapacityAssumption DEF Init, CallTypes, HandlerTypes, AttemptsNumbered, Phases,
       Handlers
  <1>2. SlotsAccounted
    <2>1. Held = {}
      BY DEF Init, Held, Holding
    <2> QED BY <2>1, FS_EmptySet, CapacityAssumption DEF Init, SlotsAccounted
  <1> QED BY <1>1, <1>2 DEF IInv

(***************************************************************************)
(* The MCP calls.                                                          *)
(***************************************************************************)
(* What a step of r does to the call of r: it may only enter a phase, or   *)
(* take one of the steps of the client, the network or the server.         *)
EntersOnly(r) == Network' = Network /\ \E p \in Phases : Enter(r, p)

LEMMA HandlersEnter ==
    ASSUME CallTypes, NEW r \in Requests, Arrive(r) \/ Handle(r) \/ Take(r) \/ Leave(r)
    PROVE  EntersOnly(r) \/ UNCHANGED calls
  <1> USE DEF calls, Network, EntersOnly, Enter, Phases
  <1>1. CASE Arrive(r)
    BY <1>1 DEF Arrive, Refuse, AdmitPost, AdmitStream, ReceiveChat, CallTool
  <1>2. CASE Handle(r)
    BY <1>2 DEF Handle, RespondPost, StartStream, Heartbeat, AnswerStream, AnswerChat,
                RespondTool
  <1>3. CASE Take(r)
    BY <1>3 DEF Take, EventSent, FinishStream
  <1>4. CASE Leave(r)
    <2>1. ASSUME Cancel(r) PROVE \E p \in Phases : Enter(r, p)
      <3>1. CASE phase[r] \in Busy
        BY <2>1, <3>1 DEF Cancel
      <3>2. CASE phase[r] \notin Busy
        BY <2>1, <3>2 DEF Cancel, CallTypes
      <3> QED BY <3>1, <3>2
    <2>2. CASE CancelStream(r) \/ SecondMessage(r) \/ ClientLeaves(r)
      BY <2>1, <2>2 DEF CancelStream, SecondMessage, ClientLeaves
    <2>3. CASE AbandonStream(r) \/ DropStream(r) \/ WorkingSendFails(r)
      BY <2>3 DEF AbandonStream, DropStream, WorkingSendFails
    <2> QED BY <1>4, <2>2, <2>3 DEF Leave
  <1> QED BY <1>1, <1>2, <1>3, <1>4

LEMMA EnterPreserves ==
    ASSUME CallTypes, AttemptsNumbered, NEW r \in Requests, EntersOnly(r)
    PROVE  CallTypes' /\ AttemptsNumbered'
  BY DEF EntersOnly, Enter, Network, CallTypes, AttemptsNumbered

LEMMA CallPreserves ==
    ASSUME CallTypes, AttemptsNumbered, NEW r \in Requests,
           Call(r) \/ Deliveries(r)
    PROVE  CallTypes' /\ AttemptsNumbered'
  <1> USE CapacityAssumption DEF CallTypes, AttemptsNumbered, Enter, handlers, Network, Phases
  <1>1. CASE SendCall(r)
    <2>1. CASE inflight' = [inflight EXCEPT ![r] = @ \cup {attempt[r]}]
      BY <1>1, <2>1 DEF SendCall
    <2>2. CASE UNCHANGED inflight
      BY <1>1, <2>2 DEF SendCall
    <2> QED BY <1>1, <2>1, <2>2 DEF SendCall
  <1>2. CASE CallSucceeds(r) \/ Backoff(r)
    BY <1>2 DEF CallSucceeds, Backoff
  <1>3. ASSUME NEW e \in Errors, CallFails(r, e) PROVE CallTypes' /\ AttemptsNumbered'
    <2>1. CASE Retried(r, e)
      <3>1. attempt' = [attempt EXCEPT ![r] = @ + 1] /\ attempt[r] < MaxRetries
            /\ asked[r].tool \in SafeRetryTools
        BY <1>3, <2>1 DEF CallFails, Retried
      <3>2. CallTypes'
        BY <1>3, <2>1, <3>1 DEF CallFails
      <3>3. \A q \in Requests : 0 .. attempt[q] \subseteq 0 .. attempt'[q]
        BY <3>1
      <3>4. UNCHANGED <<asked, inflight, executed>>
        BY <1>3 DEF CallFails
      <3>5. AttemptsNumbered'
        BY <3>1, <3>3, <3>4
      <3> QED BY <3>2, <3>5
    <2>2. CASE ~Retried(r, e)
      BY <1>3, <2>2 DEF CallFails
    <2> QED BY <2>1, <2>2
  <1>4. ASSUME NEW a \in inflight[r], Deliver(r, a) PROVE CallTypes' /\ AttemptsNumbered'
    BY <1>4 DEF Deliver
  <1>5. ASSUME NEW a \in inflight[r], Lose(r, a) PROVE CallTypes' /\ AttemptsNumbered'
    BY <1>5 DEF Lose
  <1> QED BY <1>1, <1>2, <1>3, <1>4, <1>5 DEF Call, Deliveries

(***************************************************************************)
(* The slots.                                                              *)
(***************************************************************************)
Holders == Holding \cup {"abandoned"}

(* What a step of r does to the slots: it takes one, gives one back, or    *)
(* leaves both the slots and whether r holds one alone.                    *)
Takes(r, step) == pc[r] \notin Holders /\ step \in Holders /\ slots > 0 /\ slots' = slots - 1
Gives(r, step) == pc[r] \in Holders /\ step \notin Holders /\ slots' = slots + 1
Keeps(r, step) == (pc[r] \in Holders <=> step \in Holders) /\ slots' = slots
Balances(r) ==
    \/ UNCHANGED <<pc, slots>>
    \/ \E step \in Handlers :
          Goto(r, step) /\ (Takes(r, step) \/ Gives(r, step) \/ Keeps(r, step))

LEMMA StepBalances ==
    ASSUME HandlerTypes, NEW r \in Requests, Step(r)
    PROVE  Balances(r) /\ open' \subseteq Connections
  <1> USE DEF HandlerTypes, Balances, Takes, Gives, Keeps, Holders, Holding, Handlers, Ended,
              Release
  <1>1. CASE Arrive(r)
    BY <1>1 DEF Arrive, Refuse, AdmitPost, AdmitStream, ReceiveChat, CallTool
  <1>2. CASE RespondPost(r) \/ StartStream(r) \/ Heartbeat(r) \/ AnswerStream(r)
    BY <1>2 DEF RespondPost, StartStream, Heartbeat, AnswerStream
  <1>3. CASE AnswerChat(r) \/ RespondTool(r) \/ EventSent(r) \/ FinishStream(r)
    BY <1>3 DEF AnswerChat, RespondTool, EventSent, FinishStream
  <1>4. CASE AbandonStream(r) \/ DropStream(r) \/ CancelStream(r)
    BY <1>4 DEF AbandonStream, DropStream, CancelStream
  <1>5. CASE SecondMessage(r) \/ ClientLeaves(r) \/ WorkingSendFails(r)
    BY <1>5 DEF SecondMessage, ClientLeaves, WorkingSendFails
  <1>6. CASE Call(r) \/ Deliveries(r)
    BY <1>6 DEF Call, SendCall, CallSucceeds, CallFails, Backoff, Deliveries, Deliver, Lose,
                handlers
  <1> QED BY <1>1, <1>2, <1>3, <1>4, <1>5, <1>6 DEF Step, Handle, Take, Leave

LEMMA BalancePreserves ==
    ASSUME HandlerTypes, SlotsAccounted, NEW r \in Requests, Balances(r)
    PROVE  slots' \in Nat /\ pc' \in [Requests -> Handlers] /\ SlotsAccounted'
  <1>1. CASE UNCHANGED <<pc, slots>>
    BY <1>1 DEF HandlerTypes, SlotsAccounted, Held
  <1>2. ASSUME NEW step \in Handlers, Goto(r, step),
               Takes(r, step) \/ Gives(r, step) \/ Keeps(r, step)
        PROVE  slots' \in Nat /\ pc' \in [Requests -> Handlers] /\ SlotsAccounted'
    <2>1. slots' \in Nat /\ pc' \in [Requests -> Handlers]
      BY <1>2 DEF HandlerTypes, Goto, Takes, Gives, Keeps
    <2>2. Held' = IF step \in Holders THEN Held \cup {r} ELSE Held \ {r}
      BY <1>2 DEF HandlerTypes, Goto, Held, Holders
    <2>3. r \in Held <=> pc[r] \in Holders
      BY DEF Held, Holders
    <2>4. IsFiniteSet(Held)
      <3>1. Held \in SUBSET Requests
        BY DEF Held
      <3> QED BY <3>1, RequestsAssumption, FS_Subset
    <2>5. Cardinality(Held) \in Nat
      BY <2>4, FS_CardinalityType
    <2>6. /\ Cardinality(Held \cup {r}) =
                IF r \in Held THEN Cardinality(Held) ELSE Cardinality(Held) + 1
          /\ Cardinality(Held \ {r}) =
                IF r \in Held THEN Cardinality(Held) - 1 ELSE Cardinality(Held)
      BY <2>4, FS_AddElement, FS_RemoveElement
    <2>7. slots' + Cardinality(Held') = slots + Cardinality(Held)
      <3>1. CASE Takes(r, step)
        BY <3>1, <2>2, <2>3, <2>5, <2>6 DEF Takes, HandlerTypes
      <3>2. CASE Gives(r, step)
        BY <3>2, <2>2, <2>3, <2>5, <2>6 DEF Gives, HandlerTypes
      <3>3. CASE Keeps(r, step)
        BY <3>3, <2>2, <2>3, <2>5, <2>6 DEF Keeps, HandlerTypes
      <3> QED BY <1>2, <3>1, <3>2, <3>3
    <2> QED BY <2>1, <2>7 DEF SlotsAccounted
  <1> QED BY <1>1, <1>2 DEF Balances

LEMMA NextIInv == IInv /\ [Next]_vars => IInv'
  <1> SUFFICES ASSUME IInv, [Next]_vars PROVE IInv'
    OBVIOUS
  <1> USE DEF IInv
  <1>1. ASSUME NEW r \in Requests, Step(r) PROVE IInv'
    <2>1. HandlerTypes' /\ SlotsAccounted'
      BY <1>1, StepBalances, BalancePreserves DEF HandlerTypes
    <2>2. CallTypes' /\ AttemptsNumbered'
      <3>1. CASE EntersOnly(r)
        BY <1>1, <3>1, EnterPreserves
      <3>2. CASE UNCHANGED calls
        BY <1>1, <3>2 DEF calls, Network, CallTypes, AttemptsNumbered
      <3>3. CASE Call(r) \/ Deliveries(r)
        BY <1>1, <3>3, CallPreserves
      <3> QED BY <1>1, <3>1, <3>2, <3>3, HandlersEnter DEF Step
    <2> QED BY <2>1, <2>2
  <1>2. ASSUME NEW c \in Connections, CloseIdle(c) PROVE IInv'
    BY <1>2 DEF CloseIdle, calls, Network, CallTypes, HandlerTypes, AttemptsNumbered, SlotsAccounted, Held
  <1>3. CASE UNCHANGED vars
    BY <1>3 DEF vars, handlers, calls, Network, CallTypes, HandlerTypes, AttemptsNumbered, SlotsAccounted,
                Held
  <1> QED BY <1>1, <1>2, <1>3 DEF Next

THEOREM Invariance == Spec => []IInv
  BY InitIInv, NextIInv, PTL DEF Spec

(* The type invariant, for any requests: at most Capacity slots are free,  *)
(* and no call is tried more than MaxRetries + 1 times.                    *)
THEOREM TypeCorrect == Spec => []TypeOK
  <1>1. IInv => TypeOK
    <2> SUFFICES ASSUME IInv PROVE TypeOK
      OBVIOUS
    <2>1. slots \in 0 .. Capacity
      <3>1. Held \in SUBSET Requests
        BY DEF Held
      <3>2. Cardinality(Held) \in Nat
        BY <3>1, RequestsAssumption, FS_Subset, FS_CardinalityType
      <3> QED BY <3>2, CapacityAssumption DEF IInv, HandlerTypes, SlotsAccounted
    <2>2. inflight \in [Requests -> SUBSET (0 .. MaxRetries)]
          /\ executed \in [Requests -> SUBSET (0 .. MaxRetries)]
      <3>1. \A r \in Requests : 0 .. attempt[r] \subseteq 0 .. MaxRetries
        BY CapacityAssumption DEF IInv, CallTypes
      <3> QED BY <3>1 DEF IInv, CallTypes, AttemptsNumbered
    <2> QED BY <2>1, <2>2 DEF IInv, CallTypes, HandlerTypes, TypeOK
  <1> QED BY <1>1, Invariance, PTL

(* Admission slots are conserved, for any number of them and of requests.  *)
THEOREM SlotsConserved == Spec => []SlotsAccounted
  <1>1. IInv => SlotsAccounted
    BY DEF IInv
  <1> QED BY <1>1, Invariance, PTL

(* A tool that changes something never runs twice for one request, however *)
(* often safe tools are retried.                                           *)
THEOREM MutatingOnce == Spec => []MutatingCallsOnce
  <1>1. IInv => MutatingCallsOnce
    <2> SUFFICES ASSUME IInv, NEW r \in Requests, asked[r].tool \in Mutating
                 PROVE  Cardinality(executed[r]) <= 1
      BY DEF MutatingCallsOnce
    <2>1. attempt[r] = 0
      BY DEF Mutating, SafeRetryTools, IInv, AttemptsNumbered
    <2>2. executed[r] \in SUBSET {0}
      BY <2>1 DEF IInv, AttemptsNumbered
    <2>3. IsFiniteSet({0}) /\ Cardinality({0}) = 1
      BY FS_Singleton
    <2>4. Cardinality(executed[r]) <= Cardinality({0})
      BY <2>2, <2>3, FS_Subset
    <2> QED BY <2>3, <2>4
  <1> QED BY <1>1, Invariance, PTL
=============================================================================
