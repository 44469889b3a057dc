------------------------------ MODULE ChatTurns ------------------------------
(***************************************************************************)
(* The turns of conversations: what OrchestratorService.orchestrate does   *)
(* for one question, step by step, while other workers do the same for     *)
(* other questions, perhaps of the same session.  A step is one command to *)
(* Redis, one agent task or the language model's answer; between two steps *)
(* the others run.  Redis and the agents are external.                     *)
(*                                                                         *)
(* The session store is RedisConversationMemory: it implements             *)
(* ConversationMemory.  The response cache, the routing audit, the         *)
(* preferences and the episodes are RedisOrchestrationOperationalState;    *)
(* an error of theirs is swallowed and the turn goes on without.           *)
(***************************************************************************)
EXTENDS QueryPlanning

CONSTANTS
    Turns,          \* the chat calls
    Sessions,
    Users,
    Repositories,
    Revisions,
    NameLists,      \* the entities a turn may be about
    Requests,       \* the chat calls' arguments
    Preferences,
    Default,        \* the preferences of a session that set none
    MaximumTurns,
    MaximumEntities,
    EpisodeMaximum,
    AuditMaximum,
    MaxChanges      \* bound on expiries and changes of preferences

Optional(set) == set \cup {None}

ASSUME RequestAssumption ==
    \A r \in Requests : /\ r.session \in Sessions
                        /\ r.user \in Optional(Users)
                        /\ r.repository \in Optional(Repositories)
                        /\ r.revision \in Optional(Revisions)
                        /\ r.query.refers \in BOOLEAN
                        /\ {r.query.quoted, r.query.capitalised} \subseteq Seq(DOMAIN Folded)
ASSUME DefaultAssumption == Default \in Preferences
ASSUME NoneAssumption == None \notin Repositories \cup Revisions \cup Sessions
ASSUME MaximumAssumption ==
    {MaximumTurns, MaximumEntities, EpisodeMaximum, AuditMaximum} \subseteq Nat \ {0}
ASSUME BoundAssumption == MaxChanges \in Nat

VARIABLES
    session,        \* session -> its turns, active entities and scope
    cache,          \* key -> response: a partial function
    preferences,    \* session -> its preferences
    episodes,       \* user -> what to remember, the newest first
    audit,          \* session -> how many routing records it has; nobody reads them
    pc,             \* turn -> the step it is at
    request,        \* turn -> its arguments
    read,           \* turn -> the session as it read it, or as it last wrote it
    scope,          \* turn -> the effective repository and revision
    chosen,         \* turn -> the preferences it read
    analysis,       \* turn -> intent and entities of its question
    watched,        \* turn -> the session's value at WATCH
    intact,         \* turn -> whether nobody touched the session since
    outputs,        \* turn -> what the agents returned so far
    response,       \* turn -> the response it will return
    hit,            \* turn -> whether that came from the cache
    changes         \* expiries and changes of preferences so far

stores == <<cache, preferences, episodes, audit>>
results == <<outputs, response, hit>>
inputs == <<request, read, scope, chosen, analysis>>
vars == <<session, stores, pc, inputs, watched, intact, results, changes>>

Memory == INSTANCE ConversationMemory

Running == {"preferences", "recall", "watch user", "commit user", "lookup", "run",
            "watch answer", "commit answer", "store", "audit", "remember"}
Steps == Running \cup {"idle", "done", "failed"}

NoRequest == [session |-> None]
NoAnalysis == [intent |-> None, entities |-> <<>>]
NoResponse == [query |-> None, outputs |-> <<>>, evidence |-> {}, cited |-> {}, partial |-> TRUE]

Init ==
    /\ session = [s \in Sessions |-> Memory!EmptySession]
    /\ cache = <<>>
    /\ preferences = [s \in Sessions |-> Default]
    /\ episodes = [u \in Users |-> <<>>]
    /\ audit = [s \in Sessions |-> 0]
    /\ pc = [t \in Turns |-> "idle"]
    /\ request = [t \in Turns |-> NoRequest]
    /\ read = [t \in Turns |-> Memory!EmptySession]
    /\ scope = [t \in Turns |-> NoScope]
    /\ chosen = [t \in Turns |-> Default]
    /\ analysis = [t \in Turns |-> NoAnalysis]
    /\ watched = [t \in Turns |-> Memory!EmptySession]
    /\ intact = [t \in Turns |-> FALSE]
    /\ outputs = [t \in Turns |-> <<>>]
    /\ response = [t \in Turns |-> NoResponse]
    /\ hit = [t \in Turns |-> FALSE]
    /\ changes = 0

Goto(t, step) == pc' = [pc EXCEPT ![t] = step]

(* A write to a session's key, its expiry and an EXPIRE of it break the    *)
(* WATCH of every turn that has one on it.                                 *)
Touch(s) ==
    intact' = [t \in Turns |-> intact[t] /\ request[t].session # s]

(* get_context: one GET and, when there is a session, an EXPIRE.           *)
ReadContext(t, r) ==
    LET value == session[r.session]
    IN  /\ pc[t] = "idle"
        /\ request' = [request EXCEPT ![t] = r]
        /\ read' = [read EXCEPT ![t] = value]
        /\ scope' = [scope EXCEPT ![t] =
                        [repository |-> Memory!Or(r.repository, value.repository),
                         revision |-> Memory!Or(r.revision, value.revision)]]
        /\ IF value = Memory!EmptySession THEN UNCHANGED intact ELSE Touch(r.session)
        /\ Goto(t, "preferences")
        /\ UNCHANGED <<session, stores, chosen, analysis, watched, results, changes>>

ReadPreferences(t) ==
    /\ pc[t] = "preferences"
    /\ \E p \in {preferences[request[t].session], Default} :
           chosen' = [chosen EXCEPT ![t] = p]
    /\ Goto(t, "recall")
    /\ UNCHANGED <<session, stores, request, read, scope, analysis, watched,
                   intact, results, changes>>

(* The episodes of the repository that share a term with the question: the *)
(* three with the largest share of common terms.                           *)
Recall(user, q, repository) ==
    LET terms(e) == e.query.terms \cup {Folded[e.entities[i]] : i \in DOMAIN e.entities}
        common(e) == Cardinality(q.terms \cap terms(e))
        total(e) == Cardinality(q.terms \cup terms(e))
        closer(e, f) == common(e) * total(f) > common(f) * total(e)
        ranked == SortSeq(SelectSeq(episodes[user], LAMBDA e :
                              e.repository = repository /\ common(e) > 0), closer)
    IN  [i \in 1 .. (IF Len(ranked) > 3 THEN 3 ELSE Len(ranked)) |-> ranked[i].entities]

(* recall_episodes, when there is a user and a repository, and             *)
(* analyze_query.                                                          *)
RecallAndAnalyze(t) ==
    LET r == request[t]
        asks == r.user # None /\ scope[t].repository # None
    IN  /\ pc[t] = "recall"
        /\ \E recalled \in
                {<<>>} \cup (IF asks THEN {Recall(r.user, r.query, scope[t].repository)} ELSE {}) :
               analysis' = [analysis EXCEPT ![t] =
                   AnalyzeQuery(r.query, [active |-> read[t].active, recalled |-> recalled])]
        /\ Goto(t, "watch user")
        /\ UNCHANGED <<session, stores, request, read, scope, chosen, watched,
                       intact, results, changes>>

(* append_turn's WATCH and GET.  A write between the two breaks the WATCH  *)
(* like any later one, so they are one step.                               *)
WatchSession(t) ==
    /\ pc[t] \in {"watch user", "watch answer"}
    /\ watched' = [watched EXCEPT ![t] = session[request[t].session]]
    /\ intact' = [intact EXCEPT ![t] = TRUE]
    /\ Goto(t, IF pc[t] = "watch user" THEN "commit user" ELSE "commit answer")
    /\ UNCHANGED <<session, stores, inputs, results, changes>>

(* append_turn's MULTI, SET, EXEC: nothing is written, and the loop starts *)
(* again, when the WATCH was broken.                                       *)
(* Mutant: the transaction is executed without a look at the WATCH.        *)
CommitWithoutWatch(t, role, named, again, next) ==
    LET s == request[t].session
        value == Memory!Appended(watched[t], [role |-> role, by |-> t],
                     NamesOf(analysis[t].entities), named.repository, named.revision)
    IN  /\ session' = [session EXCEPT ![s] = value]
        /\ read' = [read EXCEPT ![t] = value]
        /\ Touch(s)
        /\ Goto(t, next)

CommitTurn(t, role, named, again, next) ==
    LET s == request[t].session
        value == Memory!Appended(watched[t], [role |-> role, by |-> t],
                     NamesOf(analysis[t].entities), named.repository, named.revision)
    IN  IF intact[t]
        THEN /\ session' = [session EXCEPT ![s] = value]
             /\ read' = [read EXCEPT ![t] = value]
             /\ Touch(s)
             /\ Goto(t, next)
        ELSE Goto(t, again) /\ UNCHANGED <<session, read, intact>>

CommitUser(t) ==
    /\ pc[t] = "commit user"
    /\ CommitTurn(t, "user", scope[t], "watch user", "lookup")
    /\ UNCHANGED <<stores, request, scope, chosen, analysis, watched, results, changes>>

CommitAnswer(t) ==
    /\ pc[t] = "commit answer"
    /\ CommitTurn(t, "assistant", NoScope, "watch answer", IF hit[t] THEN "audit" ELSE "store")
    /\ UNCHANGED <<stores, request, scope, chosen, analysis, watched, results, changes>>

(* A response is cached under its scope, the question's text up to case    *)
(* and spacing, and the preferences.                                       *)
CacheKey(t) == [repository |-> scope[t].repository, revision |-> scope[t].revision,
                query |-> request[t].query.key, preferences |-> chosen[t]]

(* Mutant: an answer that depends on the conversation is cached too.       *)
AlwaysCacheable(t) == Scoped(scope[t])

Cacheable(t) == Scoped(scope[t]) /\ ~request[t].query.refers

LookupCache(t) ==
    /\ pc[t] = "lookup"
    /\ \/ /\ Cacheable(t) /\ CacheKey(t) \in DOMAIN cache
          /\ response' = [response EXCEPT ![t] = cache[CacheKey(t)]]
          /\ hit' = [hit EXCEPT ![t] = TRUE]
          /\ Goto(t, "watch answer")
       \/ /\ Goto(t, "run")
          /\ UNCHANGED <<response, hit>>
    /\ UNCHANGED <<session, stores, inputs, watched, intact, outputs, changes>>

(* _execute_task: the next operation of the plan, in the scope the session *)
(* had after the question was appended.                                    *)
RunTask(t) ==
    LET plan == RouteToAgents(analysis[t])
        at == [repository |-> read[t].repository, revision |-> read[t].revision]
    IN  /\ pc[t] = "run"
        /\ ~PlanEnded(plan, outputs[t])
        /\ \E o \in TaskOutputs(plan[Len(outputs[t]) + 1], analysis[t], at, outputs[t]) :
               outputs' = [outputs EXCEPT ![t] = Append(@, o)]
        /\ UNCHANGED <<session, stores, pc, inputs, watched, intact,
                       response, hit, changes>>

Synthesize(t) ==
    /\ pc[t] = "run"
    /\ PlanEnded(RouteToAgents(analysis[t]), outputs[t])
    /\ \E r \in Enhanced(SynthesizeResponse(request[t].query, outputs[t])) :
           response' = [response EXCEPT ![t] = r]
    /\ Goto(t, "watch answer")
    /\ UNCHANGED <<session, stores, inputs, watched, intact, outputs, hit, changes>>

StoreResponse(t) ==
    /\ pc[t] = "store"
    /\ \/ /\ Cacheable(t) /\ ~response[t].partial
          /\ cache' = [k \in DOMAIN cache \cup {CacheKey(t)} |->
                          IF k = CacheKey(t) THEN response[t] ELSE cache[k]]
       \/ UNCHANGED cache
    /\ Goto(t, "audit")
    /\ UNCHANGED <<session, preferences, episodes, audit, inputs, watched,
                   intact, results, changes>>

AppendAudit(t) ==
    LET s == request[t].session
    IN  /\ pc[t] = "audit"
        /\ \/ audit' = [audit EXCEPT ![s] = IF @ < AuditMaximum THEN @ + 1 ELSE @]
           \/ UNCHANGED audit
        /\ Goto(t, "remember")
        /\ UNCHANGED <<session, cache, preferences, episodes, inputs, watched,
                       intact, results, changes>>

(* orchestrate returns; the turn's own data is gone.                       *)
Forget(t) ==
    /\ read' = [read EXCEPT ![t] = Memory!EmptySession]
    /\ scope' = [scope EXCEPT ![t] = NoScope]
    /\ chosen' = [chosen EXCEPT ![t] = Default]
    /\ analysis' = [analysis EXCEPT ![t] = NoAnalysis]
    /\ watched' = [watched EXCEPT ![t] = Memory!EmptySession]
    /\ intact' = [intact EXCEPT ![t] = FALSE]
    /\ outputs' = [outputs EXCEPT ![t] = <<>>]
    /\ response' = [response EXCEPT ![t] = NoResponse]
    /\ hit' = [hit EXCEPT ![t] = FALSE]
    /\ UNCHANGED request

(* Mutant: the list is never trimmed.                                      *)
PushWithoutTrim(list, item, maximum) == <<item>> \o list

PushFront(list, item, maximum) ==
    SubSeq(<<item>> \o list, 1, IF Len(list) < maximum THEN Len(list) + 1 ELSE maximum)

RememberEpisode(t) ==
    LET r == request[t]
        episode == [query |-> r.query, entities |-> NamesOf(analysis[t].entities),
                    repository |-> scope[t].repository, revision |-> scope[t].revision]
    IN  /\ pc[t] = "remember"
        /\ \/ /\ r.user # None /\ Scoped(scope[t]) /\ ~response[t].partial
              /\ episodes' = [episodes EXCEPT ![r.user] = PushFront(@, episode, EpisodeMaximum)]
           \/ UNCHANGED episodes
        /\ Goto(t, "done")
        /\ Forget(t)
        /\ UNCHANGED <<session, cache, preferences, audit, changes>>

(* A session command fails, the caller cancels, or the worker dies.        *)
Fail(t) ==
    /\ pc[t] \in Running
    /\ Goto(t, "failed")
    /\ Forget(t)
    /\ UNCHANGED <<session, stores, changes>>

(* Redis drops what nobody touched for its TTL; sessions change their      *)
(* preferences by a call of their own.                                     *)
Change ==
    /\ changes < MaxChanges
    /\ changes' = changes + 1

ExpireSession(s) ==
    /\ Change
    /\ session[s] # Memory!EmptySession
    /\ session' = [session EXCEPT ![s] = Memory!EmptySession]
    /\ Touch(s)
    /\ UNCHANGED <<stores, pc, inputs, watched, results>>

ExpireResponse(k) ==
    /\ Change
    /\ cache' = [c \in DOMAIN cache \ {k} |-> cache[c]]
    /\ UNCHANGED <<session, preferences, episodes, audit, pc, inputs, watched, intact, results>>

ExpireEpisodes(u) ==
    /\ Change
    /\ episodes' = [episodes EXCEPT ![u] = <<>>]
    /\ UNCHANGED <<session, cache, preferences, audit, pc, inputs, watched, intact, results>>

ExpireAudit(s) ==
    /\ Change
    /\ audit' = [audit EXCEPT ![s] = 0]
    /\ UNCHANGED <<session, cache, preferences, episodes, pc, inputs, watched, intact, results>>

(* Also the expiry of what was set: p is Default.                          *)
SetPreferences(s, p) ==
    /\ Change
    /\ preferences' = [preferences EXCEPT ![s] = p]
    /\ UNCHANGED <<session, cache, episodes, audit, pc, inputs, watched, intact, results>>

Step(t) ==
    \/ \E r \in Requests : ReadContext(t, r)
    \/ ReadPreferences(t)
    \/ RecallAndAnalyze(t)
    \/ WatchSession(t)
    \/ CommitUser(t)
    \/ LookupCache(t)
    \/ RunTask(t)
    \/ Synthesize(t)
    \/ CommitAnswer(t)
    \/ StoreResponse(t)
    \/ AppendAudit(t)
    \/ RememberEpisode(t)
    \/ Fail(t)

Changes ==
    \/ \E s \in Sessions : \/ ExpireSession(s)
                          \/ ExpireAudit(s)
                          \/ \E p \in Preferences : SetPreferences(s, p)
    \/ \E k \in DOMAIN cache : ExpireResponse(k)
    \/ \E u \in Users : ExpireEpisodes(u)

Next == \/ \E t \in Turns : Step(t)
        \/ Changes

Spec == Init /\ [][Next]_vars

-----------------------------------------------------------------------------
ScopeOf(value) == [repository |-> value.repository, revision |-> value.revision]
AnyScope == [repository : Optional(Repositories), revision : Optional(Revisions)]
TurnsOf(s) == {t \in Turns : request[t].session = s}

(* The type invariant, with the bounds on what the stores keep.            *)
TypeOK ==
    /\ pc \in [Turns -> Steps]
    /\ request \in [Turns -> Requests \cup {NoRequest}]
    /\ scope \in [Turns -> AnyScope]
    /\ chosen \in [Turns -> Preferences]
    /\ preferences \in [Sessions -> Preferences]
    /\ intact \in [Turns -> BOOLEAN]
    /\ hit \in [Turns -> BOOLEAN]
    /\ changes \in 0 .. MaxChanges
    /\ \A s \in Sessions :
           /\ ScopeOf(session[s]) \in AnyScope
           /\ Len(session[s].turns) \in 0 .. MaximumTurns
           /\ Len(session[s].active) \in 0 .. MaximumEntities
           /\ audit[s] \in 0 .. AuditMaximum
    /\ \A u \in Users : Len(episodes[u]) \in 0 .. EpisodeMaximum

(* The WATCH loop makes every append_turn atomic: however the turns of one *)
(* session interleave, none is lost and none is written twice              *)
(* (redis_memory.py: multiple workers cannot lose turns).                  *)
ImplementsAtomicMemory == Memory!Spec

(* A cached response may be given to anyone who asks the same of the same  *)
(* revision, so it must owe nothing to the conversation it was made in: it *)
(* is what a plan made without any context returned, every task of it      *)
(* successful and every source of it read at the scope of the key.         *)
CachedIsContextFree ==
    \A k \in DOMAIN cache :
        LET r == cache[k]
            apart == AnalyzeQuery(r.query, NoContext)
        IN  /\ r.query.key = k.query
            /\ [i \in DOMAIN r.outputs |-> r.outputs[i].operation] = RouteToAgents(apart)
            /\ \A i \in DOMAIN r.outputs :
                   /\ r.outputs[i].success
                   /\ r.outputs[i].scope \in {NoScope, ScopeOf(k)}
                   /\ r.outputs[i].operation = "find_entity" =>
                         \A j \in DOMAIN r.outputs[i].entities :
                             Contains(NamesOf(apart.entities), r.outputs[i].entities[j].requested)

(* Repository and revision are stored as two fields and each may be left   *)
(* out of a request.  However turns, their retries and the expiry of a     *)
(* session interleave, a session never pairs the repository of one request *)
(* with the revision of another, nor does a running turn, unless a request *)
(* itself named only one of the two.                                       *)
NamedByHalf(r) == (r.repository = None) # (r.revision = None)
ScopePairsStayTogether ==
    \A s \in Sessions :
        \/ \E t \in TurnsOf(s) : NamedByHalf(request[t])
        \/ {ScopeOf(session[s])} \cup {scope[t] : t \in TurnsOf(s)}
                \cup {ScopeOf(read[t]) : t \in TurnsOf(s)}
              \subseteq {ScopeOf(request[t]) : t \in TurnsOf(s)} \cup {NoScope}
==============================================================================
