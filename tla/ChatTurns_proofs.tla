--------------------------- MODULE ChatTurns_proofs ---------------------------
(***************************************************************************)
(* Theorems of ChatTurns, for any turns, sessions and requests: a WATCH    *)
(* makes append_turn atomic, the repository and the revision of a session  *)
(* stay together, everything kept stays within its limits, and what is     *)
(* cached owes nothing to a conversation.                                  *)
(***************************************************************************)
EXTENDS ChatTurns, Subsequences_proofs

(* The last n elements of a list, or all of it when it has fewer.          *)
LEMMA LatestIsShort ==
    ASSUME NEW x, Len(x) \in Nat, NEW n \in Nat \ {0}
    PROVE  /\ IsList(Memory!Latest(x, n))
           /\ Len(Memory!Latest(x, n)) \in 0 .. n
  <1>1. PICK first \in Int : /\ Memory!Latest(x, n) = SubSeq(x, first, Len(x))
                             /\ first >= 1 /\ Len(x) - first + 1 <= n
    <2>1. CASE Len(x) > n
      BY <2>1 DEF Memory!Latest
    <2>2. CASE ~(Len(x) > n)
      BY <2>2 DEF Memory!Latest
    <2> QED BY <2>1, <2>2
  <1>2. /\ SubSeq(x, first, Len(x)) \in Seq({x[i] : i \in first .. Len(x)})
        /\ Len(SubSeq(x, first, Len(x))) = IF first <= Len(x) THEN Len(x) - first + 1 ELSE 0
    BY <1>1, SubSeqProperties
  <1>3. IsList(SubSeq(x, first, Len(x)))
    BY <1>2, SequencesAreLists, Zenon
  <1>4. Len(SubSeq(x, first, Len(x))) \in 0 .. n
    BY <1>1, <1>2
  <1> QED BY <1>1, <1>3, <1>4

LEMMA SameSubsequence == \A x, keep : Memory!Subsequence(x, keep) = Subsequence(x, keep)
  BY DEF Memory!Subsequence, Subsequence

(***************************************************************************)
(* Planning: what QueryPlanning's operators return for any question.       *)
(***************************************************************************)
LEMMA PlansAreLists ==
    ASSUME NEW a
    PROVE  IsList(RouteToAgents(a))
  BY TuplesAreLists DEF RouteToAgents, Located

LEMMA OwnEntitiesAreLists ==
    ASSUME NEW r \in Requests, NEW intent
    PROVE  /\ IsList(ExtractEntities(r.query))
           /\ IsList(EntitiesOf(ConceptNames(r.query, intent), "concept_map"))
  <1>1. IsList(ExtractEntities(r.query))
    <2> DEFINE said == r.query.quoted \o r.query.capitalised
               spelled(i) == IF Folded[said[i]] = "fastapi" THEN "FastAPI" ELSE said[i]
               counts == {i \in DOMAIN said : said[i] \notin IgnoredNames}
               keep == {i \in counts : \A j \in counts : spelled(j) = spelled(i) => i <= j}
               entities == [i \in DOMAIN said |->
                   Entity(spelled(i), IF i <= Len(r.query.quoted) THEN "backtick" ELSE "identifier")]
    <2>1. IsList(said)
      <3>1. r.query.quoted \in Seq(DOMAIN Folded) /\ r.query.capitalised \in Seq(DOMAIN Folded)
        BY RequestAssumption
      <3> QED BY <3>1, ConcatProperties, SequencesAreLists
    <2>2. entities = [i \in DOMAIN said |-> entities[i]]
      OBVIOUS
    <2>3. ExtractEntities(r.query) = Subsequence(entities, keep)
      BY DEF ExtractEntities
    <2> HIDE DEF entities, keep, said
    <2> QED BY <2>1, <2>2, <2>3, Mapped, KeptIsList
  <1>2. IsList(ConceptNames(r.query, intent))
    BY TuplesAreLists DEF ConceptNames
  <1>3. IsList(EntitiesOf(ConceptNames(r.query, intent), "concept_map"))
    BY <1>2, Mapped DEF EntitiesOf
  <1> QED BY <1>1, <1>3

(* A question that does not refer to the conversation is about the same    *)
(* whatever the conversation was.                                          *)
LEMMA AnalysisApart ==
    ASSUME NEW q, ~q.refers, NEW context
    PROVE  AnalyzeQuery(q, context) = AnalyzeQuery(q, NoContext)
  BY DEF AnalyzeQuery

LEMMA AnalysesAreLists ==
    ASSUME NEW r \in Requests, NEW context
    PROVE  IsList(AnalyzeQuery(r.query, context).entities)
  <1> DEFINE explicit == ExtractEntities(r.query)
             concepts == EntitiesOf(ConceptNames(r.query, Classify(r.query)), "concept_map")
             remembered == EntitiesOf(Remembered(context), "conversation")
  <1>1. IsList(explicit) /\ IsList(concepts)
    BY OwnEntitiesAreLists
  <1>2. IsList(remembered)
    <2> DEFINE names == context.active \o FlattenSeq(context.recalled)
    <2>1. PICK m \in Int, n \in Int : Remembered(context) = SubSeq(names, m, n)
      <3> DEFINE first == IF Len(names) > 3 THEN Len(names) - 2 ELSE 1
      <3>1. Remembered(context) = SubSeq(names, first, Len(names))
        BY DEF Remembered
      <3>2. first \in Int /\ Len(names) \in Int
        OBVIOUS
      <3> HIDE DEF first, names
      <3> QED BY <3>1, <3>2
    <2>2. SubSeq(names, m, n) \in Seq({names[i] : i \in m .. n})
      BY SubSeqProperties
    <2>3. IsList(Remembered(context))
      BY <2>1, <2>2, SequencesAreLists
    <2> QED BY <2>3, Mapped DEF EntitiesOf
  <1>3. AnalyzeQuery(r.query, context).entities \in {explicit, concepts, remembered}
    BY DEF AnalyzeQuery
  <1> QED BY <1>1, <1>2, <1>3

LEMMA NamesAreLists ==
    ASSUME NEW entities, IsList(entities)
    PROVE  IsList(NamesOf(entities)) /\ Len(NamesOf(entities)) = Len(entities)
  BY Mapped DEF NamesOf

(* An entity that was found was looked for.                                *)
LEMMA FoundWasAskedFor ==
    ASSUME NEW names, IsList(names), NEW known
    PROVE  \A j \in DOMAIN FoundEntities(names, known) :
               Contains(names, FoundEntities(names, known)[j].requested)
  <1> DEFINE selected == [i \in DOMAIN names |->
                 SelectEntity(names[i], IF known THEN Catalog[names[i]] ELSE <<>>)]
             keep == {i \in DOMAIN names : selected[i] # Nothing}
             asked == {e \in {selected[i] : i \in DOMAIN names} : Contains(names, e.requested)}
  <1>1. FoundEntities(names, known) = Subsequence(selected, keep)
    BY DEF FoundEntities
  <1>2. IsList(selected) /\ Len(selected) = Len(names)
    <2>1. selected = [i \in DOMAIN names |-> selected[i]]
      OBVIOUS
    <2> HIDE DEF selected
    <2> QED BY <2>1, Mapped
  <1>3. ASSUME NEW i \in 1 .. Len(selected), i \in keep
        PROVE  selected[i] \in asked
    <2>1. i \in DOMAIN names /\ i \in 1 .. Len(names)
      BY <1>2, <1>3
    <2>2. selected[i] = Nothing \/ selected[i].requested = names[i]
      BY <2>1 DEF SelectEntity
    <2> QED BY <1>3, <2>1, <2>2 DEF Contains
  <1>4. Subsequence(selected, keep) \in Seq(asked)
    <2> HIDE DEF selected, keep, asked
    <2> QED BY <1>2, <1>3, SubsequenceKeeps DEF IsList
  <1> HIDE DEF selected, keep
  <1> QED BY <1>1, <1>4

(* What a plan made in the scope at may have as the output of an operation *)
(* about these names.                                                      *)
Attributed(o, operation, names, at) ==
    /\ o.operation = operation
    /\ o.scope \in {NoScope, at}
    /\ operation = "find_entity" =>
          \A j \in DOMAIN o.entities : Contains(names, o.entities[j].requested)

LEMMA OutputsAreAttributed ==
    ASSUME NEW operation, NEW a, IsList(a.entities), NEW at, NEW prior,
           NEW o \in TaskOutputs(operation, a, at, prior)
    PROVE  Attributed(o, operation, NamesOf(a.entities), at)
  <1>1. CASE o = FailedOutput(operation)
    BY <1>1 DEF FailedOutput, Attributed
  <1>2. CASE o \in Answers(operation, a, at, prior)
    <2> DEFINE names == NamesOf(a.entities)
    <2>1. CASE operation = "find_entity"
      <3>1. PICK known \in BOOLEAN : \E items :
                o = Output(operation, FoundEntities(names, known), NoScope, items)
        BY <1>2, <2>1 DEF Answers
      <3>2. IsList(names)
        BY NamesAreLists
      <3> HIDE DEF names
      <3>3. o.entities = FoundEntities(names, known) /\ o.scope = NoScope
               /\ o.operation = operation
        BY <3>1 DEF Output
      <3> QED BY <3>2, <3>3, FoundWasAskedFor DEF Attributed, names
    <2>2. CASE operation # "find_entity"
      <3>1. \E from \in {NoScope, at} : \E entities, items :
                o = Output(operation, entities, from, items)
        BY <1>2, <2>2 DEF Answers
      <3> QED BY <2>2, <3>1 DEF Output, Attributed
    <2> QED BY <2>1, <2>2
  <1> QED BY <1>1, <1>2 DEF TaskOutputs

(***************************************************************************)
(* The session: what a WATCH guarantees, and where its scope comes from.   *)
(***************************************************************************)
Committing == {"commit user", "commit answer"}

(* What a turn holds, and what is known of the stored sessions: records    *)
(* with a scope.  A turn that started has a request, and keeps it.         *)
Types ==
    /\ pc \in [Turns -> Steps]
    /\ request \in [Turns -> Requests \cup {NoRequest}]
    /\ scope \in [Turns -> AnyScope]
    /\ intact \in [Turns -> BOOLEAN]
    /\ session = [s \in Sessions |-> session[s]]
    /\ read = [t \in Turns |-> read[t]]
    /\ watched = [t \in Turns |-> watched[t]]
    /\ \A s \in Sessions : ScopeOf(session[s]) \in AnyScope
    /\ \A t \in Turns : ScopeOf(read[t]) \in AnyScope /\ ScopeOf(watched[t]) \in AnyScope
    /\ \A t \in Turns : IF pc[t] = "idle" THEN request[t] = NoRequest ELSE request[t] \in Requests

(* As long as its WATCH is intact, a turn holds the stored session.        *)
WatchedIsCurrent ==
    \A t \in Turns : pc[t] \in Committing /\ intact[t] => watched[t] = session[request[t].session]

Half(s) == \E t \in TurnsOf(s) : NamedByHalf(request[t])
Named(s) == {ScopeOf(request[t]) : t \in TurnsOf(s)} \cup {NoScope}

(* ScopePairsStayTogether, for what a turn watches as well.                *)
ScopesNamed ==
    \A s \in Sessions :
        \/ Half(s)
        \/ /\ ScopeOf(session[s]) \in Named(s)
           /\ \A t \in TurnsOf(s) : /\ scope[t] \in Named(s)
                                    /\ ScopeOf(read[t]) \in Named(s)
                                    /\ pc[t] \in Committing => ScopeOf(watched[t]) \in Named(s)

IInv == Types /\ WatchedIsCurrent /\ ScopesNamed

LEMMA Updated ==
    ASSUME NEW S, NEW f, f = [x \in S |-> f[x]], NEW a \in S, NEW v, NEW g,
           g = [f EXCEPT ![a] = v]
    PROVE  /\ g = [x \in S |-> g[x]]
           /\ \A x \in S : g[x] = IF x = a THEN v ELSE f[x]
  OBVIOUS

LEMMA EmptyScope == ScopeOf(Memory!EmptySession) = NoScope /\ NoScope \in AnyScope
  BY DEF ScopeOf, Memory!EmptySession, NoScope, AnyScope, Optional

LEMMA RequestScope ==
    ASSUME NEW r \in Requests
    PROVE  /\ ScopeOf(r) \in AnyScope
           /\ r.session \in Sessions /\ r # NoRequest
           /\ r.repository \in Optional(Repositories) /\ r.revision \in Optional(Revisions)
  BY RequestAssumption, NoneAssumption DEF ScopeOf, AnyScope, NoRequest

(* The scope of a session after an append or of a turn after its read: the *)
(* one that is named or, when none is, the one there was.                  *)
LEMMA OrScope ==
    ASSUME NEW named, NEW value, ScopeOf(named) \in AnyScope, ScopeOf(value) \in AnyScope,
           NEW result,
           result = [repository |-> Memory!Or(named.repository, value.repository),
                     revision |-> Memory!Or(named.revision, value.revision)]
    PROVE  /\ result \in AnyScope
           /\ ~NamedByHalf(named) => result \in {ScopeOf(named), ScopeOf(value)}
  <1>1. /\ named.repository \in Optional(Repositories) /\ named.revision \in Optional(Revisions)
        /\ value.repository \in Optional(Repositories) /\ value.revision \in Optional(Revisions)
    BY DEF ScopeOf, AnyScope
  <1> QED BY <1>1 DEF ScopeOf, AnyScope, Memory!Or, NamedByHalf, Optional

LEMMA InitIInv == Init => IInv
  <1> SUFFICES ASSUME Init PROVE IInv
    OBVIOUS
  <1>1. Types
    BY EmptyScope DEF Init, Types, Steps, Running
  <1>2. WatchedIsCurrent
    BY DEF Init, WatchedIsCurrent, Committing
  <1>3. ScopesNamed
    BY EmptyScope DEF Init, ScopesNamed, Named, TurnsOf, Committing
  <1> QED BY <1>1, <1>2, <1>3 DEF IInv

(***************************************************************************)
(* The steps, by what they do to the session and to what turns hold of it. *)
(***************************************************************************)
Held == <<session, request, read, scope, watched, intact>>
Moved(t, step) == pc[t] \in Running /\ step \in Steps \ {"idle"} /\ Goto(t, step)
Quiet == /\ UNCHANGED Held
         /\ \/ UNCHANGED pc
            \/ \E t \in Turns, step \in Steps \ Committing : Moved(t, step)

LEMMA QuietSteps ==
    ASSUME Types, NEW t \in Turns,
           \/ ReadPreferences(t) \/ RecallAndAnalyze(t) \/ LookupCache(t) \/ RunTask(t)
           \/ Synthesize(t) \/ StoreResponse(t) \/ AppendAudit(t)
    PROVE  Quiet
  <1> USE DEF Quiet, Held, Moved, Running, Steps, Committing, inputs, results
  <1>1. CASE ReadPreferences(t) \/ RecallAndAnalyze(t)
    BY <1>1 DEF ReadPreferences, RecallAndAnalyze
  <1>2. CASE LookupCache(t)
    BY <1>2 DEF LookupCache
  <1>3. CASE RunTask(t) \/ Synthesize(t)
    BY <1>3 DEF RunTask, Synthesize
  <1>4. CASE StoreResponse(t) \/ AppendAudit(t)
    BY <1>4 DEF StoreResponse, AppendAudit
  <1> QED BY <1>1, <1>2, <1>3, <1>4

LEMMA QuietPreserves == IInv /\ Quiet => IInv'
  <1> SUFFICES ASSUME IInv, Quiet PROVE IInv'
    OBVIOUS
  <1> USE DEF IInv, Held
  <1>1. pc' \in [Turns -> Steps] /\ \A t \in Turns : pc'[t] = "idle" <=> pc[t] = "idle"
    <2>1. CASE UNCHANGED pc
      <3>1. pc \in [Turns -> Steps]
        BY DEF Types
      <3> QED BY <2>1, <3>1
    <2>2. CASE \E t \in Turns, step \in Steps \ Committing : Moved(t, step)
      <3>1. PICK t \in Turns, step \in Steps \ Committing : Moved(t, step)
        BY <2>2
      <3>2. pc \in [Turns -> Steps] /\ pc' = [pc EXCEPT ![t] = step] /\ step # "idle"
        BY <3>1 DEF Moved, Goto, Types
      <3>3. pc[t] # "idle"
        BY <3>1 DEF Moved, Running
      <3> QED BY <3>2, <3>3
    <2> QED BY <2>1, <2>2 DEF Quiet
  <1>2. Types'
    BY <1>1 DEF Quiet, Types, ScopeOf
  <1>3. WatchedIsCurrent'
    BY DEF Quiet, Moved, Goto, WatchedIsCurrent, Types
  <1>4. ScopesNamed'
    <2>1. \A t \in Turns : pc'[t] \in Committing => pc[t] \in Committing
      BY DEF Quiet, Moved, Goto, Types
    <2> QED BY <2>1 DEF Quiet, ScopesNamed, Half, Named, TurnsOf, ScopeOf
  <1> QED BY <1>2, <1>3, <1>4
(* Unless a request of the session names half a scope, every scope there   *)
(* is in it names both parts or none.                                      *)
LEMMA NamedWhole ==
    ASSUME NEW s, ~Half(s), NEW at \in Named(s)
    PROVE  ~NamedByHalf(at)
  BY DEF Half, Named, NamedByHalf, ScopeOf, NoScope

(***************************************************************************)
(* The read that starts a turn.                                            *)
(***************************************************************************)
LEMMA ReadContextPreserves ==
    ASSUME IInv, NEW t \in Turns, NEW r \in Requests, ReadContext(t, r)
    PROVE  IInv'
  <1> DEFINE value == session[r.session]
             s == r.session
  <1> USE DEF IInv
  <1>1. /\ ScopeOf(r) \in AnyScope /\ s \in Sessions /\ r # NoRequest
        /\ request[t] = NoRequest /\ s # None
        /\ ScopeOf(value) \in AnyScope
    BY RequestScope, NoneAssumption DEF ReadContext, Types
  <1>2. /\ scope'[t] \in AnyScope
        /\ ~NamedByHalf(r) => scope'[t] \in {ScopeOf(r), ScopeOf(value)}
    <2>1. scope'[t] = [repository |-> Memory!Or(r.repository, value.repository),
                       revision |-> Memory!Or(r.revision, value.revision)]
      BY DEF ReadContext, Types
    <2> QED BY <1>1, <2>1, OrScope
  <1>3. /\ pc' = [pc EXCEPT ![t] = "preferences"] /\ request' = [request EXCEPT ![t] = r]
        /\ read' = [read EXCEPT ![t] = value] /\ UNCHANGED <<session, watched>>
        /\ \E v : scope' = [scope EXCEPT ![t] = v]
    BY DEF ReadContext, Goto
  <1>4. intact' \in [Turns -> BOOLEAN] /\ \A u \in Turns : intact'[u] => intact[u]
    BY DEF ReadContext, Touch, Types
  <1>5. Types'
    <2>1. scope' \in [Turns -> AnyScope]
      BY <1>2, <1>3 DEF Types
    <2>2. read' = [u \in Turns |-> read'[u]] /\ \A u \in Turns : ScopeOf(read'[u]) \in AnyScope
      BY <1>1, <1>3 DEF Types
    <2>3. /\ pc' \in [Turns -> Steps] /\ request' \in [Turns -> Requests \cup {NoRequest}]
          /\ \A u \in Turns : IF pc'[u] = "idle" THEN request'[u] = NoRequest
                                                 ELSE request'[u] \in Requests
      BY <1>3 DEF Types, Steps, Running
    <2> QED BY <1>3, <1>4, <2>1, <2>2, <2>3 DEF Types, ScopeOf
  <1>6. WatchedIsCurrent'
    BY <1>3, <1>4 DEF WatchedIsCurrent, Types, Committing
  <1>7. ScopesNamed'
    <2> SUFFICES ASSUME NEW q \in Sessions, ~Half(q)'
                 PROVE  /\ ScopeOf(session[q]) \in Named(q)'
                        /\ \A u \in TurnsOf(q)' :
                              /\ scope'[u] \in Named(q)'
                              /\ ScopeOf(read'[u]) \in Named(q)'
                              /\ pc'[u] \in Committing => ScopeOf(watched[u]) \in Named(q)'
      BY <1>3 DEF ScopesNamed, ScopeOf
    <2>1. \A u \in Turns : u # t => /\ request'[u] = request[u] /\ scope'[u] = scope[u]
                                    /\ read'[u] = read[u] /\ pc'[u] = pc[u]
      BY <1>3 DEF Types
    <2>2. request'[t] = r /\ read'[t] = value /\ pc'[t] = "preferences"
      BY <1>3 DEF Types
    <2>3. TurnsOf(q) \subseteq TurnsOf(q)' /\ t \notin TurnsOf(q)
      BY <1>1, <2>1, NoneAssumption DEF TurnsOf, NoRequest
    <2>4. Named(q) \subseteq Named(q)' /\ ~Half(q)
      <3>1. \A u \in TurnsOf(q) : u \in TurnsOf(q)' /\ request'[u] = request[u]
        BY <2>1, <2>3 DEF TurnsOf
      <3> QED BY <3>1 DEF Named, Half, ScopeOf, NamedByHalf
    <2>5. /\ ScopeOf(session[q]) \in Named(q)
          /\ \A u \in TurnsOf(q) : /\ scope[u] \in Named(q) /\ ScopeOf(read[u]) \in Named(q)
                                   /\ pc[u] \in Committing => ScopeOf(watched[u]) \in Named(q)
      BY <2>4 DEF ScopesNamed
    <2>6. ASSUME NEW u \in TurnsOf(q)', u # t
          PROVE  /\ scope'[u] \in Named(q)' /\ ScopeOf(read'[u]) \in Named(q)'
                 /\ pc'[u] \in Committing => ScopeOf(watched[u]) \in Named(q)'
      BY <2>1, <2>4, <2>5, <2>6 DEF TurnsOf
    <2>7. ASSUME t \in TurnsOf(q)'
          PROVE  /\ scope'[t] \in Named(q)' /\ ScopeOf(read'[t]) \in Named(q)'
                 /\ pc'[t] \notin Committing
      <3>1. q = s /\ ScopeOf(r) \in Named(q)' /\ ~NamedByHalf(r)
        BY <2>2, <2>7 DEF TurnsOf, Named, Half
      <3>2. ScopeOf(value) \in Named(q)'
        BY <2>4, <2>5, <3>1
      <3> QED BY <1>2, <2>2, <3>1, <3>2 DEF Committing
    <2> QED BY <2>4, <2>5, <2>6, <2>7
  <1> QED BY <1>5, <1>6, <1>7
(***************************************************************************)
(* The steps that leave the requests alone.                                *)
(***************************************************************************)
LEMMA SameRequests ==
    ASSUME UNCHANGED request
    PROVE  \A s : /\ TurnsOf(s)' = TurnsOf(s) /\ Named(s)' = Named(s)
                  /\ Half(s)' <=> Half(s)
  BY DEF TurnsOf, Named, Half, ScopeOf, NamedByHalf

LEMMA WatchPreserves ==
    ASSUME IInv, NEW t \in Turns, WatchSession(t)
    PROVE  IInv'
  <1> USE DEF IInv
  <1>1. /\ UNCHANGED <<session, request, read, scope>>
        /\ watched' = [watched EXCEPT ![t] = session[request[t].session]]
        /\ intact' = [intact EXCEPT ![t] = TRUE]
        /\ pc[t] # "idle" /\ request[t].session \in Sessions
        /\ \E step \in {"commit user", "commit answer"} : pc' = [pc EXCEPT ![t] = step]
    BY RequestScope DEF WatchSession, Goto, inputs, Types
  <1>2. Types'
    <2>1. /\ watched' = [u \in Turns |-> watched'[u]]
          /\ \A u \in Turns : ScopeOf(watched'[u]) \in AnyScope
      BY <1>1 DEF Types
    <2>2. /\ pc' \in [Turns -> Steps] /\ intact' \in [Turns -> BOOLEAN]
          /\ \A u \in Turns : pc'[u] = "idle" <=> pc[u] = "idle"
      BY <1>1 DEF Types, Steps, Running
    <2> QED BY <1>1, <2>1, <2>2 DEF Types, ScopeOf
  <1>3. WatchedIsCurrent'
    BY <1>1 DEF WatchedIsCurrent, Types
  <1>4. ScopesNamed'
    <2> SUFFICES ASSUME NEW s \in Sessions, ~Half(s)
                 PROVE  /\ ScopeOf(session[s]) \in Named(s)
                        /\ \A u \in TurnsOf(s) :
                              /\ scope[u] \in Named(s) /\ ScopeOf(read[u]) \in Named(s)
                              /\ pc'[u] \in Committing => ScopeOf(watched'[u]) \in Named(s)
      BY <1>1, SameRequests, ZenonT(60) DEF ScopesNamed, ScopeOf
    <2>1. ASSUME NEW u \in TurnsOf(s), u = t
          PROVE  ScopeOf(watched'[u]) \in Named(s)
      BY <1>1, <2>1 DEF ScopesNamed, TurnsOf, Types
    <2>2. ASSUME NEW u \in TurnsOf(s), u # t, pc'[u] \in Committing
          PROVE  ScopeOf(watched'[u]) \in Named(s)
      BY <1>1, <2>2 DEF ScopesNamed, TurnsOf, Types
    <2> QED BY <2>1, <2>2 DEF ScopesNamed
  <1> QED BY <1>2, <1>3, <1>4

(* A commit whose WATCH is broken only goes back to it.                    *)
LEMMA CommitPreserves ==
    ASSUME IInv, NEW t \in Turns, CommitUser(t) \/ CommitAnswer(t)
    PROVE  IInv'
  <1> DEFINE s == request[t].session
  <1> USE DEF IInv
  <1>1. PICK role \in {"user", "assistant"}, named \in {scope[t], NoScope},
             again \in {"watch user", "watch answer"}, next \in {"lookup", "audit", "store"} :
             CommitTurn(t, role, named, again, next)
    BY DEF CommitUser, CommitAnswer
  <1>2. /\ UNCHANGED <<request, scope, watched>>
        /\ pc[t] \in Committing /\ s \in Sessions
    BY RequestScope DEF CommitUser, CommitAnswer, Committing, Types
  <1>3. PICK step \in Steps \ ({"idle"} \cup Committing) : pc' = [pc EXCEPT ![t] = step]
    BY <1>1 DEF CommitTurn, Goto, Steps, Running, Committing
  <1>4. /\ pc' \in [Turns -> Steps] /\ pc'[t] \notin Committing /\ pc'[t] # "idle"
        /\ \A u \in Turns : u # t => pc'[u] = pc[u]
    BY <1>3 DEF Types
  <1>5. CASE ~intact[t]
    <2>1. UNCHANGED <<session, read, intact>>
      BY <1>1, <1>5 DEF CommitTurn
    <2>2. Types'
      BY <1>2, <1>4, <2>1 DEF Types, ScopeOf, Committing
    <2>3. WatchedIsCurrent'
      BY <1>2, <1>4, <2>1 DEF WatchedIsCurrent
    <2>4. ScopesNamed'
      <3> SUFFICES ASSUME NEW q \in Sessions, ~Half(q)
                   PROVE  /\ ScopeOf(session[q]) \in Named(q)
                          /\ \A u \in TurnsOf(q) :
                                /\ scope[u] \in Named(q) /\ ScopeOf(read[u]) \in Named(q)
                                /\ pc'[u] \in Committing => ScopeOf(watched[u]) \in Named(q)
        BY <1>2, <2>1, SameRequests, ZenonT(60) DEF ScopesNamed, ScopeOf
      <3> QED BY <1>4 DEF ScopesNamed, TurnsOf
    <2> QED BY <2>2, <2>3, <2>4
  <1>6. CASE intact[t]
    <2>1. PICK value : /\ session' = [session EXCEPT ![s] = value]
                       /\ read' = [read EXCEPT ![t] = value]
                       /\ Touch(s)
                       /\ ScopeOf(value) =
                             [repository |-> Memory!Or(named.repository, watched[t].repository),
                              revision |-> Memory!Or(named.revision, watched[t].revision)]
      <3> DEFINE value == Memory!Appended(watched[t], [role |-> role, by |-> t],
                              NamesOf(analysis[t].entities), named.repository, named.revision)
      <3>1. ScopeOf(value) = [repository |-> Memory!Or(named.repository, watched[t].repository),
                              revision |-> Memory!Or(named.revision, watched[t].revision)]
        BY DEF Memory!Appended, ScopeOf
      <3>2. /\ session' = [session EXCEPT ![s] = value] /\ read' = [read EXCEPT ![t] = value]
            /\ Touch(s)
        BY <1>1, <1>6 DEF CommitTurn
      <3> HIDE DEF value
      <3> QED BY <3>1, <3>2
    <2>2. /\ ScopeOf(named) \in AnyScope /\ ScopeOf(named) = named
          /\ ScopeOf(watched[t]) \in AnyScope
      BY <1>1, EmptyScope DEF Types, ScopeOf, AnyScope
    <2>3. /\ ScopeOf(value) \in AnyScope
          /\ ~NamedByHalf(named) => ScopeOf(value) \in {named, ScopeOf(watched[t])}
      <3> DEFINE result == [repository |-> Memory!Or(named.repository, watched[t].repository),
                            revision |-> Memory!Or(named.revision, watched[t].revision)]
      <3>1. /\ result \in AnyScope
            /\ ~NamedByHalf(named) => result \in {ScopeOf(named), ScopeOf(watched[t])}
        <4> HIDE DEF result
        <4> QED BY <2>2, OrScope DEF result
      <3> QED BY <2>1, <2>2, <3>1
    <2>4. /\ session' = [q \in Sessions |-> session'[q]]
          /\ \A q \in Sessions : session'[q] = IF q = s THEN value ELSE session[q]
      BY <1>2, <2>1 DEF Types
    <2>5. /\ read' = [u \in Turns |-> read'[u]]
          /\ \A u \in Turns : read'[u] = IF u = t THEN value ELSE read[u]
      BY <2>1 DEF Types
    <2>6. intact' \in [Turns -> BOOLEAN] /\ \A u \in Turns : intact'[u] => request[u].session # s
                                                                           /\ intact[u]
      BY <2>1 DEF Touch, Types
    <2>7. Types'
      <3>1. /\ \A q \in Sessions : ScopeOf(session'[q]) \in AnyScope
            /\ \A u \in Turns : ScopeOf(read'[u]) \in AnyScope
        BY <2>3, <2>4, <2>5 DEF Types
      <3>2. \A u \in Turns : IF pc'[u] = "idle" THEN request[u] = NoRequest
                                                ELSE request[u] \in Requests
        BY <1>2, <1>4 DEF Types, Committing
      <3> QED BY <1>2, <1>4, <2>4, <2>5, <2>6, <3>1, <3>2 DEF Types, ScopeOf
    <2>8. WatchedIsCurrent'
      <3> SUFFICES ASSUME NEW u \in Turns, pc'[u] \in Committing, intact'[u]
                   PROVE  watched[u] = session'[request[u].session]
        BY <1>2 DEF WatchedIsCurrent
      <3>1. u # t /\ pc[u] \in Committing /\ intact[u] /\ request[u].session # s
        BY <1>4, <2>6
      <3>2. request[u].session \in Sessions
        BY <3>1, RequestScope DEF Types, Committing
      <3> QED BY <2>4, <3>1, <3>2 DEF WatchedIsCurrent
    <2>9. ScopesNamed'
      <3> SUFFICES ASSUME NEW q \in Sessions, ~Half(q)
                   PROVE  /\ ScopeOf(session'[q]) \in Named(q)
                          /\ \A u \in TurnsOf(q) :
                                /\ scope[u] \in Named(q) /\ ScopeOf(read'[u]) \in Named(q)
                                /\ pc'[u] \in Committing => ScopeOf(watched[u]) \in Named(q)
        BY <1>2, SameRequests, ZenonT(60) DEF ScopesNamed, ScopeOf
      <3>1. q = s => ScopeOf(value) \in Named(q)
        <4> SUFFICES ASSUME q = s
                     PROVE  ScopeOf(value) \in Named(q)
          OBVIOUS
        <4>1. t \in TurnsOf(q)
          BY DEF TurnsOf
        <4>2. named \in Named(q) /\ ScopeOf(watched[t]) \in Named(q)
          BY <1>1, <1>2, <4>1 DEF ScopesNamed, Named
        <4> QED BY <2>3, <4>2, NamedWhole
      <3>2. ScopeOf(session'[q]) \in Named(q)
        BY <2>4, <3>1 DEF ScopesNamed
      <3>3. ASSUME NEW u \in TurnsOf(q)
            PROVE  /\ scope[u] \in Named(q) /\ ScopeOf(read'[u]) \in Named(q)
                   /\ pc'[u] \in Committing => ScopeOf(watched[u]) \in Named(q)
        BY <1>4, <2>5, <3>1, <3>3 DEF ScopesNamed, TurnsOf
      <3> QED BY <3>2, <3>3
    <2> QED BY <2>7, <2>8, <2>9
  <1> QED BY <1>5, <1>6
LEMMA ForgetPreserves ==
    ASSUME IInv, NEW t \in Turns, RememberEpisode(t) \/ Fail(t)
    PROVE  IInv'
  <1> USE DEF IInv
  <1>1. PICK step \in {"done", "failed"} : pc' = [pc EXCEPT ![t] = step]
    BY DEF RememberEpisode, Fail, Goto
  <1>2. /\ UNCHANGED <<session, request>> /\ pc[t] # "idle"
        /\ read' = [read EXCEPT ![t] = Memory!EmptySession]
        /\ scope' = [scope EXCEPT ![t] = NoScope]
        /\ watched' = [watched EXCEPT ![t] = Memory!EmptySession]
        /\ intact' = [intact EXCEPT ![t] = FALSE]
    BY DEF RememberEpisode, Fail, Forget, Running
  <1>3. Types'
    <2>1. /\ pc' \in [Turns -> Steps] /\ intact' \in [Turns -> BOOLEAN]
          /\ \A u \in Turns : pc'[u] = "idle" <=> pc[u] = "idle"
      BY <1>1, <1>2 DEF Types, Steps
    <2>2. scope' \in [Turns -> AnyScope]
      BY <1>2, EmptyScope DEF Types
    <2>3. /\ read' = [u \in Turns |-> read'[u]]
          /\ \A u \in Turns : ScopeOf(read'[u]) \in AnyScope
      BY <1>2, EmptyScope DEF Types
    <2>4. /\ watched' = [u \in Turns |-> watched'[u]]
          /\ \A u \in Turns : ScopeOf(watched'[u]) \in AnyScope
      BY <1>2, EmptyScope DEF Types
    <2> QED BY <1>2, <2>1, <2>2, <2>3, <2>4 DEF Types, ScopeOf
  <1>4. WatchedIsCurrent'
    BY <1>1, <1>2 DEF WatchedIsCurrent, Types, Committing
  <1>5. ScopesNamed'
    <2> SUFFICES ASSUME NEW s \in Sessions, ~Half(s)
                 PROVE  /\ ScopeOf(session[s]) \in Named(s)
                        /\ \A u \in TurnsOf(s) :
                              /\ scope'[u] \in Named(s) /\ ScopeOf(read'[u]) \in Named(s)
                              /\ pc'[u] \in Committing => ScopeOf(watched'[u]) \in Named(s)
      BY <1>2, SameRequests, ZenonT(60) DEF ScopesNamed, ScopeOf
    <2>1. NoScope \in Named(s) /\ ScopeOf(Memory!EmptySession) = NoScope
      BY EmptyScope DEF Named
    <2>2. ASSUME NEW u \in TurnsOf(s), u # t
          PROVE  /\ scope'[u] = scope[u] /\ read'[u] = read[u] /\ pc'[u] = pc[u]
                 /\ watched'[u] = watched[u]
      BY <1>1, <1>2, <2>2 DEF Types, TurnsOf
    <2>3. ASSUME t \in TurnsOf(s)
          PROVE  scope'[t] = NoScope /\ ScopeOf(read'[t]) = NoScope /\ pc'[t] \notin Committing
      BY <1>1, <1>2, <2>1 DEF Types, Committing
    <2> QED BY <2>1, <2>2, <2>3 DEF ScopesNamed
  <1> QED BY <1>3, <1>4, <1>5

LEMMA ExpirePreserves ==
    ASSUME IInv, NEW s \in Sessions, ExpireSession(s)
    PROVE  IInv'
  <1> USE DEF IInv
  <1>1. /\ session' = [session EXCEPT ![s] = Memory!EmptySession] /\ Touch(s)
        /\ UNCHANGED <<pc, request, read, scope, watched>>
    BY DEF ExpireSession, inputs
  <1>2. /\ session' = [q \in Sessions |-> session'[q]]
        /\ \A q \in Sessions : session'[q] = IF q = s THEN Memory!EmptySession ELSE session[q]
    BY <1>1 DEF Types
  <1>3. intact' \in [Turns -> BOOLEAN] /\ \A u \in Turns : intact'[u] => request[u].session # s
                                                                         /\ intact[u]
    BY <1>1 DEF Touch, Types
  <1>4. Types'
    <2>1. \A q \in Sessions : ScopeOf(session'[q]) \in AnyScope
      BY <1>2, EmptyScope DEF Types
    <2> QED BY <1>1, <1>2, <1>3, <2>1 DEF Types, ScopeOf
  <1>5. WatchedIsCurrent'
    <2> SUFFICES ASSUME NEW u \in Turns, pc[u] \in Committing, intact'[u]
                 PROVE  watched[u] = session'[request[u].session]
      BY <1>1 DEF WatchedIsCurrent
    <2>1. request[u].session \in Sessions
      BY RequestScope DEF Types, Committing
    <2> QED BY <1>2, <1>3, <2>1 DEF WatchedIsCurrent
  <1>6. ScopesNamed'
    <2> SUFFICES ASSUME NEW q \in Sessions, ~Half(q)
                 PROVE  /\ ScopeOf(session'[q]) \in Named(q)
                        /\ \A u \in TurnsOf(q) :
                              /\ scope[u] \in Named(q) /\ ScopeOf(read[u]) \in Named(q)
                              /\ pc[u] \in Committing => ScopeOf(watched[u]) \in Named(q)
      BY <1>1, SameRequests, ZenonT(60) DEF ScopesNamed, ScopeOf
    <2>1. NoScope \in Named(q)
      BY DEF Named
    <2> QED BY <1>2, <2>1, EmptyScope DEF ScopesNamed
  <1> QED BY <1>4, <1>5, <1>6

(***************************************************************************)
(* The theorems.                                                           *)
(***************************************************************************)
LEMMA NextIInv == IInv /\ [Next]_vars => IInv'
  <1> SUFFICES ASSUME IInv, [Next]_vars PROVE IInv'
    OBVIOUS
  <1>1. ASSUME NEW t \in Turns, Step(t) PROVE IInv'
    <2>1. CASE \E r \in Requests : ReadContext(t, r)
      BY <2>1, ReadContextPreserves
    <2>2. CASE WatchSession(t)
      BY <2>2, WatchPreserves
    <2>3. CASE CommitUser(t) \/ CommitAnswer(t)
      BY <2>3, CommitPreserves
    <2>4. CASE RememberEpisode(t) \/ Fail(t)
      BY <2>4, ForgetPreserves
    <2>5. CASE \/ ReadPreferences(t) \/ RecallAndAnalyze(t) \/ LookupCache(t) \/ RunTask(t)
               \/ Synthesize(t) \/ StoreResponse(t) \/ AppendAudit(t)
      BY <2>5, QuietSteps, QuietPreserves DEF IInv
    <2> QED BY <1>1, <2>1, <2>2, <2>3, <2>4, <2>5 DEF Step
  <1>2. ASSUME NEW s \in Sessions, ExpireSession(s) PROVE IInv'
    BY <1>2, ExpirePreserves
  <1>3. ASSUME UNCHANGED vars \/ (Changes /\ \A s \in Sessions : ~ExpireSession(s))
        PROVE  IInv'
    BY <1>3, QuietPreserves DEF vars, inputs, Changes, ExpireResponse, ExpireEpisodes,
       ExpireAudit, SetPreferences, Quiet, Held
  <1> QED BY <1>1, <1>2, <1>3 DEF Next

(* The inductive invariant: while its WATCH is intact a turn holds the     *)
(* stored session, and every scope about is one a request named.           *)
THEOREM Invariance == Spec => []IInv
  <1>1. Init => IInv
    BY InitIInv
  <1>2. IInv /\ [Next]_vars => IInv'
    BY NextIInv
  <1> QED BY <1>1, <1>2, PTL DEF Spec

(* A session never pairs the repository of one request with the revision   *)
(* of another, whatever turns, retries and expiries there are.             *)
THEOREM ScopePairs == Spec => []ScopePairsStayTogether
  <1>1. IInv => ScopePairsStayTogether
    BY DEF IInv, ScopesNamed, ScopePairsStayTogether, Half, Named
  <1> QED BY <1>1, Invariance, PTL

(***************************************************************************)
(* The Redis memory implements the atomic one.                             *)
(***************************************************************************)
(* NameLists, which lets TLC enumerate what an append may name, has what   *)
(* the questions are about.                                                *)
NamesListed == \A t \in Turns : NamesOf(analysis[t].entities) \in NameLists

LEMMA CommitAppends ==
    ASSUME IInv, NamesListed, NEW t \in Turns, CommitUser(t) \/ CommitAnswer(t)
    PROVE  Memory!Next \/ UNCHANGED session
  <1> DEFINE s == request[t].session
             names == NamesOf(analysis[t].entities)
  <1>1. PICK role \in {"user", "assistant"}, named \in {scope[t], NoScope},
             again \in {"watch user", "watch answer"}, next \in {"lookup", "audit", "store"} :
             CommitTurn(t, role, named, again, next)
    BY DEF CommitUser, CommitAnswer
  <1>2. CASE ~intact[t]
    BY <1>1, <1>2 DEF CommitTurn
  <1>3. CASE intact[t]
    <2> DEFINE turn == [role |-> role, by |-> t]
               value == Memory!Appended(session[s], turn, names, named.repository, named.revision)
    <2>1. /\ pc[t] \in Committing /\ s \in Sessions /\ session = [q \in Sessions |-> session[q]]
          /\ named.repository \in Repositories \cup {None}
          /\ named.revision \in Revisions \cup {None}
      <3>1. pc[t] \in Committing /\ session = [q \in Sessions |-> session[q]]
        BY DEF CommitUser, CommitAnswer, IInv, Types, Committing
      <3>2. s \in Sessions
        BY <3>1, RequestScope DEF IInv, Types, Committing
      <3>3. named \in AnyScope
        BY <1>1, EmptyScope DEF IInv, Types
      <3> QED BY <3>1, <3>2, <3>3 DEF AnyScope, Optional
    <2>2. session' = [session EXCEPT ![s] = value]
      BY <1>1, <1>3, <2>1 DEF CommitTurn, IInv, WatchedIsCurrent
    <2>3. session'[s].turns = Memory!Latest(Append(session[s].turns, turn), MaximumTurns)
      <3>1. value.turns = Memory!Latest(Append(session[s].turns, turn), MaximumTurns)
        BY DEF Memory!Appended
      <3> HIDE DEF value
      <3> QED BY <2>1, <2>2, <3>1
    <2>4. Memory!AppendTurn(s, turn, names, named.repository, named.revision)
      BY <2>1, <2>2 DEF Memory!AppendTurn
    <2>5. names \in NameLists /\ role \in Memory!Roles
      BY DEF NamesListed, Memory!Roles
    <2> HIDE DEF s, names
    <2> QED BY <2>1, <2>3, <2>4, <2>5 DEF Memory!Next
  <1> QED BY <1>2, <1>3

LEMMA StepImplements ==
    ASSUME IInv, NamesListed, [Next]_vars
    PROVE  [Memory!Next]_session
  <1>1. ASSUME NEW t \in Turns, Step(t), ~CommitUser(t), ~CommitAnswer(t)
        PROVE  UNCHANGED session
    BY <1>1, QuietSteps
       DEF Step, Quiet, Held, ReadContext, WatchSession, RememberEpisode, Fail, IInv
  <1>2. ASSUME NEW s \in Sessions, ExpireSession(s)
        PROVE  Memory!Next
    BY <1>2 DEF ExpireSession, Memory!Next, Memory!Expire
  <1>3. ASSUME UNCHANGED vars \/ (Changes /\ \A s \in Sessions : ~ExpireSession(s))
        PROVE  UNCHANGED session
    BY <1>3 DEF vars, Changes, ExpireResponse, ExpireEpisodes, ExpireAudit, SetPreferences
  <1> QED BY <1>1, <1>2, <1>3, CommitAppends DEF Next

(* However turns interleave, append_turn behaves as if each ran alone on   *)
(* the session the append before it left: none is lost, none is doubled    *)
(* (redis_memory.py: multiple workers cannot lose turns).                  *)
THEOREM AtomicMemory == Spec /\ []NamesListed => ImplementsAtomicMemory
  <1>1. Init => Memory!Init
    BY DEF Init, Memory!Init
  <1>2. IInv /\ NamesListed /\ [Next]_vars => [Memory!Next]_session
    BY StepImplements
  <1> QED BY <1>1, <1>2, Invariance, PTL DEF Spec, ImplementsAtomicMemory, Memory!Spec

(***************************************************************************)
(* Types and bounds.                                                       *)
(***************************************************************************)
Short(value) == /\ IsList(value.turns) /\ Len(value.turns) \in 0 .. MaximumTurns
                /\ IsList(value.active) /\ Len(value.active) \in 0 .. MaximumEntities

(* What TypeOK says beyond Types; that what is appended to and trimmed is  *)
(* a list is what makes its length known.                                  *)
Bounded ==
    /\ chosen \in [Turns -> Preferences]
    /\ preferences \in [Sessions -> Preferences]
    /\ hit \in [Turns -> BOOLEAN]
    /\ changes \in 0 .. MaxChanges
    /\ audit \in [Sessions -> 0 .. AuditMaximum]
    /\ episodes = [u \in Users |-> episodes[u]]
    /\ \A u \in Users : IsList(episodes[u]) /\ Len(episodes[u]) \in 0 .. EpisodeMaximum
    /\ \A s \in Sessions : Short(session[s])
    /\ analysis = [t \in Turns |-> analysis[t]]
    /\ \A t \in Turns : IsList(analysis[t].entities)

counted == <<chosen, preferences, hit, changes, audit, episodes, session, analysis>>

LEMMA InitBounded == Init => Bounded
  <1> SUFFICES ASSUME Init PROVE Bounded
    OBVIOUS
  <1>1. IsList(<<>>) /\ Len(<<>>) = 0
    BY TuplesAreLists
  <1>2. Short(Memory!EmptySession)
    BY <1>1, MaximumAssumption DEF Short, Memory!EmptySession
  <1>3. \A t \in Turns : IsList(analysis[t].entities)
    BY <1>1 DEF Init, NoAnalysis
  <1> QED BY <1>1, <1>2, <1>3, DefaultAssumption, MaximumAssumption, BoundAssumption
       DEF Init, Bounded

LEMMA SameBounds == Bounded /\ UNCHANGED counted => Bounded'
  BY DEF Bounded, counted, Short, IsList

(* An append leaves the session as short as the memory promises.           *)
LEMMA AppendedIsShort ==
    ASSUME NEW value, Short(value), NEW turn, NEW names, IsList(names),
           NEW repository, NEW revision
    PROVE  Short(Memory!Appended(value, turn, names, repository, revision))
  <1> DEFINE said == Append(value.turns, turn)
             about == Memory!MoveToEnd(value.active, names)
  <1>1. Len(said) \in Nat
    BY DEF Short, IsList
  <1>2. IsList(about)
    <2>1. \E others, last : about = Memory!Subsequence(value.active, others)
                                       \o Memory!Subsequence(names, last)
      BY DEF Memory!MoveToEnd
    <2>2. PICK others, last :
              about = Subsequence(value.active, others) \o Subsequence(names, last)
      BY <2>1, SameSubsequence
    <2> HIDE DEF about
    <2> QED BY <2>2, KeptIsList, ConcatIsList DEF Short
  <1>3. /\ IsList(Memory!Latest(said, MaximumTurns))
        /\ Len(Memory!Latest(said, MaximumTurns)) \in 0 .. MaximumTurns
    <2> HIDE DEF said
    <2> QED BY <1>1, MaximumAssumption, LatestIsShort
  <1>4. /\ IsList(Memory!Latest(about, MaximumEntities))
        /\ Len(Memory!Latest(about, MaximumEntities)) \in 0 .. MaximumEntities
    <2>1. Len(about) \in Nat
      BY <1>2 DEF IsList
    <2> HIDE DEF about
    <2> QED BY <2>1, MaximumAssumption, LatestIsShort
  <1>5. /\ Memory!Appended(value, turn, names, repository, revision).turns
              = Memory!Latest(said, MaximumTurns)
        /\ Memory!Appended(value, turn, names, repository, revision).active
              = Memory!Latest(about, MaximumEntities)
    BY DEF Memory!Appended
  <1> QED BY <1>3, <1>4, <1>5 DEF Short

LEMMA PushedIsShort ==
    ASSUME NEW list, IsList(list), NEW n \in Nat \ {0}, Len(list) \in 0 .. n, NEW item
    PROVE  /\ IsList(PushFront(list, item, n))
           /\ Len(PushFront(list, item, n)) \in 0 .. n
  <1>1. PICK long : long = <<item>> \o list
    OBVIOUS
  <1>2. PICK last \in 0 .. n : PushFront(list, item, n) = SubSeq(long, 1, last)
    <2> DEFINE size == IF Len(list) < n THEN Len(list) + 1 ELSE n
    <2>1. size \in 0 .. n
      OBVIOUS
    <2>2. PushFront(list, item, n) = SubSeq(long, 1, size)
      BY <1>1 DEF PushFront
    <2> HIDE DEF size
    <2> QED BY <2>1, <2>2
  <1>3. /\ SubSeq(long, 1, last) \in Seq({long[i] : i \in 1 .. last})
        /\ Len(SubSeq(long, 1, last)) = IF 1 <= last THEN last - 1 + 1 ELSE 0
    BY SubSeqProperties
  <1>4. IsList(SubSeq(long, 1, last))
    BY <1>3, SequencesAreLists, Zenon
  <1>5. Len(SubSeq(long, 1, last)) \in 0 .. n
    BY <1>3
  <1> QED BY <1>2, <1>4, <1>5

LEMMA CommitBounded ==
    ASSUME IInv, Bounded, NEW t \in Turns, CommitUser(t) \/ CommitAnswer(t)
    PROVE  Bounded'
  <1> DEFINE s == request[t].session
             names == NamesOf(analysis[t].entities)
  <1>1. PICK role, named, again, next : CommitTurn(t, role, named, again, next)
    BY DEF CommitUser, CommitAnswer
  <1>2. /\ pc[t] \in Committing
        /\ UNCHANGED <<chosen, preferences, hit, changes, audit, episodes, analysis>>
    BY DEF CommitUser, CommitAnswer, Committing, stores, results
  <1>3. s \in Sessions
    BY <1>2, RequestScope DEF IInv, Types, Committing
  <1>4. CASE ~intact[t]
    BY <1>1, <1>2, <1>4, SameBounds DEF CommitTurn, counted
  <1>5. CASE intact[t]
    <2> DEFINE value == Memory!Appended(session[s], [role |-> role, by |-> t], names,
                            named.repository, named.revision)
    <2>1. watched[t] = session[s]
      BY <1>2, <1>5 DEF IInv, WatchedIsCurrent
    <2>2. session' = [session EXCEPT ![s] = value]
      BY <1>1, <1>5, <2>1 DEF CommitTurn
    <2>3. Short(value)
      <3>1. IsList(names) /\ Short(session[s])
        BY <1>3, NamesAreLists DEF Bounded
      <3> HIDE DEF s, names
      <3> QED BY <3>1, AppendedIsShort
    <2> HIDE DEF value
    <2>4. \A q \in Sessions : session'[q] = IF q = s THEN value ELSE session[q]
      BY <1>3, <2>2 DEF IInv, Types
    <2>5. \A q \in Sessions : Short(session'[q])
      BY <2>3, <2>4 DEF Bounded
    <2> QED BY <1>2, <2>5 DEF Bounded, Short, IsList
  <1> QED BY <1>4, <1>5

LEMMA ForgetBounded ==
    ASSUME IInv, Bounded, NEW t \in Turns, RememberEpisode(t) \/ Fail(t)
    PROVE  Bounded'
  <1>1. /\ chosen' = [chosen EXCEPT ![t] = Default]
        /\ analysis' = [analysis EXCEPT ![t] = NoAnalysis]
        /\ hit' = [hit EXCEPT ![t] = FALSE]
        /\ UNCHANGED <<preferences, changes, audit, session>>
    BY DEF RememberEpisode, Fail, Forget, stores
  <1>2. /\ chosen' \in [Turns -> Preferences] /\ hit' \in [Turns -> BOOLEAN]
        /\ analysis' = [u \in Turns |-> analysis'[u]]
    BY <1>1, DefaultAssumption DEF Bounded
  <1>3. \A u \in Turns : IsList(analysis'[u].entities)
    <2>1. \A u \in Turns : analysis'[u] = IF u = t THEN NoAnalysis ELSE analysis[u]
      BY <1>1 DEF Bounded
    <2>2. IsList(NoAnalysis.entities)
      BY TuplesAreLists DEF NoAnalysis
    <2> QED BY <2>1, <2>2 DEF Bounded
  <1>4. /\ episodes' = [u \in Users |-> episodes'[u]]
        /\ \A u \in Users : IsList(episodes'[u]) /\ Len(episodes'[u]) \in 0 .. EpisodeMaximum
    <2>1. CASE UNCHANGED episodes
      BY <2>1 DEF Bounded, IsList
    <2>2. CASE ~UNCHANGED episodes
      <3> DEFINE user == request[t].user
      <3>1. RememberEpisode(t)
        BY <2>2 DEF Fail, stores
      <3>2. PICK episode : /\ user # None
                           /\ episodes' = [episodes EXCEPT ![user] =
                                               PushFront(@, episode, EpisodeMaximum)]
        BY <2>2, <3>1 DEF RememberEpisode
      <3>3. user \in Users
        <4>1. request[t] \in Requests
          BY <3>1 DEF RememberEpisode, IInv, Types
        <4> QED BY <3>2, <4>1, RequestAssumption DEF Optional
      <3>4. /\ IsList(PushFront(episodes[user], episode, EpisodeMaximum))
            /\ Len(PushFront(episodes[user], episode, EpisodeMaximum)) \in 0 .. EpisodeMaximum
        <4>1. /\ IsList(episodes[user]) /\ Len(episodes[user]) \in 0 .. EpisodeMaximum
              /\ EpisodeMaximum \in Nat \ {0}
          BY <3>3, MaximumAssumption DEF Bounded
        <4> HIDE DEF user
        <4> QED BY <4>1, PushedIsShort
      <3>5. /\ episodes' = [u \in Users |-> episodes'[u]]
            /\ \A u \in Users : episodes'[u] = IF u = user
                                    THEN PushFront(episodes[user], episode, EpisodeMaximum)
                                    ELSE episodes[u]
        BY <3>2, <3>3 DEF Bounded
      <3> QED BY <3>4, <3>5 DEF Bounded
    <2> QED BY <2>1, <2>2
  <1> QED BY <1>1, <1>2, <1>3, <1>4 DEF Bounded, Short, IsList

LEMMA StepBounded ==
    ASSUME IInv, Bounded, NEW t \in Turns, Step(t)
    PROVE  Bounded'
  <1>1. CASE \/ \E r \in Requests : ReadContext(t, r)
             \/ WatchSession(t) \/ RunTask(t) \/ Synthesize(t) \/ StoreResponse(t)
    <2>1. UNCHANGED counted
      BY <1>1 DEF ReadContext, WatchSession, RunTask, Synthesize, StoreResponse,
         counted, stores, inputs, results
    <2> QED BY <2>1, SameBounds
  <1>2. CASE ReadPreferences(t)
    <2>1. PICK p \in {preferences[request[t].session], Default} :
              chosen' = [chosen EXCEPT ![t] = p]
      BY <1>2 DEF ReadPreferences
    <2>2. request[t].session \in Sessions
      BY <1>2, RequestScope DEF ReadPreferences, IInv, Types
    <2>3. chosen' \in [Turns -> Preferences]
      BY <2>1, <2>2, DefaultAssumption DEF Bounded
    <2>4. UNCHANGED <<preferences, hit, changes, audit, episodes, session, analysis>>
      BY <1>2 DEF ReadPreferences, stores, results
    <2> QED BY <2>3, <2>4 DEF Bounded, Short, IsList
  <1>3. CASE RecallAndAnalyze(t)
    <2>1. UNCHANGED <<chosen, preferences, hit, changes, audit, episodes, session>>
      BY <1>3 DEF RecallAndAnalyze, stores, results
    <2>2. PICK context :
              analysis' = [analysis EXCEPT ![t] = AnalyzeQuery(request[t].query, context)]
      BY <1>3 DEF RecallAndAnalyze
    <2>3. request[t] \in Requests
      BY <1>3 DEF RecallAndAnalyze, IInv, Types
    <2>4. IsList(AnalyzeQuery(request[t].query, context).entities)
      BY <2>3, AnalysesAreLists
    <2>5. /\ analysis' = [u \in Turns |-> analysis'[u]]
          /\ \A u \in Turns : IsList(analysis'[u].entities)
      BY <2>2, <2>4 DEF Bounded
    <2> QED BY <2>1, <2>5 DEF Bounded, Short, IsList
  <1>4. CASE CommitUser(t) \/ CommitAnswer(t)
    BY <1>4, CommitBounded
  <1>5. CASE LookupCache(t)
    <2>1. UNCHANGED <<chosen, preferences, changes, audit, episodes, session, analysis>>
      BY <1>5 DEF LookupCache, stores, inputs
    <2>2. hit' \in [Turns -> BOOLEAN]
      BY <1>5 DEF LookupCache, Bounded
    <2> QED BY <2>1, <2>2 DEF Bounded, Short, IsList
  <1>6. CASE AppendAudit(t)
    <2>1. UNCHANGED <<chosen, preferences, hit, changes, episodes, session, analysis>>
      BY <1>6 DEF AppendAudit, inputs, results
    <2>2. audit' \in [Sessions -> 0 .. AuditMaximum]
      BY <1>6, MaximumAssumption DEF AppendAudit, Bounded
    <2> QED BY <2>1, <2>2 DEF Bounded, Short, IsList
  <1>7. CASE RememberEpisode(t) \/ Fail(t)
    BY <1>7, ForgetBounded
  <1> QED BY <1>1, <1>2, <1>3, <1>4, <1>5, <1>6, <1>7 DEF Step

LEMMA ChangesBounded ==
    ASSUME IInv, Bounded, Changes
    PROVE  Bounded'
  <1> USE DEF Bounded, inputs, results, stores, Change
  <1>1. ASSUME Change
        PROVE  changes' \in 0 .. MaxChanges
    BY <1>1, BoundAssumption
  <1>2. IsList(<<>>) /\ Len(<<>>) = 0
    BY TuplesAreLists
  <1>3. ASSUME NEW s \in Sessions, ExpireSession(s)
        PROVE  Bounded'
    <2>1. \A q \in Sessions : session'[q] = IF q = s THEN Memory!EmptySession ELSE session[q]
      BY <1>3 DEF ExpireSession, IInv, Types
    <2>2. Short(Memory!EmptySession)
      BY <1>2, MaximumAssumption DEF Short, Memory!EmptySession
    <2>3. \A q \in Sessions : Short(session'[q])
      BY <2>1, <2>2
    <2> QED BY <1>1, <1>3, <2>3 DEF ExpireSession, Short, IsList
  <1>4. ASSUME NEW s \in Sessions, ExpireAudit(s)
        PROVE  Bounded'
    <2>1. audit' \in [Sessions -> 0 .. AuditMaximum]
      BY <1>4, MaximumAssumption DEF ExpireAudit
    <2> QED BY <1>1, <1>4, <2>1 DEF ExpireAudit, Short, IsList
  <1>5. ASSUME NEW s \in Sessions, NEW p \in Preferences, SetPreferences(s, p)
        PROVE  Bounded'
    <2>1. preferences' \in [Sessions -> Preferences]
      BY <1>5 DEF SetPreferences
    <2> QED BY <1>1, <1>5, <2>1 DEF SetPreferences, Short, IsList
  <1>6. ASSUME NEW k, ExpireResponse(k)
        PROVE  Bounded'
    BY <1>1, <1>6 DEF ExpireResponse, Short, IsList
  <1>7. ASSUME NEW u \in Users, ExpireEpisodes(u)
        PROVE  Bounded'
    <2>1. /\ episodes' = [v \in Users |-> episodes'[v]]
          /\ \A v \in Users : episodes'[v] = IF v = u THEN <<>> ELSE episodes[v]
      BY <1>7 DEF ExpireEpisodes
    <2>2. \A v \in Users : IsList(episodes'[v]) /\ Len(episodes'[v]) \in 0 .. EpisodeMaximum
      BY <1>2, <2>1, MaximumAssumption
    <2> QED BY <1>1, <1>7, <2>1, <2>2 DEF ExpireEpisodes, Short, IsList
  <1> QED BY <1>3, <1>4, <1>5, <1>6, <1>7 DEF Changes

LEMMA NextBounded == IInv /\ Bounded /\ [Next]_vars => Bounded'
  <1>1. ASSUME Bounded, UNCHANGED vars
        PROVE  Bounded'
    BY <1>1, SameBounds DEF vars, counted, stores, inputs, results
  <1> QED BY <1>1, StepBounded, ChangesBounded DEF Next

(* Every variable has its type, and what Redis keeps is as long as its     *)
(* settings allow: sessions, active entities, episodes, audit records.     *)
THEOREM ChatTypeOK == Spec => []TypeOK
  <1>1. Init => Bounded
    BY InitBounded
  <1>2. IInv /\ Bounded /\ [Next]_vars => Bounded'
    BY NextBounded
  <1>3. IInv /\ Bounded => TypeOK
    BY DEF IInv, Types, Bounded, Short, TypeOK
  <1> QED BY <1>1, <1>2, <1>3, Invariance, PTL DEF Spec

(***************************************************************************)
(* What is cached owes nothing to a conversation.                          *)
(***************************************************************************)
(* The outputs so far of the plan of an analysis, made in the scope at.    *)
FromPlan(outs, a, at) ==
    LET plan == RouteToAgents(a)
    IN  /\ IsList(outs) /\ Len(outs) <= Len(plan)
        /\ \A i \in 1 .. Len(outs) : Attributed(outs[i], plan[i], NamesOf(a.entities), at)

(* A response to q that a plan made without context returned, every task   *)
(* of it successful, with sources of the scope at.                         *)
ContextFree(r, q, at) ==
    LET apart == AnalyzeQuery(q, NoContext)
    IN  /\ r.query = q
        /\ FromPlan(r.outputs, apart, at)
        /\ Len(r.outputs) = Len(RouteToAgents(apart))
        /\ \A i \in 1 .. Len(r.outputs) : r.outputs[i].success

Unplanned == {"idle", "preferences", "recall", "watch user", "commit user", "lookup"}
Analysed == {"watch user", "commit user", "lookup", "run"}
Answering == {"watch answer", "commit answer", "store"}

(* What is known of a turn at a step: until it runs its plan it has no     *)
(* outputs; a question that does not refer to the conversation is analysed *)
(* as it would be without; a turn with a scope runs its plan in that       *)
(* scope, whatever the session's was; and the answer it may cache comes    *)
(* from that plan.                                                         *)
Sound(step, q, at, held, a, outs, r, fromCache) ==
    /\ step \in Unplanned => outs = <<>>
    /\ step \in Analysed /\ ~q.refers => a = AnalyzeQuery(q, NoContext)
    /\ step \in {"lookup", "run"} /\ Scoped(at) => held = at
    /\ step = "run" /\ Scoped(at) => FromPlan(outs, a, at)
    /\ step \in Answering /\ ~fromCache /\ Scoped(at) /\ ~q.refers /\ ~r.partial =>
          ContextFree(r, q, at)
    /\ step = "store" => ~fromCache

SoundTurn(t) == Sound(pc[t], request[t].query, scope[t], ScopeOf(read[t]), analysis[t],
                      outputs[t], response[t], hit[t])

FreeFor(k, r) == r.query.key = k.query /\ ContextFree(r, r.query, ScopeOf(k))
SoundCache == \A k \in DOMAIN cache : FreeFor(k, cache[k])

CacheInv ==
    /\ outputs = [t \in Turns |-> outputs[t]]
    /\ response = [t \in Turns |-> response[t]]
    /\ \A t \in Turns : SoundTurn(t)
    /\ SoundCache

LEMMA InitCacheInv == Init => CacheInv
  <1> SUFFICES ASSUME Init PROVE CacheInv
    OBVIOUS
  <1>1. \A t \in Turns : SoundTurn(t)
    BY DEF Init, SoundTurn, Sound, Analysed, Answering
  <1>2. SoundCache
    BY DEF Init, SoundCache
  <1> QED BY <1>1, <1>2 DEF Init, CacheInv

(* The turns a step leaves alone stay sound.                               *)
LEMMA OtherTurns ==
    ASSUME CacheInv, NEW t,
           \A u \in Turns : u # t =>
               /\ pc'[u] = pc[u] /\ request'[u] = request[u] /\ scope'[u] = scope[u]
               /\ ScopeOf(read'[u]) = ScopeOf(read[u]) /\ analysis'[u] = analysis[u]
               /\ outputs'[u] = outputs[u] /\ response'[u] = response[u] /\ hit'[u] = hit[u],
           outputs' = [u \in Turns |-> outputs'[u]], response' = [u \in Turns |-> response'[u]],
           t \in Turns => Sound(pc'[t], request'[t].query, scope'[t], ScopeOf(read'[t]),
                                analysis'[t], outputs'[t], response'[t], hit'[t]),
           SoundCache'
    PROVE  CacheInv'
  <1>1. \A u \in Turns : Sound(pc'[u], request'[u].query, scope'[u], ScopeOf(read'[u]),
                               analysis'[u], outputs'[u], response'[u], hit'[u])
    BY DEF CacheInv, SoundTurn
  <1>2. \A u \in Turns : SoundTurn(u)'
    BY <1>1 DEF SoundTurn, ScopeOf
  <1> QED BY <1>2 DEF CacheInv

LEMMA SameCache == SoundCache /\ UNCHANGED cache => SoundCache'
  BY DEF SoundCache, FreeFor, ContextFree, FromPlan, ScopeOf, Attributed

(***************************************************************************)
(* The steps of a turn.                                                    *)
(***************************************************************************)
(* The first steps: no plan has run.                                       *)
LEMMA EarlyStepsSound ==
    ASSUME IInv, Bounded, CacheInv, NEW t \in Turns,
           \/ \E r \in Requests : ReadContext(t, r)
           \/ ReadPreferences(t) \/ RecallAndAnalyze(t)
    PROVE  CacheInv'
  <1> USE DEF IInv, Types, stores, results
  <1>1. UNCHANGED <<outputs, response, hit, cache>>
    BY DEF ReadContext, ReadPreferences, RecallAndAnalyze
  <1>2. outputs[t] = <<>>
    BY DEF ReadContext, ReadPreferences, RecallAndAnalyze, CacheInv, SoundTurn, Sound, Unplanned
  <1>3. PICK step \in {"preferences", "recall", "watch user"} : pc' = [pc EXCEPT ![t] = step]
    BY DEF ReadContext, ReadPreferences, RecallAndAnalyze, Goto
  <1>4. ASSUME NEW u \in Turns, u # t
        PROVE  /\ pc'[u] = pc[u] /\ request'[u] = request[u] /\ scope'[u] = scope[u]
               /\ ScopeOf(read'[u]) = ScopeOf(read[u]) /\ analysis'[u] = analysis[u]
    <2>1. CASE \E r \in Requests : ReadContext(t, r)
      BY <1>4, <2>1 DEF ReadContext, Goto
    <2>2. CASE ReadPreferences(t)
      BY <1>4, <2>2 DEF ReadPreferences, Goto, ScopeOf
    <2>3. CASE RecallAndAnalyze(t)
      BY <1>4, <2>3 DEF RecallAndAnalyze, Goto, ScopeOf, Bounded
    <2> QED BY <2>1, <2>2, <2>3
  <1>5. step = "watch user" /\ ~request'[t].query.refers =>
            analysis'[t] = AnalyzeQuery(request'[t].query, NoContext)
    <2> SUFFICES ASSUME step = "watch user", ~request'[t].query.refers
                 PROVE  analysis'[t] = AnalyzeQuery(request'[t].query, NoContext)
      OBVIOUS
    <2>1. RecallAndAnalyze(t)
      BY <1>3 DEF ReadContext, ReadPreferences, Goto
    <2>2. PICK context : analysis' = [analysis EXCEPT ![t] =
                             AnalyzeQuery(request[t].query, context)]
      BY <2>1 DEF RecallAndAnalyze
    <2>3. request' = request
      BY <2>1 DEF RecallAndAnalyze
    <2> QED BY <2>2, <2>3, AnalysisApart DEF Bounded
  <1>6. Sound(pc'[t], request'[t].query, scope'[t], ScopeOf(read'[t]),
              analysis'[t], outputs'[t], response'[t], hit'[t])
    BY <1>1, <1>2, <1>3, <1>5 DEF Sound, Analysed, Answering
  <1>7. SoundCache'
    BY <1>1, SameCache DEF CacheInv
  <1>8. outputs' = [u \in Turns |-> outputs'[u]] /\ response' = [u \in Turns |-> response'[u]]
    BY <1>1 DEF CacheInv
  <1> QED BY <1>1, <1>4, <1>6, <1>7, <1>8, OtherTurns

LEMMA WatchSound ==
    ASSUME IInv, CacheInv, NEW t \in Turns, WatchSession(t)
    PROVE  CacheInv'
  <1>1. UNCHANGED <<request, scope, read, analysis, outputs, response, hit, cache>>
    BY DEF WatchSession, stores, inputs, results
  <1>2. /\ \A u \in Turns : u # t => pc'[u] = pc[u]
        /\ pc[t] = "watch user" => pc'[t] = "commit user"
        /\ pc[t] = "watch answer" => pc'[t] = "commit answer"
    BY DEF WatchSession, Goto, IInv, Types
  <1>3. Sound(pc[t], request[t].query, scope[t], ScopeOf(read[t]), analysis[t],
              outputs[t], response[t], hit[t])
    BY DEF CacheInv, SoundTurn
  <1>4. Sound(pc'[t], request'[t].query, scope'[t], ScopeOf(read'[t]),
              analysis'[t], outputs'[t], response'[t], hit'[t])
    <2>1. ScopeOf(read'[t]) = ScopeOf(read[t])
      BY <1>1 DEF ScopeOf
    <2> QED BY <1>1, <1>2, <1>3, <2>1 DEF WatchSession, Sound, Unplanned, Analysed, Answering
  <1>5. SoundCache'
    BY <1>1, SameCache DEF CacheInv
  <1>6. \A u \in Turns : ScopeOf(read'[u]) = ScopeOf(read[u])
    BY <1>1 DEF ScopeOf
  <1>7. outputs' = [u \in Turns |-> outputs'[u]] /\ response' = [u \in Turns |-> response'[u]]
    BY <1>1 DEF CacheInv
  <1> QED BY <1>1, <1>2, <1>4, <1>5, <1>6, <1>7, OtherTurns

(* A turn that names a scope has it in the session it just wrote.          *)
LEMMA CommitSound ==
    ASSUME IInv, CacheInv, NEW t \in Turns, CommitUser(t) \/ CommitAnswer(t)
    PROVE  CacheInv'
  <1>1. UNCHANGED <<request, scope, analysis, outputs, response, hit, cache>>
    BY DEF CommitUser, CommitAnswer, stores, results
  <1>2. Sound(pc[t], request[t].query, scope[t], ScopeOf(read[t]), analysis[t],
              outputs[t], response[t], hit[t])
    BY DEF CacheInv, SoundTurn
  <1>3. /\ \A u \in Turns : u # t => pc'[u] = pc[u]
        /\ \A u \in Turns : u # t => ScopeOf(read'[u]) = ScopeOf(read[u])
    BY DEF CommitUser, CommitAnswer, CommitTurn, Goto, IInv, Types, ScopeOf
  <1>4. Sound(pc'[t], request'[t].query, scope'[t], ScopeOf(read'[t]),
              analysis'[t], outputs'[t], response'[t], hit'[t])
    <2>1. CASE CommitUser(t)
      <3>1. pc'[t] \in {"watch user", "lookup"} /\ pc[t] = "commit user"
        BY <2>1 DEF CommitUser, CommitTurn, Goto, IInv, Types
      <3>2. pc'[t] = "lookup" /\ Scoped(scope[t]) => ScopeOf(read'[t]) = scope[t]
        <4> SUFFICES ASSUME pc'[t] = "lookup", Scoped(scope[t])
                     PROVE  ScopeOf(read'[t]) = scope[t]
          OBVIOUS
        <4>1. intact[t]
          BY <2>1 DEF CommitUser, CommitTurn, Goto, IInv, Types
        <4> DEFINE value == Memory!Appended(watched[t], [role |-> "user", by |-> t],
                        NamesOf(analysis[t].entities), scope[t].repository, scope[t].revision)
        <4>2. read' = [read EXCEPT ![t] = value]
          BY <2>1, <4>1 DEF CommitUser, CommitTurn
        <4>3. scope[t] \in AnyScope
          BY DEF IInv, Types
        <4>4. ScopeOf(value) = scope[t]
          BY <4>3 DEF Memory!Appended, Memory!Or, ScopeOf, Scoped, AnyScope
        <4> HIDE DEF value
        <4> QED BY <4>2, <4>4 DEF IInv, Types
      <3> QED BY <1>1, <1>2, <3>1, <3>2 DEF Sound, Unplanned, Analysed, Answering
    <2>2. CASE CommitAnswer(t)
      <3>1. /\ pc[t] = "commit answer" /\ pc'[t] \in {"watch answer", "audit", "store"}
            /\ pc'[t] = "store" => ~hit[t]
        BY <2>2 DEF CommitAnswer, CommitTurn, Goto, IInv, Types
      <3> QED BY <1>1, <1>2, <3>1 DEF Sound, Unplanned, Analysed, Answering
    <2> QED BY <2>1, <2>2
  <1>5. SoundCache'
    BY <1>1, SameCache DEF CacheInv
  <1>6. outputs' = [u \in Turns |-> outputs'[u]] /\ response' = [u \in Turns |-> response'[u]]
    BY <1>1 DEF CacheInv
  <1> QED BY <1>1, <1>3, <1>4, <1>5, <1>6, OtherTurns

LEMMA LookupSound ==
    ASSUME IInv, Bounded, CacheInv, NEW t \in Turns, LookupCache(t)
    PROVE  CacheInv'
  <1>1. UNCHANGED <<request, scope, read, analysis, outputs, cache>>
    BY DEF LookupCache, stores, inputs
  <1>2. Sound(pc[t], request[t].query, scope[t], ScopeOf(read[t]), analysis[t],
              outputs[t], response[t], hit[t])
    BY DEF CacheInv, SoundTurn
  <1>3. /\ \A u \in Turns : u # t => pc'[u] = pc[u] /\ response'[u] = response[u]
                                     /\ hit'[u] = hit[u]
        /\ response' = [u \in Turns |-> response'[u]]
        /\ pc[t] = "lookup"
        /\ \/ pc'[t] = "watch answer" /\ hit'[t]
           \/ pc'[t] = "run"
    BY DEF LookupCache, Goto, IInv, Types, CacheInv, Bounded
  <1>4. Scoped(scope[t]) => FromPlan(<<>>, analysis[t], scope[t])
    BY TuplesAreLists, PlansAreLists DEF FromPlan, IsList
  <1>5. Sound(pc'[t], request'[t].query, scope'[t], ScopeOf(read'[t]),
              analysis'[t], outputs'[t], response'[t], hit'[t])
    <2>1. ScopeOf(read'[t]) = ScopeOf(read[t])
      BY <1>1 DEF ScopeOf
    <2> QED BY <1>1, <1>2, <1>3, <1>4, <2>1 DEF Sound, Unplanned, Analysed, Answering
  <1>6. SoundCache'
    BY <1>1, SameCache DEF CacheInv
  <1>7. \A u \in Turns : ScopeOf(read'[u]) = ScopeOf(read[u])
    BY <1>1 DEF ScopeOf
  <1>8. outputs' = [u \in Turns |-> outputs'[u]]
    BY <1>1 DEF CacheInv
  <1> QED BY <1>1, <1>3, <1>5, <1>6, <1>7, <1>8, OtherTurns

(* One more output of the plan.                                            *)
LEMMA PlanGoesOn ==
    ASSUME NEW outs, NEW a, IsList(a.entities), NEW at, FromPlan(outs, a, at),
           ~PlanEnded(RouteToAgents(a), outs),
           NEW o \in TaskOutputs(RouteToAgents(a)[Len(outs) + 1], a, at, outs)
    PROVE  FromPlan(Append(outs, o), a, at)
  <1> DEFINE plan == RouteToAgents(a)
  <1>1. /\ IsList(outs) /\ Len(outs) <= Len(plan) /\ Len(outs) # Len(plan) /\ Len(plan) \in Nat
        /\ \A i \in 1 .. Len(outs) : Attributed(outs[i], plan[i], NamesOf(a.entities), at)
    BY PlansAreLists DEF FromPlan, PlanEnded, IsList
  <1>2. Attributed(o, plan[Len(outs) + 1], NamesOf(a.entities), at)
    BY OutputsAreAttributed
  <1>3. PICK more : more = Append(outs, o)
    OBVIOUS
  <1>4. /\ IsList(more) /\ Len(more) = Len(outs) + 1
        /\ \A i \in 1 .. Len(more) : more[i] = IF i = Len(outs) + 1 THEN o ELSE outs[i]
    <2> DEFINE S == {outs[i] : i \in 1 .. Len(outs)} \cup {o}
    <2>1. outs \in Seq(S) /\ o \in S
      BY <1>1, IsASeq DEF IsList
    <2> HIDE DEF S
    <2>2. /\ more \in Seq(S) /\ Len(more) = Len(outs) + 1
          /\ \A i \in 1 .. Len(outs) : more[i] = outs[i]
          /\ more[Len(outs) + 1] = o
      BY <1>3, <2>1, AppendProperties
    <2>3. IsList(more)
      BY <2>2, SequencesAreLists
    <2> QED BY <1>1, <2>2, <2>3 DEF IsList
  <1> HIDE DEF plan
  <1>5. \A i \in 1 .. Len(more) : Attributed(more[i], plan[i], NamesOf(a.entities), at)
    BY <1>1, <1>2, <1>4 DEF IsList
  <1>6. Len(more) <= Len(plan)
    BY <1>1, <1>4 DEF IsList
  <1> QED BY <1>3, <1>4, <1>5, <1>6 DEF FromPlan, plan

LEMMA RunTaskSound ==
    ASSUME IInv, Bounded, CacheInv, NEW t \in Turns, RunTask(t)
    PROVE  CacheInv'
  <1>1. UNCHANGED <<pc, request, scope, read, analysis, response, hit, cache>>
    BY DEF RunTask, stores, inputs
  <1>2. Sound(pc[t], request[t].query, scope[t], ScopeOf(read[t]), analysis[t],
              outputs[t], response[t], hit[t])
    BY DEF CacheInv, SoundTurn
  <1>3. PICK o \in TaskOutputs(RouteToAgents(analysis[t])[Len(outputs[t]) + 1], analysis[t],
                      ScopeOf(read[t]), outputs[t]) :
            outputs' = [outputs EXCEPT ![t] = Append(@, o)]
    BY DEF RunTask, ScopeOf
  <1>4. pc[t] = "run" /\ ~PlanEnded(RouteToAgents(analysis[t]), outputs[t])
    BY DEF RunTask
  <1>5. /\ outputs' = [u \in Turns |-> outputs'[u]]
        /\ \A u \in Turns : outputs'[u] = IF u = t THEN Append(outputs[t], o) ELSE outputs[u]
    BY <1>3 DEF CacheInv
  <1>6. Scoped(scope[t]) => FromPlan(outputs'[t], analysis[t], scope[t])
    <2> SUFFICES ASSUME Scoped(scope[t])
                 PROVE  FromPlan(Append(outputs[t], o), analysis[t], scope[t])
      BY <1>5
    <2>1. ScopeOf(read[t]) = scope[t] /\ FromPlan(outputs[t], analysis[t], scope[t])
      BY <1>2, <1>4 DEF Sound
    <2>2. IsList(analysis[t].entities)
      BY DEF Bounded
    <2> QED BY <1>3, <1>4, <2>1, <2>2, PlanGoesOn
  <1>7. \A u \in Turns : ScopeOf(read'[u]) = ScopeOf(read[u])
    BY <1>1 DEF ScopeOf
  <1>8. Sound(pc'[t], request'[t].query, scope'[t], ScopeOf(read'[t]),
              analysis'[t], outputs'[t], response'[t], hit'[t])
    BY <1>1, <1>2, <1>4, <1>6, <1>7 DEF Sound, Unplanned, Analysed, Answering
  <1>9. SoundCache'
    BY <1>1, SameCache DEF CacheInv
  <1>10. response' = [u \in Turns |-> response'[u]]
    BY <1>1 DEF CacheInv
  <1> QED BY <1>1, <1>5, <1>7, <1>8, <1>9, <1>10, OtherTurns

(* A plan that ended without a failure ran to its end.                     *)
LEMMA AnswersAreContextFree ==
    ASSUME NEW q, NEW outs, NEW a, a = AnalyzeQuery(q, NoContext), NEW at,
           FromPlan(outs, a, at), PlanEnded(RouteToAgents(a), outs),
           NEW r \in Enhanced(SynthesizeResponse(q, outs)), ~r.partial
    PROVE  ContextFree(r, q, at)
  <1>1. r.query = q /\ r.outputs = outs /\ r.partial = SynthesizeResponse(q, outs).partial
    <2>1. PICK s : s = SynthesizeResponse(q, outs)
      OBVIOUS
    <2>2. r = s \/ \E marks : r = [s EXCEPT !.cited = marks]
      BY <2>1 DEF Enhanced
    <2>3. s = [query |-> q, outputs |-> outs, evidence |-> s.evidence, cited |-> {},
               partial |-> s.partial]
      BY <2>1 DEF SynthesizeResponse
    <2> QED BY <2>1, <2>2, <2>3
  <1>2. outs # <<>> /\ \A i \in DOMAIN outs : outs[i].success
    BY <1>1 DEF SynthesizeResponse
  <1>3. IsList(outs) /\ DOMAIN outs = 1 .. Len(outs)
    BY DEF FromPlan, IsList
  <1>4. Len(outs) \in 1 .. Len(outs)
    BY <1>2, <1>3 DEF IsList
  <1>5. Last(outs).success
    BY <1>2, <1>3, <1>4 DEF Last
  <1>6. Len(outs) = Len(RouteToAgents(a))
    BY <1>2, <1>5 DEF PlanEnded
  <1> QED BY <1>1, <1>2, <1>3, <1>6 DEF ContextFree

LEMMA SynthesizeSound ==
    ASSUME IInv, CacheInv, NEW t \in Turns, Synthesize(t)
    PROVE  CacheInv'
  <1>1. UNCHANGED <<request, scope, read, analysis, outputs, hit, cache>>
    BY DEF Synthesize, stores, inputs
  <1>2. Sound(pc[t], request[t].query, scope[t], ScopeOf(read[t]), analysis[t],
              outputs[t], response[t], hit[t])
    BY DEF CacheInv, SoundTurn
  <1>3. PICK r \in Enhanced(SynthesizeResponse(request[t].query, outputs[t])) :
            response' = [response EXCEPT ![t] = r]
    BY DEF Synthesize
  <1>4. /\ pc[t] = "run" /\ PlanEnded(RouteToAgents(analysis[t]), outputs[t])
        /\ pc' = [pc EXCEPT ![t] = "watch answer"]
    BY DEF Synthesize, Goto
  <1>5. /\ response' = [u \in Turns |-> response'[u]]
        /\ \A u \in Turns : response'[u] = IF u = t THEN r ELSE response[u]
        /\ pc'[t] = "watch answer" /\ \A u \in Turns : u # t => pc'[u] = pc[u]
    BY <1>3, <1>4 DEF CacheInv, IInv, Types
  <1>6. Scoped(scope[t]) /\ ~request[t].query.refers /\ ~r.partial =>
            ContextFree(r, request[t].query, scope[t])
    <2> SUFFICES ASSUME Scoped(scope[t]), ~request[t].query.refers, ~r.partial
                 PROVE  ContextFree(r, request[t].query, scope[t])
      OBVIOUS
    <2>1. /\ analysis[t] = AnalyzeQuery(request[t].query, NoContext)
          /\ FromPlan(outputs[t], analysis[t], scope[t])
      BY <1>2, <1>4 DEF Sound, Analysed
    <2> QED BY <1>3, <1>4, <2>1, AnswersAreContextFree
  <1>7. Sound(pc'[t], request'[t].query, scope'[t], ScopeOf(read'[t]),
              analysis'[t], outputs'[t], response'[t], hit'[t])
    BY <1>1, <1>5, <1>6 DEF Sound, Unplanned, Analysed, Answering
  <1>8. SoundCache'
    BY <1>1, SameCache DEF CacheInv
  <1>9. \A u \in Turns : ScopeOf(read'[u]) = ScopeOf(read[u])
    BY <1>1 DEF ScopeOf
  <1>10. outputs' = [u \in Turns |-> outputs'[u]]
    BY <1>1 DEF CacheInv
  <1> QED BY <1>1, <1>5, <1>7, <1>8, <1>9, <1>10, OtherTurns

LEMMA StoreSound ==
    ASSUME IInv, CacheInv, NEW t \in Turns, StoreResponse(t)
    PROVE  CacheInv'
  <1>1. UNCHANGED <<request, scope, read, analysis, outputs, response, hit>>
    BY DEF StoreResponse, inputs, results
  <1>2. Sound(pc[t], request[t].query, scope[t], ScopeOf(read[t]), analysis[t],
              outputs[t], response[t], hit[t])
    BY DEF CacheInv, SoundTurn
  <1>3. pc[t] = "store" /\ pc'[t] = "audit" /\ \A u \in Turns : u # t => pc'[u] = pc[u]
    BY DEF StoreResponse, Goto, IInv, Types
  <1>4. SoundCache'
    <2>1. CASE UNCHANGED cache
      BY <2>1, SameCache DEF CacheInv
    <2>2. CASE ~UNCHANGED cache
      <3>1. PICK k : k = CacheKey(t)
        OBVIOUS
      <3>2. /\ Cacheable(t) /\ ~response[t].partial
            /\ cache' = [c \in DOMAIN cache \cup {k} |-> IF c = k THEN response[t] ELSE cache[c]]
        BY <2>2, <3>1 DEF StoreResponse
      <3>3. k.query = request[t].query.key /\ ScopeOf(k) = scope[t]
        <4>1. scope[t] \in AnyScope
          BY DEF IInv, Types
        <4> QED BY <3>1, <4>1 DEF CacheKey, ScopeOf, AnyScope
      <3>4. ContextFree(response[t], request[t].query, scope[t])
        BY <1>2, <1>3, <3>2 DEF Sound, Answering, Cacheable
      <3>5. /\ DOMAIN cache' = {k} \cup DOMAIN cache
            /\ cache'[k] = response[t]
            /\ \A c \in DOMAIN cache : c # k => cache'[c] = cache[c]
        BY <3>2
      <3>6. FreeFor(k, response[t])
        BY <3>3, <3>4 DEF FreeFor, ContextFree
      <3>7. \A c \in DOMAIN cache' : FreeFor(c, cache'[c])
        BY <3>5, <3>6 DEF CacheInv, SoundCache
      <3> QED BY <3>7 DEF SoundCache, FreeFor, ContextFree, FromPlan, ScopeOf, Attributed
    <2> QED BY <2>1, <2>2
  <1>5. Sound(pc'[t], request'[t].query, scope'[t], ScopeOf(read'[t]),
              analysis'[t], outputs'[t], response'[t], hit'[t])
    BY <1>3 DEF Sound, Unplanned, Analysed, Answering
  <1>6. \A u \in Turns : ScopeOf(read'[u]) = ScopeOf(read[u])
    BY <1>1 DEF ScopeOf
  <1>7. outputs' = [u \in Turns |-> outputs'[u]] /\ response' = [u \in Turns |-> response'[u]]
    BY <1>1 DEF CacheInv
  <1> QED BY <1>1, <1>3, <1>4, <1>5, <1>6, <1>7, OtherTurns

LEMMA EndingSound ==
    ASSUME IInv, Bounded, CacheInv, NEW t \in Turns,
           AppendAudit(t) \/ RememberEpisode(t) \/ Fail(t)
    PROVE  CacheInv'
  <1>1. UNCHANGED <<request, cache>>
    BY DEF AppendAudit, RememberEpisode, Fail, Forget, stores, inputs
  <1>2. /\ pc'[t] \in {"remember", "done", "failed"}
        /\ \A u \in Turns : u # t => pc'[u] = pc[u]
    BY DEF AppendAudit, RememberEpisode, Fail, Goto, IInv, Types
  <1>3. /\ outputs' = [u \in Turns |-> outputs'[u]] /\ response' = [u \in Turns |-> response'[u]]
        /\ \A u \in Turns : u # t => /\ scope'[u] = scope[u] /\ read'[u] = read[u]
                                     /\ analysis'[u] = analysis[u] /\ outputs'[u] = outputs[u]
                                     /\ response'[u] = response[u] /\ hit'[u] = hit[u]
    <2>1. CASE AppendAudit(t)
      BY <2>1 DEF AppendAudit, inputs, results, CacheInv
    <2>2. CASE RememberEpisode(t) \/ Fail(t)
      BY <2>2 DEF RememberEpisode, Fail, Forget, CacheInv, Bounded, IInv, Types
    <2> QED BY <2>1, <2>2
  <1>4. Sound(pc'[t], request'[t].query, scope'[t], ScopeOf(read'[t]),
              analysis'[t], outputs'[t], response'[t], hit'[t])
    BY <1>2 DEF Sound, Unplanned, Analysed, Answering
  <1>5. SoundCache'
    BY <1>1, SameCache DEF CacheInv
  <1>6. \A u \in Turns : u # t => ScopeOf(read'[u]) = ScopeOf(read[u])
    BY <1>3 DEF ScopeOf
  <1> QED BY <1>1, <1>2, <1>3, <1>4, <1>5, <1>6, OtherTurns

LEMMA NextCacheInv == IInv /\ Bounded /\ CacheInv /\ [Next]_vars => CacheInv'
  <1> SUFFICES ASSUME IInv, Bounded, CacheInv, [Next]_vars PROVE CacheInv'
    OBVIOUS
  <1>1. ASSUME NEW t \in Turns, Step(t)
        PROVE  CacheInv'
    BY <1>1, EarlyStepsSound, WatchSound, CommitSound, LookupSound, RunTaskSound,
       SynthesizeSound, StoreSound, EndingSound DEF Step
  <1>2. ASSUME Changes \/ UNCHANGED vars
        PROVE  CacheInv'
    <2>1. UNCHANGED <<pc, request, scope, read, analysis, outputs, response, hit>>
      BY <1>2 DEF Changes, ExpireSession, ExpireAudit, SetPreferences, ExpireResponse,
         ExpireEpisodes, vars, inputs, results, stores
    <2>2. /\ DOMAIN cache' \subseteq DOMAIN cache
          /\ \A c \in DOMAIN cache' : cache'[c] = cache[c]
      BY <1>2 DEF Changes, ExpireSession, ExpireAudit, SetPreferences, ExpireResponse,
         ExpireEpisodes, vars, stores
    <2>3. \A c \in DOMAIN cache' : FreeFor(c, cache'[c])
      BY <2>2 DEF CacheInv, SoundCache
    <2>4. SoundCache'
      BY <2>3 DEF SoundCache, FreeFor, ContextFree, FromPlan, ScopeOf, Attributed
    <2>5. \A u \in Turns : ScopeOf(read'[u]) = ScopeOf(read[u])
      BY <2>1 DEF ScopeOf
    <2>6. \A u \in Turns : Sound(pc'[u], request'[u].query, scope'[u], ScopeOf(read'[u]),
                                 analysis'[u], outputs'[u], response'[u], hit'[u])
      BY <2>1, <2>5 DEF CacheInv, SoundTurn
    <2>7. outputs' = [u \in Turns |-> outputs'[u]] /\ response' = [u \in Turns |-> response'[u]]
      BY <2>1 DEF CacheInv
    <2>8. \A u \in Turns : SoundTurn(u)'
      BY <2>6 DEF SoundTurn, ScopeOf
    <2> QED BY <2>4, <2>7, <2>8 DEF CacheInv
  <1> QED BY <1>1, <1>2 DEF Next

LEMMA ContextFreeIsWhatIsMeant == SoundCache => CachedIsContextFree
  <1> SUFFICES ASSUME SoundCache, NEW k \in DOMAIN cache
               PROVE  LET r == cache[k]
                          apart == AnalyzeQuery(r.query, NoContext)
                      IN  /\ r.query.key = k.query
                          /\ [i \in DOMAIN r.outputs |-> r.outputs[i].operation]
                                = RouteToAgents(apart)
                          /\ \A i \in DOMAIN r.outputs :
                                 /\ r.outputs[i].success
                                 /\ r.outputs[i].scope \in {NoScope, ScopeOf(k)}
                                 /\ r.outputs[i].operation = "find_entity" =>
                                       \A j \in DOMAIN r.outputs[i].entities :
                                           Contains(NamesOf(apart.entities),
                                                    r.outputs[i].entities[j].requested)
    BY DEF CachedIsContextFree
  <1>1. PICK r : r = cache[k]
    OBVIOUS
  <1>2. r.query.key = k.query /\ ContextFree(r, r.query, ScopeOf(k))
    BY <1>1 DEF SoundCache, FreeFor
  <1>3. PICK a : a = AnalyzeQuery(r.query, NoContext)
    OBVIOUS
  <1>4. /\ FromPlan(r.outputs, a, ScopeOf(k))
        /\ Len(r.outputs) = Len(RouteToAgents(a))
        /\ \A i \in 1 .. Len(r.outputs) : r.outputs[i].success
    BY <1>2, <1>3 DEF ContextFree
  <1>5. /\ DOMAIN r.outputs = 1 .. Len(r.outputs)
        /\ \A i \in 1 .. Len(r.outputs) :
               Attributed(r.outputs[i], RouteToAgents(a)[i], NamesOf(a.entities), ScopeOf(k))
    BY <1>4 DEF FromPlan, IsList
  <1>6. [i \in DOMAIN r.outputs |-> r.outputs[i].operation] = RouteToAgents(a)
    <2>1. RouteToAgents(a) = [i \in 1 .. Len(RouteToAgents(a)) |-> RouteToAgents(a)[i]]
      BY PlansAreLists DEF IsList
    <2> QED BY <1>4, <1>5, <2>1 DEF Attributed
  <1> QED BY <1>1, <1>2, <1>3, <1>4, <1>5, <1>6 DEF Attributed

(* A cached response owes nothing to the conversation it was made in: it   *)
(* is a complete plan's for the question alone, with every source of the   *)
(* key's repository and revision (service.py: only context-free answers    *)
(* are cached).                                                            *)
THEOREM ChatCachedIsContextFree == Spec => []CachedIsContextFree
  <1>1. Init => Bounded /\ CacheInv
    BY InitBounded, InitCacheInv
  <1>2. IInv /\ Bounded /\ CacheInv /\ [Next]_vars => Bounded' /\ CacheInv'
    BY NextBounded, NextCacheInv
  <1>3. CacheInv => CachedIsContextFree
    BY ContextFreeIsWhatIsMeant DEF CacheInv
  <1> QED BY <1>1, <1>2, <1>3, Invariance, PTL DEF Spec
=============================================================================
