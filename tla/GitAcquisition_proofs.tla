------------------------- MODULE GitAcquisition_proofs -------------------------
(***************************************************************************)
(* Proofs about GitAcquisition for any calls, remotes, refs and commits,   *)
(* and any number of pushes, killed commands and killed agents.            *)
(***************************************************************************)
EXTENDS GitAcquisition, FiniteSetTheorems, TLAPS

(* What is known of a call at each of its points.                          *)
CallInv(c) ==
    /\ call[c].at # "idle" => /\ call[c].remote \in Remotes
                              /\ call[c].ref \in Refs
                              /\ HeadOf(c) \in seen[c] \cup {NoCommit}
    /\ call[c].at \in Holding => lock = c
    /\ call[c].at = "init" => cache.at = "empty"
    /\ call[c].at = "remote" => cache.at = "bare"
    /\ call[c].at \in {"fetch", "resolve", "inspect", "checkout", "publish"} =>
          cache.at = "bound" /\ cache.origin = call[c].remote
    /\ call[c].at = "resolve" => cache.fetched \in seen[c]
    /\ call[c].at \in {"inspect", "checkout", "publish", "done"} =>
          call[c].revision \in seen[c]
    /\ call[c].at = "publish" => call[c].staging = call[c].revision
    /\ call[c].staging # NoSnapshot => call[c].at \in {"checkout", "publish"}
    /\ call[c].at = "done" => snapshot[call[c].revision] # NoSnapshot

(* The inductive invariant: the types, what is known of every call, and    *)
(* the two properties of what is published.                                *)
IInv ==
    /\ TypeOK
    /\ \A c \in Calls : CallInv(c)
    /\ SnapshotComplete
    /\ OneRemote

LEMMA InitInv == Init => IInv
  <1> SUFFICES ASSUME Init PROVE IInv
    OBVIOUS
  <1>1. IdleCall \in Call
    BY DEF IdleCall, Call, Points
  <1>2. cache \in Cache
    BY DEF Init, Cache
  <1>3. TypeOK
    BY <1>1, <1>2, HeadsAssumption, BoundAssumption DEF Init, TypeOK
  <1>4. \A c \in Calls : CallInv(c)
    BY DEF Init, CallInv, IdleCall, Holding, Points
  <1> QED BY <1>3, <1>4 DEF Init, IInv, SnapshotComplete, OneRemote

(* Whatever a command leaves of the cache when it is cut short is a cache, *)
(* and as far set up, for the same origin, if it was set up.               *)
LEMMA CutType ==
    ASSUME IInv, NEW c \in Calls, NEW k \in CutCaches(c)
    PROVE  /\ k \in Cache
           /\ cache.at = "bound" => k.at = "bound" /\ k.origin = cache.origin
  <1>1. cache \in Cache
    BY DEF IInv, TypeOK
  <1>2. CASE call[c].at = "init"
    <2>1. cache.at = "empty" /\ k \in {cache, Initialised}
      BY <1>2 DEF CutCaches, IInv, CallInv
    <2> QED BY <1>1, <2>1 DEF Initialised, Cache
  <1>3. CASE call[c].at = "remote"
    <2>1. cache.at = "bare" /\ k \in {cache, Bound(c)} /\ call[c].remote \in Remotes
      BY <1>3 DEF CutCaches, IInv, CallInv
    <2> QED BY <1>1, <2>1 DEF Bound, Cache
  <1>4. CASE call[c].at = "fetch"
    <2>1. PICK j \in {cache, FetchEmptied, FetchedBy(c)}, l \in SUBSET {"fetch"} :
             k = [j EXCEPT !.locks = @ \cup l]
      BY <1>4 DEF CutCaches
    <2>2. HeadOf(c) \in Commits \cup {NoCommit}
      BY <1>4 DEF HeadOf, IInv, CallInv, TypeOK
    <2>3. j \in Cache /\ j.at = cache.at /\ j.origin = cache.origin
      BY <1>1, <2>2 DEF FetchEmptied, FetchedBy, Cache
    <2> QED BY <2>1, <2>3 DEF Cache
  <1>5. CASE call[c].at = "checkout"
    <2>1. PICK l \in SUBSET {"checkout"} : k = [cache EXCEPT !.locks = @ \cup l]
      BY <1>5 DEF CutCaches
    <2> QED BY <1>1, <2>1 DEF Cache
  <1>6. CASE call[c].at \notin {"init", "remote", "fetch", "checkout"}
    BY <1>1, <1>6 DEF CutCaches
  <1> QED BY <1>2, <1>3, <1>4, <1>5, <1>6

LEMMA CallTypes ==
    ASSUME IInv, NEW c \in Calls
    PROVE  /\ call[c] \in Call
           /\ call[c].at \in Points
           /\ call[c].at # "idle" => HeadOf(c) \in Commits \cup {NoCommit}
           /\ call[c].at \in {"inspect", "checkout", "publish", "done"} =>
                 call[c].revision \in Commits
  BY DEF IInv, CallInv, TypeOK, Call, HeadOf

(* Only the call that holds the lock has a staging directory.              *)
LEMMA OneStaging ==
    ASSUME IInv
    PROVE  Cardinality({c \in Calls : call[c].staging # NoSnapshot}) \in {0, 1}
  <1> DEFINE S == {c \in Calls : call[c].staging # NoSnapshot}
  <1>1. S \subseteq {lock}
    BY DEF IInv, CallInv, Holding, Points
  <1>2. CASE S = {}
    BY <1>2, FS_EmptySet
  <1>3. CASE S = {lock}
    BY <1>3, FS_Singleton
  <1> QED BY <1>1, <1>2, <1>3

(* Moving a call on, with what a step computes, keeps its type.            *)
LEMMA AtType ==
    ASSUME TypeOK, NEW c \in Calls, NEW from, NEW to \in Points, At(c, from, to)
    PROVE  call' \in [Calls -> Call]
  <1>1. [call[c] EXCEPT !.at = to] \in Call
    BY DEF TypeOK, Call
  <1>2. call' = [call EXCEPT ![c] = [call[c] EXCEPT !.at = to]]
    BY DEF At
  <1> QED BY <1>1, <1>2 DEF TypeOK

LEMMA ResolvedType ==
    ASSUME TypeOK, NEW c \in Calls, NEW to \in Points, NEW rev \in Commits \cup {NoCommit}
    PROVE  [call EXCEPT ![c].at = to, ![c].revision = rev] \in [Calls -> Call]
  <1>1. [call[c] EXCEPT !.at = to, !.revision = rev] \in Call
    BY DEF TypeOK, Call
  <1>2. [call EXCEPT ![c].at = to, ![c].revision = rev]
            = [call EXCEPT ![c] = [call[c] EXCEPT !.at = to, !.revision = rev]]
    BY DEF TypeOK
  <1> QED BY <1>1, <1>2 DEF TypeOK

LEMMA StagedType ==
    ASSUME TypeOK, NEW c \in Calls, NEW to \in Points,
           NEW dir \in Commits \cup {NoCommit, NoSnapshot}
    PROVE  [call EXCEPT ![c].at = to, ![c].staging = dir] \in [Calls -> Call]
  <1>1. [call[c] EXCEPT !.at = to, !.staging = dir] \in Call
    BY DEF TypeOK, Call
  <1>2. [call EXCEPT ![c].at = to, ![c].staging = dir]
            = [call EXCEPT ![c] = [call[c] EXCEPT !.at = to, !.staging = dir]]
    BY DEF TypeOK
  <1> QED BY <1>1, <1>2 DEF TypeOK

(* What a call publishes is a snapshot, hence not the mark of none.        *)
LEMMA PublishedType ==
    ASSUME IInv, NEW c \in Calls, call[c].at = "publish"
    PROVE  LET new == [tree |-> call[c].staging, marker |-> MarkerOf(c)] IN
           /\ MarkerOf(c) \in Marker
           /\ new \in Snapshot
           /\ new # NoSnapshot
  <1>1. call[c].revision \in Commits /\ call[c].staging = call[c].revision
    BY CallTypes DEF IInv, CallInv
  <1>2. MarkerOf(c) \in Marker
    BY <1>1 DEF MarkerOf, Marker, IInv, CallInv
  <1> QED BY <1>1, <1>2, NoneAssumption DEF Snapshot, Marker

LEMMA TypeStep == IInv /\ [Next]_vars => TypeOK'
  <1> SUFFICES ASSUME IInv, [Next]_vars PROVE TypeOK'
    OBVIOUS
  <1> USE DEF Holding
  <1>0. TypeOK /\ cache \in Cache /\ IdleCall \in Call
    BY DEF IInv, TypeOK, IdleCall, Call, Points
  <1>1. ASSUME NEW c \in Calls, Enter(c) PROVE TypeOK'
    <2>1. call' \in [Calls -> Call]
      BY <1>0, <1>1, AtType DEF Enter, Points
    <2>2. cache' \in Cache
      BY <1>0, <1>1 DEF Enter, Cache
    <2> QED BY <1>0, <1>1, <2>1, <2>2 DEF Enter, TypeOK
  <1>2. ASSUME NEW c \in Calls, InitCache(c) \/ AddRemote(c) \/ CompareRemote(c) PROVE TypeOK'
    <2>1. call' \in [Calls -> Call]
      BY <1>0, <1>2, AtType DEF InitCache, AddRemote, CompareRemote, Points
    <2>2. call[c].at # "idle"
      BY <1>2 DEF InitCache, AddRemote, CompareRemote, At
    <2>3. call[c].remote \in Remotes
      BY <2>2 DEF IInv, CallInv
    <2>4. cache' \in Cache
      BY <1>0, <1>2, <2>3 DEF InitCache, AddRemote, CompareRemote, Initialised, Bound, Cache
    <2> QED BY <1>0, <1>2, <2>1, <2>4 DEF InitCache, AddRemote, CompareRemote, TypeOK
  <1>3. ASSUME NEW c \in Calls, Fetch(c) PROVE TypeOK'
    <2>1. call' \in [Calls -> Call]
      BY <1>0, <1>3, AtType DEF Fetch, Points
    <2>2. HeadOf(c) \in Commits \cup {NoCommit}
      BY <1>3, CallTypes DEF Fetch, At
    <2>3. cache' \in Cache
      BY <1>0, <1>3, <2>2 DEF Fetch, FetchedBy, Cache
    <2> QED BY <1>0, <1>3, <2>1, <2>3 DEF Fetch, TypeOK
  <1>4. ASSUME NEW c \in Calls, Resolve(c) PROVE TypeOK'
    <2>1. cache.fetched \in Commits \cup {NoCommit} /\ "inspect" \in Points
      BY <1>0 DEF Cache, Points
    <2>2. call' \in [Calls -> Call]
      BY <1>0, <1>4, <2>1, ResolvedType DEF Resolve
    <2> QED BY <1>0, <1>4, <2>2 DEF Resolve, TypeOK
  <1>5. ASSUME NEW c \in Calls, Reuse(c) PROVE TypeOK'
    <2>1. call' \in [Calls -> Call]
      BY <1>0, <1>5, AtType DEF Reuse, Points
    <2> QED BY <1>0, <1>5, <2>1 DEF Reuse, TypeOK
  <1>6. ASSUME NEW c \in Calls, Stage(c) PROVE TypeOK'
    <2>0. "checkout" \in Points
      BY DEF Points
    <2>1. call' \in [Calls -> Call]
      BY <1>0, <1>6, <2>0, StagedType DEF Stage
    <2> QED BY <1>0, <1>6, <2>1 DEF Stage, TypeOK
  <1>7. ASSUME NEW c \in Calls, Checkout(c) PROVE TypeOK'
    <2>1. call[c].revision \in Commits /\ "publish" \in Points
      BY <1>7, CallTypes DEF Checkout, Points
    <2>2. call' \in [Calls -> Call]
      BY <1>0, <1>7, <2>1, StagedType DEF Checkout
    <2> QED BY <1>0, <1>7, <2>2 DEF Checkout, TypeOK
  <1>8. ASSUME NEW c \in Calls, Publish(c) PROVE TypeOK'
    <2>0. "done" \in Points
      BY DEF Points
    <2>1. call' \in [Calls -> Call]
      BY <1>0, <1>8, <2>0, StagedType DEF Publish
    <2>2. [tree |-> call[c].staging, marker |-> MarkerOf(c)] \in Snapshot
      BY <1>8, PublishedType DEF Publish
    <2> QED BY <1>0, <1>8, <2>1, <2>2 DEF Publish, TypeOK
  <1>9. ASSUME NEW c \in Calls, Refuse(c) \/ Cut(c) PROVE TypeOK'
    <2>1. call' \in [Calls -> Call] /\ lock' = NoCall /\ UNCHANGED leftovers
      BY <1>0, <1>9 DEF Refuse, Cut, Fail, TypeOK
    <2>2. cache' \in Cache
      BY <1>0, <1>9, CutType DEF Refuse, Cut, FetchEmptied, Cache
    <2>3. seen' \in [Calls -> SUBSET Commits]
      BY <1>0, <1>9 DEF Refuse, Cut, TypeOK
    <2>4. cuts' \in 0..MaxCuts
      BY <1>0, <1>9, BoundAssumption DEF Refuse, Cut, TypeOK
    <2> QED BY <1>0, <1>9, <2>1, <2>2, <2>3, <2>4 DEF Refuse, Cut, TypeOK
  <1>10. ASSUME NEW c \in Calls, End(c) PROVE TypeOK'
    BY <1>0, <1>10 DEF End, TypeOK
  <1>11. ASSUME NEW c \in Calls, NEW remote \in Remotes, NEW ref \in Refs,
                Begin(c, remote, ref) PROVE TypeOK'
    <2>1. call' \in [Calls -> Call]
      <3>1. call' = [call EXCEPT ![c] =
                       [@ EXCEPT !.at = "wait", !.remote = remote, !.ref = ref]]
        BY <1>0, <1>11 DEF Begin, TypeOK, Call
      <3>2. [call[c] EXCEPT !.at = "wait", !.remote = remote, !.ref = ref] \in Call
        BY <1>0 DEF TypeOK, Call, Points
      <3> QED BY <1>0, <3>1, <3>2 DEF TypeOK
    <2>2. {head[remote][ref]} \ {NoCommit} \subseteq Commits
      BY <1>0 DEF TypeOK
    <2> QED BY <1>0, <1>11, <2>1, <2>2 DEF Begin, TypeOK
  <1>12. ASSUME NEW remote \in Remotes, NEW ref \in Refs, NEW commit \in Commits \cup {NoCommit},
                Push(remote, ref, commit) PROVE TypeOK'
    <2>1. head' \in [Remotes -> [Refs -> Commits \cup {NoCommit}]]
      BY <1>0, <1>12 DEF Push, TypeOK
    <2>2. seen' \in [Calls -> SUBSET Commits]
      BY <1>0, <1>12 DEF Push, TypeOK
    <2>3. pushes' \in 0..MaxPushes
      BY <1>0, <1>12, BoundAssumption DEF Push, TypeOK
    <2> QED BY <1>0, <1>12, <2>1, <2>2, <2>3 DEF Push, TypeOK
  <1>13. CASE Crash
    <2>1. call' \in [Calls -> Call] /\ seen' \in [Calls -> SUBSET Commits]
      BY <1>0, <1>13 DEF Crash, TypeOK
    <2>2. cache' \in Cache
      BY <1>0, <1>13, CutType DEF Crash, TypeOK
    <2>3. leftovers' \in Nat
      BY <1>0, <1>13, OneStaging DEF Crash, TypeOK
    <2>4. crashes' \in Nat /\ cuts' \in 0..MaxCuts
      BY <1>0, <1>13, BoundAssumption DEF Crash, TypeOK
    <2> QED BY <1>0, <1>13, <2>1, <2>2, <2>3, <2>4 DEF Crash, TypeOK
  <1>14. CASE UNCHANGED vars
    BY <1>0, <1>14 DEF vars, TypeOK
  <1> QED BY <1>1, <1>2, <1>3, <1>4, <1>5, <1>6, <1>7, <1>8, <1>9, <1>10, <1>11, <1>12,
             <1>13, <1>14 DEF Next, Step

(* A step of one call leaves the others as they were; while it holds the   *)
(* lock they are outside the locked section.                               *)
LEMMA OthersKept ==
    ASSUME IInv, NEW c \in Calls, NEW d \in Calls, d # c,
           call'[d] = call[d], seen'[d] = seen[d], head' = head,
           \/ call[c].at \in Holding
           \/ cache' = cache /\ lock' = lock
           \/ lock = NoCall,
           \A r \in Commits : snapshot[r] # NoSnapshot => snapshot'[r] # NoSnapshot
    PROVE  CallInv(d)'
  <1>1. CallInv(c) /\ CallInv(d) /\ HeadOf(d)' = HeadOf(d)
    BY DEF IInv, HeadOf
  <1>2. call[d].at = "done" => call[d].revision \in Commits
    BY CallTypes
  <1>3. d # NoCall
    BY NoneAssumption
  <1>4. CASE call[d].at \in Holding
    <2>1. lock = d /\ cache' = cache /\ lock' = lock
      BY <1>1, <1>3, <1>4 DEF CallInv
    <2> QED BY <1>1, <1>2, <2>1 DEF CallInv
  <1>5. CASE call[d].at \notin Holding
    BY <1>1, <1>2, <1>5 DEF CallInv, Holding, Points
  <1> QED BY <1>4, <1>5

LEMMA CallStep == IInv /\ [Next]_vars => \A c \in Calls : CallInv(c)'
  <1> SUFFICES ASSUME IInv, [Next]_vars PROVE \A c \in Calls : CallInv(c)'
    OBVIOUS
  <1>0. /\ call \in [Calls -> Call] /\ seen \in [Calls -> SUBSET Commits] /\ cache \in Cache
        /\ snapshot \in [Commits -> Snapshot \cup {NoSnapshot}]
        /\ head \in [Remotes -> [Refs -> Commits \cup {NoCommit}]]
        /\ \A c \in Calls : CallInv(c)
    BY DEF IInv, TypeOK
  <1>1. ASSUME NEW c \in Calls, Enter(c) PROVE \A d \in Calls : CallInv(d)'
    <2>0. CallInv(c) /\ call[c] \in Call /\ call[c].at = "wait"
      BY <1>0, <1>1 DEF Enter, At
    <2>1. CallInv(c)'
      <3>1. CASE cache.at = "absent"
        <4>1. call'[c] = [call[c] EXCEPT !.at = "init"] /\ cache'.at = "empty" /\ lock' = c
              /\ UNCHANGED <<head, seen>>
          BY <1>0, <1>1, <3>1 DEF Enter, At, Cache
        <4> QED BY <2>0, <4>1 DEF CallInv, Call, HeadOf, Holding
      <3>2. CASE cache.at # "absent"
        <4>1. call'[c] = [call[c] EXCEPT !.at = "geturl"] /\ lock' = c
              /\ UNCHANGED <<head, seen>>
          BY <1>0, <1>1, <3>2 DEF Enter, At
        <4> QED BY <2>0, <4>1 DEF CallInv, Call, HeadOf, Holding
      <3> QED BY <3>1, <3>2
    <2> QED BY <1>0, <1>1, <2>1, OthersKept DEF Enter, At
  <1>2. ASSUME NEW c \in Calls, InitCache(c) PROVE \A d \in Calls : CallInv(d)'
    <2>1. CallInv(c)'
      BY <1>0, <1>2 DEF InitCache, Initialised, At, CallInv, Call, Cache, HeadOf, Holding
    <2> QED BY <1>0, <1>2, <2>1, OthersKept DEF InitCache, At, Holding, Points
  <1>3. ASSUME NEW c \in Calls, AddRemote(c) PROVE \A d \in Calls : CallInv(d)'
    <2>1. CallInv(c)'
      BY <1>0, <1>3 DEF AddRemote, Bound, At, CallInv, Call, Cache, HeadOf, Holding
    <2> QED BY <1>0, <1>3, <2>1, OthersKept DEF AddRemote, At, Holding, Points
  <1>4. ASSUME NEW c \in Calls, CompareRemote(c) PROVE \A d \in Calls : CallInv(d)'
    <2>1. CallInv(c)'
      BY <1>0, <1>4 DEF CompareRemote, Accepts, At, CallInv, Call, Cache, HeadOf, Holding
    <2> QED BY <1>0, <1>4, <2>1, OthersKept DEF CompareRemote, At, Holding, Points
  <1>5. ASSUME NEW c \in Calls, Fetch(c) PROVE \A d \in Calls : CallInv(d)'
    <2>1. CallInv(c)'
      BY <1>0, <1>5 DEF Fetch, FetchedBy, Accepts, At, CallInv, Call, Cache, HeadOf, Holding
    <2> QED BY <1>0, <1>5, <2>1, OthersKept DEF Fetch, At, Holding, Points
  <1>6. ASSUME NEW c \in Calls, Resolve(c) PROVE \A d \in Calls : CallInv(d)'
    <2>1. CallInv(c)'
      BY <1>0, <1>6 DEF Resolve, CallInv, Call, Cache, HeadOf, Holding
    <2> QED BY <1>0, <1>6, <2>1, OthersKept DEF Resolve, Holding, Points
  <1>7. ASSUME NEW c \in Calls, Reuse(c) PROVE \A d \in Calls : CallInv(d)'
    <2>1. CallInv(c)'
      BY <1>0, <1>7 DEF Reuse, At, CallInv, Call, Cache, HeadOf, Holding
    <2> QED BY <1>0, <1>7, <2>1, OthersKept DEF Reuse, At, Holding, Points
  <1>8. ASSUME NEW c \in Calls, Stage(c) PROVE \A d \in Calls : CallInv(d)'
    <2>1. CallInv(c)'
      BY <1>0, <1>8 DEF Stage, CallInv, Call, Cache, HeadOf, Holding
    <2> QED BY <1>0, <1>8, <2>1, OthersKept DEF Stage, Holding, Points
  <1>9. ASSUME NEW c \in Calls, Checkout(c) PROVE \A d \in Calls : CallInv(d)'
    <2>1. CallInv(c)'
      BY <1>0, <1>9 DEF Checkout, CallInv, Call, Cache, HeadOf, Holding
    <2> QED BY <1>0, <1>9, <2>1, OthersKept DEF Checkout, Holding, Points
  <1>10. ASSUME NEW c \in Calls, Publish(c) PROVE \A d \in Calls : CallInv(d)'
    <2>1. call[c].revision \in Commits /\ call[c].staging = call[c].revision
      BY <1>0, <1>10, CallTypes DEF Publish, CallInv
    <2>2. /\ snapshot'[call[c].revision] # NoSnapshot
          /\ \A r \in Commits : snapshot[r] # NoSnapshot => snapshot'[r] # NoSnapshot
      BY <1>0, <1>10, <2>1, PublishedType DEF Publish
    <2>3. CallInv(c)'
      BY <1>0, <1>10, <2>1, <2>2 DEF Publish, CallInv, Call, Cache, HeadOf, Holding
    <2> QED BY <1>0, <1>10, <2>2, <2>3, OthersKept DEF Publish, Holding, Points
  <1>11. ASSUME NEW c \in Calls, Refuse(c) \/ Cut(c) PROVE \A d \in Calls : CallInv(d)'
    <2>1. /\ call' = [call EXCEPT ![c] = IdleCall]
          /\ seen' = [seen EXCEPT ![c] = {}]
          /\ call[c].at \in Holding
          /\ UNCHANGED <<head, snapshot>>
      BY <1>11 DEF Refuse, Cut, Fail
    <2>2. CallInv(c)'
      BY <1>0, <2>1 DEF IdleCall, CallInv, Holding, Points
    <2> QED BY <1>0, <2>1, <2>2, OthersKept
  <1>12. ASSUME NEW c \in Calls, End(c) PROVE \A d \in Calls : CallInv(d)'
    <2>1. CallInv(c)'
      BY <1>0, <1>12 DEF End, IdleCall, CallInv, Holding, Points
    <2> QED BY <1>0, <1>12, <2>1, OthersKept DEF End
  <1>13. ASSUME NEW c \in Calls, NEW remote \in Remotes, NEW ref \in Refs,
                Begin(c, remote, ref) PROVE \A d \in Calls : CallInv(d)'
    <2>1. CallInv(c)'
      BY <1>0, <1>13 DEF Begin, CallInv, Call, HeadOf, Holding, Points
    <2> QED BY <1>0, <1>13, <2>1, OthersKept DEF Begin
  <1>14. ASSUME NEW remote \in Remotes, NEW ref \in Refs, NEW commit \in Commits \cup {NoCommit},
                Push(remote, ref, commit) PROVE \A d \in Calls : CallInv(d)'
    <2> SUFFICES ASSUME NEW d \in Calls PROVE CallInv(d)'
      OBVIOUS
    <2>1. seen[d] \subseteq seen'[d]
      BY <1>0, <1>14 DEF Push
    <2>2. call[d].at # "idle" => HeadOf(d)' \in seen'[d] \cup {NoCommit}
      BY <1>0, <1>14 DEF Push, CallInv, HeadOf
    <2> QED BY <1>0, <1>14, <2>1, <2>2 DEF Push, CallInv
  <1>15. CASE Crash
    BY <1>15 DEF Crash, IdleCall, CallInv, Holding, Points
  <1>16. CASE UNCHANGED vars
    BY <1>0, <1>16 DEF vars, CallInv, HeadOf
  <1> QED BY <1>1, <1>2, <1>3, <1>4, <1>5, <1>6, <1>7, <1>8, <1>9, <1>10, <1>11, <1>12,
             <1>13, <1>14, <1>15, <1>16 DEF Next, Step

(* A step publishes at most the whole tree its call checked out, where no  *)
(* directory was, with a marker that names the cache's origin.             *)
LEMMA PublishStep ==
    ASSUME IInv, NEW c \in Calls, Publish(c)
    PROVE  LET r == call[c].revision IN
           /\ r \in Commits
           /\ snapshot[r] = NoSnapshot
           /\ snapshot' = [snapshot EXCEPT ![r] = [tree |-> r, marker |-> MarkerOf(c)]]
           /\ MarkerOf(c) \in Marker
           /\ MarkerOf(c).revision = r
           /\ cache.at = "bound"
           /\ MarkerOf(c).remote = cache.origin
           /\ UNCHANGED cache
  <1>1. call[c].revision \in Commits /\ call[c].staging = call[c].revision
    BY CallTypes DEF Publish, IInv, CallInv
  <1> QED BY <1>1, PublishedType DEF Publish, Accepts, MarkerOf, IInv, CallInv

LEMMA SnapshotsKept ==
    ASSUME IInv, Next, \A c \in Calls : ~Publish(c)
    PROVE  UNCHANGED snapshot
  BY DEF Next, Step, Enter, InitCache, AddRemote, CompareRemote, Fetch, Resolve, Reuse, Stage,
         Checkout, Refuse, End, Cut, Begin, Push, Crash

(* No step but the publishing one touches a snapshot, and none takes the   *)
(* origin from a cache that has one.                                       *)
LEMMA OriginKept ==
    ASSUME IInv, Next, cache.at = "bound"
    PROVE  cache'.at = "bound" /\ cache'.origin = cache.origin
  <1>0. cache \in Cache
    BY DEF IInv, TypeOK
  <1>1. ASSUME NEW c \in Calls, Enter(c) \/ CompareRemote(c) \/ Resolve(c) \/ Reuse(c)
                                \/ Stage(c) \/ Checkout(c) \/ Publish(c) \/ End(c)
        PROVE  UNCHANGED cache
    BY <1>1 DEF Enter, CompareRemote, Resolve, Reuse, Stage, Checkout, Publish, End
  <1>2. ASSUME NEW c \in Calls, InitCache(c) \/ AddRemote(c) PROVE FALSE
    BY <1>2 DEF InitCache, AddRemote, At, IInv, CallInv
  <1>3. ASSUME NEW c \in Calls, Fetch(c) \/ Refuse(c)
        PROVE  cache'.at = "bound" /\ cache'.origin = cache.origin
    BY <1>0, <1>3 DEF Fetch, FetchedBy, Refuse, FetchEmptied, Cache
  <1>4. ASSUME NEW c \in Calls, Cut(c) PROVE cache'.at = "bound" /\ cache'.origin = cache.origin
    BY <1>4, CutType DEF Cut
  <1>5. CASE Crash
    BY <1>5, CutType DEF Crash, IInv, TypeOK
  <1>6. ASSUME \/ \E c \in Calls, remote \in Remotes, ref \in Refs : Begin(c, remote, ref)
               \/ \E remote \in Remotes, ref \in Refs, commit \in Commits \cup {NoCommit} :
                     Push(remote, ref, commit)
        PROVE  UNCHANGED cache
    BY <1>6 DEF Begin, Push
  <1> QED BY <1>1, <1>2, <1>3, <1>4, <1>5, <1>6 DEF Next, Step

LEMMA SnapshotStep ==
    IInv /\ [Next]_vars => SnapshotComplete' /\ OneRemote'
                           /\ \A r \in Commits : snapshot[r] # NoSnapshot =>
                                                    snapshot'[r] = snapshot[r]
  <1> SUFFICES ASSUME IInv, [Next]_vars
               PROVE  /\ SnapshotComplete' /\ OneRemote'
                      /\ \A r \in Commits : snapshot[r] # NoSnapshot => snapshot'[r] = snapshot[r]
    OBVIOUS
  <1>0. /\ SnapshotComplete /\ OneRemote
        /\ snapshot \in [Commits -> Snapshot \cup {NoSnapshot}]
    BY DEF IInv, TypeOK
  <1>1. ASSUME NEW c \in Calls, Publish(c)
        PROVE  /\ SnapshotComplete' /\ OneRemote'
               /\ \A r \in Commits : snapshot[r] # NoSnapshot => snapshot'[r] = snapshot[r]
    <2> DEFINE new == [tree |-> call[c].revision, marker |-> MarkerOf(c)]
    <2>1. /\ call[c].revision \in Commits /\ snapshot[call[c].revision] = NoSnapshot
          /\ snapshot' = [snapshot EXCEPT ![call[c].revision] = new]
          /\ UNCHANGED cache
      BY <1>1, PublishStep
    <2>2. /\ new.tree = call[c].revision /\ new.marker # NoMarker
          /\ new.marker.revision = call[c].revision
          /\ cache.at = "bound" /\ new.marker.remote = cache.origin
      BY <1>1, PublishStep, NoneAssumption DEF Marker
    <2> HIDE DEF new
    <2> QED BY <1>0, <2>1, <2>2 DEF SnapshotComplete, OneRemote
  <1>2. CASE Next /\ \A c \in Calls : ~Publish(c)
    <2>1. UNCHANGED snapshot
      BY <1>2, SnapshotsKept
    <2> QED BY <1>0, <1>2, <2>1, OriginKept DEF SnapshotComplete, OneRemote
  <1>3. CASE UNCHANGED vars
    BY <1>0, <1>3 DEF vars, SnapshotComplete, OneRemote
  <1> QED BY <1>1, <1>2, <1>3

(* IInv holds in every state.                                              *)
LEMMA Invariant == Spec => []IInv
  <1>1. IInv /\ [Next]_vars => IInv'
    BY TypeStep, CallStep, SnapshotStep DEF IInv
  <1> QED BY <1>1, InitInv, PTL DEF Spec

(* Type correctness.                                                       *)
THEOREM AcquisitionTypes == Spec => []TypeOK
  <1>1. IInv => TypeOK
    BY DEF IInv
  <1> QED BY <1>1, Invariant, PTL

(* A directory under revisions/ is whole and marked, wherever calls fail   *)
(* and agents die.                                                         *)
THEOREM PublishedIsComplete == Spec => []SnapshotComplete
  <1>1. IInv => SnapshotComplete
    BY DEF IInv
  <1> QED BY <1>1, Invariant, PTL

(* A published snapshot never changes.                                     *)
THEOREM PublishedIsImmutable == Spec => SnapshotImmutable
  <1>1. IInv /\ [Next]_vars =>
            [\A r \in Commits : snapshot[r] # NoSnapshot => snapshot'[r] = snapshot[r]]_vars
    BY SnapshotStep
  <1> QED BY <1>1, Invariant, PTL DEF Spec, SnapshotImmutable

(* A call answers with a commit its ref named since it began, although     *)
(* all calls share one FETCH_HEAD.                                         *)
THEOREM AnswersAreRefCommits == Spec => []AnswerIsRefCommit
  <1>1. IInv => AnswerIsRefCommit
    BY DEF IInv, CallInv, AnswerIsRefCommit
  <1> QED BY <1>1, Invariant, PTL

(* The snapshots of a repository ID come from one remote.                  *)
THEOREM SnapshotsOfOneRemote == Spec => []OneRemote
  <1>1. IInv => OneRemote
    BY DEF IInv
  <1> QED BY <1>1, Invariant, PTL

(* While nothing was cut short, only the call that sets the cache up sees  *)
(* it half set up, and no command left its lock file.                      *)
SetupInv ==
    cuts = 0 => /\ cache.locks = {}
                /\ cache.at \in {"empty", "bare"} =>
                      lock \in Calls /\ call[lock].at \in {"init", "remote"}

LEMMA SetupStep == IInv /\ SetupInv /\ [Next]_vars => SetupInv'
  <1> SUFFICES ASSUME IInv, SetupInv, [Next]_vars, cuts' = 0
               PROVE  /\ cache'.locks = {}
                      /\ cache'.at \in {"empty", "bare"} =>
                            lock' \in Calls /\ call'[lock'].at \in {"init", "remote"}
    BY DEF SetupInv
  <1> DEFINE Goal == /\ cache'.locks = {}
                     /\ cache'.at \in {"empty", "bare"} =>
                           lock' \in Calls /\ call'[lock'].at \in {"init", "remote"}
  <1>0. /\ call \in [Calls -> Call] /\ cache \in Cache /\ lock \in Calls \cup {NoCall}
        /\ cuts \in Nat /\ NoCall \notin Calls
        /\ \A c \in Calls : CallInv(c)
    BY NoneAssumption, BoundAssumption DEF IInv, TypeOK
  <1>1. ASSUME NEW c \in Calls, Enter(c) PROVE Goal
    BY <1>0, <1>1 DEF Enter, At, SetupInv, Cache, Call
  <1>2. ASSUME NEW c \in Calls, InitCache(c) \/ AddRemote(c) PROVE Goal
    <2>1. lock = c /\ cuts = 0
      BY <1>0, <1>2 DEF InitCache, AddRemote, At, CallInv, Holding, Points
    <2>2. cache.locks = {} /\ lock' = c
      BY <1>2, <2>1 DEF SetupInv, InitCache, AddRemote
    <2>3. CASE InitCache(c)
      <3>1. cache' = Initialised /\ call'[c].at = "remote"
        BY <1>0, <2>3 DEF InitCache, At, Call
      <3> QED BY <1>0, <2>2, <3>1 DEF Initialised, Cache
    <2>4. CASE AddRemote(c)
      <3>1. cache' = Bound(c)
        BY <2>4 DEF AddRemote
      <3> QED BY <1>0, <2>2, <3>1 DEF Bound, Cache
    <2> QED BY <1>2, <2>3, <2>4
  <1>3. ASSUME NEW c \in Calls,
               \/ CompareRemote(c) \/ Fetch(c) \/ Resolve(c) \/ Reuse(c) \/ Stage(c)
               \/ Checkout(c) \/ Publish(c) \/ Refuse(c)
        PROVE  Goal
    <2>1. lock = c /\ call[c].at \notin {"init", "remote"} /\ cuts = 0
      BY <1>0, <1>3 DEF CompareRemote, Fetch, Resolve, Reuse, Stage, Checkout, Publish, Refuse,
                        Accepts, At, CallInv, Holding, Points
    <2>2. cache'.at = cache.at /\ cache'.locks = cache.locks
      BY <1>0, <1>3 DEF CompareRemote, Fetch, FetchedBy, Resolve, Reuse, Stage, Checkout, Publish,
                        Refuse, FetchEmptied, Cache
    <2> QED BY <2>1, <2>2 DEF SetupInv
  <1>4. ASSUME NEW c \in Calls,
               End(c) \/ \E remote \in Remotes, ref \in Refs : Begin(c, remote, ref)
        PROVE  Goal
    <2>1. call[c].at \in {"idle", "done"} /\ UNCHANGED <<cache, lock, cuts>>
      BY <1>4 DEF End, Begin
    <2>2. \A d \in Calls : d # c => call'[d] = call[d]
      BY <1>0, <1>4 DEF End, Begin
    <2> QED BY <2>1, <2>2 DEF SetupInv
  <1>5. ASSUME NEW remote \in Remotes, NEW ref \in Refs, NEW commit \in Commits \cup {NoCommit},
               Push(remote, ref, commit) PROVE Goal
    BY <1>5 DEF Push, SetupInv
  <1>6. ASSUME NEW c \in Calls, Cut(c) PROVE FALSE
    BY <1>0, <1>6 DEF Cut
  <1>7. CASE Crash
    BY <1>0, <1>7 DEF Crash
  <1>8. CASE UNCHANGED vars
    BY <1>8 DEF vars, SetupInv
  <1> QED BY <1>1, <1>2, <1>3, <1>4, <1>5, <1>6, <1>7, <1>8 DEF Next, Step

(* Only a killed agent leaves a staging directory, and at most one.        *)
THEOREM FailuresLeaveNoStaging == Spec => []StagingRemoved
  <1>1. Init => StagingRemoved
    BY DEF Init, StagingRemoved
  <1>2. IInv /\ StagingRemoved /\ [Next]_vars => StagingRemoved'
    <2> SUFFICES ASSUME IInv, StagingRemoved, [Next]_vars PROVE StagingRemoved'
      OBVIOUS
    <2>1. CASE Crash
      BY <2>1, OneStaging DEF Crash, StagingRemoved, IInv, TypeOK
    <2>2. CASE ~Crash
      BY <2>2 DEF Next, Step, Enter, InitCache, AddRemote, CompareRemote, Fetch, Resolve, Reuse,
                  Stage, Checkout, Publish, Refuse, Cut, Fail, End, Begin, Push, At, vars,
                  StagingRemoved
    <2> QED BY <2>1, <2>2
  <1> QED BY <1>1, <1>2, Invariant, PTL DEF Spec

(* Requests that are refused leave a cache the next one can use.           *)
THEOREM RefusalsKeepTheCache == Spec => []CacheUsable
  <1>1. Init => SetupInv
    BY DEF Init, SetupInv
  <1>2. IInv /\ SetupInv => CacheUsable
    BY NoneAssumption DEF SetupInv, CacheUsable, IInv, TypeOK, Cache
  <1> QED BY <1>1, <1>2, SetupStep, Invariant, PTL DEF Spec
===============================================================================
