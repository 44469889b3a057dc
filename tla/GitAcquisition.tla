---------------------------- MODULE GitAcquisition ----------------------------
(***************************************************************************)
(* The acquisition of one repository's snapshots                           *)
(* (repository/git_acquisition.py): acquire_repository calls of the one    *)
(* Repository Agent fetch a ref into the repository's bare Git cache,      *)
(* resolve it to a commit, check the commit out into a staging directory   *)
(* and rename that to revisions/<commit>.  Repositories share neither      *)
(* directories nor locks, so one is enough.                                *)
(* The checks of the arguments, the commit's time and the marker's other   *)
(* fields are left out.                                                    *)
(*                                                                         *)
(* A Git command is one step; Git and the remotes are external.  A command *)
(* can fail, or be killed at the timeout or with the agent, before or      *)
(* after it took effect; a killed one leaves its lock file behind.         *)
(***************************************************************************)
EXTENDS Naturals, FiniteSets

CONSTANTS
    Calls,
    Remotes,        \* the URLs of approved hosts
    Refs,
    Commits,
    Unacceptable,   \* the commits with a symbolic link or too many bytes
    NoCommit,       \* a ref the remote lacks; an empty FETCH_HEAD
    NoSnapshot,     \* no directory of that revision
    NoMarker,       \* no .repo-chat-snapshot.json
    NoRemote,
    NoRef,
    NoCall,
    InitialHeads,   \* what the remotes' refs may name at first
    MaxPushes,      \* bound on the changes of the remotes' refs in a behaviour
    MaxCuts         \* bound on the killed or failing Git commands and agents

ASSUME UnacceptableAssumption == Unacceptable \subseteq Commits
ASSUME NoneAssumption ==
    /\ NoCommit \notin Commits
    /\ NoRemote \notin Remotes
    /\ NoRef \notin Refs
    /\ NoCall \notin Calls
    /\ NoSnapshot \notin Commits \cup {NoCommit}
    /\ NoMarker \notin [remote : Remotes, ref : Refs, revision : Commits]
    /\ NoSnapshot \notin [tree : Commits \cup {NoCommit},
                          marker : [remote : Remotes, ref : Refs, revision : Commits]
                                       \cup {NoMarker}]
ASSUME HeadsAssumption ==
    InitialHeads \subseteq [Remotes -> [Refs -> Commits \cup {NoCommit}]]
ASSUME BoundAssumption == MaxPushes \in Nat /\ MaxCuts \in Nat

VARIABLES
    head,       \* remote -> ref -> the commit it names
    cache,      \* .git-cache: how far it is set up, its origin and FETCH_HEAD
    snapshot,   \* revisions/: commit -> the directory of that name
    lock,       \* the call that holds the repository's asyncio lock
    call,       \* call -> where it is and what it computed
    seen,       \* call -> the commits its ref named since it began
    leftovers,  \* the staging directories no call will remove
    crashes,    \* the agents killed so far
    cuts,       \* the Git commands and agents cut short so far
    pushes

vars == <<head, cache, snapshot, lock, call, seen, leftovers, crashes, cuts, pushes>>

Marker == [remote : Remotes, ref : Refs, revision : Commits]
Snapshot == [tree : Commits \cup {NoCommit}, marker : Marker \cup {NoMarker}]

Points == {"idle", "wait", "geturl", "init", "remote", "fetch", "resolve", "inspect",
           "checkout", "publish", "done"}
Holding == Points \ {"idle", "wait", "done"}

(* "empty": the bare directory; "bare": git init ran; "bound": origin is   *)
(* set.  locks: the commands a lock file of a killed Git command refuses.  *)
Cache == [at : {"absent", "empty", "bare", "bound"}, origin : Remotes \cup {NoRemote},
          fetched : Commits \cup {NoCommit}, locks : SUBSET {"fetch", "checkout"}]

(* staging: no directory, one without a whole tree, or a commit's tree.    *)
Call == [at : Points, remote : Remotes \cup {NoRemote}, ref : Refs \cup {NoRef},
         revision : Commits \cup {NoCommit},
         staging : Commits \cup {NoCommit, NoSnapshot}]

IdleCall == [at |-> "idle", remote |-> NoRemote, ref |-> NoRef, revision |-> NoCommit,
             staging |-> NoSnapshot]

TypeOK ==
    /\ head \in [Remotes -> [Refs -> Commits \cup {NoCommit}]]
    /\ cache \in Cache
    /\ snapshot \in [Commits -> Snapshot \cup {NoSnapshot}]
    /\ lock \in Calls \cup {NoCall}
    /\ call \in [Calls -> Call]
    /\ seen \in [Calls -> SUBSET Commits]
    /\ leftovers \in Nat
    /\ crashes \in Nat
    /\ cuts \in 0..MaxCuts
    /\ pushes \in 0..MaxPushes

Init ==
    /\ head \in InitialHeads
    /\ cache = [at |-> "absent", origin |-> NoRemote, fetched |-> NoCommit, locks |-> {}]
    /\ snapshot = [r \in Commits |-> NoSnapshot]
    /\ lock = NoCall
    /\ call = [c \in Calls |-> IdleCall]
    /\ seen = [c \in Calls |-> {}]
    /\ leftovers = 0
    /\ crashes = 0
    /\ cuts = 0
    /\ pushes = 0

-----------------------------------------------------------------------------
(* What the commands do to the cache, and what they refuse.                *)
HeadOf(c) == head[call[c].remote][call[c].ref]

Initialised == [cache EXCEPT !.at = "bare"]
Bound(c) == [cache EXCEPT !.at = "bound", !.origin = call[c].remote]
FetchedBy(c) == [cache EXCEPT !.fetched = HeadOf(c)]
FetchEmptied == [cache EXCEPT !.fetched = NoCommit]

(* The caches a command of c that is cut short may leave.                  *)
CutCaches(c) ==
    CASE call[c].at = "init" -> {cache, Initialised}
      [] call[c].at = "remote" -> {cache, Bound(c)}
      [] call[c].at = "fetch" ->
            {[k EXCEPT !.locks = @ \cup l] : k \in {cache, FetchEmptied, FetchedBy(c)},
                                             l \in SUBSET {"fetch"}}
      [] call[c].at = "checkout" ->
            {[cache EXCEPT !.locks = @ \cup l] : l \in SUBSET {"checkout"}}
      [] OTHER -> {cache}

(* _validate_snapshot: no symbolic link, and not too many bytes.           *)
Valid(revision) == revision \notin Unacceptable

(* Mutant: any remote is fetched into the cache of the repository.         *)
AcceptsAnyRemote(c) ==
    LET at == call[c].at IN
    /\ at = "geturl" => cache.at = "bound"
    /\ at = "fetch" => "fetch" \notin cache.locks /\ HeadOf(c) # NoCommit
    /\ at = "resolve" => cache.fetched # NoCommit
    /\ at = "checkout" => "checkout" \notin cache.locks
    /\ at = "publish" => /\ Valid(call[c].revision)
                         /\ snapshot[call[c].revision] = NoSnapshot

(* The next command of c succeeds unless it is cut short: origin must be   *)
(* the request's remote, the remote must have the ref, the tree must be    *)
(* valid, and os.replace replaces no directory.                            *)
Accepts(c) ==
    LET at == call[c].at IN
    /\ at = "geturl" => cache.at = "bound" /\ cache.origin = call[c].remote
    /\ at = "fetch" => "fetch" \notin cache.locks /\ HeadOf(c) # NoCommit
    /\ at = "resolve" => cache.fetched # NoCommit
    /\ at = "checkout" => "checkout" \notin cache.locks
    /\ at = "publish" => /\ Valid(call[c].revision)
                         /\ snapshot[call[c].revision] = NoSnapshot

At(c, from, to) ==
    /\ call[c].at = from
    /\ Accepts(c)
    /\ call' = [call EXCEPT ![c].at = to]

(* Mutants: the staging directory of a failed call stays; the lock is not  *)
(* released.                                                               *)
FailLeaves(c) ==
    /\ call' = [call EXCEPT ![c] = IdleCall]
    /\ leftovers' = IF call[c].staging # NoSnapshot THEN leftovers + 1 ELSE leftovers
    /\ lock' = NoCall

FailLocked(c) ==
    /\ call' = [call EXCEPT ![c] = IdleCall]
    /\ UNCHANGED <<leftovers, lock>>

(* An exception removes the staging directory and releases the lock.       *)
Fail(c) ==
    /\ call' = [call EXCEPT ![c] = IdleCall]
    /\ lock' = NoCall
    /\ UNCHANGED leftovers

-----------------------------------------------------------------------------
(* acquire and _acquire_locked.                                            *)
Begin(c, remote, ref) ==
    /\ call[c].at = "idle"
    /\ call' = [call EXCEPT ![c].at = "wait", ![c].remote = remote, ![c].ref = ref]
    /\ seen' = [seen EXCEPT ![c] = {head[remote][ref]} \ {NoCommit}]
    /\ UNCHANGED <<head, cache, snapshot, lock, leftovers, crashes, cuts, pushes>>

(* Mutant: the call does not wait for the lock.                            *)
EnterUnlocked(c) ==
    /\ lock' = c
    /\ IF cache.at = "absent"
       THEN At(c, "wait", "init") /\ cache' = [cache EXCEPT !.at = "empty"]
       ELSE At(c, "wait", "geturl") /\ UNCHANGED cache
    /\ UNCHANGED <<head, snapshot, seen, leftovers, crashes, cuts, pushes>>

Enter(c) ==
    /\ lock = NoCall
    /\ lock' = c
    /\ IF cache.at = "absent"
       THEN At(c, "wait", "init") /\ cache' = [cache EXCEPT !.at = "empty"]
       ELSE At(c, "wait", "geturl") /\ UNCHANGED cache
    /\ UNCHANGED <<head, snapshot, seen, leftovers, crashes, cuts, pushes>>

(* Mutant: the first fetch names the URL, and origin is not added.         *)
InitUnbound(c) ==
    /\ At(c, "init", "fetch")
    /\ cache' = Initialised
    /\ UNCHANGED <<head, snapshot, lock, seen, leftovers, crashes, cuts, pushes>>

InitCache(c) ==
    /\ At(c, "init", "remote")
    /\ cache' = Initialised
    /\ UNCHANGED <<head, snapshot, lock, seen, leftovers, crashes, cuts, pushes>>

AddRemote(c) ==
    /\ At(c, "remote", "fetch")
    /\ cache' = Bound(c)
    /\ UNCHANGED <<head, snapshot, lock, seen, leftovers, crashes, cuts, pushes>>

CompareRemote(c) ==
    /\ At(c, "geturl", "fetch")
    /\ UNCHANGED <<head, cache, snapshot, lock, seen, leftovers, crashes, cuts, pushes>>

Fetch(c) ==
    /\ At(c, "fetch", "resolve")
    /\ cache' = FetchedBy(c)
    /\ UNCHANGED <<head, snapshot, lock, seen, leftovers, crashes, cuts, pushes>>

(* Mutant: snapshots are named for the ref instead of the commit.          *)
ResolveToRef(c) ==
    /\ call[c].at = "resolve"
    /\ Accepts(c)
    /\ call' = [call EXCEPT ![c].at = "inspect", ![c].revision = call[c].ref]
    /\ UNCHANGED <<head, cache, snapshot, lock, seen, leftovers, crashes, cuts, pushes>>

Resolve(c) ==
    /\ call[c].at = "resolve"
    /\ Accepts(c)
    /\ call' = [call EXCEPT ![c].at = "inspect", ![c].revision = cache.fetched]
    /\ UNCHANGED <<head, cache, snapshot, lock, seen, leftovers, crashes, cuts, pushes>>

MarkerOf(c) == [remote |-> call[c].remote, ref |-> call[c].ref,
                revision |-> call[c].revision]

(* Mutant: the marker of a reused snapshot tells the new request.          *)
ReuseRemarked(c) ==
    LET revision == call[c].revision IN
    /\ At(c, "inspect", "done")
    /\ snapshot[revision] # NoSnapshot
    /\ snapshot' = [snapshot EXCEPT ![revision].marker = MarkerOf(c)]
    /\ lock' = NoCall
    /\ UNCHANGED <<head, cache, seen, leftovers, crashes, cuts, pushes>>

(* The commit's time is read, and a directory of that name is the answer.  *)
Reuse(c) ==
    /\ At(c, "inspect", "done")
    /\ snapshot[call[c].revision] # NoSnapshot
    /\ lock' = NoCall
    /\ UNCHANGED <<head, cache, snapshot, seen, leftovers, crashes, cuts, pushes>>

Stage(c) ==
    /\ call[c].at = "inspect"
    /\ snapshot[call[c].revision] = NoSnapshot
    /\ call' = [call EXCEPT ![c].at = "checkout", ![c].staging = NoCommit]
    /\ UNCHANGED <<head, cache, snapshot, lock, seen, leftovers, crashes, cuts, pushes>>

(* Mutant: the tree is checked out into the destination.                   *)
CheckoutInPlace(c) ==
    /\ call[c].at = "checkout"
    /\ Accepts(c)
    /\ call' = [call EXCEPT ![c].at = "publish", ![c].staging = call[c].revision]
    /\ snapshot' = [snapshot EXCEPT ![call[c].revision] =
                       [tree |-> call[c].revision, marker |-> NoMarker]]
    /\ UNCHANGED <<head, cache, lock, seen, leftovers, crashes, cuts, pushes>>

Checkout(c) ==
    /\ call[c].at = "checkout"
    /\ Accepts(c)
    /\ call' = [call EXCEPT ![c].at = "publish", ![c].staging = call[c].revision]
    /\ UNCHANGED <<head, cache, snapshot, lock, seen, leftovers, crashes, cuts, pushes>>

(* The tree is validated and marked, and the staging directory renamed.    *)
Publish(c) ==
    LET revision == call[c].revision IN
    /\ call[c].at = "publish"
    /\ Accepts(c)
    /\ call' = [call EXCEPT ![c].at = "done", ![c].staging = NoSnapshot]
    /\ snapshot' = [snapshot EXCEPT ![revision] =
                       [tree |-> call[c].staging, marker |-> MarkerOf(c)]]
    /\ lock' = NoCall
    /\ UNCHANGED <<head, cache, seen, leftovers, crashes, cuts, pushes>>

(* The client has its answer.                                              *)
End(c) ==
    /\ call[c].at = "done"
    /\ call' = [call EXCEPT ![c] = IdleCall]
    /\ seen' = [seen EXCEPT ![c] = {}]
    /\ UNCHANGED <<head, cache, snapshot, lock, leftovers, crashes, cuts, pushes>>

-----------------------------------------------------------------------------
(* What goes wrong.                                                        *)

(* A fetch that fails empties FETCH_HEAD unless it was refused before.     *)
Refuse(c) ==
    /\ call[c].at \in Holding
    /\ ~Accepts(c)
    /\ Fail(c)
    /\ cache' \in {cache} \cup {FetchEmptied : p \in {call[c].at} \cap {"fetch"}}
    /\ seen' = [seen EXCEPT ![c] = {}]
    /\ UNCHANGED <<head, snapshot, crashes, cuts, pushes>>

(* A command fails for another reason, or is killed at the timeout.        *)
Cut(c) ==
    /\ cuts < MaxCuts
    /\ call[c].at \in Holding
    /\ Fail(c)
    /\ cache' \in CutCaches(c)
    /\ cuts' = cuts + 1
    /\ seen' = [seen EXCEPT ![c] = {}]
    /\ UNCHANGED <<head, snapshot, crashes, pushes>>

(* The agent is killed with the command it runs, and started again.        *)
Crash ==
    /\ cuts < MaxCuts
    /\ cuts' = cuts + 1
    /\ crashes' = crashes + 1
    /\ cache' \in IF lock = NoCall THEN {cache} ELSE CutCaches(lock)
    /\ leftovers' = leftovers + Cardinality({c \in Calls : call[c].staging # NoSnapshot})
    /\ lock' = NoCall
    /\ call' = [c \in Calls |-> IdleCall]
    /\ seen' = [c \in Calls |-> {}]
    /\ UNCHANGED <<head, snapshot, pushes>>

(* A remote's ref is pushed to, or deleted.                                *)
Push(remote, ref, commit) ==
    /\ pushes < MaxPushes
    /\ pushes' = pushes + 1
    /\ head' = [head EXCEPT ![remote][ref] = commit]
    /\ seen' = [c \in Calls |->
                   IF call[c].remote = remote /\ call[c].ref = ref
                   THEN seen[c] \cup ({commit} \ {NoCommit}) ELSE seen[c]]
    /\ UNCHANGED <<cache, snapshot, lock, call, leftovers, crashes, cuts>>

Step(c) ==
    \/ InitCache(c) \/ AddRemote(c) \/ CompareRemote(c) \/ Fetch(c) \/ Resolve(c)
    \/ Reuse(c) \/ Stage(c) \/ Checkout(c) \/ Publish(c) \/ Refuse(c)

Next ==
    \/ \E c \in Calls : Enter(c) \/ Step(c) \/ End(c) \/ Cut(c)
    \/ \E c \in Calls, remote \in Remotes, ref \in Refs : Begin(c, remote, ref)
    \/ \E remote \in Remotes, ref \in Refs, commit \in Commits \cup {NoCommit} :
          Push(remote, ref, commit)
    \/ Crash

(* An asyncio lock wakes its waiters in order, and every Git command ends  *)
(* at its timeout at the latest.                                           *)
Spec == Init /\ [][Next]_vars
FairSpec == Spec /\ \A c \in Calls : SF_vars(Enter(c)) /\ WF_vars(Step(c))

-----------------------------------------------------------------------------
(* Properties.                                                             *)

(* A directory under revisions/ holds the whole tree of the commit it is   *)
(* named for, and its marker, at whatever point a call fails or the agent  *)
(* is killed: its name is all that a later call checks before it answers   *)
(* with it.                                                                *)
SnapshotComplete ==
    \A r \in Commits : snapshot[r] # NoSnapshot =>
        /\ snapshot[r].tree = r
        /\ snapshot[r].marker # NoMarker
        /\ snapshot[r].marker.revision = r

(* Once published, a snapshot never changes, its marker included: not when *)
(* other refs that name its commit are acquired, nor when calls fail.      *)
SnapshotImmutable ==
    [][\A r \in Commits : snapshot[r] # NoSnapshot => snapshot'[r] = snapshot[r]]_vars

(* A call that answers with a commit answers with one its own ref named at *)
(* its own remote since it began, although FETCH_HEAD, which it reads in a *)
(* second command, is shared by the calls; and the snapshot is there.      *)
AnswerIsRefCommit ==
    \A c \in Calls : call[c].at = "done" =>
        /\ call[c].revision \in seen[c]
        /\ snapshot[call[c].revision] # NoSnapshot

(* All the snapshots of a repository ID came from one remote, the cache's  *)
(* origin, whichever remotes were requested and wherever calls were cut.   *)
OneRemote ==
    \A r \in Commits : snapshot[r] # NoSnapshot =>
        cache.at = "bound" /\ snapshot[r].marker.remote = cache.origin

(* Only a killed agent leaves a staging directory, and at most one.        *)
StagingRemoved == leftovers <= crashes

(* Refused requests (another remote, a missing ref, an unacceptable tree)  *)
(* leave a cache that the next request can use; only a command cut short   *)
(* leaves one half set up or locked.                                       *)
CacheUsable ==
    lock = NoCall /\ cuts = 0 => cache.at \in {"absent", "bound"} /\ cache.locks = {}

(* Every call ends, answered or failed, however the ones before it ended.  *)
AcquisitionEnds == \A c \in Calls : call[c].at = "wait" ~> call[c].at \in {"idle", "done"}
===============================================================================
