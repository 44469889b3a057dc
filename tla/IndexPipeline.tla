----------------------------- MODULE IndexPipeline -----------------------------
(***************************************************************************)
(* What the indexing jobs of one repository do to its indexes              *)
(* (indexing/service.py, _run_repository_job and index_file): Neo4j keeps  *)
(* one node per symbol, shared by the revisions it belongs to              *)
(* (graph/repository.py); Qdrant keeps one vector per revision and symbol  *)
(* (semantic/store.py); a Redis hash keeps per file what was indexed last  *)
(* (indexing/manifest.py).  The three are written one call after another,  *)
(* without a common transaction, and any call may raise.                   *)
(*                                                                         *)
(* The repository's lock serialises the jobs (IndexerJobs); index_file     *)
(* takes no lock.  Relationships, counts and snapshot provenance are left  *)
(* out.                                                                    *)
(***************************************************************************)
EXTENDS Naturals, FiniteSets

CONSTANTS
    Revisions,
    Files,          \* numbers, in the order of the sorted paths
    Contents,       \* what a file may contain; stands for its sha256 too
    Broken,         \* the contents that do not parse
    Symbols,
    SymbolsOf,      \* the symbols the parser finds in a content that parses
    InitialTrees,   \* the source trees the revisions may have
    NoContent,      \* no such file, no such node, no such vector
    NoManifest,
    ScrollLimit,    \* the points one scroll of Qdrant returns at most
    MaxFailures,    \* bound on the failed jobs and tool calls of a behaviour
    MaxToolCalls,   \* bound on its calls of index_file
    MaxEdits        \* bound on its edits of a mounted checkout

ASSUME RepositoryAssumption == Revisions # {} /\ Files # {}
ASSUME FilesAssumption == Files \subseteq Nat
ASSUME BrokenAssumption == Broken \subseteq Contents
ASSUME SymbolsOfAssumption ==
    SymbolsOf \in [Contents -> SUBSET Symbols] /\ \A c \in Contents : IsFiniteSet(SymbolsOf[c])
ASSUME ScrollAssumption == ScrollLimit \in Nat \ {0}
ASSUME TreesAssumption ==
    InitialTrees \subseteq [Revisions -> [Files -> Contents \cup {NoContent}]]

(* What is on record for a file: only a content that parses gets there.    *)
Manifest == [hash : Contents \ Broken, revision : Revisions, version : 1..2]

ASSUME AbsentAssumption ==
    /\ NoContent \notin Contents
    /\ NoContent \notin [hash : Contents, version : Nat]
    /\ NoManifest \notin Manifest
ASSUME BoundAssumption ==
    MaxFailures \in Nat /\ MaxToolCalls \in Nat /\ MaxEdits \in Nat

VARIABLES
    tree,       \* revision -> file -> content: the checkout indexed under that revision
    members,    \* the AT_REVISION links: triples of revision, file and symbol
    node,       \* file -> symbol -> content and analysis version last written
    vectors,    \* revision -> file -> symbol -> content embedded
    manifest,   \* file -> hash, revision and analysis version last indexed
    job,        \* the job that holds the repository's lock
    tool,       \* an index_file call
    version,    \* ANALYSIS_VERSION of the running code
    settled,    \* revision -> mode of its last job if that one COMPLETED, else "none"
    failures, toolCalls, edits

indexes == <<members, node, vectors, manifest>>
history == <<failures, toolCalls, edits>>
vars == <<tree, members, node, vectors, manifest, job, tool, version, settled,
          failures, toolCalls, edits>>

JobPoints == {"idle", "file", "carry", "write", "copy", "embed", "upsert", "put",
              "remove", "removeVectors", "removeManifest"}

Job == [at : JobPoints, revision : Revisions, mode : {"FULL", "INCREMENTAL"},
        parsed : [Files -> Contents \cup {NoContent}], left : SUBSET Files,
        previous : Manifest \cup {NoManifest}, removed : SUBSET Files, failed : BOOLEAN]

Tool == [at : {"idle", "write", "embed", "upsert", "put"}, revision : Revisions,
         file : Files, hash : (Contents \ Broken) \cup {NoContent}]

TypeOK ==
    /\ tree \in [Revisions -> [Files -> Contents \cup {NoContent}]]
    /\ members \subseteq Revisions \X Files \X Symbols
    /\ node \in [Files -> [Symbols -> [hash : Contents, version : 1..2] \cup {NoContent}]]
    /\ vectors \in [Revisions -> [Files -> [Symbols -> Contents \cup {NoContent}]]]
    /\ manifest \in [Files -> Manifest \cup {NoManifest}]
    /\ job \in Job
    /\ tool \in Tool
    /\ version \in 1..2
    /\ settled \in [Revisions -> {"none", "FULL", "INCREMENTAL"}]
    /\ failures \in 0..MaxFailures
    /\ toolCalls \in 0..MaxToolCalls
    /\ edits \in 0..MaxEdits

NoVectors == [s \in Symbols |-> NoContent]

(* What a job or a call that ended leaves behind is forgotten.             *)
IdleJobs == {[at |-> "idle", revision |-> r, mode |-> "FULL",
              parsed |-> [f \in Files |-> NoContent], left |-> {},
              previous |-> NoManifest, removed |-> {}, failed |-> FALSE] : r \in Revisions}
IdleTools == {[at |-> "idle", revision |-> r, file |-> f, hash |-> NoContent] :
                 r \in Revisions, f \in Files}
IdleJob == CHOOSE j \in IdleJobs : TRUE
IdleTool == CHOOSE t \in IdleTools : TRUE

Init ==
    /\ tree \in InitialTrees
    /\ members = {}
    /\ node = [f \in Files |-> [s \in Symbols |-> NoContent]]
    /\ vectors = [r \in Revisions |-> [f \in Files |-> NoVectors]]
    /\ manifest = [f \in Files |-> NoManifest]
    /\ job = IdleJob
    /\ tool = IdleTool
    /\ version = 1
    /\ settled = [r \in Revisions |-> "none"]
    /\ failures = 0
    /\ toolCalls = 0
    /\ edits = 0

-----------------------------------------------------------------------------
(* The calls on the stores.                                                *)

(* Mutant: only nodes whose content changed are written and linked.        *)
WriteChangedOnly(r, f, h) ==
    LET changed == {s \in SymbolsOf[h] : node[f][s] # [hash |-> h, version |-> version]} IN
    /\ node' = [node EXCEPT ![f] = [s \in Symbols |->
                   IF s \in changed THEN [hash |-> h, version |-> version] ELSE @[s]]]
    /\ members' = members \cup {<<r, f, s>> : s \in changed}

(* write_parsed_file merges the file's nodes and their memberships; what   *)
(* the file no longer defines is left as it is.                            *)
WriteGraph(r, f, h) ==
    /\ node' = [node EXCEPT ![f] = [s \in Symbols |->
                   IF s \in SymbolsOf[h] THEN [hash |-> h, version |-> version] ELSE @[s]]]
    /\ members' = members \cup {<<r, f, s>> : s \in SymbolsOf[h]}

(* carry_forward_file links what it finds at the source revision; it does  *)
(* not tell how much that was.                                             *)
CarryGraph(source, r, f, h) ==
    members' = members \cup
        {<<r, f, s>> : s \in {t \in Symbols : <<source, f, t>> \in members /\ node[f][t].hash = h}}

(* Mutants: the nodes stay; the file leaves every revision.                *)
RemoveLinks(r, f) ==
    /\ members' = {m \in members : ~(m[1] = r /\ m[2] = f)}
    /\ UNCHANGED node

RemoveEverywhere(r, f) ==
    /\ members' = {m \in members : m[2] # f}
    /\ node' = [node EXCEPT ![f] = [s \in Symbols |-> NoContent]]

(* remove_file_from_revision deletes the nodes no revision links any more. *)
RemoveGraph(r, f) ==
    LET remaining == {m \in members : ~(m[1] = r /\ m[2] = f)}
        orphaned == {s \in Symbols : /\ <<r, f, s>> \in members
                                     /\ \A q \in Revisions : <<q, f, s>> \notin remaining}
    IN /\ members' = remaining
       /\ node' = [node EXCEPT ![f] = [s \in Symbols |->
                      IF s \in orphaned THEN NoContent ELSE @[s]]]

DeleteVectors(r, f) == vectors' = [vectors EXCEPT ![r][f] = NoVectors]

UpsertVectors(r, f, new) ==
    vectors' = [vectors EXCEPT ![r][f] = [s \in Symbols |->
                   IF new[s] # NoContent THEN new[s] ELSE @[s]]]

Embedded(h) == [s \in Symbols |-> IF s \in SymbolsOf[h] THEN h ELSE NoContent]

(* A scroll without a cursor returns the first ScrollLimit points in the   *)
(* order of their ids, which are digests: any that many of them.           *)
Points(v) == {s \in Symbols : v[s] # NoContent}

Scrolled(v) ==
    IF Cardinality(Points(v)) <= ScrollLimit THEN {v}
    ELSE {[s \in Symbols |-> IF s \in part THEN v[s] ELSE NoContent] :
             part \in {p \in SUBSET Points(v) : Cardinality(p) = ScrollLimit}}

PutManifest(r, f, h) ==
    manifest' = [manifest EXCEPT ![f] = [hash |-> h, revision |-> r, version |-> version]]

-----------------------------------------------------------------------------
(* The job.                                                                *)
First(fs) == CHOOSE f \in fs : \A g \in fs : f <= g

JobAt(from, to) == job.at = from /\ job' = [job EXCEPT !.at = to]

(* The tree is discovered and parsed, and the manifests are listed, before *)
(* the first write; files on record that the tree lacks are to be removed. *)
StartJob(r, mode) ==
    /\ job.at = "idle"
    /\ job' = [at |-> "file", revision |-> r, mode |-> mode, parsed |-> tree[r],
               left |-> {f \in Files : tree[r][f] # NoContent},
               previous |-> NoManifest,
               removed |-> {f \in Files : manifest[f] # NoManifest /\ tree[r][f] = NoContent},
               failed |-> FALSE]
    /\ settled' = [settled EXCEPT ![r] = "none"]
    /\ UNCHANGED <<tree, indexes, tool, version, history>>

(* Mutants: the hash, or the analysis version, is not compared.            *)
UnchangedAnyHash(f) ==
    /\ job.mode = "INCREMENTAL"
    /\ manifest[f] # NoManifest
    /\ manifest[f].version = version

UnchangedAnyVersion(f) ==
    /\ job.mode = "INCREMENTAL"
    /\ manifest[f] # NoManifest
    /\ manifest[f].hash = job.parsed[f]

(* An INCREMENTAL job carries a file forward that is on record with its    *)
(* content and the current analysis version.                               *)
Unchanged(f) ==
    /\ job.mode = "INCREMENTAL"
    /\ manifest[f] # NoManifest
    /\ manifest[f].hash = job.parsed[f]
    /\ manifest[f].version = version

(* Mutant: a file that did not parse is written like any other.            *)
NextFileUnparsed ==
    /\ job.at = "file"
    /\ job.left # {}
    /\ LET f == First(job.left) IN
       job' = [job EXCEPT !.at = IF Unchanged(f) THEN "carry" ELSE "write",
                          !.previous = manifest[f]]
    /\ UNCHANGED <<tree, indexes, tool, version, settled, history>>

(* A round of the loop over the files begins with the file's manifest; a   *)
(* file that did not parse is passed over.                                 *)
NextFile ==
    /\ job.at = "file"
    /\ job.left # {}
    /\ LET f == First(job.left) IN
       job' = IF Unchanged(f) THEN [job EXCEPT !.at = "carry", !.previous = manifest[f]]
              ELSE IF job.parsed[f] \in Broken THEN [job EXCEPT !.left = @ \ {f}, !.failed = TRUE]
              ELSE [job EXCEPT !.at = "write", !.previous = manifest[f]]
    /\ UNCHANGED <<tree, indexes, tool, version, settled, history>>

(* The file, content and previous manifest of the round.                   *)
file == First(job.left)
content == job.parsed[file]

CarryFile ==
    /\ JobAt("carry", "copy")
    /\ CarryGraph(job.previous.revision, job.revision, file, content)
    /\ UNCHANGED <<tree, node, vectors, manifest, tool, version, settled, history>>

(* Mutant: old vectors are copied without comparing the hash.              *)
WriteFileOldVectors ==
    /\ JobAt("write", IF job.previous # NoManifest THEN "copy" ELSE "embed")
    /\ WriteGraph(job.revision, file, content)
    /\ UNCHANGED <<tree, vectors, manifest, tool, version, settled, history>>

WriteFile ==
    /\ JobAt("write", IF job.previous # NoManifest /\ job.previous.hash = content
                      THEN "copy" ELSE "embed")
    /\ WriteGraph(job.revision, file, content)
    /\ UNCHANGED <<tree, vectors, manifest, tool, version, settled, history>>

(* The semantic store's carry_forward_file copies what one scroll returns; *)
(* the file is embedded only if that is nothing, so that a copy which the  *)
(* scroll cut stays cut.                                                   *)
CopyVectors ==
    /\ job.at = "copy"
    /\ \E copied \in Scrolled(vectors[job.previous.revision][file]) :
          /\ JobAt("copy", IF copied = NoVectors THEN "embed" ELSE "put")
          /\ UpsertVectors(job.revision, file, copied)
    /\ UNCHANGED <<tree, members, node, manifest, tool, version, settled, history>>

(* The semantic store's index_file deletes, embeds and upserts.            *)
DropOldVectors ==
    /\ JobAt("embed", "upsert")
    /\ DeleteVectors(job.revision, file)
    /\ UNCHANGED <<tree, members, node, manifest, tool, version, settled, history>>

StoreVectors ==
    /\ JobAt("upsert", "put")
    /\ UpsertVectors(job.revision, file, Embedded(content))
    /\ UNCHANGED <<tree, members, node, manifest, tool, version, settled, history>>

RecordFile ==
    /\ job.at = "put"
    /\ job' = [job EXCEPT !.at = "file", !.left = @ \ {file}, !.previous = NoManifest]
    /\ PutManifest(job.revision, file, content)
    /\ UNCHANGED <<tree, members, node, vectors, tool, version, settled, history>>

(* A file that did not parse fails the job, and nothing is removed.        *)
EndFailed ==
    /\ job.at = "file" /\ job.left = {} /\ job.failed
    /\ job' = IdleJob
    /\ UNCHANGED <<tree, indexes, tool, version, settled, history>>

StartRemoving ==
    /\ JobAt("file", "remove")
    /\ job.left = {} /\ ~job.failed
    /\ UNCHANGED <<tree, indexes, tool, version, settled, history>>

RemoveFile ==
    /\ JobAt("remove", "removeVectors")
    /\ job.removed # {}
    /\ RemoveGraph(job.revision, First(job.removed))
    /\ UNCHANGED <<tree, vectors, manifest, tool, version, settled, history>>

RemoveFileVectors ==
    /\ JobAt("removeVectors", "removeManifest")
    /\ DeleteVectors(job.revision, First(job.removed))
    /\ UNCHANGED <<tree, members, node, manifest, tool, version, settled, history>>

ForgetFile ==
    /\ job.at = "removeManifest"
    /\ job' = [job EXCEPT !.at = "remove", !.removed = @ \ {First(job.removed)}]
    /\ manifest' = [manifest EXCEPT ![First(job.removed)] = NoManifest]
    /\ UNCHANGED <<tree, members, node, vectors, tool, version, settled, history>>

Complete ==
    /\ job.at = "remove"
    /\ job.removed = {}
    /\ job' = IdleJob
    /\ settled' = [settled EXCEPT ![job.revision] = job.mode]
    /\ UNCHANGED <<tree, indexes, tool, version, history>>

(* A call on a store raises, or the process dies: the job ends FAILED      *)
(* (IndexerJobs) and what it wrote stays.                                  *)
JobRaises ==
    /\ failures < MaxFailures
    /\ job.at # "idle"
    /\ job' = IdleJob
    /\ failures' = failures + 1
    /\ UNCHANGED <<tree, indexes, tool, version, settled, toolCalls, edits>>

JobStep ==
    \/ NextFile \/ CarryFile \/ WriteFile \/ CopyVectors \/ DropOldVectors \/ StoreVectors
    \/ RecordFile \/ EndFailed \/ StartRemoving \/ RemoveFile \/ RemoveFileVectors
    \/ ForgetFile \/ Complete

-----------------------------------------------------------------------------
(* index_file, beside the job.  It never looks at the manifest.            *)
ToolAt(from, to) == tool.at = from /\ tool' = [tool EXCEPT !.at = to]

StartTool(r, f) ==
    /\ toolCalls < MaxToolCalls
    /\ tool.at = "idle"
    /\ tree[r][f] \in Contents \ Broken
    /\ tool' = [at |-> "write", revision |-> r, file |-> f, hash |-> tree[r][f]]
    /\ toolCalls' = toolCalls + 1
    /\ UNCHANGED <<tree, indexes, job, version, settled, failures, edits>>

ToolWrite ==
    /\ ToolAt("write", "embed")
    /\ WriteGraph(tool.revision, tool.file, tool.hash)
    /\ UNCHANGED <<tree, vectors, manifest, job, version, settled, history>>

ToolDropOldVectors ==
    /\ ToolAt("embed", "upsert")
    /\ DeleteVectors(tool.revision, tool.file)
    /\ UNCHANGED <<tree, members, node, manifest, job, version, settled, history>>

ToolStoreVectors ==
    /\ ToolAt("upsert", "put")
    /\ UpsertVectors(tool.revision, tool.file, Embedded(tool.hash))
    /\ UNCHANGED <<tree, members, node, manifest, job, version, settled, history>>

ToolRecord ==
    /\ tool.at = "put"
    /\ tool' = IdleTool
    /\ PutManifest(tool.revision, tool.file, tool.hash)
    /\ UNCHANGED <<tree, members, node, vectors, job, version, settled, history>>

ToolRaises ==
    /\ failures < MaxFailures
    /\ tool.at # "idle"
    /\ tool' = IdleTool
    /\ failures' = failures + 1
    /\ UNCHANGED <<tree, indexes, job, version, settled, toolCalls, edits>>

ToolStep ==
    \/ \E r \in Revisions, f \in Files : StartTool(r, f)
    \/ ToolWrite \/ ToolDropOldVectors \/ ToolStoreVectors \/ ToolRecord \/ ToolRaises

-----------------------------------------------------------------------------
(* A release that bumps ANALYSIS_VERSION restarts the process.             *)
Upgrade ==
    /\ version = 1
    /\ job.at = "idle" /\ tool.at = "idle"
    /\ version' = 2
    /\ UNCHANGED <<tree, indexes, job, tool, settled, history>>

(* A mounted checkout, indexed under one revision name, is edited between  *)
(* two jobs.  Acquired snapshots are never edited.                         *)
Edit(r, f, c) ==
    /\ edits < MaxEdits
    /\ job.at = "idle" /\ tool.at = "idle"
    /\ tree[r][f] # c
    /\ tree' = [tree EXCEPT ![r][f] = c]
    /\ settled' = [settled EXCEPT ![r] = "none"]
    /\ edits' = edits + 1
    /\ UNCHANGED <<indexes, job, tool, version, failures, toolCalls>>

Next ==
    \/ \E r \in Revisions, mode \in {"FULL", "INCREMENTAL"} : StartJob(r, mode)
    \/ JobStep
    \/ JobRaises
    \/ ToolStep
    \/ Upgrade
    \/ \E r \in Revisions, f \in Files, c \in Contents \cup {NoContent} : Edit(r, f, c)

Spec == Init /\ [][Next]_vars

-----------------------------------------------------------------------------
(* What a revision's indexes hold, and what its tree calls for.            *)
Linked(r) == {m \in Files \X Symbols : <<r, m[1], m[2]>> \in members}

Defined(r) ==
    {m \in Files \X Symbols : tree[r][m[1]] # NoContent /\ m[2] \in SymbolsOf[tree[r][m[1]]]}

(* A job that COMPLETED leaves its revision linked to exactly the symbols  *)
(* of its tree, whatever its mode and whatever other revisions' jobs do to *)
(* the shared nodes.  Needs jobs that never failed half-way, no index_file *)
(* beside them and trees that are not edited under one revision's name.    *)
CompletedGraphMatches ==
    failures = 0 /\ toolCalls = 0 /\ edits = 0 =>
        \A r \in Revisions : settled[r] # "none" => Linked(r) = Defined(r)

(* A FULL job repairs what failed jobs left behind: it does not depend on  *)
(* the manifest.                                                           *)
FullJobRepairs ==
    edits = 0 => \A r \in Revisions : settled[r] = "FULL" => Linked(r) = Defined(r)

(* Vectors v serve a file that calls for the vectors w: none is of another *)
(* content, and they are all of them or, after copies that a scroll cut,   *)
(* at least as many as one scroll returns.                                 *)
Serve(v, w) ==
    /\ \A s \in Symbols : v[s] \in {NoContent, w[s]}
    /\ v = w \/ Cardinality(Points(v)) >= ScrollLimit

Wanted(r, f) == IF tree[r][f] = NoContent THEN NoVectors ELSE Embedded(tree[r][f])

(* The vectors of a revision whose last job COMPLETED are those of its     *)
(* tree, also after jobs that failed between deleting a file's vectors and *)
(* storing the new ones: of a file with at most ScrollLimit symbols all of *)
(* them, of a larger one, which a copy may have cut, no fewer than         *)
(* ScrollLimit.                                                            *)
CompletedVectorsMatch ==
    edits = 0 /\ (failures = 0 \/ toolCalls = 0) /\ tool.at = "idle" =>
        \A r \in Revisions : settled[r] # "none" =>
            \A f \in Files : Serve(vectors[r][f], Wanted(r, f))

(* What the manifest says of a file is in the graph, so that an            *)
(* INCREMENTAL job may carry it forward: every symbol of the recorded      *)
(* content, at the recorded revision, as the recorded analysis version     *)
(* wrote it.  A file the job is busy with is not yet on record.            *)
Busy(f) == \/ job.at \in {"copy", "embed", "upsert", "put"} /\ f = file
           \/ job.at \in {"removeVectors", "removeManifest"} /\ f = First(job.removed)

ManifestBacked ==
    failures = 0 /\ toolCalls = 0 =>
        \A f \in Files : manifest[f] # NoManifest /\ ~Busy(f) =>
            \A s \in SymbolsOf[manifest[f].hash] :
                /\ <<manifest[f].revision, f, s>> \in members
                /\ node[f][s] = [hash |-> manifest[f].hash, version |-> manifest[f].version]

(* A job or an index_file call for one revision retains the membership and *)
(* the vectors of the others (DESIGN.md, Indexing).                        *)
Touched == (IF job.at = "idle" THEN {} ELSE {job.revision})
           \cup (IF tool.at = "idle" THEN {} ELSE {tool.revision})

HistoryRetained ==
    [][\A r \in Revisions \ Touched :
         Linked(r)' = Linked(r) /\ vectors'[r] = vectors[r]]_vars

(* A symbol has a node exactly as long as a revision links it: removals    *)
(* leave no node behind that find_entity, which filters by name only,      *)
(* would still answer with, and delete none that is in use.                *)
NodesAreLinked ==
    \A f \in Files, s \in Symbols :
        node[f][s] # NoContent <=> \E r \in Revisions : <<r, f, s>> \in members

(* "Reconcile" (DESIGN.md, Indexing): after a COMPLETED job the paths its  *)
(* revision links are the discovered ones.                                 *)
DiscoveredPaths(r) == {f \in Files : tree[r][f] # NoContent}

PathsReconciled ==
    \A r \in Revisions : settled[r] # "none" =>
        {m[1] : m \in Linked(r)} \subseteq DiscoveredPaths(r)

(* ... and every discovered path that defines a symbol is linked.          *)
NoPathLost ==
    \A r \in Revisions : settled[r] # "none" =>
        {m[1] : m \in Defined(r)} \subseteq {m[1] : m \in Linked(r)}
=============================================================================
