-------------------------- MODULE IndexPipeline_proofs --------------------------
(***************************************************************************)
(* Proofs about IndexPipeline for any revisions, files, contents and       *)
(* symbols, any trees, and any number of failures, index_file calls,       *)
(* edits and jobs: types, the separation of revisions, and what the        *)
(* manifest promises of the graph.                                         *)
(***************************************************************************)
EXTENDS IndexPipeline, WellFoundedInduction, FiniteSetTheorems, TLAPS

(* Files are numbers, so a set of files that is not empty has a first one. *)
LEMMA FirstIsIn ==
    ASSUME NEW fs \in SUBSET Files, fs # {}
    PROVE  First(fs) \in fs
  <1> DEFINE less == OpToRel(<, Nat)
  <1>1. \A x, y \in Nat : x < y => <<x, y>> \in less
    BY DEF OpToRel
  <1>2. IsWellFoundedOn(less, Nat)
    BY NatLessThanWellFounded
  <1>3. fs \subseteq Nat
    BY FilesAssumption
  <1> HIDE DEF less
  <1>4. PICK f \in fs : \A g \in fs : <<g, f>> \notin less
    BY <1>2, <1>3, WFMin, Zenon
  <1>5. \A g \in fs : f <= g
    <2> TAKE g \in fs
    <2>1. f \in Nat /\ g \in Nat
      BY <1>3, <1>4
    <2>2. ~(g < f)
      BY <1>1, <1>4, <2>1
    <2> QED BY <2>1, <2>2
  <1> QED BY <1>4, <1>5 DEF First

LEMMA IdleJobIsIdle ==
    /\ IdleJob \in Job
    /\ IdleJob.at = "idle"
    /\ IdleJob.left = {} /\ IdleJob.removed = {} /\ ~IdleJob.failed
  <1>1. IdleJob \in IdleJobs
    BY RepositoryAssumption DEF IdleJob, IdleJobs
  <1>2. PICK r \in Revisions :
            IdleJob = [at |-> "idle", revision |-> r, mode |-> "FULL",
                       parsed |-> [f \in Files |-> NoContent], left |-> {},
                       previous |-> NoManifest, removed |-> {}, failed |-> FALSE]
    BY <1>1 DEF IdleJobs
  <1>3. [f \in Files |-> NoContent] \in [Files -> Contents \cup {NoContent}]
    OBVIOUS
  <1> QED BY <1>2, <1>3 DEF Job, JobPoints

LEMMA IdleToolIsIdle == IdleTool \in Tool /\ IdleTool.at = "idle"
  <1>1. IdleTool \in IdleTools
    BY RepositoryAssumption DEF IdleTool, IdleTools
  <1> QED BY <1>1 DEF IdleTools, Tool

-----------------------------------------------------------------------------
(* What the calls on the stores do, symbol by symbol.                      *)
Wrote(r, f, h) ==
    /\ \A q \in Revisions, g \in Files, s \in Symbols :
          <<q, g, s>> \in members' <=>
              <<q, g, s>> \in members \/ (q = r /\ g = f /\ s \in SymbolsOf[h])
    /\ \A g \in Files, s \in Symbols :
          node'[g][s] = IF g = f /\ s \in SymbolsOf[h]
                        THEN [hash |-> h, version |-> version] ELSE node[g][s]

Carried(source, r, f, h) ==
    \A q \in Revisions, g \in Files, s \in Symbols :
        <<q, g, s>> \in members' <=>
            \/ <<q, g, s>> \in members
            \/ q = r /\ g = f /\ <<source, f, s>> \in members /\ node[f][s].hash = h

Removed(r, f) ==
    /\ \A q \in Revisions, g \in Files, s \in Symbols :
          <<q, g, s>> \in members' <=> <<q, g, s>> \in members /\ ~(q = r /\ g = f)
    /\ \A g \in Files, s \in Symbols :
          node'[g][s] = IF /\ g = f /\ <<r, f, s>> \in members
                           /\ \A q \in Revisions : <<q, f, s>> \notin members'
                        THEN NoContent ELSE node[g][s]

Dropped(r, f) ==
    \A q \in Revisions, g \in Files :
        vectors'[q][g] = IF q = r /\ g = f THEN NoVectors ELSE vectors[q][g]

Upserted(r, f, new) ==
    /\ \A q \in Revisions, g \in Files : ~(q = r /\ g = f) => vectors'[q][g] = vectors[q][g]
    /\ \A s \in Symbols :
          vectors'[r][f][s] = IF new[s] # NoContent THEN new[s] ELSE vectors[r][f][s]

LEMMA WriteGraphFacts ==
    ASSUME TypeOK, NEW r \in Revisions, NEW f \in Files, NEW h \in Contents, WriteGraph(r, f, h)
    PROVE  /\ members' \subseteq Revisions \X Files \X Symbols
           /\ node' \in [Files -> [Symbols -> [hash : Contents, version : 1..2] \cup {NoContent}]]
           /\ Wrote(r, f, h)
  <1>1. SymbolsOf[h] \subseteq Symbols
    BY SymbolsOfAssumption
  <1>2. members' = members \cup {<<r, f, s>> : s \in SymbolsOf[h]}
    BY DEF WriteGraph
  <1>3. members' \subseteq Revisions \X Files \X Symbols
    BY <1>1, <1>2 DEF TypeOK
  <1>4. [hash |-> h, version |-> version] \in [hash : Contents, version : 1..2]
    BY DEF TypeOK
  <1> DEFINE written == [hash |-> h, version |-> version]
             nodes == [Symbols -> [hash : Contents, version : 1..2] \cup {NoContent}]
             new == [s \in Symbols |-> IF s \in SymbolsOf[h] THEN written ELSE node[f][s]]
  <1>5. node \in [Files -> nodes] /\ node' = [node EXCEPT ![f] = new]
    BY DEF TypeOK, WriteGraph
  <1>6. new \in nodes
    BY <1>4, <1>5
  <1>7. node' \in [Files -> nodes]
    BY <1>5, <1>6
  <1>8. \A g \in Files, s \in Symbols :
            node'[g][s] = IF g = f /\ s \in SymbolsOf[h] THEN written ELSE node[g][s]
    BY <1>5
  <1> QED BY <1>1, <1>2, <1>3, <1>7, <1>8 DEF Wrote

LEMMA CarryGraphFacts ==
    ASSUME TypeOK, NEW source, NEW r \in Revisions, NEW f \in Files, NEW h,
           CarryGraph(source, r, f, h)
    PROVE  /\ members' \subseteq Revisions \X Files \X Symbols
           /\ Carried(source, r, f, h)
  <1> DEFINE carried == {t \in Symbols : <<source, f, t>> \in members /\ node[f][t].hash = h}
  <1>1. members' = members \cup {<<r, f, s>> : s \in carried}
    BY DEF CarryGraph
  <1>2. \A s \in Symbols : s \in carried <=> <<source, f, s>> \in members /\ node[f][s].hash = h
    OBVIOUS
  <1>3. carried \subseteq Symbols /\ members \subseteq Revisions \X Files \X Symbols
    BY DEF TypeOK
  <1> HIDE DEF carried
  <1>4. members' \subseteq Revisions \X Files \X Symbols
    BY <1>1, <1>3
  <1> QED BY <1>1, <1>2, <1>4 DEF Carried

LEMMA RemoveGraphFacts ==
    ASSUME TypeOK, NEW r \in Revisions, NEW f \in Files, RemoveGraph(r, f)
    PROVE  /\ members' \subseteq Revisions \X Files \X Symbols
           /\ node' \in [Files -> [Symbols -> [hash : Contents, version : 1..2] \cup {NoContent}]]
           /\ Removed(r, f)
  <1> DEFINE nodes == [Symbols -> [hash : Contents, version : 1..2] \cup {NoContent}]
             orphaned == {s \in Symbols : /\ <<r, f, s>> \in members
                                          /\ \A q \in Revisions : <<q, f, s>> \notin members'}
             new == [s \in Symbols |-> IF s \in orphaned THEN NoContent ELSE node[f][s]]
  <1>1. members' = {m \in members : ~(m[1] = r /\ m[2] = f)}
    BY DEF RemoveGraph
  <1>2. members' \subseteq Revisions \X Files \X Symbols
    BY <1>1 DEF TypeOK
  <1>3. node \in [Files -> nodes] /\ node' = [node EXCEPT ![f] = new]
    BY <1>1 DEF TypeOK, RemoveGraph
  <1>4. new \in nodes
    BY <1>3
  <1>5. node' \in [Files -> nodes]
    BY <1>3, <1>4
  <1>6. \A g \in Files, s \in Symbols :
            node'[g][s] = IF g = f /\ s \in orphaned THEN NoContent ELSE node[g][s]
    BY <1>3
  <1> QED BY <1>1, <1>2, <1>5, <1>6 DEF Removed

LEMMA NoVectorsType == NoVectors \in [Symbols -> Contents \cup {NoContent}]
  BY DEF NoVectors

LEMMA EmbeddedType ==
    ASSUME NEW h \in Contents
    PROVE  Embedded(h) \in [Symbols -> Contents \cup {NoContent}]
  BY DEF Embedded

LEMMA DeleteVectorsFacts ==
    ASSUME TypeOK, NEW r \in Revisions, NEW f \in Files, DeleteVectors(r, f)
    PROVE  /\ vectors' \in [Revisions -> [Files -> [Symbols -> Contents \cup {NoContent}]]]
           /\ Dropped(r, f)
           /\ \A q \in Revisions : q # r => vectors'[q] = vectors[q]
  <1> DEFINE ofFile == [Symbols -> Contents \cup {NoContent}]
             new == [vectors[r] EXCEPT ![f] = NoVectors]
  <1>1. vectors \in [Revisions -> [Files -> ofFile]] /\ vectors' = [vectors EXCEPT ![r] = new]
    BY DEF TypeOK, DeleteVectors
  <1>2. new \in [Files -> ofFile]
    BY <1>1, NoVectorsType
  <1> HIDE DEF ofFile
  <1>3. vectors' \in [Revisions -> [Files -> ofFile]]
    BY <1>1, <1>2
  <1>4. \A g \in Files : new[g] = IF g = f THEN NoVectors ELSE vectors[r][g]
    BY <1>1
  <1> HIDE DEF new
  <1>5. \A q \in Revisions : vectors'[q] = IF q = r THEN new ELSE vectors[q]
    BY <1>1
  <1> QED BY <1>3, <1>4, <1>5 DEF ofFile, Dropped

LEMMA UpsertVectorsFacts ==
    ASSUME TypeOK, NEW r \in Revisions, NEW f \in Files,
           NEW new \in [Symbols -> Contents \cup {NoContent}], UpsertVectors(r, f, new)
    PROVE  /\ vectors' \in [Revisions -> [Files -> [Symbols -> Contents \cup {NoContent}]]]
           /\ Upserted(r, f, new)
           /\ \A q \in Revisions : q # r => vectors'[q] = vectors[q]
  <1> DEFINE ofFile == [Symbols -> Contents \cup {NoContent}]
             merged == [s \in Symbols |-> IF new[s] # NoContent THEN new[s] ELSE vectors[r][f][s]]
             ofRevision == [vectors[r] EXCEPT ![f] = merged]
  <1>1. vectors \in [Revisions -> [Files -> ofFile]]
    BY DEF TypeOK
  <1>2. vectors' = [vectors EXCEPT ![r] = ofRevision]
    BY DEF UpsertVectors
  <1>3. merged \in ofFile
    BY <1>1
  <1>4. \A s \in Symbols : merged[s] = IF new[s] # NoContent THEN new[s] ELSE vectors[r][f][s]
    OBVIOUS
  <1> HIDE DEF ofFile, merged
  <1>5. ofRevision \in [Files -> ofFile]
    BY <1>1, <1>3
  <1>6. \A g \in Files : ofRevision[g] = IF g = f THEN merged ELSE vectors[r][g]
    BY <1>1
  <1> HIDE DEF ofRevision
  <1>7. vectors' \in [Revisions -> [Files -> ofFile]]
    BY <1>1, <1>2, <1>5
  <1>8. \A q \in Revisions : vectors'[q] = IF q = r THEN ofRevision ELSE vectors[q]
    BY <1>1, <1>2
  <1> QED BY <1>4, <1>6, <1>7, <1>8 DEF ofFile, Upserted

(* What a scroll returns is all there is, or as many as it may return.     *)
LEMMA ScrolledFacts ==
    ASSUME NEW v \in [Symbols -> Contents \cup {NoContent}], NEW copied \in Scrolled(v)
    PROVE  /\ copied \in [Symbols -> Contents \cup {NoContent}]
           /\ \A s \in Symbols : copied[s] \in {NoContent, v[s]}
           /\ copied = v \/ Cardinality(Points(copied)) = ScrollLimit
  <1>1. CASE copied = v
    BY <1>1
  <1>2. CASE copied # v
    <2>1. PICK part \in SUBSET Points(v) :
              /\ Cardinality(part) = ScrollLimit
              /\ copied = [s \in Symbols |-> IF s \in part THEN v[s] ELSE NoContent]
      BY <1>2 DEF Scrolled
    <2>2. Points(copied) = part
      BY <2>1 DEF Points
    <2> QED BY <2>1, <2>2
  <1> QED BY <1>1, <1>2

LEMMA PutManifestFacts ==
    ASSUME TypeOK, NEW r \in Revisions, NEW f \in Files, NEW h \in Contents \ Broken,
           PutManifest(r, f, h)
    PROVE  /\ manifest' \in [Files -> Manifest \cup {NoManifest}]
           /\ \A g \in Files :
                 manifest'[g] = IF g = f THEN [hash |-> h, revision |-> r, version |-> version]
                                ELSE manifest[g]
  BY DEF PutManifest, TypeOK, Manifest

-----------------------------------------------------------------------------
(* Types.                                                                  *)

(* The points between reading a file's manifest and recording the file;    *)
(* the points of the removals.                                             *)
AtFile == job.at \in {"carry", "write", "copy", "embed", "upsert", "put"}
AtRemoval == job.at \in {"remove", "removeVectors", "removeManifest"}

(* A job works on the tree it parsed, and that is its revision's: nobody   *)
(* edits a tree while a job runs.  It is at a file that parses, and at a   *)
(* removal only when no file is left; it copies only from a manifest with  *)
(* the file's own hash.                                                    *)
JobConsistent ==
    /\ job.at # "idle" => job.parsed = tree[job.revision] /\ settled[job.revision] = "none"
    /\ \A f \in job.left : job.parsed[f] # NoContent
    /\ \A f \in job.removed : job.parsed[f] = NoContent
    /\ AtFile => job.left # {} /\ content \notin Broken
    /\ AtRemoval => job.left = {} /\ ~job.failed
    /\ job.at \in {"removeVectors", "removeManifest"} => job.removed # {}
    /\ job.at \in {"carry", "copy"} => job.previous # NoManifest /\ job.previous.hash = content
    /\ job.at = "carry" => job.mode = "INCREMENTAL" /\ job.previous.version = version

(* So is index_file's call.                                                *)
ToolConsistent ==
    tool.at # "idle" => /\ tool.hash \in Contents \ Broken
                        /\ tree[tool.revision][tool.file] = tool.hash
                        /\ toolCalls > 0

Shape == TypeOK /\ JobConsistent /\ ToolConsistent

LEMMA AtFileFacts ==
    ASSUME TypeOK, JobConsistent, AtFile
    PROVE  /\ file \in Files /\ file \in job.left
           /\ content \in Contents \ Broken
           /\ content = tree[job.revision][file]
  <1>1. job \in Job
    BY DEF TypeOK
  <1>2. file \in job.left
    BY <1>1, FirstIsIn DEF file, JobConsistent, Job
  <1>3. file \in Files /\ job.parsed[file] \in Contents \cup {NoContent}
    BY <1>1, <1>2 DEF Job
  <1>4. /\ job.parsed[file] # NoContent /\ job.parsed[file] \notin Broken
        /\ job.parsed = tree[job.revision]
    BY <1>2 DEF JobConsistent, AtFile, content
  <1> QED BY <1>2, <1>3, <1>4 DEF content

LEMMA AtRemovalFacts ==
    ASSUME TypeOK, JobConsistent, AtRemoval, job.removed # {}
    PROVE  /\ First(job.removed) \in Files /\ First(job.removed) \in job.removed
           /\ tree[job.revision][First(job.removed)] = NoContent
  <1>1. job \in Job
    BY DEF TypeOK
  <1>2. First(job.removed) \in job.removed
    BY <1>1, FirstIsIn DEF Job
  <1> QED BY <1>1, <1>2 DEF Job, JobConsistent, AtRemoval

(* Moving the job on changes nothing else about it.                        *)
LEMMA JobAtFacts ==
    ASSUME TypeOK, NEW from, NEW to \in JobPoints, JobAt(from, to)
    PROVE  /\ job' \in Job /\ job.at = from /\ job'.at = to
           /\ job'.revision = job.revision /\ job'.mode = job.mode /\ job'.parsed = job.parsed
           /\ job'.left = job.left /\ job'.previous = job.previous /\ job'.removed = job.removed
           /\ job'.failed = job.failed
           /\ file' = file /\ content' = content
  <1>1. job \in Job /\ job' = [job EXCEPT !.at = to] /\ job.at = from
    BY DEF TypeOK, JobAt
  <1>2. /\ job' \in Job /\ job'.at = to
        /\ job'.revision = job.revision /\ job'.mode = job.mode /\ job'.parsed = job.parsed
        /\ job'.left = job.left /\ job'.previous = job.previous /\ job'.removed = job.removed
        /\ job'.failed = job.failed
    BY <1>1 DEF Job
  <1> QED BY <1>1, <1>2 DEF file, content

LEMMA ShapeInit == Init => Shape
  <1> SUFFICES ASSUME Init PROVE Shape
    OBVIOUS
  <1>1. tree \in [Revisions -> [Files -> Contents \cup {NoContent}]]
    BY TreesAssumption DEF Init
  <1>2. vectors \in [Revisions -> [Files -> [Symbols -> Contents \cup {NoContent}]]]
    BY NoVectorsType DEF Init
  <1>3. failures \in 0..MaxFailures /\ toolCalls \in 0..MaxToolCalls /\ edits \in 0..MaxEdits
    BY BoundAssumption DEF Init
  <1>4. TypeOK
    BY <1>1, <1>2, <1>3, IdleJobIsIdle, IdleToolIsIdle DEF Init, TypeOK
  <1>5. JobConsistent
    BY IdleJobIsIdle DEF Init, JobConsistent, AtFile, AtRemoval
  <1>6. ToolConsistent
    BY IdleToolIsIdle DEF Init, ToolConsistent
  <1> QED BY <1>4, <1>5, <1>6 DEF Shape

(* Steps of the job that do not end it: what they leave alone, and what    *)
(* the write they make needs.                                              *)
LEMMA JobMoveShape ==
    ASSUME Shape, NEW from, NEW to \in JobPoints \ {"idle"}, JobAt(from, to), from # "idle",
           UNCHANGED <<tree, tool, version, settled, history>>,
           members' \subseteq Revisions \X Files \X Symbols,
           node' \in [Files -> [Symbols -> [hash : Contents, version : 1..2] \cup {NoContent}]],
           vectors' \in [Revisions -> [Files -> [Symbols -> Contents \cup {NoContent}]]],
           manifest' \in [Files -> Manifest \cup {NoManifest}],
           AtFile' => AtFile,
           AtRemoval' => job.left = {} /\ ~job.failed,
           to \in {"removeVectors", "removeManifest"} => job.removed # {},
           to = "copy" => job.previous # NoManifest /\ job.previous.hash = content,
           to # "carry"
    PROVE  Shape'
  <1> USE JobAtFacts DEF Shape
  <1>1. TypeOK'
    BY DEF TypeOK, history
  <1>2. JobConsistent'
    BY DEF JobConsistent, AtFile, AtRemoval
  <1>3. ToolConsistent'
    BY DEF ToolConsistent, history
  <1> QED BY <1>1, <1>2, <1>3

LEMMA JobStepShape == Shape /\ JobStep => Shape'
  <1> SUFFICES ASSUME Shape, JobStep PROVE Shape'
    OBVIOUS
  <1>a. TypeOK /\ JobConsistent /\ ToolConsistent /\ job \in Job
    BY DEF Shape, TypeOK
  <1>b. /\ members \subseteq Revisions \X Files \X Symbols
        /\ node \in [Files -> [Symbols -> [hash : Contents, version : 1..2] \cup {NoContent}]]
        /\ vectors \in [Revisions -> [Files -> [Symbols -> Contents \cup {NoContent}]]]
        /\ manifest \in [Files -> Manifest \cup {NoManifest}]
        /\ job.revision \in Revisions
    BY <1>a DEF TypeOK, Job
  <1>1. CASE NextFile
    <2>1. job.at = "file" /\ job.left # {} /\ file \in job.left /\ file \in Files
      BY <1>1, <1>a, FirstIsIn DEF NextFile, file, Job
    <2>2. manifest[file] \in Manifest \cup {NoManifest}
      BY <1>b, <2>1
    <2>3. CASE Unchanged(file)
      <3>1. job' = [job EXCEPT !.at = "carry", !.previous = manifest[file]]
        BY <1>1, <2>3 DEF NextFile, file
      <3>2. /\ job' \in Job /\ job'.at = "carry" /\ job'.previous = manifest[file]
            /\ job'.revision = job.revision /\ job'.mode = job.mode
            /\ job'.parsed = job.parsed /\ job'.left = job.left
            /\ job'.removed = job.removed /\ job'.failed = job.failed
        BY <1>a, <2>2, <3>1 DEF Job, JobPoints
      <3>3. content' = content
        BY <3>2 DEF content, file
      <3>4. /\ job.mode = "INCREMENTAL" /\ manifest[file] # NoManifest
            /\ manifest[file].hash = content /\ manifest[file].version = version
            /\ UNCHANGED <<tree, version, settled>>
        BY <1>1, <2>3 DEF NextFile, Unchanged, content
      <3>5. content \notin Broken
        BY <2>2, <3>4 DEF Manifest
      <3>6. JobConsistent'
        BY <1>a, <2>1, <3>2, <3>3, <3>4, <3>5 DEF JobConsistent, AtFile, AtRemoval
      <3> QED BY <1>1, <1>a, <3>2, <3>6
              DEF NextFile, Shape, TypeOK, ToolConsistent, indexes, history
    <2>4. CASE ~Unchanged(file) /\ job.parsed[file] \in Broken
      <3>1. job' = [job EXCEPT !.left = @ \ {file}, !.failed = TRUE]
        BY <1>1, <2>4 DEF NextFile, file
      <3>2. /\ job' \in Job /\ job'.at = "file" /\ job'.previous = job.previous
            /\ job'.revision = job.revision /\ job'.mode = job.mode
            /\ job'.parsed = job.parsed /\ job'.left = job.left \ {file}
            /\ job'.removed = job.removed
        BY <1>a, <2>1, <3>1 DEF Job
      <3>3. JobConsistent'
        BY <1>1, <1>a, <2>1, <3>2 DEF JobConsistent, NextFile, AtFile, AtRemoval
      <3> QED BY <1>1, <1>a, <3>2, <3>3
              DEF NextFile, Shape, TypeOK, ToolConsistent, indexes, history
    <2>5. CASE ~Unchanged(file) /\ job.parsed[file] \notin Broken
      <3>1. job' = [job EXCEPT !.at = "write", !.previous = manifest[file]]
        BY <1>1, <2>5 DEF NextFile, file
      <3>2. /\ job' \in Job /\ job'.at = "write"
            /\ job'.revision = job.revision /\ job'.mode = job.mode
            /\ job'.parsed = job.parsed /\ job'.left = job.left
            /\ job'.removed = job.removed /\ job'.failed = job.failed
        BY <1>a, <2>2, <3>1 DEF Job, JobPoints
      <3>3. content' = content /\ content \notin Broken
        BY <2>5, <3>2 DEF content, file
      <3>4. JobConsistent'
        BY <1>1, <1>a, <2>1, <3>2, <3>3 DEF JobConsistent, NextFile, AtFile, AtRemoval
      <3> QED BY <1>1, <1>a, <3>2, <3>4
              DEF NextFile, Shape, TypeOK, ToolConsistent, indexes, history
    <2> QED BY <2>3, <2>4, <2>5
  <1>2. CASE CarryFile
    <2>1. AtFile
      BY <1>2 DEF CarryFile, JobAt, AtFile
    <2>2. members' \subseteq Revisions \X Files \X Symbols
      BY <1>2, <1>a, <1>b, <2>1, AtFileFacts, CarryGraphFacts DEF CarryFile
    <2> QED BY <1>2, <1>a, <1>b, <2>1, <2>2, JobMoveShape, JobAtFacts
            DEF CarryFile, JobPoints, JobConsistent, JobAt, AtRemoval
  <1>3. CASE WriteFile
    <2>1. AtFile
      BY <1>3 DEF WriteFile, JobAt, AtFile
    <2>2. /\ members' \subseteq Revisions \X Files \X Symbols
          /\ node' \in [Files -> [Symbols -> [hash : Contents, version : 1..2] \cup {NoContent}]]
      BY <1>3, <1>a, <1>b, <2>1, AtFileFacts, WriteGraphFacts DEF WriteFile
    <2> DEFINE to == IF job.previous # NoManifest /\ job.previous.hash = content
                     THEN "copy" ELSE "embed"
    <2>3. JobAt("write", to) /\ to \in {"copy", "embed"}
      BY <1>3 DEF WriteFile
    <2>4. to = "copy" => job.previous # NoManifest /\ job.previous.hash = content
      OBVIOUS
    <2> HIDE DEF to
    <2> QED BY <1>3, <1>a, <1>b, <2>1, <2>2, <2>3, <2>4, JobMoveShape, JobAtFacts
            DEF WriteFile, JobPoints, AtRemoval
  <1>4. CASE CopyVectors
    <2> DEFINE found == vectors[job.previous.revision][file]
    <2>1. AtFile /\ job.at = "copy"
      BY <1>4 DEF CopyVectors, AtFile
    <2>2. job.previous \in Manifest
      BY <1>a, <2>1 DEF JobConsistent, Job
    <2>3. found \in [Symbols -> Contents \cup {NoContent}]
      BY <1>a, <1>b, <2>1, <2>2, AtFileFacts DEF Manifest
    <2>4. PICK copied \in Scrolled(found), to \in {"embed", "put"} :
              UpsertVectors(job.revision, file, copied) /\ JobAt("copy", to)
      BY <1>4 DEF CopyVectors
    <2> HIDE DEF found
    <2>5. copied \in [Symbols -> Contents \cup {NoContent}]
      BY <2>3, ScrolledFacts
    <2>6. vectors' \in [Revisions -> [Files -> [Symbols -> Contents \cup {NoContent}]]]
      BY <1>a, <1>b, <2>1, <2>4, <2>5, AtFileFacts, UpsertVectorsFacts
    <2> QED BY <1>4, <1>a, <1>b, <2>1, <2>4, <2>6, JobMoveShape, JobAtFacts
            DEF CopyVectors, JobPoints, AtRemoval
  <1>5. CASE DropOldVectors
    <2>1. AtFile
      BY <1>5 DEF DropOldVectors, JobAt, AtFile
    <2>2. vectors' \in [Revisions -> [Files -> [Symbols -> Contents \cup {NoContent}]]]
      BY <1>5, <1>a, <1>b, <2>1, AtFileFacts, DeleteVectorsFacts DEF DropOldVectors
    <2> QED BY <1>5, <1>a, <1>b, <2>1, <2>2, JobMoveShape, JobAtFacts
            DEF DropOldVectors, JobPoints, AtRemoval
  <1>6. CASE StoreVectors
    <2>1. AtFile
      BY <1>6 DEF StoreVectors, JobAt, AtFile
    <2>2. Embedded(content) \in [Symbols -> Contents \cup {NoContent}]
      BY <1>a, <2>1, AtFileFacts, EmbeddedType
    <2>3. vectors' \in [Revisions -> [Files -> [Symbols -> Contents \cup {NoContent}]]]
      BY <1>6, <1>a, <1>b, <2>1, <2>2, AtFileFacts, UpsertVectorsFacts DEF StoreVectors
    <2> QED BY <1>6, <1>a, <1>b, <2>1, <2>3, JobMoveShape, JobAtFacts
            DEF StoreVectors, JobPoints, AtRemoval
  <1>7. CASE RecordFile
    <2>1. AtFile
      BY <1>7 DEF RecordFile, AtFile
    <2>2. manifest' \in [Files -> Manifest \cup {NoManifest}]
      BY <1>7, <1>a, <1>b, <2>1, AtFileFacts, PutManifestFacts DEF RecordFile
    <2>3. job' = [job EXCEPT !.at = "file", !.left = @ \ {file}, !.previous = NoManifest]
      BY <1>7 DEF RecordFile
    <2>4. /\ job' \in Job /\ job'.at = "file" /\ job'.previous = NoManifest
          /\ job'.revision = job.revision /\ job'.mode = job.mode
          /\ job'.parsed = job.parsed /\ job'.left = job.left \ {file}
          /\ job'.removed = job.removed /\ job'.failed = job.failed
      BY <1>a, <2>3 DEF Job, JobPoints
    <2>5. JobConsistent'
      BY <1>7, <1>a, <2>4 DEF JobConsistent, RecordFile, AtFile, AtRemoval
    <2> QED BY <1>7, <1>a, <2>2, <2>4, <2>5
            DEF RecordFile, Shape, TypeOK, ToolConsistent, indexes, history
  <1>8. CASE EndFailed
    <2>1. JobConsistent'
      BY <1>8, IdleJobIsIdle DEF EndFailed, JobConsistent, AtFile, AtRemoval
    <2> QED BY <1>8, <1>a, <2>1, IdleJobIsIdle
            DEF EndFailed, Shape, TypeOK, ToolConsistent, indexes, history
  <1>9. CASE StartRemoving
    BY <1>9, <1>a, <1>b, JobMoveShape, JobAtFacts
       DEF StartRemoving, JobPoints, AtRemoval, AtFile, indexes
  <1>10. CASE RemoveFile
    <2>1. AtRemoval /\ job.removed # {}
      BY <1>10 DEF RemoveFile, JobAt, AtRemoval
    <2>2. /\ members' \subseteq Revisions \X Files \X Symbols
          /\ node' \in [Files -> [Symbols -> [hash : Contents, version : 1..2] \cup {NoContent}]]
      BY <1>10, <1>a, <1>b, <2>1, AtRemovalFacts, RemoveGraphFacts DEF RemoveFile
    <2> QED BY <1>10, <1>a, <1>b, <2>1, <2>2, JobMoveShape, JobAtFacts
            DEF RemoveFile, JobPoints, JobConsistent, AtFile
  <1>11. CASE RemoveFileVectors
    <2>1. AtRemoval /\ job.removed # {}
      BY <1>11, <1>a DEF RemoveFileVectors, JobAt, AtRemoval, JobConsistent
    <2>2. vectors' \in [Revisions -> [Files -> [Symbols -> Contents \cup {NoContent}]]]
      BY <1>11, <1>a, <1>b, <2>1, AtRemovalFacts, DeleteVectorsFacts DEF RemoveFileVectors
    <2> QED BY <1>11, <1>a, <1>b, <2>1, <2>2, JobMoveShape, JobAtFacts
            DEF RemoveFileVectors, JobPoints, JobConsistent, AtFile
  <1>12. CASE ForgetFile
    <2>1. AtRemoval
      BY <1>12 DEF ForgetFile, AtRemoval
    <2>2. manifest' \in [Files -> Manifest \cup {NoManifest}]
      BY <1>12, <1>b DEF ForgetFile
    <2>3. job' = [job EXCEPT !.at = "remove", !.removed = @ \ {First(job.removed)}]
      BY <1>12 DEF ForgetFile
    <2>4. /\ job' \in Job /\ job'.at = "remove" /\ job'.previous = job.previous
          /\ job'.revision = job.revision /\ job'.mode = job.mode
          /\ job'.parsed = job.parsed /\ job'.left = job.left
          /\ job'.removed = job.removed \ {First(job.removed)} /\ job'.failed = job.failed
      BY <1>a, <2>3 DEF Job, JobPoints
    <2>5. JobConsistent'
      BY <1>12, <1>a, <2>1, <2>4 DEF JobConsistent, ForgetFile, AtFile, AtRemoval
    <2> QED BY <1>12, <1>a, <2>2, <2>4, <2>5
            DEF ForgetFile, Shape, TypeOK, ToolConsistent, indexes, history
  <1>13. CASE Complete
    <2>1. JobConsistent'
      BY <1>13, IdleJobIsIdle DEF Complete, JobConsistent, AtFile, AtRemoval
    <2>2. settled' \in [Revisions -> {"none", "FULL", "INCREMENTAL"}]
      BY <1>13, <1>a DEF Complete, TypeOK, Job
    <2> QED BY <1>13, <1>a, <2>1, <2>2, IdleJobIsIdle
            DEF Complete, Shape, TypeOK, ToolConsistent, indexes, history
  <1> QED BY <1>1, <1>2, <1>3, <1>4, <1>5, <1>6, <1>7, <1>8, <1>9, <1>10, <1>11, <1>12, <1>13
          DEF JobStep

LEMMA ToolStepShape == Shape /\ ToolStep => Shape'
  <1> SUFFICES ASSUME Shape, ToolStep PROVE Shape'
    OBVIOUS
  <1>a. TypeOK /\ JobConsistent /\ ToolConsistent /\ tool \in Tool
    BY DEF Shape, TypeOK
  <1>b. /\ tool.revision \in Revisions /\ tool.file \in Files
        /\ tool.at # "idle" => tool.hash \in Contents \ Broken
    BY <1>a DEF Tool, ToolConsistent
  <1>c. ASSUME NEW from, NEW to \in {"embed", "upsert", "put"}, from # "idle", ToolAt(from, to)
        PROVE  /\ tool' \in Tool /\ tool.at = from /\ tool'.revision = tool.revision
               /\ tool'.file = tool.file /\ tool'.hash = tool.hash
    BY <1>a, <1>c DEF ToolAt, Tool
  <1>d. ASSUME UNCHANGED <<tree, job, version, settled>> PROVE JobConsistent'
    BY <1>a, <1>d DEF JobConsistent, AtFile, AtRemoval, content, file
  <1>1. ASSUME NEW r \in Revisions, NEW f \in Files, StartTool(r, f) PROVE Shape'
    <2>1. tool' = [at |-> "write", revision |-> r, file |-> f, hash |-> tree[r][f]]
          /\ tree[r][f] \in Contents \ Broken
      BY <1>1 DEF StartTool
    <2>2. tool' \in Tool
      BY <2>1 DEF Tool
    <2>3. toolCalls' \in 0..MaxToolCalls /\ toolCalls' > 0
      BY <1>1, <1>a, BoundAssumption DEF StartTool, TypeOK
    <2>4. JobConsistent'
      BY <1>1, <1>d DEF StartTool
    <2> QED BY <1>1, <1>a, <2>1, <2>2, <2>3, <2>4
            DEF StartTool, Shape, TypeOK, ToolConsistent, indexes
  <1>2. CASE ToolWrite
    <2>1. WriteGraph(tool.revision, tool.file, tool.hash) /\ tool.hash \in Contents
      BY <1>2, <1>b DEF ToolWrite, ToolAt
    <2>2. /\ members' \subseteq Revisions \X Files \X Symbols
          /\ node' \in [Files -> [Symbols -> [hash : Contents, version : 1..2] \cup {NoContent}]]
      BY <1>a, <1>b, <2>1, WriteGraphFacts
    <2> QED BY <1>2, <1>a, <1>c, <1>d, <2>2
            DEF ToolWrite, Shape, TypeOK, ToolConsistent, history
  <1>3. CASE ToolDropOldVectors
    <2>1. vectors' \in [Revisions -> [Files -> [Symbols -> Contents \cup {NoContent}]]]
      BY <1>3, <1>a, <1>b, DeleteVectorsFacts DEF ToolDropOldVectors
    <2> QED BY <1>3, <1>a, <1>c, <1>d, <2>1
            DEF ToolDropOldVectors, Shape, TypeOK, ToolConsistent, history
  <1>4. CASE ToolStoreVectors
    <2>1. Embedded(tool.hash) \in [Symbols -> Contents \cup {NoContent}]
      BY <1>4, <1>b, EmbeddedType DEF ToolStoreVectors, ToolAt
    <2>2. vectors' \in [Revisions -> [Files -> [Symbols -> Contents \cup {NoContent}]]]
      BY <1>4, <1>a, <1>b, <2>1, UpsertVectorsFacts DEF ToolStoreVectors
    <2> QED BY <1>4, <1>a, <1>c, <1>d, <2>2
            DEF ToolStoreVectors, Shape, TypeOK, ToolConsistent, history
  <1>5. CASE ToolRecord
    <2>1. manifest' \in [Files -> Manifest \cup {NoManifest}]
      BY <1>5, <1>a, <1>b, PutManifestFacts DEF ToolRecord
    <2> QED BY <1>5, <1>a, <1>d, <2>1, IdleToolIsIdle
            DEF ToolRecord, Shape, TypeOK, ToolConsistent, history
  <1>6. CASE ToolRaises
    <2>1. failures' \in 0..MaxFailures
      BY <1>6, <1>a, BoundAssumption DEF ToolRaises, TypeOK
    <2> QED BY <1>6, <1>a, <1>d, <2>1, IdleToolIsIdle
            DEF ToolRaises, Shape, TypeOK, ToolConsistent, indexes
  <1> QED BY <1>1, <1>2, <1>3, <1>4, <1>5, <1>6 DEF ToolStep

LEMMA ShapeStep == Shape /\ [Next]_vars => Shape'
  <1> SUFFICES ASSUME Shape, [Next]_vars PROVE Shape'
    OBVIOUS
  <1>a. TypeOK /\ JobConsistent /\ ToolConsistent
    BY DEF Shape
  <1>1. ASSUME NEW r \in Revisions, NEW mode \in {"FULL", "INCREMENTAL"}, StartJob(r, mode)
        PROVE  Shape'
    <2>1. /\ job'.at = "file" /\ job'.revision = r /\ job'.parsed = tree[r]
          /\ job'.left = {f \in Files : tree[r][f] # NoContent}
          /\ job'.removed = {f \in Files : manifest[f] # NoManifest /\ tree[r][f] = NoContent}
      BY <1>1 DEF StartJob
    <2>2. job' \in Job
      BY <1>1, <1>a DEF StartJob, TypeOK, Job, JobPoints
    <2>3. settled' \in [Revisions -> {"none", "FULL", "INCREMENTAL"}] /\ settled'[r] = "none"
      BY <1>1, <1>a DEF StartJob, TypeOK
    <2>4. JobConsistent'
      BY <1>1, <2>1, <2>3 DEF StartJob, JobConsistent, AtFile, AtRemoval
    <2> QED BY <1>1, <1>a, <2>2, <2>3, <2>4
            DEF StartJob, Shape, TypeOK, ToolConsistent, indexes, history
  <1>2. CASE JobRaises
    <2>1. failures' \in 0..MaxFailures
      BY <1>2, <1>a, BoundAssumption DEF JobRaises, TypeOK
    <2>2. JobConsistent'
      BY <1>2, IdleJobIsIdle DEF JobRaises, JobConsistent, AtFile, AtRemoval
    <2> QED BY <1>2, <1>a, <2>1, <2>2, IdleJobIsIdle
            DEF JobRaises, Shape, TypeOK, ToolConsistent, indexes
  <1>3. CASE Upgrade
    <2>1. version' \in 1..2
      BY <1>3 DEF Upgrade
    <2>2. JobConsistent'
      BY <1>3, <1>a DEF Upgrade, JobConsistent, AtFile, AtRemoval
    <2> QED BY <1>3, <1>a, <2>1, <2>2
            DEF Upgrade, Shape, TypeOK, ToolConsistent, indexes, history
  <1>4. ASSUME NEW r \in Revisions, NEW f \in Files, NEW c \in Contents \cup {NoContent},
               Edit(r, f, c)
        PROVE  Shape'
    <2>1. tree' \in [Revisions -> [Files -> Contents \cup {NoContent}]]
      BY <1>4, <1>a DEF Edit, TypeOK
    <2>2. settled' \in [Revisions -> {"none", "FULL", "INCREMENTAL"}]
          /\ edits' \in 0..MaxEdits
      BY <1>4, <1>a, BoundAssumption DEF Edit, TypeOK
    <2>3. JobConsistent'
      BY <1>4, <1>a DEF Edit, JobConsistent, AtFile, AtRemoval
    <2> QED BY <1>4, <1>a, <2>1, <2>2, <2>3
            DEF Edit, Shape, TypeOK, ToolConsistent, indexes
  <1>5. CASE UNCHANGED vars
    BY <1>5 DEF vars, Shape, TypeOK, JobConsistent, ToolConsistent, AtFile, AtRemoval, content, file
  <1> QED BY <1>1, <1>2, <1>3, <1>4, <1>5, JobStepShape, ToolStepShape DEF Next

(* The three indexes, the job and index_file's call stay within the        *)
(* modelled types.                                                         *)
THEOREM PipelineTypeOK == Spec => []TypeOK
  <1>1. Shape => TypeOK
    BY DEF Shape
  <1> QED BY <1>1, ShapeInit, ShapeStep, PTL DEF Spec

-----------------------------------------------------------------------------
(* Revisions.                                                              *)

(* The steps that write neither graph nor vectors.                         *)
WritesNoIndex ==
    \/ \E r \in Revisions, mode \in {"FULL", "INCREMENTAL"} : StartJob(r, mode)
    \/ NextFile \/ RecordFile \/ EndFailed \/ StartRemoving \/ ForgetFile \/ Complete
    \/ JobRaises
    \/ \E r \in Revisions, f \in Files : StartTool(r, f)
    \/ ToolRecord \/ ToolRaises
    \/ Upgrade
    \/ \E r \in Revisions, f \in Files, c \in Contents \cup {NoContent} : Edit(r, f, c)
    \/ UNCHANGED vars

(* Those that write vectors.                                               *)
WritesVectors ==
    \/ CopyVectors \/ DropOldVectors \/ StoreVectors \/ RemoveFileVectors
    \/ ToolDropOldVectors \/ ToolStoreVectors

LEMMA NextByIndex ==
    ASSUME [Next]_vars
    PROVE  WritesNoIndex \/ WritesVectors \/ CarryFile \/ WriteFile \/ RemoveFile \/ ToolWrite
  BY DEF Next, JobStep, ToolStep, WritesNoIndex, WritesVectors

LEMMA NoIndexUnchanged == WritesNoIndex => UNCHANGED <<members, node, vectors>>
  BY DEF WritesNoIndex, StartJob, NextFile, RecordFile, EndFailed, StartRemoving, ForgetFile,
         Complete, JobRaises, StartTool, ToolRecord, ToolRaises, Upgrade, Edit, indexes, vars

LEMMA VectorsOnly == WritesVectors => UNCHANGED <<members, node>>
  BY DEF WritesVectors, CopyVectors, DropOldVectors, StoreVectors, RemoveFileVectors,
         ToolDropOldVectors, ToolStoreVectors

(* The calls on the graph, with what they are made of.                     *)
LEMMA GraphCalls ==
    ASSUME Shape
    PROVE  /\ CarryFile => /\ file \in Files /\ content \in Contents
                           /\ CarryGraph(job.previous.revision, job.revision, file, content)
                           /\ UNCHANGED <<node, vectors>>
           /\ WriteFile => /\ file \in Files /\ content \in Contents
                           /\ WriteGraph(job.revision, file, content)
                           /\ UNCHANGED vectors
           /\ RemoveFile => /\ First(job.removed) \in Files
                            /\ RemoveGraph(job.revision, First(job.removed))
                            /\ UNCHANGED vectors
           /\ ToolWrite => /\ tool.file \in Files /\ tool.hash \in Contents
                           /\ WriteGraph(tool.revision, tool.file, tool.hash)
                           /\ UNCHANGED vectors
           /\ job.revision \in Revisions /\ tool.revision \in Revisions
  <1>1. job.revision \in Revisions /\ tool.revision \in Revisions /\ tool.file \in Files
    BY DEF Shape, TypeOK, Job, Tool
  <1>2. CarryFile \/ WriteFile => AtFile
    BY DEF CarryFile, WriteFile, JobAt, AtFile
  <1>3. RemoveFile => AtRemoval /\ job.removed # {}
    BY DEF RemoveFile, JobAt, AtRemoval
  <1>4. ToolWrite => tool.hash \in Contents
    BY DEF ToolWrite, ToolAt, Shape, ToolConsistent
  <1> QED BY <1>1, <1>2, <1>3, <1>4, AtFileFacts, AtRemovalFacts
          DEF Shape, CarryFile, WriteFile, RemoveFile, ToolWrite

(* Those on the vectors.                                                   *)
LEMMA VectorCalls ==
    ASSUME Shape
    PROVE  /\ CopyVectors => /\ file \in Files /\ content \in Contents
                             /\ job.previous \in Manifest /\ job.previous.hash = content
                             /\ vectors[job.previous.revision][file]
                                    \in [Symbols -> Contents \cup {NoContent}]
                             /\ \E copied \in Scrolled(vectors[job.previous.revision][file]) :
                                   /\ copied \in [Symbols -> Contents \cup {NoContent}]
                                   /\ UpsertVectors(job.revision, file, copied)
           /\ DropOldVectors => file \in Files /\ DeleteVectors(job.revision, file)
           /\ StoreVectors => /\ file \in Files /\ content \in Contents
                              /\ UpsertVectors(job.revision, file, Embedded(content))
           /\ RemoveFileVectors => /\ First(job.removed) \in Files
                                   /\ DeleteVectors(job.revision, First(job.removed))
           /\ ToolDropOldVectors => DeleteVectors(tool.revision, tool.file)
           /\ ToolStoreVectors => /\ tool.hash \in Contents
                                  /\ UpsertVectors(tool.revision, tool.file, Embedded(tool.hash))
           /\ job.revision \in Revisions /\ tool.revision \in Revisions /\ tool.file \in Files
  <1>1. job.revision \in Revisions /\ tool.revision \in Revisions /\ tool.file \in Files
    BY DEF Shape, TypeOK, Job, Tool
  <1>2. CopyVectors \/ DropOldVectors \/ StoreVectors => AtFile
    BY DEF CopyVectors, DropOldVectors, StoreVectors, JobAt, AtFile
  <1>3. RemoveFileVectors => AtRemoval /\ job.removed # {}
    BY DEF RemoveFileVectors, JobAt, AtRemoval, Shape, JobConsistent
  <1>4. ToolStoreVectors => tool.hash \in Contents
    BY DEF ToolStoreVectors, ToolAt, Shape, ToolConsistent
  <1>5. CopyVectors => job.previous \in Manifest /\ job.previous.hash = content
    BY DEF CopyVectors, JobAt, Shape, JobConsistent, TypeOK, Job
  <1>6. CopyVectors =>
            vectors[job.previous.revision][file] \in [Symbols -> Contents \cup {NoContent}]
    BY <1>2, <1>5, AtFileFacts DEF Shape, TypeOK, Manifest
  <1>7. CopyVectors =>
            \E copied \in Scrolled(vectors[job.previous.revision][file]) :
                /\ copied \in [Symbols -> Contents \cup {NoContent}]
                /\ UpsertVectors(job.revision, file, copied)
    BY <1>6, ScrolledFacts DEF CopyVectors
  <1> QED BY <1>1, <1>2, <1>3, <1>4, <1>5, <1>6, <1>7, AtFileFacts, AtRemovalFacts
          DEF Shape, DropOldVectors, StoreVectors, RemoveFileVectors,
              ToolDropOldVectors, ToolStoreVectors

LEMMA HistoryStep ==
    ASSUME Shape, [Next]_vars, NEW r \in Revisions \ Touched
    PROVE  Linked(r)' = Linked(r) /\ vectors'[r] = vectors[r]
  <1>a. TypeOK
    BY DEF Shape
  <1>b. /\ CopyVectors \/ DropOldVectors \/ StoreVectors \/ RemoveFileVectors \/ CarryFile
              \/ WriteFile \/ RemoveFile => r # job.revision
        /\ ToolDropOldVectors \/ ToolStoreVectors \/ ToolWrite => r # tool.revision
    BY DEF Touched, CopyVectors, DropOldVectors, StoreVectors, RemoveFileVectors, CarryFile,
           WriteFile, RemoveFile, ToolDropOldVectors, ToolStoreVectors, ToolWrite, JobAt, ToolAt
  <1>1. CASE WritesNoIndex
    BY <1>1, NoIndexUnchanged DEF Linked
  <1>2. CASE WritesVectors
    <2>1. Linked(r)' = Linked(r)
      BY <1>2, VectorsOnly DEF Linked
    <2>2. CASE CopyVectors
      BY <2>1, <2>2, <1>a, <1>b, VectorCalls, UpsertVectorsFacts
    <2>3. CASE DropOldVectors \/ RemoveFileVectors \/ ToolDropOldVectors
      BY <2>1, <2>3, <1>a, <1>b, VectorCalls, DeleteVectorsFacts
    <2>4. CASE StoreVectors \/ ToolStoreVectors
      BY <2>1, <2>4, <1>a, <1>b, VectorCalls, EmbeddedType, UpsertVectorsFacts
    <2> QED BY <1>2, <2>1, <2>2, <2>3, <2>4 DEF WritesVectors
  <1>3. CASE CarryFile
    <2>1. Carried(job.previous.revision, job.revision, file, content) /\ UNCHANGED vectors
      BY <1>3, <1>a, GraphCalls, CarryGraphFacts
    <2> QED BY <1>3, <1>b, <2>1 DEF Carried, Linked
  <1>4. CASE WriteFile \/ ToolWrite
    <2>1. PICK q \in Revisions \ {r}, g \in Files, h \in Contents : WriteGraph(q, g, h)
      BY <1>4, <1>b, GraphCalls
    <2>2. Wrote(q, g, h)
      BY <1>a, <2>1, WriteGraphFacts
    <2>3. UNCHANGED vectors
      BY <1>4, GraphCalls
    <2> QED BY <2>2, <2>3 DEF Wrote, Linked
  <1>5. CASE RemoveFile
    <2>1. Removed(job.revision, First(job.removed)) /\ UNCHANGED vectors
      BY <1>5, <1>a, GraphCalls, RemoveGraphFacts
    <2> QED BY <1>5, <1>b, <2>1 DEF Removed, Linked
  <1> QED BY <1>1, <1>2, <1>3, <1>4, <1>5, NextByIndex

(* No step of a job or of index_file changes the links or the vectors of a *)
(* revision other than the one it works for.                               *)
THEOREM PipelineHistoryRetained == Spec => HistoryRetained
  <1>1. Shape /\ [Next]_vars =>
            [\A r \in Revisions \ Touched :
                Linked(r)' = Linked(r) /\ vectors'[r] = vectors[r]]_vars
    BY HistoryStep
  <1> QED BY <1>1, ShapeInit, ShapeStep, PTL DEF Spec, HistoryRetained

-----------------------------------------------------------------------------
(* Nodes.                                                                  *)
LEMMA NodesStep == Shape /\ NodesAreLinked /\ [Next]_vars => NodesAreLinked'
  <1> SUFFICES ASSUME Shape, NodesAreLinked, [Next]_vars,
                      NEW f \in Files, NEW s \in Symbols
               PROVE  node'[f][s] # NoContent <=> \E r \in Revisions : <<r, f, s>> \in members'
    BY DEF NodesAreLinked
  <1>a. TypeOK
    BY DEF Shape
  <1>b. node[f][s] # NoContent <=> \E r \in Revisions : <<r, f, s>> \in members
    BY DEF NodesAreLinked
  <1>1. CASE WritesNoIndex \/ WritesVectors
    BY <1>1, <1>b, NoIndexUnchanged, VectorsOnly
  <1>2. CASE CarryFile
    <2>1. Carried(job.previous.revision, job.revision, file, content) /\ UNCHANGED node
      BY <1>2, <1>a, GraphCalls, CarryGraphFacts
    <2>2. members \subseteq Revisions \X Files \X Symbols
      BY <1>a DEF TypeOK
    <2> QED BY <1>b, <2>1, <2>2 DEF Carried
  <1>3. ASSUME NEW h \in Contents PROVE [hash |-> h, version |-> version] # NoContent
    BY <1>a, AbsentAssumption DEF TypeOK
  <1>4. ASSUME NEW q \in Revisions, NEW g \in Files, NEW h \in Contents, WriteGraph(q, g, h)
        PROVE  node'[f][s] # NoContent <=> \E r \in Revisions : <<r, f, s>> \in members'
    <2>1. Wrote(q, g, h)
      BY <1>4, <1>a, WriteGraphFacts
    <2> QED BY <1>b, <1>3, <2>1 DEF Wrote
  <1>5. CASE WriteFile \/ ToolWrite
    BY <1>4, <1>5, GraphCalls
  <1>6. CASE RemoveFile
    <2>1. Removed(job.revision, First(job.removed)) /\ job.revision \in Revisions
      BY <1>6, <1>a, GraphCalls, RemoveGraphFacts
    <2> QED BY <1>b, <2>1 DEF Removed
  <1> QED BY <1>1, <1>2, <1>5, <1>6, NextByIndex

(* A symbol has a node exactly as long as a revision links it, whatever    *)
(* removals of shared files and calls of index_file interleave.            *)
THEOREM PipelineNodesAreLinked == Spec => []NodesAreLinked
  <1>1. Init => NodesAreLinked
    BY DEF Init, NodesAreLinked
  <1> QED BY <1>1, NodesStep, ShapeInit, ShapeStep, PTL DEF Spec

-----------------------------------------------------------------------------
(* The manifest.                                                           *)

(* Nothing failed yet, and index_file was never called.                    *)
Undisturbed == failures = 0 /\ toolCalls = 0

Backed(f) ==
    manifest[f] # NoManifest =>
        \A s \in SymbolsOf[manifest[f].hash] :
            /\ <<manifest[f].revision, f, s>> \in members
            /\ node[f][s] = [hash |-> manifest[f].hash, version |-> manifest[f].version]

(* ManifestBacked says nothing of the file the job is at.  Once written or *)
(* carried forward, that file is in the graph in full: a file carried      *)
(* forward is carried from the manifest on record.                         *)
Written == job.at \in {"copy", "embed", "upsert", "put"}

InGraph(f, h) ==
    \A s \in SymbolsOf[h] :
        /\ <<job.revision, f, s>> \in members
        /\ node[f][s] = [hash |-> h, version |-> version]

BusyFileInGraph ==
    Undisturbed => /\ job.at = "carry" => job.previous = manifest[file]
                   /\ Written => InGraph(file, content)

ManifestInv == ManifestBacked /\ BusyFileInGraph

LEMMA UndisturbedStep ==
    ASSUME Shape, [Next]_vars, Undisturbed'
    PROVE  /\ Undisturbed
           /\ \/ \E r \in Revisions, mode \in {"FULL", "INCREMENTAL"} : StartJob(r, mode)
              \/ JobStep
              \/ Upgrade
              \/ \E r \in Revisions, f \in Files, c \in Contents \cup {NoContent} : Edit(r, f, c)
              \/ UNCHANGED vars
  <1>a. failures \in Nat /\ toolCalls \in Nat
    BY BoundAssumption DEF Shape, TypeOK
  <1>1. CASE JobRaises
    BY <1>1, <1>a DEF JobRaises, Undisturbed
  <1>2. CASE ToolStep
    <2>1. ASSUME NEW r \in Revisions, NEW f \in Files, StartTool(r, f) PROVE FALSE
      BY <2>1, <1>a DEF StartTool, Undisturbed
    <2>2. CASE ToolWrite \/ ToolDropOldVectors \/ ToolStoreVectors \/ ToolRecord \/ ToolRaises
      <3>1. tool.at # "idle" /\ UNCHANGED toolCalls
        BY <2>2 DEF ToolWrite, ToolDropOldVectors, ToolStoreVectors, ToolRecord, ToolRaises,
                    ToolAt, history
      <3> QED BY <3>1, <1>a DEF Shape, ToolConsistent, Undisturbed
    <2> QED BY <1>2, <2>1, <2>2 DEF ToolStep
  <1>3. CASE ~JobRaises /\ ~ToolStep
    <2>1. UNCHANGED <<failures, toolCalls>>
      BY <1>3 DEF Next, StartJob, JobStep, NextFile, CarryFile, WriteFile, CopyVectors,
         DropOldVectors, StoreVectors, RecordFile, EndFailed, StartRemoving, RemoveFile,
         RemoveFileVectors, ForgetFile, Complete, Upgrade, Edit, history, vars
    <2> QED BY <1>3, <2>1 DEF Undisturbed, Next
  <1> QED BY <1>1, <1>2, <1>3

LEMMA ManifestStep ==
    ASSUME Shape, ManifestInv, [Next]_vars
    PROVE  ManifestInv'
  <1> SUFFICES ASSUME Undisturbed'
               PROVE  /\ \A f \in Files : ~Busy(f)' => Backed(f)'
                      /\ job'.at = "carry" => job'.previous = manifest'[file']
                      /\ Written' => InGraph(file, content)'
    BY DEF ManifestInv, ManifestBacked, Backed, BusyFileInGraph, Undisturbed
  <1> DEFINE Goal == /\ \A f \in Files : ~Busy(f)' => Backed(f)'
                     /\ job'.at = "carry" => job'.previous = manifest'[file']
                     /\ Written' => InGraph(file, content)'
  <1>a. TypeOK /\ JobConsistent /\ job \in Job
    BY DEF Shape, TypeOK
  <1>b. /\ \A f \in Files : ~Busy(f) => Backed(f)
        /\ job.at = "carry" => job.previous = manifest[file]
        /\ Written => InGraph(file, content)
    BY UndisturbedStep DEF ManifestInv, ManifestBacked, Backed, BusyFileInGraph, Undisturbed
  <1>1. ASSUME UNCHANGED <<members, node, manifest>>, \A f \in Files : ~Busy(f)' => ~Busy(f),
               job'.at # "carry", ~Written'
        PROVE  Goal
    BY <1>1, <1>b DEF Backed
  <1>2. ASSUME NEW r \in Revisions, NEW mode \in {"FULL", "INCREMENTAL"}, StartJob(r, mode)
        PROVE  Goal
    BY <1>2, <1>1 DEF StartJob, Busy, Written, indexes
  <1>3. CASE NextFile
    <2>1. file \in Files /\ job.at = "file" /\ UNCHANGED <<members, node, manifest>>
      BY <1>3, <1>a, FirstIsIn DEF NextFile, file, Job, indexes
    <2>2. /\ job'.at \in {"file", "carry", "write"}
          /\ job'.at = "carry" => job'.previous = manifest[file] /\ file' = file
      BY <1>3, <1>a DEF NextFile, file, Job
    <2> QED BY <1>b, <2>1, <2>2 DEF Busy, Written, Backed
  <1>4. CASE CarryFile
    <2>1. /\ JobAt("carry", "copy") /\ AtFile /\ UNCHANGED <<node, manifest, version>>
          /\ file \in Files /\ job.revision \in Revisions
          /\ Carried(job.previous.revision, job.revision, file, content)
          /\ members \subseteq Revisions \X Files \X Symbols
      BY <1>4, <1>a, GraphCalls, CarryGraphFacts DEF CarryFile, JobAt, AtFile, TypeOK
    <2>2. /\ job'.at = "copy" /\ file' = file /\ content' = content
          /\ job'.revision = job.revision /\ job.at = "carry"
      BY <1>a, <2>1, JobAtFacts DEF JobPoints
    <2>3. Backed(file) /\ manifest[file] # NoManifest
          /\ manifest[file].hash = content /\ manifest[file].version = version
          /\ manifest[file].revision = job.previous.revision
      BY <1>a, <1>b, <2>1, <2>2 DEF Busy, JobConsistent
    <2>4. \A f \in Files : ~Busy(f)' => Backed(f)'
      <3> SUFFICES ASSUME NEW f \in Files, f # file, manifest[f] # NoManifest PROVE Backed(f)'
        BY <2>1, <2>2 DEF Busy, Backed
      <3>1. Backed(f)
        BY <1>b, <2>2 DEF Busy
      <3>2. /\ manifest[f].revision \in Revisions
            /\ SymbolsOf[manifest[f].hash] \subseteq Symbols
        BY <1>a, SymbolsOfAssumption DEF TypeOK, Manifest
      <3> QED BY <2>1, <3>1, <3>2 DEF Backed, Carried
    <2>5. InGraph(file, content)'
      <3> SUFFICES ASSUME NEW s \in SymbolsOf[content]
                   PROVE  /\ <<job.revision, file, s>> \in members'
                          /\ node[file][s] = [hash |-> content, version |-> version]
        BY <2>1, <2>2 DEF InGraph
      <3>1. /\ <<job.previous.revision, file, s>> \in members
            /\ node[file][s] = [hash |-> content, version |-> version]
        BY <2>3 DEF Backed
      <3>2. s \in Symbols
        BY <2>1, <3>1
      <3> QED BY <2>1, <3>1, <3>2 DEF Carried
    <2> QED BY <2>2, <2>4, <2>5
  <1>5. CASE WriteFile
    <2>1. /\ file \in Files /\ job.revision \in Revisions /\ content \in Contents
          /\ Wrote(job.revision, file, content) /\ UNCHANGED <<manifest, version>>
          /\ manifest \in [Files -> Manifest \cup {NoManifest}]
      BY <1>5, <1>a, GraphCalls, WriteGraphFacts DEF WriteFile, TypeOK
    <2>2. SymbolsOf[content] \subseteq Symbols
      BY <2>1, SymbolsOfAssumption
    <2>3. /\ job'.at \in {"copy", "embed"} /\ file' = file /\ content' = content
          /\ job'.revision = job.revision /\ job.at = "write"
      BY <1>5, <1>a, JobAtFacts DEF WriteFile, JobPoints
    <2>4. \A f \in Files : ~Busy(f)' => Backed(f)'
      <3> SUFFICES ASSUME NEW f \in Files, f # file, manifest[f] # NoManifest PROVE Backed(f)'
        BY <2>1, <2>3 DEF Busy, Backed
      <3>1. Backed(f)
        BY <1>b, <2>3 DEF Busy
      <3>2. /\ manifest[f].revision \in Revisions
            /\ SymbolsOf[manifest[f].hash] \subseteq Symbols
        BY <2>1, SymbolsOfAssumption DEF Manifest
      <3> QED BY <2>1, <3>1, <3>2 DEF Backed, Wrote
    <2>5. InGraph(file, content)'
      BY <2>1, <2>2, <2>3 DEF InGraph, Wrote
    <2> QED BY <2>3, <2>4, <2>5
  <1>6. CASE CopyVectors \/ DropOldVectors \/ StoreVectors
    <2>1. /\ Written /\ Written' /\ file' = file /\ content' = content
          /\ job'.revision = job.revision
      BY <1>6, <1>a, JobAtFacts
         DEF CopyVectors, DropOldVectors, StoreVectors, JobPoints, Written
    <2>2. UNCHANGED <<members, node, manifest, version>>
      BY <1>6 DEF CopyVectors, DropOldVectors, StoreVectors
    <2> QED BY <1>b, <2>1, <2>2 DEF Busy, Written, Backed, InGraph
  <1>7. CASE RecordFile
    <2>1. /\ AtFile /\ Written /\ UNCHANGED <<members, node, version>>
          /\ PutManifest(job.revision, file, content)
          /\ job'.at = "file"
      BY <1>7, <1>a DEF RecordFile, AtFile, Written, Job
    <2>2. file \in Files /\ content \in Contents \ Broken /\ job.revision \in Revisions
      BY <1>a, <2>1, AtFileFacts DEF Job
    <2>3. \A f \in Files :
              manifest'[f] = IF f = file THEN [hash |-> content, revision |-> job.revision,
                                               version |-> version]
                             ELSE manifest[f]
      BY <1>a, <2>1, <2>2, PutManifestFacts
    <2>4. ASSUME NEW f \in Files, ~Busy(f)' PROVE Backed(f)'
      <3>1. CASE f = file
        BY <1>b, <2>1, <2>3, <3>1 DEF InGraph, Backed
      <3>2. CASE f # file
        <4>1. Backed(f)
          BY <1>b, <2>1, <3>2 DEF Busy, Written
        <4> QED BY <2>1, <2>3, <3>2, <4>1 DEF Backed
      <3> QED BY <3>1, <3>2
    <2> QED BY <2>1, <2>4 DEF Written
  <1>8. CASE EndFailed \/ StartRemoving \/ Complete
    BY <1>8, <1>1, IdleJobIsIdle, <1>a, JobAtFacts
       DEF EndFailed, StartRemoving, Complete, Busy, Written, indexes, JobPoints
  <1>9. CASE RemoveFile
    <2> DEFINE g == First(job.removed)
    <2>1. /\ g \in Files /\ job.revision \in Revisions /\ Removed(job.revision, g)
          /\ UNCHANGED manifest /\ manifest \in [Files -> Manifest \cup {NoManifest}]
      BY <1>9, <1>a, GraphCalls, RemoveGraphFacts DEF RemoveFile, TypeOK
    <2>2. /\ job'.at = "removeVectors" /\ job'.removed = job.removed /\ job.at = "remove"
      BY <1>9, <1>a, JobAtFacts DEF RemoveFile, JobPoints
    <2>3. \A f \in Files : ~Busy(f)' => Backed(f)'
      <3> SUFFICES ASSUME NEW f \in Files, f # g, manifest[f] # NoManifest PROVE Backed(f)'
        BY <2>1, <2>2 DEF Busy, Backed
      <3>1. Backed(f)
        BY <1>b, <2>2 DEF Busy
      <3>2. /\ manifest[f].revision \in Revisions
            /\ SymbolsOf[manifest[f].hash] \subseteq Symbols
        BY <2>1, SymbolsOfAssumption DEF Manifest
      <3> HIDE DEF g
      <3>3. ASSUME NEW s \in SymbolsOf[manifest[f].hash]
            PROVE  /\ <<manifest[f].revision, f, s>> \in members'
                   /\ node'[f][s] = [hash |-> manifest[f].hash, version |-> manifest[f].version]
        BY <2>1, <3>1, <3>2 DEF Backed, Removed
      <3> QED BY <2>1, <3>3 DEF Backed
    <2> QED BY <2>2, <2>3 DEF Written
  <1>10. CASE RemoveFileVectors
    BY <1>10, <1>1, <1>a, JobAtFacts DEF RemoveFileVectors, Busy, Written, JobPoints
  <1>11. CASE ForgetFile
    <2> DEFINE g == First(job.removed)
    <2>1. /\ AtRemoval /\ job.removed # {} /\ job.at = "removeManifest" /\ job'.at = "remove"
      BY <1>11, <1>a DEF ForgetFile, AtRemoval, JobConsistent, Job
    <2>2. g \in Files
      BY <1>a, <2>1, AtRemovalFacts
    <2>3. \A f \in Files : manifest'[f] = IF f = g THEN NoManifest ELSE manifest[f]
      BY <1>11, <1>a, <2>2 DEF ForgetFile, TypeOK
    <2>4. UNCHANGED <<members, node>>
      BY <1>11 DEF ForgetFile
    <2> QED BY <1>b, <2>1, <2>3, <2>4 DEF Busy, Written, Backed
  <1>12. CASE Upgrade
    BY <1>12, <1>1 DEF Upgrade, Busy, Written, indexes
  <1>13. ASSUME NEW r \in Revisions, NEW f \in Files, NEW c \in Contents \cup {NoContent},
                Edit(r, f, c)
         PROVE  Goal
    BY <1>13, <1>1 DEF Edit, Busy, Written, indexes
  <1>14. CASE UNCHANGED vars
    BY <1>14, <1>b DEF vars, Busy, Written, Backed, InGraph, file, content
  <1>15. Goal
    BY <1>2, <1>3, <1>4, <1>5, <1>6, <1>7, <1>8, <1>9, <1>10, <1>11, <1>12, <1>13, <1>14,
       UndisturbedStep DEF JobStep
  <1> QED BY <1>15

(* As long as no job failed half-way and index_file was never called, the  *)
(* graph holds what the manifest has on record, at the recorded revision   *)
(* and analysis version: what an INCREMENTAL job carries forward is there. *)
THEOREM PipelineManifestBacked == Spec => []ManifestBacked
  <1>1. Init => ManifestInv
    BY IdleJobIsIdle DEF Init, ManifestInv, ManifestBacked, BusyFileInGraph, Written
  <1>2. ManifestInv => ManifestBacked
    BY DEF ManifestInv
  <1> QED BY <1>1, <1>2, ManifestStep, ShapeInit, ShapeStep, PTL DEF Spec

(***************************************************************************)
(* What a job that COMPLETED leaves behind: its revision's links and       *)
(* vectors are those its tree calls for.  Linked(r) = Defined(r) is two    *)
(* inclusions with different reasons.  Nothing is ever linked that the     *)
(* tree does not define, as long as no tree was edited: every link stems   *)
(* from the tree's own content.  What the tree defines is linked file by   *)
(* file as the job goes on, and stays so: only files the tree lacks are    *)
(* removed.                                                                *)
(***************************************************************************)
(* Nothing is linked that the tree does not define.                        *)
NodesHoldTheirSymbols ==
    \A f \in Files, s \in Symbols : node[f][s] # NoContent => s \in SymbolsOf[node[f][s].hash]

OnlyDefinedLinked ==
    edits = 0 =>
        \A r \in Revisions, f \in Files, s \in Symbols :
            <<r, f, s>> \in members => /\ tree[r][f] # NoContent
                                       /\ s \in SymbolsOf[tree[r][f]]

LinkInv == NodesAreLinked /\ NodesHoldTheirSymbols /\ OnlyDefinedLinked

LEMMA SymbolsStep == Shape /\ NodesHoldTheirSymbols /\ [Next]_vars => NodesHoldTheirSymbols'
  <1> SUFFICES ASSUME Shape, NodesHoldTheirSymbols, [Next]_vars,
                      NEW f \in Files, NEW s \in Symbols
               PROVE  node'[f][s] # NoContent => s \in SymbolsOf[node'[f][s].hash]
    BY DEF NodesHoldTheirSymbols
  <1>a. TypeOK
    BY DEF Shape
  <1>b. node[f][s] # NoContent => s \in SymbolsOf[node[f][s].hash]
    BY DEF NodesHoldTheirSymbols
  <1>1. CASE WritesNoIndex \/ WritesVectors \/ CarryFile
    BY <1>1, <1>b, NoIndexUnchanged, VectorsOnly, GraphCalls
  <1>2. CASE WriteFile \/ ToolWrite
    <2>1. PICK q \in Revisions, g \in Files, h \in Contents : WriteGraph(q, g, h)
      BY <1>2, GraphCalls
    <2>2. Wrote(q, g, h)
      BY <1>a, <2>1, WriteGraphFacts
    <2> QED BY <1>b, <2>2 DEF Wrote
  <1>3. CASE RemoveFile
    <2>1. Removed(job.revision, First(job.removed))
      BY <1>3, <1>a, GraphCalls, RemoveGraphFacts
    <2> QED BY <1>b, <2>1 DEF Removed
  <1> QED BY <1>1, <1>2, <1>3, NextByIndex

(* Only an edit changes a tree.                                            *)
LEMMA TreesStep ==
    ASSUME Shape, [Next]_vars
    PROVE  \/ UNCHANGED <<tree, edits>>
           \/ edits' # 0 /\ \E r \in Revisions, f \in Files, c \in Contents \cup {NoContent} :
                               Edit(r, f, c)
  <1>1. ASSUME NEW r \in Revisions, NEW f \in Files, NEW c \in Contents \cup {NoContent},
               Edit(r, f, c)
        PROVE  edits' # 0
    BY <1>1, BoundAssumption DEF Edit, Shape, TypeOK
  <1>2. ASSUME \/ \E r \in Revisions, mode \in {"FULL", "INCREMENTAL"} : StartJob(r, mode)
               \/ JobStep \/ JobRaises \/ ToolStep \/ Upgrade \/ UNCHANGED vars
        PROVE  UNCHANGED <<tree, edits>>
    BY <1>2 DEF StartJob, JobStep, NextFile, CarryFile, WriteFile, CopyVectors,
       DropOldVectors, StoreVectors, RecordFile, EndFailed, StartRemoving, RemoveFile,
       RemoveFileVectors, ForgetFile, Complete, JobRaises, ToolStep, StartTool, ToolWrite,
       ToolDropOldVectors, ToolStoreVectors, ToolRecord, ToolRaises, Upgrade, history, vars
  <1> QED BY <1>1, <1>2 DEF Next

LEMMA DefinedStep ==
    ASSUME Shape, LinkInv, [Next]_vars
    PROVE  OnlyDefinedLinked'
  <1> SUFFICES ASSUME edits' = 0, NEW r \in Revisions, NEW f \in Files, NEW s \in Symbols,
                      <<r, f, s>> \in members'
               PROVE  tree'[r][f] # NoContent /\ s \in SymbolsOf[tree'[r][f]]
    BY DEF OnlyDefinedLinked
  <1>a. TypeOK /\ JobConsistent
    BY DEF Shape
  <1>b. tree' = tree /\ edits = 0
    BY TreesStep
  <1>c. \A q \in Revisions :
            <<q, f, s>> \in members => tree[q][f] # NoContent /\ s \in SymbolsOf[tree[q][f]]
    BY <1>b DEF LinkInv, OnlyDefinedLinked
  <1>1. CASE WritesNoIndex \/ WritesVectors
    BY <1>1, <1>b, <1>c, NoIndexUnchanged, VectorsOnly
  <1>2. CASE CarryFile
    <2>1. /\ Carried(job.previous.revision, job.revision, file, content)
          /\ members \subseteq Revisions \X Files \X Symbols
          /\ content = tree[job.revision][file] /\ content # NoContent
      BY <1>2, <1>a, GraphCalls, CarryGraphFacts, AtFileFacts, AbsentAssumption
         DEF CarryFile, JobAt, AtFile, TypeOK
    <2>2. CASE <<r, f, s>> \in members
      BY <1>b, <1>c, <2>2
    <2>3. CASE /\ r = job.revision /\ f = file /\ node[f][s].hash = content
               /\ <<job.previous.revision, f, s>> \in members
      <3>1. node[f][s] # NoContent
        BY <2>1, <2>3 DEF LinkInv, NodesAreLinked
      <3>2. s \in SymbolsOf[content]
        BY <2>3, <3>1 DEF LinkInv, NodesHoldTheirSymbols
      <3> QED BY <1>b, <2>1, <2>3, <3>2
    <2> QED BY <2>1, <2>2, <2>3 DEF Carried
  <1>3. ASSUME NEW q \in Revisions, NEW g \in Files, NEW h \in Contents, WriteGraph(q, g, h),
               tree[q][g] = h
        PROVE  tree'[r][f] # NoContent /\ s \in SymbolsOf[tree'[r][f]]
    <2>1. Wrote(q, g, h)
      BY <1>a, <1>3, WriteGraphFacts
    <2> QED BY <1>b, <1>c, <1>3, <2>1, AbsentAssumption DEF Wrote
  <1>4. CASE WriteFile
    <2>1. content = tree[job.revision][file]
      BY <1>4, <1>a, AtFileFacts DEF WriteFile, JobAt, AtFile
    <2> QED BY <1>3, <1>4, <2>1, GraphCalls
  <1>5. CASE ToolWrite
    <2>1. tool.hash = tree[tool.revision][tool.file]
      BY <1>5 DEF ToolWrite, ToolAt, Shape, ToolConsistent
    <2> QED BY <1>3, <1>5, <2>1, GraphCalls
  <1>6. CASE RemoveFile
    <2>1. Removed(job.revision, First(job.removed))
      BY <1>6, <1>a, GraphCalls, RemoveGraphFacts
    <2> QED BY <1>b, <1>c, <2>1 DEF Removed
  <1> QED BY <1>1, <1>2, <1>4, <1>5, <1>6, NextByIndex

LEMMA LinkInvStep == Shape /\ LinkInv /\ [Next]_vars => LinkInv'
  BY NodesStep, SymbolsStep, DefinedStep DEF LinkInv

LEMMA LinkInvInit == Init => LinkInv
  BY DEF Init, LinkInv, NodesAreLinked, NodesHoldTheirSymbols, OnlyDefinedLinked

-----------------------------------------------------------------------------
(* What the tree defines is linked.                                        *)
DefinedLinked(r, f) ==
    tree[r][f] # NoContent => \A s \in SymbolsOf[tree[r][f]] : <<r, f, s>> \in members

(* A FULL job's links do not depend on the manifest, an INCREMENTAL one's  *)
(* do: it carries forward what ManifestBacked says is there.               *)
TrustedModes == {mode \in {"FULL", "INCREMENTAL"} : mode = "FULL" \/ Undisturbed}

SettledIsLinked ==
    \A r \in Revisions : settled[r] \in TrustedModes => \A f \in Files : DefinedLinked(r, f)

JobLinks ==
    job.mode \in TrustedModes /\ job.at # "idle" /\ ~job.failed =>
        \A f \in Files :
            f \notin job.left \/ (Written /\ f = file) => DefinedLinked(job.revision, f)

CompletionInv == ManifestInv /\ SettledIsLinked /\ JobLinks

(* Links of a file its revision's tree holds are never removed.            *)
LEMMA LinksStay ==
    ASSUME Shape, [Next]_vars, NEW r \in Revisions, NEW f \in Files,
           DefinedLinked(r, f), tree'[r] = tree[r]
    PROVE  DefinedLinked(r, f)'
  <1> SUFFICES ASSUME tree[r][f] # NoContent, NEW s \in SymbolsOf[tree[r][f]]
               PROVE  <<r, f, s>> \in members'
    BY DEF DefinedLinked
  <1>a. TypeOK /\ JobConsistent
    BY DEF Shape
  <1>b. <<r, f, s>> \in members /\ s \in Symbols
    BY <1>a DEF DefinedLinked, TypeOK
  <1>1. CASE WritesNoIndex \/ WritesVectors
    BY <1>1, <1>b, NoIndexUnchanged, VectorsOnly
  <1>2. CASE CarryFile
    <2>1. Carried(job.previous.revision, job.revision, file, content)
      BY <1>2, <1>a, GraphCalls, CarryGraphFacts
    <2> QED BY <1>b, <2>1 DEF Carried
  <1>3. CASE WriteFile \/ ToolWrite
    <2>1. PICK q \in Revisions, g \in Files, h \in Contents : WriteGraph(q, g, h)
      BY <1>3, GraphCalls
    <2>2. Wrote(q, g, h)
      BY <1>a, <2>1, WriteGraphFacts
    <2> QED BY <1>b, <2>2 DEF Wrote
  <1>4. CASE RemoveFile
    <2>1. Removed(job.revision, First(job.removed))
      BY <1>4, <1>a, GraphCalls, RemoveGraphFacts
    <2>2. AtRemoval /\ job.removed # {}
      BY <1>4 DEF RemoveFile, JobAt, AtRemoval
    <2>3. ~(r = job.revision /\ f = First(job.removed))
      BY <1>a, <2>2, AtRemovalFacts
    <2> QED BY <1>b, <2>1, <2>3 DEF Removed
  <1> QED BY <1>1, <1>2, <1>3, <1>4, NextByIndex

(* Failures and calls are only counted up.                                 *)
LEMMA TrustedStep == Shape /\ [Next]_vars => TrustedModes' \subseteq TrustedModes
  BY UndisturbedStep DEF TrustedModes

(* How a step changes which jobs count as completed.                       *)
LEMMA SettledStep ==
    ASSUME Shape, [Next]_vars, NEW r \in Revisions
    PROVE  \/ settled'[r] = settled[r] /\ tree'[r] = tree[r]
           \/ settled'[r] = "none"
           \/ /\ Complete /\ r = job.revision /\ settled'[r] = job.mode /\ UNCHANGED tree
  <1>a. TypeOK
    BY DEF Shape
  <1>1. ASSUME NEW q \in Revisions, NEW mode \in {"FULL", "INCREMENTAL"}, StartJob(q, mode)
        PROVE  (settled'[r] = settled[r] /\ tree'[r] = tree[r]) \/ settled'[r] = "none"
    BY <1>1, <1>a DEF StartJob, TypeOK
  <1>2. ASSUME NEW q \in Revisions, NEW f \in Files, NEW c \in Contents \cup {NoContent},
               Edit(q, f, c)
        PROVE  (settled'[r] = settled[r] /\ tree'[r] = tree[r]) \/ settled'[r] = "none"
    BY <1>2, <1>a DEF Edit, TypeOK
  <1>3. CASE Complete
    BY <1>3, <1>a DEF Complete, TypeOK
  <1>4. ASSUME \/ JobStep /\ ~Complete
               \/ JobRaises \/ ToolStep \/ Upgrade \/ UNCHANGED vars
        PROVE  UNCHANGED <<tree, settled>>
    BY <1>4 DEF JobStep, NextFile, CarryFile, WriteFile, CopyVectors, DropOldVectors,
       StoreVectors, RecordFile, EndFailed, StartRemoving, RemoveFile, RemoveFileVectors,
       ForgetFile, JobRaises, ToolStep, StartTool, ToolWrite, ToolDropOldVectors,
       ToolStoreVectors, ToolRecord, ToolRaises, Upgrade, vars
  <1> QED BY <1>1, <1>2, <1>3, <1>4 DEF Next

LEMMA SettledLinkedStep ==
    ASSUME Shape, CompletionInv, [Next]_vars
    PROVE  SettledIsLinked'
  <1> SUFFICES ASSUME NEW r \in Revisions, settled'[r] \in TrustedModes', NEW f \in Files
               PROVE  DefinedLinked(r, f)'
    BY DEF SettledIsLinked
  <1>1. settled'[r] \in TrustedModes
    BY TrustedStep
  <1>2. CASE settled'[r] = settled[r] /\ tree'[r] = tree[r]
    BY <1>1, <1>2, LinksStay DEF CompletionInv, SettledIsLinked
  <1>3. settled'[r] # "none"
    BY <1>1 DEF TrustedModes
  <1>4. CASE Complete /\ r = job.revision /\ settled'[r] = job.mode /\ UNCHANGED tree
    <2>1. AtRemoval
      BY <1>4 DEF Complete, AtRemoval
    <2>2. job.left = {} /\ ~job.failed /\ job.at # "idle"
      BY <2>1 DEF Shape, JobConsistent, AtRemoval
    <2>3. DefinedLinked(r, f)
      BY <1>1, <1>4, <2>2 DEF CompletionInv, JobLinks
    <2> QED BY <1>4, <2>3, LinksStay
  <1> QED BY <1>2, <1>3, <1>4, SettledStep

LEMMA JobLinksStep ==
    ASSUME Shape, CompletionInv, [Next]_vars
    PROVE  JobLinks'
  <1> SUFFICES ASSUME job'.mode \in TrustedModes', job'.at # "idle", ~job'.failed,
                      NEW f \in Files, f \notin job'.left \/ (Written' /\ f = file'),
                      NEW r \in Revisions, r = job'.revision
               PROVE  DefinedLinked(r, f)'
    <2>1. job'.revision \in Revisions
      BY ShapeStep DEF Shape, TypeOK, Job
    <2> QED BY <2>1 DEF JobLinks, DefinedLinked
  <1> DEFINE Goal == DefinedLinked(r, f)'
  <1>a. TypeOK /\ JobConsistent /\ job \in Job
    BY DEF Shape, TypeOK
  <1>b. job'.mode \in TrustedModes
    BY TrustedStep
  <1>c. ASSUME job.at # "idle", ~job.failed, job'.mode = job.mode, r = job.revision,
               f \notin job.left \/ (Written /\ f = file)
        PROVE  DefinedLinked(r, f)
    BY <1>b, <1>c DEF CompletionInv, JobLinks
  <1>d. ASSUME UNCHANGED <<tree, job>> PROVE Goal
    <2>1. f \notin job.left \/ (Written /\ f = file)
      BY <1>d DEF Written, file
    <2>2. DefinedLinked(r, f)
      BY <1>a, <1>c, <1>d, <2>1 DEF Job
    <2> QED BY <1>d, <2>2, LinksStay
  <1>1. ASSUME NEW q \in Revisions, NEW mode \in {"FULL", "INCREMENTAL"}, StartJob(q, mode)
        PROVE  Goal
    BY <1>1 DEF StartJob, Written, DefinedLinked
  <1>2. CASE NextFile
    <2>1. job.left # {} /\ file \in Files /\ file \in job.left /\ job.at = "file"
      BY <1>2, <1>a, FirstIsIn DEF NextFile, file, Job
    <2>2. /\ job'.at \in {"file", "carry", "write"}
          /\ job'.revision = job.revision /\ job'.mode = job.mode /\ job'.left = job.left
          /\ job'.failed = job.failed /\ UNCHANGED tree
      BY <1>2, <1>a DEF NextFile, Job, indexes, history
    <2>3. f \notin job.left
      BY <2>2 DEF Written
    <2>4. DefinedLinked(r, f)
      BY <1>a, <1>c, <2>1, <2>2, <2>3 DEF Job
    <2> QED BY <2>2, <2>4, LinksStay
  <1>3. ASSUME NEW from, NEW to \in JobPoints \ {"idle"}, JobAt(from, to), from # "idle",
               UNCHANGED tree, Written' => Written
        PROVE  Goal
    <2>1. /\ job.at # "idle" /\ ~job.failed /\ job'.mode = job.mode
          /\ job'.revision = job.revision /\ job'.left = job.left /\ file' = file
      BY <1>3, <1>a, JobAtFacts
    <2>2. DefinedLinked(r, f)
      BY <1>3, <1>a, <1>c, <2>1 DEF Job
    <2> QED BY <1>3, <2>1, <2>2, LinksStay
  <1>4. ASSUME NEW from, NEW to \in JobPoints \ {"idle"}, JobAt(from, to),
               from \in {"carry", "write"}, UNCHANGED tree, f = file => DefinedLinked(r, f)'
        PROVE  Goal
    <2>1. /\ job.at # "idle" /\ ~job.failed /\ job'.mode = job.mode
          /\ job'.revision = job.revision /\ job'.left = job.left /\ file' = file
      BY <1>4, <1>a, JobAtFacts
    <2>2. CASE f = file
      BY <1>4, <2>1, <2>2
    <2>3. CASE f # file
      <3>1. DefinedLinked(r, f)
        BY <1>a, <1>c, <2>1, <2>3 DEF Job
      <3> QED BY <1>4, <2>1, <3>1, LinksStay
    <2> QED BY <2>2, <2>3
  <1>5. CASE CarryFile
    <2>1. /\ JobAt("carry", "copy") /\ AtFile /\ job.mode = "INCREMENTAL" /\ UNCHANGED tree
          /\ content = tree[job.revision][file]
      BY <1>5, <1>a, AtFileFacts DEF CarryFile, JobAt, AtFile, JobConsistent
    <2>2. /\ job'.at = "copy" /\ job'.mode = job.mode /\ job'.revision = job.revision
          /\ file' = file /\ content' = content
      BY <1>a, <2>1, JobAtFacts DEF JobPoints
    <2>3. Undisturbed'
      BY <2>1, <2>2 DEF TrustedModes
    <2>4. InGraph(file, content)'
      BY <2>2, <2>3, ManifestStep DEF CompletionInv, ManifestInv, BusyFileInGraph, Written
    <2>5. f = file => DefinedLinked(r, f)'
      BY <2>1, <2>2, <2>4 DEF DefinedLinked, InGraph
    <2> QED BY <1>4, <2>1, <2>5 DEF JobPoints
  <1>6. CASE WriteFile
    <2>1. /\ AtFile /\ content = tree[job.revision][file] /\ file \in Files /\ UNCHANGED tree
          /\ job.revision \in Revisions /\ content \in Contents
      BY <1>6, <1>a, AtFileFacts DEF WriteFile, JobAt, AtFile, Job
    <2>2. PICK to \in {"copy", "embed"} : JobAt("write", to)
      BY <1>6 DEF WriteFile
    <2>3. file' = file /\ job'.revision = job.revision
      BY <1>a, <2>2, JobAtFacts DEF JobPoints
    <2>4. Wrote(job.revision, file, content)
      BY <1>6, <1>a, GraphCalls, WriteGraphFacts
    <2>5. SymbolsOf[content] \subseteq Symbols
      BY <2>1, SymbolsOfAssumption
    <2>6. f = file => DefinedLinked(r, f)'
      BY <2>1, <2>3, <2>4, <2>5 DEF DefinedLinked, Wrote
    <2> QED BY <1>4, <2>1, <2>2, <2>6 DEF JobPoints
  <1>7. CASE CopyVectors
    <2>1. PICK to \in {"embed", "put"} : JobAt("copy", to)
      BY <1>7 DEF CopyVectors
    <2> QED BY <1>3, <1>7, <2>1 DEF CopyVectors, JobAt, JobPoints, Written
  <1>8. CASE DropOldVectors \/ StoreVectors \/ StartRemoving \/ RemoveFile \/ RemoveFileVectors
    <2>1. UNCHANGED tree
      BY <1>8 DEF DropOldVectors, StoreVectors, StartRemoving, RemoveFile, RemoveFileVectors
    <2>2. CASE JobAt("embed", "upsert") \/ JobAt("upsert", "put")
      BY <1>3, <2>1, <2>2 DEF JobAt, JobPoints, Written
    <2>3. CASE JobAt("file", "remove") \/ JobAt("remove", "removeVectors")
               \/ JobAt("removeVectors", "removeManifest")
      <3>1. ~Written'
        BY <1>a, <2>3, JobAtFacts DEF JobPoints, Written
      <3> QED BY <1>3, <2>1, <2>3, <3>1 DEF JobPoints
    <2> QED BY <1>8, <2>2, <2>3
            DEF DropOldVectors, StoreVectors, StartRemoving, RemoveFile, RemoveFileVectors
  <1>9. CASE RecordFile
    <2>1. /\ Written /\ job.at # "idle" /\ job'.at = "file" /\ job'.mode = job.mode
          /\ job'.revision = job.revision /\ job'.left = job.left \ {file}
          /\ job'.failed = job.failed /\ UNCHANGED tree
      BY <1>9, <1>a DEF RecordFile, Written, Job
    <2>2. f \notin job.left \/ f = file
      BY <2>1 DEF Written
    <2>3. DefinedLinked(r, f)
      BY <1>a, <1>c, <2>1, <2>2 DEF Job
    <2> QED BY <2>1, <2>3, LinksStay
  <1>10. CASE ForgetFile
    <2>1. /\ job.at = "removeManifest" /\ job'.at = "remove" /\ job'.mode = job.mode
          /\ job'.revision = job.revision /\ job'.left = job.left
          /\ job'.failed = job.failed /\ UNCHANGED tree
      BY <1>10, <1>a DEF ForgetFile, Job
    <2>2. f \notin job.left
      BY <2>1 DEF Written
    <2>3. DefinedLinked(r, f)
      BY <1>a, <1>c, <2>1, <2>2 DEF Job
    <2> QED BY <2>1, <2>3, LinksStay
  <1>11. CASE EndFailed \/ Complete \/ JobRaises
    BY <1>11, IdleJobIsIdle DEF EndFailed, Complete, JobRaises
  <1>12. CASE ToolStep
    BY <1>12, <1>d DEF ToolStep, StartTool, ToolWrite, ToolDropOldVectors, ToolStoreVectors,
                       ToolRecord, ToolRaises
  <1>13. CASE Upgrade
    BY <1>13, <1>d DEF Upgrade
  <1>14. ASSUME NEW q \in Revisions, NEW g \in Files, NEW c \in Contents \cup {NoContent},
                Edit(q, g, c)
         PROVE  Goal
    BY <1>14 DEF Edit
  <1>15. CASE UNCHANGED vars
    BY <1>15, <1>d DEF vars
  <1> QED BY <1>1, <1>2, <1>5, <1>6, <1>7, <1>8, <1>9, <1>10, <1>11, <1>12, <1>13, <1>14, <1>15
          DEF Next, JobStep

LEMMA CompletionInvInit == Init => CompletionInv
  BY IdleJobIsIdle
     DEF Init, CompletionInv, ManifestInv, ManifestBacked, BusyFileInGraph, Written,
         SettledIsLinked, TrustedModes, JobLinks

LEMMA CompletionInvStep == Shape /\ CompletionInv /\ [Next]_vars => CompletionInv'
  BY ManifestStep, SettledLinkedStep, JobLinksStep DEF CompletionInv

LEMMA LinkedIsDefined ==
    ASSUME LinkInv, SettledIsLinked, Shape, edits = 0,
           NEW r \in Revisions, settled[r] \in TrustedModes
    PROVE  Linked(r) = Defined(r)
  <1>1. Linked(r) \subseteq Defined(r)
    BY DEF LinkInv, OnlyDefinedLinked, Linked, Defined
  <1>2. Defined(r) \subseteq Linked(r)
    BY DEF SettledIsLinked, DefinedLinked, Linked, Defined
  <1> QED BY <1>1, <1>2

(* A FULL job that COMPLETED leaves exactly its tree's symbols linked,     *)
(* whatever failed jobs, calls of index_file and other revisions' jobs did *)
(* before, meanwhile and since.                                            *)
THEOREM PipelineFullJobRepairs == Spec => []FullJobRepairs
  <1>1. Shape /\ LinkInv /\ CompletionInv => FullJobRepairs
    BY LinkedIsDefined DEF CompletionInv, FullJobRepairs, TrustedModes
  <1> QED BY <1>1, ShapeInit, ShapeStep, LinkInvInit, LinkInvStep, CompletionInvInit,
             CompletionInvStep, PTL DEF Spec

(* So does an INCREMENTAL job, which carries files forward, as long as no  *)
(* job ever failed half-way and index_file was never called.               *)
THEOREM PipelineCompletedGraphMatches == Spec => []CompletedGraphMatches
  <1>1. Shape /\ LinkInv /\ CompletionInv => CompletedGraphMatches
    <2> SUFFICES ASSUME Shape, LinkInv, CompletionInv, Undisturbed, edits = 0,
                        NEW r \in Revisions, settled[r] # "none"
                 PROVE  Linked(r) = Defined(r)
      BY DEF CompletedGraphMatches, Undisturbed
    <2>1. settled[r] \in TrustedModes
      BY DEF Shape, TypeOK, TrustedModes
    <2> QED BY <2>1, LinkedIsDefined DEF CompletionInv
  <1> QED BY <1>1, ShapeInit, ShapeStep, LinkInvInit, LinkInvStep, CompletionInvInit,
             CompletionInvStep, PTL DEF Spec

-----------------------------------------------------------------------------
(* Vectors.                                                                *)

(* Without edits, a file has no vectors at all or those that serve it;     *)
(* what is on record as a file's hash is its content at the recorded       *)
(* revision, so that vectors copied from there serve it too.               *)
ServesOrNone(v, w) == v = NoVectors \/ Serve(v, w)

VectorsWithin == \A r \in Revisions, f \in Files : ServesOrNone(vectors[r][f], Wanted(r, f))

ManifestTrue ==
    \A f \in Files :
        manifest[f] # NoManifest => tree[manifest[f].revision][f] = manifest[f].hash

PreviousTrue ==
    job.at \in {"carry", "write", "copy"} /\ job.previous # NoManifest =>
        tree[job.previous.revision][file] = job.previous.hash

VectorInv == edits = 0 => VectorsWithin /\ ManifestTrue /\ PreviousTrue

LEMMA WantedType ==
    ASSUME TypeOK, NEW r \in Revisions, NEW f \in Files
    PROVE  /\ Wanted(r, f) \in [Symbols -> Contents \cup {NoContent}]
           /\ IsFiniteSet(Points(Wanted(r, f)))
  <1>1. tree[r][f] \in Contents \cup {NoContent}
    BY DEF TypeOK
  <1>2. CASE tree[r][f] = NoContent
    <2>1. Points(Wanted(r, f)) = {}
      BY <1>2 DEF Points, Wanted, NoVectors
    <2> QED BY <1>2, <2>1, NoVectorsType, FS_EmptySet DEF Wanted
  <1>3. CASE tree[r][f] # NoContent
    <2>1. tree[r][f] \in Contents /\ Wanted(r, f) = Embedded(tree[r][f])
      BY <1>1, <1>3 DEF Wanted
    <2>2. Points(Wanted(r, f)) \subseteq SymbolsOf[tree[r][f]]
      BY <2>1 DEF Points, Embedded
    <2> QED BY <2>1, <2>2, EmbeddedType, SymbolsOfAssumption, FS_Subset
  <1> QED BY <1>2, <1>3

(* A copy of vectors that serve serves, as far as it found anything: all   *)
(* of them were copied, or as many as a scroll returns.                    *)
LEMMA ScrolledServe ==
    ASSUME NEW v \in [Symbols -> Contents \cup {NoContent}], NEW copied \in Scrolled(v), NEW w,
           ServesOrNone(v, w)
    PROVE  ServesOrNone(copied, w)
  <1>1. CASE copied = v
    BY <1>1
  <1>2. CASE copied # v
    <2>1. /\ copied \in [Symbols -> Contents \cup {NoContent}]
          /\ \A s \in Symbols : copied[s] \in {NoContent, v[s]}
          /\ Cardinality(Points(copied)) = ScrollLimit
      BY <1>2, ScrolledFacts
    <2>2. CASE v = NoVectors
      <3>1. \A s \in Symbols : copied[s] = NoVectors[s]
        BY <2>1, <2>2 DEF NoVectors
      <3> QED BY <1>2, <2>1, <2>2, <3>1, NoVectorsType
    <2>3. CASE Serve(v, w)
      BY <2>1, <2>3, ScrollAssumption DEF ServesOrNone, Serve
    <2> QED BY <2>2, <2>3 DEF ServesOrNone
  <1> QED BY <1>1, <1>2

(* Vectors that serve a file, merged into none or into others that serve   *)
(* it, serve it: there are no fewer of them than before.                   *)
LEMMA UpsertServes ==
    ASSUME Shape, NEW r \in Revisions, NEW f \in Files,
           NEW w \in [Symbols -> Contents \cup {NoContent}], IsFiniteSet(Points(w)),
           NEW new \in [Symbols -> Contents \cup {NoContent}],
           ServesOrNone(vectors[r][f], w), ServesOrNone(new, w), UpsertVectors(r, f, new)
    PROVE  /\ Upserted(r, f, new)
           /\ vectors'[r][f] = vectors[r][f] \/ Serve(vectors'[r][f], w)
           /\ new # NoVectors => Serve(vectors'[r][f], w)
  <1> DEFINE old == vectors[r][f]
             merged == vectors'[r][f]
  <1>a. TypeOK
    BY DEF Shape
  <1>1. /\ Upserted(r, f, new)
        /\ vectors' \in [Revisions -> [Files -> [Symbols -> Contents \cup {NoContent}]]]
    BY <1>a, UpsertVectorsFacts
  <1>2. /\ merged \in [Symbols -> Contents \cup {NoContent}]
        /\ old \in [Symbols -> Contents \cup {NoContent}]
    BY <1>a, <1>1 DEF TypeOK
  <1>3. \A s \in Symbols : merged[s] = IF new[s] # NoContent THEN new[s] ELSE old[s]
    BY <1>1 DEF Upserted
  <1>4. \A s \in Symbols : NoVectors[s] = NoContent
    BY DEF NoVectors
  <1> HIDE DEF old, merged
  <1>5. CASE new = NoVectors
    <2>1. \A s \in Symbols : merged[s] = old[s]
      BY <1>3, <1>4, <1>5
    <2>2. merged = old
      BY <1>2, <2>1
    <2> QED BY <1>1, <1>5, <2>2 DEF old, merged
  <1>6. CASE new # NoVectors
    <2>1. /\ \A s \in Symbols : new[s] \in {NoContent, w[s]}
          /\ new = w \/ Cardinality(Points(new)) >= ScrollLimit
      BY <1>6 DEF ServesOrNone, Serve
    <2>2. \A s \in Symbols : old[s] \in {NoContent, w[s]}
      BY <1>4 DEF ServesOrNone, Serve, old
    <2>3. \A s \in Symbols : merged[s] \in {NoContent, w[s]}
      BY <1>3, <2>1, <2>2
    <2>4. Points(new) \subseteq Points(merged) /\ Points(merged) \subseteq Points(w)
      BY <1>3, <2>3 DEF Points
    <2>5. CASE new = w
      <3>1. \A s \in Symbols : merged[s] = w[s]
        BY <1>3, <2>2, <2>5
      <3>2. merged = w
        BY <1>2, <3>1
      <3> QED BY <1>1, <2>3, <3>2 DEF Serve, merged
    <2>6. CASE Cardinality(Points(new)) >= ScrollLimit
      <3>1. /\ IsFiniteSet(Points(merged)) /\ IsFiniteSet(Points(new))
            /\ Cardinality(Points(new)) <= Cardinality(Points(merged))
        BY <2>4, FS_Subset
      <3>2. Cardinality(Points(new)) \in Nat /\ Cardinality(Points(merged)) \in Nat
        BY <3>1, FS_CardinalityType
      <3>3. Cardinality(Points(merged)) >= ScrollLimit
        BY <2>6, <3>1, <3>2, ScrollAssumption
      <3> QED BY <1>1, <2>3, <3>3 DEF Serve, merged
    <2> QED BY <2>1, <2>5, <2>6
  <1> QED BY <1>5, <1>6

(* What each step on the vectors makes of them.                            *)
LEMMA VectorCallsWanted ==
    ASSUME Shape, VectorInv, edits = 0
    PROVE  /\ CopyVectors =>
                 \E copied \in [Symbols -> Contents \cup {NoContent}] :
                     /\ JobAt("copy", IF copied = NoVectors THEN "embed" ELSE "put")
                     /\ Upserted(job.revision, file, copied)
                     /\ \/ vectors'[job.revision][file] = vectors[job.revision][file]
                        \/ Serve(vectors'[job.revision][file], Wanted(job.revision, file))
                     /\ copied # NoVectors =>
                           Serve(vectors'[job.revision][file], Wanted(job.revision, file))
           /\ StoreVectors =>
                 \E new : /\ Upserted(job.revision, file, new)
                          /\ Serve(vectors'[job.revision][file], Wanted(job.revision, file))
           /\ ToolStoreVectors =>
                 \E new : /\ Upserted(tool.revision, tool.file, new)
                          /\ Serve(vectors'[tool.revision][tool.file],
                                   Wanted(tool.revision, tool.file))
           /\ DropOldVectors => Dropped(job.revision, file)
           /\ RemoveFileVectors => /\ Dropped(job.revision, First(job.removed))
                                   /\ Wanted(job.revision, First(job.removed)) = NoVectors
           /\ ToolDropOldVectors => Dropped(tool.revision, tool.file)
  <1>a. TypeOK /\ JobConsistent /\ ToolConsistent /\ VectorsWithin /\ PreviousTrue
    BY DEF Shape, VectorInv
  <1>b. job.revision \in Revisions /\ tool.revision \in Revisions /\ tool.file \in Files
    BY VectorCalls
  <1>1. ASSUME CopyVectors
        PROVE  \E copied \in [Symbols -> Contents \cup {NoContent}] :
                   /\ JobAt("copy", IF copied = NoVectors THEN "embed" ELSE "put")
                   /\ Upserted(job.revision, file, copied)
                   /\ \/ vectors'[job.revision][file] = vectors[job.revision][file]
                      \/ Serve(vectors'[job.revision][file], Wanted(job.revision, file))
                   /\ copied # NoVectors =>
                         Serve(vectors'[job.revision][file], Wanted(job.revision, file))
    <2> DEFINE p == job.previous.revision
               r == job.revision
               found == vectors[p][file]
               w == Wanted(r, file)
    <2>1. /\ job.previous \in Manifest /\ job.previous.hash = content /\ file \in Files
          /\ found \in [Symbols -> Contents \cup {NoContent}] /\ job.at = "copy"
      BY <1>1, VectorCalls DEF CopyVectors
    <2>2. content = tree[r][file] /\ content # NoContent
      BY <1>a, <2>1, AtFileFacts, AbsentAssumption DEF AtFile
    <2>3. tree[p][file] = content /\ p \in Revisions
      BY <1>a, <2>1, AbsentAssumption DEF PreviousTrue, JobConsistent, Manifest
    <2>4. Wanted(p, file) = w
      BY <2>2, <2>3 DEF Wanted
    <2>5. ServesOrNone(found, w) /\ ServesOrNone(vectors[r][file], w)
      BY <1>a, <1>b, <2>1, <2>3, <2>4 DEF VectorsWithin
    <2>6. w \in [Symbols -> Contents \cup {NoContent}] /\ IsFiniteSet(Points(w))
      BY <1>a, <1>b, <2>1, WantedType
    <2>7. PICK copied \in Scrolled(found) :
              /\ JobAt("copy", IF copied = NoVectors THEN "embed" ELSE "put")
              /\ UpsertVectors(r, file, copied)
      BY <1>1 DEF CopyVectors
    <2> HIDE DEF w, found, r
    <2>8. copied \in [Symbols -> Contents \cup {NoContent}] /\ ServesOrNone(copied, w)
      BY <2>1, <2>5, ScrolledFacts, ScrolledServe
    <2>9. /\ Upserted(r, file, copied)
          /\ vectors'[r][file] = vectors[r][file] \/ Serve(vectors'[r][file], w)
          /\ copied # NoVectors => Serve(vectors'[r][file], w)
      BY <1>b, <2>1, <2>5, <2>6, <2>7, <2>8, UpsertServes DEF r
    <2> QED BY <2>7, <2>8, <2>9 DEF w, r
  <1>2. ASSUME NEW r \in Revisions, NEW f \in Files, NEW h \in Contents, tree[r][f] = h,
               UpsertVectors(r, f, Embedded(h))
        PROVE  Upserted(r, f, Embedded(h)) /\ Serve(vectors'[r][f], Wanted(r, f))
    <2> DEFINE w == Wanted(r, f)
    <2>1. w = Embedded(h)
      BY <1>2, AbsentAssumption DEF Wanted
    <2>2. ServesOrNone(vectors[r][f], w)
      BY <1>a DEF VectorsWithin
    <2>3. w \in [Symbols -> Contents \cup {NoContent}] /\ IsFiniteSet(Points(w))
      BY <1>a, WantedType
    <2> HIDE DEF w
    <2>4. Serve(w, w)
      BY DEF Serve
    <2>5. /\ Upserted(r, f, w)
          /\ vectors'[r][f] = vectors[r][f] \/ Serve(vectors'[r][f], w)
          /\ w # NoVectors => Serve(vectors'[r][f], w)
      BY <1>2, <2>1, <2>2, <2>3, <2>4, UpsertServes DEF ServesOrNone
    <2>6. w = NoVectors => Serve(vectors'[r][f], w)
      BY <2>2, <2>4, <2>5 DEF ServesOrNone
    <2> QED BY <2>1, <2>5, <2>6 DEF w
  <1>3. ASSUME StoreVectors
        PROVE  \E new : /\ Upserted(job.revision, file, new)
                        /\ Serve(vectors'[job.revision][file], Wanted(job.revision, file))
    <2>1. content = tree[job.revision][file] /\ file \in Files /\ content \in Contents
      BY <1>3, <1>a, AtFileFacts DEF StoreVectors, JobAt, AtFile
    <2> QED BY <1>2, <1>3, <1>b, <2>1, VectorCalls
  <1>4. ASSUME ToolStoreVectors
        PROVE  \E new : /\ Upserted(tool.revision, tool.file, new)
                        /\ Serve(vectors'[tool.revision][tool.file],
                                 Wanted(tool.revision, tool.file))
    <2>1. tree[tool.revision][tool.file] = tool.hash
      BY <1>4, <1>a DEF ToolStoreVectors, ToolAt, ToolConsistent
    <2> QED BY <1>2, <1>4, <1>b, <2>1, VectorCalls
  <1>5. ASSUME RemoveFileVectors
        PROVE  Wanted(job.revision, First(job.removed)) = NoVectors
    <2>1. AtRemoval /\ job.removed # {}
      BY <1>5, <1>a DEF RemoveFileVectors, JobAt, AtRemoval, JobConsistent
    <2> QED BY <1>a, <2>1, AtRemovalFacts DEF Wanted
  <1>6. /\ DropOldVectors => Dropped(job.revision, file)
        /\ RemoveFileVectors => Dropped(job.revision, First(job.removed))
        /\ ToolDropOldVectors => Dropped(tool.revision, tool.file)
    BY <1>a, VectorCalls, DeleteVectorsFacts
  <1> QED BY <1>1, <1>3, <1>4, <1>5, <1>6

LEMMA VectorsWithinStep ==
    ASSUME Shape, VectorInv, [Next]_vars, edits' = 0
    PROVE  VectorsWithin'
  <1>a. TypeOK /\ tree' = tree /\ edits = 0 /\ VectorsWithin
    BY TreesStep DEF Shape, VectorInv
  <1> SUFFICES ASSUME NEW q \in Revisions, NEW g \in Files
               PROVE  ServesOrNone(vectors'[q][g], Wanted(q, g))
    BY <1>a DEF VectorsWithin, ServesOrNone, Serve, Wanted
  <1>b. ServesOrNone(vectors[q][g], Wanted(q, g))
    BY <1>a DEF VectorsWithin
  <1>1. CASE WritesNoIndex \/ CarryFile \/ WriteFile \/ RemoveFile \/ ToolWrite
    BY <1>1, <1>b, NoIndexUnchanged, GraphCalls
  <1>2. CASE CopyVectors
    <2>1. PICK copied :
              /\ Upserted(job.revision, file, copied)
              /\ \/ vectors'[job.revision][file] = vectors[job.revision][file]
                 \/ Serve(vectors'[job.revision][file], Wanted(job.revision, file))
      BY <1>2, <1>a, VectorCallsWanted
    <2> QED BY <1>b, <2>1 DEF Upserted, ServesOrNone
  <1>3. CASE StoreVectors
    <2>1. PICK new : /\ Upserted(job.revision, file, new)
                     /\ Serve(vectors'[job.revision][file], Wanted(job.revision, file))
      BY <1>3, <1>a, VectorCallsWanted
    <2> QED BY <1>b, <2>1 DEF Upserted, ServesOrNone
  <1>4. CASE ToolStoreVectors
    <2>1. PICK new : /\ Upserted(tool.revision, tool.file, new)
                     /\ Serve(vectors'[tool.revision][tool.file],
                              Wanted(tool.revision, tool.file))
      BY <1>4, <1>a, VectorCallsWanted
    <2> QED BY <1>b, <2>1 DEF Upserted, ServesOrNone
  <1>5. CASE DropOldVectors \/ RemoveFileVectors \/ ToolDropOldVectors
    <2>1. PICK r, f : Dropped(r, f)
      BY <1>5, <1>a, VectorCallsWanted
    <2> QED BY <1>b, <2>1 DEF Dropped, ServesOrNone
  <1> QED BY <1>1, <1>2, <1>3, <1>4, <1>5, NextByIndex DEF WritesVectors

LEMMA ManifestTrueStep ==
    ASSUME Shape, VectorInv, [Next]_vars, edits' = 0
    PROVE  ManifestTrue'
  <1>a. TypeOK /\ JobConsistent /\ tree' = tree /\ edits = 0 /\ ManifestTrue
    BY TreesStep DEF Shape, VectorInv
  <1>1. ASSUME NEW r \in Revisions, NEW f \in Files, NEW h \in Contents \ Broken,
               PutManifest(r, f, h), tree[r][f] = h
        PROVE  ManifestTrue'
    <2>1. \A g \in Files :
              manifest'[g] = IF g = f THEN [hash |-> h, revision |-> r, version |-> version]
                             ELSE manifest[g]
      BY <1>1, <1>a, PutManifestFacts
    <2> QED BY <1>1, <1>a, <2>1 DEF ManifestTrue
  <1>2. CASE RecordFile
    <2>1. content = tree[job.revision][file] /\ file \in Files
          /\ content \in Contents \ Broken
      BY <1>2, <1>a, AtFileFacts DEF RecordFile, AtFile
    <2>2. job.revision \in Revisions /\ PutManifest(job.revision, file, content)
      BY <1>2, <1>a DEF RecordFile, TypeOK, Job
    <2> QED BY <1>1, <2>1, <2>2
  <1>3. CASE ToolRecord
    <2>1. tree[tool.revision][tool.file] = tool.hash /\ tool.hash \in Contents \ Broken
      BY <1>3 DEF ToolRecord, Shape, ToolConsistent
    <2>2. /\ tool.revision \in Revisions /\ tool.file \in Files
          /\ PutManifest(tool.revision, tool.file, tool.hash)
      BY <1>3, <1>a DEF ToolRecord, TypeOK, Tool
    <2> QED BY <1>1, <2>1, <2>2
  <1>4. CASE ForgetFile
    <2>1. \A g \in Files : manifest'[g] \in {manifest[g], NoManifest}
      BY <1>4, <1>a DEF ForgetFile, TypeOK
    <2> QED BY <1>a, <2>1 DEF ManifestTrue
  <1>5. CASE ~(RecordFile \/ ToolRecord \/ ForgetFile)
    <2>1. UNCHANGED manifest
      BY <1>5 DEF Next, StartJob, JobStep, NextFile, CarryFile, WriteFile, CopyVectors,
         DropOldVectors, StoreVectors, EndFailed, StartRemoving, RemoveFile,
         RemoveFileVectors, Complete, JobRaises, ToolStep, StartTool, ToolWrite,
         ToolDropOldVectors, ToolStoreVectors, ToolRaises, Upgrade, Edit, indexes, vars
    <2> QED BY <1>a, <2>1 DEF ManifestTrue
  <1> QED BY <1>2, <1>3, <1>4, <1>5

LEMMA PreviousTrueStep ==
    ASSUME Shape, VectorInv, [Next]_vars, edits' = 0
    PROVE  PreviousTrue'
  <1>a. /\ TypeOK /\ JobConsistent /\ job \in Job
        /\ tree' = tree /\ edits = 0 /\ ManifestTrue /\ PreviousTrue
    BY TreesStep DEF Shape, TypeOK, VectorInv
  <1>1. CASE NextFile
    <2>1. file \in Files
      BY <1>1, <1>a, FirstIsIn DEF NextFile, file, Job
    <2>2. job'.at \in {"carry", "write"} => job'.previous = manifest[file] /\ job'.left = job.left
      BY <1>1, <1>a DEF NextFile, file, Job
    <2>3. job'.at # "copy"
      BY <1>1, <1>a DEF NextFile, Job
    <2>4. job'.left = job.left => file' = file
      BY DEF file
    <2> QED BY <1>a, <2>1, <2>2, <2>3, <2>4 DEF PreviousTrue, ManifestTrue
  <1>2. CASE CarryFile \/ WriteFile
    <2>1. /\ job.at \in {"carry", "write"} /\ job'.at \in {"copy", "embed"}
          /\ job'.previous = job.previous /\ file' = file
      BY <1>2, <1>a, JobAtFacts DEF CarryFile, WriteFile, JobPoints
    <2> QED BY <1>a, <2>1 DEF PreviousTrue
  <1>3. CASE CopyVectors \/ DropOldVectors \/ StoreVectors \/ RecordFile \/ EndFailed
             \/ StartRemoving \/ RemoveFile \/ RemoveFileVectors \/ ForgetFile \/ Complete
             \/ JobRaises
    <2>1. job'.at \notin {"carry", "write", "copy"}
      BY <1>3, <1>a, JobAtFacts, IdleJobIsIdle
         DEF CopyVectors, DropOldVectors, StoreVectors, RecordFile, EndFailed, StartRemoving,
             RemoveFile, RemoveFileVectors, ForgetFile, Complete, JobRaises, JobPoints, Job
    <2> QED BY <2>1 DEF PreviousTrue
  <1>4. ASSUME NEW r \in Revisions, NEW mode \in {"FULL", "INCREMENTAL"}, StartJob(r, mode)
        PROVE  PreviousTrue'
    BY <1>4 DEF StartJob, PreviousTrue
  <1>5. ASSUME NEW r \in Revisions, NEW f \in Files, NEW c \in Contents \cup {NoContent},
               Edit(r, f, c)
        PROVE  PreviousTrue'
    BY <1>5 DEF Edit, PreviousTrue
  <1>6. CASE ToolStep \/ Upgrade \/ UNCHANGED vars
    <2>1. UNCHANGED job
      BY <1>6 DEF ToolStep, StartTool, ToolWrite, ToolDropOldVectors, ToolStoreVectors,
                  ToolRecord, ToolRaises, Upgrade, vars
    <2> QED BY <1>a, <2>1 DEF PreviousTrue, file
  <1> QED BY <1>1, <1>2, <1>3, <1>4, <1>5, <1>6 DEF Next, JobStep

LEMMA VectorInvStep == Shape /\ VectorInv /\ [Next]_vars => VectorInv'
  BY VectorsWithinStep, ManifestTrueStep, PreviousTrueStep DEF VectorInv

LEMMA VectorInvInit == Init => VectorInv
  BY IdleJobIsIdle DEF Init, VectorInv, VectorsWithin, ServesOrNone, ManifestTrue, PreviousTrue

(* A file's vectors serve it, or index_file is about to store them again.  *)
Stored(r, f) ==
    \/ Serve(vectors[r][f], Wanted(r, f))
    \/ tool.at = "upsert" /\ tool.revision = r /\ tool.file = f

(* As long as this holds, index_file has not raised.                       *)
Steady == edits = 0 /\ (failures = 0 \/ toolCalls = 0)

SettledIsStored ==
    Steady => \A r \in Revisions : settled[r] # "none" => \A f \in Files : Stored(r, f)

JobStores ==
    Steady /\ job.at # "idle" /\ ~job.failed =>
        \A f \in Files :
            f \notin job.left \/ (job.at = "put" /\ f = file) => Stored(job.revision, f)

StoredInv == VectorInv /\ SettledIsStored /\ JobStores

LEMMA SteadyStep ==
    ASSUME Shape, [Next]_vars, Steady'
    PROVE  Steady /\ ~ToolRaises /\ tree' = tree
  <1>a. failures \in Nat /\ toolCalls \in Nat
    BY BoundAssumption DEF Shape, TypeOK
  <1>1. edits = 0 /\ tree' = tree
    BY TreesStep DEF Steady
  <1>2. /\ failures' \in {failures, failures + 1} /\ toolCalls' \in {toolCalls, toolCalls + 1}
    BY DEF Next, StartJob, JobStep, NextFile, CarryFile, WriteFile, CopyVectors,
       DropOldVectors, StoreVectors, RecordFile, EndFailed, StartRemoving, RemoveFile,
       RemoveFileVectors, ForgetFile, Complete, JobRaises, ToolStep, StartTool, ToolWrite,
       ToolDropOldVectors, ToolStoreVectors, ToolRecord, ToolRaises, Upgrade, Edit,
       history, vars
  <1>3. ~ToolRaises
    BY <1>a DEF ToolRaises, Steady, Shape, ToolConsistent
  <1> QED BY <1>a, <1>1, <1>2, <1>3 DEF Steady

(* Only the job's own re-embedding of a file takes its vectors away.       *)
LEMMA StoredStays ==
    ASSUME Shape, VectorInv, [Next]_vars, Steady', NEW r \in Revisions, NEW f \in Files,
           Stored(r, f), ~(DropOldVectors /\ r = job.revision /\ f = file)
    PROVE  Stored(r, f)'
  <1>a. /\ TypeOK /\ Steady /\ edits = 0 /\ ~ToolRaises /\ tree' = tree
    BY SteadyStep DEF Shape, Steady
  <1>b. Wanted(r, f)' = Wanted(r, f)
    BY <1>a DEF Wanted
  <1>c. Serve(vectors'[r][f], Wanted(r, f)) => Stored(r, f)'
    BY <1>b DEF Stored, Serve
  <1>d. ASSUME UNCHANGED tool, \/ vectors'[r][f] = vectors[r][f]
                               \/ Serve(vectors'[r][f], Wanted(r, f))
        PROVE  Stored(r, f)'
    BY <1>b, <1>c, <1>d DEF Stored, Serve
  <1>1. CASE CopyVectors
    <2>1. PICK copied :
              /\ Upserted(job.revision, file, copied)
              /\ \/ vectors'[job.revision][file] = vectors[job.revision][file]
                 \/ Serve(vectors'[job.revision][file], Wanted(job.revision, file))
      BY <1>1, <1>a, VectorCallsWanted
    <2> QED BY <1>1, <1>d, <2>1 DEF Upserted, CopyVectors
  <1>2. CASE DropOldVectors
    <2>1. Dropped(job.revision, file) /\ UNCHANGED tool
      BY <1>2, <1>a, VectorCallsWanted DEF DropOldVectors
    <2> QED BY <1>2, <1>d, <2>1 DEF Dropped
  <1>3. CASE StoreVectors
    <2>1. PICK new : /\ Upserted(job.revision, file, new)
                     /\ Serve(vectors'[job.revision][file], Wanted(job.revision, file))
      BY <1>3, <1>a, VectorCallsWanted
    <2> QED BY <1>3, <1>d, <2>1 DEF Upserted, StoreVectors
  <1>4. CASE RemoveFileVectors
    <2>1. /\ Dropped(job.revision, First(job.removed)) /\ UNCHANGED tool
          /\ Wanted(job.revision, First(job.removed)) = NoVectors
      BY <1>4, <1>a, VectorCallsWanted DEF RemoveFileVectors
    <2>2. Serve(NoVectors, NoVectors)
      BY DEF Serve
    <2> QED BY <1>d, <2>1, <2>2 DEF Dropped
  <1>5. CASE ToolDropOldVectors
    <2>1. Dropped(tool.revision, tool.file)
      BY <1>5, <1>a, VectorCallsWanted
    <2>2. /\ tool.at = "embed" /\ tool'.at = "upsert"
          /\ tool'.revision = tool.revision /\ tool'.file = tool.file
      BY <1>5, <1>a DEF ToolDropOldVectors, ToolAt, TypeOK, Tool
    <2>3. CASE r = tool.revision /\ f = tool.file
      BY <2>2, <2>3 DEF Stored
    <2>4. CASE ~(r = tool.revision /\ f = tool.file)
      BY <1>c, <2>1, <2>4 DEF Dropped, Stored
    <2> QED BY <2>3, <2>4
  <1>6. CASE ToolStoreVectors
    <2>1. PICK new : /\ Upserted(tool.revision, tool.file, new)
                     /\ Serve(vectors'[tool.revision][tool.file],
                              Wanted(tool.revision, tool.file))
      BY <1>6, <1>a, VectorCallsWanted
    <2> QED BY <1>c, <2>1 DEF Upserted, Stored
  <1>7. CASE CarryFile \/ WriteFile \/ RemoveFile
    BY <1>7, <1>d, GraphCalls DEF CarryFile, WriteFile, RemoveFile
  <1>8. CASE WritesNoIndex \/ ToolWrite
    <2>1. vectors' = vectors
      BY <1>8, NoIndexUnchanged, GraphCalls
    <2>2. UNCHANGED tool \/ tool.at # "upsert"
      BY <1>8, <1>a DEF WritesNoIndex, StartJob, NextFile, RecordFile, EndFailed,
         StartRemoving, ForgetFile, Complete, JobRaises, StartTool, ToolRecord, ToolWrite,
         ToolAt, Upgrade, Edit, vars
    <2> QED BY <1>c, <1>d, <2>1, <2>2 DEF Stored
  <1> QED BY <1>1, <1>2, <1>3, <1>4, <1>5, <1>6, <1>7, <1>8, NextByIndex DEF WritesVectors

LEMMA SettledStoredStep ==
    ASSUME Shape, StoredInv, [Next]_vars
    PROVE  SettledIsStored'
  <1> SUFFICES ASSUME Steady', NEW r \in Revisions, settled'[r] # "none", NEW f \in Files
               PROVE  Stored(r, f)'
    BY DEF SettledIsStored
  <1>a. Steady /\ VectorInv /\ JobConsistent
    BY SteadyStep DEF StoredInv, Shape
  <1>1. CASE settled'[r] = settled[r]
    <2>1. Stored(r, f)
      BY <1>a, <1>1 DEF StoredInv, SettledIsStored
    <2>2. ~(DropOldVectors /\ r = job.revision)
      BY <1>a, <1>1 DEF DropOldVectors, JobAt, JobConsistent
    <2> QED BY <1>a, <2>1, <2>2, StoredStays
  <1>2. CASE Complete /\ r = job.revision
    <2>1. job.at = "remove"
      BY <1>2 DEF Complete
    <2>2. job.left = {} /\ ~job.failed /\ ~DropOldVectors
      BY <1>a, <2>1 DEF JobConsistent, AtRemoval, DropOldVectors, JobAt
    <2>3. Stored(r, f)
      BY <1>a, <1>2, <2>1, <2>2 DEF StoredInv, JobStores
    <2> QED BY <1>a, <2>2, <2>3, StoredStays
  <1> QED BY <1>1, <1>2, SettledStep

LEMMA JobStoresStep ==
    ASSUME Shape, StoredInv, [Next]_vars
    PROVE  JobStores'
  <1> SUFFICES ASSUME Steady', job'.at # "idle", ~job'.failed,
                      NEW f \in Files, f \notin job'.left \/ (job'.at = "put" /\ f = file'),
                      NEW r \in Revisions, r = job'.revision
               PROVE  Stored(r, f)'
    <2>1. job'.revision \in Revisions
      BY ShapeStep DEF Shape, TypeOK, Job
    <2> QED BY <2>1 DEF JobStores, Stored, Wanted
  <1> DEFINE Goal == Stored(r, f)'
  <1>a. TypeOK /\ JobConsistent /\ job \in Job /\ Steady /\ VectorInv
    BY SteadyStep DEF Shape, TypeOK, StoredInv
  <1>b. ASSUME job.at # "idle", ~job.failed, r = job.revision, ~DropOldVectors,
               f \notin job.left \/ (job.at = "put" /\ f = file)
        PROVE  Goal
    <2>1. Stored(r, f)
      BY <1>a, <1>b DEF StoredInv, JobStores
    <2> QED BY <1>a, <1>b, <2>1, StoredStays
  <1>c. ASSUME UNCHANGED job PROVE Goal
    <2>1. ~DropOldVectors /\ file' = file
      BY <1>a, <1>c DEF DropOldVectors, JobAt, Job, file
    <2> QED BY <1>b, <1>c, <2>1
  <1>1. ASSUME NEW q \in Revisions, NEW mode \in {"FULL", "INCREMENTAL"}, StartJob(q, mode)
        PROVE  Goal
    <2>1. UNCHANGED <<tree, vectors>> /\ tree[r][f] = NoContent
      BY <1>1 DEF StartJob, indexes
    <2>2. Serve(vectors[r][f], NoVectors)
      BY <1>a, <2>1 DEF VectorInv, VectorsWithin, ServesOrNone, Serve, Wanted, Steady
    <2> QED BY <2>1, <2>2 DEF Stored, Serve, Wanted
  <1>2. CASE NextFile
    <2>1. /\ job.at = "file" /\ job'.at # "put" /\ job'.revision = job.revision
          /\ job'.left = job.left /\ job'.failed = job.failed
      BY <1>2, <1>a DEF NextFile, Job
    <2> QED BY <1>b, <2>1 DEF DropOldVectors, JobAt
  <1>3. ASSUME NEW from, NEW to \in JobPoints \ {"put"}, JobAt(from, to), from # "idle",
               from # "embed"
        PROVE  Goal
    <2>1. /\ job.at # "idle" /\ ~DropOldVectors /\ job'.at # "put"
          /\ job'.revision = job.revision /\ job'.left = job.left /\ job'.failed = job.failed
      BY <1>3, <1>a, JobAtFacts DEF DropOldVectors, JobAt
    <2> QED BY <1>b, <2>1
  <1>4. CASE CarryFile \/ WriteFile \/ StartRemoving \/ RemoveFile \/ RemoveFileVectors
    BY <1>4, <1>3 DEF CarryFile, WriteFile, StartRemoving, RemoveFile, RemoveFileVectors,
                      JobPoints
  <1>5. CASE DropOldVectors
    <2>1. /\ job.at = "embed" /\ job'.at = "upsert" /\ job'.revision = job.revision
          /\ job'.left = job.left /\ job'.failed = job.failed
      BY <1>5, <1>a, JobAtFacts DEF DropOldVectors, JobPoints
    <2>2. file \in job.left
      BY <1>a, <2>1, AtFileFacts DEF AtFile
    <2>3. Stored(r, f)
      BY <1>a, <2>1 DEF StoredInv, JobStores
    <2> QED BY <1>a, <2>1, <2>2, <2>3, StoredStays
  <1>6. ASSUME JobAt("copy", "put") \/ JobAt("upsert", "put"),
               Serve(vectors'[job.revision][file], Wanted(job.revision, file))
        PROVE  Goal
    <2>1. /\ job.at \in {"copy", "upsert"} /\ job'.revision = job.revision /\ file' = file
          /\ job'.left = job.left /\ job'.failed = job.failed
      BY <1>6, <1>a, JobAtFacts DEF JobPoints
    <2>2. CASE f = file
      <3>1. Wanted(r, f)' = Wanted(r, f)
        BY SteadyStep DEF Wanted
      <3> QED BY <1>6, <2>1, <2>2, <3>1 DEF Stored, Serve
    <2>3. CASE f # file
      BY <1>b, <2>1, <2>3 DEF DropOldVectors, JobAt
    <2> QED BY <2>2, <2>3
  <1>7. CASE CopyVectors
    <2>1. PICK copied :
              /\ JobAt("copy", IF copied = NoVectors THEN "embed" ELSE "put")
              /\ copied # NoVectors =>
                    Serve(vectors'[job.revision][file], Wanted(job.revision, file))
      BY <1>7, <1>a, VectorCallsWanted DEF Steady
    <2>2. CASE copied = NoVectors
      BY <1>3, <2>1, <2>2 DEF JobPoints
    <2>3. CASE copied # NoVectors
      BY <1>6, <2>1, <2>3
    <2> QED BY <2>2, <2>3
  <1>8. CASE StoreVectors
    BY <1>6, <1>8, <1>a, VectorCallsWanted DEF StoreVectors, Steady
  <1>9. CASE RecordFile
    <2>1. /\ job.at = "put" /\ job'.at = "file" /\ job'.revision = job.revision
          /\ job'.left = job.left \ {file} /\ job'.failed = job.failed
      BY <1>9, <1>a DEF RecordFile, Job
    <2> QED BY <1>b, <2>1 DEF DropOldVectors, JobAt
  <1>10. CASE ForgetFile
    <2>1. /\ job.at = "removeManifest" /\ job'.at = "remove" /\ job'.revision = job.revision
          /\ job'.left = job.left /\ job'.failed = job.failed
      BY <1>10, <1>a DEF ForgetFile, Job
    <2> QED BY <1>b, <2>1 DEF DropOldVectors, JobAt
  <1>11. CASE EndFailed \/ Complete \/ JobRaises
    BY <1>11, IdleJobIsIdle DEF EndFailed, Complete, JobRaises
  <1>12. CASE ToolStep \/ Upgrade \/ UNCHANGED vars
    BY <1>12, <1>c DEF ToolStep, StartTool, ToolWrite, ToolDropOldVectors, ToolStoreVectors,
                       ToolRecord, ToolRaises, Upgrade, vars
  <1>13. ASSUME NEW q \in Revisions, NEW g \in Files, NEW c \in Contents \cup {NoContent},
                Edit(q, g, c)
         PROVE  Goal
    BY <1>13 DEF Edit
  <1> QED BY <1>1, <1>2, <1>4, <1>5, <1>7, <1>8, <1>9, <1>10, <1>11, <1>12, <1>13
          DEF Next, JobStep

LEMMA StoredInvInit == Init => StoredInv
  BY VectorInvInit, IdleJobIsIdle DEF Init, StoredInv, SettledIsStored, JobStores

LEMMA StoredInvStep == Shape /\ StoredInv /\ [Next]_vars => StoredInv'
  <1> SUFFICES ASSUME Shape, StoredInv, [Next]_vars PROVE StoredInv'
    OBVIOUS
  <1>1. VectorInv'
    BY VectorInvStep DEF StoredInv
  <1> QED BY <1>1, SettledStoredStep, JobStoresStep DEF StoredInv

(* The vectors of a revision whose last job COMPLETED are those of its     *)
(* tree, or at least ScrollLimit of them where a file has more and a copy  *)
(* was cut: after jobs that failed between deleting and storing, or with   *)
(* index_file called beside the jobs, but not both.                        *)
THEOREM PipelineCompletedVectorsMatch == Spec => []CompletedVectorsMatch
  <1>1. StoredInv => CompletedVectorsMatch
    BY DEF StoredInv, SettledIsStored, Steady, Stored, CompletedVectorsMatch
  <1> QED BY <1>1, ShapeInit, ShapeStep, StoredInvInit, StoredInvStep, PTL DEF Spec
=================================================================================
