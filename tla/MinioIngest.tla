---------------------------- MODULE MinioIngest ----------------------------
(***************************************************************************)
(* The DAG dag_ingest_minio_files_to_raw                                   *)
(* (pipelines/dags/ingestion/ingest_minio_files_to_raw.py): it lists the   *)
(* bucket, writes the new keys to the manifest raw.minio_files_landing,    *)
(* and loads them in one mapped task per file.  The generator puts the     *)
(* objects, and puts some of them again under the same key.                *)
(*                                                                         *)
(* Every statement is a transaction of its own (services/storage/          *)
(* postgres_io.py) and may fail before or after its commit.  A task that   *)
(* fails is tried again or, after its last attempt, given up.  The mapped  *)
(* tasks touch disjoint rows, so they are taken one after the other.       *)
(***************************************************************************)
EXTENDS Integers, Sequences, FiniteSets

CONSTANTS
    Keys,           \* the keys of the bucket, in the order list_objects gives them
    Payments,       \* keys under the payments prefix: the only ones that are staged
    Unreadable,     \* keys whose contents the reader of their prefix cannot decode
    MaxFiles,       \* max_files_per_run
    MaxVersions,    \* bound: times the generator puts an object
    MaxMinioFaults  \* bound: failed statements and lost workers of a behaviour

Files == {Keys[i] : i \in DOMAIN Keys}

\* A bucket has an object once.
ASSUME MinioAssumption ==
    /\ Keys \in Seq(Files) /\ "none" \notin Files
    /\ \A i, j \in DOMAIN Keys : Keys[i] = Keys[j] => i = j
    /\ Payments \subseteq Files /\ Unreadable \subseteq Files
    /\ MaxFiles \in Nat \ {0}
    /\ {MaxVersions, MaxMinioFaults} \subseteq Nat

VARIABLES
    object,     \* object[f]: version of the object in the bucket, 0 when there is none
    manifest,   \* manifest[f]: its status, "unknown" when there is no row
    rows,       \* rows[f]: versions with rows in staging.stg_minio_payments
    step,       \* where the DAG run is
    found,      \* what discover_new_files has found
    files,      \* what it has returned and is still to be loaded
    loading,    \* the file of the task, and the version it has read
    broken,     \* a task of the run has failed for good
    published,  \* files of the last published run
    capped,     \* a discovery found more than MaxFiles
    minioFaults

landing   == <<object, manifest, rows>>
runVars   == <<step, found, files, loading, broken>>
minioVars == <<landing, runVars, published, capped, minioFaults>>

NoTask == [file |-> "none", version |-> 0]

MinioTypeOK ==
    /\ object \in [Files -> 0..MaxVersions]
    /\ manifest \in [Files -> {"unknown", "discovered", "loaded", "quarantined"}]
    /\ rows \in [Files -> SUBSET (1..MaxVersions)]
    /\ step \in {"idle", "list", "insert", "return", "files", "read", "stage", "loaded", "finish",
                 "quarantine", "record"}
    /\ found \subseteq Files /\ files \subseteq Files /\ published \subseteq Files
    /\ Cardinality(files) <= MaxFiles
    /\ loading \in [file : Files \cup {"none"}, version : 0..MaxVersions]
    /\ broken \in BOOLEAN /\ capped \in BOOLEAN
    /\ minioFaults \in 0..MaxMinioFaults

MinioInit ==
    /\ object = [f \in Files |-> 0]
    /\ manifest = [f \in Files |-> "unknown"]
    /\ rows = [f \in Files |-> {}]
    /\ step = "idle" /\ found = {} /\ files = {} /\ loading = NoTask /\ broken = FALSE
    /\ published = {} /\ capped = FALSE /\ minioFaults = 0

-----------------------------------------------------------------------------
MinioFault == minioFaults < MaxMinioFaults /\ minioFaults' = minioFaults + 1

\* A transaction: it commits, or it raises, and the client may not know that
\* it has committed.
Commits(effect, same, next, raised) ==
    \/ effect /\ step' = next /\ UNCHANGED minioFaults
    \/ (effect \/ same) /\ step' \in raised /\ MinioFault

\* External: MinioUploader puts an object, or puts it again.
Put(f) ==
    /\ object[f] < MaxVersions
    /\ object' = [object EXCEPT ![f] = @ + 1]
    /\ UNCHANGED <<manifest, rows, runVars, published, capped, minioFaults>>

Schedule ==
    /\ step = "idle"
    /\ step' = "list" /\ broken' = FALSE
    /\ UNCHANGED <<landing, found, files, loading, published, capped, minioFaults>>

-----------------------------------------------------------------------------
(* discover_new_files: an attempt that fails starts again from the list,   *)
(* and the last one ends the run.                                          *)

Again == {"list", "idle"}

\* list_objects, against the keys that the manifest knew just before.
ListObjects ==
    /\ step = "list"
    /\ \/ /\ found' = {f \in Files : object[f] > 0 /\ manifest[f] = "unknown"}
          /\ step' = "insert"
          /\ UNCHANGED minioFaults
       \/ step' \in Again /\ MinioFault /\ UNCHANGED found
    /\ UNCHANGED <<landing, files, loading, broken, published, capped>>

Discovered == manifest' = [f \in Files |-> IF f \in found /\ manifest[f] = "unknown" THEN "discovered"
                                                                                   ELSE manifest[f]]

\* bulk_insert of all that was found, however many.
InsertManifest ==
    /\ step = "insert"
    /\ Commits(Discovered, UNCHANGED manifest, "return", Again)
    /\ UNCHANGED <<object, rows, found, files, loading, broken, published, capped>>

\* The first MaxFiles in the order of the list.
Before(f) == {g \in found : \E i, j \in DOMAIN Keys : i < j /\ Keys[i] = g /\ Keys[j] = f}
FirstFilesOneMore == {f \in found : Cardinality(Before(f)) <= MaxFiles}   \* mutant: off by one
FirstFiles == {f \in found : Cardinality(Before(f)) < MaxFiles}

\* The task returns its list to the mapped tasks, or its worker is lost: what
\* it has inserted is known to the next attempt.
ReturnFiles ==
    /\ step = "return"
    /\ \/ step' = "files" /\ files' = FirstFiles /\ UNCHANGED minioFaults
       \/ step' \in Again /\ MinioFault /\ UNCHANGED files
    /\ capped' = (capped \/ Cardinality(found) > MaxFiles)
    /\ UNCHANGED <<landing, found, loading, broken, published>>

-----------------------------------------------------------------------------
(* ingest_file.                                                            *)

\* start_run.  Its failure is not yet in the try block: the manifest does not
\* hear of it.
StartFile(f) ==
    /\ step = "files" /\ loading = NoTask /\ f \in files
    /\ loading' = [file |-> f, version |-> 0]
    /\ \/ step' = "read" /\ UNCHANGED minioFaults
       \/ step' = "record" /\ MinioFault
    /\ UNCHANGED <<landing, found, files, broken, published, capped>>

\* read_jsonl or read_csv: the object as it is now, which has rows.
ReadFile ==
    /\ step = "read"
    /\ \/ step' = (IF loading.file \in Unreadable THEN "quarantine" ELSE "stage") /\ UNCHANGED minioFaults
       \/ step' = "quarantine" /\ MinioFault
    /\ loading' = [loading EXCEPT !.version = object[loading.file]]
    /\ UNCHANGED <<landing, found, files, broken, published, capped>>

Staged == rows' = IF loading.file \in Payments THEN [rows EXCEPT ![loading.file] = @ \cup {loading.version}]
                                              ELSE rows

\* mutant: a failed insert is logged and the file goes on
StageSwallowed ==
    /\ step = "stage"
    /\ Commits(Staged, UNCHANGED rows, "loaded", {"loaded"})
    /\ UNCHANGED <<object, manifest, found, files, loading, broken, published, capped>>

\* bulk_insert of the payments, ON CONFLICT (event_uuid) DO NOTHING.
Stage ==
    /\ step = "stage"
    /\ Commits(Staged, UNCHANGED rows, "loaded", {"quarantine"})
    /\ UNCHANGED <<object, manifest, found, files, loading, broken, published, capped>>

Marked(status) == manifest' = [manifest EXCEPT ![loading.file] = status]

MarkLoaded ==
    /\ step = "loaded"
    /\ Commits(Marked("loaded"), UNCHANGED manifest, "finish", {"quarantine"})
    /\ UNCHANGED <<object, rows, found, files, loading, broken, published, capped>>

\* finish_run(success) is still in the try block: when it fails, a file that is
\* loaded is quarantined.
FinishFile ==
    /\ step = "finish"
    /\ \/ step' = "files" /\ files' = files \ {loading.file} /\ loading' = NoTask /\ UNCHANGED minioFaults
       \/ step' = "quarantine" /\ MinioFault /\ UNCHANGED <<files, loading>>
    /\ UNCHANGED <<landing, found, broken, published, capped>>

Quarantine ==
    /\ step = "quarantine"
    /\ Commits(Marked("quarantined"), UNCHANGED manifest, "record", {"record"})
    /\ UNCHANGED <<object, rows, found, files, loading, broken, published, capped>>

\* The worker of the task is lost between two of its statements.
LoseWorker ==
    /\ step \in {"read", "stage", "loaded", "finish", "quarantine"} /\ MinioFault
    /\ step' = "record"
    /\ UNCHANGED <<landing, found, files, loading, broken, published, capped>>

\* finish_run(failed) and the exception: Airflow tries again, or gives up.
RecordFailure ==
    /\ step = "record" /\ step' = "files" /\ loading' = NoTask
    /\ \/ UNCHANGED <<files, broken>>
       \/ files' = files \ {loading.file} /\ broken' = TRUE
    /\ UNCHANGED <<landing, found, published, capped, minioFaults>>

\* publish runs when every mapped task has succeeded; it is skipped when there
\* was none, and not reached when one has failed.
PublishMinio ==
    /\ step = "files" /\ files = {} /\ loading = NoTask
    /\ step' = "idle" /\ found' = {}
    /\ published' = IF broken \/ found = {} THEN published ELSE FirstFiles
    /\ UNCHANGED <<landing, files, loading, broken, capped, minioFaults>>

IngestFile == (\E f \in Files : StartFile(f)) \/ ReadFile \/ Stage \/ MarkLoaded \/ FinishFile
              \/ Quarantine \/ LoseWorker \/ RecordFailure

MinioNext ==
    \/ (\E f \in Files : Put(f))
    \/ Schedule \/ ListObjects \/ InsertManifest \/ ReturnFiles
    \/ IngestFile \/ PublishMinio

-----------------------------------------------------------------------------
\* ingest_file: the status "loaded" is never written before the rows of a
\* payments file are in staging, whatever is retried.
LoadedIsStaged == \A f \in Payments : manifest[f] = "loaded" => rows[f] # {}

\* publish: the consumers of the event find the files of the run loaded, also
\* those that an attempt had quarantined, and nothing takes it back later.
PublishedIsLoaded == \A f \in published : manifest[f] = "loaded"

\* discover_new_files: between the runs no known file waits for ever, except by
\* the cap or a failure: a file that is in the manifest is never listed again.
NothingForgotten ==
    step = "idle" /\ ~capped /\ minioFaults = 0 => \A f \in Files : manifest[f] # "discovered"

\* docs/PIPELINES.md: the manifest with its status discovered, loaded or
\* quarantined tells what became of each file.
ManifestIsTrue == LoadedIsStaged /\ PublishedIsLoaded /\ NothingForgotten
=============================================================================
