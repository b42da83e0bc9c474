------------------------- MODULE MinioIngestProofs -------------------------
(***************************************************************************)
(* The manifest of the bucket tells the truth, for any bucket, cap on the  *)
(* files of a run, and failures.  The argument follows a file from the     *)
(* list that found it: what is found is in the bucket and was unknown, the *)
(* mapped tasks have some of it left to load, and what they have finished  *)
(* is loaded as long as no task has failed for good.                       *)
(***************************************************************************)
EXTENDS MinioIngest, FunctionTheorems, FiniteSetTheorems, TLAPS

MinioSpec == MinioInit /\ [][MinioNext]_minioVars

AtFile    == {"read", "stage", "loaded", "finish", "quarantine", "record"}
FilePhase == AtFile \cup {"files"}

\* Who holds which file: a task only one of its run, the run only what it found.
RunInv ==
    /\ \A f \in found : object[f] > 0
    /\ files \subseteq FirstFiles
    /\ step \notin FilePhase => files = {}
    /\ step \in AtFile => loading.file \in files
    /\ step \notin AtFile => loading = NoTask
    /\ step = "stage" => loading.version > 0

\* Rows are there before a file is marked, and a file is marked before it leaves.
LoadInv ==
    /\ step = "loaded" /\ loading.file \in Payments => rows[loading.file] # {}
    /\ step = "finish" => manifest[loading.file] = "loaded"
    /\ step \in FilePhase /\ ~broken => \A f \in FirstFiles \ files : manifest[f] = "loaded"

\* What is published was not found again.
PublishInv == found \cap published = {}

\* Without a failure and below the cap, a discovered file is on its way.
OnItsWay == ~capped /\ minioFaults = 0 =>
    /\ \A f \in Files : manifest[f] = "discovered" => (step = "return" /\ f \in found) \/ f \in files
    /\ step = "record" => manifest[loading.file] = "quarantined"

ManifestInv == MinioTypeOK /\ RunInv /\ LoadInv /\ PublishInv /\ OnItsWay /\ LoadedIsStaged /\ PublishedIsLoaded
-----------------------------------------------------------------------------
\* A bucket is finite, and so is all that is found in it.
LEMMA FilesFinite == IsFiniteSet(Files)
<1>1. Keys \in Surjection(1..Len(Keys), Files)
  <2>1. Keys \in [1..Len(Keys) -> Files] /\ DOMAIN Keys = 1..Len(Keys)
    BY MinioAssumption DEF MinioAssumption
  <2> QED BY <2>1, Fun_IsSurj DEF Files
<1>2. Len(Keys) \in Nat
  BY MinioAssumption DEF MinioAssumption
<1> QED BY <1>1, <1>2, FS_Interval, FS_Surjection

LEMMA CapIsPositive == MaxFiles \in Nat /\ MaxFiles > 0
BY MinioAssumption DEF MinioAssumption

\* The first files of a run are distinguished by how many come before them, so a
\* run never has more than MaxFiles, and it has all that was found when that fits.
LEMMA FirstFilesFit ==
    ASSUME found \subseteq Files
    PROVE  /\ IsFiniteSet(FirstFiles) /\ Cardinality(FirstFiles) <= MaxFiles
           /\ Cardinality(found) <= MaxFiles => FirstFiles = found
<1>1. IsFiniteSet(found) /\ Cardinality(found) \in Nat
  BY FilesFinite, FS_Subset, FS_CardinalityType
<1>2. \A f \in found : IsFiniteSet(Before(f)) /\ Cardinality(Before(f)) \in Nat
  <2>1. \A f \in found : Before(f) \subseteq found
    BY DEF Before
  <2> QED BY <1>1, <2>1, FS_Subset, FS_CardinalityType
<1>3. \A f, g \in found : Cardinality(Before(f)) = Cardinality(Before(g)) => f = g
  <2>1. ASSUME NEW i \in DOMAIN Keys, NEW j \in DOMAIN Keys, i < j, Keys[i] \in found, Keys[j] \in found
        PROVE  Cardinality(Before(Keys[i])) # Cardinality(Before(Keys[j]))
    <3>0. /\ DOMAIN Keys = 1..Len(Keys) /\ Len(Keys) \in Nat
          /\ \A m, n \in DOMAIN Keys : Keys[m] = Keys[n] => m = n
      BY MinioAssumption DEF MinioAssumption
    <3>1. Before(Keys[i]) \subseteq Before(Keys[j])
      BY <2>1, <3>0 DEF Before
    <3>2. Keys[i] \in Before(Keys[j])
      BY <2>1 DEF Before
    <3>3. Keys[i] \notin Before(Keys[i])
      BY <3>0 DEF Before
    <3> QED BY <1>2, <2>1, <3>1, <3>2, <3>3, FS_Subset
  <2>2. \A f, g \in found : f # g =>
          \E i, j \in DOMAIN Keys : i < j /\ ((Keys[i] = f /\ Keys[j] = g) \/ (Keys[i] = g /\ Keys[j] = f))
    <3> SUFFICES ASSUME NEW f \in found, NEW g \in found, f # g
                 PROVE  \E i, j \in DOMAIN Keys :
                           i < j /\ ((Keys[i] = f /\ Keys[j] = g) \/ (Keys[i] = g /\ Keys[j] = f))
      OBVIOUS
    <3>1. PICK m \in DOMAIN Keys, n \in DOMAIN Keys : Keys[m] = f /\ Keys[n] = g
      BY DEF Files
    <3>2. m \in Int /\ n \in Int /\ m # n
      BY <3>1, MinioAssumption DEF MinioAssumption
    <3>3. m < n \/ n < m
      BY <3>2
    <3> QED BY <3>1, <3>3
  <2> QED BY <2>1, <2>2
<1>4. Cardinality(FirstFiles) <= MaxFiles /\ IsFiniteSet(FirstFiles)
  <2> DEFINE Rank == [f \in FirstFiles |-> Cardinality(Before(f))]
  <2>1. FirstFiles \subseteq found
    BY DEF FirstFiles
  <2>2. Rank \in [FirstFiles -> 0..(MaxFiles - 1)]
    <3> SUFFICES ASSUME NEW f \in FirstFiles PROVE Cardinality(Before(f)) \in 0..(MaxFiles - 1)
      OBVIOUS
    <3>1. Cardinality(Before(f)) < MaxFiles
      BY DEF FirstFiles
    <3>2. Cardinality(Before(f)) \in Nat
      BY <1>2, <2>1
    <3> QED BY <3>1, <3>2, CapIsPositive
  <2>3. Rank \in Injection(FirstFiles, 0..(MaxFiles - 1))
    <3>1. \A f, g \in FirstFiles : Rank[f] = Rank[g] => f = g
      BY <1>3, <2>1
    <3> HIDE DEF Rank
    <3> QED BY <2>2, <3>1, Fun_IsInj
  <2>4. IsFiniteSet(0..(MaxFiles - 1)) /\ Cardinality(0..(MaxFiles - 1)) = MaxFiles
    BY CapIsPositive, FS_Interval
  <2> HIDE DEF Rank
  <2> QED BY <2>3, <2>4, FS_Injection
<1>5. ASSUME Cardinality(found) <= MaxFiles PROVE FirstFiles = found
  <2>1. ASSUME NEW f \in found PROVE Cardinality(Before(f)) < MaxFiles
    <3>1. Before(f) \subseteq found /\ f \notin Before(f)
      BY MinioAssumption DEF Before, MinioAssumption
    <3>2. Cardinality(Before(f)) <= Cardinality(found) /\ Cardinality(Before(f)) # Cardinality(found)
      BY <1>1, <2>1, <3>1, FS_Subset
    <3> QED BY <1>1, <1>2, <1>5, <2>1, <3>2, CapIsPositive
  <2> QED BY <2>1 DEF FirstFiles
<1> QED BY <1>4, <1>5

\* What is left of the first files fits as well.
LEMMA FilesFit ==
    ASSUME found \subseteq Files, NEW left \in SUBSET FirstFiles
    PROVE  Cardinality(left) \in Nat /\ Cardinality(left) <= MaxFiles /\ left \subseteq Files
<1>1. IsFiniteSet(FirstFiles) /\ Cardinality(FirstFiles) <= MaxFiles
  BY FirstFilesFit
<1>2. FirstFiles \subseteq Files
  BY DEF FirstFiles
<1> QED BY <1>1, <1>2, CapIsPositive, FS_Subset, FS_CardinalityType

-----------------------------------------------------------------------------
LEMMA InitManifest == MinioInit => ManifestInv
<1> SUFFICES ASSUME MinioInit PROVE ManifestInv
  OBVIOUS
<1>1. MaxVersions \in Nat /\ MaxMinioFaults \in Nat /\ "none" \notin Files
  BY MinioAssumption DEF MinioAssumption
<1>2. MinioTypeOK
  <2>1. Cardinality({}) = 0
    BY FS_EmptySet
  <2>2. NoTask \in [file : Files \cup {"none"}, version : 0..MaxVersions]
    BY <1>1 DEF NoTask
  <2>3. Cardinality(files) <= MaxFiles
    <3>1. files = {}
      BY DEF MinioInit
    <3> QED BY <2>1, <3>1, CapIsPositive
  <2>4. object \in [Files -> 0..MaxVersions] /\ minioFaults \in 0..MaxMinioFaults
    BY <1>1 DEF MinioInit
  <2>5. rows \in [Files -> SUBSET (1..MaxVersions)]
    BY DEF MinioInit
  <2>6. manifest \in [Files -> {"unknown", "discovered", "loaded", "quarantined"}]
    BY DEF MinioInit
  <2> QED BY <2>2, <2>3, <2>4, <2>5, <2>6 DEF MinioInit, MinioTypeOK
<1>3. RunInv /\ LoadInv /\ PublishInv /\ OnItsWay
  BY DEF MinioInit, RunInv, LoadInv, PublishInv, OnItsWay, FirstFiles, AtFile, FilePhase
<1>4. LoadedIsStaged /\ PublishedIsLoaded
  BY MinioAssumption DEF MinioInit, LoadedIsStaged, PublishedIsLoaded, MinioAssumption
<1> QED BY <1>2, <1>3, <1>4 DEF ManifestInv

\* The generator touches nothing but the bucket, and no object goes away.
LEMMA PutKeeps == ASSUME ManifestInv, NEW f \in Files, Put(f) PROVE ManifestInv'
<1>1. /\ object' \in [Files -> 0..MaxVersions]
      /\ \A g \in Files : object[g] > 0 => object'[g] > 0
  BY MinioAssumption DEF ManifestInv, MinioTypeOK, Put, MinioAssumption
<1>2. UNCHANGED <<manifest, rows, runVars, published, capped, minioFaults>>
  BY DEF Put
<1> QED
  BY <1>1, <1>2 DEF ManifestInv, MinioTypeOK, RunInv, LoadInv, PublishInv, OnItsWay, LoadedIsStaged,
     PublishedIsLoaded, runVars, FirstFiles, Before, AtFile, FilePhase

LEMMA ScheduleKeeps == ASSUME ManifestInv, Schedule PROVE ManifestInv'
BY DEF Schedule, ManifestInv, MinioTypeOK, RunInv, LoadInv, PublishInv, OnItsWay, LoadedIsStaged,
   PublishedIsLoaded, landing, FirstFiles, Before, AtFile, FilePhase

\* What is found was unknown, so it is not in what was published.
LEMMA ListKeeps == ASSUME ManifestInv, ListObjects PROVE ManifestInv'
<1>1. /\ UNCHANGED <<landing, files, loading, broken, published, capped>>
      /\ files = {} /\ loading = NoTask /\ step = "list"
      /\ step' \in {"insert", "list", "idle"}
      /\ minioFaults' \in 0..MaxMinioFaults /\ (minioFaults' = 0 => minioFaults = 0)
      /\ found' \subseteq Files
      /\ \A f \in found' : object[f] > 0 /\ f \notin published
  BY MinioAssumption
     DEF ListObjects, MinioFault, Again, MinioAssumption, ManifestInv, MinioTypeOK, RunInv, AtFile, FilePhase,
         PublishInv, PublishedIsLoaded
<1> QED
  BY <1>1 DEF ManifestInv, MinioTypeOK, RunInv, LoadInv, PublishInv, OnItsWay, LoadedIsStaged,
     PublishedIsLoaded, landing, AtFile, FilePhase

\* Only unknown files become discovered, and they are all in the list in hand.
LEMMA InsertKeeps == ASSUME ManifestInv, InsertManifest PROVE ManifestInv'
<1>1. /\ UNCHANGED <<object, rows, found, files, loading, broken, published, capped>>
      /\ step = "insert" /\ files = {} /\ loading = NoTask
      /\ step' \in {"return", "list", "idle"}
      /\ minioFaults' \in 0..MaxMinioFaults /\ (minioFaults' = 0 => minioFaults = 0 /\ step' = "return")
      /\ Discovered \/ UNCHANGED manifest
  BY MinioAssumption
     DEF InsertManifest, Commits, MinioFault, Again, MinioAssumption, ManifestInv, MinioTypeOK, RunInv,
         AtFile, FilePhase
<1>2. /\ manifest' \in [Files -> {"unknown", "discovered", "loaded", "quarantined"}]
      /\ \A f \in Files : manifest'[f] = manifest[f]
                          \/ (manifest[f] = "unknown" /\ manifest'[f] = "discovered" /\ f \in found)
  BY <1>1 DEF Discovered, ManifestInv, MinioTypeOK
<1>3. MinioTypeOK'
  BY <1>1, <1>2 DEF ManifestInv, MinioTypeOK
<1>4. RunInv' /\ LoadInv' /\ PublishInv'
  BY <1>1 DEF ManifestInv, RunInv, LoadInv, PublishInv, AtFile, FilePhase
<1>5. OnItsWay'
  BY <1>1, <1>2 DEF ManifestInv, MinioTypeOK, RunInv, OnItsWay, FilePhase
<1>6. LoadedIsStaged' /\ PublishedIsLoaded'
  BY <1>1, <1>2, MinioAssumption
     DEF ManifestInv, MinioTypeOK, LoadedIsStaged, PublishedIsLoaded, MinioAssumption
<1> QED BY <1>3, <1>4, <1>5, <1>6 DEF ManifestInv

\* Below the cap nothing that was found is left behind.
LEMMA ReturnKeeps == ASSUME ManifestInv, ReturnFiles PROVE ManifestInv'
<1>0. capped' \in BOOLEAN /\ (~capped' => ~capped /\ ~(Cardinality(found) > MaxFiles))
  BY DEF ReturnFiles, ManifestInv, MinioTypeOK
<1>1. /\ UNCHANGED <<landing, found, loading, broken, published>>
      /\ step = "return" /\ files = {} /\ loading = NoTask /\ found \subseteq Files
      /\ minioFaults' \in 0..MaxMinioFaults /\ (minioFaults' = 0 => minioFaults = 0 /\ step' = "files")
      /\ (step' = "files" /\ files' = FirstFiles) \/ (step' \in {"list", "idle"} /\ files' = {})
  <2>1. MaxMinioFaults \in Nat
    BY MinioAssumption DEF MinioAssumption
  <2> QED BY <2>1 DEF ReturnFiles, MinioFault, Again, ManifestInv, MinioTypeOK, RunInv, AtFile, FilePhase
<1>2. FirstFiles' = FirstFiles
  BY <1>1 DEF FirstFiles, Before
<1>3. Cardinality(files') \in Nat /\ Cardinality(files') <= MaxFiles /\ files' \subseteq Files /\ files' \subseteq FirstFiles
  BY <1>1, FilesFit
<1>4. ~capped' => FirstFiles = found
  <2>1. Cardinality(found) \in Nat
    BY <1>1, FilesFinite, FS_Subset, FS_CardinalityType
  <2> QED BY <1>1, <1>0, <2>1, CapIsPositive, FirstFilesFit
<1>5. MinioTypeOK'
  BY <1>1, <1>0, <1>3 DEF ManifestInv, MinioTypeOK, landing
<1>6. RunInv' /\ LoadInv' /\ PublishInv' /\ LoadedIsStaged' /\ PublishedIsLoaded'
  BY <1>1, <1>2, <1>3
     DEF ManifestInv, RunInv, LoadInv, PublishInv, LoadedIsStaged, PublishedIsLoaded, landing, AtFile, FilePhase
<1>7. OnItsWay'
  BY <1>1, <1>0, <1>4 DEF ManifestInv, OnItsWay, landing
<1> QED BY <1>5, <1>6, <1>7 DEF ManifestInv

-----------------------------------------------------------------------------
(* ingest_file.  A step of a task leaves what was found, the files of the  *)
(* run only shrink, and the manifest changes for the file at hand alone.   *)

TaskFrame ==
    /\ UNCHANGED <<object, found, published, capped>>
    /\ step \in FilePhase /\ step' \in FilePhase
    /\ files' \subseteq files
    /\ minioFaults' \in 0..MaxMinioFaults /\ (minioFaults' = 0 => minioFaults = 0)
    /\ step' \in AtFile => loading'.file \in files'
    /\ step' = "files" => loading' = NoTask
    /\ loading' \in [file : Files \cup {"none"}, version : 0..MaxVersions]
    /\ step' = "stage" => loading'.version > 0
    /\ manifest' \in [Files -> {"unknown", "discovered", "loaded", "quarantined"}]
    /\ \A f \in Files : f = loading.file \/ manifest'[f] = manifest[f]
    /\ rows' \in [Files -> SUBSET (1..MaxVersions)]
    /\ \A f \in Files : rows[f] \subseteq rows'[f]
    /\ broken' \in BOOLEAN

\* The part of the invariant that every step of a task keeps.
LEMMA FileTaskKeeps == ASSUME ManifestInv, TaskFrame
                   PROVE  MinioTypeOK' /\ RunInv' /\ PublishInv'
<1>1. /\ UNCHANGED <<object, found, published, capped>> /\ found \subseteq Files /\ files \subseteq FirstFiles
      /\ files' \subseteq FirstFiles
  BY DEF TaskFrame, ManifestInv, MinioTypeOK, RunInv
<1>2. Cardinality(files') <= MaxFiles /\ files' \subseteq Files
  BY <1>1, FilesFit
<1>3. FirstFiles' = FirstFiles
  BY <1>1 DEF FirstFiles, Before
<1>4. MinioTypeOK'
  BY <1>1, <1>2 DEF TaskFrame, ManifestInv, MinioTypeOK, FilePhase, AtFile
<1>5. RunInv'
  BY <1>1, <1>3 DEF TaskFrame, ManifestInv, RunInv, FilePhase, AtFile
<1>6. PublishInv'
  BY <1>1 DEF ManifestInv, PublishInv
<1> QED BY <1>4, <1>5, <1>6

\* What the frame needs from the invariant.
LEMMA AtWork ==
    ASSUME ManifestInv
    PROVE  /\ MaxMinioFaults \in Nat /\ MaxVersions \in Nat /\ "none" \notin Files
           /\ object \in [Files -> 0..MaxVersions] /\ rows \in [Files -> SUBSET (1..MaxVersions)]
           /\ manifest \in [Files -> {"unknown", "discovered", "loaded", "quarantined"}]
           /\ loading \in [file : Files \cup {"none"}, version : 0..MaxVersions]
           /\ broken \in BOOLEAN /\ minioFaults \in 0..MaxMinioFaults
           /\ files \subseteq Files /\ files \subseteq FirstFiles
           /\ \A f \in files : object[f] > 0 /\ f \notin published
           /\ step \in AtFile => loading.file \in files /\ loading.file \in Files
           /\ Payments \subseteq Files
<1>1. MaxMinioFaults \in Nat /\ MaxVersions \in Nat /\ "none" \notin Files /\ Payments \subseteq Files
  BY MinioAssumption DEF MinioAssumption
<1>2. MinioTypeOK /\ RunInv /\ PublishInv
  BY DEF ManifestInv
<1>3. FirstFiles \subseteq found
  BY DEF FirstFiles
<1> QED BY <1>1, <1>2, <1>3 DEF MinioTypeOK, RunInv, PublishInv

LEMMA FileStartKeeps == ASSUME ManifestInv, NEW f \in Files, StartFile(f) PROVE ManifestInv'
<1>1. /\ step = "files" /\ f \in files /\ step' \in {"read", "record"} /\ loading' = [file |-> f, version |-> 0]
      /\ UNCHANGED <<landing, found, files, broken, published, capped>>
      /\ minioFaults' \in 0..MaxMinioFaults /\ (minioFaults' = 0 => minioFaults = 0 /\ step' = "read")
  BY AtWork DEF StartFile, MinioFault
<1>2. TaskFrame
  BY <1>1, AtWork DEF TaskFrame, landing, FilePhase, AtFile
<1>3. LoadInv' /\ OnItsWay' /\ LoadedIsStaged' /\ PublishedIsLoaded'
  BY <1>1 DEF ManifestInv, LoadInv, OnItsWay, LoadedIsStaged, PublishedIsLoaded, landing, FilePhase, AtFile,
     FirstFiles, Before
<1> QED BY <1>2, <1>3, FileTaskKeeps DEF ManifestInv

\* Only an object that is there can be read.
LEMMA ReadKeeps == ASSUME ManifestInv, ReadFile PROVE ManifestInv'
<1>1. /\ step = "read" /\ step' \in {"stage", "quarantine"} /\ loading.file \in files /\ loading.file \in Files
      /\ loading' = [loading EXCEPT !.version = object[loading.file]]
      /\ UNCHANGED <<landing, found, files, broken, published, capped>>
      /\ minioFaults' \in 0..MaxMinioFaults /\ (minioFaults' = 0 => minioFaults = 0)
  BY AtWork DEF ReadFile, MinioFault, AtFile
<1>2. /\ loading'.file = loading.file /\ loading'.version > 0
      /\ loading' \in [file : Files \cup {"none"}, version : 0..MaxVersions]
  BY <1>1, AtWork
<1>3. TaskFrame
  BY <1>1, <1>2, AtWork DEF TaskFrame, landing, FilePhase, AtFile
<1>4. LoadInv' /\ OnItsWay' /\ LoadedIsStaged' /\ PublishedIsLoaded'
  BY <1>1 DEF ManifestInv, LoadInv, OnItsWay, LoadedIsStaged, PublishedIsLoaded, landing, FilePhase, AtFile,
     FirstFiles, Before
<1> QED BY <1>3, <1>4, FileTaskKeeps DEF ManifestInv

\* The task goes on to mark the file only when the insert is known to have committed.
LEMMA StageKeeps == ASSUME ManifestInv, Stage PROVE ManifestInv'
<1>1. /\ step = "stage" /\ step' \in {"loaded", "quarantine"} /\ loading.file \in files /\ loading.file \in Files
      /\ UNCHANGED <<object, manifest, found, files, loading, broken, published, capped>>
      /\ minioFaults' \in 0..MaxMinioFaults /\ (minioFaults' = 0 => minioFaults = 0)
      /\ Staged \/ (UNCHANGED rows /\ step' = "quarantine")
      /\ loading.version \in 1..MaxVersions
  <2>1. step = "stage" /\ loading.version > 0 /\ loading.version \in 0..MaxVersions
    BY AtWork DEF Stage, ManifestInv, RunInv
  <2> QED BY <2>1, AtWork DEF Stage, Commits, MinioFault, AtFile
<1>2. /\ rows' \in [Files -> SUBSET (1..MaxVersions)]
      /\ \A f \in Files : rows[f] \subseteq rows'[f]
      /\ step' = "loaded" /\ loading.file \in Payments => rows'[loading.file] # {}
  BY <1>1, AtWork DEF Staged
<1>3. TaskFrame
  BY <1>1, <1>2, AtWork DEF TaskFrame, FilePhase, AtFile
<1>4. LoadInv' /\ OnItsWay' /\ PublishedIsLoaded'
  BY <1>1, <1>2 DEF ManifestInv, LoadInv, OnItsWay, PublishedIsLoaded, FilePhase, AtFile, FirstFiles, Before
<1>5. LoadedIsStaged'
  BY <1>1, <1>2, AtWork DEF ManifestInv, LoadedIsStaged
<1> QED BY <1>3, <1>4, <1>5, FileTaskKeeps DEF ManifestInv

LEMMA FileMarkKeeps == ASSUME ManifestInv, MarkLoaded PROVE ManifestInv'
<1>1. /\ step = "loaded" /\ step' \in {"finish", "quarantine"} /\ loading.file \in files /\ loading.file \in Files
      /\ UNCHANGED <<object, rows, found, files, loading, broken, published, capped>>
      /\ minioFaults' \in 0..MaxMinioFaults /\ (minioFaults' = 0 => minioFaults = 0)
      /\ Marked("loaded") \/ (UNCHANGED manifest /\ step' = "quarantine")
  BY AtWork DEF MarkLoaded, Commits, MinioFault, AtFile
<1>2. /\ manifest' \in [Files -> {"unknown", "discovered", "loaded", "quarantined"}]
      /\ \A f \in Files : manifest'[f] = manifest[f] \/ (f = loading.file /\ manifest'[f] = "loaded")
      /\ step' = "finish" => manifest'[loading.file] = "loaded"
  BY <1>1, AtWork DEF Marked
<1>3. TaskFrame
  BY <1>1, <1>2, AtWork DEF TaskFrame, FilePhase, AtFile
<1>4. FirstFiles' = FirstFiles /\ FirstFiles \subseteq Files
  BY <1>1 DEF FirstFiles, Before, ManifestInv, MinioTypeOK
<1>5. LoadInv'
  BY <1>1, <1>2, <1>4 DEF ManifestInv, LoadInv, FilePhase, AtFile
<1>6. OnItsWay'
  BY <1>1, <1>2 DEF ManifestInv, OnItsWay
<1>7. PublishedIsLoaded'
  BY <1>1, <1>2 DEF ManifestInv, PublishedIsLoaded, MinioTypeOK
<1>8. LoadedIsStaged'
  BY <1>1, <1>2, AtWork DEF ManifestInv, LoadedIsStaged, LoadInv
<1> QED BY <1>3, <1>5, <1>6, <1>7, <1>8, FileTaskKeeps DEF ManifestInv

LEMMA FinishKeeps == ASSUME ManifestInv, FinishFile PROVE ManifestInv'
<1>1. /\ step = "finish" /\ loading.file \in files /\ UNCHANGED <<landing, found, broken, published, capped>>
      /\ minioFaults' \in 0..MaxMinioFaults /\ (minioFaults' = 0 => minioFaults = 0)
      /\ \/ step' = "files" /\ files' = files \ {loading.file} /\ loading' = NoTask
         \/ step' = "quarantine" /\ UNCHANGED <<files, loading>>
  BY AtWork DEF FinishFile, MinioFault, AtFile
<1>2. NoTask \in [file : Files \cup {"none"}, version : 0..MaxVersions]
  BY AtWork DEF NoTask
<1>3. TaskFrame
  BY <1>1, <1>2, AtWork DEF TaskFrame, landing, FilePhase, AtFile
<1>4. LoadInv' /\ OnItsWay' /\ LoadedIsStaged' /\ PublishedIsLoaded'
  BY <1>1 DEF ManifestInv, LoadInv, OnItsWay, LoadedIsStaged, PublishedIsLoaded, landing, FilePhase, AtFile,
     FirstFiles, Before
<1> QED BY <1>3, <1>4, FileTaskKeeps DEF ManifestInv

\* A file of the run may be quarantined even when it is loaded, but no published one.
LEMMA QuarantineKeeps == ASSUME ManifestInv, Quarantine PROVE ManifestInv'
<1>1. /\ step = "quarantine" /\ step' = "record" /\ loading.file \in files /\ loading.file \in Files
      /\ UNCHANGED <<object, rows, found, files, loading, broken, published, capped>>
      /\ minioFaults' \in 0..MaxMinioFaults /\ (minioFaults' = 0 => minioFaults = 0 /\ Marked("quarantined"))
      /\ Marked("quarantined") \/ UNCHANGED manifest
  BY AtWork DEF Quarantine, Commits, MinioFault, AtFile
<1>2. /\ manifest' \in [Files -> {"unknown", "discovered", "loaded", "quarantined"}]
      /\ \A f \in Files : manifest'[f] = manifest[f] \/ (f = loading.file /\ manifest'[f] = "quarantined")
      /\ minioFaults' = 0 => manifest'[loading.file] = "quarantined"
  BY <1>1, AtWork DEF Marked
<1>3. TaskFrame
  BY <1>1, <1>2, AtWork DEF TaskFrame, FilePhase, AtFile
<1>4. FirstFiles' = FirstFiles /\ FirstFiles \subseteq Files
  BY <1>1 DEF FirstFiles, Before, ManifestInv, MinioTypeOK
<1>5. LoadInv'
  BY <1>1, <1>2, <1>4 DEF ManifestInv, LoadInv, FilePhase, AtFile
<1>6. OnItsWay'
  BY <1>1, <1>2 DEF ManifestInv, OnItsWay
<1>7. PublishedIsLoaded'
  BY <1>1, <1>2, AtWork DEF ManifestInv, PublishedIsLoaded, MinioTypeOK
<1>8. LoadedIsStaged'
  BY <1>1, <1>2, AtWork DEF ManifestInv, LoadedIsStaged
<1> QED BY <1>3, <1>5, <1>6, <1>7, <1>8, FileTaskKeeps DEF ManifestInv

LEMMA LoseKeeps == ASSUME ManifestInv, LoseWorker PROVE ManifestInv'
<1>1. /\ step \in AtFile /\ step' = "record" /\ loading.file \in files /\ minioFaults' \in 1..MaxMinioFaults
      /\ UNCHANGED <<landing, found, files, loading, broken, published, capped>>
  BY AtWork DEF LoseWorker, MinioFault, AtFile
<1>2. TaskFrame
  BY <1>1, AtWork DEF TaskFrame, landing, FilePhase, AtFile
<1>3. LoadInv' /\ OnItsWay' /\ LoadedIsStaged' /\ PublishedIsLoaded'
  BY <1>1 DEF ManifestInv, LoadInv, OnItsWay, LoadedIsStaged, PublishedIsLoaded, landing, FilePhase, AtFile,
     FirstFiles, Before
<1> QED BY <1>2, <1>3, FileTaskKeeps DEF ManifestInv

\* Giving a file up makes the run one that is not published.
LEMMA RecordKeeps == ASSUME ManifestInv, RecordFailure PROVE ManifestInv'
<1>1. /\ step = "record" /\ step' = "files" /\ loading' = NoTask /\ loading.file \in files
      /\ UNCHANGED <<landing, found, published, capped, minioFaults>>
      /\ UNCHANGED <<files, broken>> \/ (files' = files \ {loading.file} /\ broken' = TRUE)
  BY AtWork DEF RecordFailure, AtFile
<1>2. NoTask \in [file : Files \cup {"none"}, version : 0..MaxVersions]
  BY AtWork DEF NoTask
<1>3. TaskFrame
  BY <1>1, <1>2, AtWork DEF TaskFrame, landing, FilePhase, AtFile
<1>4. LoadInv' /\ OnItsWay' /\ LoadedIsStaged' /\ PublishedIsLoaded'
  BY <1>1 DEF ManifestInv, LoadInv, OnItsWay, LoadedIsStaged, PublishedIsLoaded, landing, FilePhase, AtFile,
     FirstFiles, Before
<1> QED BY <1>3, <1>4, FileTaskKeeps DEF ManifestInv

\* The files of a published run are those of the list, and all are loaded.
LEMMA FilePublishKeeps == ASSUME ManifestInv, PublishMinio PROVE ManifestInv'
<1>1. /\ step = "files" /\ files = {} /\ loading = NoTask /\ step' = "idle" /\ found' = {}
      /\ published' = published \/ (~broken /\ published' = FirstFiles)
      /\ UNCHANGED <<landing, files, loading, broken, capped, minioFaults>>
  BY DEF PublishMinio
<1>2. FirstFiles \subseteq Files /\ (~broken => \A f \in FirstFiles : manifest[f] = "loaded")
  BY <1>1 DEF ManifestInv, MinioTypeOK, LoadInv, FilePhase, FirstFiles
<1>3. MinioTypeOK'
  BY <1>1, <1>2 DEF ManifestInv, MinioTypeOK, landing
<1>4. RunInv' /\ LoadInv' /\ PublishInv' /\ OnItsWay'
  BY <1>1 DEF ManifestInv, RunInv, LoadInv, PublishInv, OnItsWay, landing, FilePhase, AtFile
<1>5. LoadedIsStaged' /\ PublishedIsLoaded'
  BY <1>1, <1>2 DEF ManifestInv, LoadedIsStaged, PublishedIsLoaded, landing
<1> QED BY <1>3, <1>4, <1>5 DEF ManifestInv

LEMMA StepManifest == ManifestInv /\ [MinioNext]_minioVars => ManifestInv'
<1> SUFFICES ASSUME ManifestInv, [MinioNext]_minioVars PROVE ManifestInv'
  OBVIOUS
<1>1. CASE UNCHANGED minioVars
  BY <1>1 DEF minioVars, landing, runVars, ManifestInv, MinioTypeOK, RunInv, LoadInv, PublishInv, OnItsWay,
     LoadedIsStaged, PublishedIsLoaded, FirstFiles, Before, FilePhase, AtFile
<1>2. CASE \E f \in Files : Put(f) \/ StartFile(f)
  BY <1>2, PutKeeps, FileStartKeeps
<1>3. CASE Schedule \/ ListObjects \/ InsertManifest \/ ReturnFiles
  BY <1>3, ScheduleKeeps, ListKeeps, InsertKeeps, ReturnKeeps
<1>4. CASE ReadFile \/ Stage \/ MarkLoaded \/ FinishFile \/ Quarantine
  BY <1>4, ReadKeeps, StageKeeps, FileMarkKeeps, FinishKeeps, QuarantineKeeps
<1>5. CASE LoseWorker \/ RecordFailure \/ PublishMinio
  BY <1>5, LoseKeeps, RecordKeeps, FilePublishKeeps
<1> QED BY <1>1, <1>2, <1>3, <1>4, <1>5 DEF MinioNext, IngestFile

\* The invariant of the ingestion of files.
THEOREM ManifestInductive == MinioSpec => []ManifestInv
BY InitManifest, StepManifest, PTL DEF MinioSpec

\* Every variable holds a value of its kind; in particular a run never has more
\* than max_files_per_run files, though the manifest knows of all it has found.
THEOREM MinioTyping == MinioSpec => []MinioTypeOK
<1>1. ManifestInv => MinioTypeOK
  BY DEF ManifestInv
<1> QED BY <1>1, ManifestInductive, PTL

\* ingest_minio_files_to_raw.py: a file is marked loaded only with its rows in
\* staging, what publish announced stays loaded, and between the runs no known
\* file waits unless the cap or a failure left it behind.
THEOREM ManifestTells == MinioSpec => []ManifestIsTrue
<1>1. ManifestInv => ManifestIsTrue
  BY DEF ManifestInv, ManifestIsTrue, OnItsWay, RunInv, NothingForgotten, FilePhase, AtFile
<1> QED BY <1>1, ManifestInductive, PTL
=============================================================================
