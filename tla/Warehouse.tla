----------------------------- MODULE Warehouse ------------------------------
(***************************************************************************)
(* The warehouse behind the ingestion: the landing of files, the staging   *)
(* and the vault, and the chain of DAGs after it.                          *)
(*                                                                         *)
(* The three meet only in the events of datasets, which each module leaves *)
(* open on its side (a raw dataset is published, the vault is loaded at    *)
(* any time), and share no variable.  So a behaviour follows one of them   *)
(* and the others stay as they are: to interleave them would add states    *)
(* and nothing that one of them can do or see.                             *)
(***************************************************************************)
EXTENDS MinioIngest, StagingVault, DatasetChain

VARIABLE part    \* the module that a behaviour follows

Parts == {"minio", "staging", "chain"}

warehouseVars == <<part, minioVars, stagingVars, chainVars>>

Init == part \in Parts /\ MinioInit /\ StagingInit /\ ChainInit

Next ==
    /\ UNCHANGED part
    /\ \/ part = "minio" /\ MinioNext /\ UNCHANGED <<stagingVars, chainVars>>
       \/ part = "staging" /\ StagingNext /\ UNCHANGED <<minioVars, chainVars>>
       \/ part = "chain" /\ ChainNext /\ UNCHANGED <<minioVars, stagingVars>>

Spec == Init /\ [][Next]_warehouseVars

\* Every variable of the three modules holds a value of its kind; no run has more
\* files than its cap, no DAG more runs than it may have.
TypeOK == part \in Parts /\ MinioTypeOK /\ StagingTypeOK /\ ChainTypeOK
=============================================================================
