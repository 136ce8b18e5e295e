----------------------------- MODULE Directory ------------------------------
(***************************************************************************)
(* The files of the database, DB_FILE_PATH.  A file is named by a counter  *)
(* and its extensions:                                                     *)
(*                                                                         *)
(*     project_db_<n>.sst         an SSTable                               *)
(*     project_db_<n>.sst.ip      one a flush job is writing               *)
(*     project_db_<n>.sst.merged  one the compaction job wrote             *)
(*     project_db_<n>.txl         a transaction log                        *)
(*     ....deprecated             a file whose contents are not needed     *)
(*                                                                         *)
(* Nothing ever reads a .deprecated file, so of those only the names are   *)
(* kept.  A file still being written is an EmptyTable: what is in it is of *)
(* no use to anyone.                                                       *)
(***************************************************************************)
EXTENDS Tables

VARIABLES
    sst,         \* the .sst files: counter |-> table
    inProgress,  \* the .sst.ip files: counter |-> table
    merged,      \* the .sst.merged files: counter |-> table
    txl,         \* the .txl files: counter |-> records
    deprecated   \* the names that end in .deprecated

IsFiles(f, Contents) == DOMAIN f \subseteq Nat /\ f \in [DOMAIN f -> Contents]

DirectoryTypeOK ==
    /\ IsFiles(sst, TableSet)
    /\ IsFiles(inProgress, TableSet)
    /\ IsFiles(merged, TableSet)
    /\ IsFiles(txl, Seq(Records))
    /\ deprecated \subseteq {"sst", "txl"} \X Nat

EmptyDirectory ==
    /\ sst = [n \in {} |-> EmptyTable]
    /\ inProgress = [n \in {} |-> EmptyTable]
    /\ merged = [n \in {} |-> EmptyTable]
    /\ txl = [n \in {} |-> <<>>]
    /\ deprecated = {}

\* getFileStream with ios_base::app: creates the file unless it is there.
OpenLog(n) == txl' = Put(txl, n, IF n \in DOMAIN txl THEN txl[n] ELSE <<>>)

\* removeExtAndRename of a .ip and of a .merged file.
ActivateInProgress(n) ==
    /\ n \in DOMAIN inProgress
    /\ sst' = Put(sst, n, inProgress[n])
    /\ inProgress' = Without(inProgress, n)

ActivateMerged(n) ==
    /\ n \in DOMAIN merged
    /\ sst' = Put(sst, n, merged[n])
    /\ merged' = Without(merged, n)

\* markFileAsDeprecated of an SSTable and of a transaction log.
DeprecateSSTable(n) ==
    /\ n \in DOMAIN sst
    /\ sst' = Without(sst, n)
    /\ deprecated' = deprecated \cup {<<"sst", n>>}

DeprecateLog(n) ==
    /\ n \in DOMAIN txl
    /\ txl' = Without(txl, n)
    /\ deprecated' = deprecated \cup {<<"txl", n>>}

\* removeFilesWithExt(DEPRECATED_FILE_EXT).
RemoveDeprecated == deprecated' = {}
=============================================================================
