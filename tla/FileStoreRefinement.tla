------------------------ MODULE FileStoreRefinement ------------------------
(***************************************************************************)
(* One process whose system calls do not fail is an AtomicStore.  A call   *)
(* takes effect when its updates are decided under the mutex: from then on *)
(* nobody can look at the files until the last of them is made.            *)
(***************************************************************************)
EXTENDS FileStore

SetsOf(i) == [k \in Kinds |-> Range(i[k])]

ImageOf(i) == IF i = Garbage THEN Garbage ELSE SetsOf(i)

StatusOf(t) ==
    IF pc[t] = "idle" THEN "idle"
    ELSE IF pc[t] \in {"steps", "write", "sync", "truncate", "dump"} THEN "applied"
    ELSE "called"

(* A Backup has its image only once it has read the fourth file.           *)
TakenImage(t) ==
    IF pc[t] \in {"readPromotions", "readRevocations", "readQuarantines"}
    THEN Garbage ELSE ImageOf(snap[t])

(* The variables of AtomicStore.                                           *)
Database == [k \in Kinds |-> Effective(k)]
Status   == [t \in Threads |-> StatusOf(t)]
Taken    == [t \in Threads |-> TakenImage(t)]

Abstract == INSTANCE AtomicStore
    WITH NoImage <- Garbage,
         db      <- Database,
         archive <- ImageOf(backup),
         status  <- Status,
         image   <- Taken

ASSUME RefinementAssumption == Garbage \notin Abstract!DBs

(* Without faults and in one process every operation is atomic, and does   *)
(* what the Store interface promises.                                      *)
ImplementsAtomicStore == Abstract!Spec
=============================================================================
