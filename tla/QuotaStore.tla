----------------------------- MODULE QuotaStore -----------------------------
(***************************************************************************)
(* The per-pod quota kept in a sidecar file (FsQuotaStore in quota/mod.rs),   *)
(* and the writers that call check, store bytes and call record.  Files are   *)
(* counted in units; a temporary file that has been written is one unit.      *)
(***************************************************************************)
EXTENDS Chains

CONSTANTS
    QuotaTasks,      \* operations that can be in flight together
    DefaultLimit,    \* limit of a pod whose sidecar has none; 0: no cap
    MaxUnits,        \* bound: units on disk
    MaxQuotaOps,     \* bound: operations
    MaxQuotaCrashes  \* bound: restarts

ASSUME QuotaAssumption == {DefaultLimit, MaxUnits, MaxQuotaOps, MaxQuotaCrashes} \subseteq Nat

VARIABLES
    quotaTask,     \* task -> what it is doing
    sidecar,       \* .quota.json: absent, or [used, limit]
    tmpFiles,      \* .quota.json.tmp-<pid>-<nanos>: records [name, full]
    disk,          \* units of the pod's own files
    quotaOps, quotaCrashes,
    quotaExact     \* history: nothing raced, failed or crashed since a reconcile

quotaVars == <<quotaTask, sidecar, tmpFiles, disk, quotaOps, quotaCrashes, quotaExact>>

NoOp == [at |-> "idle"]
Quiet == \A w \in QuotaTasks : quotaTask[w].at = "idle"

QuotaInit ==
    /\ quotaTask = [w \in QuotaTasks |-> NoOp]
    /\ sidecar \in {None, Some([used |-> 0, limit |-> 0]), Some([used |-> 0, limit |-> 1])}
    /\ tmpFiles = {} /\ disk = 0 /\ quotaOps = 0 /\ quotaCrashes = 0
    /\ quotaExact = TRUE

\* effective: the default when there is no sidecar or it has no limit
Effective ==
    IF sidecar = None THEN [used |-> 0, limit |-> DefaultLimit]
    ELSE LET u == TheOne(sidecar)
         IN  IF u.limit = 0 THEN [u EXCEPT !.limit = DefaultLimit] ELSE u

\* check
QuotaAllows(delta) ==
    \/ delta = 0
    \/ Effective.limit = 0
    \/ Effective.used + delta <= Effective.limit

Begin(w, op) ==
    /\ quotaTask[w].at = "idle" /\ quotaOps < MaxQuotaOps
    /\ quotaTask' = [quotaTask EXCEPT ![w] = op]
    /\ quotaOps' = quotaOps + 1

----------------------------------------------------------------------------
(* A writer: check, store or delete, record.                               *)

QuotaCheck(w, delta) ==
    /\ Begin(w, [at |-> "store", delta |-> delta])
    /\ delta > 0 => QuotaAllows(delta)
    /\ quotaExact' = (quotaExact /\ Quiet)
    /\ UNCHANGED <<sidecar, tmpFiles, disk, quotaCrashes>>

\* the storage operation between check and record; record is not called when
\* it fails
QuotaWrite(w) ==
    LET ok == disk + quotaTask[w].delta \in 0..MaxUnits IN
    /\ quotaTask[w].at = "store"
    /\ disk' = IF ok THEN disk + quotaTask[w].delta ELSE disk
    /\ quotaTask' = [quotaTask EXCEPT ![w] = IF ok THEN [@ EXCEPT !.at = "record"] ELSE NoOp]
    /\ UNCHANGED <<sidecar, tmpFiles, quotaOps, quotaCrashes, quotaExact>>

\* record: reads the sidecar and adds; a shrinking count stops at zero
RecordRead(w) ==
    LET sum == Effective.used + quotaTask[w].delta IN
    /\ quotaTask[w].at = "record"
    /\ quotaTask' = [quotaTask EXCEPT ![w] =
           [at |-> "open", use |-> [used |-> IF sum < 0 THEN 0 ELSE sum, limit |-> Effective.limit]]]
    /\ UNCHANGED <<sidecar, tmpFiles, disk, quotaOps, quotaCrashes, quotaExact>>

----------------------------------------------------------------------------
(* write_sidecar: a temporary file of a fresh name, then a rename.  The name   *)
(* is the task's and the process's; a restart leaves the files as orphans.    *)

TmpName(w) == <<w, quotaCrashes>>

TmpOpen(w) ==
    /\ quotaTask[w].at = "open"
    /\ tmpFiles' = tmpFiles \cup {[name |-> TmpName(w), full |-> FALSE]}
    /\ quotaTask' = [quotaTask EXCEPT ![w].at = "fill"]
    /\ UNCHANGED <<sidecar, disk, quotaOps, quotaCrashes, quotaExact>>

\* a file that was swept meanwhile has no name any more but can be written
TmpFill(w) ==
    LET mine == [name |-> TmpName(w), full |-> FALSE] IN
    /\ quotaTask[w].at = "fill"
    /\ tmpFiles' = IF mine \in tmpFiles
                   THEN (tmpFiles \ {mine}) \cup {[mine EXCEPT !.full = TRUE]} ELSE tmpFiles
    /\ quotaTask' = [quotaTask EXCEPT ![w].at = "rename"]
    /\ UNCHANGED <<sidecar, disk, quotaOps, quotaCrashes, quotaExact>>

\* the write fails: the temporary file is removed and the error swallowed
TmpFails(w) ==
    /\ quotaTask[w].at = "fill"
    /\ tmpFiles' = {f \in tmpFiles : f.name # TmpName(w)}
    /\ quotaTask' = [quotaTask EXCEPT ![w] = NoOp]
    /\ quotaExact' = FALSE
    /\ UNCHANGED <<sidecar, disk, quotaOps, quotaCrashes>>

\* rename is atomic and fails when the file is gone
Rename(w) ==
    LET mine == {f \in tmpFiles : f.name = TmpName(w)} IN
    /\ quotaTask[w].at = "rename"
    /\ sidecar' = IF mine # {} THEN Some(quotaTask[w].use) ELSE sidecar
    /\ tmpFiles' = tmpFiles \ mine
    /\ quotaTask' = [quotaTask EXCEPT ![w] = NoOp]
    /\ UNCHANGED <<disk, quotaOps, quotaCrashes, quotaExact>>

----------------------------------------------------------------------------
(* reconcile: sweep_quota_orphans, dir_size, read_sidecar, write_sidecar.     *)

Reconcile(w) ==
    /\ Begin(w, [at |-> "sweep", todo |-> tmpFiles, alone |-> Quiet])
    /\ quotaExact' = (quotaExact /\ Quiet)
    /\ UNCHANGED <<sidecar, tmpFiles, disk, quotaCrashes>>

\* Mutation of Sweep: orphans are left where they are.
SweepNothing(w) ==
    /\ quotaTask[w].at = "sweep"
    /\ quotaTask' = [quotaTask EXCEPT ![w] = [at |-> "scan", alone |-> quotaTask[w].alone]]
    /\ UNCHANGED <<sidecar, tmpFiles, disk, quotaOps, quotaCrashes, quotaExact>>
\* One directory entry after the other, also those of writers at work.
Sweep(w) ==
    LET todo == quotaTask[w].todo IN
    /\ quotaTask[w].at = "sweep"
    /\ \/ \E f \in todo :
              /\ tmpFiles' = {g \in tmpFiles : g.name # f.name}
              /\ quotaTask' = [quotaTask EXCEPT ![w].todo = todo \ {f}]
       \/ /\ todo = {}
          /\ quotaTask' = [quotaTask EXCEPT ![w] = [at |-> "scan", alone |-> quotaTask[w].alone]]
          /\ UNCHANGED tmpFiles
    /\ UNCHANGED <<sidecar, disk, quotaOps, quotaCrashes, quotaExact>>

\* dir_size leaves out .quota.json but not temporary files.  The walk is one step:
\* files have no names here, and what another task changes during it is a race,
\* after which the count is not claimed to be exact.  An undisturbed reconcile
\* makes it exact again.
Scan(w) ==
    LET total == disk + Cardinality({f \in tmpFiles : f.full}) IN
    /\ quotaTask[w].at = "scan"
    /\ quotaTask' = [quotaTask EXCEPT ![w] = [at |-> "limit", total |-> total]]
    /\ quotaExact' = (quotaExact \/ (quotaTask[w].alone /\
           \A v \in QuotaTasks \ {w} : quotaTask[v].at = "idle"))
    /\ UNCHANGED <<sidecar, tmpFiles, disk, quotaOps, quotaCrashes>>

\* read_sidecar, after the walk: the limit is kept
ReadLimit(w) ==
    /\ quotaTask[w].at = "limit"
    /\ quotaTask' = [quotaTask EXCEPT ![w] =
           [at |-> "open", use |-> [used |-> quotaTask[w].total, limit |-> Effective.limit]]]
    /\ UNCHANGED <<sidecar, tmpFiles, disk, quotaOps, quotaCrashes, quotaExact>>

\* the walk or the read fails and reconcile returns the error
ReconcileFails(w) ==
    /\ quotaTask[w].at \in {"scan", "limit"}
    /\ quotaTask' = [quotaTask EXCEPT ![w] = NoOp]
    /\ quotaExact' = FALSE
    /\ UNCHANGED <<sidecar, tmpFiles, disk, quotaOps, quotaCrashes>>

----------------------------------------------------------------------------

\* the process restarts: operations are gone, temporary files stay
QuotaCrash ==
    /\ quotaCrashes < MaxQuotaCrashes /\ ~Quiet
    /\ quotaCrashes' = quotaCrashes + 1
    /\ quotaTask' = [w \in QuotaTasks |-> NoOp]
    /\ quotaExact' = FALSE
    /\ UNCHANGED <<sidecar, tmpFiles, disk, quotaOps>>

QuotaNext ==
    \/ \E w \in QuotaTasks :
           \/ \E d \in {1, -1} : QuotaCheck(w, d)
           \/ QuotaWrite(w) \/ RecordRead(w) \/ Reconcile(w) \/ Sweep(w)
           \/ Scan(w) \/ ReadLimit(w) \/ ReconcileFails(w)
           \/ TmpOpen(w) \/ TmpFill(w) \/ TmpFails(w) \/ Rename(w)
    \/ QuotaCrash

----------------------------------------------------------------------------

\* record reads and writes the sidecar without a lock, reconcile sweeps the
\* files of writers at work, and a crash leaves orphans: the count may drift.
\* But it is what is on disk whenever nothing is in flight and, since the start
\* or the last reconcile that ran alone, nothing raced, failed or crashed.
QuotaConverges ==
    (Quiet /\ quotaExact) => Effective.used = disk
=============================================================================
