----------------------------- MODULE FsBackend -----------------------------
(***************************************************************************)
(* The filesystem backend (storage/fs.rs).  A resource is two files, the     *)
(* body and a JSON sidecar with its content type, and no lock covers them:   *)
(* every system call of put, get, head and delete is one action here.        *)
(*                                                                         *)
(* fs::write opens the file with truncation and then writes it; a file that  *)
(* is unlinked meanwhile keeps its open descriptors but loses its name.      *)
(* File contents are byte sequences, so that two writers of one file leave   *)
(* what the overlapping writes leave.                                        *)
(***************************************************************************)
EXTENDS Integers, Sequences

CONSTANTS
    Clients,     \* concurrent callers
    Keys,        \* paths; each names a body file and a sidecar
    Bodies,      \* bodies, as byte sequences
    Types,       \* content types, as the bytes of their sidecars
    Fallback,    \* the content type of a resource without a readable sidecar
    NoFile, NoEntry, Disturbed,
    MaxOps,      \* bound: operations started
    MaxFaults    \* bound: crashes and failed system calls

ASSUME FsAssumption ==
    /\ MaxOps \in Nat /\ MaxFaults \in Nat
    /\ Bodies \cup Types \subseteq Seq(Nat)
    /\ NoFile \notin Seq(Nat) /\ Fallback \notin Types
    /\ NoEntry \notin [body : Bodies, ctype : Types \cup {Fallback}]

VARIABLES
    body, side,    \* the two files of each key
    pc, op,        \* what each caller is doing
    fd,            \* whether its open file still has its name
    seen,          \* the body it read
    answer,        \* what its last operation returned
    ops, faults,
    before,        \* history: the resource as it was when a put or delete began
    alone,         \* history: no other writer of the key since it began
    known,         \* history: what the last put or delete of each key left,
                   \* Disturbed when it overlapped another one or failed
    serial         \* history: no two operations have overlapped on a key

files == <<body, side>>
history == <<before, alone, known, serial>>
bounds == <<ops, faults>>
vars == <<files, pc, op, fd, seen, answer, bounds, history>>

Entries == [body : Bodies, ctype : Types]
NoOp == [kind |-> "none"]
Ops == [kind : {"get", "head", "delete"}, key : Keys]
       \cup [kind : {"put"}, key : Keys, entry : Entries]
Steps == {"idle", "make_dir", "open_body", "write_body", "open_side",
          "write_side", "read", "stat", "read_side", "unlink", "unlink_side"}

\* Bytes written from the start of a file over what it holds already.
Overwrite(new, old) ==
    [i \in 1..(IF Len(new) > Len(old) THEN Len(new) ELSE Len(old)) |->
        IF i <= Len(new) THEN new[i] ELSE old[i]]

\* serde_json rejects a sidecar that is not one document.
ReadMeta(k) == IF side[k] \in Types THEN side[k] ELSE Fallback

\* The resource a caller alone with it would get.
View(k) == IF body[k] = NoFile THEN NoEntry
           ELSE [body |-> body[k], ctype |-> ReadMeta(k)]

NoAnswer == [res |-> "none", entry |-> NoEntry]
Ok(e) == [res |-> "ok", entry |-> e]
NotFound == [res |-> "not_found", entry |-> NoEntry]
IoError == [res |-> "io_error", entry |-> NoEntry]

Init ==
    /\ body = [k \in Keys |-> NoFile]
    /\ side = [k \in Keys |-> NoFile]
    /\ pc = [c \in Clients |-> "idle"]
    /\ op = [c \in Clients |-> NoOp]
    /\ fd = [c \in Clients |-> FALSE]
    /\ seen = [c \in Clients |-> <<>>]
    /\ answer = [c \in Clients |-> NoAnswer]
    /\ ops = 0 /\ faults = 0
    /\ before = [c \in Clients |-> NoEntry]
    /\ alone = [c \in Clients |-> FALSE]
    /\ known = [k \in Keys |-> NoEntry]
    /\ serial = TRUE

\* The files never hold more than the longest write, and a caller without an
\* operation is idle.
TypeOK ==
    /\ \A k \in Keys : body[k] = NoFile \/ \E b \in Bodies : Len(body[k]) <= Len(b)
    /\ \A k \in Keys : side[k] = NoFile \/ \E t \in Types : Len(side[k]) <= Len(t)
    /\ pc \in [Clients -> Steps]
    /\ op \in [Clients -> Ops \cup {NoOp}]
    /\ \A c \in Clients : pc[c] = "idle" <=> op[c] = NoOp
    /\ fd \in [Clients -> BOOLEAN]
    /\ \A c \in Clients : answer[c].res \in {"none", "ok", "not_found", "io_error"}
    /\ ops \in 0..MaxOps /\ faults \in 0..MaxFaults

----------------------------------------------------------------------------
On(k) == {c \in Clients : pc[c] # "idle" /\ op[c].key = k}
Writing(k) == {c \in On(k) : op[c].kind \in {"put", "delete"}}
First == [put |-> "make_dir", get |-> "read", head |-> "stat",
          delete |-> "unlink"]

Begin(c, o) ==
    /\ pc[c] = "idle" /\ ops < MaxOps
    /\ pc' = [pc EXCEPT ![c] = First[o.kind]]
    /\ op' = [op EXCEPT ![c] = o]
    /\ ops' = ops + 1
    /\ serial' = (serial /\ On(o.key) = {})
    /\ before' = [before EXCEPT ![c] = View(o.key)]
    /\ IF o.kind \in {"put", "delete"}
       THEN /\ known' = [known EXCEPT ![o.key] = Disturbed]
            /\ alone' = [d \in Clients |-> IF d = c THEN Writing(o.key) = {}
                             ELSE alone[d] /\ d \notin Writing(o.key)]
       ELSE UNCHANGED <<known, alone>>
    /\ UNCHANGED <<files, fd, seen, answer, faults>>

Key(c) == op[c].key
At(c, step) == pc[c] = step
Goto(c, step) == pc' = [pc EXCEPT ![c] = step] /\ UNCHANGED <<op, answer, history>>

Return(c, a) ==
    /\ pc' = [pc EXCEPT ![c] = "idle"]
    /\ op' = [op EXCEPT ![c] = NoOp]
    /\ answer' = [answer EXCEPT ![c] = a]
    /\ before' = [before EXCEPT ![c] = NoEntry]
    /\ alone' = [alone EXCEPT ![c] = FALSE]
    /\ known' = IF alone[c] /\ a.res = "ok"
                THEN [known EXCEPT ![Key(c)] = a.entry] ELSE known
    /\ UNCHANGED serial

(* put.                                                                    *)

MakeDir(c) ==
    /\ At(c, "make_dir") /\ Goto(c, "open_body")
    /\ UNCHANGED <<files, fd, seen, bounds>>

\* Mutation of OpenBody: the file is opened without truncation.
OpenBodyKeeping(c) ==
    /\ At(c, "open_body") /\ Goto(c, "write_body")
    /\ body' = [body EXCEPT ![Key(c)] = IF @ = NoFile THEN <<>> ELSE @]
    /\ fd' = [fd EXCEPT ![c] = TRUE]
    /\ UNCHANGED <<side, seen, bounds>>

OpenBody(c) ==
    /\ At(c, "open_body") /\ Goto(c, "write_body")
    /\ body' = [body EXCEPT ![Key(c)] = <<>>]
    /\ fd' = [fd EXCEPT ![c] = TRUE]
    /\ UNCHANGED <<side, seen, bounds>>

WriteBody(c) ==
    /\ At(c, "write_body") /\ Goto(c, "open_side")
    /\ body' = IF fd[c] THEN [body EXCEPT
                   ![Key(c)] = Overwrite(op[c].entry.body, @)] ELSE body
    /\ fd' = [fd EXCEPT ![c] = FALSE]
    /\ UNCHANGED <<side, seen, bounds>>

OpenSide(c) ==
    /\ At(c, "open_side") /\ Goto(c, "write_side")
    /\ side' = [side EXCEPT ![Key(c)] = <<>>]
    /\ fd' = [fd EXCEPT ![c] = TRUE]
    /\ UNCHANGED <<body, seen, bounds>>

\* The metadata returned is that of the arguments, not read back.
WriteSide(c) ==
    /\ At(c, "write_side") /\ Return(c, Ok(op[c].entry))
    /\ side' = IF fd[c] THEN [side EXCEPT
                   ![Key(c)] = Overwrite(op[c].entry.ctype, @)] ELSE side
    /\ fd' = [fd EXCEPT ![c] = FALSE]
    /\ UNCHANGED <<body, seen, bounds>>

(* get reads, then stats; head stats, then reads.  Only the first of the    *)
(* two turns a missing file into NotFound.                                  *)

\* Mutation of Missing: the error kind of the first call is not inspected.
MissingIsIo(c) == IoError

Missing(c) == IF op[c].kind = "get" <=> At(c, "read") THEN NotFound ELSE IoError
Following(c) == IF op[c].kind = "get" <=> At(c, "read")
           THEN (IF At(c, "read") THEN "stat" ELSE "read") ELSE "read_side"

Read(c) ==
    /\ At(c, "read")
    /\ IF body[Key(c)] = NoFile
       THEN Return(c, Missing(c)) /\ UNCHANGED seen
       ELSE Goto(c, Following(c)) /\ seen' = [seen EXCEPT ![c] = body[Key(c)]]
    /\ UNCHANGED <<files, fd, bounds>>

Stat(c) ==
    /\ At(c, "stat")
    /\ IF body[Key(c)] = NoFile THEN Return(c, Missing(c)) ELSE Goto(c, Following(c))
    /\ UNCHANGED <<files, fd, seen, bounds>>

\* read_meta: any failure to read the sidecar means the fallback type.
ReadSide(c) ==
    /\ At(c, "read_side")
    /\ Return(c, Ok([body |-> seen[c], ctype |-> ReadMeta(Key(c))]))
    /\ seen' = [seen EXCEPT ![c] = <<>>]
    /\ UNCHANGED <<files, fd, bounds>>

(* delete.                                                                 *)

\* Writers that have the file open go on writing to a nameless file.
Orphan(k, step) ==
    fd' = [c \in Clients |-> fd[c] /\ ~(At(c, step) /\ Key(c) = k)]

Unlink(c) ==
    /\ At(c, "unlink")
    /\ IF body[Key(c)] = NoFile
       THEN Return(c, NotFound) /\ UNCHANGED <<body, fd>>
       ELSE /\ body' = [body EXCEPT ![Key(c)] = NoFile]
            /\ Orphan(Key(c), "write_body")
            /\ Goto(c, "unlink_side")
    /\ UNCHANGED <<side, seen, bounds>>

\* Whether there was a sidecar to remove is ignored.
UnlinkSide(c) ==
    /\ At(c, "unlink_side")
    /\ side' = [side EXCEPT ![Key(c)] = NoFile]
    /\ Orphan(Key(c), "write_side")
    /\ Return(c, Ok(NoEntry))
    /\ UNCHANGED <<body, seen, bounds>>

(* Faults.                                                                 *)

\* A system call of put fails (disk full, no permission): `?` returns.
PutFails(c) ==
    /\ pc[c] \in {"make_dir", "open_body", "write_body", "open_side", "write_side"}
    /\ faults < MaxFaults /\ faults' = faults + 1
    /\ Return(c, IoError)
    /\ fd' = [fd EXCEPT ![c] = FALSE]
    /\ UNCHANGED <<files, seen, ops>>

\* The process dies: the files stay as they are.
Crash ==
    /\ faults < MaxFaults /\ faults' = faults + 1
    /\ pc' = [c \in Clients |-> "idle"]
    /\ op' = [c \in Clients |-> NoOp]
    /\ fd' = [c \in Clients |-> FALSE]
    /\ seen' = [c \in Clients |-> <<>>]
    /\ answer' = [c \in Clients |-> NoAnswer]
    /\ before' = [c \in Clients |-> NoEntry]
    /\ alone' = [c \in Clients |-> FALSE]
    /\ UNCHANGED <<files, ops, known, serial>>

Next ==
    \/ \E c \in Clients :
          \/ \E o \in Ops : Begin(c, o)
          \/ MakeDir(c) \/ OpenBody(c) \/ WriteBody(c)
          \/ OpenSide(c) \/ WriteSide(c)
          \/ Read(c) \/ Stat(c) \/ ReadSide(c)
          \/ Unlink(c) \/ UnlinkSide(c)
          \/ PutFails(c)
    \/ Crash

Spec == Init /\ [][Next]_vars

----------------------------------------------------------------------------
(* Properties.                                                             *)

\* Whatever overlapping writers, failed calls and crashes left behind, one
\* put or delete that no other writer overlaps repairs the resource: what it
\* stored, body and content type, is what a reader finds until the next
\* writer begins.
UndisturbedWriteHolds == TypeOK /\
    \A k \in Keys : known[k] # Disturbed => View(k) = known[k]

\* Until a put or delete returns, the resource is what it was when it began.
Data == [k \in Keys |-> IF Writing(k) = {} THEN View(k)
                        ELSE before[CHOOSE c \in Writing(k) : TRUE]]

Contract == INSTANCE ResourceStore WITH data <- Data

\* The backend implements the contract of the trait for as long as no two
\* calls have overlapped on one key and no system call or process has failed.
ImplementsContract ==
    /\ Contract!Init
    /\ [][serial' /\ faults' = 0 => Contract!Next]_<<Data, answer>>

\* storage-abstraction.md: "Either get returns the old state or the new
\* state. No half-written bodies, no mismatched ResourceMeta."  Whatever an
\* operation answers is at least a whole body with a whole content type.
PutAtomic ==
    \A c \in Clients : answer[c].res = "ok" =>
        answer[c].entry \in Entries \cup {NoEntry}
=============================================================================
