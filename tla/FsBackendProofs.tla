-------------------------- MODULE FsBackendProofs --------------------------
(***************************************************************************)
(* Proofs about FsBackend, for any number of callers, paths, bodies, content *)
(* types and faults: what an undisturbed writer leaves, and that the backend *)
(* implements ResourceStore while calls on one path do not overlap.          *)
(***************************************************************************)
EXTENDS FsBackend, SequenceTheorems, TLAPS

Contents == Seq(Nat) \cup {NoFile}
PutSteps == {"make_dir", "open_body", "write_body", "open_side", "write_side"}
ReadSteps == {"read", "stat", "read_side"}
DeleteSteps == {"unlink", "unlink_side"}

Views == [body : Seq(Nat), ctype : Types \cup {Fallback}] \cup {NoEntry}
Replies == [res : {"none", "ok", "not_found", "io_error"}, entry : Views]

StateTypes ==
    /\ body \in [Keys -> Contents] /\ side \in [Keys -> Contents]
    /\ alone \in [Clients -> BOOLEAN] /\ serial \in BOOLEAN
    /\ known \in [Keys -> Entries \cup {NoEntry, Disturbed}]
    /\ seen \in [Clients -> Seq(Nat)]
    /\ answer \in [Clients -> Replies]
    /\ before \in [Clients -> Views]

\* A caller is at a step of the operation it runs.
StepsMatchOps ==
    \A c \in Clients :
        /\ pc[c] \in PutSteps => op[c].kind = "put"
        /\ pc[c] \in DeleteSteps => op[c].kind = "delete"
        /\ pc[c] \in ReadSteps => op[c].kind \in {"get", "head"}

\* An open file that still has its name is there.
OpenFilesExist ==
    \A c \in Clients : fd[c] =>
        \/ pc[c] = "write_body" /\ body[Key(c)] # NoFile
        \/ pc[c] = "write_side" /\ side[Key(c)] # NoFile

\* A writer that is alone is the only one at its resource, and what it wrote
\* so far is what the files hold.
AloneIsOnly ==
    \A c \in Clients : alone[c] => pc[c] # "idle" /\ Writing(Key(c)) = {c}

AloneProgress ==
    \A c \in Clients : alone[c] =>
        /\ pc[c] = "write_body" => fd[c] /\ body[Key(c)] = <<>>
        /\ pc[c] = "open_side" => body[Key(c)] = op[c].entry.body
        /\ pc[c] = "write_side" => /\ fd[c] /\ side[Key(c)] = <<>>
                                   /\ body[Key(c)] = op[c].entry.body
        /\ pc[c] = "unlink_side" => body[Key(c)] = NoFile

\* A resource whose last writer was undisturbed has no writer at work.
KnownIsQuiet ==
    \A k \in Keys : known[k] # Disturbed => Writing(k) = {} /\ View(k) = known[k]

FsInv ==
    /\ TypeOK /\ StateTypes /\ StepsMatchOps /\ OpenFilesExist
    /\ AloneIsOnly /\ AloneProgress /\ KnownIsQuiet

\* Without overlap and without faults ...
Calm == serial /\ faults = 0

\* ... a resource has one caller at a time, a writer is alone,
OneCaller ==
    serial => /\ \A k \in Keys : \A c, d \in On(k) : c = d
              /\ \A c \in Clients : pc[c] \in PutSteps \cup DeleteSteps => alone[c]

\* its body is whole whenever nobody writes it,
WholeBodies ==
    Calm => \A k \in Keys : Writing(k) = {} => body[k] \in Bodies \cup {NoFile}

\* a delete knows whether there was something to delete,
DeletesKnow ==
    Calm => \A c \in Clients :
        /\ pc[c] = "unlink" => /\ before[c] = View(Key(c))
                               /\ body[Key(c)] \in Bodies \cup {NoFile}
        /\ pc[c] = "unlink_side" => before[c] # NoEntry

\* and a reader past its first call has seen the body that is there.
ReadersSee ==
    Calm => \A c \in Clients :
        /\ (pc[c] = "stat" /\ op[c].kind = "get") =>
              seen[c] = body[Key(c)] /\ body[Key(c)] # NoFile
        /\ (pc[c] = "read" /\ op[c].kind = "head") => body[Key(c)] # NoFile
        /\ pc[c] = "read_side" => seen[c] = body[Key(c)] /\ body[Key(c)] # NoFile

SerialInv == FsInv /\ OneCaller /\ WholeBodies /\ DeletesKnow /\ ReadersSee

LEMMA OverwriteBytes ==
  ASSUME NEW new \in Seq(Nat), NEW old \in Seq(Nat)
  PROVE  /\ Overwrite(new, old) \in Seq(Nat)
         /\ Len(Overwrite(new, old)) = IF Len(new) > Len(old) THEN Len(new) ELSE Len(old)
<1> DEFINE n == IF Len(new) > Len(old) THEN Len(new) ELSE Len(old)
<1>1. n \in Nat
  OBVIOUS
<1>2. \A i \in 1..n : (IF i <= Len(new) THEN new[i] ELSE old[i]) \in Nat
  OBVIOUS
<1>3. Overwrite(new, old) = [i \in 1..n |-> IF i <= Len(new) THEN new[i] ELSE old[i]]
  BY DEF Overwrite
<1> HIDE DEF n
<1>4. Overwrite(new, old) \in [1..n -> Nat]
  BY <1>2, <1>3
<1>5. Overwrite(new, old) \in Seq(Nat)
  BY <1>1, <1>4
<1>6. Len(Overwrite(new, old)) = n
  BY <1>1, <1>4, <1>5, LenProperties
<1> QED
  BY <1>5, <1>6 DEF n

\* What is written to a file that was just truncated is what the file holds.
LEMMA OverwriteEmpty ==
  ASSUME NEW new \in Seq(Nat)
  PROVE  Overwrite(new, <<>>) = new
<1>1. <<>> \in Seq(Nat) /\ Len(<<>>) = 0 /\ Len(new) \in Nat
  OBVIOUS
<1> DEFINE old == <<>>
<1>a. old \in Seq(Nat) /\ Len(old) = 0
  BY <1>1
<1> HIDE DEF old
<1>b. Overwrite(new, old) \in Seq(Nat) /\ Len(Overwrite(new, old)) = IF Len(new) > 0 THEN Len(new) ELSE 0
  BY <1>a, OverwriteBytes
<1>2. Overwrite(new, <<>>) \in Seq(Nat) /\ Len(Overwrite(new, <<>>)) = Len(new)
  BY <1>1, <1>b DEF old
<1>3. \A i \in 1..Len(new) : Overwrite(new, <<>>)[i] = new[i]
  BY <1>1 DEF Overwrite
<1> QED
  BY <1>2, <1>3, SeqEqual

\* A caller at work has an operation, and a put carries an entry.
LEMMA OpTypes ==
  ASSUME FsInv
  PROVE  /\ \A c \in Clients : pc[c] # "idle" => op[c] \in Ops /\ Key(c) \in Keys
         /\ \A c \in Clients : pc[c] \in PutSteps =>
               /\ op[c].entry \in Entries
               /\ op[c].entry.body \in Bodies /\ op[c].entry.ctype \in Types
               /\ op[c].entry = [body |-> op[c].entry.body, ctype |-> op[c].entry.ctype]
               /\ op[c].entry \in Views
<1>1. \A c \in Clients : pc[c] # "idle" => op[c] \in Ops /\ Key(c) \in Keys
  BY DEF FsInv, TypeOK, Ops, Key
<1>2. ASSUME NEW c \in Clients, pc[c] \in PutSteps
      PROVE  /\ op[c].entry \in Entries
             /\ op[c].entry.body \in Bodies /\ op[c].entry.ctype \in Types
             /\ op[c].entry = [body |-> op[c].entry.body, ctype |-> op[c].entry.ctype]
             /\ op[c].entry \in Views
  <2>1. op[c] \in Ops /\ op[c].kind = "put"
    BY <1>1, <1>2 DEF PutSteps, FsInv, StepsMatchOps
  <2>2. op[c].entry \in Entries
    BY <2>1 DEF Ops
  <2> QED
    BY <2>2, FsAssumption DEF Entries, Views
<1> QED
  BY <1>1, <1>2

LEMMA ViewTypes ==
  ASSUME FsInv, NEW k \in Keys
  PROVE  View(k) \in Views /\ ReadMeta(k) \in Types \cup {Fallback}
<1>1. ReadMeta(k) \in Types \cup {Fallback}
  BY DEF ReadMeta
<1>2. body[k] = NoFile \/ body[k] \in Seq(Nat)
  BY DEF FsInv, StateTypes, Contents
<1> QED
  BY <1>1, <1>2 DEF View, Views

LEMMA FirstStep ==
  ASSUME NEW o \in Ops
  PROVE  /\ o.key \in Keys /\ o # NoOp
         /\ \/ o.kind = "put" /\ First[o.kind] = "make_dir"
            \/ o.kind = "delete" /\ First[o.kind] = "unlink"
            \/ o.kind = "get" /\ First[o.kind] = "read"
            \/ o.kind = "head" /\ First[o.kind] = "stat"
<1>1. o.key \in Keys /\ o.kind \in {"put", "get", "head", "delete"}
  BY DEF Ops
<1>2. o # NoOp
  BY <1>1 DEF NoOp
<1> QED
  BY <1>1, <1>2 DEF First

\* The types of what Return and Goto change.
CallTypes ==
    /\ pc \in [Clients -> Steps] /\ op \in [Clients -> Ops \cup {NoOp}]
    /\ \A c \in Clients : pc[c] = "idle" <=> op[c] = NoOp
    /\ \A c \in Clients : answer[c].res \in {"none", "ok", "not_found", "io_error"}
    /\ alone \in [Clients -> BOOLEAN] /\ serial \in BOOLEAN
    /\ known \in [Keys -> Entries \cup {NoEntry, Disturbed}]
    /\ answer \in [Clients -> Replies] /\ before \in [Clients -> Views]

LEMMA ReturnTypes ==
  ASSUME FsInv, NEW c \in Clients, pc[c] # "idle", NEW a \in Replies, Return(c, a),
         alone[c] /\ a.res = "ok" => a.entry \in Entries \cup {NoEntry}
  PROVE  CallTypes'
<1> USE DEF FsInv, TypeOK, StateTypes
<1>1. Key(c) \in Keys /\ NoEntry \in Views
  BY OpTypes DEF Views
<1>2. pc' \in [Clients -> Steps] /\ op' \in [Clients -> Ops \cup {NoOp}]
  BY DEF Return, Steps
<1>3. \A d \in Clients : pc'[d] = "idle" <=> op'[d] = NoOp
  BY DEF Return
<1>4. answer' \in [Clients -> Replies] /\ before' \in [Clients -> Views]
  BY <1>1 DEF Return
<1>5. \A d \in Clients : answer'[d].res \in {"none", "ok", "not_found", "io_error"}
  BY <1>4 DEF Replies
<1>6. alone' \in [Clients -> BOOLEAN] /\ serial' \in BOOLEAN
  BY DEF Return
<1>7. known' \in [Keys -> Entries \cup {NoEntry, Disturbed}]
  BY <1>1 DEF Return
<1> QED
  BY <1>2, <1>3, <1>4, <1>5, <1>6, <1>7 DEF CallTypes

LEMMA GotoTypes ==
  ASSUME FsInv, NEW c \in Clients, pc[c] # "idle", NEW t \in Steps, t # "idle", Goto(c, t)
  PROVE  CallTypes'
<1>1. \A d \in Clients : pc'[d] = "idle" <=> op'[d] = NoOp
  BY DEF FsInv, TypeOK, Goto
<1> QED
  BY <1>1 DEF FsInv, TypeOK, StateTypes, CallTypes, Goto, history

\* What the files of a path are for the type invariant.
FilesFit(b, s) ==
    /\ b \in [Keys -> Contents] /\ s \in [Keys -> Contents]
    /\ \A k \in Keys : b[k] = NoFile \/ \E x \in Bodies : Len(b[k]) <= Len(x)
    /\ \A k \in Keys : s[k] = NoFile \/ \E t \in Types : Len(s[k]) <= Len(t)

\* A write that starts at the beginning of a file makes it no longer than the
\* longest write.
LEMMA FilesPreserved ==
  ASSUME FsInv, NEW c \in Clients,
         \/ OpenBody(c) \/ WriteBody(c) \/ OpenSide(c) \/ WriteSide(c) \/ Unlink(c) \/ UnlinkSide(c)
  PROVE  FilesFit(body', side')
<1> USE DEF FsInv, TypeOK, StateTypes, FilesFit
<1>a. pc[c] # "idle"
  BY DEF OpenBody, WriteBody, OpenSide, WriteSide, Unlink, UnlinkSide, At
<1>b. Key(c) \in Keys /\ (pc[c] \in PutSteps => op[c].entry.body \in Bodies /\ op[c].entry.ctype \in Types)
  BY <1>a, OpTypes
<1>c. /\ \A b \in Seq(Nat) : Len(b) \in Nat
      /\ <<>> \in Contents /\ NoFile \in Contents /\ Len(<<>>) = 0 /\ Seq(Nat) \subseteq Contents
      /\ Bodies \subseteq Seq(Nat) /\ Types \subseteq Seq(Nat)
  BY FsAssumption DEF Contents
<1>0. /\ Key(c) \in Keys
      /\ pc[c] \in PutSteps =>
            /\ op[c].entry.body \in Bodies /\ op[c].entry.ctype \in Types
            /\ op[c].entry.body \in Seq(Nat) /\ op[c].entry.ctype \in Seq(Nat)
      /\ \A b \in Seq(Nat) : Len(b) \in Nat
      /\ <<>> \in Contents /\ NoFile \in Contents /\ Len(<<>>) = 0 /\ Seq(Nat) \subseteq Contents
      /\ Bodies \subseteq Seq(Nat) /\ Types \subseteq Seq(Nat)
  BY <1>b, <1>c
<1>1. CASE OpenBody(c)
  <2>1. pc[c] \in PutSteps
    BY <1>1 DEF OpenBody, At, PutSteps
  <2>2. Len(<<>>) <= Len(op[c].entry.body)
    BY <1>0, <2>1
  <2> QED
    BY <1>0, <1>1, <2>1, <2>2 DEF OpenBody
<1>2. CASE WriteBody(c)
  <2>1. pc[c] \in PutSteps /\ pc[c] = "write_body"
    BY <1>2 DEF WriteBody, At, PutSteps
  <2>2. CASE ~fd[c]
    BY <1>2, <2>2 DEF WriteBody
  <2>3. CASE fd[c]
    <3> DEFINE new == op[c].entry.body  old == body[Key(c)]
    <3>1. new \in Seq(Nat) /\ old \in Seq(Nat) /\ new \in Bodies
      BY <1>0, <2>1, <2>3 DEF OpenFilesExist, Contents
    <3>2. \E x \in Bodies : Len(old) <= Len(x)
      BY <1>0, <3>1, FsAssumption
    <3>3. body' = [body EXCEPT ![Key(c)] = Overwrite(new, old)] /\ side' = side
      BY <1>2, <2>3 DEF WriteBody
    <3> HIDE DEF new, old
    <3>4. /\ Overwrite(new, old) \in Seq(Nat)
          /\ Len(Overwrite(new, old)) = IF Len(new) > Len(old) THEN Len(new) ELSE Len(old)
      BY <3>1, OverwriteBytes
    <3>5. \E x \in Bodies : Len(Overwrite(new, old)) <= Len(x)
      BY <1>0, <3>1, <3>2, <3>4
    <3> QED
      BY <1>0, <3>3, <3>4, <3>5
  <2> QED
    BY <2>2, <2>3
<1>3. CASE OpenSide(c)
  <2>1. pc[c] \in PutSteps
    BY <1>3 DEF OpenSide, At, PutSteps
  <2>2. Len(<<>>) <= Len(op[c].entry.ctype)
    BY <1>0, <2>1
  <2> QED
    BY <1>0, <1>3, <2>1, <2>2 DEF OpenSide
<1>4. CASE WriteSide(c)
  <2>1. pc[c] \in PutSteps /\ pc[c] = "write_side"
    BY <1>4 DEF WriteSide, At, PutSteps
  <2>2. CASE ~fd[c]
    BY <1>4, <2>2 DEF WriteSide
  <2>3. CASE fd[c]
    <3> DEFINE new == op[c].entry.ctype  old == side[Key(c)]
    <3>1. new \in Seq(Nat) /\ old \in Seq(Nat) /\ new \in Types
      BY <1>0, <2>1, <2>3 DEF OpenFilesExist, Contents
    <3>2. \E x \in Types : Len(old) <= Len(x)
      BY <1>0, <3>1, FsAssumption
    <3>3. side' = [side EXCEPT ![Key(c)] = Overwrite(new, old)] /\ body' = body
      BY <1>4, <2>3 DEF WriteSide
    <3> HIDE DEF new, old
    <3>4. /\ Overwrite(new, old) \in Seq(Nat)
          /\ Len(Overwrite(new, old)) = IF Len(new) > Len(old) THEN Len(new) ELSE Len(old)
      BY <3>1, OverwriteBytes
    <3>5. \E x \in Types : Len(Overwrite(new, old)) <= Len(x)
      BY <1>0, <3>1, <3>2, <3>4
    <3> QED
      BY <1>0, <3>3, <3>4, <3>5
  <2> QED
    BY <2>2, <2>3
<1>5. CASE Unlink(c)
  BY <1>0, <1>5 DEF Unlink
<1>6. CASE UnlinkSide(c)
  BY <1>0, <1>6 DEF UnlinkSide
<1> QED
  BY <1>1, <1>2, <1>3, <1>4, <1>5, <1>6

\* Every action keeps the types.
LEMMA TypesPreserved == FsInv /\ [Next]_vars => TypeOK' /\ StateTypes'
<1> SUFFICES ASSUME FsInv, [Next]_vars PROVE TypeOK' /\ StateTypes'
  OBVIOUS
<1> DEFINE Rest == /\ fd \in [Clients -> BOOLEAN] /\ seen \in [Clients -> Seq(Nat)]
                   /\ ops \in 0..MaxOps /\ faults \in 0..MaxFaults
<1>1. CallTypes /\ FilesFit(body, side) /\ Rest
  BY DEF FsInv, TypeOK, StateTypes, CallTypes, FilesFit
<1>2. CallTypes' /\ FilesFit(body', side') /\ Rest' => TypeOK' /\ StateTypes'
  BY DEF TypeOK, StateTypes, CallTypes, FilesFit
<1>3. /\ \A c \in Clients : pc[c] # "idle" => Key(c) \in Keys
      /\ \A k \in Keys : ReadMeta(k) \in Types \cup {Fallback}
      /\ \A k \in Keys : View(k) \in Views
  BY OpTypes, ViewTypes
<1>4. ASSUME NEW c \in Clients, NEW o \in Ops, Begin(c, o) PROVE CallTypes' /\ FilesFit(body', side') /\ Rest'
  <2>1. /\ o.key \in Keys /\ o # NoOp /\ First[o.kind] \in Steps \ {"idle"}
    BY FirstStep DEF Steps
  <2>2. FilesFit(body', side')
    BY <1>1, <1>4 DEF Begin, files
  <2>3. Rest'
    BY <1>1, <1>4, FsAssumption DEF Begin
  <2>4. /\ pc' \in [Clients -> Steps] /\ op' \in [Clients -> Ops \cup {NoOp}]
        /\ \A d \in Clients : pc'[d] = "idle" <=> op'[d] = NoOp
    BY <1>1, <1>4, <2>1 DEF CallTypes, Begin
  <2>5. /\ answer' = answer /\ before' \in [Clients -> Views]
    BY <1>1, <1>3, <1>4, <2>1 DEF CallTypes, Begin
  <2>6. serial' \in BOOLEAN /\ alone' \in [Clients -> BOOLEAN]
    BY <1>1, <1>4 DEF CallTypes, Begin
  <2>7. known' \in [Keys -> Entries \cup {NoEntry, Disturbed}]
    BY <1>1, <1>4, <2>1 DEF CallTypes, Begin
  <2> QED
    BY <1>1, <2>2, <2>3, <2>4, <2>5, <2>6, <2>7 DEF CallTypes
<1>5. ASSUME NEW c \in Clients, MakeDir(c) \/ OpenBody(c) \/ WriteBody(c) \/ OpenSide(c)
      PROVE  CallTypes' /\ FilesFit(body', side') /\ Rest'
  <2>1. \E t \in Steps \ {"idle"} : Goto(c, t)
    BY <1>5 DEF MakeDir, OpenBody, WriteBody, OpenSide, Steps
  <2>2. CallTypes'
    BY <1>5, <2>1, GotoTypes DEF MakeDir, OpenBody, WriteBody, OpenSide, At
  <2>3. FilesFit(body', side')
    BY <1>1, <1>5, FilesPreserved DEF MakeDir, files
  <2>4. Rest'
    BY <1>1, <1>5 DEF MakeDir, OpenBody, WriteBody, OpenSide, bounds
  <2> QED
    BY <2>2, <2>3, <2>4
<1>6. ASSUME NEW c \in Clients, WriteSide(c) PROVE CallTypes' /\ FilesFit(body', side') /\ Rest'
  <2>1. /\ pc[c] \in PutSteps /\ pc[c] # "idle"
    BY <1>6 DEF WriteSide, At, PutSteps
  <2>2. op[c].entry \in Entries /\ op[c].entry \in Views
    BY <2>1, OpTypes
  <2>3. Ok(op[c].entry) \in Replies /\ Ok(op[c].entry).entry \in Entries
    BY <2>2 DEF Ok, Replies
  <2>4. CallTypes'
    BY <1>6, <2>1, <2>3, ReturnTypes DEF WriteSide
  <2>5. FilesFit(body', side')
    BY <1>6, FilesPreserved
  <2>6. Rest'
    BY <1>1, <1>6 DEF WriteSide, bounds
  <2> QED
    BY <2>4, <2>5, <2>6
<1>7. NoEntry \in Views /\ NotFound \in Replies /\ IoError \in Replies /\ Ok(NoEntry) \in Replies
      /\ NotFound.res # "ok" /\ IoError.res # "ok" /\ Ok(NoEntry).entry = NoEntry
  BY DEF Views, Replies, NotFound, IoError, Ok
<1>8. ASSUME NEW c \in Clients, Read(c) \/ Stat(c) PROVE CallTypes' /\ FilesFit(body', side') /\ Rest'
  <2>1. pc[c] \in {"read", "stat"} /\ pc[c] # "idle"
    BY <1>8 DEF Read, Stat, At
  <2>2. /\ Missing(c) \in Replies /\ Missing(c).res # "ok"
        /\ Following(c) \in Steps /\ Following(c) # "idle"
    BY <1>7, <2>1 DEF Missing, Following, Steps, At
  <2>3. Return(c, Missing(c)) \/ Goto(c, Following(c))
    BY <1>8 DEF Read, Stat
  <2>4. CallTypes'
    BY <2>1, <2>2, <2>3, ReturnTypes, GotoTypes
  <2>5. Key(c) \in Keys /\ (body[Key(c)] # NoFile => body[Key(c)] \in Seq(Nat))
    BY <1>1, <1>3, <2>1 DEF FilesFit, Contents
  <2>6. seen' \in [Clients -> Seq(Nat)]
    BY <1>1, <1>8, <2>5 DEF Read, Stat
  <2>7. FilesFit(body', side') /\ Rest'
    BY <1>1, <1>8, <2>6 DEF Read, Stat, files, bounds
  <2> QED
    BY <2>4, <2>7
<1>9. ASSUME NEW c \in Clients, ReadSide(c) PROVE CallTypes' /\ FilesFit(body', side') /\ Rest'
  <2> DEFINE e == [body |-> seen[c], ctype |-> ReadMeta(Key(c))]
  <2>1. pc[c] \in ReadSteps /\ pc[c] # "idle" /\ Key(c) \in Keys
    BY <1>3, <1>9 DEF ReadSide, At, ReadSteps
  <2>2. e \in Views
    BY <1>1, <1>3, <2>1 DEF Views
  <2>3. ~alone[c]
    <3> SUFFICES ASSUME alone[c] PROVE FALSE
      BY DEF FsInv, StateTypes
    <3>1. op[c].kind \in {"put", "delete"}
      BY DEF FsInv, AloneIsOnly, Writing
    <3> QED
      BY <2>1, <3>1 DEF FsInv, StepsMatchOps
  <2> HIDE DEF e
  <2>4. Ok(e) \in Replies
    BY <2>2 DEF Ok, Replies
  <2>5. Return(c, Ok(e))
    BY <1>9 DEF ReadSide, e
  <2>6. CallTypes'
    BY <2>1, <2>3, <2>4, <2>5, ReturnTypes
  <2>7. FilesFit(body', side') /\ Rest'
    BY <1>1, <1>9 DEF ReadSide, files, bounds
  <2> QED
    BY <2>6, <2>7
<1>10. ASSUME NEW c \in Clients, Unlink(c) PROVE CallTypes' /\ FilesFit(body', side') /\ Rest'
  <2>1. pc[c] # "idle" /\ (Return(c, NotFound) \/ Goto(c, "unlink_side"))
    BY <1>10 DEF Unlink, At
  <2>2. CallTypes'
    BY <1>7, <2>1, ReturnTypes, GotoTypes DEF Steps
  <2>3. FilesFit(body', side')
    BY <1>10, FilesPreserved
  <2>4. Rest'
    BY <1>1, <1>10 DEF Unlink, Orphan, bounds
  <2> QED
    BY <2>2, <2>3, <2>4
<1>11. ASSUME NEW c \in Clients, UnlinkSide(c) PROVE CallTypes' /\ FilesFit(body', side') /\ Rest'
  <2>1. pc[c] # "idle" /\ Return(c, Ok(NoEntry))
    BY <1>11 DEF UnlinkSide, At
  <2>2. CallTypes'
    BY <1>7, <2>1, ReturnTypes
  <2>3. FilesFit(body', side')
    BY <1>11, FilesPreserved
  <2>4. Rest'
    BY <1>1, <1>11 DEF UnlinkSide, Orphan, bounds
  <2> QED
    BY <2>2, <2>3, <2>4
<1>12. ASSUME NEW c \in Clients, PutFails(c) PROVE CallTypes' /\ FilesFit(body', side') /\ Rest'
  <2>1. pc[c] # "idle" /\ Return(c, IoError)
    BY <1>12 DEF PutFails
  <2>2. CallTypes'
    BY <1>7, <2>1, ReturnTypes
  <2>3. FilesFit(body', side') /\ Rest'
    BY <1>1, <1>12, FsAssumption DEF PutFails, files
  <2> QED
    BY <2>2, <2>3
<1>13. CASE Crash
  <2>1. NoAnswer \in Replies /\ NoAnswer.res = "none" /\ "idle" \in Steps
    BY <1>7 DEF NoAnswer, Replies, Steps
  <2>2. CallTypes'
    BY <1>1, <1>7, <1>13, <2>1 DEF Crash, CallTypes
  <2>3. FilesFit(body', side') /\ Rest'
    BY <1>1, <1>13, FsAssumption DEF Crash, files
  <2> QED
    BY <1>2, <2>2, <2>3
<1>14. CASE UNCHANGED vars
  <2>1. FilesFit(body', side') /\ Rest'
    BY <1>1, <1>14 DEF vars, files, bounds
  <2>2. CallTypes'
    BY <1>1, <1>14 DEF vars, CallTypes, history
  <2> QED
    BY <1>2, <2>1, <2>2
<1> HIDE DEF Rest
<1> QED
  BY <1>2, <1>4, <1>5, <1>6, <1>8, <1>9, <1>10, <1>11, <1>12, <1>13, <1>14 DEF Next

\* Who is at a resource after a step of one caller.
LEMMA CallersAfter ==
  ASSUME FsInv, NEW c \in Clients
  PROVE  /\ \A t \in Steps \ {"idle"} : pc[c] # "idle" /\ Goto(c, t) =>
               /\ \A k : On(k)' = On(k) /\ Writing(k)' = Writing(k)
               /\ pc'[c] = t /\ \A d \in Clients \ {c} : pc'[d] = pc[d]
               /\ UNCHANGED <<op, answer, before, alone, known, serial>>
         /\ \A a : Return(c, a) =>
               /\ \A k : On(k)' = On(k) \ {c} /\ Writing(k)' = Writing(k) \ {c}
               /\ pc'[c] = "idle" /\ ~alone'[c] /\ UNCHANGED serial
               /\ \A d \in Clients \ {c} : /\ pc'[d] = pc[d] /\ op'[d] = op[d]
                                           /\ alone'[d] = alone[d] /\ before'[d] = before[d]
<1> USE DEF FsInv, TypeOK, StateTypes
<1>1. ASSUME NEW t \in Steps \ {"idle"}, pc[c] # "idle", Goto(c, t)
      PROVE  /\ \A k : On(k)' = On(k) /\ Writing(k)' = Writing(k)
             /\ pc'[c] = t /\ \A d \in Clients \ {c} : pc'[d] = pc[d]
             /\ UNCHANGED <<op, answer, before, alone, known, serial>>
  <2>1. /\ pc'[c] = t /\ op' = op /\ \A d \in Clients \ {c} : pc'[d] = pc[d]
        /\ UNCHANGED <<answer, before, alone, known, serial>>
    BY <1>1 DEF Goto, history
  <2>2. \A k : On(k)' = On(k)
    BY <1>1, <2>1 DEF On
  <2>3. \A k : Writing(k)' = Writing(k)
    BY <2>1, <2>2 DEF Writing
  <2> QED
    BY <2>1, <2>2, <2>3
<1>2. ASSUME NEW a, Return(c, a)
      PROVE  /\ \A k : On(k)' = On(k) \ {c} /\ Writing(k)' = Writing(k) \ {c}
             /\ pc'[c] = "idle" /\ ~alone'[c] /\ UNCHANGED serial
             /\ \A d \in Clients \ {c} : /\ pc'[d] = pc[d] /\ op'[d] = op[d]
                                         /\ alone'[d] = alone[d] /\ before'[d] = before[d]
  <2>1. /\ pc'[c] = "idle" /\ ~alone'[c] /\ UNCHANGED serial
        /\ \A d \in Clients \ {c} : /\ pc'[d] = pc[d] /\ op'[d] = op[d]
                                    /\ alone'[d] = alone[d] /\ before'[d] = before[d]
    BY <1>2 DEF Return
  <2>2. \A k : On(k)' = On(k) \ {c}
    BY <2>1 DEF On
  <2>3. \A k : Writing(k)' = Writing(k) \ {c}
    BY <2>1, <2>2 DEF Writing, On
  <2> QED
    BY <2>1, <2>2, <2>3
<1> QED
  BY <1>1, <1>2

LEMMA CallersBegin ==
  ASSUME FsInv, NEW c \in Clients, NEW o \in Ops, Begin(c, o)
  PROVE  /\ \A k : On(k)' = On(k) \cup (IF k = o.key THEN {c} ELSE {})
         /\ \A k : Writing(k)' = Writing(k) \cup
                (IF k = o.key /\ o.kind \in {"put", "delete"} THEN {c} ELSE {})
         /\ pc'[c] = First[o.kind] /\ op'[c] = o /\ pc[c] = "idle" /\ c \notin On(o.key)
         /\ \A d \in Clients \ {c} : pc'[d] = pc[d] /\ op'[d] = op[d]
<1>1. /\ pc'[c] = First[o.kind] /\ op'[c] = o /\ pc[c] = "idle"
      /\ \A d \in Clients \ {c} : pc'[d] = pc[d] /\ op'[d] = op[d]
  BY DEF FsInv, TypeOK, Begin
<1>2. First[o.kind] # "idle"
  BY FirstStep
<1>3. \A k : On(k)' = On(k) \cup (IF k = o.key THEN {c} ELSE {})
  BY <1>1, <1>2 DEF On
<1>4. \A k : Writing(k)' = Writing(k) \cup
                (IF k = o.key /\ o.kind \in {"put", "delete"} THEN {c} ELSE {})
  BY <1>1, <1>3 DEF Writing, On
<1> QED
  BY <1>1, <1>3, <1>4 DEF On

\* Every action keeps each caller at a step of its operation, and its open file named.
LEMMA CallsPreserved == FsInv /\ [Next]_vars => StepsMatchOps' /\ OpenFilesExist'
<1> SUFFICES ASSUME FsInv, [Next]_vars PROVE StepsMatchOps' /\ OpenFilesExist'
  OBVIOUS
<1>0. /\ StepsMatchOps /\ OpenFilesExist /\ TypeOK /\ StateTypes
      /\ \A c \in Clients : pc[c] # "idle" => Key(c) \in Keys
      /\ <<>> # NoFile
      /\ \A c \in Clients : pc[c] \in PutSteps =>
            op[c].entry.body \in Seq(Nat) /\ op[c].entry.ctype \in Seq(Nat)
      /\ \A x, y \in Seq(Nat) : Overwrite(x, y) # NoFile
  <2>1. \A x, y \in Seq(Nat) : Overwrite(x, y) # NoFile
    BY OverwriteBytes, FsAssumption
  <2>e. <<>> \in Seq(Nat)
    OBVIOUS
  <2>2. <<>> # NoFile
    BY <2>e, FsAssumption
  <2>3. Bodies \subseteq Seq(Nat) /\ Types \subseteq Seq(Nat)
    BY FsAssumption
  <2>4. /\ \A c \in Clients : pc[c] # "idle" => Key(c) \in Keys
        /\ \A c \in Clients : pc[c] \in PutSteps =>
              op[c].entry.body \in Bodies /\ op[c].entry.ctype \in Types
    BY OpTypes
  <2> QED
    BY <2>1, <2>2, <2>3, <2>4 DEF FsInv
<1> USE <1>0 DEF TypeOK, StateTypes
<1>1. ASSUME NEW c \in Clients, NEW o \in Ops, Begin(c, o) PROVE StepsMatchOps' /\ OpenFilesExist'
  <2>1. /\ pc'[c] = First[o.kind] /\ op'[c] = o /\ pc[c] = "idle"
        /\ \A d \in Clients \ {c} : pc'[d] = pc[d] /\ op'[d] = op[d]
    BY <1>1, CallersBegin
  <2>2. UNCHANGED <<body, side, fd>>
    BY <1>1 DEF Begin, files
  <2>3. StepsMatchOps'
    BY <2>1, FirstStep DEF StepsMatchOps, PutSteps, DeleteSteps, ReadSteps
  <2>4. OpenFilesExist'
    BY <2>1, <2>2 DEF OpenFilesExist, Key
  <2> QED
    BY <2>3, <2>4
<1>2. ASSUME NEW c \in Clients, NEW t \in Steps \ {"idle"}, pc[c] # "idle", Goto(c, t),
             \/ pc[c] \in PutSteps /\ t \in PutSteps
             \/ pc[c] \in ReadSteps /\ t \in ReadSteps
             \/ pc[c] \in DeleteSteps /\ t \in DeleteSteps
      PROVE  StepsMatchOps'
  <2>1. pc'[c] = t /\ op' = op /\ \A d \in Clients \ {c} : pc'[d] = pc[d]
    BY <1>2, CallersAfter
  <2> QED
    BY <1>2, <2>1 DEF StepsMatchOps, PutSteps, DeleteSteps, ReadSteps
<1>3. ASSUME NEW c \in Clients, NEW a, Return(c, a) PROVE StepsMatchOps'
  <2>1. pc'[c] = "idle" /\ \A d \in Clients \ {c} : pc'[d] = pc[d] /\ op'[d] = op[d]
    BY <1>3, CallersAfter
  <2> QED
    BY <2>1 DEF StepsMatchOps, PutSteps, DeleteSteps, ReadSteps
<1>4. ASSUME NEW c \in Clients, MakeDir(c) \/ Read(c) \/ Stat(c) \/ ReadSide(c)
      PROVE  StepsMatchOps' /\ OpenFilesExist'
  <2>1. /\ pc[c] \in {"make_dir", "read", "stat", "read_side"} /\ UNCHANGED <<body, side, fd>>
        /\ \/ \E a : Return(c, a)
           \/ pc[c] = "make_dir" /\ Goto(c, "open_body")
           \/ pc[c] \in {"read", "stat"} /\ Goto(c, Following(c))
    BY <1>4 DEF MakeDir, Read, Stat, ReadSide, At, files
  <2>2. pc[c] \in {"read", "stat"} => Following(c) \in ReadSteps /\ Following(c) \in Steps \ {"idle"}
    BY DEF Following, ReadSteps, Steps, At
  <2>3. StepsMatchOps'
    BY <1>2, <1>3, <2>1, <2>2 DEF PutSteps, ReadSteps, Steps
  <2>4. \A d \in Clients \ {c} : pc'[d] = pc[d] /\ op'[d] = op[d]
    BY <2>1, <2>2, CallersAfter DEF Steps
  <2>5. ~fd[c]
    BY <2>1 DEF OpenFilesExist
  <2>6. OpenFilesExist'
    BY <2>1, <2>4, <2>5 DEF OpenFilesExist, Key
  <2> QED
    BY <2>3, <2>6
<1>5. ASSUME NEW c \in Clients, OpenBody(c) \/ WriteBody(c) \/ OpenSide(c)
      PROVE  StepsMatchOps' /\ OpenFilesExist'
  <2>1. PICK t \in {"write_body", "open_side", "write_side"} :
           pc[c] \in PutSteps /\ pc[c] # "idle" /\ t \in Steps \ {"idle"} /\ Goto(c, t)
    BY <1>5 DEF OpenBody, WriteBody, OpenSide, At, PutSteps, Steps
  <2>2. StepsMatchOps'
    BY <1>2, <2>1 DEF PutSteps
  <2>3. pc'[c] = t /\ op' = op /\ \A d \in Clients \ {c} : pc'[d] = pc[d]
    BY <2>1, CallersAfter
  <2>4. Key(c) \in Keys /\ op[c].entry.body \in Seq(Nat)
    BY <2>1
  <2>5. /\ \A k \in Keys : body[k] # NoFile => body'[k] # NoFile
        /\ \A k \in Keys : side[k] # NoFile => side'[k] # NoFile
    BY <1>5, <2>4 DEF OpenBody, WriteBody, OpenSide, Contents
  <2>6. /\ \A d \in Clients \ {c} : fd'[d] = fd[d]
        /\ fd'[c] => \/ pc'[c] = "write_body" /\ body'[Key(c)] # NoFile
                     \/ pc'[c] = "write_side" /\ side'[Key(c)] # NoFile
    BY <1>5, <2>4 DEF OpenBody, WriteBody, OpenSide, Goto
  <2>7. OpenFilesExist'
    BY <2>3, <2>5, <2>6 DEF OpenFilesExist, Key
  <2> QED
    BY <2>2, <2>7
<1>6. ASSUME NEW c \in Clients, WriteSide(c) \/ PutFails(c) PROVE StepsMatchOps' /\ OpenFilesExist'
  <2>1. PICK a : Return(c, a)
    BY <1>6 DEF WriteSide, PutFails
  <2>2. pc[c] \in PutSteps /\ pc[c] # "idle" /\ Key(c) \in Keys /\ op[c].entry.ctype \in Seq(Nat)
    BY <1>6 DEF WriteSide, PutFails, At, PutSteps
  <2>3. /\ \A d \in Clients \ {c} : pc'[d] = pc[d] /\ op'[d] = op[d] /\ fd'[d] = fd[d]
        /\ ~fd'[c]
    BY <1>6, <2>1, CallersAfter DEF WriteSide, PutFails
  <2>4. body' = body /\ \A k \in Keys : side[k] # NoFile => side'[k] # NoFile
    BY <1>6, <2>2 DEF WriteSide, PutFails, files, Contents
  <2>5. OpenFilesExist'
    BY <2>3, <2>4 DEF OpenFilesExist, Key
  <2> QED
    BY <1>3, <2>1, <2>5
<1>7. ASSUME NEW c \in Clients, Unlink(c) PROVE StepsMatchOps' /\ OpenFilesExist'
  <2>1. /\ pc[c] = "unlink" /\ side' = side
        /\ \/ Return(c, NotFound) /\ UNCHANGED <<body, fd>>
           \/ /\ Goto(c, "unlink_side") /\ body' = [body EXCEPT ![Key(c)] = NoFile]
              /\ Orphan(Key(c), "write_body")
    BY <1>7 DEF Unlink, At
  <2>2. StepsMatchOps'
    BY <1>2, <1>3, <2>1 DEF DeleteSteps, Steps
  <2>3. /\ \A d \in Clients \ {c} : pc'[d] = pc[d] /\ op'[d] = op[d]
        /\ ~fd[c] /\ Key(c) \in Keys
    BY <2>1, CallersAfter DEF Steps, OpenFilesExist
  <2>4. CASE UNCHANGED <<body, fd>>
    BY <2>1, <2>2, <2>3, <2>4 DEF OpenFilesExist, Key
  <2>5. CASE body' = [body EXCEPT ![Key(c)] = NoFile] /\ Orphan(Key(c), "write_body")
    <3>1. \A d \in Clients : fd'[d] => /\ fd[d] /\ d # c
                                       /\ (pc[d] = "write_body" => Key(d) # Key(c))
      BY <2>3, <2>5 DEF Orphan, At
    <3>2. \A d \in Clients \ {c} : Key(d)' = Key(d)
      BY <2>3 DEF Key
    <3>3. OpenFilesExist'
      <4> SUFFICES ASSUME NEW d \in Clients, fd'[d]
                   PROVE  \/ pc'[d] = "write_body" /\ body'[Key(d)'] # NoFile
                          \/ pc'[d] = "write_side" /\ side'[Key(d)'] # NoFile
        BY DEF OpenFilesExist
      <4>1. d # c /\ fd[d] /\ (pc[d] = "write_body" => Key(d) # Key(c)) /\ Key(d)' = Key(d) /\ pc'[d] = pc[d]
        BY <2>3, <3>1, <3>2
      <4> QED
        BY <2>1, <2>5, <4>1 DEF OpenFilesExist
    <3> QED
      BY <2>2, <3>3
  <2> QED
    BY <2>1, <2>2, <2>4, <2>5
<1>8. ASSUME NEW c \in Clients, UnlinkSide(c) PROVE StepsMatchOps' /\ OpenFilesExist'
  <2>1. /\ pc[c] = "unlink_side" /\ body' = body /\ side' = [side EXCEPT ![Key(c)] = NoFile]
        /\ Return(c, Ok(NoEntry)) /\ Orphan(Key(c), "write_side")
    BY <1>8 DEF UnlinkSide, At
  <2>2. StepsMatchOps'
    BY <1>3, <2>1
  <2>3. /\ \A d \in Clients \ {c} : pc'[d] = pc[d] /\ op'[d] = op[d]
        /\ ~fd[c] /\ Key(c) \in Keys
    BY <2>1, CallersAfter DEF OpenFilesExist
  <2>4. \A d \in Clients : fd'[d] => /\ fd[d] /\ d # c
                                     /\ (pc[d] = "write_side" => Key(d) # Key(c))
    BY <2>1, <2>3 DEF Orphan, At
  <2>5. OpenFilesExist'
    <3> SUFFICES ASSUME NEW d \in Clients, fd'[d]
                 PROVE  \/ pc'[d] = "write_body" /\ body'[Key(d)'] # NoFile
                        \/ pc'[d] = "write_side" /\ side'[Key(d)'] # NoFile
      BY DEF OpenFilesExist
    <3>1. d # c /\ fd[d] /\ (pc[d] = "write_side" => Key(d) # Key(c)) /\ Key(d)' = Key(d) /\ pc'[d] = pc[d]
      BY <2>3, <2>4 DEF Key
    <3> QED
      BY <2>1, <3>1 DEF OpenFilesExist
  <2> QED
    BY <2>2, <2>5
<1>9. CASE Crash
  BY <1>9 DEF Crash, StepsMatchOps, OpenFilesExist, PutSteps, DeleteSteps, ReadSteps
<1>10. CASE UNCHANGED vars
  BY <1>10 DEF vars, files, StepsMatchOps, OpenFilesExist, Key
<1> QED
  BY <1>1, <1>4, <1>5, <1>6, <1>7, <1>8, <1>9, <1>10 DEF Next

\* A system call of an operation in progress.
PutCall(c) == MakeDir(c) \/ OpenBody(c) \/ WriteBody(c) \/ OpenSide(c) \/ WriteSide(c) \/ PutFails(c)
ReadCall(c) == Read(c) \/ Stat(c) \/ ReadSide(c)
DeleteCall(c) == Unlink(c) \/ UnlinkSide(c)
Call(c) == PutCall(c) \/ ReadCall(c) \/ DeleteCall(c)

\* It leaves the other resources and their callers alone.
LEMMA CallEffect ==
  ASSUME FsInv, NEW c \in Clients, Call(c)
  PROVE  /\ pc[c] # "idle" /\ Key(c) \in Keys
         /\ \/ PutCall(c) /\ pc[c] \in PutSteps
            \/ ReadCall(c) /\ pc[c] \in ReadSteps
            \/ DeleteCall(c) /\ pc[c] \in DeleteSteps
         /\ (\E t \in Steps \ {"idle"} : Goto(c, t)) \/ (\E a : Return(c, a))
         /\ \A k \in Keys \ {Key(c)} : body'[k] = body[k] /\ side'[k] = side[k]
         /\ ReadCall(c) => UNCHANGED <<body, side, fd>>
         /\ \A d \in Clients \ {c} : Key(d) # Key(c) => fd'[d] = fd[d]
         /\ \A d \in Clients \ {c} : pc'[d] = pc[d] /\ op'[d] = op[d] /\ alone'[d] = alone[d]
         /\ \A k : Writing(k)' = Writing(k) \/ Writing(k)' = Writing(k) \ {c}
         /\ \A k \in Keys \ {Key(c)} : known'[k] = known[k]
<1> USE DEF Call, PutCall, ReadCall, DeleteCall
<1>1. /\ pc[c] # "idle"
      /\ \/ PutCall(c) /\ pc[c] \in PutSteps
         \/ ReadCall(c) /\ pc[c] \in ReadSteps
         \/ DeleteCall(c) /\ pc[c] \in DeleteSteps
  BY DEF MakeDir, OpenBody, WriteBody, OpenSide, WriteSide, PutFails, Read, Stat, ReadSide,
         Unlink, UnlinkSide, At, PutSteps, ReadSteps, DeleteSteps
<1>2. Key(c) \in Keys
  BY <1>1, OpTypes
<1>3. (\E t \in Steps \ {"idle"} : Goto(c, t)) \/ (\E a : Return(c, a))
  <2>1. Following(c) \in Steps \ {"idle"}
    BY DEF Following, Steps
  <2> QED
    BY <2>1 DEF MakeDir, OpenBody, WriteBody, OpenSide, WriteSide, PutFails, Read, Stat, ReadSide,
         Unlink, UnlinkSide, Steps
<1>4. \A k \in Keys \ {Key(c)} : body'[k] = body[k] /\ side'[k] = side[k]
  BY <1>2 DEF MakeDir, OpenBody, WriteBody, OpenSide, WriteSide, PutFails, Read, Stat, ReadSide,
         Unlink, UnlinkSide, files, FsInv, StateTypes
<1>5. ReadCall(c) => UNCHANGED <<body, side, fd>>
  BY DEF Read, Stat, ReadSide, files
<1>6. \A d \in Clients \ {c} : Key(d) # Key(c) => fd'[d] = fd[d]
  BY DEF MakeDir, OpenBody, WriteBody, OpenSide, WriteSide, PutFails, Read, Stat, ReadSide,
         Unlink, UnlinkSide, Orphan, FsInv, TypeOK
<1>7. /\ \A d \in Clients \ {c} : pc'[d] = pc[d] /\ op'[d] = op[d] /\ alone'[d] = alone[d]
      /\ \A k : Writing(k)' = Writing(k) \/ Writing(k)' = Writing(k) \ {c}
  BY <1>1, <1>3, CallersAfter
<1>8. \A k \in Keys \ {Key(c)} : known'[k] = known[k]
  <2>1. CASE \E t \in Steps \ {"idle"} : Goto(c, t)
    BY <2>1 DEF Goto, history
  <2>2. CASE \E a : Return(c, a)
    BY <2>2, <1>2 DEF Return, FsInv, StateTypes
  <2> QED
    BY <1>3, <2>1, <2>2
<1> HIDE DEF Call, PutCall, ReadCall, DeleteCall
<1> QED
  BY <1>1, <1>2, <1>3, <1>4, <1>5, <1>6, <1>7, <1>8

\* A writer at work is among the writers of its resource, a reader is not, and
\* only writers are ever alone.
LEMMA WritersWrite ==
  ASSUME FsInv, NEW c \in Clients
  PROVE  /\ pc[c] \in PutSteps \cup DeleteSteps => c \in Writing(Key(c)) /\ known[Key(c)] = Disturbed
         /\ pc[c] \in ReadSteps => ~alone[c] /\ \A k : c \notin Writing(k)
         /\ \A k \in Keys : c \in Writing(k) => Key(c) = k
<1>1. pc[c] \in PutSteps \cup DeleteSteps => c \in Writing(Key(c))
  BY DEF FsInv, StepsMatchOps, Writing, On, Key, PutSteps, DeleteSteps
<1>2. pc[c] \in PutSteps \cup DeleteSteps => Key(c) \in Keys
  BY OpTypes DEF PutSteps, DeleteSteps
<1>3. pc[c] \in ReadSteps => \A k : c \notin Writing(k)
  BY DEF FsInv, StepsMatchOps, Writing
<1> QED
  BY <1>1, <1>2, <1>3 DEF FsInv, KnownIsQuiet, AloneIsOnly, Writing, On, Key

\* What an undisturbed writer does to its resource.
LEMMA AloneStep ==
  ASSUME FsInv, NEW c \in Clients, PutCall(c) \/ DeleteCall(c), alone[c]
  PROVE  \/ /\ pc'[c] \in {"open_body", "idle"} /\ ~(\E a : a.res = "ok" /\ Return(c, a))
         \/ pc'[c] = "write_body" /\ op' = op /\ fd'[c] /\ body'[Key(c)] = <<>>
         \/ pc'[c] = "open_side" /\ op' = op /\ body'[Key(c)] = op[c].entry.body
         \/ /\ pc'[c] = "write_side" /\ op' = op /\ fd'[c] /\ side'[Key(c)] = <<>>
            /\ body'[Key(c)] = op[c].entry.body
         \/ pc'[c] = "unlink_side" /\ op' = op /\ body'[Key(c)] = NoFile
         \/ /\ pc'[c] = "idle" /\ Return(c, Ok(op[c].entry)) /\ pc[c] \in PutSteps
            /\ body'[Key(c)] = op[c].entry.body /\ side'[Key(c)] = op[c].entry.ctype
         \/ pc'[c] = "idle" /\ Return(c, Ok(NoEntry)) /\ body'[Key(c)] = NoFile
<1>0. /\ pc[c] # "idle" /\ Key(c) \in Keys
      /\ pc[c] \in PutSteps => op[c].entry.body \in Seq(Nat) /\ op[c].entry.ctype \in Seq(Nat)
  <2>1. pc[c] \in PutSteps => op[c].entry.body \in Bodies /\ op[c].entry.ctype \in Types
    BY OpTypes
  <2> QED
    BY <2>1, CallEffect, FsAssumption DEF Call
<1> USE DEF FsInv, TypeOK, StateTypes
<1>1. CASE MakeDir(c)
  BY <1>1 DEF MakeDir, Goto, Return
<1>2. CASE OpenBody(c)
  BY <1>0, <1>2 DEF OpenBody, Goto
<1>3. CASE WriteBody(c)
  <2>1. fd[c] /\ body[Key(c)] = <<>> /\ pc[c] \in PutSteps
    BY <1>3 DEF WriteBody, At, AloneProgress, PutSteps
  <2>2. body'[Key(c)] = op[c].entry.body
    BY <1>0, <1>3, <2>1, OverwriteEmpty DEF WriteBody
  <2> QED
    BY <1>3, <2>2 DEF WriteBody, Goto
<1>4. CASE OpenSide(c)
  <2>1. body[Key(c)] = op[c].entry.body
    BY <1>4 DEF OpenSide, At, AloneProgress
  <2> QED
    BY <1>0, <1>4, <2>1 DEF OpenSide, Goto
<1>5. CASE WriteSide(c)
  <2>1. /\ fd[c] /\ side[Key(c)] = <<>> /\ pc[c] \in PutSteps
        /\ body[Key(c)] = op[c].entry.body
    BY <1>5 DEF WriteSide, At, AloneProgress, PutSteps
  <2>2. side'[Key(c)] = op[c].entry.ctype
    BY <1>0, <1>5, <2>1, OverwriteEmpty DEF WriteSide
  <2> QED
    BY <1>5, <2>1, <2>2 DEF WriteSide, Return
<1>6. CASE PutFails(c)
  <2>1. pc'[c] = "idle" /\ answer'[c] = IoError /\ IoError.res # "ok"
    BY <1>6 DEF PutFails, Return, IoError
  <2>2. \A a : Return(c, a) => answer'[c] = a
    BY DEF Return
  <2> QED
    BY <2>1, <2>2
<1>7. CASE Unlink(c)
  <2>1. CASE body[Key(c)] = NoFile
    <3>1. pc'[c] = "idle" /\ answer'[c] = NotFound /\ NotFound.res # "ok"
      BY <1>7, <2>1 DEF Unlink, Return, NotFound
    <3>2. \A a : Return(c, a) => answer'[c] = a
      BY DEF Return
    <3> QED
      BY <3>1, <3>2
  <2>2. CASE body[Key(c)] # NoFile
    BY <1>0, <1>7, <2>2 DEF Unlink, Goto
  <2> QED
    BY <2>1, <2>2
<1>8. CASE UnlinkSide(c)
  BY <1>8 DEF UnlinkSide, At, AloneProgress, Return
<1> QED
  BY <1>1, <1>2, <1>3, <1>4, <1>5, <1>6, <1>7, <1>8 DEF PutCall, DeleteCall

LEMMA BeginAlone ==
  ASSUME FsInv, NEW c \in Clients, NEW o \in Ops, Begin(c, o)
  PROVE  AloneIsOnly' /\ AloneProgress' /\ KnownIsQuiet'
<1>1. /\ pc'[c] = First[o.kind] /\ op'[c] = o /\ pc[c] = "idle"
      /\ \A d \in Clients \ {c} : pc'[d] = pc[d] /\ op'[d] = op[d]
      /\ \A k : Writing(k)' = Writing(k) \cup
             (IF k = o.key /\ o.kind \in {"put", "delete"} THEN {c} ELSE {})
  BY CallersBegin
<1>2. UNCHANGED <<body, side, fd>> /\ \A k : View(k)' = View(k)
  BY DEF Begin, files, View, ReadMeta
<1>3. /\ o.key \in Keys /\ First[o.kind] \in {"make_dir", "unlink", "read", "stat"}
  BY FirstStep
<1>4. /\ \A d \in Clients : alone'[d] /\ d # c =>
            alone[d] /\ (o.kind \in {"put", "delete"} => d \notin Writing(o.key))
      /\ alone'[c] => o.kind \in {"put", "delete"} /\ Writing(o.key) = {}
  BY <1>1 DEF Begin, FsInv, AloneIsOnly, StateTypes
<1>5. ASSUME NEW d \in Clients, alone'[d], d # c
      PROVE  /\ pc[d] # "idle" /\ Writing(Key(d)) = {d} /\ Key(d)' = Key(d) /\ alone[d]
             /\ Writing(Key(d))' = {d}
  <2>1. pc[d] # "idle" /\ Writing(Key(d)) = {d} /\ alone[d]
    BY <1>4, <1>5 DEF FsInv, AloneIsOnly
  <2>2. Key(d)' = Key(d)
    BY <1>1, <1>5 DEF Key
  <2>3. ~(Key(d) = o.key /\ o.kind \in {"put", "delete"})
    BY <1>4, <1>5, <2>1
  <2> QED
    BY <1>1, <2>1, <2>2, <2>3
<1>6. AloneIsOnly'
  <2> SUFFICES ASSUME NEW d \in Clients, alone'[d]
               PROVE  pc'[d] # "idle" /\ Writing(Key(d))' = {d}
    BY DEF AloneIsOnly
  <2>1. CASE d # c
    BY <1>1, <1>5, <2>1
  <2>2. CASE d = c
    <3>1. Key(c)' = o.key
      BY <1>1 DEF Key
    <3>2. Writing(o.key)' = {c}
      BY <1>1, <1>4, <2>2
    <3>3. Writing(Key(c))' = {c}
      BY <3>1, <3>2 DEF Writing, On
    <3> QED
      BY <1>1, <1>3, <2>2, <3>3
  <2> QED
    BY <2>1, <2>2
<1>7. AloneProgress'
  <2> SUFFICES ASSUME NEW d \in Clients, alone'[d]
               PROVE  /\ pc'[d] = "write_body" => fd'[d] /\ body'[Key(d)'] = <<>>
                      /\ pc'[d] = "open_side" => body'[Key(d)'] = op'[d].entry.body
                      /\ pc'[d] = "write_side" => /\ fd'[d] /\ side'[Key(d)'] = <<>>
                                                  /\ body'[Key(d)'] = op'[d].entry.body
                      /\ pc'[d] = "unlink_side" => body'[Key(d)'] = NoFile
    BY DEF AloneProgress
  <2>1. CASE d = c
    BY <1>1, <1>3, <2>1
  <2>2. CASE d # c
    BY <1>1, <1>2, <1>5, <2>2 DEF FsInv, AloneProgress
  <2> QED
    BY <2>1, <2>2
<1>8. KnownIsQuiet'
  <2>1. \A k \in Keys : known'[k] # Disturbed =>
           known'[k] = known[k] /\ ~(k = o.key /\ o.kind \in {"put", "delete"})
    BY <1>3 DEF Begin, FsInv, StateTypes
  <2> QED
    BY <1>1, <1>2, <2>1 DEF FsInv, KnownIsQuiet
<1> QED
  BY <1>6, <1>7, <1>8

LEMMA CallAlone ==
  ASSUME FsInv, NEW c \in Clients, Call(c)
  PROVE  AloneIsOnly' /\ AloneProgress' /\ KnownIsQuiet'
<1>1. /\ pc[c] # "idle" /\ Key(c) \in Keys
      /\ \/ PutCall(c) /\ pc[c] \in PutSteps
         \/ ReadCall(c) /\ pc[c] \in ReadSteps
         \/ DeleteCall(c) /\ pc[c] \in DeleteSteps
      /\ (\E t \in Steps \ {"idle"} : Goto(c, t)) \/ (\E a : Return(c, a))
      /\ \A k \in Keys \ {Key(c)} : body'[k] = body[k] /\ side'[k] = side[k]
      /\ ReadCall(c) => UNCHANGED <<body, side, fd>>
      /\ \A d \in Clients \ {c} : Key(d) # Key(c) => fd'[d] = fd[d]
      /\ \A d \in Clients \ {c} : pc'[d] = pc[d] /\ op'[d] = op[d] /\ alone'[d] = alone[d]
      /\ \A k : Writing(k)' = Writing(k) \/ Writing(k)' = Writing(k) \ {c}
      /\ \A k \in Keys \ {Key(c)} : known'[k] = known[k]
  BY CallEffect
<1>2. /\ pc[c] \in PutSteps \cup DeleteSteps => c \in Writing(Key(c)) /\ known[Key(c)] = Disturbed
      /\ pc[c] \in ReadSteps => ~alone[c] /\ \A k : c \notin Writing(k)
  BY WritersWrite
<1>3. \/ /\ pc'[c] # "idle" /\ UNCHANGED <<op, alone, known>> /\ \A k : Writing(k)' = Writing(k)
      \/ pc'[c] = "idle" /\ ~alone'[c] /\ \A k : Writing(k)' = Writing(k) \ {c}
  BY <1>1, CallersAfter
<1>4. ASSUME NEW d \in Clients, alone'[d], d # c
      PROVE  /\ alone[d] /\ pc[d] # "idle" /\ Key(d) \in Keys /\ Key(d)' = Key(d)
             /\ Writing(Key(d)) = {d} /\ Writing(Key(d))' = {d}
             /\ pc[c] \notin ReadSteps => Key(d) # Key(c)
  <2>1. alone[d] /\ pc[d] # "idle" /\ Writing(Key(d)) = {d}
    BY <1>1, <1>4 DEF FsInv, AloneIsOnly
  <2>2. Key(d) \in Keys
    BY <2>1, OpTypes
  <2>3. Key(d)' = Key(d)
    BY <1>1, <1>4 DEF Key
  <2>4. Writing(Key(d))' = {d}
    BY <1>1, <1>4, <2>1, <2>3
  <2>5. pc[c] \notin ReadSteps => Key(d) # Key(c)
    BY <1>1, <1>2, <1>4, <2>1
  <2> QED
    BY <2>1, <2>2, <2>3, <2>4, <2>5
<1>5. AloneIsOnly'
  <2> SUFFICES ASSUME NEW d \in Clients, alone'[d]
               PROVE  pc'[d] # "idle" /\ Writing(Key(d))' = {d}
    BY DEF AloneIsOnly
  <2>1. CASE d # c
    <3>1. Writing(Key(d))' = {d} /\ pc[d] # "idle"
      BY <1>4, <2>1
    <3> QED
      BY <1>1, <2>1, <3>1
  <2>2. CASE d = c
    <3>1. pc'[c] # "idle" /\ op' = op /\ alone[c] /\ \A k : Writing(k)' = Writing(k)
      BY <1>3, <2>2
    <3>2. Writing(Key(c)) = {c}
      BY <3>1 DEF FsInv, AloneIsOnly
    <3>3. Writing(Key(c))' = {c}
      BY <3>1, <3>2 DEF Key
    <3> QED
      BY <2>2, <3>1, <3>3
  <2> QED
    BY <2>1, <2>2
<1>6. AloneProgress'
  <2> SUFFICES ASSUME NEW d \in Clients, alone'[d]
               PROVE  /\ pc'[d] = "write_body" => fd'[d] /\ body'[Key(d)'] = <<>>
                      /\ pc'[d] = "open_side" => body'[Key(d)'] = op'[d].entry.body
                      /\ pc'[d] = "write_side" => /\ fd'[d] /\ side'[Key(d)'] = <<>>
                                                  /\ body'[Key(d)'] = op'[d].entry.body
                      /\ pc'[d] = "unlink_side" => body'[Key(d)'] = NoFile
    BY DEF AloneProgress
  <2>1. CASE d # c
    <3>1. /\ alone[d] /\ Key(d) \in Keys /\ Key(d)' = Key(d) /\ pc'[d] = pc[d] /\ op'[d] = op[d]
          /\ pc[c] \notin ReadSteps => Key(d) # Key(c)
      BY <1>1, <1>4, <2>1
    <3>2. fd'[d] = fd[d] /\ body'[Key(d)] = body[Key(d)] /\ side'[Key(d)] = side[Key(d)]
      BY <1>1, <2>1, <3>1 DEF PutSteps, ReadSteps, DeleteSteps
    <3> QED
      BY <3>1, <3>2 DEF FsInv, AloneProgress
  <2>2. CASE d = c
    <3>1. pc'[c] # "idle" /\ op' = op /\ alone[c] /\ Key(c)' = Key(c)
      BY <1>3, <2>2 DEF Key
    <3>2. PutCall(c) \/ DeleteCall(c)
      BY <1>1, <1>2, <3>1
    <3> QED
      BY <2>2, <3>1, <3>2, AloneStep
  <2> QED
    BY <2>1, <2>2
<1>7. KnownIsQuiet'
  <2> SUFFICES ASSUME NEW k \in Keys, known'[k] # Disturbed
               PROVE  Writing(k)' = {} /\ View(k)' = known'[k]
    BY DEF KnownIsQuiet
  <2>1. CASE k # Key(c)
    <3>1. known[k] # Disturbed /\ known'[k] = known[k] /\ body'[k] = body[k] /\ side'[k] = side[k]
      BY <1>1, <2>1
    <3>2. View(k)' = View(k)
      BY <3>1 DEF View, ReadMeta
    <3> QED
      BY <1>1, <3>1, <3>2 DEF FsInv, KnownIsQuiet
  <2>2. CASE k = Key(c) /\ pc[c] \in ReadSteps
    <3>1. UNCHANGED <<body, side>> /\ ~alone[c]
      BY <1>1, <1>2, <2>2 DEF PutSteps, ReadSteps, DeleteSteps
    <3>2. known' = known
      BY <1>1, <3>1 DEF Goto, Return, history
    <3>3. View(k)' = View(k)
      BY <3>1 DEF View, ReadMeta
    <3> QED
      BY <1>1, <3>2, <3>3 DEF FsInv, KnownIsQuiet
  <2>3. CASE k = Key(c) /\ pc[c] \notin ReadSteps
    <3>1. known[k] = Disturbed
      BY <1>1, <1>2, <2>3
    <3>2. PICK a : Return(c, a)
      BY <1>1, <2>3, <3>1 DEF Goto, history
    <3>3. alone[c] /\ a.res = "ok" /\ known'[k] = a.entry
      BY <1>1, <2>3, <3>1, <3>2 DEF Return, FsInv, StateTypes
    <3>4. answer'[c] = a /\ pc'[c] = "idle"
      BY <3>2 DEF Return, FsInv, TypeOK, StateTypes
    <3>5. Writing(k) = {c} /\ Writing(k)' = Writing(k) \ {c}
      BY <1>3, <2>3, <3>3, <3>4 DEF FsInv, AloneIsOnly
    <3>6. PutCall(c) \/ DeleteCall(c)
      BY <1>1, <2>3
    <3>7. \/ /\ Return(c, Ok(op[c].entry)) /\ pc[c] \in PutSteps
             /\ body'[k] = op[c].entry.body /\ side'[k] = op[c].entry.ctype
          \/ Return(c, Ok(NoEntry)) /\ body'[k] = NoFile
      BY <2>3, <3>2, <3>3, <3>4, <3>6, AloneStep
    <3>8. CASE Return(c, Ok(NoEntry)) /\ body'[k] = NoFile
      <4>1. answer'[c] = Ok(NoEntry)
        BY <3>8 DEF Return, FsInv, StateTypes
      <4> QED
        BY <3>3, <3>4, <3>5, <3>8, <4>1 DEF View, Ok
    <3>9. CASE /\ Return(c, Ok(op[c].entry)) /\ pc[c] \in PutSteps
               /\ body'[k] = op[c].entry.body /\ side'[k] = op[c].entry.ctype
      <4>1. answer'[c] = Ok(op[c].entry)
        BY <3>9 DEF Return, FsInv, StateTypes
      <4>2. known'[k] = op[c].entry
        BY <3>3, <3>4, <4>1 DEF Ok
      <4>3. pc[c] \in PutSteps
        BY <3>9
      <4>4. /\ op[c].entry.body \in Bodies /\ op[c].entry.ctype \in Types
            /\ op[c].entry = [body |-> op[c].entry.body, ctype |-> op[c].entry.ctype]
        BY <4>3, OpTypes
      <4>5. op[c].entry.body # NoFile
        BY <4>4, FsAssumption
      <4> QED
        BY <3>5, <3>9, <4>2, <4>4, <4>5 DEF View, ReadMeta
    <3> QED
      BY <3>7, <3>8, <3>9
  <2> QED
    BY <2>1, <2>2, <2>3
<1> QED
  BY <1>5, <1>6, <1>7

LEMMA FsPreserved == FsInv /\ [Next]_vars => FsInv'
<1> SUFFICES ASSUME FsInv, [Next]_vars PROVE FsInv'
  OBVIOUS
<1>1. TypeOK' /\ StateTypes' /\ StepsMatchOps' /\ OpenFilesExist'
  BY TypesPreserved, CallsPreserved
<1>2. AloneIsOnly' /\ AloneProgress' /\ KnownIsQuiet'
  <2>1. ASSUME NEW c \in Clients, NEW o \in Ops, Begin(c, o)
        PROVE  AloneIsOnly' /\ AloneProgress' /\ KnownIsQuiet'
    BY <2>1, BeginAlone
  <2>2. ASSUME NEW c \in Clients, Call(c) PROVE AloneIsOnly' /\ AloneProgress' /\ KnownIsQuiet'
    BY <2>2, CallAlone
  <2>3. CASE Crash
    <3>1. /\ \A c \in Clients : pc'[c] = "idle" /\ ~alone'[c]
          /\ UNCHANGED <<body, side, known>>
      BY <2>3 DEF Crash, files
    <3>2. \A k : Writing(k)' = {} /\ View(k)' = View(k)
      BY <3>1 DEF Writing, On, View, ReadMeta
    <3> QED
      BY <3>1, <3>2 DEF FsInv, AloneIsOnly, AloneProgress, KnownIsQuiet
  <2>4. CASE UNCHANGED vars
    <3>1. \A k : Writing(k)' = Writing(k) /\ View(k)' = View(k)
      BY <2>4 DEF vars, files, Writing, On, View, ReadMeta
    <3>2. \A c : Key(c)' = Key(c)
      BY <2>4 DEF vars, Key
    <3>3. UNCHANGED <<pc, op, fd, alone, body, side, known>>
      BY <2>4 DEF vars, files, history
    <3>4. AloneIsOnly' /\ KnownIsQuiet'
      BY <3>1, <3>2, <3>3 DEF FsInv, AloneIsOnly, KnownIsQuiet
    <3>5. AloneProgress'
      BY <3>2, <3>3 DEF FsInv, AloneProgress
    <3> QED
      BY <3>4, <3>5
  <2> QED
    BY <2>1, <2>2, <2>3, <2>4 DEF Next, Call, PutCall, ReadCall, DeleteCall
<1> QED
  BY <1>1, <1>2 DEF FsInv

LEMMA FsInitially == Init => FsInv
<1> SUFFICES ASSUME Init PROVE FsInv
  OBVIOUS
<1>1. TypeOK
  BY FsAssumption DEF Init, TypeOK, Steps, NoAnswer
<1>2. StateTypes
  <2>1. <<>> \in Seq(Nat) /\ NoAnswer \in Replies /\ NoEntry \in Views /\ NoFile \in Contents
    BY DEF NoAnswer, Replies, Views, Contents
  <2> QED
    BY <2>1 DEF Init, StateTypes
<1>3. \A k : Writing(k) = {}
  BY DEF Init, Writing, On
<1>4. \A k \in Keys : View(k) = NoEntry /\ known[k] = NoEntry
  BY DEF Init, View
<1> QED
  BY <1>1, <1>2, <1>3, <1>4 DEF Init, FsInv, StepsMatchOps, OpenFilesExist, AloneIsOnly,
     AloneProgress, KnownIsQuiet, PutSteps, DeleteSteps, ReadSteps

LEMMA FsInvariant == Spec => []FsInv
  BY FsInitially, FsPreserved, PTL DEF Spec

\* The steps, operations and files keep their types; a file is never longer than the longest
\* write, since every fs::write starts at its beginning.
THEOREM FsTypeCorrect == Spec => []TypeOK
  BY FsInvariant, PTL DEF FsInv

\* One put or delete of fs.rs that no other writer of the path overlaps repairs the resource,
\* whatever overlapping writers, failed calls and crashes left there: a reader finds its body
\* and its content type until the next writer begins.
THEOREM UndisturbedWritesHold == Spec => []UndisturbedWriteHolds
<1>1. FsInv => UndisturbedWriteHolds
  BY DEF FsInv, KnownIsQuiet, UndisturbedWriteHolds
<1> QED
  BY <1>1, FsInvariant, PTL

-----------------------------------------------------------------------------
(* The refinement of ResourceStore. *)

LEMMA OneCallerPreserved == FsInv /\ OneCaller /\ [Next]_vars => OneCaller'
<1> SUFFICES ASSUME FsInv, OneCaller, [Next]_vars, serial' PROVE OneCaller'
  BY DEF OneCaller
<1> DEFINE Result == /\ \A k \in Keys : \A c, d \in On(k)' : c = d
                     /\ \A c \in Clients : pc'[c] \in PutSteps \cup DeleteSteps => alone'[c]
<1>0. Result => OneCaller'
  BY DEF OneCaller
<1>1. ASSUME NEW c \in Clients, NEW o \in Ops, Begin(c, o) PROVE Result
  <2>1. /\ \A k : On(k)' = On(k) \cup (IF k = o.key THEN {c} ELSE {})
        /\ pc'[c] = First[o.kind] /\ \A d \in Clients \ {c} : pc'[d] = pc[d]
    BY <1>1, CallersBegin
  <2>2. serial /\ On(o.key) = {} /\ Writing(o.key) = {}
    BY <1>1 DEF Begin, Writing
  <2>3. \A k \in Keys : \A d, e \in On(k)' : d = e
    BY <2>1, <2>2 DEF OneCaller
  <2>4. ASSUME NEW d \in Clients, pc'[d] \in PutSteps \cup DeleteSteps PROVE alone'[d]
    <3>1. CASE d = c
      <4>1. o.kind \in {"put", "delete"}
        BY <2>1, <2>4, <3>1, FirstStep DEF PutSteps, DeleteSteps
      <4> QED
        BY <1>1, <2>2, <3>1, <4>1 DEF Begin
    <3>2. CASE d # c
      <4>1. alone[d]
        BY <2>1, <2>2, <2>4, <3>2 DEF OneCaller
      <4> QED
        BY <1>1, <2>2, <3>2, <4>1 DEF Begin
    <3> QED
      BY <3>1, <3>2
  <2> QED
    BY <2>3, <2>4
<1>2. ASSUME NEW c \in Clients, Call(c) PROVE Result
  <2>1. /\ pc[c] # "idle"
        /\ (\E t \in Steps \ {"idle"} : Goto(c, t)) \/ (\E a : Return(c, a))
        /\ pc[c] \in PutSteps \cup ReadSteps \cup DeleteSteps
    BY <1>2, CallEffect
  <2>2. CASE \E a : Return(c, a)
    <3>1. /\ \A k : On(k)' = On(k) \ {c} /\ pc'[c] = "idle" /\ UNCHANGED serial
          /\ \A d \in Clients \ {c} : pc'[d] = pc[d] /\ alone'[d] = alone[d]
      BY <2>2, CallersAfter
    <3> QED
      BY <3>1 DEF OneCaller, PutSteps, DeleteSteps
  <2>3. CASE \E t \in Steps \ {"idle"} : Goto(c, t)
    <3>1. /\ \A k : On(k)' = On(k) /\ UNCHANGED <<op, alone, serial>>
          /\ \A d \in Clients \ {c} : pc'[d] = pc[d]
          /\ pc'[c] # "idle"
      BY <2>1, <2>3, CallersAfter
    <3>2. pc'[c] \in PutSteps \cup DeleteSteps => pc[c] \in PutSteps \cup DeleteSteps
      <4>1. StepsMatchOps'
        BY CallsPreserved
      <4> QED
        BY <2>1, <3>1, <4>1 DEF FsInv, StepsMatchOps
    <3> QED
      BY <3>1, <3>2 DEF OneCaller
  <2> QED
    BY <2>1, <2>2, <2>3
<1>3. CASE Crash
  <2>1. \A c \in Clients : pc'[c] = "idle"
    BY <1>3 DEF Crash
  <2> QED
    BY <1>0, <2>1 DEF On, PutSteps, DeleteSteps
<1>4. CASE UNCHANGED vars
  <2>1. UNCHANGED <<pc, op, alone, serial>>
    BY <1>4 DEF vars, history
  <2>2. \A k : On(k)' = On(k)
    BY <2>1 DEF On
  <2> QED
    BY <1>0, <2>1, <2>2 DEF OneCaller
<1> HIDE DEF Result
<1> QED
  BY <1>0, <1>1, <1>2, <1>3, <1>4 DEF Next, Call, PutCall, ReadCall, DeleteCall

\* A calm step comes from a calm state, and is no fault.
LEMMA CalmBefore ==
  ASSUME FsInv, [Next]_vars, Calm'
  PROVE  /\ Calm /\ ~Crash /\ \A c \in Clients : ~PutFails(c)
         /\ \/ UNCHANGED vars
            \/ \E c \in Clients : \/ \E o \in Ops : Begin(c, o)
                                  \/ Call(c)
<1>1. faults \in Nat /\ serial \in BOOLEAN
  BY FsAssumption DEF FsInv, TypeOK, StateTypes
<1>2. ~Crash /\ \A c \in Clients : ~PutFails(c)
  <2>1. faults' # faults + 1
    BY <1>1 DEF Calm
  <2> QED
    BY <2>1 DEF Crash, PutFails
<1>3. \/ UNCHANGED vars
      \/ \E c \in Clients : \/ \E o \in Ops : Begin(c, o)
                            \/ Call(c)
  BY <1>2 DEF Next, Call, PutCall, ReadCall, DeleteCall
<1>4. CASE UNCHANGED vars
  BY <1>2, <1>3, <1>4 DEF vars, Calm, history, bounds
<1>5. ASSUME NEW c \in Clients, NEW o \in Ops, Begin(c, o) PROVE Calm
  BY <1>1, <1>5 DEF Begin, Calm
<1>6. ASSUME NEW c \in Clients, Call(c) PROVE Calm
  <2>1. serial' = serial
    <3>1. pc[c] # "idle" /\ ((\E t \in Steps \ {"idle"} : Goto(c, t)) \/ (\E a : Return(c, a)))
      BY <1>6, CallEffect
    <3> QED
      BY <3>1, CallersAfter
  <2>2. faults' = faults
    BY <1>2, <1>6 DEF Call, PutCall, ReadCall, DeleteCall, MakeDir, OpenBody, WriteBody, OpenSide,
       WriteSide, Read, Stat, ReadSide, Unlink, UnlinkSide, bounds
  <2> QED
    BY <2>1, <2>2 DEF Calm
<1> QED
  BY <1>2, <1>3, <1>4, <1>5, <1>6

\* A resource with a body has an entry.
LEMMA ViewOfBody ==
  ASSUME NEW k \in Keys, body[k] \in Bodies
  PROVE  View(k) # NoEntry /\ View(k) = [body |-> body[k], ctype |-> ReadMeta(k)]
<1>1. body[k] # NoFile
  BY FsAssumption
<1>2. ReadMeta(k) \in Types \cup {Fallback}
  BY DEF ReadMeta
<1>3. View(k) = [body |-> body[k], ctype |-> ReadMeta(k)]
  BY <1>1 DEF View
<1>4. View(k) \in [body : Bodies, ctype : Types \cup {Fallback}]
  BY <1>2, <1>3
<1> QED
  BY <1>3, <1>4, FsAssumption

\* Who else is at work while a calm call runs is at another resource.
LEMMA OthersElsewhere ==
  ASSUME FsInv, OneCaller, serial, NEW c \in Clients, pc[c] # "idle",
         NEW d \in Clients, pc[d] # "idle", d # c
  PROVE  Key(d) # Key(c) /\ Key(d) \in Keys
<1>1. Key(d) \in Keys /\ d \in On(Key(d)) /\ c \in On(Key(c))
  BY OpTypes DEF On, Key
<1> QED
  BY <1>1 DEF OneCaller

LEMMA BeginCalm ==
  ASSUME SerialInv, Calm, Calm', NEW c \in Clients, NEW o \in Ops, Begin(c, o)
  PROVE  WholeBodies' /\ DeletesKnow' /\ ReadersSee'
<1>1. /\ \A k : Writing(k)' = Writing(k) \cup
             (IF k = o.key /\ o.kind \in {"put", "delete"} THEN {c} ELSE {})
      /\ pc'[c] = First[o.kind] /\ op'[c] = o
      /\ \A d \in Clients \ {c} : pc'[d] = pc[d] /\ op'[d] = op[d]
  BY CallersBegin DEF SerialInv
<1>2. /\ UNCHANGED <<body, side, seen>> /\ \A k : View(k)' = View(k)
      /\ On(o.key) = {} /\ Writing(o.key) = {}
      /\ before'[c] = View(o.key) /\ \A d \in Clients \ {c} : before'[d] = before[d]
  BY DEF Begin, files, View, ReadMeta, Calm, Writing, SerialInv, FsInv, StateTypes
<1>3. o.key \in Keys /\ body[o.key] \in Bodies \cup {NoFile}
  BY <1>2, FirstStep DEF SerialInv, WholeBodies
<1>4. Key(c)' = o.key /\ \A d \in Clients \ {c} : Key(d)' = Key(d)
  BY <1>1 DEF Key
<1>5. WholeBodies'
  BY <1>1, <1>2 DEF SerialInv, WholeBodies
<1>6. DeletesKnow'
  <2>1. pc'[c] # "unlink_side"
    BY <1>1, FirstStep
  <2>2. ASSUME NEW d \in Clients
        PROVE  /\ pc'[d] = "unlink" => /\ before'[d] = View(Key(d))'
                                       /\ body'[Key(d)'] \in Bodies \cup {NoFile}
               /\ pc'[d] = "unlink_side" => before'[d] # NoEntry
    <3>1. CASE d = c
      BY <1>2, <1>3, <1>4, <2>1, <3>1
    <3>2. CASE d # c
      BY <1>1, <1>2, <1>4, <3>2 DEF SerialInv, DeletesKnow
    <3> QED
      BY <3>1, <3>2
  <2> QED
    BY <2>2 DEF DeletesKnow
<1>7. ReadersSee'
  <2>1. /\ pc'[c] = "stat" => op'[c].kind = "head"
        /\ pc'[c] = "read" => op'[c].kind = "get"
        /\ pc'[c] # "read_side"
    BY <1>1, FirstStep
  <2> QED
    BY <1>1, <1>2, <1>4, <2>1 DEF SerialInv, ReadersSee
<1> QED
  BY <1>5, <1>6, <1>7

LEMMA CallCalm ==
  ASSUME SerialInv, Calm, Calm', NEW c \in Clients, Call(c), ~PutFails(c)
  PROVE  WholeBodies' /\ DeletesKnow' /\ ReadersSee'
<1>1. /\ pc[c] # "idle" /\ Key(c) \in Keys
      /\ \/ PutCall(c) /\ pc[c] \in PutSteps
         \/ ReadCall(c) /\ pc[c] \in ReadSteps
         \/ DeleteCall(c) /\ pc[c] \in DeleteSteps
      /\ (\E t \in Steps \ {"idle"} : Goto(c, t)) \/ (\E a : Return(c, a))
      /\ \A k \in Keys \ {Key(c)} : body'[k] = body[k] /\ side'[k] = side[k]
      /\ ReadCall(c) => UNCHANGED <<body, side, fd>>
      /\ \A d \in Clients \ {c} : pc'[d] = pc[d] /\ op'[d] = op[d] /\ alone'[d] = alone[d]
      /\ \A k : Writing(k)' = Writing(k) \/ Writing(k)' = Writing(k) \ {c}
  BY CallEffect DEF SerialInv
<1>2. /\ \/ pc'[c] # "idle" /\ UNCHANGED <<op, before>> /\ \A k : Writing(k)' = Writing(k)
         \/ pc'[c] = "idle" /\ \A k : Writing(k)' = Writing(k) \ {c}
      /\ \A d \in Clients \ {c} : before'[d] = before[d]
  BY <1>1, CallersAfter DEF SerialInv
<1>3. /\ \A d \in Clients \ {c} : pc[d] # "idle" => Key(d) # Key(c) /\ Key(d) \in Keys
      /\ \A d \in Clients \ {c} : Key(d)' = Key(d)
      /\ pc'[c] # "idle" => Key(c)' = Key(c)
  BY <1>1, <1>2, OthersElsewhere DEF SerialInv, Calm, Key
<1>4. /\ \A k \in Keys \ {Key(c)} : View(k)' = View(k)
      /\ \A d \in Clients \ {c} : seen'[d] = seen[d]
  <2>1. \A d \in Clients \ {c} : seen'[d] = seen[d]
    BY DEF Call, PutCall, ReadCall, DeleteCall, MakeDir, OpenBody, WriteBody, OpenSide,
       WriteSide, PutFails, Read, Stat, ReadSide, Unlink, UnlinkSide, SerialInv, FsInv, StateTypes
  <2> QED
    BY <1>1, <2>1 DEF View, ReadMeta
<1>5. /\ pc[c] \in PutSteps \cup DeleteSteps => c \in Writing(Key(c)) /\ alone[c]
      /\ pc[c] \in ReadSteps => \A k : c \notin Writing(k)
  BY WritersWrite DEF SerialInv, OneCaller, Calm
<1>6. WholeBodies'
  <2> SUFFICES ASSUME NEW k \in Keys, Writing(k)' = {} PROVE body'[k] \in Bodies \cup {NoFile}
    BY DEF WholeBodies
  <2>1. CASE k # Key(c)
    <3>1. Writing(k) = {}
      BY <1>1, <2>1, WritersWrite DEF SerialInv
    <3> QED
      BY <1>1, <2>1, <3>1 DEF SerialInv, WholeBodies
  <2>2. CASE k = Key(c) /\ pc[c] \in ReadSteps
    BY <1>1, <1>2, <1>5, <2>2 DEF SerialInv, WholeBodies, PutSteps, ReadSteps, DeleteSteps
  <2>3. CASE k = Key(c) /\ pc[c] \in PutSteps
    <3>1. pc'[c] = "idle" /\ WriteSide(c)
      BY <1>1, <1>2, <1>5, <2>3 DEF PutCall, MakeDir, OpenBody, WriteBody, OpenSide, Goto,
         PutSteps, ReadSteps, DeleteSteps, SerialInv, FsInv, TypeOK
    <3>2. body[k] = op[c].entry.body /\ body' = body
      BY <1>5, <2>3, <3>1 DEF WriteSide, At, SerialInv, FsInv, AloneProgress
    <3> QED
      BY <2>3, <3>2, OpTypes DEF SerialInv
  <2>4. CASE k = Key(c) /\ pc[c] \in DeleteSteps
    <3>1. DeleteCall(c) /\ alone[c]
      BY <1>1, <1>5, <2>4 DEF PutSteps, ReadSteps, DeleteSteps
    <3>2. CASE Unlink(c)
      BY <1>1, <3>2, <2>4 DEF Unlink, SerialInv, FsInv, StateTypes
    <3>3. CASE UnlinkSide(c)
      BY <2>4, <3>1, <3>3 DEF UnlinkSide, At, SerialInv, FsInv, AloneProgress
    <3> QED
      BY <3>1, <3>2, <3>3 DEF DeleteCall
  <2> QED
    BY <1>1, <2>1, <2>2, <2>3, <2>4
<1>7. DeletesKnow'
  <2> SUFFICES ASSUME NEW d \in Clients
               PROVE  /\ pc'[d] = "unlink" => /\ before'[d] = View(Key(d))'
                                              /\ body'[Key(d)'] \in Bodies \cup {NoFile}
                      /\ pc'[d] = "unlink_side" => before'[d] # NoEntry
    BY DEF DeletesKnow
  <2>1. CASE d # c
    <3>1. pc'[d] = pc[d] /\ before'[d] = before[d] /\ Key(d)' = Key(d)
      BY <1>1, <1>2, <1>3, <2>1
    <3>2. pc[d] # "idle" => body'[Key(d)] = body[Key(d)] /\ View(Key(d))' = View(Key(d))
      BY <1>1, <1>3, <1>4, <2>1, <3>1
    <3> QED
      BY <3>1, <3>2 DEF SerialInv, DeletesKnow
  <2>2. CASE d = c
    <3>1. pc'[c] # "unlink"
      BY <1>1 DEF PutCall, ReadCall, DeleteCall, MakeDir, OpenBody, WriteBody, OpenSide,
       WriteSide, PutFails, Read, Stat, ReadSide, Unlink, UnlinkSide, Goto, Return, Following,
       SerialInv, FsInv, TypeOK
    <3>2. ASSUME pc'[c] = "unlink_side" PROVE before'[c] # NoEntry
      <4>1. Unlink(c) /\ body[Key(c)] # NoFile
        BY <1>1, <3>2 DEF PutCall, ReadCall, DeleteCall, MakeDir, OpenBody, WriteBody, OpenSide,
         WriteSide, PutFails, Read, Stat, ReadSide, Unlink, UnlinkSide, Goto, Return, Following,
         SerialInv, FsInv, TypeOK
      <4>2. before[c] = View(Key(c)) /\ body[Key(c)] \in Bodies
        BY <4>1 DEF Unlink, At, SerialInv, DeletesKnow
      <4>3. View(Key(c)) # NoEntry
        BY <1>1, <4>2, ViewOfBody
      <4> QED
        BY <1>2, <3>2, <4>2, <4>3
    <3> QED
      BY <2>2, <3>1, <3>2
  <2> QED
    BY <2>1, <2>2
<1>8. ReadersSee'
  <2> SUFFICES ASSUME NEW d \in Clients
               PROVE  /\ (pc'[d] = "stat" /\ op'[d].kind = "get") =>
                            seen'[d] = body'[Key(d)'] /\ body'[Key(d)'] # NoFile
                      /\ (pc'[d] = "read" /\ op'[d].kind = "head") => body'[Key(d)'] # NoFile
                      /\ pc'[d] = "read_side" =>
                            seen'[d] = body'[Key(d)'] /\ body'[Key(d)'] # NoFile
    BY DEF ReadersSee
  <2>1. CASE d # c
    <3>1. pc'[d] = pc[d] /\ op'[d] = op[d] /\ seen'[d] = seen[d] /\ Key(d)' = Key(d)
      BY <1>1, <1>3, <1>4, <2>1
    <3>2. pc[d] # "idle" => body'[Key(d)] = body[Key(d)]
      BY <1>1, <1>3, <2>1
    <3> QED
      BY <3>1, <3>2 DEF SerialInv, ReadersSee
  <2>2. CASE d = c /\ pc'[c] \in ReadSteps
    <3>1. Read(c) \/ Stat(c)
      BY <1>1, <2>2 DEF PutCall, ReadCall, DeleteCall, MakeDir, OpenBody, WriteBody, OpenSide,
       WriteSide, PutFails, ReadSide, Unlink, UnlinkSide, Goto, Return, ReadSteps,
       SerialInv, FsInv, TypeOK
    <3>2. /\ body[Key(c)] # NoFile /\ pc'[c] = Following(c) /\ op' = op /\ body' = body
          /\ Key(c)' = Key(c)
      BY <2>2, <3>1 DEF Read, Stat, Goto, Return, ReadSteps, files, Key, SerialInv, FsInv, TypeOK
    <3>3. CASE Read(c)
      BY <2>2, <3>2, <3>3 DEF Read, SerialInv, FsInv, StateTypes
    <3>4. CASE Stat(c)
      <4>1. op[c].kind \in {"get", "head"} /\ seen' = seen
        BY <3>4 DEF Stat, At, SerialInv, FsInv, StepsMatchOps, ReadSteps
      <4>2. CASE op[c].kind = "get"
        <5>1. seen[c] = body[Key(c)]
          BY <3>4, <4>2 DEF Stat, At, SerialInv, ReadersSee
        <5> QED
          BY <2>2, <3>2, <4>1, <5>1
      <4>3. CASE op[c].kind = "head"
        <5>1. Following(c) = "read"
          BY <3>4, <4>3 DEF Stat, At, Following
        <5> QED
          BY <2>2, <3>2, <4>3, <5>1
      <4> QED
        BY <4>1, <4>2, <4>3
    <3> QED
      BY <3>1, <3>3, <3>4
  <2> QED
    BY <2>1, <2>2 DEF ReadSteps
<1> QED
  BY <1>6, <1>7, <1>8

LEMMA SerialPreserved == SerialInv /\ [Next]_vars => SerialInv'
<1> SUFFICES ASSUME SerialInv, [Next]_vars PROVE SerialInv'
  OBVIOUS
<1>1. FsInv' /\ OneCaller'
  BY FsPreserved, OneCallerPreserved DEF SerialInv
<1>2. CASE ~Calm'
  BY <1>1, <1>2 DEF SerialInv, WholeBodies, DeletesKnow, ReadersSee
<1>3. CASE Calm'
  <2>1. /\ Calm /\ ~Crash /\ \A c \in Clients : ~PutFails(c)
        /\ \/ UNCHANGED vars
           \/ \E c \in Clients : \/ \E o \in Ops : Begin(c, o)
                                 \/ Call(c)
    BY <1>3, CalmBefore DEF SerialInv
  <2>2. ASSUME NEW c \in Clients, NEW o \in Ops, Begin(c, o)
        PROVE  WholeBodies' /\ DeletesKnow' /\ ReadersSee'
    BY <1>3, <2>1, <2>2, BeginCalm
  <2>3. ASSUME NEW c \in Clients, Call(c) PROVE WholeBodies' /\ DeletesKnow' /\ ReadersSee'
    BY <1>3, <2>1, <2>3, CallCalm
  <2>4. CASE UNCHANGED vars
    <3>1. UNCHANGED <<pc, op, body, side, seen, before, serial, faults>>
      BY <2>4 DEF vars, files, history, bounds
    <3>2. \A k : Writing(k)' = Writing(k) /\ View(k)' = View(k)
      BY <3>1 DEF Writing, On, View, ReadMeta
    <3>3. \A c : Key(c)' = Key(c)
      BY <3>1 DEF Key
    <3>4. WholeBodies' /\ DeletesKnow'
      BY <2>1, <3>1, <3>2, <3>3 DEF SerialInv, WholeBodies, DeletesKnow
    <3>5. ReadersSee'
      BY <2>1, <3>1, <3>3 DEF SerialInv, ReadersSee
    <3> QED
      BY <1>1, <3>4, <3>5 DEF SerialInv
  <2> QED
    BY <1>1, <2>1, <2>2, <2>3, <2>4 DEF SerialInv
<1> QED
  BY <1>2, <1>3

\* The mapping: the store shows what a writer found until it returns.
LEMMA DataIs ==
  ASSUME OneCaller, serial, NEW k \in Keys
  PROVE  /\ Writing(k) = {} => Data[k] = View(k)
         /\ \A c \in Writing(k) : Data[k] = before[c]
<1>1. Writing(k) = {} => Data[k] = View(k)
  BY DEF Data
<1>2. ASSUME NEW c \in Writing(k) PROVE Data[k] = before[c]
  <2>1. (CHOOSE x \in Writing(k) : TRUE) \in Writing(k)
    BY <1>2
  <2>2. (CHOOSE x \in Writing(k) : TRUE) = c
    BY <1>2, <2>1 DEF OneCaller, Writing
  <2> QED
    BY <1>2, <2>2 DEF Data
<1> QED
  BY <1>1, <1>2

LEMMA DataIsNext ==
  ASSUME OneCaller', serial', NEW k \in Keys
  PROVE  /\ Writing(k)' = {} => Data'[k] = View(k)'
         /\ \A c \in Writing(k)' : Data'[k] = before'[c]
<1>1. Writing(k)' = {} => Data'[k] = View(k)'
  BY DEF Data
<1>2. ASSUME NEW c \in Writing(k)' PROVE Data'[k] = before'[c]
  <2>1. (CHOOSE x \in Writing(k)' : TRUE) \in Writing(k)'
    BY <1>2
  <2>2. (CHOOSE x \in Writing(k)' : TRUE) = c
    BY <1>2, <2>1 DEF OneCaller, Writing
  <2> QED
    BY <1>2, <2>2 DEF Data
<1> QED
  BY <1>1, <1>2

\* A call that begins changes nothing a caller of the trait could see.
LEMMA BeginStutters ==
  ASSUME SerialInv, SerialInv', Calm, Calm', NEW c \in Clients, NEW o \in Ops, Begin(c, o)
  PROVE  UNCHANGED <<Data, answer>>
<1>1. /\ \A k : Writing(k)' = Writing(k) \cup
             (IF k = o.key /\ o.kind \in {"put", "delete"} THEN {c} ELSE {})
      /\ pc[c] = "idle"
  BY CallersBegin DEF SerialInv
<1>2. /\ \A k : View(k)' = View(k)
      /\ On(o.key) = {} /\ Writing(o.key) = {} /\ answer' = answer
      /\ before'[c] = View(o.key) /\ \A d \in Clients \ {c} : before'[d] = before[d]
  BY DEF Begin, files, View, ReadMeta, Calm, Writing, SerialInv, FsInv, StateTypes
<1>3. ASSUME NEW k \in Keys PROVE Data'[k] = Data[k]
  <2>1. /\ Writing(k) = {} => Data[k] = View(k)
        /\ \A d \in Writing(k) : Data[k] = before[d]
    BY DataIs DEF SerialInv, Calm
  <2>2. /\ Writing(k)' = {} => Data'[k] = View(k)'
        /\ \A d \in Writing(k)' : Data'[k] = before'[d]
    BY DataIsNext DEF SerialInv, Calm
  <2>3. CASE k = o.key /\ o.kind \in {"put", "delete"}
    BY <1>1, <1>2, <2>1, <2>2, <2>3
  <2>4. CASE ~(k = o.key /\ o.kind \in {"put", "delete"})
    <3>1. Writing(k)' = Writing(k) /\ c \notin Writing(k) /\ Writing(k) \subseteq Clients
      BY <1>1, <2>4 DEF Writing, On
    <3> QED
      BY <1>2, <2>1, <2>2, <3>1
  <2> QED
    BY <2>3, <2>4
<1>4. Data = [k \in Keys |-> Data[k]] /\ Data' = [k \in Keys |-> Data'[k]]
  BY DEF Data
<1>5. Data' = Data
  BY <1>3, <1>4
<1> QED
  BY <1>2, <1>5

\* Every other system call does nothing a caller could see, or is the one
\* instant at which the operation takes effect and returns.
LEMMA CallRefines ==
  ASSUME SerialInv, SerialInv', Calm, Calm', NEW c \in Clients, Call(c), ~PutFails(c)
  PROVE  Contract!Next \/ UNCHANGED <<Data, answer>>
<1>0. FsInv /\ FsInv' /\ OneCaller /\ OneCaller' /\ serial /\ serial'
  BY DEF SerialInv, Calm
<1>k. PICK key \in Keys : key = Key(c)
  BY <1>0, CallEffect
<1> USE <1>k
<1>1. /\ pc[c] # "idle" /\ key \in Keys
      /\ \/ PutCall(c) /\ pc[c] \in PutSteps
         \/ ReadCall(c) /\ pc[c] \in ReadSteps
         \/ DeleteCall(c) /\ pc[c] \in DeleteSteps
      /\ (\E t \in Steps \ {"idle"} : Goto(c, t)) \/ (\E a : Return(c, a))
      /\ \A k \in Keys \ {key} : body'[k] = body[k] /\ side'[k] = side[k]
      /\ ReadCall(c) => UNCHANGED <<body, side, fd>>
  BY <1>0, CallEffect
<1>2. /\ pc[c] \in PutSteps \cup DeleteSteps => c \in Writing(key) /\ alone[c]
      /\ pc[c] \in ReadSteps => \A k : c \notin Writing(k)
      /\ \A k \in Keys : c \in Writing(k) => key = k
      /\ \A k \in Keys : Writing(k) \subseteq Clients
      /\ c \in On(key)
  BY <1>0, <1>1, WritersWrite DEF OneCaller, Writing, On, Key
<1>3. /\ \A k \in Keys : /\ Writing(k) = {} => Data[k] = View(k)
                         /\ \A d \in Writing(k) : Data[k] = before[d]
      /\ \A k \in Keys : /\ Writing(k)' = {} => Data'[k] = View(k)'
                         /\ \A d \in Writing(k)' : Data'[k] = before'[d]
      /\ Data = [k \in Keys |-> Data[k]] /\ Data' = [k \in Keys |-> Data'[k]]
  BY <1>0, DataIs, DataIsNext DEF Data
<1>4. /\ \A k \in Keys \ {key} : View(k)' = View(k)
      /\ ReadCall(c) => \A k \in Keys : View(k)' = View(k)
  BY <1>1 DEF View, ReadMeta
<1>5. ASSUME NEW t \in Steps \ {"idle"}, Goto(c, t) PROVE UNCHANGED <<Data, answer>>
  <2>1. (\A k : Writing(k)' = Writing(k)) /\ UNCHANGED <<answer, before>>
    BY <1>0, <1>1, <1>5, CallersAfter
  <2>2. ASSUME NEW k \in Keys PROVE Data'[k] = Data[k]
    <3>1. CASE Writing(k) = {}
      <4>1. k # key \/ ReadCall(c)
        BY <1>1, <1>2, <3>1
      <4> QED
        BY <1>3, <1>4, <2>1, <3>1, <4>1
    <3>2. CASE Writing(k) # {}
      BY <1>3, <2>1, <3>2
    <3> QED
      BY <3>1, <3>2
  <2>3. Data' = Data
    BY <1>3, <2>2
  <2> QED
    BY <2>1, <2>3
<1>6. ASSUME NEW a, Return(c, a)
      PROVE  /\ answer' = [answer EXCEPT ![c] = a]
             /\ \A k \in Keys : Writing(k)' = Writing(k) \ {c}
             /\ \A k \in Keys \ {key} : Data'[k] = Data[k]
             /\ ReadCall(c) => Data' = Data /\ Data[key] = View(key)
             /\ ~ReadCall(c) => Data'[key] = View(key)' /\ Data[key] = before[c]
  <2>1. /\ \A k : Writing(k)' = Writing(k) \ {c}
        /\ \A d \in Clients \ {c} : before'[d] = before[d]
        /\ answer' = [answer EXCEPT ![c] = a]
    BY <1>0, <1>6, CallersAfter DEF Return
  <2>2. ASSUME NEW k \in Keys, k # key \/ ReadCall(c) PROVE Data'[k] = Data[k]
    <3>1. c \notin Writing(k) /\ View(k)' = View(k)
      BY <1>1, <1>2, <1>4, <2>2 DEF PutSteps, ReadSteps, DeleteSteps, ReadCall, Read, Stat,
         ReadSide, At
    <3>2. Writing(k)' = Writing(k)
      BY <2>1, <3>1
    <3> QED
      BY <1>2, <1>3, <2>1, <3>1, <3>2
  <2>3. ReadCall(c) => Data[key] = View(key)
    <3> SUFFICES ASSUME ReadCall(c) PROVE Data[key] = View(key)
      OBVIOUS
    <3>1. c \notin Writing(key)
      BY <1>2 DEF ReadCall, Read, Stat, ReadSide, At, ReadSteps
    <3>2. Writing(key) = {}
      BY <1>0, <1>1, <1>2, <3>1 DEF OneCaller, Writing
    <3> QED
      BY <1>1, <1>3, <3>2
  <2>4. ~ReadCall(c) => Data'[key] = View(key)' /\ Data[key] = before[c]
    <3> SUFFICES ASSUME ~ReadCall(c) PROVE Data'[key] = View(key)' /\ Data[key] = before[c]
      OBVIOUS
    <3>1. c \in Writing(key)
      BY <1>1, <1>2
    <3>2. Writing(key)' = {}
      BY <1>0, <1>1, <2>1, <3>1 DEF OneCaller, Writing
    <3> QED
      BY <1>1, <1>3, <3>1, <3>2
  <2>5. ReadCall(c) => Data' = Data
    BY <1>3, <2>2
  <2> QED
    BY <2>1, <2>2, <2>3, <2>4, <2>5
<1>7. ASSUME NEW a, Return(c, a), ReadCall(c) PROVE Contract!Next
  <2>1. /\ answer' = [answer EXCEPT ![c] = a] /\ Data' = Data /\ Data[key] = View(key)
    BY <1>6, <1>7
  <2>2. Writing(key) = {} /\ body[key] \in Bodies \cup {NoFile}
    <3>1. c \notin Writing(key)
      BY <1>2, <1>7 DEF ReadCall, Read, Stat, ReadSide, At, ReadSteps
    <3>2. Writing(key) = {}
      BY <1>0, <1>1, <1>2, <3>1 DEF OneCaller, Writing
    <3> QED
      BY <1>1, <3>2 DEF SerialInv, WholeBodies
  <2>3. [answer EXCEPT ![c] = a] =
           [answer EXCEPT ![c] = IF View(key) = NoEntry THEN NotFound ELSE Ok(View(key))]
    <3>0. answer'[c] = a
      BY <1>0, <2>1 DEF FsInv, StateTypes
    <3>1. CASE Read(c) \/ Stat(c)
      <4>1. body[key] = NoFile /\ Return(c, Missing(c))
        BY <1>0, <1>7, <3>1 DEF Read, Stat, Goto, Return, Following, FsInv, TypeOK
      <4>2. answer'[c] = Missing(c)
        BY <1>0, <4>1 DEF Return, FsInv, StateTypes
      <4>3. op[c].kind \in {"get", "head"}
        BY <1>0, <3>1 DEF FsInv, StepsMatchOps, ReadSteps, Read, Stat, At
      <4>4. Missing(c) = NotFound
        BY <3>1, <4>1, <4>3 DEF SerialInv, ReadersSee, Missing, Read, Stat, At
      <4>5. View(key) = NoEntry
        BY <4>1 DEF View
      <4> QED
        BY <3>0, <4>2, <4>4, <4>5
    <3>2. CASE ReadSide(c)
      <4>1. seen[c] = body[key] /\ body[key] # NoFile
        BY <3>2 DEF ReadSide, At, SerialInv, ReadersSee
      <4>2. View(key) # NoEntry /\ View(key) = [body |-> body[key], ctype |-> ReadMeta(key)]
        BY <1>1, <2>2, <4>1, ViewOfBody
      <4>3. answer'[c] = Ok([body |-> seen[c], ctype |-> ReadMeta(key)])
        BY <1>0, <3>2 DEF ReadSide, Return, FsInv, StateTypes
      <4> QED
        BY <3>0, <4>1, <4>2, <4>3
    <3> QED
      BY <1>7, <3>1, <3>2 DEF ReadCall
  <2>4. Contract!Get(c, key)
    BY <2>1, <2>3 DEF Contract!Get, Contract!Stored, Contract!NotFound, Contract!Ok, NotFound, Ok
  <2> QED
    BY <1>1, <2>4 DEF Contract!Next
<1>8. ASSUME NEW a, Return(c, a), ~ReadCall(c) PROVE Contract!Next
  <2>1. /\ answer' = [answer EXCEPT ![c] = a] /\ \A k \in Keys \ {key} : Data'[k] = Data[k]
        /\ Data'[key] = View(key)' /\ Data[key] = before[c]
    BY <1>6, <1>8
  <2>2. \A v : View(key)' = v => Data' = [Data EXCEPT ![key] = v]
    BY <1>1, <1>3, <2>1
  <2>3. answer'[c] = a /\ pc'[c] = "idle"
    BY <1>0, <1>8 DEF Return, FsInv, TypeOK, StateTypes
  <2>4. CASE WriteSide(c)
    <3> DEFINE e == op[c].entry
    <3>1. pc[c] = "write_side" /\ pc[c] \in PutSteps /\ alone[c]
      BY <1>2, <2>4 DEF WriteSide, At, PutSteps
    <3>2. /\ e \in Entries /\ e.body \in Bodies /\ e.ctype \in Types /\ e.ctype \in Seq(Nat)
          /\ e = [body |-> e.body, ctype |-> e.ctype]
      BY <1>0, <3>1, OpTypes, FsAssumption
    <3>3. body'[key] = e.body /\ side'[key] = e.ctype
      <4>1. fd[c] /\ side[key] = <<>> /\ body[key] = e.body
        BY <1>0, <3>1 DEF FsInv, AloneProgress
      <4>2. Overwrite(e.ctype, <<>>) = e.ctype
        BY <3>2, OverwriteEmpty
      <4> QED
        BY <1>0, <1>1, <2>4, <4>1, <4>2 DEF WriteSide, FsInv, StateTypes
    <3>4. answer'[c] = Ok(e)
      BY <1>0, <2>4 DEF WriteSide, Return, FsInv, StateTypes
    <3> HIDE DEF e
    <3>5. e.body # NoFile
      BY <3>2, FsAssumption
    <3>6. View(key)' = e
      BY <3>2, <3>3, <3>5 DEF View, ReadMeta
    <3>7. Contract!Put(c, key, e)
      BY <2>1, <2>2, <2>3, <3>4, <3>6 DEF Contract!Put, Contract!Ok, Ok
    <3> QED
      BY <1>1, <3>2, <3>7 DEF Contract!Next
  <2>5. CASE Unlink(c)
    <3>1. body[key] = NoFile /\ body' = body /\ answer'[c] = NotFound
      BY <1>0, <2>3, <2>5 DEF Unlink, Goto, Return, FsInv, TypeOK, StateTypes
    <3>2. before[c] = View(key)
      BY <2>5 DEF Unlink, At, SerialInv, DeletesKnow
    <3>3. View(key) = NoEntry /\ View(key)' = NoEntry
      BY <3>1 DEF View
    <3>4. Contract!Delete(c, key)
      BY <2>1, <2>2, <2>3, <3>1, <3>2, <3>3 DEF Contract!Delete, Contract!NotFound, NotFound
    <3> QED
      BY <1>1, <3>4 DEF Contract!Next
  <2>6. CASE UnlinkSide(c)
    <3>1. answer'[c] = Ok(NoEntry) /\ body' = body /\ pc[c] = "unlink_side"
      BY <1>0, <2>6 DEF UnlinkSide, At, Return, FsInv, StateTypes
    <3>2. before[c] # NoEntry
      BY <3>1 DEF SerialInv, DeletesKnow
    <3>3. body[key] = NoFile
      BY <1>0, <1>2, <3>1 DEF FsInv, AloneProgress, DeleteSteps
    <3>4. View(key)' = NoEntry
      BY <3>1, <3>3 DEF View
    <3>5. Contract!Delete(c, key)
      BY <2>1, <2>2, <2>3, <3>1, <3>2, <3>4 DEF Contract!Delete, Contract!Ok, Ok
    <3> QED
      BY <1>1, <3>5 DEF Contract!Next
  <2>7. WriteSide(c) \/ Unlink(c) \/ UnlinkSide(c)
    BY <1>0, <1>1, <1>8, <2>3 DEF Call, PutCall, DeleteCall, MakeDir, OpenBody, WriteBody, OpenSide,
       Goto, FsInv, TypeOK
  <2> QED
    BY <2>4, <2>5, <2>6, <2>7
<1> QED
  BY <1>1, <1>5, <1>7, <1>8

\* fs.rs implements the contract of the Storage trait as long as no two calls overlapped on one
\* path and no system call or process failed: a writer takes effect when it returns, a reader
\* answers with a body and the content type stored with it, and a missing resource is NotFound.
THEOREM FsImplementsContract == Spec => ImplementsContract
<1>1. Init => SerialInv /\ Contract!Init
  <2> SUFFICES ASSUME Init PROVE SerialInv /\ Contract!Init
    OBVIOUS
  <2>1. FsInv
    BY FsInitially
  <2>2. \A k : Writing(k) = {} /\ On(k) = {}
    BY DEF Init, Writing, On
  <2>3. \A k \in Keys : View(k) = NoEntry /\ body[k] = NoFile
    BY DEF Init, View
  <2>4. \A c \in Clients : pc[c] = "idle"
    BY DEF Init
  <2>5. SerialInv
    BY <2>1, <2>2, <2>3, <2>4 DEF SerialInv, OneCaller, WholeBodies, DeletesKnow, ReadersSee,
       PutSteps, DeleteSteps
  <2>6. Data = [k \in Keys |-> NoEntry]
    BY <2>2, <2>3 DEF Data
  <2>7. answer = [c \in Clients |-> Contract!NoAnswer]
    BY DEF Init, NoAnswer, Contract!NoAnswer
  <2> QED
    BY <2>5, <2>6, <2>7 DEF Contract!Init
<1>2. SerialInv /\ SerialInv' /\ [Next]_vars =>
         [serial' /\ faults' = 0 => Contract!Next]_<<Data, answer>>
  <2> SUFFICES ASSUME SerialInv, SerialInv', [Next]_vars, Calm'
               PROVE  Contract!Next \/ UNCHANGED <<Data, answer>>
    BY DEF Calm
  <2>1. /\ Calm /\ \A c \in Clients : ~PutFails(c)
        /\ \/ UNCHANGED vars
           \/ \E c \in Clients : \/ \E o \in Ops : Begin(c, o)
                                 \/ Call(c)
    BY CalmBefore DEF SerialInv
  <2>2. CASE UNCHANGED vars
    <3>1. \A k : Writing(k)' = Writing(k) /\ View(k)' = View(k)
      BY <2>2 DEF vars, files, Writing, On, View, ReadMeta
    <3>2. UNCHANGED <<before, answer>>
      BY <2>2 DEF vars, history
    <3>3. Data' = Data
      BY <2>2 DEF vars, files, history, Data, Writing, On, View, ReadMeta
    <3> QED
      BY <3>2, <3>3
  <2> QED
    BY <2>1, <2>2, BeginStutters, CallRefines
<1> QED
  BY <1>1, <1>2, SerialPreserved, PTL DEF Spec, ImplementsContract
=============================================================================
