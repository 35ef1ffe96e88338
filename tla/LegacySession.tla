---------------------------- MODULE LegacySession ----------------------------
(***************************************************************************)
(* LegacyWebSocketSession (notifications/legacy.rs): the second form of a     *)
(* legacy connection, which asks whether its client may read when it           *)
(* subscribes and again for every change.  The question is an await; the       *)
(* session is borrowed meanwhile, but access may be withdrawn.                *)
(***************************************************************************)
EXTENDS LegacyNotifications

VARIABLES
    reads,     \* URIs LegacyWacRead lets the client read now
    targets,   \* the subscription set
    asking,    \* the question under way, and what it is for
    told,   \* history: what each line and change came to, with the targets then
    turns

sessionVars == <<reads, targets, asking, told, turns>>

SessionInit ==
    /\ reads = {l.uri : l \in Lines} \cup ChangedUris
    /\ targets = {} /\ asking = None /\ told = <<>> /\ turns = 0

SessionReady == asking = None /\ turns < MaxInputs /\ turns' = turns + 1
Emit(op, uri) == told' = Append(told, [op |-> op, uri |-> uri, by |-> targets, withdrawn |-> reads = {}])

\* handle_message, handle_sub: the length, then the limit, then the question
HandleMessage(line) ==
    LET refused == line.long \/ (line.uri \notin targets /\ Cardinality(targets) >= MaxSubs) IN
    /\ SessionReady
    /\ CASE line.op = "sub" /\ ~refused ->
              asking' = Some([op |-> "sub", uri |-> line.uri]) /\ UNCHANGED <<targets, told>>
         [] line.op = "unsub" -> targets' = targets \ {line.uri} /\ UNCHANGED <<asking, told>>
         [] line.op = "blank" -> UNCHANGED <<targets, asking, told>>
         [] OTHER -> Emit("refuse", line.uri) /\ UNCHANGED <<targets, asking>>
    /\ UNCHANGED reads

\* Mutation of AncestorContainers: the walk stops short of the origin's root.
AncestorsBelowRoot(uri) ==
    {[uri EXCEPT !.path = SubSeq(@, 1, n), !.dir = TRUE] : n \in 1..Len(uri.path) - 1}
\* ancestor_containers: every container above, up to the root of the origin.  All
\* trailing slashes are trimmed first, so the empty names at the end count for none.
Above(path) == {n \in 0..Len(path) - 1 : \E m \in (n + 1)..Len(path) : path[m] # ""}
AncestorContainers(uri) ==
    {[uri EXCEPT !.path = SubSeq(@, 1, n), !.dir = TRUE] : n \in Above(uri.path)}

\* on_resource_change, on_storage_event: at most one question for a change
OnResourceChange(uri) ==
    /\ SessionReady
    /\ IF ({uri} \cup AncestorContainers(uri)) \cap targets # {}
       THEN asking' = Some([op |-> "change", uri |-> uri]) /\ UNCHANGED told
       ELSE Emit("silent", uri) /\ UNCHANGED asking
    /\ UNCHANGED <<reads, targets>>

\* can_read answers
CanRead ==
    LET a == TheOne(asking)
        allowed == a.uri \in reads
    IN
    /\ asking # None
    /\ targets' = IF a.op = "sub" /\ allowed THEN targets \cup {a.uri} ELSE targets
    /\ Emit(IF a.op = "sub" THEN (IF allowed THEN "ack" ELSE "refuse")
            ELSE (IF allowed THEN "pub" ELSE "forbidden"), a.uri)
    /\ asking' = None
    /\ UNCHANGED <<reads, turns>>

SessionWithdraw ==
    /\ reads # {}
    /\ reads' = {}
    /\ UNCHANGED <<targets, asking, told, turns>>

SessionNext ==
    \/ \E l \in Lines : HandleMessage(l)
    \/ \E u \in ChangedUris : OnResourceChange(u)
    \/ CanRead \/ SessionWithdraw

----------------------------------------------------------------------------

\* A URI that ends in two slashes: the walk up leaves out the container it is in.
EndsInTwoSlashes(uri) == uri.path # <<>> /\ uri.path[Len(uri.path)] = ""

\* A session hears of a change, once, exactly when the channel's rule of
\* matches_subscription covers it, although it walks up from the resource
\* instead; only for a URI that ends in two slashes may it miss one that rule
\* covers. No line or change that is answered after access was withdrawn gets
\* an ack or a pub, whenever the subscription was made.
SessionRechecks == \A i \in DOMAIN told :
    LET f == told[i]
        covered == \E s \in f.by : s = f.uri \/ Inside(f.uri, s)
    IN  /\ f.op \in {"pub", "forbidden"} => covered
        /\ f.op = "silent" => ~covered \/ EndsInTwoSlashes(f.uri)
        /\ f.withdrawn => f.op \notin {"ack", "pub"}
        /\ Cardinality(f.by) <= MaxSubs

\* Both forms of a legacy connection.
LegacyCovered == LegacyPubsCovered /\ SessionRechecks
=============================================================================
