------------------------------- MODULE Inbox --------------------------------
(***************************************************************************)
(* The ActivityPub inbox (inbox.rs) over the tables followers, following and  *)
(* inbox of store.rs.  Senders deliver an activity again until they are told  *)
(* it arrived, and several deliveries are handled together.                  *)
(***************************************************************************)
EXTENDS Chains

CONSTANTS
    Activities,       \* records [id, local, type, inner, actor, target]; id "" is none
    InboxTasks,       \* deliveries handled together
    Locals,           \* actors of this pod
    Remotes,          \* actors elsewhere
    MaxReceived,      \* bound: deliveries
    MaxInboxCrashes   \* bound: restarts

ASSUME InboxAssumption == MaxReceived \in Nat /\ MaxInboxCrashes \in Nat

VARIABLES
    handling,      \* task -> the recorded activity whose effect is due
    followers,     \* <<local, remote>>
    following,     \* <<local, remote>> -> absent, or whether it was accepted
    inboxRows,     \* ids recorded
    received, inboxCrashes,
    effects        \* history: what took effect, in order

inboxVars == <<handling, followers, following, inboxRows, received, inboxCrashes, effects>>

InboxInit ==
    /\ handling = [t \in InboxTasks |-> None]
    /\ followers = {}
    /\ following = [p \in Locals \X Remotes |-> None]
    /\ inboxRows = {}
    /\ received = 0 /\ inboxCrashes = 0
    /\ effects = <<>>

\* add_following: INSERT OR REPLACE with accepted = 0
AddFollowing(l, r) ==
    /\ following' = [following EXCEPT ![<<l, r>>] = Some(FALSE)]
    /\ UNCHANGED <<handling, followers, inboxRows, received, inboxCrashes, effects>>

\* Mutation of IsNew: whether a row was there is not looked at.
IsNewAlways(a) == a.id # ""
\* record_inbox: INSERT OR IGNORE on the id, whoever it is for; an activity
\* without an id counts as recorded before
IsNew(a) == a.id # "" /\ a.id \notin inboxRows

\* handle_inbox up to record_inbox: no type is an error, an old id a duplicate
HandleInbox(t, a) ==
    /\ handling[t] = None /\ received < MaxReceived
    /\ received' = received + 1
    /\ IF a.type # "" /\ IsNew(a)
       THEN /\ inboxRows' = inboxRows \cup {a.id}
            /\ handling' = [handling EXCEPT ![t] = Some(a)]
       ELSE UNCHANGED <<inboxRows, handling>>
    /\ UNCHANGED <<followers, following, inboxCrashes, effects>>

IsUndo(a) == a.type = "Undo" /\ a.inner = "Follow"
IsAccept(a) == a.type = "Accept" /\ a.inner = "Follow"
HasEffect(a) == a.type = "Follow" \/ IsUndo(a) \/ IsAccept(a)

\* the effect: add_follower, remove_follower, or accept_following, an UPDATE
\* that finds a row or none.  Other activities have none.
ApplyEffect(t) ==
    LET a == TheOne(handling[t])
        them == <<a.local, a.actor>>
        asked == <<a.local, a.target>>
    IN
    /\ handling[t] # None
    /\ handling' = [handling EXCEPT ![t] = None]
    /\ followers' = IF a.type = "Follow" THEN followers \cup {them}
                    ELSE IF IsUndo(a) THEN followers \ {them} ELSE followers
    /\ following' = IF IsAccept(a) /\ asked \in DOMAIN following /\ following[asked] # None
                    THEN [following EXCEPT ![asked] = Some(TRUE)] ELSE following
    /\ effects' = IF HasEffect(a) THEN Append(effects, a) ELSE effects
    /\ UNCHANGED <<inboxRows, received, inboxCrashes>>

\* the store refuses the effect: the sender gets an error and delivers again
EffectFails(t) ==
    /\ handling[t] # None /\ HasEffect(TheOne(handling[t]))
    /\ handling' = [handling EXCEPT ![t] = None]
    /\ UNCHANGED <<followers, following, inboxRows, received, inboxCrashes, effects>>

InboxCrash ==
    /\ inboxCrashes < MaxInboxCrashes /\ \E t \in InboxTasks : handling[t] # None
    /\ inboxCrashes' = inboxCrashes + 1
    /\ handling' = [t \in InboxTasks |-> None]
    /\ UNCHANGED <<followers, following, inboxRows, received, effects>>

InboxNext ==
    \/ \E l \in Locals, r \in Remotes : AddFollowing(l, r)
    \/ \E t \in InboxTasks, a \in Activities : HandleInbox(t, a)
    \/ \E t \in InboxTasks : ApplyEffect(t) \/ EffectFails(t)
    \/ InboxCrash

----------------------------------------------------------------------------

\* record_inbox and the effect are two statements without a transaction, and
\* deliveries are repeated and overlap.  No activity takes effect twice, so one
\* delivered again after an Undo brings no follower back; and a follow of ours
\* is accepted only if an Accept for it took effect.
InboxAppliedOnce ==
    /\ \A i, j \in DOMAIN effects : effects[i].id = effects[j].id => i = j
    /\ \A p \in followers : \E i \in DOMAIN effects :
           /\ effects[i].type = "Follow" /\ <<effects[i].local, effects[i].actor>> = p
           /\ \A j \in i + 1..Len(effects) :
                  ~(IsUndo(effects[j]) /\ <<effects[j].local, effects[j].actor>> = p)
    /\ \A p \in DOMAIN following : following[p] = Some(TRUE) =>
           \E i \in DOMAIN effects :
               IsAccept(effects[i]) /\ <<effects[i].local, effects[i].target>> = p
=============================================================================
