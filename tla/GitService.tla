----------------------------- MODULE GitService -----------------------------
(***************************************************************************)
(* The Git smart-HTTP service (crate solid-pod-rs-git): the path guard, the  *)
(* authorisation of pushes, the configuration written before a push, and     *)
(* the exchange with the git-http-backend process over pipes that hold       *)
(* PipeCap units.                                                          *)
(***************************************************************************)
EXTENDS Chains

CONSTANTS
    GitRequests,   \* requests a client may send
    GitRepos,      \* directories below the root: a path to "regular", "bare", "plain"
    GitAuthOn,     \* whether an authoriser is configured: a set of BOOLEANs
    PipeCap        \* units a pipe holds

\* A parameter of the query: name and value as decoded, and whether escapes stood
\* in it.
Parameters == [name : STRING, value : STRING, escaped : BOOLEAN]

ASSUME GitAssumption ==
    /\ PipeCap \in Nat \ {0} /\ GitAuthOn \subseteq BOOLEAN
    /\ \A r \in GitRequests : r.path.segs \in Seq(Seq(STRING)) /\ r.query \in Seq(Parameters)

VARIABLES
    git,        \* what the handler is doing with its request
    gitPipes,   \* the process and the two pipes
    gitConfig   \* the settings written to the repositories

gitVars == <<git, gitPipes, gitConfig>>

----------------------------------------------------------------------------
(* The request.  A path is [segs, service]: names and what it ends in.  A name  *)
(* is a sequence of full stops and of pieces of text between them.            *)

\* The empty name between two slashes.
NoName == <<>>
Dot == <<".">>
DotDot == <<".", ".">>

\* The full stops around the one at place i.
DotRun(n, i) == {j \in DOMAIN n : \A k \in DOMAIN n :
    (i <= k /\ k <= j) \/ (j <= k /\ k <= i) => n[k] = "."}

\* extract_repo_slug: the service suffix and the leading slashes go, then every
\* ".." wherever it stands: of a row of full stops one is left, or none.  The rest
\* starts with a slash if what went last stood in front.
Unscrubbed(n) == {i \in DOMAIN n : n[i] = "." =>
    Cardinality(DotRun(n, i)) % 2 = 1 /\ \A j \in DotRun(n, i) : j <= i}
Scrubbed(n) == Thinned(n, Unscrubbed(n))
LeadingTrimmed(segs) ==
    LET named == {i \in DOMAIN segs : segs[i] # NoName}
    IN  IF named = {} THEN <<>>
        ELSE SubSeq(segs, CHOOSE i \in named : \A j \in named : i <= j, Len(segs))
ExtractRepoSlug(path) ==
    LET t == LeadingTrimmed(path.segs) IN [i \in DOMAIN t |-> Scrubbed(t[i])]

SlugIsEmpty(slug) == slug = <<>> \/ slug = <<NoName>>
SlugIsAbsolute(slug) == Len(slug) > 1 /\ slug[1] = NoName

\* PathBuf::join: empty names and "." are no components.
Components(segs) == {i \in DOMAIN segs : segs[i] \notin {NoName, Dot}}
Directory(segs) == Thinned(segs, Components(segs))

\* path_safe: the slug has no ".." left, so only an absolute one is refused.
PathSafe(slug) == ~SlugIsAbsolute(slug) /\ \A i \in DOMAIN slug : slug[i] # DotDot

\* find_git_dir: a .git directory, or else objects and refs
FindGitDir(dir) == IF dir \in DOMAIN GitRepos THEN {GitRepos[dir]} \ {"plain"} ELSE None

\* Mutation of IsWrite: only the path is looked at.
IsWriteByPath(r) == r.path.service = "receive" \/ r.inner
\* GitRequest::is_write: the push service anywhere in the path, or the text
\* service=git-receive-pack anywhere in the query as it came, so also where the
\* name of a parameter ends so and its value begins so.
EndsInService == {"service", "myservice"}
BeginsAsReceive == {"receive", "receive-x"}
IsWrite(r) == r.path.service = "receive" \/ r.inner \/ \E i \in DOMAIN r.query :
    /\ ~r.query[i].escaped
    /\ r.query[i].name \in EndsInService /\ r.query[i].value \in BeginsAsReceive

\* BasicNostrExtractor: the header is Basic with user nostr and a token, or
\* Nostr with a token; the token is verified for the URL and method, without
\* the body, and its key may have to be on a list.
AuthUrl(r) == [path |-> r.path, query |-> r.query]
ExtractNostrToken(h) == FirstOf(<<
    <<"malformed", ~h.decodes>>, <<"malformed", h.user # "nostr">>,
    <<"malformed", h.token = None>>>>, "token")
Authorise(r, allowed) ==
    LET h == r.auth
        t == TheOne(h.token)
    IN  IF h.scheme = "none" THEN "missing"
        ELSE IF h.scheme = "other" THEN "malformed"
        ELSE IF h.scheme = "Basic" /\ ExtractNostrToken(h) # "token" THEN "malformed"
        ELSE IF h.token = None \/ ~t.valid \/ t.url # AuthUrl(r) \/ t.method # r.method
        THEN "rejected"
        ELSE IF allowed # None /\ t.key \notin TheOne(allowed) THEN "rejected"
        ELSE "ok"

----------------------------------------------------------------------------

Idle == [at |-> "idle"]
NoProcess == [alive |-> FALSE, stdin |-> 0, open |-> FALSE, unread |-> 0,
              unsent |-> 0, stdout |-> 0, got |-> 0, ok |-> TRUE]

GitInit ==
    /\ git = Idle
    /\ gitPipes = NoProcess
    /\ gitConfig = [d \in DOMAIN GitRepos |-> {}]

GitTypeOK ==
    /\ git.at \in {"idle", "checked", "authorised", "write", "drain", "answered"}
    /\ gitPipes.stdin \in 0..PipeCap /\ gitPipes.stdout \in 0..PipeCap

GitAnswer(status) == git' = [at |-> "answered", status |-> status]

\* handle: preflight, guard, look-up of the repository
GitHandle(r, auth, allowed) ==
    LET slug == ExtractRepoSlug(r.path)
        dir == Directory(slug)
        dirKind == FindGitDir(dir)
        early == FirstOf(<<
            <<200, r.method = "OPTIONS">>,
            <<400, ~SlugIsEmpty(slug) /\ ~PathSafe(slug)>>,
            <<404, dirKind = None>>>>, 0)
    IN
    /\ git.at = "idle"
    /\ IF early # 0 THEN GitAnswer(early)
       ELSE git' = [at |-> "checked", req |-> r, dir |-> dir, kind |-> TheOne(dirKind),
                    auth |-> auth, allowed |-> allowed, user |-> None]
    /\ UNCHANGED <<gitPipes, gitConfig>>

\* handle: a write needs an authoriser and its consent
GitAuthorise ==
    /\ git.at = "checked"
    /\ IF ~IsWrite(git.req)
       THEN git' = [git EXCEPT !.at = "authorised"]
       ELSE IF git.auth /\ Authorise(git.req, git.allowed) = "ok"
       THEN git' = [git EXCEPT !.at = "authorised", !.user = Some(TheOne(git.req.auth.token).key)]
       ELSE GitAnswer(401)
    /\ UNCHANGED <<gitPipes, gitConfig>>

\* apply_write_config: two git config calls before a push, failures ignored
Settings(kind) == {"http.receivepack"} \cup
    (IF kind = "regular" THEN {"receive.denyCurrentBranch"} ELSE {})

\* spawn_cgi: 500 when the program is missing, else the process with its pipes.
\* PATH_INFO is the path as it came, not the slug that was checked.
GitSpawn ==
    /\ git.at = "authorised"
    /\ IF IsWrite(git.req)
       THEN \E failed \in SUBSET Settings(git.kind) :
                gitConfig' = [gitConfig EXCEPT ![git.dir] = @ \cup (Settings(git.kind) \ failed)]
       ELSE UNCHANGED gitConfig
    /\ \/ GitAnswer(500) /\ UNCHANGED gitPipes
       \/ /\ git' = [git EXCEPT !.at = "write"]
          /\ gitPipes' = [NoProcess EXCEPT !.alive = TRUE, !.open = TRUE,
                             !.unread = git.req.body, !.unsent = git.req.reply]

\* write_all: 500 when the process is gone, then stdin is closed
GitWriteBody ==
    /\ git.at = "write" /\ gitPipes.unread > gitPipes.stdin
    /\ IF gitPipes.alive
       THEN /\ gitPipes.stdin < PipeCap
            /\ gitPipes' = [gitPipes EXCEPT !.stdin = @ + 1]
            /\ UNCHANGED git
       ELSE GitAnswer(500) /\ UNCHANGED gitPipes
    /\ UNCHANGED gitConfig

GitCloseStdin ==
    /\ git.at = "write" /\ gitPipes.unread = gitPipes.stdin
    /\ git' = [git EXCEPT !.at = "drain"]
    /\ gitPipes' = [gitPipes EXCEPT !.open = FALSE]
    /\ UNCHANGED gitConfig

\* Mutation of GitDrain: the process is waited for before stdout is read.
GitDrainAfterExit ==
    /\ git.at = "drain" /\ gitPipes.stdout > 0 /\ ~gitPipes.alive
    /\ gitPipes' = [gitPipes EXCEPT !.stdout = @ - 1, !.got = @ + 1]
    /\ UNCHANGED <<git, gitConfig>>

\* the task that reads stdout while the handler waits for the process
GitDrain ==
    /\ git.at = "drain" /\ gitPipes.stdout > 0
    /\ gitPipes' = [gitPipes EXCEPT !.stdout = @ - 1, !.got = @ + 1]
    /\ UNCHANGED <<git, gitConfig>>

\* The process has ended and stdout is at its end: 500 when it failed without
\* output or what it wrote has no header, else the status it sent.
GitFinish ==
    /\ git.at = "drain" /\ ~gitPipes.alive /\ gitPipes.stdout = 0
    /\ \E status \in IF gitPipes.got = 0 THEN {500} ELSE {200, 500} : GitAnswer(status)
    /\ UNCHANGED <<gitPipes, gitConfig>>

----------------------------------------------------------------------------
(* git-http-backend: writes the first units of its reply (headers, progress)  *)
(* before it has read its input, the rest after it, and runs the service that *)
(* the path asks for, or for info/refs the last parameter named service, once  *)
(* escapes are decoded.                                                     *)

ServiceParameters(r) == {i \in DOMAIN r.query : r.query[i].name = "service"}
BackendService(r) ==
    IF r.path.service # "refs" THEN r.path.service
    ELSE IF ServiceParameters(r) = {} THEN "none"
    ELSE r.query[CHOOSE i \in ServiceParameters(r) : \A j \in ServiceParameters(r) : j <= i].value

WritesEarly == git.req.reply - gitPipes.unsent < git.req.early

BackendRead ==
    /\ gitPipes.alive /\ gitPipes.stdin > 0 /\ ~WritesEarly
    /\ gitPipes' = [gitPipes EXCEPT !.stdin = @ - 1, !.unread = @ - 1]
    /\ UNCHANGED <<git, gitConfig>>

BackendWrite ==
    /\ gitPipes.alive /\ (WritesEarly \/ (~gitPipes.open /\ gitPipes.stdin = 0))
    /\ gitPipes.unsent > 0 /\ gitPipes.stdout < PipeCap
    /\ gitPipes' = [gitPipes EXCEPT !.unsent = @ - 1, !.stdout = @ + 1]
    /\ UNCHANGED <<git, gitConfig>>

BackendExit ==
    /\ gitPipes.alive /\ ~gitPipes.open /\ gitPipes.stdin = 0 /\ gitPipes.unsent = 0
    /\ gitPipes' = [gitPipes EXCEPT !.alive = FALSE]
    /\ UNCHANGED <<git, gitConfig>>

\* it may fail at any time
BackendFails ==
    /\ gitPipes.alive
    /\ gitPipes' = [gitPipes EXCEPT !.alive = FALSE, !.unsent = 0, !.ok = FALSE]
    /\ UNCHANGED <<git, gitConfig>>

GitStep ==
    \/ GitAuthorise \/ GitSpawn
    \/ GitWriteBody \/ GitCloseStdin \/ GitDrain \/ GitFinish
    \/ BackendRead \/ BackendWrite \/ BackendExit

GitAccept == \E r \in GitRequests, a \in GitAuthOn, l \in {None, Some({"k1"})} :
    GitHandle(r, a, l)

GitNext == GitAccept \/ GitStep \/ BackendFails

\* The runtime polls the handler and the reader, and the operating system runs
\* the process.
GitFairness == WF_gitVars(GitStep)

----------------------------------------------------------------------------
(* Properties.                                                             *)

Running == git.at \in {"write", "drain"} /\ gitPipes.alive

\* The two requests that handle and the backend read differently: info/refs with
\* an escape in its service parameter, and a path with ".." inside a name.
EscapedService(r) == \E i \in ServiceParameters(r) : r.path.service = "refs" /\ r.query[i].escaped
HasDots(n) == \E i \in DOMAIN n : i + 1 \in DOMAIN n /\ n[i] = "." /\ n[i + 1] = "."
DotsInPath(r) == \E i \in DOMAIN r.path.segs : HasDots(r.path.segs[i])

\* handle decides by is_write, the backend by its own reading of the request:
\* whatever the backend serves as a push, or as the listing for one, has a verified
\* user, unless the listing was asked for with an escaped service name; no ".." is
\* left in the directory the guard looked up, and it is the one that the backend
\* opens, unless the path had ".." in it.
PushAuthorised == GitTypeOK /\ (Running =>
    /\ BackendService(git.req) = "receive" => git.user # None \/ EscapedService(git.req)
    /\ \A i \in DOMAIN git.dir : git.dir[i] # DotDot
    /\ DotsInPath(git.req) \/ Directory(git.req.path.segs) = git.dir)

\* spawn_cgi writes the whole body to stdin before it reads any output, over
\* pipes of limited size: every request that reached the backend is answered,
\* however long body and reply, unless the body overfills one pipe while what the
\* backend writes before reading it overfills the other.
CgiAnswers ==
    (git.at = "write" /\ (git.req.body <= PipeCap \/ git.req.early <= PipeCap))
        ~> (git.at = "answered")
=============================================================================
