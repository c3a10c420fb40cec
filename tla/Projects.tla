------------------------------ MODULE Projects ------------------------------
(***************************************************************************)
(* Projects and their API keys: the setup flow, the project and key        *)
(* endpoints, the command line, the keys declared in the deployment        *)
(* config, and the last-used times the reader pods send to the writer.     *)
(*                                                                         *)
(* Every write runs alone in the core write queue (module WriteScheduler), *)
(* so one write is one step.  A handler that reads first and writes later  *)
(* is two steps, and other requests run in between.  Rows that point at a  *)
(* project are checked by SQLite: the connections open with foreign keys   *)
(* on.  Project and key ids are never given twice (AUTOINCREMENT).         *)
(***************************************************************************)
EXTENDS Integers, FiniteSets

CONSTANTS
    PjSlugs,        \* slugs clients ask for
    SeedSlug,       \* the slug the declared key belongs to
    MaxPj,          \* bound: projects ever created
    MaxKeys,        \* bound: key rows ever inserted
    PjReqs,         \* requests in flight
    DepKinds,       \* tables with rows DeleteProject leaves alone
    PjMaxTime,      \* bound: the clock
    TouchInterval,  \* DefaultTouchInterval
    MaxPjStops      \* bound: restarts and lost touches

ASSUME ProjectAssumption ==
    /\ SeedSlug \in PjSlugs
    /\ {MaxPj, MaxKeys, PjMaxTime, MaxPjStops} \subseteq Nat
    /\ TouchInterval \in Nat \ {0}

VARIABLES
    pjMode,      \* bound: this run follows the "requests" or the "touches"
    projects,    \* the projects table: id -> row
    nextPj,      \* next project id
    apiKeys,     \* the api_keys table: a set of rows
    nextKey,     \* next key id
    dependents,  \* project id -> tables of DepKinds with a row of it
    pjReq,       \* requests in flight
    booting,     \* the writer is seeding and does not serve yet
    pjClock,
    seenAt,      \* TouchPublisher.seen
    touchQueue,  \* key ids on the Redis touch list
    lastUsed,    \* api_keys.last_used_at
    pjStops,
    handedOut,   \* history: keys given to a client and not taken back
    vouched,     \* history: projects an operator approved or created
    overlapped,  \* history: slugs two setup requests looked up together
    lastAuth,    \* history: when a key last authorized on a reader pod
    touchLost    \* history: keys whose latest published touch was lost

pjTables == <<projects, nextPj, apiKeys, nextKey, dependents>>
touchVars == <<seenAt, touchQueue, lastUsed, lastAuth, touchLost>>
pjHistory == <<handedOut, vouched, overlapped>>
pjVars == <<pjMode, pjTables, pjReq, booting, pjClock, touchVars, pjStops, pjHistory>>

NoProject == [slug |-> "none", status |-> "none"]
NoPjReq == [op |-> "idle"]
SeedHash == 0
NotUsed == -1

PjIds == 1..MaxPj
KeyIds == 1..MaxKeys
Exists(p) == projects[p] # NoProject
BySlug(slug) == {p \in PjIds : projects[p].slug = slug}
KeysOf(p) == {k \in apiKeys : k.project = p}

PjInit ==
    /\ pjMode \in {"requests", "touches"}
    /\ projects = [p \in PjIds |-> NoProject] /\ nextPj = 1
    /\ apiKeys = {} /\ nextKey = 1
    /\ dependents = [p \in PjIds |-> {}]
    /\ pjReq = [r \in PjReqs |-> NoPjReq]
    /\ booting = TRUE /\ pjClock = 0 /\ pjStops = 0
    /\ seenAt = [k \in KeyIds |-> NotUsed] /\ touchQueue = {}
    /\ lastUsed = [k \in KeyIds |-> NotUsed]
    /\ lastAuth = [k \in KeyIds |-> NotUsed] /\ touchLost = {}
    /\ handedOut = {} /\ vouched = {} /\ overlapped = {}

-----------------------------------------------------------------------------
(* Rows.                                                                   *)

\* INSERT INTO projects: the slug is unique, the id is new.
InsertProject(slug, status) ==
    /\ nextPj <= MaxPj
    /\ projects' = [projects EXCEPT ![nextPj] = [slug |-> slug, status |-> status]]
    /\ nextPj' = nextPj + 1

\* Mutant: the connection does not turn foreign keys on.
ForeignKey_Off(p) == TRUE

\* foreign_keys(ON): a row may only point at a project that exists.
ForeignKey(p) == Exists(p)

\* A new row of api_keys for a key with the given hash (the key's own id for
\* a random key, SeedHash for the declared one).
KeyRow(p, hash, name) == [id |-> nextKey, hash |-> hash, project |-> p, name |-> name]

\* INSERT INTO api_keys.  A row that breaks the foreign key is an error and
\* changes nothing.
InsertKey(p, hash, name) ==
    /\ nextKey <= MaxKeys
    /\ IF ForeignKey(p)
       THEN /\ apiKeys' = apiKeys \cup {KeyRow(p, hash, name)}
            /\ nextKey' = nextKey + 1
            /\ handedOut' = handedOut \cup {[hash |-> hash, project |-> p]}
       ELSE UNCHANGED <<apiKeys, nextKey, handedOut>>

Answer(r) == pjReq' = [pjReq EXCEPT ![r] = NoPjReq]

\* A request is served: the pod runs and this request slot is free.
Starts(r) == ~booting /\ pjReq[r] = NoPjReq

-----------------------------------------------------------------------------
(* The setup flow.                                                         *)

\* Mutant: a POST for a known slug also ensures the project and mints a key.
SlugIsNew_Always(slug) == TRUE

\* handleSetup goes on to create only when the slug has no project.
SlugIsNew(slug) == BySlug(slug) = {}

\* POST /setup/{slug}: look the slug up.  A known slug is answered with the
\* guide and no key; GET never writes.
HandleSetup(r, slug) ==
    /\ Starts(r) /\ SlugIsNew(slug)
    /\ pjReq' = [pjReq EXCEPT ![r] = [op |-> "ensure", slug |-> slug]]
    /\ overlapped' = IF \E q \in PjReqs \ {r} :
                           pjReq[q].op \in {"ensure", "load", "mint"} /\ pjReq[q].slug = slug
                     THEN overlapped \cup {slug} ELSE overlapped
    /\ UNCHANGED <<pjTables, booting, pjClock, touchVars, pjStops, handedOut, vouched>>

\* EnsureProjectPending: INSERT OR IGNORE, status pending.
EnsureProjectPending(r) ==
    /\ pjReq[r].op = "ensure"
    /\ pjReq' = [pjReq EXCEPT ![r].op = "load"]
    /\ IF BySlug(pjReq[r].slug) = {} THEN InsertProject(pjReq[r].slug, "pending")
       ELSE UNCHANGED <<projects, nextPj>>
    /\ UNCHANGED <<apiKeys, nextKey, dependents, booting, pjClock, touchVars, pjStops, pjHistory>>

\* ... and read the row back.  A project deleted in between is an error.
LoadProject(r) ==
    /\ pjReq[r].op = "load"
    /\ LET found == BySlug(pjReq[r].slug) IN
       IF found = {} THEN Answer(r)
       ELSE pjReq' = [pjReq EXCEPT ![r] =
                [op |-> "mint", slug |-> @.slug, project |-> CHOOSE p \in found : TRUE]]
    /\ UNCHANGED <<pjTables, booting, pjClock, touchVars, pjStops, pjHistory>>

\* mintSetupKey: a random key, so INSERT OR IGNORE always inserts; the guide
\* shows it once.
MintSetupKey(r) ==
    /\ pjReq[r].op = "mint"
    /\ InsertKey(pjReq[r].project, nextKey, "setup")
    /\ Answer(r)
    /\ UNCHANGED <<projects, nextPj, dependents, booting, pjClock, touchVars, pjStops, vouched, overlapped>>

-----------------------------------------------------------------------------
(* Key endpoints and the command line.                                     *)

\* CreateAPIKey, first half: the project must exist.
CheckProject(r, p) ==
    /\ Starts(r) /\ Exists(p)
    /\ pjReq' = [pjReq EXCEPT ![r] = [op |-> "insert", project |-> p]]
    /\ UNCHANGED <<pjTables, booting, pjClock, touchVars, pjStops, pjHistory>>

\* CreateAPIKey, second half.
CreateAPIKey(r) ==
    /\ pjReq[r].op = "insert"
    /\ InsertKey(pjReq[r].project, nextKey, "named")
    /\ Answer(r)
    /\ UNCHANGED <<projects, nextPj, dependents, booting, pjClock, touchVars, pjStops, vouched, overlapped>>

\* RevokeAPIKey, first half: the key must be one of the project's.
ListKeys(r, p, k) ==
    /\ Starts(r) /\ k \in KeysOf(p)
    /\ pjReq' = [pjReq EXCEPT ![r] = [op |-> "revoke", id |-> k.id]]
    /\ UNCHANGED <<pjTables, booting, pjClock, touchVars, pjStops, pjHistory>>

\* DELETE FROM api_keys WHERE id = ?.  A row that is gone is ErrNoRows.
DeleteKeyRow(id) ==
    /\ apiKeys' = {k \in apiKeys : k.id # id}
    /\ handedOut' = {h \in handedOut : \A k \in apiKeys : k.id = id => k.hash # h.hash}

\* RevokeAPIKey, second half: delete by row id.
RevokeAPIKey(r) ==
    /\ pjReq[r].op = "revoke"
    /\ DeleteKeyRow(pjReq[r].id)
    /\ Answer(r)
    /\ UNCHANGED <<projects, nextPj, nextKey, dependents, booting, pjClock, touchVars, pjStops, vouched, overlapped>>

\* `spanbarn apikey revoke --id`: no project to check.
CliRevokeKey(id) ==
    /\ \E k \in apiKeys : k.id = id
    /\ DeleteKeyRow(id)
    /\ UNCHANGED <<projects, nextPj, nextKey, dependents, pjReq, booting, pjClock, touchVars, pjStops, vouched, overlapped>>

\* INSERT INTO projects: a taken slug is an error.
CreateProject(slug) == BySlug(slug) = {} /\ InsertProject(slug, "active")

\* `spanbarn project create`, in a process of its own next to the server.
CliCreateProject(slug) ==
    /\ CreateProject(slug)
    /\ vouched' = vouched \cup {nextPj}
    /\ UNCHANGED <<apiKeys, nextKey, dependents, pjReq, booting, pjClock, touchVars, pjStops, handedOut, overlapped>>

\* `spanbarn apikey create`: look the project up by slug, then insert.
CliCreateKey(r, slug) ==
    /\ pjReq[r] = NoPjReq /\ ~booting
    /\ \E p \in BySlug(slug) : pjReq' = [pjReq EXCEPT ![r] = [op |-> "insert", project |-> p]]
    /\ UNCHANGED <<pjTables, booting, pjClock, touchVars, pjStops, pjHistory>>

-----------------------------------------------------------------------------
(* Project endpoints.                                                      *)

ApproveProject(p) ==
    /\ ~booting /\ Exists(p)
    /\ projects' = [projects EXCEPT ![p].status = "active"]
    /\ vouched' = vouched \cup {p}
    /\ UNCHANGED <<nextPj, apiKeys, nextKey, dependents, pjReq, booting, pjClock, touchVars, pjStops, handedOut, overlapped>>

\* An alert, SLO, trace exclusion or calculated field of a project.
CreateDependent(p, kind) ==
    /\ ~booting /\ ForeignKey(p) /\ kind \notin dependents[p]
    /\ dependents' = [dependents EXCEPT ![p] = @ \cup {kind}]
    /\ UNCHANGED <<projects, nextPj, apiKeys, nextKey, pjReq, booting, pjClock, touchVars, pjStops, pjHistory>>

\* Its last row is deleted.
DeleteDependent(p, kind) ==
    /\ ~booting /\ kind \in dependents[p]
    /\ dependents' = [dependents EXCEPT ![p] = @ \ {kind}]
    /\ UNCHANGED <<projects, nextPj, apiKeys, nextKey, pjReq, booting, pjClock, touchVars, pjStops, pjHistory>>

\* SQLite refuses the DELETE of a project other rows still point at.  The
\* transaction has removed its keys, and its boards, releases and saved
\* queries (module Boards); the tables of DepKinds are left.
Restricted(p) == dependents[p] # {}

\* Mutant: the deletes are not one transaction, so a refused delete of the
\* project has already deleted its keys.
DeleteTx_Loose(p) == [keys |-> apiKeys \ KeysOf(p),
                      rows |-> IF Restricted(p) THEN projects ELSE [projects EXCEPT ![p] = NoProject]]

\* The tables after DeleteProject's transaction: all of it or, when the
\* foreign keys refuse the last statement, nothing.
DeleteTx(p) ==
    IF Restricted(p) THEN [keys |-> apiKeys, rows |-> projects]
    ELSE [keys |-> apiKeys \ KeysOf(p),
          rows |-> [projects EXCEPT ![p] = NoProject]]

\* DELETE /projects/{id}.  Every error, a refused delete included, is
\* answered 404 "project not found".
DeleteProject(p) ==
    /\ ~booting /\ Exists(p)
    /\ LET tx == DeleteTx(p) IN
       /\ apiKeys' = tx.keys /\ projects' = tx.rows
       /\ handedOut' = IF tx.rows[p] = NoProject THEN {h \in handedOut : h.project # p} ELSE handedOut
       /\ vouched' = IF tx.rows[p] = NoProject THEN vouched \ {p} ELSE vouched
    /\ UNCHANGED <<nextPj, nextKey, dependents, pjReq, booting, pjClock, touchVars, pjStops, overlapped>>

-----------------------------------------------------------------------------
(* Seeding on boot: the declared project and key.                          *)

\* Mutant: seeding sets the status of a project that is already there.
EnsureProject_Activates(slug) ==
    IF BySlug(slug) = {} THEN InsertProject(slug, "active")
    ELSE /\ projects' = [p \in PjIds |-> IF projects[p].slug = slug
                                         THEN [projects[p] EXCEPT !.status = "active"] ELSE projects[p]]
         /\ UNCHANGED nextPj

\* INSERT OR IGNORE, status active: an existing project is left as it is.
EnsureProject(slug) ==
    IF BySlug(slug) = {} THEN InsertProject(slug, "active") ELSE UNCHANGED <<projects, nextPj>>

SeedProject ==
    /\ booting
    /\ EnsureProject(SeedSlug)
    /\ vouched' = IF BySlug(SeedSlug) = {} THEN vouched \cup {nextPj} ELSE vouched
    /\ \A r \in PjReqs : pjReq[r] = NoPjReq
    /\ pjReq' = [r \in PjReqs |-> [op |-> "seed"]]
    /\ UNCHANGED <<apiKeys, nextKey, dependents, booting, pjClock, touchVars, pjStops, handedOut, overlapped>>

\* EnsureAPIKey: INSERT OR IGNORE by hash.  Then the pod serves.
SeedKey ==
    /\ booting /\ \A r \in PjReqs : pjReq[r].op = "seed"
    /\ IF \E k \in apiKeys : k.hash = SeedHash
       THEN /\ handedOut' = handedOut \cup {[hash |-> SeedHash, project |-> k.project] :
                                             k \in {j \in apiKeys : j.hash = SeedHash}}
            /\ UNCHANGED <<apiKeys, nextKey>>
       ELSE InsertKey(CHOOSE p \in BySlug(SeedSlug) : TRUE, SeedHash, "declared")
    /\ booting' = FALSE
    /\ pjReq' = [r \in PjReqs |-> NoPjReq]
    /\ UNCHANGED <<projects, nextPj, dependents, pjClock, touchVars, pjStops, vouched, overlapped>>

\* The writer restarts: requests in flight are gone, seeding runs again.
\* The touch list is in Redis; the reader's publisher is another process.
PjRestart ==
    /\ pjStops < MaxPjStops /\ pjStops' = pjStops + 1
    /\ booting' = TRUE
    /\ pjReq' = [r \in PjReqs |-> NoPjReq]
    /\ UNCHANGED <<pjTables, pjClock, touchVars, pjHistory>>

-----------------------------------------------------------------------------
(* Authorize on a reader pod, and the last-used time it reports.           *)

\* Mutant: a coalesced touch also counts as published.
Claim_Slides(k) ==
    [due |-> seenAt[k] = NotUsed \/ pjClock - seenAt[k] >= TouchInterval, seen |-> pjClock]

\* claim: at most one publish per key and interval, recorded before it is
\* tried.
Claim(k) ==
    LET due == seenAt[k] = NotUsed \/ pjClock - seenAt[k] >= TouchInterval
    IN  [due |-> due, seen |-> IF due THEN pjClock ELSE seenAt[k]]

\* Authorize finds the key by its hash and touches it.  The publish may fail,
\* which is logged; the request is served either way.
Authorize(row, published) ==
    /\ row \in apiKeys
    /\ LET k == row.id
           claim == Claim(k) IN
       /\ seenAt' = [seenAt EXCEPT ![k] = claim.seen]
       /\ published => claim.due
       /\ touchQueue' = IF published THEN touchQueue \cup {k} ELSE touchQueue
       /\ touchLost' = IF claim.due THEN (IF published THEN touchLost \ {k} ELSE touchLost \cup {k})
                       ELSE touchLost
       /\ pjStops' = IF claim.due /\ ~published THEN pjStops + 1 ELSE pjStops
       /\ pjStops' <= MaxPjStops
       /\ lastAuth' = [lastAuth EXCEPT ![k] = pjClock]
    /\ UNCHANGED <<pjTables, pjReq, booting, pjClock, lastUsed, pjHistory>>

\* TouchAPIKey on the writer: an UPDATE that a deleted key does not match.
\* A failed write is logged and not retried.
RunTouchConsumer(k, written) ==
    /\ ~booting /\ k \in touchQueue
    /\ touchQueue' = touchQueue \ {k}
    /\ lastUsed' = IF written /\ (\E row \in apiKeys : row.id = k)
                   THEN [lastUsed EXCEPT ![k] = pjClock] ELSE lastUsed
    /\ touchLost' = IF written THEN touchLost ELSE touchLost \cup {k}
    /\ pjStops' = IF written THEN pjStops ELSE pjStops + 1
    /\ pjStops' <= MaxPjStops
    /\ UNCHANGED <<pjTables, pjReq, booting, pjClock, seenAt, lastAuth, pjHistory>>

PjTick ==
    /\ pjClock < PjMaxTime /\ pjClock' = pjClock + 1
    /\ UNCHANGED <<pjTables, pjReq, booting, touchVars, pjStops, pjHistory>>

\* What is explored together: the request handlers against each other, and
\* the touches against restarts and the revocation of keys.
PjNext ==
    /\ UNCHANGED pjMode
    /\ \/ SeedProject \/ SeedKey \/ PjRestart
       \/ \E r \in PjReqs :
             \/ \E k \in apiKeys : ListKeys(r, k.project, k)
             \/ RevokeAPIKey(r)
       \/ \E k \in apiKeys : CliRevokeKey(k.id)
       \/ pjMode = "requests" /\
          \/ \E r \in PjReqs :
                \/ \E slug \in PjSlugs : HandleSetup(r, slug) \/ CliCreateKey(r, slug)
                \/ EnsureProjectPending(r) \/ LoadProject(r) \/ MintSetupKey(r)
                \/ \E p \in PjIds : CheckProject(r, p)
                \/ CreateAPIKey(r)
          \/ \E slug \in PjSlugs : CliCreateProject(slug)
          \/ \E p \in PjIds :
                \/ ApproveProject(p) \/ DeleteProject(p)
                \/ \E kind \in DepKinds : CreateDependent(p, kind) \/ DeleteDependent(p, kind)
       \/ pjMode = "touches" /\
          \/ \E row \in apiKeys, published \in BOOLEAN : Authorize(row, published)
          \/ \E k \in touchQueue, written \in BOOLEAN : RunTouchConsumer(k, written)
          \/ PjTick

PjSpec == PjInit /\ [][PjNext]_pjVars

-----------------------------------------------------------------------------
PjTypeOK ==
    /\ \A p \in PjIds : Exists(p) => projects[p].slug \in PjSlugs /\ projects[p].status \in {"pending", "active"}
    /\ nextPj \in 1..MaxPj + 1 /\ nextKey \in 1..MaxKeys + 1
    /\ apiKeys \subseteq [id : KeyIds, hash : KeyIds \cup {SeedHash}, project : PjIds,
                          name : {"setup", "named", "declared"}]
    /\ dependents \in [PjIds -> SUBSET DepKinds]
    /\ booting \in BOOLEAN /\ pjClock \in 0..PjMaxTime /\ pjStops \in 0..MaxPjStops
    /\ touchQueue \subseteq KeyIds /\ touchLost \subseteq KeyIds
    /\ {seenAt, lastUsed, lastAuth} \subseteq [KeyIds -> NotUsed..PjMaxTime]

\* No key or rule outlives its project, even when its request checked
\* the project before the delete and inserted after it (the check and the
\* insert of CreateAPIKey, and of the setup flow, are separate steps; the
\* foreign keys settle the race).
NoRowsWithoutProject ==
    /\ \A k \in apiKeys : Exists(k.project)
    /\ \A p \in PjIds : dependents[p] # {} => Exists(p)

\* A key a client was given keeps authorizing until someone revokes it or its
\* project is deleted: no restart, rotation, seeding or refused project
\* delete takes it away.
KeysWorkUntilRevoked ==
    \A h \in handedOut : \E k \in apiKeys : k.hash = h.hash /\ k.project = h.project

\* A project a client created through the setup flow stays pending until an
\* operator approves it: seeding never re-activates one.
PendingUntilApproved ==
    \A p \in PjIds : projects[p].status = "active" => p \in vouched

\* POST /setup mints a key only for a new slug, so a project has at most one
\* setup key, unless two such requests for the slug ran side by side.
OneSetupKey ==
    \A p \in PjIds :
        projects[p].slug \notin overlapped =>
            Cardinality({k \in KeysOf(p) : k.name = "setup"}) <= 1

\* A key in use shows it: once its published touches are applied, last_used_at
\* trails the last authorization on a reader pod by less than the coalescing
\* interval, unless the latest touch was lost on its way.
UsageFresh ==
    \A k \in apiKeys :
        lastAuth[k.id] # NotUsed /\ k.id \notin touchLost \cup touchQueue =>
            lastAuth[k.id] - lastUsed[k.id] < TouchInterval /\ lastUsed[k.id] # NotUsed

\* Projects and keys stay consistent under concurrent setup, seeding, deletes
\* and restarts, and a key's last use is shown in time (repo_projects.go,
\* setup.go).
ProjectsInv ==
    /\ PjTypeOK
    /\ NoRowsWithoutProject
    /\ KeysWorkUntilRevoked
    /\ PendingUntilApproved
    /\ OneSetupKey
    /\ UsageFresh
=============================================================================
