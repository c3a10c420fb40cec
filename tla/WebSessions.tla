---------------------------- MODULE WebSessions ----------------------------
(***************************************************************************)
(* Token-bound web sessions: SessionService (api/sessions.go) over the     *)
(* web_sessions table (repo_sessions.go), the refresh_token grant against  *)
(* the issuer (auth/oidc.go), logout, back-channel logout, and the         *)
(* read-only replicas that serve but cannot refresh.                       *)
(*                                                                         *)
(* One OIDC session.  Tokens are numbers: the issuer rotates the refresh   *)
(* token with every grant and treats a second use as a replay, which       *)
(* revokes the family (the contract Refresh states).  Requests run         *)
(* concurrently; the singleflight lets one of them refresh.                *)
(***************************************************************************)
EXTENDS Integers, FiniteSets

CONSTANTS
    SesReqs,      \* request goroutines
    SesMaxTime, AccessTTL, AccessSkew, SesGrace, SesTTL,
    MaxGrants,    \* bound on the tokens issued
    MaxSesFaults  \* bound on lost answers, failed writes and restarts

ASSUME SessionAssumption ==
    {AccessTTL, SesGrace, SesTTL} \subseteq Nat \ {0} /\ AccessSkew \in 0..(AccessTTL - 1)

VARIABLES
    sesClock,
    signIn,     \* the OIDC sign-in
    sesRow,     \* the web_sessions row, or NoRow
    req,        \* what each request is doing
    grant,      \* the flight of the session: the grant that is running
    issuer,     \* the issuer's side
    logoutStep, \* a logout between its steps
    sesFaults,
    serve,      \* the request the last step served, if any
    deleted,    \* the row has been deleted (history)
    failedAt    \* the first failed refresh the store recorded since the last good one (history)

sesVars == <<sesClock, signIn, sesRow, req, grant, issuer, logoutStep, sesFaults, serve, deleted, failedAt>>

NoRow == [token |-> 0, renew |-> FALSE, accessExp |-> 0, absExp |-> 0, failing |-> -1]
NoGrant == [state |-> "none", cur |-> NoRow, answer |-> "none", exp |-> 0, members |-> {}]
NoServe == [at |-> -1, by |-> "none", exp |-> 0, loaded |-> -1, since |-> -1]
NoReq == [pc |-> "idle", stale |-> 0, forced |-> FALSE, loaded |-> -1]

SesInit ==
    /\ sesClock = 0 /\ signIn = "none" /\ sesRow = NoRow
    /\ req = [r \in SesReqs |-> NoReq] /\ grant = NoGrant
    /\ issuer = [token |-> 0, revokedAt |-> -1, allowed |-> TRUE, replayed |-> FALSE, unsaved |-> FALSE]
    /\ logoutStep = "none" /\ sesFaults = 0 /\ serve = NoServe /\ deleted = FALSE /\ failedAt = -1

\* The step serves no request.
Quiet == serve' = NoServe

-----------------------------------------------------------------------------
(* The store (repo_sessions.go). *)

DeleteWebSession == sesRow' = NoRow /\ deleted' = TRUE

\* A write, or a call, may fail.
CallEnds(ok) ==
    /\ ok \/ sesFaults < MaxSesFaults
    /\ sesFaults' = IF ok THEN sesFaults ELSE sesFaults + 1

\* The service ignores, or only logs, the error of a delete.
TryDelete(ok) == CallEnds(ok) /\ IF ok THEN DeleteWebSession ELSE UNCHANGED <<sesRow, deleted>>

\* The step writes nothing to the store.
NoWrite == UNCHANGED <<sesRow, deleted, sesFaults>>

\* Mutant: the rotated tokens are written with an upsert.
UpdateWebSessionTokens_Upsert(new) == sesRow' = new

\* UpdateWebSessionTokens: an UPDATE that expects its row.
UpdateWebSessionTokens(new) == sesRow' = IF sesRow = NoRow THEN NoRow ELSE new

\* Mutant: every failure moves the stamp.
MarkWebSessionRefreshFailing_Latest == sesRow' = IF sesRow = NoRow THEN NoRow ELSE [sesRow EXCEPT !.failing = sesClock]

\* MarkWebSessionRefreshFailing: only the first failure is stamped.
MarkWebSessionRefreshFailing ==
    sesRow' = IF sesRow # NoRow /\ sesRow.failing = -1 THEN [sesRow EXCEPT !.failing = sesClock] ELSE sesRow

-----------------------------------------------------------------------------
(* Signing in. *)

\* handleOIDCLogin leaves state, verifier and nonce in cookies.
HandleOIDCLogin ==
    /\ signIn = "none" /\ signIn' = "redirected"
    /\ Quiet /\ UNCHANGED <<sesClock, sesRow, req, grant, issuer, logoutStep, sesFaults, deleted, failedAt>>

\* handleOIDCCallback: the code is good for one exchange, whose tokens Create
\* stores; without offline_access there is no refresh token.  A user outside
\* the group, or a failed exchange, gets no session.
HandleOIDCCallback(exchanged, renew) ==
    /\ signIn = "redirected" /\ signIn' = "done"
    /\ IF exchanged /\ issuer.allowed
       THEN /\ issuer' = [issuer EXCEPT !.token = 1]
            /\ sesRow' = [token |-> 1, renew |-> renew, accessExp |-> sesClock + AccessTTL,
                          absExp |-> sesClock + SesTTL, failing |-> -1]
       ELSE UNCHANGED <<issuer, sesRow>>
    /\ Quiet /\ UNCHANGED <<sesClock, req, grant, logoutStep, sesFaults, deleted, failedAt>>

-----------------------------------------------------------------------------
(* Requests. *)

\* Mutant: the cap is left to the pruning.
Capped_Never == FALSE

\* load: the absolute cap.
Capped == sesClock >= sesRow.absExp

\* Mutant: the access token is not looked at.
AccessExpired_Never(ws) == FALSE

\* accessExpired.
AccessExpired(ws) == sesClock + AccessSkew >= ws.accessExp

\* A request, loaded at loaded, passes with the session ws; since is when
\* refreshes began to fail.
Served(by, ws, loaded, since) ==
    serve' = [at |-> sesClock, by |-> by, exp |-> ws.accessExp, loaded |-> loaded, since |-> since]

\* The request goes on to refreshSession with the access token it has seen.
GoesToRefresh(r, force) ==
    req' = [req EXCEPT ![r] = [pc |-> "refresh", stale |-> sesRow.token, forced |-> force, loaded |-> sesClock]]

\* load finds the row; one past its cap is deleted and the request refused.
Load(r, ok, Use) ==
    /\ req[r].pc = "idle" /\ sesRow # NoRow
    /\ IF Capped THEN TryDelete(ok) /\ Quiet /\ UNCHANGED req
       ELSE ok /\ Use /\ NoWrite
    /\ UNCHANGED <<sesClock, signIn, grant, issuer, logoutStep, failedAt>>

\* SessionMiddleware and Authenticate, up to the refresh.
Authenticate(r, ok) ==
    Load(r, ok, IF AccessExpired(sesRow) THEN GoesToRefresh(r, FALSE) /\ Quiet
                ELSE Served("fresh", sesRow, sesClock, -1) /\ UNCHANGED req)

\* handleSessionRefresh, RefreshNow: a refresh whatever the expiry says.
RefreshNow(r, ok) == Load(r, ok, GoesToRefresh(r, TRUE) /\ Quiet)

\* handleIAMProxy: the middleware lets the request pass, the issuer rejects
\* the stored access token, and the shared refresh runs.
IAMProxy(r, ok) ==
    Load(r, ok, ~AccessExpired(sesRow) /\ Served("fresh", sesRow, sesClock, -1) /\ GoesToRefresh(r, TRUE))

\* Mutant: the replica serves whatever it finds.
ServeStaleReadOnly_Always(ws) == TRUE

\* serveStaleReadOnly.
ServeStaleReadOnly(ws) == sesClock <= ws.accessExp + SesGrace

\* Authenticate on a replica that mounts the database read-only.  It depends
\* on the row and the time alone, so it is taken between the writer's requests.
AuthenticateReplica ==
    /\ \A r \in SesReqs : req[r].pc = "idle"
    /\ sesRow # NoRow /\ ~Capped
    /\ AccessExpired(sesRow) => ServeStaleReadOnly(sesRow)
    /\ Served("replica", sesRow, sesClock, -1)
    /\ UNCHANGED <<sesClock, signIn, sesRow, req, grant, issuer, logoutStep, sesFaults, deleted, failedAt>>

\* Mutant: the flight works on the row its request had loaded.
CurrentRow_Loaded(r) == [sesRow EXCEPT !.token = req[r].stale]

\* refreshSession reads the row again inside the flight.
CurrentRow(r) == sesRow

\* The request that joins or leads ends: with the fresh row, or without.
Ends(r) == req' = [req EXCEPT ![r] = NoReq]

\* refreshSession: the first request becomes the flight and the others wait
\* for it; no grant is needed when the tokens were rotated meanwhile, and none
\* is possible without a refresh token.
RefreshSession(r, ok) ==
    /\ req[r].pc = "refresh"
    /\ LET cur == CurrentRow(r)
           rotated == cur.token # req[r].stale
           alone == grant.state = "none"
       IN CASE ~alone ->
                 /\ grant' = [grant EXCEPT !.members = @ \cup {r}]
                 /\ req' = [req EXCEPT ![r].pc = "wait"] /\ Quiet /\ ok /\ NoWrite
            [] alone /\ sesRow = NoRow -> Ends(r) /\ Quiet /\ ok /\ NoWrite /\ UNCHANGED grant
            [] alone /\ sesRow # NoRow /\ rotated ->
                 Ends(r) /\ Served("renewed", cur, req[r].loaded, -1) /\ ok /\ NoWrite /\ UNCHANGED grant
            [] alone /\ sesRow # NoRow /\ ~rotated /\ ~cur.renew ->
                 Ends(r) /\ TryDelete(ok) /\ Quiet /\ UNCHANGED grant
            [] OTHER ->
                 /\ grant' = [NoGrant EXCEPT !.state = "sent", !.cur = cur, !.members = {r}]
                 /\ req' = [req EXCEPT ![r].pc = "wait"] /\ Quiet /\ ok /\ NoWrite
    /\ UNCHANGED <<sesClock, signIn, issuer, logoutStep, failedAt>>

\* The issuer answers a refresh_token grant; only an answer with an id_token
\* carries the claims that performRefresh checks.
IssuerAnswers(token, claims) ==
    IF issuer.revokedAt # -1 THEN [issuer |-> issuer, answer |-> "invalid"]
    ELSE IF token # issuer.token
         THEN [issuer |-> [issuer EXCEPT !.replayed = TRUE, !.revokedAt = sesClock], answer |-> "invalid"]
         ELSE [issuer |-> [issuer EXCEPT !.token = @ + 1], answer |-> IF claims => issuer.allowed THEN "ok" ELSE "denied"]

\* The bound on the tokens: the answer would not be one token too many.
MayIssue == grant.cur.token = issuer.token /\ issuer.revokedAt = -1 => issuer.token < MaxGrants

\* Refresh: the grant reaches the issuer and its answer comes back; the new
\* access token's life starts here.
GrantAnswered ==
    /\ grant.state = "sent" /\ MayIssue
    /\ \E claims \in BOOLEAN : LET a == IssuerAnswers(grant.cur.token, claims) IN
       /\ issuer' = a.issuer
       /\ grant' = [grant EXCEPT !.state = "answered", !.answer = a.answer, !.exp = sesClock + AccessTTL]
    /\ Quiet /\ UNCHANGED <<sesClock, signIn, sesRow, req, logoutStep, sesFaults, deleted, failedAt>>

\* Refresh fails on the way: before the issuer sees it, or after (a timeout,
\* or the request that leads the flight is cancelled).
GrantLost(reached) ==
    /\ grant.state = "sent"
    /\ reached => MayIssue /\ sesFaults < MaxSesFaults
    /\ sesFaults' = IF reached THEN sesFaults + 1 ELSE sesFaults
    /\ issuer' = IF reached THEN [IssuerAnswers(grant.cur.token, FALSE).issuer EXCEPT !.unsaved = TRUE] ELSE issuer
    /\ grant' = [grant EXCEPT !.state = "answered", !.answer = "transient"]
    /\ Quiet /\ UNCHANGED <<sesClock, signIn, sesRow, req, logoutStep, deleted, failedAt>>

\* Authenticate after a transient failure: grace from the first failure.
WithinGrace(ws) == sesClock - (IF ws.failing = -1 THEN sesClock ELSE ws.failing) <= SesGrace

\* The answer spent the token, and the row still has it.
Spent == grant.answer \in {"ok", "denied"}

\* performRefresh stores the outcome, or fails to, and every waiting request
\* gets it.  A failed mark or delete is ignored; a forced refresh serves
\* nothing stale.
PerformRefresh(stored) ==
    /\ grant.state = "answered"
    /\ CallEnds(stored)
    /\ LET cur == grant.cur
           new == [cur EXCEPT !.token = issuer.token, !.accessExp = grant.exp, !.failing = -1]
           waiting == {r \in grant.members : ~req[r].forced}
           Pass(by, ws, since) == IF waiting = {} THEN Quiet
                                  ELSE \E r \in waiting : Served(by, ws, req[r].loaded, since)
       IN CASE grant.answer = "ok" /\ stored ->
                 /\ UpdateWebSessionTokens(new) /\ failedAt' = -1 /\ UNCHANGED deleted
                 /\ IF sesRow # NoRow THEN Pass("renewed", new, -1) ELSE Quiet
            [] grant.answer = "ok" /\ ~stored -> Quiet /\ UNCHANGED <<sesRow, deleted, failedAt>>
            [] grant.answer = "transient" ->
                 /\ IF stored THEN MarkWebSessionRefreshFailing ELSE UNCHANGED sesRow
                 /\ failedAt' = IF failedAt = -1 /\ stored THEN sesClock ELSE failedAt
                 /\ IF WithinGrace(cur) THEN Pass("stale", cur, IF failedAt' = -1 THEN sesClock ELSE failedAt') ELSE Quiet
                 /\ UNCHANGED deleted
            [] OTHER -> (IF stored THEN DeleteWebSession ELSE UNCHANGED <<sesRow, deleted>>) /\ Quiet /\ UNCHANGED failedAt
    /\ req' = [r \in SesReqs |-> IF r \in grant.members THEN NoReq ELSE req[r]]
    /\ grant' = NoGrant
    /\ issuer' = IF ~stored /\ Spent THEN [issuer EXCEPT !.unsaved = TRUE] ELSE issuer
    /\ UNCHANGED <<sesClock, signIn, logoutStep>>

-----------------------------------------------------------------------------
(* The end of a session. *)

\* Logout has read the row and revokes its refresh token, best effort ...
LogoutRevokes(reached) ==
    /\ logoutStep = "none" /\ sesRow # NoRow
    /\ logoutStep' = "revoked" /\ CallEnds(reached)
    /\ issuer' = IF reached /\ issuer.revokedAt = -1 THEN [issuer EXCEPT !.revokedAt = sesClock] ELSE issuer
    /\ Quiet /\ UNCHANGED <<sesClock, signIn, sesRow, req, grant, deleted, failedAt>>

\* ... and deletes the row, or logs that it could not.
LogoutDeletes(ok) ==
    /\ logoutStep = "revoked" /\ logoutStep' = "none"
    /\ TryDelete(ok)
    /\ Quiet /\ UNCHANGED <<sesClock, signIn, req, grant, issuer, failedAt>>

\* The issuer revokes the session, or takes the user out of the group ...
CentralRevocation ==
    /\ issuer.revokedAt = -1 /\ issuer.token > 0 /\ issuer' = [issuer EXCEPT !.revokedAt = sesClock]
    /\ Quiet /\ UNCHANGED <<sesClock, signIn, sesRow, req, grant, logoutStep, sesFaults, deleted, failedAt>>

LeavesGroup ==
    /\ issuer.allowed /\ issuer.revokedAt = -1 /\ signIn # "none"
    /\ issuer' = [issuer EXCEPT !.allowed = FALSE]
    /\ Quiet /\ UNCHANGED <<sesClock, signIn, sesRow, req, grant, logoutStep, sesFaults, deleted, failedAt>>

\* ... and its back-channel logout token arrives, sooner, later or never
\* (handleBackchannelLogout, RevokeByIdpSid, RevokeByIdpSub).
BackchannelLogout ==
    /\ issuer.revokedAt # -1 /\ sesRow # NoRow
    /\ DeleteWebSession
    /\ Quiet /\ UNCHANGED <<sesClock, signIn, req, grant, issuer, logoutStep, sesFaults, failedAt>>

\* DeleteExpiredWebSessions.
PruneSessions ==
    /\ sesRow # NoRow /\ sesRow.absExp < sesClock
    /\ DeleteWebSession
    /\ Quiet /\ UNCHANGED <<sesClock, signIn, req, grant, issuer, logoutStep, sesFaults, failedAt>>

\* The writer restarts: requests and the flight are gone.
SesRestart ==
    /\ sesFaults < MaxSesFaults /\ sesFaults' = sesFaults + 1
    /\ req' = [r \in SesReqs |-> NoReq] /\ grant' = NoGrant /\ logoutStep' = "none"
    /\ issuer' = IF grant.state = "answered" /\ Spent THEN [issuer EXCEPT !.unsaved = TRUE] ELSE issuer
    /\ Quiet /\ UNCHANGED <<sesClock, signIn, sesRow, deleted, failedAt>>

\* Time passes, under a request that waits for the issuer and the store too,
\* once at most: a unit is longer than a request (the client's timeout is ten
\* seconds, the skew thirty).
SesTick ==
    /\ sesClock < SesMaxTime /\ signIn = "done"
    /\ \A r \in SesReqs : req[r].pc = "idle" \/ (req[r].pc = "wait" /\ req[r].loaded = sesClock)
    /\ sesClock' = sesClock + 1 /\ Quiet
    /\ UNCHANGED <<signIn, sesRow, req, grant, issuer, logoutStep, sesFaults, deleted, failedAt>>

SesNext ==
    \/ HandleOIDCLogin \/ \E reached, renew \in BOOLEAN : HandleOIDCCallback(reached, renew)
    \/ \E r \in SesReqs, b \in BOOLEAN : Authenticate(r, b) \/ RefreshNow(r, b) \/ IAMProxy(r, b) \/ RefreshSession(r, b)
    \/ AuthenticateReplica \/ GrantAnswered
    \/ \E b \in BOOLEAN : GrantLost(b) \/ PerformRefresh(b) \/ LogoutRevokes(b) \/ LogoutDeletes(b)
    \/ CentralRevocation \/ LeavesGroup \/ BackchannelLogout \/ PruneSessions
    \/ SesRestart \/ SesTick

SesSpec == SesInit /\ [][SesNext]_sesVars

-----------------------------------------------------------------------------
(* Properties. *)

\* The state is well formed, and a flight has a request that waits for it.
SesTypeOK ==
    /\ sesRow = NoRow \/ (sesRow.token \in 1..MaxGrants /\ sesRow.absExp = SesTTL)
    /\ grant.state \in {"none", "sent", "answered"}
    /\ grant.state # "none" <=> grant.members # {}
    /\ \A r \in SesReqs : req[r].pc = "wait" <=> r \in grant.members

\* A refresh token is never spent twice, however many requests, forced
\* refreshes and replicas meet an expired token: a replay revokes the whole
\* family.  The exceptions are those in which the row still has a token the
\* issuer has seen: the answer was lost, or its outcome (the new tokens, or
\* the delete after a denied user) could not be written.
NoReplay == issuer.replayed => issuer.unsaved

\* A session whose row was deleted (logout, back-channel logout, a dead token,
\* the cap, pruning) never comes back, also when a refresh was running.
NoResurrection == deleted => sesRow = NoRow

\* Nobody is let in past the cap.  The writer serves on a token that does not
\* expire within the skew, on one renewed during the request that has not
\* expired, or on a stale one for no longer than the grace from the first
\* failure; a replica serves for no longer than the grace from the expiry.
\* The first failure is the first that the store recorded: the error of a
\* failed mark is ignored, and the grace starts again with the next one.
ServedWithinGrace ==
    serve.at # -1 =>
        /\ serve.loaded < SesTTL
        /\ serve.by = "fresh" => serve.at + AccessSkew < serve.exp
        /\ serve.by = "renewed" => serve.at <= serve.exp
        /\ serve.by = "stale" => serve.at - serve.since <= SesGrace
        /\ serve.by = "replica" => serve.at <= serve.exp + SesGrace

\* A revocation at the issuer reaches every request even if no back-channel
\* logout arrives: on the writer within the life of an access token as long as
\* the issuer answers, on a replica within that and the grace.
RevocationBites ==
    serve.at # -1 /\ issuer.revokedAt # -1 =>
        /\ serve.by \in {"fresh", "renewed"} => serve.at <= issuer.revokedAt + AccessTTL
        /\ serve.by = "replica" => serve.at <= issuer.revokedAt + AccessTTL + SesGrace

\* Web sessions on the writer and its replicas: no token is replayed, no dead
\* session returns, nobody is served past the cap or the grace, and a
\* revocation bites (sessions.go, repo_sessions.go).
SessionsInv ==
    /\ SesTypeOK
    /\ NoReplay
    /\ NoResurrection
    /\ ServedWithinGrace
    /\ RevocationBites
=============================================================================
