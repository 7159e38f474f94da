---------------------------- MODULE SessionRotation ----------------------------
(***************************************************************************)
(* The auth_sessions rows of one user and the requests of AuthService and  *)
(* SessionService that change them: login, refresh (token rotation),       *)
(* logout, heartbeat, and the check every authenticated request makes.     *)
(*                                                                         *)
(* A session row stands for the refresh token whose hash it holds, so a    *)
(* request presents a row's number.  A family is the rows that descend     *)
(* from one login and is named by its first row.  As everywhere in the     *)
(* backend, each awaited PostgREST call is a step of its own.              *)
(*                                                                         *)
(* Abstracted: other users (no call touches two), hashes, the audit log,   *)
(* suspicious-login scoring, the access token's signature.  What the rate  *)
(* limits count is RateLimiter's; here any request may be over a "limit".  *)
(***************************************************************************)
EXTENDS Naturals

CONSTANTS
    Requests,       \* slots for requests in flight
    MaxSessions,    \* bound on the rows ever inserted
    Lifetime,       \* REFRESH_TOKEN_TTL and ABSOLUTE_SESSION_MS, one constant
    IdleTimeout,
    MaxTime,        \* bound on the clock
    Faults          \* "abort": a request dies between two calls;
                    \* "read", "write": a call answers an error;
                    \* "limit": a request is over a rate limit;
                    \* "caught": a logout throws and catches it

ASSUME SessionAssumption ==
    /\ MaxSessions \in Nat
    /\ Lifetime \in Nat \ {0}
    /\ IdleTimeout \in Nat
    /\ MaxTime \in Nat
    /\ Faults \subseteq {"abort", "read", "write", "limit", "caught",
                        "network", "slow", "crash"}

VARIABLES
    now,
    sessions,   \* auth_sessions, by insertion number
    issued,     \* how many rows were inserted
    pc,         \* what each request does when its pending await returns
    req         \* the local variables of each request

sessionVars == << now, sessions, issued, pc, req >>

-------------------------------------------------------------------------------
NoSession == 0
Ids == 1..MaxSessions
Issued == 1..issued
Times == 0..MaxTime
Expiries == 0..(MaxTime + Lifetime)

SessionRow == [family : Ids \cup {NoSession}, created : Times, expires : Expiries,
               active : Times, revoked : BOOLEAN]

\* "idle": the last request answered 2xx; "refused": it answered 401;
\* "throttled": it answered 429; "failed": it died, or threw anything else.
Resting == {"idle", "refused", "throttled", "failed"}
Working == {"family", "resolve", "recheck", "supersede", "insert", "touch",
            "revokeFamily", "revoke", "revokeAll"}
Goals == {"login", "refresh", "logout", "check"}

\* session is the row the request works on (of a resting slot: the one it
\* answered with); started is familyStartedAt; active is lastActiveAt.
Request == [goal : Goals, session : Ids \cup {NoSession}, family : Ids \cup {NoSession},
            started : Times, active : Times, expires : Expiries, all : BOOLEAN]

TypeOK ==
    /\ now \in Times
    /\ issued \in 0..MaxSessions
    /\ sessions \in [Ids -> SessionRow]
    /\ pc \in [Requests -> Resting \cup Working]
    /\ req \in [Requests -> Request]

BlankRow == [family |-> NoSession, created |-> 0, expires |-> 0, active |-> 0,
             revoked |-> TRUE]

NewRequest(g, s, f, active, expires, all) ==
    [goal |-> g, session |-> s, family |-> f, started |-> 0, active |-> active,
     expires |-> expires, all |-> all]
Answering(s) == NewRequest("check", s, NoSession, 0, 0, FALSE)
Blank == Answering(NoSession)

Init ==
    /\ now = 0
    /\ issued = 0
    /\ sessions = [s \in Ids |-> BlankRow]
    /\ pc = [r \in Requests |-> "idle"]
    /\ req = [r \in Requests |-> Blank]

-------------------------------------------------------------------------------
Live(s) == s \in Issued /\ ~sessions[s].revoked
Kin(s, x) == sessions[s].family = sessions[x].family
Family(f) == {s \in Issued : sessions[s].family = f}

Start(r, next, q) ==
    /\ pc[r] \in Resting
    /\ pc' = [pc EXCEPT ![r] = next]
    /\ req' = [req EXCEPT ![r] = q]

Goto(r, from, to) ==
    /\ pc[r] = from
    /\ pc' = [pc EXCEPT ![r] = to]

Rest(r, outcome, s) ==
    /\ pc' = [pc EXCEPT ![r] = outcome]
    /\ req' = [req EXCEPT ![r] = Answering(s)]

RevokedRow(row) == [row EXCEPT !.revoked = TRUE]
TouchedRow(row) == [row EXCEPT !.active = now]

\* update ... set revoked_at where <rows> (and revoked_at is null).
Revoke(set) ==
    sessions' = [s \in Ids |-> IF s \in set THEN RevokedRow(sessions[s]) ELSE sessions[s]]

\* update last_active_at where id = s and revoked_at is null.
Touched(s) ==
    [x \in Ids |-> IF x = s /\ Live(s) THEN TouchedRow(sessions[x]) ELSE sessions[x]]

Tick ==
    /\ now < MaxTime
    /\ now' = now + 1
    /\ UNCHANGED << sessions, issued, pc, req >>

-------------------------------------------------------------------------------
(* establishSession, and the two ways a request names a session: by its refresh
   token, and by an access token *)

Login(expires) == NewRequest("login", NoSession, NoSession, 0, expires, FALSE)

\* createRefreshToken fixes the expiry before the insert is awaited.
LoginStart(r) ==
    /\ Start(r, "insert", Login(now + Lifetime))
    /\ UNCHANGED << now, sessions, issued >>

Naming(s, g, all) ==
    NewRequest(g, s, sessions[s].family, sessions[s].active, 0, all)

\* findValidSession: the row of the refresh token that was presented.
FindRevoked(r, s) ==
    /\ s \in Issued
    /\ sessions[s].revoked
    /\ Start(r, "revokeFamily", Naming(s, "refresh", FALSE))
    /\ UNCHANGED << now, sessions, issued >>

\* Turned away before anything is done.
TurnAway(r, s, answer) ==
    /\ s \in Issued
    /\ Start(r, answer, Blank)
    /\ UNCHANGED << now, sessions, issued >>

\* Over a limit: the ThrottlerGuard's, or refresh's own assertAllowed.  Both are
\* asked before the session is looked at.
Throttled(r, s) ==
    /\ "limit" \in Faults
    /\ TurnAway(r, s, "throttled")

\* Without a valid access token the JwtAuthGuard looks no further.
Unauthenticated(r, s) == TurnAway(r, s, "refused")

\* A select that answers an error is taken for an unknown or revoked session.
SelectFails(r, s) ==
    /\ "read" \in Faults
    /\ TurnAway(r, s, "refused")

FindExpired(r, s) ==
    /\ Live(s)
    /\ sessions[s].expires < now
    /\ TurnAway(r, s, "refused")

\* Mutated: a superseded token is still good until it expires.
FindValidRevokedToo(r, s) ==
    /\ s \in Issued
    /\ sessions[s].expires >= now
    /\ Start(r, "family", Naming(s, "refresh", FALSE))
    /\ UNCHANGED << now, sessions, issued >>

FindValid(r, s) ==
    /\ Live(s)
    /\ sessions[s].expires >= now
    /\ Start(r, "family", Naming(s, "refresh", FALSE))
    /\ UNCHANGED << now, sessions, issued >>

Refresh(r, s) ==
    \/ Throttled(r, s)
    \/ FindRevoked(r, s)
    \/ FindExpired(r, s)
    \/ FindValid(r, s)
    \/ SelectFails(r, s)

\* assertSessionActive, for the session an access token names: neither the row's
\* own expiry nor idleness is asked.
SessionActive(r, s, g, all) ==
    /\ Live(s)
    /\ Start(r, "family", Naming(s, g, all))
    /\ UNCHANGED << now, sessions, issued >>

SessionRevoked(r, s) ==
    /\ s \in Issued
    /\ sessions[s].revoked
    /\ TurnAway(r, s, "refused")

\* The guards of a request with a valid access token: the ThrottlerGuard, then
\* the JwtAuthGuard.
Admit(r, s, g, all) ==
    \/ Throttled(r, s)
    \/ SessionRevoked(r, s)
    \/ SessionActive(r, s, g, all)
    \/ SelectFails(r, s)

Check(r, s) == Admit(r, s, "check", FALSE)

\* Not a @Public route: what the guards let through is revoked below.
Logout(r, s, all) == Admit(r, s, "logout", all)

-------------------------------------------------------------------------------
(* getFamilyStartedAt and the absolute cap *)

Dated(q, t) == [q EXCEPT !.started = t]
Expiring(q, t) == [q EXCEPT !.expires = t]
WithSession(q, s) == [q EXCEPT !.session = s]

StartedAt(r, t) ==
    \/ /\ t + Lifetime < now
       /\ Goto(r, "family", "revokeFamily")
       /\ UNCHANGED req
    \/ /\ t + Lifetime >= now
       /\ req[r].goal = "check"
       /\ Rest(r, "idle", req[r].session)
    \/ /\ t + Lifetime >= now
       /\ req[r].goal # "check"
       /\ Goto(r, "family", IF req[r].goal = "refresh" THEN "resolve" ELSE "revoke")
       /\ req' = [req EXCEPT ![r] = Dated(req[r], t)]

ReadFamily(r) ==
    /\ pc[r] = "family"
    /\ \E s \in Family(req[r].family) :
         /\ \A x \in Family(req[r].family) : sessions[s].created <= sessions[x].created
         /\ StartedAt(r, sessions[s].created)
    /\ UNCHANGED << now, sessions, issued >>

\* The select's error is not looked at: the family is taken to start now.
ReadFamilyFails(r) ==
    /\ "read" \in Faults
    /\ pc[r] = "family"
    /\ StartedAt(r, now)
    /\ UNCHANGED << now, sessions, issued >>

-------------------------------------------------------------------------------
(* refresh, rotateSession *)

\* Mutated: idle while there was activity within the timeout.
IsIdleSwapped(r) == now <= req[r].active + IdleTimeout

IsIdle(r) == now > req[r].active + IdleTimeout

Resolve(r) ==
    /\ pc[r] = "resolve"
    /\ IF IsIdle(r)
       THEN Rest(r, "refused", NoSession)
       ELSE /\ pc' = [pc EXCEPT ![r] = "recheck"]
            /\ req' = [req EXCEPT ![r] = Expiring(req[r], now + Lifetime)]
    /\ UNCHANGED << now, sessions, issued >>

\* Mutated: the cap extends the expiry instead of bounding it.
CappedOnTop(q) == q.expires + Lifetime

Capped(q) ==
    IF q.started + Lifetime < q.expires THEN q.started + Lifetime ELSE q.expires

\* Mutated: the successor gets a full lifetime of its own.
RecheckUncapped(r) ==
    /\ pc[r] = "recheck"
    /\ IF Capped(req[r]) <= now
       THEN Goto(r, "recheck", "revokeFamily") /\ UNCHANGED req
       ELSE Goto(r, "recheck", "supersede") /\ UNCHANGED req
    /\ UNCHANGED << now, sessions, issued >>

\* The row is read again by its id and its hash compared with the token's.
\* The hash of a row never changes: the comparison only fails on an error.
Recheck(r) ==
    /\ pc[r] = "recheck"
    /\ IF Capped(req[r]) <= now
       THEN Goto(r, "recheck", "revokeFamily") /\ UNCHANGED req
       ELSE /\ Goto(r, "recheck", "supersede")
            /\ req' = [req EXCEPT ![r] = Expiring(req[r], Capped(req[r]))]
    /\ UNCHANGED << now, sessions, issued >>

RecheckFails(r) ==
    /\ "read" \in Faults
    /\ Goto(r, "recheck", "revokeFamily")
    /\ UNCHANGED << now, sessions, issued, req >>

\* Mutated: the old row is left as it was.
SupersedeNothing(r) ==
    /\ Goto(r, "supersede", "insert")
    /\ UNCHANGED << now, sessions, issued, req >>

Supersede(r) ==
    /\ Goto(r, "supersede", "insert")
    /\ Revoke({req[r].session})
    /\ UNCHANGED << now, issued, req >>

\* The update's error is not looked at.
SupersedeFails(r) ==
    /\ "write" \in Faults
    /\ Goto(r, "supersede", "insert")
    /\ UNCHANGED << now, sessions, issued, req >>

NewRow(q, id) ==
    [family |-> IF q.goal = "login" THEN id ELSE q.family,
     created |-> now, expires |-> q.expires, active |-> now, revoked |-> FALSE]

\* createSession, of a login or of a rotation.
Insert(r) ==
    /\ pc[r] = "insert"
    /\ issued < MaxSessions
    /\ issued' = issued + 1
    /\ sessions' = [sessions EXCEPT ![issued + 1] = NewRow(req[r], issued + 1)]
    /\ IF req[r].goal = "login"
       THEN Rest(r, "idle", issued + 1)
       ELSE /\ pc' = [pc EXCEPT ![r] = "touch"]
            /\ req' = [req EXCEPT ![r] = WithSession(req[r], issued + 1)]
    /\ UNCHANGED now

\* At its bound the table takes no more rows, so that requests still answer.
InsertFails(r) ==
    /\ "write" \in Faults \/ issued = MaxSessions
    /\ pc[r] = "insert"
    /\ Rest(r, "refused", NoSession)
    /\ UNCHANGED << now, sessions, issued >>

TouchSession(r) ==
    /\ pc[r] = "touch"
    /\ sessions' = Touched(req[r].session)
    /\ Rest(r, "idle", req[r].session)
    /\ UNCHANGED << now, issued >>

-------------------------------------------------------------------------------
(* The revocations; heartbeat; requests that die *)

RevokeFamily(r) ==
    /\ pc[r] = "revokeFamily"
    /\ Revoke(Family(req[r].family))
    /\ Rest(r, "refused", NoSession)
    /\ UNCHANGED << now, issued >>

AfterRevoke(r) ==
    IF req[r].all THEN Goto(r, "revoke", "revokeAll") /\ UNCHANGED req
                  ELSE Rest(r, "idle", NoSession)

\* Mutated: the session is only revoked along with all the others.
RevokeSessionOfAll(r) ==
    /\ pc[r] = "revoke"
    /\ AfterRevoke(r)
    /\ UNCHANGED << now, sessions, issued >>

RevokeSession(r) ==
    /\ pc[r] = "revoke"
    /\ Revoke({req[r].session})
    /\ AfterRevoke(r)
    /\ UNCHANGED << now, issued >>

RevokeAllForUser(r) ==
    /\ pc[r] = "revokeAll"
    /\ Revoke(Issued)
    /\ Rest(r, "idle", NoSession)
    /\ UNCHANGED << now, issued >>

\* Nor is the error of any other update: the request answers as if it was made.
UpdateFails(r) ==
    /\ "write" \in Faults
    /\ \/ pc[r] = "touch" /\ Rest(r, "idle", req[r].session)
       \/ pc[r] = "revokeFamily" /\ Rest(r, "refused", NoSession)
       \/ pc[r] = "revoke" /\ AfterRevoke(r)
       \/ pc[r] = "revokeAll" /\ Rest(r, "idle", NoSession)
    /\ UNCHANGED << now, sessions, issued >>

\* What logout throws, it catches: an access token that ran out after the guard
\* saw it is not verified again, and the answer is a success.
LogoutCaught(r) ==
    /\ "caught" \in Faults
    /\ pc[r] \in {"revoke", "revokeAll"}
    /\ Rest(r, "idle", NoSession)
    /\ UNCHANGED << now, sessions, issued >>

\* A single awaited call, so it needs no slot.
Heartbeat(s) ==
    /\ Live(s)
    /\ sessions' = Touched(s)
    /\ UNCHANGED << now, issued, pc, req >>

Abort(r) ==
    /\ "abort" \in Faults
    /\ pc[r] \in Working
    /\ Rest(r, "failed", NoSession)
    /\ UNCHANGED << now, sessions, issued >>

\* What a request does once it has reached the backend.
Proceed(r) ==
    \/ ReadFamily(r)
    \/ Resolve(r)
    \/ Recheck(r)
    \/ Supersede(r)
    \/ Insert(r)
    \/ TouchSession(r)
    \/ RevokeFamily(r)
    \/ RevokeSession(r)
    \/ RevokeAllForUser(r)

GoWrong(r) ==
    \/ ReadFamilyFails(r)
    \/ RecheckFails(r)
    \/ SupersedeFails(r)
    \/ InsertFails(r)
    \/ UpdateFails(r)
    \/ LogoutCaught(r)
    \/ Abort(r)

Next ==
    \/ Tick
    \/ \E s \in Ids : Heartbeat(s)
    \/ \E r \in Requests : LoginStart(r) \/ Proceed(r) \/ GoWrong(r)
    \/ \E r \in Requests, s \in Ids : Refresh(r, s) \/ Check(r, s) \/ Unauthenticated(r, s)
    \/ \E r \in Requests, s \in Ids, all \in BOOLEAN : Logout(r, s, all)

Spec == Init /\ [][Next]_sessionVars

-------------------------------------------------------------------------------
(* Properties *)

\* No token outlives the absolute cap of the login it descends from, however
\* often it was rotated, and whatever else was going on meanwhile.
\* (rotateSession's cap; auth.constants.ts: "max lifetime from first login")
CapHolds ==
    \A s, x \in Issued : Kin(s, x) => sessions[s].expires <= sessions[x].created + Lifetime

\* A rotation leaves one usable token in a family, not two.
\* (rotateSession; one request at a time)
OneLiveToken ==
    \A s, x \in Issued : Live(s) /\ Live(x) /\ Kin(s, x) => s = x

\* A family that is about to get a row, or has a usable one.
Alive(f) ==
    \/ \E s \in Family(f) : Live(s)
    \/ \E r \in Requests : pc[r] = "insert" /\ req[r].goal # "login" /\ req[r].family = f

\* Once its last token is revoked, by a logout, by the cap or because a
\* superseded token came back, a family never has a usable one again.
\* (findValidSession, revokeFamily, revokeAllForUser; one request at a time)
FamilyStaysDead ==
    [][\A f \in Issued : ~Alive(f) => ~Alive(f)']_sessionVars
===============================================================================
