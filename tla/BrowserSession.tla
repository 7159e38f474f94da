----------------------------- MODULE BrowserSession -----------------------------
(***************************************************************************)
(* A logged-in browser against the sessions of SessionRotation: the tabs'  *)
(* refresh coordinator (authRefreshCoordinator.ts), the data requests that *)
(* the Next.js proxy refreshes on the server side (beProxy.ts), logout,    *)
(* and the one cookie jar that all of them share.                          *)
(*                                                                         *)
(* Every call, data request and logout has a slot of Requests, in which    *)
(* the backend runs what it sends.  The clock counts in units that make    *)
(* LOCK_STALE_MS a small number; on that scale sessions do not expire.     *)
(*                                                                         *)
(* Abstracted: CSRF, the session hint (as good as the jar), session        *)
(* metadata, 503 retries.  localStorage is taken to be atomic across tabs: *)
(* the code reads and writes the lock in one turn.                         *)
(***************************************************************************)
EXTENDS SessionRotation, FiniteSets

CONSTANTS
    Tabs,
    Calls,          \* slots for calls of coordinatedRefreshSession
    TabOf,          \* the tab of a call
    Data,           \* slots for data requests through the proxy
    Logouts,        \* slots for logouts
    LockStale,      \* LOCK_STALE_MS
    AskUntil,       \* bound: nothing new is sent after this time
    MaxInFlight,    \* bound on the slots in use at once
    NoCall, NoLock, Never

ASSUME BrowserAssumption ==
    /\ Requests = Calls \cup Data \cup Logouts /\ IsFiniteSet(Requests)
    /\ Calls \cap Data = {} /\ Calls \cap Logouts = {} /\ Data \cap Logouts = {}
    /\ TabOf \in [Calls -> Tabs]
    /\ LockStale \in Nat \ {0}
    /\ AskUntil \in Times
    /\ MaxInFlight \in Nat \ {0}
    /\ MaxSessions \in Nat \ {0}
    /\ NoCall \notin Calls /\ NoLock \notin [owner : Calls, at : Times] /\ Never \notin Times

VARIABLES
    jar,            \* the session cookies
    step,           \* how far each slot is
    carried,        \* the cookies its request was sent with
    lock,           \* localStorage capex.auth.refreshLock
    refreshedAt,    \* localStorage LS_SESSION_REFRESHED_AT
    flight,         \* inMemoryRefresh of a tab
    deadline,       \* of the wait of a call
    left            \* whether a logout succeeded

browserVars == << jar, step, carried, lock, refreshedAt, flight, deadline, left >>
vars == << sessionVars, browserVars >>

-------------------------------------------------------------------------------
Steps == {"rest", "joined", "waiting", "sent", "busy", "renewing", "orphan"}
Jar == [token : Ids \cup {NoSession}, expired : BOOLEAN]
NoJar == [token |-> NoSession, expired |-> TRUE]
Lock == [owner : Calls, at : Times]

BrowserTypeOK ==
    /\ TypeOK
    /\ jar \in Jar
    /\ step \in [Requests -> Steps]
    /\ carried \in [Requests -> Jar]
    /\ lock \in Lock \cup {NoLock}
    /\ refreshedAt \in Times \cup {Never}
    /\ flight \in [Tabs -> Calls \cup {NoCall}]
    /\ deadline \in [Calls -> 0..(MaxTime + LockStale)]
    /\ left \in BOOLEAN

\* One login has been made; its access token may have expired since.
BrowserInit ==
    /\ now = 0
    /\ issued = 1
    /\ sessions = [s \in Ids |->
                     IF s = 1 THEN [family |-> 1, created |-> 0, expires |-> Lifetime,
                                    active |-> 0, revoked |-> FALSE]
                              ELSE BlankRow]
    /\ pc = [r \in Requests |-> "idle"]
    /\ req = [r \in Requests |-> Blank]
    /\ jar \in [token : {1}, expired : BOOLEAN]
    /\ step = [r \in Requests |-> "rest"]
    /\ carried = [r \in Requests |-> NoJar]
    /\ lock = NoLock
    /\ refreshedAt = Never
    /\ flight = [t \in Tabs |-> NoCall]
    /\ deadline = [c \in Calls |-> 0]
    /\ left = FALSE

-------------------------------------------------------------------------------
AtRest == \A r \in Requests : step[r] = "rest"
Answered(r) == pc[r] \in Resting

Move(r, from, to) ==
    /\ step[r] = from
    /\ step' = [step EXCEPT ![r] = to]

\* The browser attaches the cookies when it sends the request.
Send(r) == carried' = [carried EXCEPT ![r] = jar]
Forget(r) == carried' = [carried EXCEPT ![r] = NoJar]

InFlight == Cardinality({r \in Requests : step[r] # "rest"})

\* The bounds: nothing new after AskUntil, beyond MaxInFlight, or when what is
\* under way may take the last of the MaxSessions rows.
MaySend ==
    /\ jar.token # NoSession
    /\ now <= AskUntil
    /\ InFlight < MaxInFlight
    /\ issued + InFlight < MaxSessions

NewJar(r) == [token |-> req[r].session, expired |-> FALSE]

Held == lock # NoLock /\ now < lock.at + LockStale
Free == lock # NoLock => now > lock.at + LockStale
Recent == refreshedAt # Never /\ now < refreshedAt + LockStale

-------------------------------------------------------------------------------
(* coordinatedRefreshSession *)

MayAsk(c) == step[c] = "rest" /\ MaySend

Join(c) ==
    /\ MayAsk(c)
    /\ flight[TabOf[c]] # NoCall
    /\ Move(c, "rest", "joined")
    /\ UNCHANGED << sessionVars, jar, carried, lock, refreshedAt, flight, deadline, left >>

\* Mutated: the deadline counts from the lock's time and from now.
WaitFromBoth(c) ==
    /\ MayAsk(c)
    /\ flight[TabOf[c]] = NoCall
    /\ Held
    /\ Move(c, "rest", "waiting")
    /\ deadline' = [deadline EXCEPT ![c] = now + lock.at + LockStale]
    /\ UNCHANGED << sessionVars, jar, carried, lock, refreshedAt, flight, left >>

Wait(c) ==
    /\ MayAsk(c)
    /\ flight[TabOf[c]] = NoCall
    /\ Held
    /\ Move(c, "rest", "waiting")
    /\ deadline' = [deadline EXCEPT ![c] = now + LockStale]
    /\ UNCHANGED << sessionVars, jar, carried, lock, refreshedAt, flight, left >>

\* Mutated: the lock of another tab is not looked at.
AcquireAnyway(c) ==
    /\ MayAsk(c)
    /\ flight[TabOf[c]] = NoCall
    /\ lock' = [owner |-> c, at |-> now]
    /\ flight' = [flight EXCEPT ![TabOf[c]] = c]
    /\ Move(c, "rest", "sent")
    /\ Send(c)
    /\ UNCHANGED << sessionVars, jar, refreshedAt, deadline, left >>

Acquire(c) ==
    /\ MayAsk(c)
    /\ flight[TabOf[c]] = NoCall
    /\ ~Held
    /\ lock' = [owner |-> c, at |-> now]
    /\ flight' = [flight EXCEPT ![TabOf[c]] = c]
    /\ Move(c, "rest", "sent")
    /\ Send(c)
    /\ UNCHANGED << sessionVars, jar, refreshedAt, deadline, left >>

\* Mutated: a wait ends only when the holder lets go of the lock.
DueReleased(c) == lock = NoLock

\* waitForPeerRefresh ends: no lock, a stale one, or its own deadline.
Due(c) == Free \/ now >= deadline[c]

\* The peer refreshed recently, or still holds the lock: nothing to do.
PollSkip(c) ==
    /\ Due(c)
    /\ Recent \/ ~Free \/ jar.token = NoSession
    /\ Move(c, "waiting", "rest")
    /\ deadline' = [deadline EXCEPT ![c] = 0]
    /\ UNCHANGED << sessionVars, jar, carried, lock, refreshedAt, flight, left >>

\* "peer finished - verify with refresh": without the lock and without the
\* in-memory promise.
PollVerify(c) ==
    /\ Due(c)
    /\ Free
    /\ ~Recent
    /\ jar.token # NoSession
    /\ Move(c, "waiting", "sent")
    /\ Send(c)
    /\ deadline' = [deadline EXCEPT ![c] = 0]
    /\ UNCHANGED << sessionVars, jar, lock, refreshedAt, flight, left >>

Arrive(c) ==
    /\ Refresh(c, carried[c].token)
    /\ Move(c, "sent", "busy")
    /\ Forget(c)
    /\ UNCHANGED << jar, lock, refreshedAt, flight, deadline, left >>

\* Mutated: the success is not told to the other tabs.
ReturnSilent(c, from, ok) ==
    LET t == TabOf[c]
        holds == flight[t] = c
    IN  /\ step[c] = from
        /\ step' = [r \in Requests |->
                      IF r = c \/ (holds /\ r \in Calls /\ TabOf[r] = t /\ step[r] = "joined")
                      THEN "rest" ELSE step[r]]
        /\ flight' = IF holds THEN [flight EXCEPT ![t] = NoCall] ELSE flight
        /\ lock' = IF holds /\ lock # NoLock /\ lock.owner = c THEN NoLock ELSE lock
        /\ UNCHANGED refreshedAt

\* The end of a call: the holder lets go of its own lock and of the calls
\* that joined it, and tells the other tabs of a success.
Return(c, from, ok) ==
    LET t == TabOf[c]
        holds == flight[t] = c
    IN  /\ step[c] = from
        /\ step' = [r \in Requests |->
                      IF r = c \/ (holds /\ r \in Calls /\ TabOf[r] = t /\ step[r] = "joined")
                      THEN "rest" ELSE step[r]]
        /\ flight' = IF holds THEN [flight EXCEPT ![t] = NoCall] ELSE flight
        /\ lock' = IF holds /\ lock # NoLock /\ lock.owner = c THEN NoLock ELSE lock
        /\ refreshedAt' = IF holds /\ ok THEN now ELSE refreshedAt

\* A 2xx brings the new cookies; the refresh route deletes them on a 401, not on
\* a 429.
AnswerCall(c) ==
    /\ Answered(c)
    /\ Return(c, "busy", pc[c] = "idle")
    /\ jar' = CASE pc[c] = "idle" -> NewJar(c)
                [] pc[c] = "refused" -> NoJar
                [] OTHER -> jar
    /\ UNCHANGED << sessionVars, carried, deadline, left >>

\* The answer does not reach the browser, cookies included.
LoseAnswer(c) ==
    /\ "network" \in Faults
    /\ Answered(c)
    /\ Return(c, "busy", FALSE)
    /\ UNCHANGED << sessionVars, jar, carried, deadline, left >>

\* A tab goes away; its lock stays, what it sent runs on.
CloseTab(t) ==
    /\ "crash" \in Faults
    /\ \E c \in Calls : TabOf[c] = t /\ step[c] # "rest"
    /\ step' = [r \in Requests |->
                  IF r \notin Calls THEN step[r]
                  ELSE IF TabOf[r] # t THEN step[r]
                  ELSE IF step[r] \in {"busy", "orphan"} THEN "orphan" ELSE "rest"]
    /\ flight' = [flight EXCEPT ![t] = NoCall]
    /\ UNCHANGED << sessionVars, jar, carried, lock, refreshedAt, deadline, left >>

AnswerOrphan(c) ==
    /\ Answered(c)
    /\ Move(c, "orphan", "rest")
    /\ UNCHANGED << sessionVars, jar, carried, lock, refreshedAt, flight, deadline, left >>

-------------------------------------------------------------------------------
(* proxyBePost *)

SendData(d) ==
    /\ MaySend
    /\ Move(d, "rest", "sent")
    /\ Send(d)
    /\ UNCHANGED << sessionVars, jar, lock, refreshedAt, flight, deadline, left >>

\* The access token looks valid: the request is forwarded and checked.
Forward(d) ==
    /\ ~carried[d].expired
    /\ Check(d, carried[d].token)
    /\ Move(d, "sent", "busy")
    /\ UNCHANGED << jar, carried, lock, refreshedAt, flight, deadline, left >>

\* Refreshes with the cookies of the request: at once when its access token
\* has expired, or when the backend answered 401.
RefreshOnServer(d) ==
    /\ \/ step[d] = "sent" /\ carried[d].expired
       \/ step[d] = "busy" /\ pc[d] = "refused"
    /\ Refresh(d, carried[d].token)
    /\ step' = [step EXCEPT ![d] = "renewing"]
    /\ UNCHANGED << jar, carried, lock, refreshedAt, flight, deadline, left >>

\* Served, or answered an error that is not a 401.
DataServed(d) ==
    /\ pc[d] \in Resting \ {"refused"}
    /\ Move(d, "busy", "rest")
    /\ Forget(d)
    /\ UNCHANGED << sessionVars, jar, lock, refreshedAt, flight, deadline, left >>

\* Forwarded again, the answer carries the new cookies.  If the refresh answered
\* anything but 2xx, a 429 too, it is sessionExpiredResponse, which deletes them.
DataRenewed(d) ==
    /\ Answered(d)
    /\ jar' = IF pc[d] = "idle" THEN NewJar(d) ELSE NoJar
    /\ Move(d, "renewing", "rest")
    /\ Forget(d)
    /\ UNCHANGED << sessionVars, lock, refreshedAt, flight, deadline, left >>

-------------------------------------------------------------------------------
(* logoutBackend *)

SendLogout(l) ==
    /\ MaySend
    /\ Move(l, "rest", "sent")
    /\ Send(l)
    /\ UNCHANGED << sessionVars, jar, lock, refreshedAt, flight, deadline, left >>

\* The guard wants a valid access token.
ArriveLogout(l, all) ==
    /\ IF carried[l].expired
       THEN Throttled(l, carried[l].token) \/ Unauthenticated(l, carried[l].token)
       ELSE Logout(l, carried[l].token, all)
    /\ Move(l, "sent", "busy")
    /\ UNCHANGED << jar, carried, lock, refreshedAt, flight, deadline, left >>

\* Only a success deletes the cookies.  On a 401 authenticatedFetch asks for a
\* refresh and sends the logout once more: a call and a logout like any other.
\* logoutBackend looks at no answer, the tab goes to the login page in any case.
AnswerLogout(l) ==
    /\ Answered(l)
    /\ Move(l, "busy", "rest")
    /\ Forget(l)
    /\ jar' = IF pc[l] = "idle" THEN NoJar ELSE jar
    /\ left' = (left \/ pc[l] = "idle")
    /\ UNCHANGED << sessionVars, lock, refreshedAt, flight, deadline >>

-------------------------------------------------------------------------------
\* The backend went away instead of answering, or its answer never reached the
\* browser: the proxy reports 503 or 500, and the cookies stay as they are.
LoseReply(r) ==
    /\ step[r] \in {"busy", "renewing"}
    /\ Answered(r)
    /\ pc[r] # "failed" => "network" \in Faults
    /\ step' = [step EXCEPT ![r] = "rest"]
    /\ Forget(r)
    /\ UNCHANGED << sessionVars, jar, lock, refreshedAt, flight, deadline, left >>

-------------------------------------------------------------------------------
\* Unless something is "slow", a refresh answers before its lock is stale and
\* a waiting call looks at the lock before time moves on.
Prompt ==
    /\ \A c \in Calls : step[c] = "waiting" => ~Due(c)
    /\ \A c \in Calls : step[c] \in {"sent", "busy"} =>
         lock # NoLock /\ now + 1 < lock.at + LockStale

Clock ==
    /\ "slow" \in Faults \/ Prompt
    /\ Tick
    /\ UNCHANGED browserVars

CallStep(c) ==
    PollSkip(c) \/ PollVerify(c) \/ Arrive(c) \/ AnswerCall(c) \/ AnswerOrphan(c)

DataStep(d) == Forward(d) \/ RefreshOnServer(d) \/ DataServed(d) \/ DataRenewed(d)

LogoutStep(l) == (\E all \in BOOLEAN : ArriveLogout(l, all)) \/ AnswerLogout(l)

BackendStep(r) == Proceed(r) /\ UNCHANGED browserVars

BrowserNext ==
    \/ Clock
    \/ \E r \in Requests : BackendStep(r) \/ (GoWrong(r) /\ UNCHANGED browserVars)
    \/ \E c \in Calls : Join(c) \/ Wait(c) \/ Acquire(c) \/ CallStep(c) \/ LoseAnswer(c)
    \/ \E t \in Tabs : CloseTab(t)
    \/ \E d \in Data : SendData(d) \/ DataStep(d)
    \/ \E l \in Logouts : SendLogout(l) \/ LogoutStep(l)
    \/ \E r \in Data \cup Logouts : LoseReply(r)

BrowserSpec == BrowserInit /\ [][BrowserNext]_vars

\* The backend's event loop runs every request on, the browser its timers and
\* its answers, and the clock does not stop.  Nobody has to ask for anything.
FairBrowserSpec ==
    /\ BrowserSpec
    /\ WF_vars(Clock)
    /\ \A r \in Requests : WF_vars(BackendStep(r))
    /\ \A c \in Calls : WF_vars(CallStep(c))

-------------------------------------------------------------------------------
(* Properties *)

\* The coordinator sends one refresh at a time, whatever the tabs.
\* (authRefreshCoordinator.ts: "Single-flight refresh across tabs")
SingleFlight ==
    \A c, e \in Calls : step[c] \in {"sent", "busy"} /\ step[e] \in {"sent", "busy"} => c = e

\* When nothing is in flight, the cookies name a session that the backend
\* still honours: refreshing never logs the user out.
\* (authRefreshCoordinator.ts: "Prevents refresh-token rotation races that
\* revoke the whole session family")
SessionKept == AtRest /\ ~left => Live(jar.token)

\* When the proxy deletes the cookies because the backend refused to refresh
\* them, the session that the request carried is over, whatever else was in
\* flight or died.  (beProxy.ts: "Only wipe session cookies when BE says the
\* session itself is invalid"; a 429 wipes them too, and says no such thing)
ExpiredIsTrue ==
    [][\A d \in Data :
         step[d] = "renewing" /\ pc[d] = "refused" /\ step'[d] = "rest" /\ jar' = NoJar
           => ~Live(carried[d].token)]_vars

\* A logout that was answered a success has ended the session it was sent with,
\* however a refresh of the same token interleaved, and whatever died.
\* (logoutBackend, AuthService.logout; one that the guards turn away ends none)
LogoutEndsSession ==
    [][\A l \in Logouts :
         step[l] = "busy" /\ pc[l] = "idle" /\ step'[l] = "rest"
           => ~Live(carried[l].token)]_vars

\* Every call returns, though the tab that holds the lock was closed, its
\* refresh failed or its answer was lost.  (waitForPeerRefresh, LOCK_STALE_MS)
CallsReturn == \A c \in Calls : step[c] # "rest" ~> step[c] = "rest"
===============================================================================
