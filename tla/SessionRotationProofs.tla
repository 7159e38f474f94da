------------------------- MODULE SessionRotationProofs -------------------------
(***************************************************************************)
(* Theorems about SessionRotation, for every lifetime, every idle timeout  *)
(* and any number of sessions and requests, and about the browser that     *)
(* BrowserSession puts before it, for any number of tabs, calls, data      *)
(* requests and logouts.                                                   *)
(*                                                                         *)
(* That calls come back is stated with the guards of their steps in place  *)
(* of ENABLED, and time that passes (CallServed, RequestServed).           *)
(***************************************************************************)
EXTENDS BrowserSession, FiniteSetTheorems, TLAPS

\* What each write leaves in a row, column by column.
LEMMA RevokedFields ==
  ASSUME NEW row \in SessionRow
  PROVE  /\ RevokedRow(row) \in SessionRow
         /\ RevokedRow(row).family = row.family
         /\ RevokedRow(row).created = row.created
         /\ RevokedRow(row).expires = row.expires
         /\ RevokedRow(row).revoked
  BY DEF SessionRow, RevokedRow

LEMMA TouchedFields ==
  ASSUME NEW row \in SessionRow, now \in Times
  PROVE  /\ TouchedRow(row) \in SessionRow
         /\ TouchedRow(row).family = row.family
         /\ TouchedRow(row).created = row.created
         /\ TouchedRow(row).expires = row.expires
         /\ TouchedRow(row).revoked = row.revoked
  BY DEF SessionRow, TouchedRow

\* What each assignment leaves in the local variables of a request.
LEMMA DatedFields ==
  ASSUME NEW q \in Request, NEW t \in Times
  PROVE  /\ Dated(q, t) \in Request
         /\ Dated(q, t).started = t
         /\ Dated(q, t).goal = q.goal
         /\ Dated(q, t).session = q.session
         /\ Dated(q, t).family = q.family
         /\ Dated(q, t).expires = q.expires
  BY DEF Request, Dated

LEMMA ExpiringFields ==
  ASSUME NEW q \in Request, NEW t \in Expiries
  PROVE  /\ Expiring(q, t) \in Request
         /\ Expiring(q, t).expires = t
         /\ Expiring(q, t).goal = q.goal
         /\ Expiring(q, t).session = q.session
         /\ Expiring(q, t).family = q.family
         /\ Expiring(q, t).started = q.started
  BY DEF Request, Expiring

LEMMA WithSessionFields ==
  ASSUME NEW q \in Request, NEW s \in Ids
  PROVE  WithSession(q, s) \in Request
  BY DEF Request, WithSession

LEMMA AnsweringFields ==
  ASSUME NEW s \in Ids \cup {NoSession}
  PROVE  Answering(s) \in Request
  BY SessionAssumption DEF Answering, NewRequest, Request, Goals, Times, Expiries

LEMMA LoginFields ==
  ASSUME NEW t \in Expiries
  PROVE  /\ Login(t) \in Request
         /\ Login(t).goal = "login"
         /\ Login(t).expires = t
  BY SessionAssumption DEF Login, NewRequest, Request, Goals, Times, Expiries

LEMMA NamingFields ==
  ASSUME TypeOK, NEW s \in Ids, NEW g \in Goals, NEW all \in BOOLEAN
  PROVE  /\ Naming(s, g, all) \in Request
         /\ Naming(s, g, all).goal = g
         /\ Naming(s, g, all).session = s
         /\ Naming(s, g, all).family = sessions[s].family
  <1>1. sessions[s].family \in Ids \cup {NoSession} /\ sessions[s].active \in Times
    BY DEF TypeOK, SessionRow
  <1>2. QED
    BY <1>1, SessionAssumption DEF Naming, NewRequest, Request, Goals, Times, Expiries

LEMMA CappedFields ==
  ASSUME NEW q \in Request
  PROVE  /\ Capped(q) \in Expiries
         /\ Capped(q) <= q.started + Lifetime
  <1>1. q.started \in Times /\ q.expires \in Expiries
    BY DEF Request
  <1>2. CASE q.started + Lifetime < q.expires
    BY <1>1, <1>2, SessionAssumption DEF Capped, Times, Expiries
  <1>3. CASE ~(q.started + Lifetime < q.expires)
    BY <1>1, <1>3, SessionAssumption DEF Capped, Times, Expiries
  <1>4. QED
    BY <1>2, <1>3

LEMMA NewRowFields ==
  ASSUME NEW q \in Request, NEW id \in Ids, now \in Times
  PROVE  /\ NewRow(q, id) \in SessionRow
         /\ q.goal = "login" => NewRow(q, id).family = id
         /\ q.goal # "login" => NewRow(q, id).family = q.family
         /\ NewRow(q, id).created = now
         /\ NewRow(q, id).expires = q.expires
         /\ ~NewRow(q, id).revoked
  BY DEF NewRow, SessionRow, Request

-------------------------------------------------------------------------------
(* Types *)

LEMMA RestsInType ==
  ASSUME TypeOK, NEW r \in Requests, NEW o \in Resting, NEW s \in Ids \cup {NoSession},
         Rest(r, o, s), UNCHANGED << now, issued >>, sessions' \in [Ids -> SessionRow]
  PROVE  TypeOK'
  BY AnsweringFields DEF TypeOK, Rest

LEMMA StartsInType ==
  ASSUME TypeOK, NEW r \in Requests, NEW next \in Resting \cup Working, NEW q \in Request,
         Start(r, next, q), UNCHANGED << now, sessions, issued >>
  PROVE  TypeOK'
  BY DEF TypeOK, Start

LEMMA GoesInType ==
  ASSUME TypeOK, NEW r \in Requests, NEW from \in Working, NEW to \in Working,
         Goto(r, from, to), req' \in [Requests -> Request],
         UNCHANGED << now, issued >>, sessions' \in [Ids -> SessionRow]
  PROVE  TypeOK'
  BY DEF TypeOK, Goto

LEMMA RevokeInType ==
  ASSUME TypeOK, NEW set, Revoke(set)
  PROVE  sessions' \in [Ids -> SessionRow]
  BY RevokedFields DEF TypeOK, Revoke

LEMMA TouchedInType ==
  ASSUME TypeOK, NEW s
  PROVE  Touched(s) \in [Ids -> SessionRow]
  BY TouchedFields DEF TypeOK, Touched

\* What a request that arrives may come to: its session is looked into, the
\* whole family is about to be revoked, or it is turned away.
Asking(r, s) ==
    \/ \E g \in Goals, all \in BOOLEAN : SessionActive(r, s, g, all)
    \/ FindRevoked(r, s)
    \/ \E answer \in {"refused", "throttled"} : TurnAway(r, s, answer)

LEMMA RefreshAsks ==
  ASSUME NEW r, NEW s, Refresh(r, s)
  PROVE  \/ SessionActive(r, s, "refresh", FALSE)
         \/ FindRevoked(r, s)
         \/ \E answer \in {"refused", "throttled"} : TurnAway(r, s, answer)
  BY DEF Refresh, Throttled, FindExpired, FindValid, SelectFails, SessionActive

LEMMA AdmitAsks ==
  ASSUME NEW r, NEW s, NEW g, NEW all, Admit(r, s, g, all)
  PROVE  \/ SessionActive(r, s, g, all)
         \/ \E answer \in {"refused", "throttled"} : TurnAway(r, s, answer)
  BY DEF Admit, Throttled, SessionRevoked, SelectFails

LEMMA RequestsAsk ==
  ASSUME NEW r, NEW s, NEW all \in BOOLEAN,
         Refresh(r, s) \/ Check(r, s) \/ Unauthenticated(r, s) \/ Logout(r, s, all)
  PROVE  Asking(r, s)
  <1>1. CASE Refresh(r, s)
    BY <1>1, RefreshAsks DEF Asking, Goals
  <1>2. CASE Check(r, s)
    BY <1>2, AdmitAsks DEF Check, Asking, Goals
  <1>3. CASE Unauthenticated(r, s)
    BY <1>3 DEF Unauthenticated, Asking
  <1>4. CASE Logout(r, s, all)
    BY <1>4, AdmitAsks DEF Logout, Asking, Goals
  <1>5. QED
    BY <1>1, <1>2, <1>3, <1>4

LEMMA AskInType ==
  ASSUME TypeOK, NEW r \in Requests, NEW s \in Ids, Asking(r, s)
  PROVE  TypeOK'
  <1>1. Blank \in Request /\ Naming(s, "refresh", FALSE) \in Request
    BY AnsweringFields, NamingFields DEF Blank, Goals
  <1>2. ASSUME NEW g \in Goals, NEW all \in BOOLEAN, SessionActive(r, s, g, all)
        PROVE  TypeOK'
    BY <1>2, NamingFields, StartsInType DEF SessionActive, Working
  <1>3. CASE FindRevoked(r, s)
    BY <1>1, <1>3, StartsInType DEF FindRevoked, Working
  <1>4. ASSUME NEW answer \in {"refused", "throttled"}, TurnAway(r, s, answer)
        PROVE  TypeOK'
    BY <1>1, <1>4, StartsInType DEF TurnAway, Resting
  <1>5. QED
    BY <1>2, <1>3, <1>4 DEF Asking

LEMMA StartedInType ==
  ASSUME TypeOK, NEW r \in Requests, NEW t \in Times, StartedAt(r, t),
         UNCHANGED << now, sessions, issued >>
  PROVE  TypeOK'
  <1>1. CASE Goto(r, "family", "revokeFamily") /\ UNCHANGED req
    BY <1>1 DEF TypeOK, Goto, Working
  <1>2. CASE Rest(r, "idle", req[r].session)
    <2>1. req[r].session \in Ids \cup {NoSession}
      BY DEF TypeOK, Request
    <2>2. QED
      BY <1>2, <2>1, RestsInType DEF Resting, TypeOK
  <1>3. CASE /\ Goto(r, "family", IF req[r].goal = "refresh" THEN "resolve" ELSE "revoke")
             /\ req' = [req EXCEPT ![r] = Dated(req[r], t)]
    <2>1. Dated(req[r], t) \in Request
      BY DatedFields DEF TypeOK
    <2>2. req' \in [Requests -> Request]
      BY <1>3, <2>1 DEF TypeOK
    <2>3. CASE req[r].goal = "refresh"
      BY <1>3, <2>2, <2>3 DEF TypeOK, Goto, Working
    <2>4. CASE req[r].goal # "refresh"
      BY <1>3, <2>2, <2>4 DEF TypeOK, Goto, Working
    <2>5. QED
      BY <2>3, <2>4
  <1>4. QED
    BY <1>1, <1>2, <1>3 DEF StartedAt

LEMMA ProceedInType ==
  ASSUME TypeOK, NEW r \in Requests, Proceed(r)
  PROVE  TypeOK'
  <1>1. CASE ReadFamily(r)
    <2>1. PICK s \in Family(req[r].family) : StartedAt(r, sessions[s].created)
      BY <1>1 DEF ReadFamily
    <2>2. s \in Ids
      BY SessionAssumption DEF Family, Issued, Ids, TypeOK
    <2>3. sessions[s].created \in Times
      BY <2>2 DEF TypeOK, SessionRow
    <2>4. QED
      BY <1>1, <2>1, <2>3, StartedInType DEF ReadFamily
  <1>2. CASE Resolve(r)
    <2>1. now + Lifetime \in Expiries
      BY SessionAssumption DEF TypeOK, Times, Expiries
    <2>2. Expiring(req[r], now + Lifetime) \in Request
      BY <2>1, ExpiringFields DEF TypeOK
    <2>3. QED
      BY <1>2, <2>2, RestsInType DEF Resolve, Resting, TypeOK, Working
  <1>3. CASE Recheck(r)
    <2>1. Expiring(req[r], Capped(req[r])) \in Request
      BY CappedFields, ExpiringFields DEF TypeOK
    <2>2. QED
      BY <1>3, <2>1 DEF Recheck, TypeOK, Goto, Working
  <1>4. CASE Supersede(r)
    BY <1>4, RevokeInType DEF Supersede, TypeOK, Goto, Working
  <1>5. CASE Insert(r)
    <2>1. issued + 1 \in Ids /\ issued' \in 0..MaxSessions
      BY <1>5, SessionAssumption DEF Insert, TypeOK, Ids
    <2>2. NewRow(req[r], issued + 1) \in SessionRow
      BY <2>1, NewRowFields DEF TypeOK
    <2>3. sessions' \in [Ids -> SessionRow]
      BY <1>5, <2>2 DEF Insert, TypeOK
    <2>4. Answering(issued + 1) \in Request /\ WithSession(req[r], issued + 1) \in Request
      BY <2>1, AnsweringFields, WithSessionFields DEF TypeOK
    <2>5. now' \in Times
      BY <1>5 DEF Insert, TypeOK
    <2>6. pc' \in [Requests -> Resting \cup Working] /\ req' \in [Requests -> Request]
      BY <1>5, <2>4 DEF Insert, Rest, TypeOK, Resting, Working
    <2>7. QED
      BY <2>1, <2>3, <2>5, <2>6 DEF TypeOK
  <1>6. CASE TouchSession(r)
    <2>1. sessions' \in [Ids -> SessionRow]
      BY <1>6, TouchedInType DEF TouchSession
    <2>2. req[r].session \in Ids \cup {NoSession}
      BY DEF TypeOK, Request
    <2>3. QED
      BY <1>6, <2>1, <2>2, RestsInType DEF TouchSession, Resting
  <1>7. CASE RevokeFamily(r)
    BY <1>7, RevokeInType, RestsInType DEF RevokeFamily, Resting
  <1>8. CASE RevokeSession(r)
    <2>1. sessions' \in [Ids -> SessionRow]
      BY <1>8, RevokeInType DEF RevokeSession
    <2>2. CASE Goto(r, "revoke", "revokeAll") /\ UNCHANGED req
      BY <1>8, <2>1, <2>2, GoesInType DEF RevokeSession, Working, TypeOK
    <2>3. CASE Rest(r, "idle", NoSession)
      BY <1>8, <2>1, <2>3, RestsInType DEF RevokeSession, Resting
    <2>4. QED
      BY <1>8, <2>2, <2>3 DEF RevokeSession, AfterRevoke
  <1>9. CASE RevokeAllForUser(r)
    BY <1>9, RevokeInType, RestsInType DEF RevokeAllForUser, Resting
  <1>10. QED
    BY <1>1, <1>2, <1>3, <1>4, <1>5, <1>6, <1>7, <1>8, <1>9 DEF Proceed

LEMMA WrongInType ==
  ASSUME TypeOK, NEW r \in Requests, GoWrong(r)
  PROVE  TypeOK'
  <1>1. CASE ReadFamilyFails(r)
    BY <1>1, StartedInType DEF ReadFamilyFails, TypeOK
  <1>2. CASE RecheckFails(r) \/ SupersedeFails(r)
    BY <1>2, GoesInType DEF RecheckFails, SupersedeFails, TypeOK, Working
  <1>3. CASE InsertFails(r) \/ LogoutCaught(r) \/ Abort(r)
    BY <1>3, RestsInType DEF InsertFails, LogoutCaught, Abort, Resting, TypeOK
  <1>4. CASE UpdateFails(r)
    <2>1. req[r].session \in Ids \cup {NoSession}
      BY DEF TypeOK, Request
    <2>2. CASE Rest(r, "idle", req[r].session)
      BY <1>4, <2>1, <2>2, RestsInType DEF UpdateFails, Resting, TypeOK
    <2>3. CASE Rest(r, "refused", NoSession) \/ Rest(r, "idle", NoSession)
      BY <1>4, <2>3, RestsInType DEF UpdateFails, Resting, TypeOK
    <2>4. CASE Goto(r, "revoke", "revokeAll") /\ UNCHANGED req
      BY <1>4, <2>4, GoesInType DEF UpdateFails, TypeOK, Working
    <2>5. QED
      BY <1>4, <2>2, <2>3, <2>4 DEF UpdateFails, AfterRevoke
  <1>5. QED
    BY <1>1, <1>2, <1>3, <1>4 DEF GoWrong

LEMMA TypeInit == Init => TypeOK
  <1>1. BlankRow \in SessionRow
    BY SessionAssumption DEF BlankRow, SessionRow, Times, Expiries
  <1>2. Blank \in Request
    BY AnsweringFields DEF Blank
  <1>3. QED
    BY <1>1, <1>2, SessionAssumption DEF Init, TypeOK, Resting, Times

LEMMA TypeStep == TypeOK /\ [Next]_sessionVars => TypeOK'
  <1> SUFFICES ASSUME TypeOK, [Next]_sessionVars
               PROVE  TypeOK'
    OBVIOUS
  <1>1. CASE Tick
    BY <1>1, SessionAssumption DEF Tick, TypeOK, Times
  <1>2. ASSUME NEW s \in Ids, Heartbeat(s)
        PROVE  TypeOK'
    BY <1>2, TouchedInType DEF Heartbeat, TypeOK
  <1>3. ASSUME NEW r \in Requests, LoginStart(r)
        PROVE  TypeOK'
    <2>1. now + Lifetime \in Expiries
      BY SessionAssumption DEF TypeOK, Times, Expiries
    <2>2. QED
      BY <1>3, <2>1, LoginFields, StartsInType DEF LoginStart, Working
  <1>4. ASSUME NEW r \in Requests, NEW s \in Ids, NEW all \in BOOLEAN,
               Refresh(r, s) \/ Check(r, s) \/ Unauthenticated(r, s) \/ Logout(r, s, all)
        PROVE  TypeOK'
    BY <1>4, RequestsAsk, AskInType
  <1>7. CASE UNCHANGED sessionVars
    BY <1>7 DEF sessionVars, TypeOK
  <1>8. QED
    BY <1>1, <1>2, <1>3, <1>4, <1>7, ProceedInType, WrongInType DEF Next

\* Every reachable state of the sessions and of the requests on them is well
\* formed.
THEOREM TypeCorrect == Spec => []TypeOK
  BY TypeInit, TypeStep, PTL DEF Spec
-------------------------------------------------------------------------------
(* The absolute cap *)

\* A family has a first row, no younger row was created before it, and no row
\* expires later than the cap counted from it.
FamilyOk(s) ==
    LET f == sessions[s].family IN
    /\ f \in Issued
    /\ sessions[f].family = f
    /\ sessions[f].created <= sessions[s].created
    /\ sessions[s].created <= now
    /\ sessions[s].expires <= sessions[f].created + Lifetime

FamiliesOk == \A s \in Issued : FamilyOk(s)

\* What a request that will insert a row knows about the row's family.
Known(f) == f \in Issued /\ sessions[f].family = f

RequestOk(r) ==
    LET q == req[r] IN
    /\ pc[r] \in {"resolve", "recheck", "supersede"} => q.goal = "refresh"
    /\ pc[r] = "insert" => q.goal \in {"login", "refresh"}
    /\ pc[r] = "family" \/ (pc[r] \in {"resolve", "recheck", "supersede", "insert"} /\ q.goal # "login")
         => Known(q.family)
    /\ pc[r] \in {"resolve", "recheck"} => q.started <= sessions[q.family].created
    /\ pc[r] \in {"supersede", "insert"} /\ q.goal # "login"
         => q.expires <= sessions[q.family].created + Lifetime
    /\ pc[r] = "insert" /\ q.goal = "login" => q.expires <= now + Lifetime

RequestsOk == \A r \in Requests : RequestOk(r)

CapInv == FamiliesOk /\ RequestsOk

\* What no step changes in a row, or takes back.
RowsKept ==
    /\ now <= now'
    /\ issued <= issued'
    /\ \A s \in Issued : /\ sessions'[s].family = sessions[s].family
                         /\ sessions'[s].created = sessions[s].created
                         /\ sessions'[s].expires = sessions[s].expires

LEMMA IssuedIds == TypeOK => Issued \subseteq Ids
  BY SessionAssumption DEF TypeOK, Issued, Ids

LEMMA RevokeKeeps ==
  ASSUME TypeOK, NEW set, Revoke(set), UNCHANGED << now, issued >>
  PROVE  RowsKept
  BY RevokedFields, IssuedIds DEF TypeOK, Revoke, RowsKept, Issued, Times

LEMMA TouchedKeeps ==
  ASSUME TypeOK, NEW s, sessions' = Touched(s), UNCHANGED << now, issued >>
  PROVE  RowsKept
  BY TouchedFields, IssuedIds DEF TypeOK, Touched, RowsKept, Issued, Times

LEMMA StillKeeps ==
  ASSUME TypeOK, UNCHANGED << now, sessions, issued >>
  PROVE  RowsKept
  BY DEF TypeOK, RowsKept, Times

LEMMA KeptFamilies ==
  ASSUME TypeOK, FamiliesOk, RowsKept, issued' = issued, now' \in Times
  PROVE  FamiliesOk'
  <1> SUFFICES ASSUME NEW s \in Issued
               PROVE  FamilyOk(s)'
    BY DEF FamiliesOk, Issued
  <1>1. FamilyOk(s) /\ sessions[s].family \in Issued
    BY DEF FamiliesOk, FamilyOk
  <1>2. sessions[s].created \in Nat /\ now \in Nat /\ now' \in Nat
    BY IssuedIds DEF TypeOK, SessionRow, Times
  <1>3. QED
    BY <1>1, <1>2 DEF FamilyOk, RowsKept, Issued

LEMMA KeptRequest ==
  ASSUME TypeOK, RowsKept, NEW r \in Requests, RequestOk(r), now' \in Times, issued' \in Nat,
         pc'[r] = pc[r], req'[r] = req[r]
  PROVE  RequestOk(r)'
  <1>1. /\ now \in Nat /\ now' \in Nat /\ issued \in Nat
        /\ Lifetime \in Nat
        /\ req[r].expires \in Nat
    BY SessionAssumption DEF TypeOK, Request, Times, Expiries
  <1>2. ASSUME NEW f, Known(f)
        PROVE  Known(f)' /\ sessions'[f].created = sessions[f].created
    BY <1>1, <1>2 DEF Known, RowsKept, Issued
  <1>3. pc[r] = "insert" /\ req[r].goal = "login" => req[r].expires <= now' + Lifetime
    BY <1>1 DEF RequestOk, RowsKept
  <1>4. QED
    BY <1>2, <1>3 DEF RequestOk

\* A step of one request leaves what holds of the others.
LEMMA KeptCap ==
  ASSUME TypeOK, CapInv, RowsKept, NEW r \in Requests, TypeOK', issued' = issued,
         \A q \in Requests \ {r} : pc'[q] = pc[q] /\ req'[q] = req[q],
         RequestOk(r)'
  PROVE  CapInv'
  <1>1. FamiliesOk'
    BY KeptFamilies DEF CapInv, TypeOK
  <1>2. ASSUME NEW q \in Requests
        PROVE  RequestOk(q)'
    <2>1. CASE q = r
      BY <2>1
    <2>2. CASE q # r
      BY <2>2, KeptRequest DEF CapInv, RequestsOk, TypeOK
    <2>3. QED
      BY <2>1, <2>2
  <1>3. QED
    BY <1>1, <1>2 DEF CapInv, RequestsOk

\* Nothing is asked of a request elsewhere than at these labels.
Quiet == Resting \cup {"touch", "revokeFamily", "revoke", "revokeAll"}

LEMMA QuietCap ==
  ASSUME NEW r \in Requests, pc'[r] \in Quiet
  PROVE  RequestOk(r)'
  BY DEF Quiet, Resting, RequestOk

LEMMA RestsQuiet ==
  ASSUME TypeOK, NEW r \in Requests, NEW o \in Resting, NEW s, Rest(r, o, s)
  PROVE  pc'[r] \in Quiet /\ \A q \in Requests \ {r} : pc'[q] = pc[q] /\ req'[q] = req[q]
  BY DEF TypeOK, Rest, Quiet

LEMMA GoesQuiet ==
  ASSUME TypeOK, NEW r \in Requests, NEW from, NEW to, Goto(r, from, to),
         \A q \in Requests \ {r} : req'[q] = req[q]
  PROVE  pc'[r] = to /\ \A q \in Requests \ {r} : pc'[q] = pc[q] /\ req'[q] = req[q]
  BY DEF TypeOK, Goto

LEMMA StartsQuiet ==
  ASSUME TypeOK, NEW r \in Requests, NEW next, NEW q, Start(r, next, q)
  PROVE  /\ pc'[r] = next /\ req'[r] = q
         /\ \A x \in Requests \ {r} : pc'[x] = pc[x] /\ req'[x] = req[x]
  BY DEF TypeOK, Start

LEMMA AskKeepsCap ==
  ASSUME TypeOK, CapInv, TypeOK', NEW r \in Requests, NEW s \in Ids, Asking(r, s)
  PROVE  CapInv'
  <1>1. RowsKept /\ issued' = issued
    BY StillKeeps DEF Asking, SessionActive, FindRevoked, TurnAway
  <1>2. CASE FindRevoked(r, s)
    BY <1>1, <1>2, StartsQuiet, QuietCap, KeptCap DEF FindRevoked, Quiet
  <1>3. ASSUME NEW answer \in {"refused", "throttled"}, TurnAway(r, s, answer)
        PROVE  CapInv'
    BY <1>1, <1>3, StartsQuiet, QuietCap, KeptCap DEF TurnAway, Quiet, Resting
  <1>4. ASSUME NEW g \in Goals, NEW all \in BOOLEAN, SessionActive(r, s, g, all)
        PROVE  CapInv'
    <2>1. /\ pc'[r] = "family" /\ req'[r] = Naming(s, g, all)
          /\ \A q \in Requests \ {r} : pc'[q] = pc[q] /\ req'[q] = req[q]
      BY <1>4, StartsQuiet DEF SessionActive
    <2>2. Known(sessions[s].family)' /\ Naming(s, g, all).family = sessions[s].family
      BY <1>4, NamingFields DEF SessionActive, Live, CapInv, FamiliesOk, FamilyOk, Known, Issued
    <2>3. RequestOk(r)'
      BY <2>1, <2>2, <1>4 DEF RequestOk, Known, SessionActive, Issued
    <2>4. QED
      BY <1>1, <2>1, <2>3, KeptCap
  <1>5. QED
    BY <1>2, <1>3, <1>4 DEF Asking

LEMMA ReadFamilyKeepsCap ==
  ASSUME TypeOK, CapInv, TypeOK', NEW r \in Requests, ReadFamily(r)
  PROVE  CapInv'
  <1>1. RowsKept /\ issued' = issued /\ UNCHANGED sessions
    BY StillKeeps DEF ReadFamily
  <1>2. PICK s \in Family(req[r].family) :
          /\ \A x \in Family(req[r].family) : sessions[s].created <= sessions[x].created
          /\ StartedAt(r, sessions[s].created)
    BY DEF ReadFamily
  <1>3. Known(req[r].family) /\ req[r].family \in Family(req[r].family)
    BY DEF ReadFamily, CapInv, RequestsOk, RequestOk, Known, Family
  <1>4. CASE Goto(r, "family", "revokeFamily") /\ UNCHANGED req
    BY <1>1, <1>4, GoesQuiet, QuietCap, KeptCap DEF Quiet
  <1>5. CASE Rest(r, "idle", req[r].session)
    BY <1>1, <1>5, RestsQuiet, QuietCap, KeptCap DEF Resting
  <1>6. CASE /\ Goto(r, "family", IF req[r].goal = "refresh" THEN "resolve" ELSE "revoke")
             /\ req' = [req EXCEPT ![r] = Dated(req[r], sessions[s].created)]
    <2>1. sessions[s].created \in Times
      BY <1>2, IssuedIds DEF Family, TypeOK, SessionRow
    <2>2. /\ req'[r].started = sessions[s].created
          /\ req'[r].goal = req[r].goal
          /\ req'[r].family = req[r].family
      BY <1>6, <2>1, DatedFields DEF TypeOK
    <2>3. req'[r].started <= sessions[req[r].family].created
      BY <1>2, <1>3, <2>2
    <2>4. \A q \in Requests \ {r} : pc'[q] = pc[q] /\ req'[q] = req[q]
      BY <1>6 DEF TypeOK, Goto
    <2>5. CASE req[r].goal = "refresh"
      <3>1. pc'[r] = "resolve"
        BY <1>6, <2>5 DEF Goto, TypeOK
      <3>2. RequestOk(r)'
        BY <1>1, <1>3, <2>2, <2>3, <2>5, <3>1 DEF RequestOk, Known, Issued
      <3>3. QED
        BY <1>1, <2>4, <3>2, KeptCap
    <2>6. CASE req[r].goal # "refresh"
      <3>1. pc'[r] \in Quiet
        BY <1>6, <2>6 DEF Goto, TypeOK, Quiet
      <3>2. QED
        BY <1>1, <2>4, <3>1, QuietCap, KeptCap
    <2>7. QED
      BY <2>5, <2>6
  <1>7. QED
    BY <1>2, <1>4, <1>5, <1>6 DEF StartedAt

LEMMA RotateKeepsCap ==
  ASSUME TypeOK, CapInv, TypeOK', NEW r \in Requests,
         \/ Resolve(r) \/ Recheck(r) \/ Supersede(r) \/ SupersedeFails(r)
  PROVE  CapInv'
  <1>a. RequestOk(r)
    BY DEF CapInv, RequestsOk
  <1>1. CASE Resolve(r)
    <2>1. RowsKept /\ issued' = issued /\ UNCHANGED sessions
      BY <1>1, StillKeeps DEF Resolve
    <2>2. CASE Rest(r, "refused", NoSession)
      BY <2>1, <2>2, RestsQuiet, QuietCap, KeptCap DEF Resting
    <2>3. CASE /\ pc' = [pc EXCEPT ![r] = "recheck"]
               /\ req' = [req EXCEPT ![r] = Expiring(req[r], now + Lifetime)]
      <3>1. now + Lifetime \in Expiries
        BY SessionAssumption DEF TypeOK, Times, Expiries
      <3>2. /\ req'[r].started = req[r].started
            /\ req'[r].goal = req[r].goal
            /\ req'[r].family = req[r].family
        BY <2>3, <3>1, ExpiringFields DEF TypeOK
      <3>3. /\ pc'[r] = "recheck"
            /\ \A q \in Requests \ {r} : pc'[q] = pc[q] /\ req'[q] = req[q]
        BY <2>3 DEF TypeOK
      <3>4. RequestOk(r)'
        BY <1>a, <1>1, <2>1, <3>2, <3>3 DEF Resolve, RequestOk, Known, Issued
      <3>5. QED
        BY <2>1, <3>3, <3>4, KeptCap
    <2>4. QED
      BY <1>1, <2>2, <2>3 DEF Resolve
  <1>2. CASE Recheck(r)
    <2>1. RowsKept /\ issued' = issued /\ UNCHANGED sessions
      BY <1>2, StillKeeps DEF Recheck
    <2>2. CASE Goto(r, "recheck", "revokeFamily") /\ UNCHANGED req
      BY <2>1, <2>2, GoesQuiet, QuietCap, KeptCap DEF Quiet
    <2>3. CASE /\ Goto(r, "recheck", "supersede")
               /\ req' = [req EXCEPT ![r] = Expiring(req[r], Capped(req[r]))]
      <3>1. Capped(req[r]) \in Expiries /\ Capped(req[r]) <= req[r].started + Lifetime
        BY CappedFields DEF TypeOK
      <3>2. /\ req'[r].expires = Capped(req[r])
            /\ req'[r].goal = req[r].goal
            /\ req'[r].family = req[r].family
        BY <2>3, <3>1, ExpiringFields DEF TypeOK
      <3>3. /\ pc'[r] = "supersede"
            /\ \A q \in Requests \ {r} : pc'[q] = pc[q] /\ req'[q] = req[q]
        BY <2>3 DEF TypeOK, Goto
      <3>4. /\ Known(req[r].family)
            /\ req[r].started <= sessions[req[r].family].created
            /\ req[r].goal = "refresh"
        BY <1>a, <1>2 DEF Recheck, RequestOk
      <3>5. /\ req[r].started \in Nat /\ Lifetime \in Nat /\ Capped(req[r]) \in Nat
            /\ sessions[req[r].family].created \in Nat
        BY <3>1, <3>4, IssuedIds, SessionAssumption
           DEF TypeOK, Request, Times, Expiries, Known, SessionRow
      <3>6. req'[r].expires <= sessions[req[r].family].created + Lifetime
        BY <3>1, <3>2, <3>4, <3>5
      <3>7. RequestOk(r)'
        BY <2>1, <3>2, <3>3, <3>4, <3>6 DEF RequestOk, Known, Issued
      <3>8. QED
        BY <2>1, <3>3, <3>7, KeptCap
    <2>4. QED
      BY <1>2, <2>2, <2>3 DEF Recheck
  <1>3. CASE Supersede(r) \/ SupersedeFails(r)
    <2>1. /\ RowsKept /\ issued' = issued /\ UNCHANGED req
          /\ Goto(r, "supersede", "insert")
      BY <1>3, StillKeeps, RevokeKeeps DEF Supersede, SupersedeFails
    <2>2. /\ pc'[r] = "insert" /\ pc[r] = "supersede"
          /\ \A q \in Requests \ {r} : pc'[q] = pc[q] /\ req'[q] = req[q]
      BY <2>1 DEF Goto, TypeOK
    <2>3. RequestOk(r)'
      BY <1>a, <2>1, <2>2 DEF RequestOk, Known, RowsKept, Issued
    <2>4. QED
      BY <2>1, <2>2, <2>3, KeptCap
  <1>4. QED
    BY <1>1, <1>2, <1>3

LEMMA InsertKeepsCap ==
  ASSUME TypeOK, CapInv, TypeOK', NEW r \in Requests, Insert(r)
  PROVE  CapInv'
  <1> DEFINE id == issued + 1
             row == NewRow(req[r], id)
  <1>1. /\ issued \in Nat /\ id \in Ids /\ id \notin Issued /\ issued' = id
        /\ Issued' = Issued \cup {id}
    BY SessionAssumption DEF Insert, TypeOK, Ids, Issued
  <1>2. /\ req[r].goal = "login" => row.family = id
        /\ req[r].goal # "login" => row.family = req[r].family
        /\ row.created = now
        /\ row.expires = req[r].expires
    BY <1>1, NewRowFields DEF TypeOK
  <1>3. /\ sessions'[id] = row /\ now' = now
        /\ \A s \in Issued : sessions'[s] = sessions[s]
    BY <1>1, IssuedIds DEF Insert, TypeOK
  <1>4. RowsKept
    BY <1>1, <1>3 DEF RowsKept, TypeOK, Times
  <1>5. RequestOk(r)
    BY DEF CapInv, RequestsOk
  <1>6. now \in Nat /\ Lifetime \in Nat
    BY SessionAssumption DEF TypeOK, Times
  <1>7. ASSUME NEW s \in Issued'
        PROVE  FamilyOk(s)'
    <2>1. CASE s \in Issued
      BY <2>1, <1>1, <1>3 DEF CapInv, FamiliesOk, FamilyOk
    <2>2. CASE s = id /\ req[r].goal = "login"
      BY <2>2, <1>1, <1>2, <1>3, <1>5, <1>6 DEF FamilyOk, RequestOk, Insert
    <2>3. CASE s = id /\ req[r].goal # "login"
      <3>1. /\ Known(req[r].family)
            /\ req[r].expires <= sessions[req[r].family].created + Lifetime
        BY <2>3, <1>5 DEF RequestOk, Insert
      <3>2. sessions[req[r].family].created <= now
        BY <3>1 DEF Known, CapInv, FamiliesOk, FamilyOk
      <3>3. sessions'[s] = row /\ sessions'[req[r].family] = sessions[req[r].family]
        BY <2>3, <3>1, <1>3 DEF Known
      <3>4. sessions'[s].family = req[r].family
        BY <2>3, <3>3, <1>2
      <3>5. QED
        BY <3>1, <3>2, <3>3, <3>4, <1>1, <1>2, <1>3, <1>6 DEF FamilyOk, Known
    <2>4. QED
      BY <1>1, <1>7, <2>1, <2>2, <2>3
  <1>8. ASSUME NEW q \in Requests
        PROVE  RequestOk(q)'
    <2>1. CASE q = r
      <3>1. pc'[r] \in Quiet
        BY DEF Insert, Rest, TypeOK, Quiet, Resting
      <3>2. QED
        BY <2>1, <3>1, QuietCap
    <2>2. CASE q # r
      <3>1. pc'[q] = pc[q] /\ req'[q] = req[q]
        BY <2>2 DEF Insert, Rest, TypeOK
      <3>2. RequestOk(q) /\ now' \in Times /\ issued' \in Nat
        BY <1>1, <1>3 DEF CapInv, RequestsOk, TypeOK, Ids
      <3>3. QED
        BY <1>4, <3>1, <3>2, KeptRequest
    <2>3. QED
      BY <2>1, <2>2
  <1>9. QED
    BY <1>7, <1>8 DEF CapInv, FamiliesOk, RequestsOk

\* The steps after which nothing is asked of the request.
LEMMA SettlesKeepsCap ==
  ASSUME TypeOK, CapInv, TypeOK', NEW r \in Requests,
         \/ TouchSession(r) \/ RevokeFamily(r) \/ RevokeSession(r) \/ RevokeAllForUser(r)
         \/ RecheckFails(r) \/ InsertFails(r) \/ UpdateFails(r) \/ LogoutCaught(r)
         \/ Abort(r)
  PROVE  CapInv'
  <1>1. RowsKept /\ issued' = issued
    BY StillKeeps, RevokeKeeps, TouchedKeeps
       DEF TouchSession, RevokeFamily, RevokeSession, RevokeAllForUser,
           RecheckFails, InsertFails, UpdateFails, LogoutCaught, Abort
  <1>2. pc'[r] \in Quiet /\ \A q \in Requests \ {r} : pc'[q] = pc[q] /\ req'[q] = req[q]
    <2>1. CASE \/ TouchSession(r) \/ RevokeFamily(r) \/ RevokeAllForUser(r)
               \/ InsertFails(r) \/ LogoutCaught(r) \/ Abort(r)
      BY <2>1, RestsQuiet
         DEF TouchSession, RevokeFamily, RevokeAllForUser, InsertFails, LogoutCaught, Abort,
             Resting
    <2>2. CASE RecheckFails(r)
      BY <2>2, GoesQuiet DEF RecheckFails, Quiet
    <2>3. CASE RevokeSession(r)
      BY <2>3, RestsQuiet, GoesQuiet DEF RevokeSession, AfterRevoke, Resting, Quiet
    <2>4. CASE UpdateFails(r)
      BY <2>4, RestsQuiet, GoesQuiet DEF UpdateFails, AfterRevoke, Resting, Quiet
    <2>5. QED
      BY <2>1, <2>2, <2>3, <2>4
  <1>3. QED
    BY <1>1, <1>2, QuietCap, KeptCap

LEMMA CapStep ==
  ASSUME "read" \notin Faults, TypeOK, CapInv, [Next]_sessionVars
  PROVE  CapInv'
  <1>t. TypeOK'
    BY TypeStep
  <1>1. CASE Tick \/ (\E s \in Ids : Heartbeat(s)) \/ UNCHANGED sessionVars
    <2>1. RowsKept /\ issued' = issued /\ UNCHANGED << pc, req >>
      BY <1>1, TouchedKeeps, StillKeeps
         DEF Tick, Heartbeat, sessionVars, RowsKept, TypeOK, Times
    <2>2. FamiliesOk'
      BY <1>t, <2>1, KeptFamilies DEF CapInv, TypeOK
    <2>3. ASSUME NEW r \in Requests
          PROVE  RequestOk(r)'
      BY <1>t, <2>1, KeptRequest DEF CapInv, RequestsOk, TypeOK
    <2>4. QED
      BY <2>2, <2>3 DEF CapInv, RequestsOk
  <1>2. ASSUME NEW r \in Requests, LoginStart(r)
        PROVE  CapInv'
    <2>1. RowsKept /\ UNCHANGED << now, issued >>
      BY <1>2, StillKeeps DEF LoginStart
    <2>2. now + Lifetime \in Expiries
      BY SessionAssumption DEF TypeOK, Times, Expiries
    <2>3. /\ pc'[r] = "insert" /\ req'[r] = Login(now + Lifetime)
          /\ \A q \in Requests \ {r} : pc'[q] = pc[q] /\ req'[q] = req[q]
      BY <1>2, StartsQuiet DEF LoginStart
    <2>4. req'[r].goal = "login" /\ req'[r].expires = now' + Lifetime
      BY <2>1, <2>2, <2>3, LoginFields
    <2>5. now' + Lifetime \in Nat
      BY <2>1, SessionAssumption DEF TypeOK, Times
    <2>6. RequestOk(r)'
      <3>1. req'[r].expires <= now' + Lifetime
        BY <2>4, <2>5
      <3>2. QED
        BY <2>3, <2>4, <3>1 DEF RequestOk
    <2>7. QED
      BY <1>t, <2>1, <2>3, <2>6, KeptCap
  <1>3. ASSUME NEW r \in Requests, NEW s \in Ids, NEW all \in BOOLEAN,
               Refresh(r, s) \/ Check(r, s) \/ Unauthenticated(r, s) \/ Logout(r, s, all)
        PROVE  CapInv'
    BY <1>t, <1>3, RequestsAsk, AskKeepsCap
  <1>5. ASSUME NEW r \in Requests, Proceed(r) \/ GoWrong(r)
        PROVE  CapInv'
    <2>1. ~ReadFamilyFails(r)
      BY DEF ReadFamilyFails
    <2>2. QED
      BY <1>t, <1>5, <2>1, ReadFamilyKeepsCap, RotateKeepsCap, InsertKeepsCap, SettlesKeepsCap
         DEF Proceed, GoWrong
  <1>6. QED
    BY <1>1, <1>2, <1>3, <1>5 DEF Next

LEMMA CapInit == Init => CapInv
  BY DEF Init, CapInv, FamiliesOk, RequestsOk, RequestOk, Issued

LEMMA CapMeans == TypeOK /\ CapInv => CapHolds
  <1> SUFFICES ASSUME TypeOK, CapInv, NEW s \in Issued, NEW x \in Issued, Kin(s, x)
               PROVE  sessions[s].expires <= sessions[x].created + Lifetime
    BY DEF CapHolds
  <1>1. FamilyOk(s) /\ FamilyOk(x) /\ sessions[s].family = sessions[x].family
    BY DEF CapInv, FamiliesOk, Kin
  <1>2. /\ sessions[s].expires \in Nat /\ sessions[x].created \in Nat /\ Lifetime \in Nat
        /\ sessions[sessions[s].family].created \in Nat
    BY <1>1, IssuedIds, SessionAssumption DEF FamilyOk, TypeOK, SessionRow, Times, Expiries
  <1>3. QED
    BY <1>1, <1>2 DEF FamilyOk

\* As long as the select of a family's start is answered, no token outlives the
\* absolute cap of its login: for any number of rotations, of concurrent
\* requests, and of requests that die or whose writes fail.
THEOREM CapIsKept == "read" \notin Faults => (Spec => []CapHolds)
  <1> SUFFICES ASSUME "read" \notin Faults
               PROVE  Spec => []CapHolds
    OBVIOUS
  <1>1. TypeOK /\ CapInv => CapHolds
    BY CapMeans
  <1>2. TypeOK /\ CapInv /\ [Next]_sessionVars => CapInv'
    BY CapStep
  <1>3. QED
    BY <1>1, <1>2, CapInit, TypeCorrect, PTL DEF Spec

-------------------------------------------------------------------------------
(***************************************************************************)
(* The tokens of a family under two assumptions: requests come one at a    *)
(* time, and the write that revokes a rotated token is not lost unseen.    *)
(* Both are needed: with either one dropped, TLC finds a family with two   *)
(* usable tokens.                                                          *)
(***************************************************************************)
OneAtATime == \A r, q \in Requests : r = q
WritesSeen == "write" \notin Faults

\* The token a rotation started from stays the family's usable one until it is
\* revoked, and then the family has none until the new one is inserted.
RotationOk(r) ==
    LET q == req[r] IN
    /\ pc[r] \in {"resolve", "recheck", "supersede"} => q.goal = "refresh"
    /\ pc[r] = "insert" => q.goal \in {"login", "refresh"}
    /\ pc[r] \in {"family", "resolve", "recheck", "supersede"} /\ q.goal = "refresh"
         => Live(q.session) /\ sessions[q.session].family = q.family
    /\ pc[r] = "insert" /\ q.goal = "refresh"
         => q.family \in Issued /\ \A s \in Family(q.family) : ~Live(s)

FamiliesIssued == \A s \in Issued : sessions[s].family \in Issued

LiveInv ==
    /\ FamiliesIssued
    /\ OneLiveToken
    /\ \A r \in Requests : RotationOk(r)

\* A step that inserts nothing leaves revoked rows revoked.
Fades ==
    /\ issued' = issued
    /\ \A s \in Issued : /\ sessions'[s].family = sessions[s].family
                         /\ sessions[s].revoked => sessions'[s].revoked

LEMMA StillFades ==
  ASSUME UNCHANGED << sessions, issued >>
  PROVE  Fades
  BY DEF Fades

LEMMA RevokeFades ==
  ASSUME TypeOK, NEW set, Revoke(set), UNCHANGED issued
  PROVE  Fades /\ \A s \in Issued \cap set : sessions'[s].revoked
  BY RevokedFields, IssuedIds DEF TypeOK, Revoke, Fades

LEMMA TouchedFades ==
  ASSUME TypeOK, NEW s, sessions' = Touched(s), UNCHANGED issued
  PROVE  Fades /\ \A x \in Issued : sessions'[x].revoked = sessions[x].revoked
  BY TouchedFields, IssuedIds DEF TypeOK, Touched, Fades

LEMMA FadedLive ==
  ASSUME Fades
  PROVE  /\ Issued' = Issued
         /\ \A s : Live(s)' => Live(s)
         /\ \A f : Family(f)' = Family(f)
  BY DEF Fades, Live, Issued, Family

LEMMA FadedInv ==
  ASSUME OneAtATime, LiveInv, Fades, NEW r \in Requests, RotationOk(r)'
  PROVE  LiveInv'
  <1>1. FamiliesIssued'
    BY DEF LiveInv, FamiliesIssued, Fades, Issued
  <1>2. OneLiveToken'
    BY FadedLive DEF LiveInv, OneLiveToken, Fades, Kin
  <1>3. QED
    BY <1>1, <1>2 DEF LiveInv, OneAtATime

LEMMA QuietRotation ==
  ASSUME NEW r \in Requests, pc'[r] \in Quiet
  PROVE  RotationOk(r)'
  BY DEF Quiet, Resting, RotationOk

LEMMA AskKeepsLive ==
  ASSUME OneAtATime, TypeOK, LiveInv, NEW r \in Requests, NEW s \in Ids, Asking(r, s)
  PROVE  LiveInv'
  <1>1. Fades
    BY StillFades DEF Asking, SessionActive, FindRevoked, TurnAway
  <1>2. CASE \/ FindRevoked(r, s)
             \/ \E answer \in {"refused", "throttled"} : TurnAway(r, s, answer)
    <2>1. pc'[r] \in Quiet
      BY <1>2, StartsQuiet DEF FindRevoked, TurnAway, Quiet, Resting
    <2>2. QED
      BY <1>1, <2>1, QuietRotation, FadedInv
  <1>3. ASSUME NEW g \in Goals, NEW all \in BOOLEAN, SessionActive(r, s, g, all)
        PROVE  LiveInv'
    <2>1. /\ pc'[r] = "family" /\ req'[r] = Naming(s, g, all)
          /\ Live(s) /\ UNCHANGED << sessions, issued >>
      BY <1>3, StartsQuiet DEF SessionActive
    <2>2. req'[r].session = s /\ req'[r].family = sessions[s].family
      BY <2>1, NamingFields
    <2>3. (s \in Issued /\ ~sessions[s].revoked)' /\ sessions'[s].family = req'[r].family
      BY <2>1, <2>2 DEF Live, Issued
    <2>4. RotationOk(r)'
      <3>1. pc'[r] \notin {"resolve", "recheck", "supersede", "insert"}
        BY <2>1
      <3>2. /\ (req[r].session \in Issued /\ ~sessions[req[r].session].revoked)'
            /\ sessions'[req'[r].session].family = req'[r].family
        BY <2>2, <2>3
      <3>3. QED
        BY <3>1, <3>2 DEF RotationOk, Live
    <2>5. QED
      BY <1>1, <2>4, FadedInv
  <1>4. QED
    BY <1>2, <1>3 DEF Asking

LEMMA StartedKeepsLive ==
  ASSUME OneAtATime, TypeOK, LiveInv, NEW r \in Requests, NEW t \in Times, pc[r] = "family",
         StartedAt(r, t), UNCHANGED << sessions, issued >>
  PROVE  LiveInv'
  <1>1. Fades
    BY StillFades
  <1>2. CASE Goto(r, "family", "revokeFamily") /\ UNCHANGED req
    <2>1. pc'[r] \in Quiet
      BY <1>2, GoesQuiet DEF Quiet
    <2>2. QED
      BY <1>1, <2>1, QuietRotation, FadedInv
  <1>3. CASE Rest(r, "idle", req[r].session)
    <2>1. pc'[r] \in Quiet
      BY <1>3, RestsQuiet DEF Resting
    <2>2. QED
      BY <1>1, <2>1, QuietRotation, FadedInv
  <1>4. CASE /\ Goto(r, "family", IF req[r].goal = "refresh" THEN "resolve" ELSE "revoke")
             /\ req' = [req EXCEPT ![r] = Dated(req[r], t)]
    <2>1. /\ req'[r].session = req[r].session
          /\ req'[r].goal = req[r].goal
          /\ req'[r].family = req[r].family
      BY <1>4, DatedFields DEF TypeOK
    <2>2. CASE req[r].goal = "refresh"
      <3>1. pc'[r] = "resolve"
        BY <1>4, <2>2 DEF Goto, TypeOK
      <3>2. RotationOk(r)'
        BY <2>1, <2>2, <3>1 DEF LiveInv, RotationOk, Live, Issued
      <3>3. QED
        BY <1>1, <3>2, FadedInv
    <2>3. CASE req[r].goal # "refresh"
      <3>1. pc'[r] \in Quiet
        BY <1>4, <2>3 DEF Goto, TypeOK, Quiet
      <3>2. QED
        BY <1>1, <3>1, QuietRotation, FadedInv
    <2>4. QED
      BY <2>2, <2>3
  <1>5. QED
    BY <1>2, <1>3, <1>4 DEF StartedAt

LEMMA RotateKeepsLive ==
  ASSUME OneAtATime, TypeOK, LiveInv, NEW r \in Requests,
         Resolve(r) \/ Recheck(r) \/ Supersede(r)
  PROVE  LiveInv'
  <1>a. RotationOk(r)
    BY DEF LiveInv
  <1>1. CASE Resolve(r)
    <2>1. Fades /\ UNCHANGED << sessions, issued >>
      BY <1>1, StillFades DEF Resolve
    <2>2. CASE Rest(r, "refused", NoSession)
      <3>1. pc'[r] \in Quiet
        BY <2>2, RestsQuiet DEF Resting
      <3>2. QED
        BY <2>1, <3>1, QuietRotation, FadedInv
    <2>3. CASE /\ pc' = [pc EXCEPT ![r] = "recheck"]
               /\ req' = [req EXCEPT ![r] = Expiring(req[r], now + Lifetime)]
      <3>1. now + Lifetime \in Expiries
        BY SessionAssumption DEF TypeOK, Times, Expiries
      <3>2. /\ pc'[r] = "recheck"
            /\ req'[r].session = req[r].session
            /\ req'[r].goal = req[r].goal
            /\ req'[r].family = req[r].family
        BY <2>3, <3>1, ExpiringFields DEF TypeOK
      <3>3. RotationOk(r)'
        BY <1>a, <1>1, <2>1, <3>2 DEF Resolve, RotationOk, Live, Issued
      <3>4. QED
        BY <2>1, <3>3, FadedInv
    <2>4. QED
      BY <1>1, <2>2, <2>3 DEF Resolve
  <1>2. CASE Recheck(r)
    <2>1. Fades /\ UNCHANGED << sessions, issued >>
      BY <1>2, StillFades DEF Recheck
    <2>2. CASE Goto(r, "recheck", "revokeFamily") /\ UNCHANGED req
      <3>1. pc'[r] \in Quiet
        BY <2>2, GoesQuiet DEF Quiet
      <3>2. QED
        BY <2>1, <3>1, QuietRotation, FadedInv
    <2>3. CASE /\ Goto(r, "recheck", "supersede")
               /\ req' = [req EXCEPT ![r] = Expiring(req[r], Capped(req[r]))]
      <3>1. Capped(req[r]) \in Expiries
        BY CappedFields DEF TypeOK
      <3>2. /\ pc'[r] = "supersede"
            /\ req'[r].session = req[r].session
            /\ req'[r].goal = req[r].goal
            /\ req'[r].family = req[r].family
        BY <2>3, <3>1, ExpiringFields DEF TypeOK, Goto
      <3>3. RotationOk(r)'
        BY <1>a, <1>2, <2>1, <3>2 DEF Recheck, RotationOk, Live, Issued
      <3>4. QED
        BY <2>1, <3>3, FadedInv
    <2>4. QED
      BY <1>2, <2>2, <2>3 DEF Recheck
  <1>3. CASE Supersede(r)
    <2>1. /\ Fades /\ UNCHANGED req
          /\ \A s \in Issued \cap {req[r].session} : sessions'[s].revoked
      BY <1>3, RevokeFades DEF Supersede
    <2>2. pc[r] = "supersede" /\ pc'[r] = "insert"
      BY <1>3 DEF Supersede, Goto, TypeOK
    <2>3. /\ req[r].goal = "refresh" /\ Live(req[r].session)
          /\ sessions[req[r].session].family = req[r].family
      BY <1>a, <2>2 DEF RotationOk
    <2>4. req[r].family \in Issued
      BY <2>3 DEF LiveInv, FamiliesIssued, Live
    <2>5. ASSUME NEW s \in Family(req[r].family), Live(s)'
          PROVE  FALSE
      <3>1. s \in Issued /\ Live(s) /\ Kin(s, req[r].session)
        BY <2>1, <2>3, <2>5, FadedLive DEF Family, Kin
      <3>2. s = req[r].session
        BY <2>3, <3>1 DEF LiveInv, OneLiveToken, Live
      <3>3. QED
        BY <2>1, <2>5, <3>1, <3>2 DEF Live
    <2>6. RotationOk(r)'
      BY <2>1, <2>2, <2>3, <2>4, <2>5, FadedLive DEF RotationOk
    <2>7. QED
      BY <2>1, <2>6, FadedInv
  <1>4. QED
    BY <1>1, <1>2, <1>3

LEMMA Inserted ==
  ASSUME TypeOK, NEW r \in Requests, Insert(r)
  PROVE  LET id == issued + 1 IN
         /\ id \in Ids /\ id \notin Issued /\ Issued' = Issued \cup {id}
         /\ \A s \in Issued : sessions'[s] = sessions[s]
         /\ req[r].goal = "login" => sessions'[id].family = id
         /\ req[r].goal # "login" => sessions'[id].family = req[r].family
         /\ ~sessions'[id].revoked
         /\ pc[r] = "insert" /\ pc'[r] \in Quiet
  <1> DEFINE id == issued + 1
  <1>1. id \in Ids /\ id \notin Issued /\ Issued' = Issued \cup {id}
    BY SessionAssumption DEF Insert, TypeOK, Ids, Issued
  <1>2. sessions'[id] = NewRow(req[r], id) /\ \A s \in Issued : sessions'[s] = sessions[s]
    BY <1>1, IssuedIds DEF Insert, TypeOK
  <1>3. /\ req[r].goal = "login" => sessions'[id].family = id
        /\ req[r].goal # "login" => sessions'[id].family = req[r].family
        /\ ~sessions'[id].revoked
    BY <1>1, <1>2, NewRowFields DEF TypeOK
  <1>4. pc[r] = "insert" /\ pc'[r] \in Quiet
    BY DEF Insert, Rest, TypeOK, Quiet, Resting
  <1>5. QED
    BY <1>1, <1>2, <1>3, <1>4

LEMMA InsertKeepsLive ==
  ASSUME OneAtATime, TypeOK, LiveInv, NEW r \in Requests, Insert(r)
  PROVE  LiveInv'
  <1> DEFINE id == issued + 1
  <1>1. /\ id \in Ids /\ id \notin Issued /\ Issued' = Issued \cup {id}
        /\ \A s \in Issued : sessions'[s] = sessions[s]
        /\ req[r].goal = "login" => sessions'[id].family = id
        /\ req[r].goal # "login" => sessions'[id].family = req[r].family
        /\ pc[r] = "insert" /\ pc'[r] \in Quiet
    BY Inserted
  <1>2. RotationOk(r) /\ FamiliesIssued /\ OneLiveToken
    BY DEF LiveInv
  <1>3. /\ req[r].goal \in {"login", "refresh"}
        /\ req[r].goal = "refresh" =>
             req[r].family \in Issued /\ \A s \in Family(req[r].family) : ~Live(s)
    BY <1>1, <1>2 DEF RotationOk
  <1>4. FamiliesIssued'
    BY <1>1, <1>2, <1>3 DEF FamiliesIssued
  <1>5. ASSUME NEW s \in Issued, ~sessions'[s].revoked,
               sessions'[s].family = sessions'[id].family
        PROVE  FALSE
    <2>1. Live(s) /\ sessions[s].family = sessions'[id].family
      BY <1>1, <1>5 DEF Live
    <2>2. CASE req[r].goal = "login"
      BY <1>1, <1>2, <2>1, <2>2 DEF FamiliesIssued
    <2>3. CASE req[r].goal = "refresh"
      BY <1>1, <1>3, <2>1, <2>3 DEF Family
    <2>4. QED
      BY <1>3, <2>2, <2>3
  <1>6. OneLiveToken'
    <2> SUFFICES ASSUME NEW s \in Issued', NEW x \in Issued', Live(s)', Live(x)', Kin(s, x)'
                 PROVE  s = x
      BY DEF OneLiveToken
    <2>1. CASE s \in Issued /\ x \in Issued
      BY <1>1, <1>2, <2>1 DEF OneLiveToken, Live, Kin
    <2>2. CASE s = id /\ x \in Issued
      BY <1>5, <2>2 DEF Live, Kin
    <2>3. CASE x = id /\ s \in Issued
      BY <1>5, <2>3 DEF Live, Kin
    <2>4. QED
      BY <1>1, <2>1, <2>2, <2>3
  <1>7. QED
    BY <1>1, <1>4, <1>6, QuietRotation DEF LiveInv, OneAtATime

LEMMA SettlesKeepsLive ==
  ASSUME OneAtATime, TypeOK, LiveInv, NEW r \in Requests,
         \/ TouchSession(r) \/ RevokeFamily(r) \/ RevokeSession(r) \/ RevokeAllForUser(r)
         \/ RecheckFails(r) \/ InsertFails(r) \/ UpdateFails(r) \/ LogoutCaught(r)
         \/ Abort(r)
  PROVE  LiveInv' /\ Fades /\ pc'[r] \in Quiet
  <1>1. Fades
    BY StillFades, RevokeFades, TouchedFades
       DEF TouchSession, RevokeFamily, RevokeSession, RevokeAllForUser,
           RecheckFails, InsertFails, UpdateFails, LogoutCaught, Abort
  <1>2. pc'[r] \in Quiet
    <2>1. CASE \/ TouchSession(r) \/ RevokeFamily(r) \/ RevokeAllForUser(r)
               \/ InsertFails(r) \/ LogoutCaught(r) \/ Abort(r)
      BY <2>1, RestsQuiet
         DEF TouchSession, RevokeFamily, RevokeAllForUser, InsertFails, LogoutCaught, Abort,
             Resting
    <2>2. CASE RecheckFails(r)
      BY <2>2, GoesQuiet DEF RecheckFails, Quiet
    <2>3. CASE RevokeSession(r)
      BY <2>3, RestsQuiet, GoesQuiet DEF RevokeSession, AfterRevoke, Resting, Quiet
    <2>4. CASE UpdateFails(r)
      BY <2>4, RestsQuiet, GoesQuiet DEF UpdateFails, AfterRevoke, Resting, Quiet
    <2>5. QED
      BY <2>1, <2>2, <2>3, <2>4
  <1>3. QED
    BY <1>1, <1>2, QuietRotation, FadedInv

LEMMA LoginStarts ==
  ASSUME TypeOK, NEW r \in Requests, LoginStart(r)
  PROVE  Fades /\ pc'[r] = "insert" /\ req'[r].goal = "login"
  <1>1. now + Lifetime \in Expiries
    BY SessionAssumption DEF TypeOK, Times, Expiries
  <1>2. QED
    BY <1>1, StillFades, StartsQuiet, LoginFields DEF LoginStart

\* Steps that leave every row as live as it was and every request where it is.
LEMMA IdlingFades ==
  ASSUME TypeOK, Tick \/ (\E s \in Ids : Heartbeat(s)) \/ UNCHANGED sessionVars
  PROVE  /\ Fades /\ UNCHANGED << pc, req >>
         /\ \A x \in Issued : sessions'[x].revoked = sessions[x].revoked
  BY StillFades, TouchedFades DEF Tick, Heartbeat, sessionVars

LEMMA LiveStep ==
  ASSUME OneAtATime, WritesSeen, TypeOK, LiveInv, [Next]_sessionVars
  PROVE  LiveInv'
  <1>1. CASE Tick \/ (\E s \in Ids : Heartbeat(s)) \/ UNCHANGED sessionVars
    <2>1. /\ Fades /\ UNCHANGED << pc, req >>
          /\ \A x \in Issued : sessions'[x].revoked = sessions[x].revoked
      BY <1>1, IdlingFades
    <2>2. ASSUME NEW r \in Requests
          PROVE  RotationOk(r)'
      BY <2>1, FadedLive DEF LiveInv, RotationOk, Live, Fades
    <2>3. FamiliesIssued' /\ OneLiveToken'
      BY <2>1, FadedLive DEF LiveInv, FamiliesIssued, OneLiveToken, Fades, Kin
    <2>4. QED
      BY <2>2, <2>3 DEF LiveInv
  <1>2. ASSUME NEW r \in Requests, LoginStart(r)
        PROVE  LiveInv'
    <2>1. RotationOk(r)'
      BY <1>2, LoginStarts DEF RotationOk
    <2>2. QED
      BY <1>2, <2>1, LoginStarts, FadedInv
  <1>3. ASSUME NEW r \in Requests, NEW s \in Ids, NEW all \in BOOLEAN,
               Refresh(r, s) \/ Check(r, s) \/ Unauthenticated(r, s) \/ Logout(r, s, all)
        PROVE  LiveInv'
    BY <1>3, RequestsAsk, AskKeepsLive
  <1>5. ASSUME NEW r \in Requests, Proceed(r) \/ GoWrong(r)
        PROVE  LiveInv'
    <2>1. CASE ReadFamily(r)
      <3>1. PICK s \in Family(req[r].family) : StartedAt(r, sessions[s].created)
        BY <2>1 DEF ReadFamily
      <3>2. sessions[s].created \in Times
        BY IssuedIds DEF Family, TypeOK, SessionRow
      <3>3. QED
        BY <2>1, <3>1, <3>2, StartedKeepsLive DEF ReadFamily
    <2>2. CASE ReadFamilyFails(r)
      BY <2>2, StartedKeepsLive DEF ReadFamilyFails, TypeOK
    <2>3. ~SupersedeFails(r)
      BY DEF SupersedeFails, WritesSeen
    <2>4. QED
      BY <1>5, <2>1, <2>2, <2>3, RotateKeepsLive, InsertKeepsLive, SettlesKeepsLive
         DEF Proceed, GoWrong
  <1>6. QED
    BY <1>1, <1>2, <1>3, <1>5 DEF Next

LEMMA LiveInit == Init => LiveInv
  BY DEF Init, LiveInv, FamiliesIssued, OneLiveToken, RotationOk, Issued, Live

\* A family never has two usable tokens, whatever requests fail or die, when
\* requests come one at a time and the revocation of the old token is not lost.
THEOREM OneTokenPerFamily == OneAtATime /\ WritesSeen => (Spec => []OneLiveToken)
  <1> SUFFICES ASSUME OneAtATime, WritesSeen
               PROVE  Spec => []OneLiveToken
    OBVIOUS
  <1>1. LiveInv => OneLiveToken
    BY DEF LiveInv
  <1>2. TypeOK /\ LiveInv /\ [Next]_sessionVars => LiveInv'
    BY LiveStep
  <1>3. QED
    BY <1>1, <1>2, LiveInit, TypeCorrect, PTL DEF Spec

-------------------------------------------------------------------------------
(* A dead family stays dead *)

\* Nothing comes alive by a step that inserts no row, unless it is on its way
\* to insert one.
LEMMA FadedDead ==
  ASSUME OneAtATime, Fades, NEW r \in Requests, NEW f, ~Alive(f),
         pc'[r] = "insert" => req'[r].goal = "login"
  PROVE  ~Alive(f)'
  BY FadedLive DEF Alive, OneAtATime

LEMMA AsksNoInsert ==
  ASSUME TypeOK, NEW r \in Requests, NEW s \in Ids, Asking(r, s)
  PROVE  Fades /\ pc'[r] # "insert"
  <1>1. Fades
    BY StillFades DEF Asking, SessionActive, FindRevoked, TurnAway
  <1>2. PICK next \in {"refused", "throttled", "family", "revokeFamily"} :
            \E q : Start(r, next, q)
    BY DEF Asking, SessionActive, FindRevoked, TurnAway
  <1>3. PICK q : Start(r, next, q)
    BY <1>2
  <1>4. pc'[r] = next
    BY <1>3, StartsQuiet
  <1>5. QED
    BY <1>1, <1>4

LEMMA RotatesNoInsert ==
  ASSUME TypeOK, NEW r \in Requests,
         ReadFamily(r) \/ ReadFamilyFails(r) \/ Resolve(r) \/ Recheck(r)
  PROVE  Fades /\ pc'[r] # "insert"
  <1>1. Fades
    BY StillFades DEF ReadFamily, ReadFamilyFails, Resolve, Recheck
  <1>2. CASE ReadFamily(r) \/ ReadFamilyFails(r)
    <2>1. PICK t : StartedAt(r, t)
      BY <1>2 DEF ReadFamily, ReadFamilyFails
    <2>2. CASE Goto(r, "family", "revokeFamily")
      BY <1>1, <2>2 DEF Goto, TypeOK
    <2>3. CASE Rest(r, "idle", req[r].session)
      BY <1>1, <2>3 DEF Rest, TypeOK
    <2>4. CASE Goto(r, "family", IF req[r].goal = "refresh" THEN "resolve" ELSE "revoke")
      BY <1>1, <2>4 DEF Goto, TypeOK
    <2>5. QED
      BY <2>1, <2>2, <2>3, <2>4 DEF StartedAt
  <1>3. CASE Resolve(r) \/ Recheck(r)
    BY <1>1, <1>3 DEF Resolve, Recheck, Goto, Rest, TypeOK
  <1>4. QED
    BY <1>1, <1>2, <1>3

\* The rotation that is about to insert started from a token that was usable.
LEMMA SupersedeDead ==
  ASSUME OneAtATime, TypeOK, LiveInv, NEW r \in Requests, Supersede(r), NEW f, ~Alive(f)
  PROVE  ~Alive(f)'
  <1>1. Fades /\ UNCHANGED req /\ pc[r] = "supersede"
    BY RevokeFades DEF Supersede, Goto
  <1>2. /\ Live(req[r].session)
        /\ sessions[req[r].session].family = req[r].family
    BY <1>1 DEF LiveInv, RotationOk
  <1>3. req[r].family # f
    BY <1>2 DEF Alive, Family, Live
  <1>4. QED
    BY <1>1, <1>3, FadedLive DEF Alive, OneAtATime

\* A row that is inserted founds a family, or joins the one it was rotated in.
LEMMA InsertDead ==
  ASSUME OneAtATime, TypeOK, NEW r \in Requests, Insert(r), NEW f \in Issued, ~Alive(f)
  PROVE  ~Alive(f)'
  <1> DEFINE id == issued + 1
  <1>1. /\ id \notin Issued /\ Issued' = Issued \cup {id}
        /\ \A s \in Issued : sessions'[s] = sessions[s]
        /\ req[r].goal = "login" => sessions'[id].family = id
        /\ req[r].goal # "login" => sessions'[id].family = req[r].family
        /\ pc[r] = "insert" /\ pc'[r] \in Quiet
    BY Inserted
  <1>2. sessions'[id].family # f
    BY <1>1 DEF Alive
  <1>3. ASSUME NEW s \in Family(f)', Live(s)'
        PROVE  FALSE
    <2>1. s \in Issued' /\ sessions'[s].family = f /\ ~sessions'[s].revoked
      BY <1>3 DEF Family, Live
    <2>2. s \in Issued
      BY <1>1, <1>2, <2>1
    <2>3. s \in Family(f) /\ Live(s)
      BY <1>1, <2>1, <2>2 DEF Family, Live
    <2>4. QED
      BY <2>3 DEF Alive
  <1>4. pc'[r] # "insert"
    BY <1>1 DEF Quiet, Resting
  <1>5. QED
    BY <1>3, <1>4 DEF Alive, OneAtATime

LEMMA DeadStep ==
  ASSUME OneAtATime, WritesSeen, TypeOK, LiveInv, [Next]_sessionVars,
         NEW f \in Issued, ~Alive(f)
  PROVE  ~Alive(f)'
  <1>1. CASE Tick \/ (\E s \in Ids : Heartbeat(s)) \/ UNCHANGED sessionVars
    BY <1>1, IdlingFades, FadedLive DEF Alive
  <1>2. ASSUME NEW r \in Requests, LoginStart(r)
        PROVE  ~Alive(f)'
    BY <1>2, LoginStarts, FadedDead
  <1>3. ASSUME NEW r \in Requests, NEW s \in Ids, NEW all \in BOOLEAN,
               Refresh(r, s) \/ Check(r, s) \/ Unauthenticated(r, s) \/ Logout(r, s, all)
        PROVE  ~Alive(f)'
    BY <1>3, RequestsAsk, AsksNoInsert, FadedDead
  <1>5. ASSUME NEW r \in Requests, Proceed(r) \/ GoWrong(r)
        PROVE  ~Alive(f)'
    <2>1. CASE ReadFamily(r) \/ ReadFamilyFails(r) \/ Resolve(r) \/ Recheck(r)
      BY <2>1, RotatesNoInsert, FadedDead
    <2>2. CASE Supersede(r)
      BY <2>2, SupersedeDead
    <2>3. CASE Insert(r)
      BY <2>3, InsertDead
    <2>4. CASE \/ TouchSession(r) \/ RevokeFamily(r) \/ RevokeSession(r)
               \/ RevokeAllForUser(r) \/ RecheckFails(r) \/ InsertFails(r)
               \/ UpdateFails(r) \/ LogoutCaught(r) \/ Abort(r)
      <3>1. Fades /\ pc'[r] \in Quiet
        BY <2>4, SettlesKeepsLive
      <3>2. pc'[r] # "insert"
        BY <3>1 DEF Quiet, Resting
      <3>3. QED
        BY <3>1, <3>2, FadedDead
    <2>5. ~SupersedeFails(r)
      BY DEF SupersedeFails, WritesSeen
    <2>6. QED
      BY <1>5, <2>1, <2>2, <2>3, <2>4, <2>5 DEF Proceed, GoWrong
  <1>6. QED
    BY <1>1, <1>2, <1>3, <1>5 DEF Next

\* Once its last token is revoked, a family never has a usable one again, under
\* the same two assumptions.  (findValidSession, revokeFamily, revokeAllForUser)
THEOREM DeadFamilies == OneAtATime /\ WritesSeen => (Spec => FamilyStaysDead)
  <1> SUFFICES ASSUME OneAtATime, WritesSeen
               PROVE  Spec => FamilyStaysDead
    OBVIOUS
  <1>1. TypeOK /\ LiveInv /\ [Next]_sessionVars => LiveInv'
    BY LiveStep
  <1>2. TypeOK /\ LiveInv /\ [Next]_sessionVars
          => [\A f \in Issued : ~Alive(f) => ~Alive(f)']_sessionVars
    BY DeadStep
  <1>3. QED
    BY <1>1, <1>2, LiveInit, TypeCorrect, PTL DEF Spec, FamilyStaysDead

-------------------------------------------------------------------------------
(* The browser takes the steps of the sessions *)

LEMMA AskedIsAnId ==
  ASSUME TypeOK, NEW r \in Requests, NEW s, Asking(r, s)
  PROVE  s \in Ids
  <1>1. s \in Issued
    BY DEF Asking, SessionActive, FindRevoked, TurnAway, Live
  <1>2. QED
    BY <1>1, IssuedIds

LEMMA BrowserSteps ==
  ASSUME TypeOK, BrowserNext
  PROVE  [Next]_sessionVars
  <1>1. CASE Clock
    BY <1>1 DEF Clock, Next
  <1>2. ASSUME NEW r \in Requests, BackendStep(r) \/ GoWrong(r)
        PROVE  Next
    BY <1>2 DEF BackendStep, Next
  <1>3. ASSUME NEW r \in Requests, NEW s, NEW all \in BOOLEAN,
               Refresh(r, s) \/ Check(r, s) \/ Unauthenticated(r, s) \/ Logout(r, s, all)
        PROVE  [Next]_sessionVars
    <2>1. s \in Ids
      BY <1>3, RequestsAsk, AskedIsAnId
    <2>2. QED
      BY <1>3, <2>1 DEF Next
  <1>4. Calls \subseteq Requests /\ Data \subseteq Requests /\ Logouts \subseteq Requests
    BY BrowserAssumption
  <1>5. ASSUME NEW c \in Calls,
               Join(c) \/ Wait(c) \/ Acquire(c) \/ CallStep(c) \/ LoseAnswer(c)
        PROVE  [Next]_sessionVars
    <2>1. CASE Arrive(c)
      BY <1>3, <1>4, <2>1 DEF Arrive
    <2>2. CASE ~ Arrive(c)
      BY <1>5, <2>2
         DEF Join, Wait, Acquire, CallStep, LoseAnswer, PollSkip, PollVerify, AnswerCall,
             AnswerOrphan
    <2>3. QED
      BY <2>1, <2>2
  <1>6. ASSUME NEW d \in Data, SendData(d) \/ DataStep(d)
        PROVE  [Next]_sessionVars
    <2>1. CASE Forward(d) \/ RefreshOnServer(d)
      BY <1>3, <1>4, <2>1 DEF Forward, RefreshOnServer
    <2>2. CASE SendData(d) \/ DataServed(d) \/ DataRenewed(d)
      BY <2>2 DEF SendData, DataServed, DataRenewed
    <2>3. QED
      BY <1>6, <2>1, <2>2 DEF DataStep
  <1>7. ASSUME NEW l \in Logouts, SendLogout(l) \/ LogoutStep(l)
        PROVE  [Next]_sessionVars
    <2>1. ASSUME NEW all \in BOOLEAN, ArriveLogout(l, all)
          PROVE  [Next]_sessionVars
      <3>1. Throttled(l, carried[l].token) => Logout(l, carried[l].token, all)
        BY DEF Logout, Admit
      <3>2. QED
        BY <1>3, <1>4, <2>1, <3>1 DEF ArriveLogout
    <2>2. CASE SendLogout(l) \/ AnswerLogout(l)
      BY <2>2 DEF SendLogout, AnswerLogout
    <2>3. QED
      BY <1>7, <2>1, <2>2 DEF LogoutStep
  <1>8. \A t \in Tabs : CloseTab(t) => UNCHANGED sessionVars
    BY DEF CloseTab
  <1>9. \A r \in Requests : LoseReply(r) => UNCHANGED sessionVars
    BY DEF LoseReply
  <1>10. QED
    BY <1>1, <1>2, <1>4, <1>5, <1>6, <1>7, <1>8, <1>9 DEF BrowserNext

-------------------------------------------------------------------------------
(* Types of the browser *)

JarsOk ==
    /\ jar \in Jar
    /\ carried \in [Requests -> Jar]
    /\ left \in BOOLEAN
SlotsOk ==
    /\ step \in [Requests -> Steps]
    /\ flight \in [Tabs -> Calls \cup {NoCall}]
LocksOk ==
    /\ lock \in Lock \cup {NoLock}
    /\ refreshedAt \in Times \cup {Never}
    /\ deadline \in [Calls -> 0..(MaxTime + LockStale)]

LEMMA JarFields ==
  ASSUME TypeOK, NEW r \in Requests
  PROVE  /\ NoJar \in Jar /\ NoJar.token = NoSession
         /\ NewJar(r) \in Jar /\ NewJar(r).token = req[r].session /\ NewJar(r) # NoJar
  <1>1. req[r].session \in Ids \cup {NoSession}
    BY DEF TypeOK, Request
  <1>2. NewJar(r) \in Jar /\ NewJar(r).token = req[r].session
    BY <1>1 DEF NewJar, Jar
  <1>3. NoJar \in Jar /\ NoJar.token = NoSession
    BY DEF NoJar, Jar
  <1>4. ~ NewJar(r).expired /\ NoJar.expired
    BY DEF NewJar, NoJar
  <1>5. QED
    BY <1>2, <1>3, <1>4

LEMMA JarsStep ==
  ASSUME TypeOK, JarsOk, BrowserNext
  PROVE  JarsOk'
  <1>1. ASSUME NEW r \in Requests PROVE NewJar(r) \in Jar /\ NoJar \in Jar
    BY JarFields
  <1>2. Calls \subseteq Requests /\ Data \subseteq Requests /\ Logouts \subseteq Requests
    BY BrowserAssumption
  <1>3. CASE UNCHANGED << jar, carried, left >>
    BY <1>3 DEF JarsOk
  <1>4. ASSUME NEW r \in Requests, jar' \in {jar, NewJar(r), NoJar}, left' \in BOOLEAN,
               UNCHANGED carried \/ Send(r) \/ Forget(r)
        PROVE  JarsOk'
    BY <1>1, <1>4 DEF JarsOk, Send, Forget
  <1>5. left \in BOOLEAN
    BY DEF JarsOk
  <1>6. CASE Clock
    BY <1>3, <1>6 DEF Clock, browserVars
  <1>7. ASSUME NEW r \in Requests, BackendStep(r) \/ (GoWrong(r) /\ UNCHANGED browserVars)
        PROVE  JarsOk'
    BY <1>3, <1>7 DEF BackendStep, browserVars
  <1>8. ASSUME NEW c \in Calls,
               Join(c) \/ Wait(c) \/ Acquire(c) \/ CallStep(c) \/ LoseAnswer(c)
        PROVE  JarsOk'
    <2>1. CASE Join(c) \/ Wait(c) \/ PollSkip(c) \/ LoseAnswer(c) \/ AnswerOrphan(c)
      BY <1>3, <2>1 DEF Join, Wait, PollSkip, LoseAnswer, AnswerOrphan
    <2>2. CASE Acquire(c) \/ PollVerify(c) \/ Arrive(c)
      BY <1>2, <1>4, <1>5, <2>2 DEF Acquire, PollVerify, Arrive
    <2>3. CASE AnswerCall(c)
      <3>1. jar' \in {jar, NewJar(c), NoJar}
        BY <2>3 DEF AnswerCall
      <3>2. QED
        BY <1>2, <1>4, <1>5, <2>3, <3>1 DEF AnswerCall
    <2>4. QED
      BY <1>8, <2>1, <2>2, <2>3 DEF CallStep
  <1>9. ASSUME NEW t \in Tabs, CloseTab(t)
        PROVE  JarsOk'
    BY <1>3, <1>9 DEF CloseTab
  <1>10. ASSUME NEW d \in Data, SendData(d) \/ DataStep(d)
         PROVE  JarsOk'
    <2>1. CASE SendData(d) \/ Forward(d) \/ RefreshOnServer(d) \/ DataServed(d)
      BY <1>2, <1>4, <1>5, <2>1 DEF SendData, Forward, RefreshOnServer, DataServed
    <2>2. CASE DataRenewed(d)
      <3>1. jar' \in {jar, NewJar(d), NoJar}
        BY <2>2 DEF DataRenewed
      <3>2. QED
        BY <1>2, <1>4, <1>5, <2>2, <3>1 DEF DataRenewed
    <2>3. QED
      BY <1>10, <2>1, <2>2 DEF DataStep
  <1>11. ASSUME NEW l \in Logouts, SendLogout(l) \/ LogoutStep(l)
         PROVE  JarsOk'
    <2>1. CASE SendLogout(l)
      BY <1>2, <1>4, <1>5, <2>1 DEF SendLogout
    <2>2. ASSUME NEW all \in BOOLEAN, ArriveLogout(l, all)
          PROVE  JarsOk'
      BY <1>3, <2>2 DEF ArriveLogout
    <2>3. CASE AnswerLogout(l)
      BY <1>2, <1>4, <2>3 DEF AnswerLogout
    <2>4. QED
      BY <1>11, <2>1, <2>2, <2>3 DEF LogoutStep
  <1>12. ASSUME NEW r \in Data \cup Logouts, LoseReply(r)
         PROVE  JarsOk'
    BY <1>2, <1>4, <1>5, <1>12 DEF LoseReply
  <1>13. QED
    BY <1>6, <1>7, <1>8, <1>9, <1>10, <1>11, <1>12 DEF BrowserNext

LEMMA SlotsStep ==
  ASSUME SlotsOk, BrowserNext
  PROVE  SlotsOk'
  <1>1. Calls \subseteq Requests /\ Data \subseteq Requests /\ Logouts \subseteq Requests
    BY BrowserAssumption
  <1>2. \A c \in Calls : TabOf[c] \in Tabs
    BY BrowserAssumption
  <1>3. ASSUME NEW r \in Requests, NEW from, NEW to \in Steps, Move(r, from, to)
        PROVE  step' \in [Requests -> Steps]
    BY <1>3 DEF Move, SlotsOk
  <1>4. CASE Clock
    BY <1>4 DEF Clock, browserVars, SlotsOk
  <1>5. ASSUME NEW r \in Requests, BackendStep(r) \/ (GoWrong(r) /\ UNCHANGED browserVars)
        PROVE  SlotsOk'
    BY <1>5 DEF BackendStep, browserVars, SlotsOk
  <1>6. ASSUME NEW c \in Calls,
               Join(c) \/ Wait(c) \/ Acquire(c) \/ CallStep(c) \/ LoseAnswer(c)
        PROVE  SlotsOk'
    <2>1. CASE Join(c) \/ Wait(c) \/ PollSkip(c) \/ PollVerify(c) \/ Arrive(c) \/ AnswerOrphan(c)
      BY <1>1, <1>3, <2>1
         DEF Join, Wait, PollSkip, PollVerify, Arrive, AnswerOrphan, Steps, SlotsOk
    <2>2. CASE Acquire(c)
      BY <1>1, <1>2, <1>3, <2>2 DEF Acquire, Steps, SlotsOk
    <2>3. ASSUME NEW ok, Return(c, "busy", ok)
          PROVE  SlotsOk'
      <3>1. step' \in [Requests -> Steps]
        BY <2>3 DEF Return, Steps, SlotsOk
      <3>2. QED
        BY <1>2, <2>3, <3>1 DEF Return, SlotsOk
    <2>4. QED
      BY <1>6, <2>1, <2>2, <2>3 DEF CallStep, AnswerCall, LoseAnswer
  <1>7. ASSUME NEW t \in Tabs, CloseTab(t)
        PROVE  SlotsOk'
    BY <1>7 DEF CloseTab, Steps, SlotsOk
  <1>8. ASSUME NEW d \in Data, SendData(d) \/ DataStep(d)
        PROVE  SlotsOk'
    <2>1. CASE RefreshOnServer(d)
      BY <1>1, <2>1 DEF RefreshOnServer, Steps, SlotsOk
    <2>2. CASE SendData(d) \/ Forward(d) \/ DataServed(d) \/ DataRenewed(d)
      BY <1>1, <1>3, <2>2 DEF SendData, Forward, DataServed, DataRenewed, Steps, SlotsOk
    <2>3. QED
      BY <1>8, <2>1, <2>2 DEF DataStep
  <1>9. ASSUME NEW l \in Logouts, SendLogout(l) \/ LogoutStep(l)
        PROVE  SlotsOk'
    BY <1>1, <1>3, <1>9 DEF SendLogout, LogoutStep, ArriveLogout, AnswerLogout, Steps, SlotsOk
  <1>10. ASSUME NEW r \in Data \cup Logouts, LoseReply(r)
         PROVE  SlotsOk'
    BY <1>10 DEF LoseReply, Steps, SlotsOk
  <1>11. QED
    BY <1>4, <1>5, <1>6, <1>7, <1>8, <1>9, <1>10 DEF BrowserNext

LEMMA LocksStep ==
  ASSUME TypeOK, LocksOk, BrowserNext
  PROVE  LocksOk'
  <1>1. Calls \subseteq Requests /\ Data \subseteq Requests /\ Logouts \subseteq Requests
    BY BrowserAssumption
  <1>2. now \in Times /\ 0 \in 0..(MaxTime + LockStale)
        /\ now + LockStale \in 0..(MaxTime + LockStale)
    BY BrowserAssumption, SessionAssumption DEF TypeOK, Times
  <1>3. CASE UNCHANGED << lock, refreshedAt, deadline >>
    BY <1>3 DEF LocksOk
  <1>4. ASSUME NEW c \in Calls,
               Join(c) \/ Wait(c) \/ Acquire(c) \/ CallStep(c) \/ LoseAnswer(c)
        PROVE  LocksOk'
    <2>1. CASE Join(c) \/ Arrive(c) \/ AnswerOrphan(c)
      BY <1>3, <2>1 DEF Join, Arrive, AnswerOrphan
    <2>2. CASE Wait(c) \/ PollSkip(c) \/ PollVerify(c)
      BY <1>2, <2>2 DEF Wait, PollSkip, PollVerify, LocksOk
    <2>3. CASE Acquire(c)
      BY <1>2, <2>3 DEF Acquire, Lock, LocksOk
    <2>4. ASSUME NEW ok, Return(c, "busy", ok), UNCHANGED deadline
          PROVE  LocksOk'
      BY <1>2, <2>4 DEF Return, LocksOk
    <2>5. QED
      BY <1>4, <2>1, <2>2, <2>3, <2>4 DEF CallStep, AnswerCall, LoseAnswer
  <1>5. Clock => UNCHANGED << lock, refreshedAt, deadline >>
    BY DEF Clock, browserVars
  <1>6. \A r \in Requests : BackendStep(r) \/ (GoWrong(r) /\ UNCHANGED browserVars)
          => UNCHANGED << lock, refreshedAt, deadline >>
    BY DEF BackendStep, browserVars
  <1>7. \A t \in Tabs : CloseTab(t) => UNCHANGED << lock, refreshedAt, deadline >>
    BY DEF CloseTab
  <1>8. \A d \in Data : SendData(d) \/ DataStep(d) => UNCHANGED << lock, refreshedAt, deadline >>
    BY DEF SendData, DataStep, Forward, RefreshOnServer, DataServed, DataRenewed
  <1>9. \A l \in Logouts : SendLogout(l) \/ LogoutStep(l)
          => UNCHANGED << lock, refreshedAt, deadline >>
    BY DEF SendLogout, LogoutStep, ArriveLogout, AnswerLogout
  <1>10. \A r \in Data \cup Logouts : LoseReply(r) => UNCHANGED << lock, refreshedAt, deadline >>
    BY DEF LoseReply
  <1>11. QED
    BY <1>3, <1>4, <1>5, <1>6, <1>7, <1>8, <1>9, <1>10 DEF BrowserNext

LEMMA BrowserTypeInit == BrowserInit => BrowserTypeOK
  <1> SUFFICES ASSUME BrowserInit
               PROVE  BrowserTypeOK
    OBVIOUS
  <1>1. 1 \in Ids /\ 0 \in Times /\ Lifetime \in Expiries /\ 0 \in Expiries
    BY BrowserAssumption, SessionAssumption DEF Ids, Times, Expiries
  <1>2. BlankRow \in SessionRow
    BY <1>1 DEF BlankRow, SessionRow
  <1>3. [family |-> 1, created |-> 0, expires |-> Lifetime, active |-> 0, revoked |-> FALSE]
          \in SessionRow
    BY <1>1 DEF SessionRow
  <1>4. Blank \in Request
    BY AnsweringFields DEF Blank
  <1>5. sessions \in [Ids -> SessionRow]
    BY <1>2, <1>3 DEF BrowserInit
  <1>6. issued \in 0..MaxSessions
    BY BrowserAssumption DEF BrowserInit
  <1>7. TypeOK
    BY <1>1, <1>4, <1>5, <1>6 DEF BrowserInit, TypeOK, Resting
  <1>8. jar \in Jar /\ NoJar \in Jar
    BY <1>1 DEF BrowserInit, Jar, NoJar
  <1>9. 0 \in 0..(MaxTime + LockStale)
    BY BrowserAssumption, SessionAssumption
  <1>10. QED
    BY <1>7, <1>8, <1>9 DEF BrowserInit, BrowserTypeOK, Steps

LEMMA BrowserTypeStep == BrowserTypeOK /\ [BrowserNext]_vars => BrowserTypeOK'
  <1> SUFFICES ASSUME BrowserTypeOK, [BrowserNext]_vars
               PROVE  BrowserTypeOK'
    OBVIOUS
  <1>1. TypeOK /\ JarsOk /\ SlotsOk /\ LocksOk
    BY DEF BrowserTypeOK, JarsOk, SlotsOk, LocksOk
  <1>2. CASE UNCHANGED vars
    BY <1>2 DEF vars, sessionVars, browserVars, BrowserTypeOK, TypeOK
  <1>3. CASE BrowserNext
    <2>1. TypeOK'
      BY <1>1, <1>3, BrowserSteps, TypeStep
    <2>2. JarsOk' /\ SlotsOk' /\ LocksOk'
      BY <1>1, <1>3, JarsStep, SlotsStep, LocksStep
    <2>3. QED
      BY <2>1, <2>2 DEF BrowserTypeOK, JarsOk, SlotsOk, LocksOk
  <1>4. QED
    BY <1>2, <1>3

-------------------------------------------------------------------------------
(* Rows that last *)

\* A row expires no earlier than one of the first login would, and so will the row that a
\* request is about to insert.
RowsLast ==
    /\ \A s \in Issued : sessions[s].expires >= Lifetime
    /\ \A r \in Requests : pc[r] \in {"recheck", "supersede", "insert"} =>
          req[r].expires >= Lifetime

LEMMA RestsAt ==
  ASSUME TypeOK, NEW r \in Requests, NEW o, NEW s, Rest(r, o, s)
  PROVE  /\ pc'[r] = o /\ req'[r] = Answering(s)
         /\ \A q \in Requests \ {r} : pc'[q] = pc[q] /\ req'[q] = req[q]
  BY DEF TypeOK, Rest

LEMMA StartsAt ==
  ASSUME TypeOK, NEW r \in Requests, NEW next, NEW q, Start(r, next, q)
  PROVE  /\ pc[r] \in Resting /\ pc'[r] = next /\ req'[r] = q
         /\ \A o \in Requests \ {r} : pc'[o] = pc[o] /\ req'[o] = req[o]
  BY DEF TypeOK, Start

LEMMA GoesAt ==
  ASSUME TypeOK, NEW r \in Requests, NEW from, NEW to, Goto(r, from, to)
  PROVE  /\ pc[r] = from /\ pc'[r] = to
         /\ \A q \in Requests \ {r} : pc'[q] = pc[q]
  BY DEF TypeOK, Goto

LEMMA CappedLasts ==
  ASSUME NEW q \in Request, q.expires >= Lifetime
  PROVE  Capped(q) >= Lifetime
  BY SessionAssumption DEF Capped, Request, Times, Expiries

LEMMA StillLasts ==
  ASSUME RowsLast, issued' = issued, UNCHANGED << pc, req >>,
         \A s \in Issued : sessions'[s].expires = sessions[s].expires
  PROVE  RowsLast'
  BY DEF RowsLast, Issued

\* A step of one request that inserts no row.
LEMMA OthersLast ==
  ASSUME RowsLast, issued' = issued, NEW r \in Requests,
         \A s \in Issued : sessions'[s].expires = sessions[s].expires,
         \A q \in Requests \ {r} : pc'[q] = pc[q] /\ req'[q] = req[q],
         pc'[r] \in {"recheck", "supersede", "insert"} => req'[r].expires >= Lifetime
  PROVE  RowsLast'
  BY DEF RowsLast, Issued

LEMMA RowsLastStep == TypeOK /\ RowsLast /\ [Next]_sessionVars => RowsLast'
  <1> SUFFICES ASSUME TypeOK, RowsLast, [Next]_sessionVars
               PROVE  RowsLast'
    OBVIOUS
  <1> DEFINE Kept == issued' = issued /\ \A s \in Issued : sessions'[s].expires = sessions[s].expires
  <1>1. UNCHANGED << sessions, issued >> => Kept
    OBVIOUS
  <1>2. \A set : Revoke(set) /\ UNCHANGED << now, issued >> => Kept
    BY RevokeKeeps DEF RowsKept
  <1>3. \A s : sessions' = Touched(s) /\ UNCHANGED << now, issued >> => Kept
    BY TouchedKeeps DEF RowsKept
  <1>4. ASSUME Kept, UNCHANGED << pc, req >>
        PROVE  RowsLast'
    BY <1>4, StillLasts
  <1>5. ASSUME NEW r \in Requests, NEW o, NEW s, Kept, Rest(r, o, s),
               o \notin {"recheck", "supersede", "insert"}
        PROVE  RowsLast'
    <2>1. pc'[r] = o /\ \A q \in Requests \ {r} : pc'[q] = pc[q] /\ req'[q] = req[q]
      BY <1>5, RestsAt
    <2>2. QED
      BY <1>5, <2>1, OthersLast
  <1>6. ASSUME NEW r \in Requests, NEW next, NEW q, Kept, Start(r, next, q),
               next \in {"recheck", "supersede", "insert"} => q.expires >= Lifetime
        PROVE  RowsLast'
    <2>1. /\ pc'[r] = next /\ req'[r] = q
          /\ \A o \in Requests \ {r} : pc'[o] = pc[o] /\ req'[o] = req[o]
      BY <1>6, StartsAt
    <2>2. QED
      BY <1>6, <2>1, OthersLast
  <1>7. ASSUME NEW r \in Requests, NEW from, NEW to, Kept, Goto(r, from, to),
               NEW q \in Request, UNCHANGED req \/ req' = [req EXCEPT ![r] = q],
               to \in {"recheck", "supersede", "insert"} => req'[r].expires >= Lifetime
        PROVE  RowsLast'
    <2>1. pc'[r] = to /\ \A o \in Requests \ {r} : pc'[o] = pc[o] /\ req'[o] = req[o]
      BY <1>7, GoesAt DEF TypeOK
    <2>2. QED
      BY <1>7, <2>1, OthersLast
  <1>8. ASSUME NEW r \in Requests, NEW t \in Times, StartedAt(r, t), Kept
        PROVE  RowsLast'
    <2>1. req[r] \in Request /\ Dated(req[r], t) \in Request
      BY DatedFields DEF TypeOK
    <2>2. CASE Goto(r, "family", "revokeFamily") /\ UNCHANGED req
      BY <1>7, <1>8, <2>1, <2>2
    <2>3. CASE Rest(r, "idle", req[r].session)
      BY <1>5, <1>8, <2>3
    <2>4. CASE /\ Goto(r, "family", IF req[r].goal = "refresh" THEN "resolve" ELSE "revoke")
               /\ req' = [req EXCEPT ![r] = Dated(req[r], t)]
      <3>1. PICK to \in {"resolve", "revoke"} : Goto(r, "family", to)
        BY <2>4
      <3>2. QED
        BY <1>7, <1>8, <2>1, <2>4, <3>1
    <2>5. QED
      BY <1>8, <2>2, <2>3, <2>4 DEF StartedAt
  <1>9. ASSUME NEW r \in Requests, Proceed(r) \/ GoWrong(r)
        PROVE  RowsLast'
    <2>0. req[r] \in Request /\ (pc[r] \in {"recheck", "supersede", "insert"} => req[r].expires >= Lifetime)
      BY DEF TypeOK, RowsLast
    <2>1. CASE ReadFamily(r)
      <3>1. PICK s \in Family(req[r].family) : StartedAt(r, sessions[s].created)
        BY <2>1 DEF ReadFamily
      <3>2. sessions[s].created \in Times
        BY IssuedIds DEF Family, TypeOK, SessionRow
      <3>3. QED
        BY <1>1, <1>8, <2>1, <3>1, <3>2 DEF ReadFamily
    <2>2. CASE ReadFamilyFails(r)
      BY <1>1, <1>8, <2>2 DEF ReadFamilyFails, TypeOK
    <2>3. CASE Resolve(r)
      <3>1. now + Lifetime \in Expiries /\ now + Lifetime >= Lifetime
        BY SessionAssumption DEF TypeOK, Times, Expiries
      <3>2. CASE Rest(r, "refused", NoSession)
        BY <1>1, <1>5, <2>3, <3>2 DEF Resolve
      <3>3. CASE pc[r] = "resolve" /\ pc' = [pc EXCEPT ![r] = "recheck"]
                 /\ req' = [req EXCEPT ![r] = Expiring(req[r], now + Lifetime)]
        <4>1. Expiring(req[r], now + Lifetime) \in Request
              /\ Expiring(req[r], now + Lifetime).expires >= Lifetime
          BY <2>0, <3>1, ExpiringFields
        <4>2. Goto(r, "resolve", "recheck")
          BY <3>3 DEF Goto
        <4>3. req'[r].expires >= Lifetime
          BY <3>3, <4>1 DEF TypeOK
        <4>4. QED
          BY <1>1, <1>7, <2>3, <3>3, <4>1, <4>2, <4>3 DEF Resolve
      <3>4. QED
        BY <2>3, <3>2, <3>3 DEF Resolve
    <2>4. CASE Recheck(r)
      <3>1. Capped(req[r]) \in Expiries /\ Capped(req[r]) >= Lifetime
        BY <2>0, <2>4, CappedFields, CappedLasts DEF Recheck
      <3>2. Expiring(req[r], Capped(req[r])) \in Request
            /\ Expiring(req[r], Capped(req[r])).expires >= Lifetime
        BY <2>0, <3>1, ExpiringFields
      <3>3. CASE Goto(r, "recheck", "revokeFamily") /\ UNCHANGED req
        BY <1>1, <1>7, <2>0, <2>4, <3>3 DEF Recheck
      <3>4. CASE /\ Goto(r, "recheck", "supersede")
                 /\ req' = [req EXCEPT ![r] = Expiring(req[r], Capped(req[r]))]
        <4>1. req'[r].expires >= Lifetime
          BY <3>2, <3>4 DEF TypeOK
        <4>2. QED
          BY <1>1, <1>7, <2>4, <3>2, <3>4, <4>1 DEF Recheck
      <3>5. QED
        BY <2>4, <3>3, <3>4 DEF Recheck
    <2>5. CASE Supersede(r)
      <3>1. Kept
        BY <1>2, <2>5 DEF Supersede
      <3>2. Goto(r, "supersede", "insert") /\ UNCHANGED req
        BY <2>5 DEF Supersede
      <3>3. req'[r].expires >= Lifetime
        BY <2>0, <3>2 DEF Goto
      <3>4. QED
        BY <1>7, <2>0, <3>1, <3>2, <3>3
    <2>6. CASE SupersedeFails(r) \/ RecheckFails(r)
      <3>1. Goto(r, "supersede", "insert") \/ Goto(r, "recheck", "revokeFamily")
        BY <2>6 DEF SupersedeFails, RecheckFails
      <3>2. Kept /\ UNCHANGED req
        BY <2>6 DEF SupersedeFails, RecheckFails
      <3>3. Goto(r, "supersede", "insert") => req'[r].expires >= Lifetime
        BY <2>0, <3>2 DEF Goto
      <3>4. QED
        BY <1>7, <2>0, <3>1, <3>2, <3>3
    <2>7. CASE Insert(r)
      <3>1. issued + 1 \in Ids /\ issued \in Nat
        BY <2>7, SessionAssumption DEF Insert, TypeOK, Ids
      <3>2. /\ issued' = issued + 1
            /\ sessions' = [sessions EXCEPT ![issued + 1] = NewRow(req[r], issued + 1)]
        BY <2>7 DEF Insert
      <3>3. NewRow(req[r], issued + 1).expires >= Lifetime
        BY <2>0, <2>7 DEF Insert, NewRow
      <3>4. \A s \in Issued' : s \in Issued \/ s = issued + 1
        BY <3>1, <3>2 DEF Issued
      <3>5. \A s \in Issued : s # issued + 1 /\ s \in Ids
        BY <3>1, IssuedIds DEF Issued
      <3>6. \A s \in Issued' : sessions'[s].expires >= Lifetime
        BY <3>1, <3>2, <3>3, <3>4, <3>5 DEF TypeOK, RowsLast
      <3>7. /\ pc'[r] \in {"idle", "touch"}
            /\ \A q \in Requests \ {r} : pc'[q] = pc[q] /\ req'[q] = req[q]
        BY <2>7 DEF Insert, Rest, TypeOK
      <3>8. QED
        BY <3>6, <3>7 DEF RowsLast
    <2>8. CASE InsertFails(r) \/ LogoutCaught(r) \/ Abort(r)
      BY <1>1, <1>5, <2>8 DEF InsertFails, LogoutCaught, Abort
    <2>9. CASE TouchSession(r)
      BY <1>3, <1>5, <2>9 DEF TouchSession
    <2>10. CASE RevokeFamily(r) \/ RevokeAllForUser(r)
      BY <1>2, <1>5, <2>10 DEF RevokeFamily, RevokeAllForUser
    <2>11. ASSUME Kept, AfterRevoke(r)
           PROVE  RowsLast'
      BY <1>5, <1>7, <2>0, <2>11 DEF AfterRevoke
    <2>12. CASE RevokeSession(r)
      BY <1>2, <2>11, <2>12 DEF RevokeSession
    <2>13. CASE UpdateFails(r)
      BY <1>1, <1>5, <2>11, <2>13 DEF UpdateFails
    <2>14. QED
      BY <1>9, <2>1, <2>2, <2>3, <2>4, <2>5, <2>6, <2>7, <2>8, <2>9, <2>10, <2>12, <2>13
         DEF Proceed, GoWrong
  <1>10. CASE Tick \/ UNCHANGED sessionVars
    BY <1>1, <1>4, <1>10 DEF Tick, sessionVars
  <1>11. ASSUME NEW s \in Ids, Heartbeat(s)
         PROVE  RowsLast'
    BY <1>3, <1>4, <1>11 DEF Heartbeat
  <1>12. ASSUME NEW r \in Requests, LoginStart(r)
         PROVE  RowsLast'
    <2>1. now + Lifetime \in Expiries /\ now + Lifetime >= Lifetime
      BY SessionAssumption DEF TypeOK, Times, Expiries
    <2>2. Login(now + Lifetime).expires >= Lifetime
      BY <2>1, LoginFields
    <2>3. QED
      BY <1>1, <1>6, <1>12, <2>2 DEF LoginStart
  <1>13. ASSUME NEW r \in Requests, NEW s \in Ids, NEW all \in BOOLEAN,
                Refresh(r, s) \/ Check(r, s) \/ Unauthenticated(r, s) \/ Logout(r, s, all)
         PROVE  RowsLast'
    <2>1. PICK next \in {"revokeFamily", "refused", "throttled", "family"} :
            \E q : Start(r, next, q) /\ UNCHANGED << sessions, issued >>
      BY <1>13, RequestsAsk DEF Asking, SessionActive, FindRevoked, TurnAway
    <2>2. PICK q : Start(r, next, q) /\ UNCHANGED << sessions, issued >>
      BY <2>1
    <2>3. QED
      BY <1>1, <1>6, <2>1, <2>2
  <1>14. QED
    BY <1>9, <1>10, <1>11, <1>12, <1>13 DEF Next

-------------------------------------------------------------------------------
(* How a request of the browser goes on *)

\* On the scale of the coordinator's clock sessions neither expire nor idle out, and no
\* database call or logout fails and is answered as if it had not.  Requests may die, and
\* be over a limit.
Timeless == MaxTime < Lifetime /\ MaxTime <= IdleTimeout
CallsAnswered == {"read", "write", "caught"} \cap Faults = {}

\* A row that is revoked stays revoked.
Spent(s) == s \in Issued /\ sessions[s].revoked

LEMMA SpentStays ==
  ASSUME TypeOK, [Next]_sessionVars, NEW s, Spent(s)
  PROVE  Spent(s)'
  <1>1. s \in Ids /\ s \in Issued /\ sessions[s] \in SessionRow /\ sessions[s].revoked
    BY IssuedIds DEF Spent, TypeOK
  <1>2. CASE UNCHANGED << sessions, issued >>
    BY <1>2 DEF Spent, Issued
  <1>3. CASE issued' = issued /\ (Fades \/ \E set : Revoke(set))
    BY <1>1, <1>3, RevokedFields DEF Spent, Issued, Fades, Revoke, TypeOK
  <1>4. ASSUME NEW x, sessions' = Touched(x), issued' = issued
        PROVE  Spent(s)'
    BY <1>1, <1>4, TouchedFields DEF Spent, Issued, Touched, TypeOK
  <1>5. ASSUME NEW r \in Requests, Insert(r)
        PROVE  Spent(s)'
    <2>1. issued \in Nat /\ s # issued + 1 /\ s \in 1..(issued + 1)
      BY <1>1 DEF Issued, TypeOK
    <2>2. issued' = issued + 1 /\ sessions'[s] = sessions[s]
      BY <1>1, <1>5, <2>1 DEF Insert, TypeOK
    <2>3. QED
      BY <1>1, <2>1, <2>2 DEF Spent, Issued
  <1>6. ASSUME NEW r \in Requests, Proceed(r) \/ GoWrong(r)
        PROVE  Spent(s)'
    <2>1. CASE Supersede(r) \/ RevokeFamily(r) \/ RevokeSession(r) \/ RevokeAllForUser(r)
      BY <1>3, <2>1 DEF Supersede, RevokeFamily, RevokeSession, RevokeAllForUser
    <2>2. CASE ReadFamily(r) \/ Resolve(r) \/ Recheck(r)
      BY <1>2, <2>2 DEF ReadFamily, Resolve, Recheck
    <2>3. CASE TouchSession(r)
      BY <1>4, <2>3 DEF TouchSession
    <2>4. CASE GoWrong(r)
      BY <1>2, <2>4
         DEF GoWrong, ReadFamilyFails, RecheckFails, SupersedeFails, InsertFails, UpdateFails,
             LogoutCaught, Abort
    <2>5. QED
      BY <1>5, <1>6, <2>1, <2>2, <2>3, <2>4 DEF Proceed
  <1>7. ASSUME NEW x \in Ids, Heartbeat(x)
        PROVE  Spent(s)'
    BY <1>4, <1>7 DEF Heartbeat
  <1>8. ASSUME NEW r \in Requests, NEW x, NEW all \in BOOLEAN,
               \/ LoginStart(r)
               \/ Refresh(r, x) \/ Check(r, x) \/ Unauthenticated(r, x) \/ Logout(r, x, all)
        PROVE  Spent(s)'
    <2>1. LoginStart(r) \/ Asking(r, x)
      BY <1>8, RequestsAsk
    <2>2. QED
      BY <1>2, <2>1 DEF LoginStart, Asking, SessionActive, FindRevoked, TurnAway
  <1>9. QED
    BY <1>2, <1>6, <1>7, <1>8 DEF Next, Tick, sessionVars

\* What a request that was sent to refresh or to log out does next.
SameWork(r) == req'[r].session = req[r].session /\ req'[r].goal = req[r].goal

Turn(r) ==
    \/ /\ pc[r] = "family" /\ req[r].goal = "refresh" /\ pc'[r] = "resolve" /\ SameWork(r)
       /\ UNCHANGED << sessions, issued >>
    \/ /\ pc[r] = "family" /\ req[r].goal = "logout" /\ pc'[r] = "revoke" /\ SameWork(r)
    \/ /\ pc[r] = "family" /\ req[r].goal \notin {"refresh", "logout"}
    \/ /\ pc[r] = "resolve" /\ pc'[r] = "recheck" /\ SameWork(r)
       /\ UNCHANGED << sessions, issued >>
    \/ /\ pc[r] = "recheck" /\ pc'[r] = "supersede" /\ SameWork(r)
       /\ UNCHANGED << sessions, issued >>
    \/ /\ pc[r] = "supersede" /\ pc'[r] = "insert" /\ SameWork(r)
       /\ Revoke({req[r].session}) /\ issued' = issued
    \/ /\ pc[r] = "insert" /\ issued < MaxSessions /\ issued' = issued + 1
       /\ sessions' = [sessions EXCEPT ![issued + 1] = NewRow(req[r], issued + 1)]
       /\ req'[r].session = issued + 1
       /\ pc'[r] = IF req[r].goal = "login" THEN "idle" ELSE "touch"
    \/ /\ pc[r] = "insert" /\ issued = MaxSessions /\ pc'[r] = "refused"
    \/ /\ pc[r] = "touch" /\ pc'[r] = "idle" /\ req'[r].session = req[r].session
       /\ sessions' = Touched(req[r].session) /\ issued' = issued
    \/ /\ pc[r] = "revokeFamily" /\ pc'[r] = "refused"
    \/ /\ pc[r] = "revoke" /\ pc'[r] \in {"revokeAll", "idle"}
       /\ Revoke({req[r].session}) /\ issued' = issued
    \/ /\ pc[r] = "revokeAll" /\ pc'[r] = "idle"
    \/ /\ "abort" \in Faults /\ pc'[r] = "failed"

Alone(r) == \A q \in Requests \ {r} : pc'[q] = pc[q] /\ req'[q] = req[q]

LEMMA TurnsTaken ==
  ASSUME Timeless, CallsAnswered, TypeOK, RowsLast, NEW r \in Requests, Proceed(r) \/ GoWrong(r)
  PROVE  Turn(r) /\ Alone(r)
  <1>0. /\ req[r] \in Request /\ now \in Times /\ now \in Nat
        /\ now < Lifetime /\ now <= IdleTimeout
        /\ MaxTime \in Nat /\ Lifetime \in Nat /\ IdleTimeout \in Nat
    BY SessionAssumption DEF TypeOK, Timeless, Times
  <1>1. CASE ReadFamily(r)
    <2>1. PICK s \in Family(req[r].family) : StartedAt(r, sessions[s].created)
      BY <1>1 DEF ReadFamily
    <2>2. sessions[s].created \in Times /\ sessions[s].created \in Nat
      BY IssuedIds DEF Family, TypeOK, SessionRow, Times
    <2>3. ~ (sessions[s].created + Lifetime < now)
      BY <1>0, <2>2
    <2>4. CASE req[r].goal = "check" /\ Rest(r, "idle", req[r].session)
      BY <1>1, <2>4, RestsAt DEF ReadFamily, Turn, Alone
    <2>5. CASE /\ req[r].goal # "check"
               /\ Goto(r, "family", IF req[r].goal = "refresh" THEN "resolve" ELSE "revoke")
               /\ req' = [req EXCEPT ![r] = Dated(req[r], sessions[s].created)]
      <3>1. SameWork(r) /\ \A q \in Requests \ {r} : req'[q] = req[q]
        BY <1>0, <2>2, <2>5, DatedFields DEF TypeOK, SameWork
      <3>2. PICK to \in {"resolve", "revoke"} :
              to = (IF req[r].goal = "refresh" THEN "resolve" ELSE "revoke")
        OBVIOUS
      <3>3. Goto(r, "family", to)
        BY <2>5, <3>2
      <3>4. /\ pc[r] = "family" /\ pc'[r] = to
            /\ \A q \in Requests \ {r} : pc'[q] = pc[q]
        BY <3>3, GoesAt
      <3>5. QED
        BY <1>1, <3>1, <3>2, <3>4 DEF ReadFamily, Turn, Alone
    <2>6. QED
      BY <2>1, <2>3, <2>4, <2>5 DEF StartedAt
  <1>2. CASE Resolve(r)
    <2>1. req[r].active \in Nat /\ now + Lifetime \in Expiries
      BY <1>0 DEF Request, Times, Expiries
    <2>2. ~ IsIdle(r)
      BY <1>0, <2>1 DEF IsIdle
    <2>3. SameWork(r) /\ \A q \in Requests \ {r} : req'[q] = req[q]
      BY <1>0, <1>2, <2>1, <2>2, ExpiringFields DEF TypeOK, SameWork, Resolve
    <2>4. pc'[r] = "recheck" /\ \A q \in Requests \ {r} : pc'[q] = pc[q]
      BY <1>2, <2>2 DEF TypeOK, Resolve
    <2>5. QED
      BY <1>2, <2>3, <2>4 DEF Resolve, Turn, Alone
  <1>3. CASE Recheck(r)
    <2>1. Capped(req[r]) \in Expiries /\ Capped(req[r]) >= Lifetime
      BY <1>0, <1>3, CappedFields, CappedLasts DEF Recheck, RowsLast
    <2>2. Capped(req[r]) \in Nat /\ ~ (Capped(req[r]) <= now)
      BY <1>0, <2>1 DEF Expiries
    <2>3. /\ Goto(r, "recheck", "supersede")
          /\ req' = [req EXCEPT ![r] = Expiring(req[r], Capped(req[r]))]
      BY <1>3, <2>2 DEF Recheck
    <2>4. SameWork(r) /\ \A q \in Requests \ {r} : req'[q] = req[q]
      BY <1>0, <2>1, <2>3, ExpiringFields DEF TypeOK, SameWork
    <2>5. QED
      BY <1>3, <2>3, <2>4, GoesAt DEF Recheck, Turn, Alone
  <1>4. CASE Supersede(r)
    BY <1>4, GoesAt DEF Supersede, Turn, Alone, SameWork
  <1>5. CASE Insert(r)
    <2>1. issued + 1 \in Ids
      BY <1>5, SessionAssumption DEF Insert, TypeOK, Ids
    <2>2. CASE req[r].goal = "login"
      <3>1. Rest(r, "idle", issued + 1)
        BY <1>5, <2>2 DEF Insert
      <3>2. Answering(issued + 1).session = issued + 1
        BY DEF Answering, NewRequest
      <3>3. QED
        BY <1>5, <2>2, <3>1, <3>2, RestsAt DEF Insert, Turn, Alone
    <2>3. CASE req[r].goal # "login"
      <3>1. /\ pc' = [pc EXCEPT ![r] = "touch"]
            /\ req' = [req EXCEPT ![r] = WithSession(req[r], issued + 1)]
        BY <1>5, <2>3 DEF Insert
      <3>2. WithSession(req[r], issued + 1).session = issued + 1
        BY <1>0 DEF WithSession, Request
      <3>3. pc'[r] = "touch" /\ req'[r].session = issued + 1 /\ Alone(r)
        BY <3>1, <3>2 DEF TypeOK, Alone
      <3>4. QED
        BY <1>5, <2>3, <3>3 DEF Insert, Turn
    <2>4. QED
      BY <2>2, <2>3
  <1>6. CASE TouchSession(r)
    <2>1. Answering(req[r].session).session = req[r].session
      BY DEF Answering, NewRequest
    <2>2. QED
      BY <1>6, <2>1, RestsAt DEF TouchSession, Turn, Alone
  <1>7. CASE RevokeFamily(r) \/ RevokeAllForUser(r)
    BY <1>7, RestsAt DEF RevokeFamily, RevokeAllForUser, Turn, Alone
  <1>8. CASE RevokeSession(r)
    BY <1>8, RestsAt, GoesAt DEF RevokeSession, AfterRevoke, Turn, Alone
  <1>9. CASE GoWrong(r)
    <2>1. \/ issued = MaxSessions /\ pc[r] = "insert" /\ Rest(r, "refused", NoSession)
          \/ "abort" \in Faults /\ Rest(r, "failed", NoSession)
      BY <1>9
         DEF CallsAnswered, GoWrong, ReadFamilyFails, RecheckFails, SupersedeFails, InsertFails,
             UpdateFails, LogoutCaught, Abort
    <2>2. QED
      BY <2>1, RestsAt DEF Turn, Alone
  <1>10. QED
    BY <1>1, <1>2, <1>3, <1>4, <1>5, <1>6, <1>7, <1>8, <1>9 DEF Proceed

-------------------------------------------------------------------------------
(* A session that was refused or left is over *)

\* What is known of the session that a renewal or a logout was sent with: the work
\* names it until it is revoked, by that work or by another; a success of either, and a
\* refusal of a renewal, come only after that.
Over(r) ==
    LET s == carried[r].token IN
    /\ s \in Issued
    /\ pc[r] \in {"family", "resolve", "recheck", "supersede", "revoke"} =>
          req[r].session = s /\ req[r].goal \in {"refresh", "logout"}
    /\ pc[r] \in {"insert", "touch", "revokeFamily", "revokeAll", "idle"} => Spent(s)
    /\ r \in Data /\ pc[r] = "refused" => Spent(s)

OverHolds ==
    /\ \A d \in Data : step[d] = "renewing" => Over(d)
    /\ \A l \in Logouts : step[l] = "busy" => Over(l)

LEMMA OthersOver ==
  ASSUME TypeOK, [Next]_sessionVars, NEW r \in Requests, Over(r),
         carried'[r] = carried[r], pc'[r] = pc[r], req'[r] = req[r], issued <= issued', issued' \in Nat
  PROVE  Over(r)'
  <1>1. (carried[r].token \in Issued)'
    BY DEF Over, Issued, TypeOK
  <1>2. Spent(carried[r].token) => Spent(carried[r].token)'
    BY SpentStays
  <1>3. QED
    BY <1>1, <1>2 DEF Over, Spent

LEMMA OverTurn ==
  ASSUME Timeless, CallsAnswered, TypeOK, RowsLast, [Next]_sessionVars, NEW r \in Requests,
         Proceed(r) \/ GoWrong(r), Over(r), carried'[r] = carried[r],
         issued <= issued', issued' \in Nat
  PROVE  Over(r)'
  <1> DEFINE s == carried[r].token
  <1>1. Turn(r)
    BY TurnsTaken
  <1>2. s \in Issued /\ (s \in Issued)' /\ carried'[r].token = s
    BY DEF Over, Issued, TypeOK
  <1>3. Spent(s) => Spent(s)'
    BY SpentStays
  <1>4. Revoke({s}) /\ issued' = issued => Spent(s)'
    BY <1>2, RevokeFades DEF Spent, Issued
  <1> HIDE DEF s
  <1>5. pc[r] \in Resting \cup Working
    BY DEF TypeOK
  <1>6. CASE pc[r] \in {"family", "resolve", "recheck"}
    BY <1>1, <1>2, <1>6 DEF Over, Turn, SameWork, s
  <1>7. CASE pc[r] \in {"supersede", "revoke"}
    BY <1>1, <1>2, <1>4, <1>7 DEF Over, Turn, SameWork, s
  <1>8. CASE pc[r] \in {"insert", "touch", "revokeFamily", "revokeAll"}
    BY <1>1, <1>2, <1>3, <1>8 DEF Over, Turn, s
  <1>9. CASE pc'[r] = "failed"
    BY <1>2, <1>9 DEF Over, s
  <1>10. QED
    BY <1>1, <1>6, <1>7, <1>8, <1>9 DEF Turn

\* A request that presents a refresh token finds its row, or finds it revoked.
LEMMA OverFinds ==
  ASSUME Timeless, CallsAnswered, TypeOK, RowsLast, NEW r \in Requests,
         Refresh(r, carried[r].token), UNCHANGED carried
  PROVE  Over(r)'
  <1> DEFINE s == carried[r].token
  <1>1. s \in Issued /\ s \in Ids /\ issued' = issued /\ sessions' = sessions
    BY IssuedIds, RequestsAsk, AskedIsAnId
       DEF Refresh, Throttled, FindRevoked, FindExpired, FindValid, SelectFails, TurnAway, Live
  <1>2. ~ FindExpired(r, s) /\ ~ SelectFails(r, s)
    <2>1. now \in Nat /\ now < Lifetime /\ sessions[s].expires \in Nat /\ sessions[s].expires >= Lifetime
      BY <1>1, SessionAssumption DEF TypeOK, RowsLast, Timeless, Times, Expiries, SessionRow
    <2>2. QED
      BY <2>1, SessionAssumption DEF FindExpired, SelectFails, CallsAnswered
  <1>3. Naming(s, "refresh", FALSE).session = s /\ Naming(s, "refresh", FALSE).goal = "refresh"
    BY <1>1, NamingFields DEF Goals
  <1>4. CASE FindRevoked(r, s)
    BY <1>1, <1>4, StartsAt DEF FindRevoked, Over, Spent, Issued
  <1>5. CASE FindValid(r, s)
    <2>1. pc'[r] = "family" /\ req'[r] = Naming(s, "refresh", FALSE)
      BY <1>5, StartsAt DEF FindValid
    <2>2. req'[r].session = s /\ req'[r].goal = "refresh"
      BY <1>3, <2>1
    <2>3. (s \in Issued)' /\ carried'[r].token = s
      BY <1>1 DEF Issued
    <2>4. QED
      BY <2>1, <2>2, <2>3 DEF Over
  <1>6. CASE Throttled(r, s)
    BY <1>1, <1>6, StartsAt DEF Throttled, TurnAway, Over, Issued
  <1>7. QED
    BY <1>2, <1>4, <1>5, <1>6 DEF Refresh

\* A logout is turned away, or works on the session of its access token.
LEMMA OverLeaves ==
  ASSUME TypeOK, NEW r \in Logouts, NEW all \in BOOLEAN,
         \/ Throttled(r, carried[r].token) \/ Unauthenticated(r, carried[r].token)
         \/ Logout(r, carried[r].token, all),
         UNCHANGED carried
  PROVE  Over(r)'
  <1> DEFINE s == carried[r].token
  <1>0. r \in Requests /\ r \notin Data
    BY BrowserAssumption
  <1>1. \/ SessionActive(r, s, "logout", all)
        \/ \E answer \in {"refused", "throttled"} : TurnAway(r, s, answer)
    BY AdmitAsks DEF Logout, Throttled, Unauthenticated
  <1>2. s \in Issued /\ s \in Ids /\ issued' = issued
    BY <1>1, IssuedIds DEF SessionActive, TurnAway, Live
  <1>3. Naming(s, "logout", all).session = s /\ Naming(s, "logout", all).goal = "logout"
    BY <1>2, NamingFields DEF Goals
  <1>4. CASE SessionActive(r, s, "logout", all)
    BY <1>0, <1>2, <1>3, <1>4, StartsAt DEF SessionActive, Over, Issued
  <1>5. ASSUME NEW answer \in {"refused", "throttled"}, TurnAway(r, s, answer)
        PROVE  Over(r)'
    BY <1>0, <1>2, <1>5, StartsAt DEF TurnAway, Over, Issued
  <1>6. QED
    BY <1>1, <1>4, <1>5

\* A step of the browser touches one slot, apart from the slots of calls.
Elsewhere(r) ==
    \A q \in (Data \cup Logouts) \ {r} :
       step'[q] = step[q] /\ carried'[q] = carried[q] /\ pc'[q] = pc[q] /\ req'[q] = req[q]

LEMMA AsksAlone ==
  ASSUME TypeOK, NEW r \in Requests, NEW s, NEW all \in BOOLEAN,
         Refresh(r, s) \/ Check(r, s) \/ Unauthenticated(r, s) \/ Logout(r, s, all)
  PROVE  Alone(r)
  <1>1. PICK next, q : Start(r, next, q)
    BY RequestsAsk DEF Asking, SessionActive, FindRevoked, TurnAway
  <1>2. QED
    BY <1>1, StartsAt DEF Alone

LEMMA CallsElsewhere ==
  ASSUME BrowserTypeOK, NEW c \in Calls,
         Join(c) \/ Wait(c) \/ Acquire(c) \/ CallStep(c) \/ LoseAnswer(c)
  PROVE  Elsewhere(c)
  <1>1. /\ c \in Requests /\ Data \cup Logouts \subseteq Requests \ {c}
        /\ Calls \cap (Data \cup Logouts) = {}
        /\ step \in [Requests -> Steps] /\ carried \in [Requests -> Jar]
    BY BrowserAssumption DEF BrowserTypeOK
  <1>2. CASE Arrive(c)
    <2>1. Alone(c)
      BY <1>1, <1>2, AsksAlone DEF Arrive, BrowserTypeOK
    <2>2. QED
      BY <1>1, <1>2, <2>1 DEF Arrive, Move, Forget, Alone, Elsewhere
  <1>3. CASE ~ Arrive(c)
    <2>1. pc' = pc /\ req' = req
      BY <1>3
         DEF Join, Wait, Acquire, CallStep, LoseAnswer, PollSkip, PollVerify, AnswerCall,
             AnswerOrphan, sessionVars
    <2>2. UNCHANGED carried \/ Send(c)
      BY <1>3
         DEF Join, Wait, Acquire, CallStep, LoseAnswer, PollSkip, PollVerify, AnswerCall,
             AnswerOrphan
    <2>3. \A q \in Data \cup Logouts : carried'[q] = carried[q]
      BY <1>1, <2>2 DEF Send
    <2>4. \A q \in Data \cup Logouts : step'[q] = step[q]
      <3>1. CASE \E from, to : Move(c, from, to)
        BY <1>1, <3>1 DEF Move
      <3>2. CASE \E ok : Return(c, "busy", ok)
        BY <1>1, <3>2 DEF Return
      <3>3. QED
        BY <1>3, <3>1, <3>2
           DEF Join, Wait, Acquire, CallStep, LoseAnswer, PollSkip, PollVerify, AnswerCall,
               AnswerOrphan
    <2>5. QED
      BY <2>1, <2>3, <2>4 DEF Elsewhere
  <1>4. QED
    BY <1>2, <1>3

LEMMA OneElsewhere ==
  ASSUME BrowserTypeOK, NEW r \in Requests,
         \/ SendData(r) \/ DataStep(r) \/ SendLogout(r) \/ LogoutStep(r) \/ LoseReply(r)
  PROVE  Elsewhere(r)
  <1>1. /\ Data \cup Logouts \subseteq Requests
        /\ step \in [Requests -> Steps] /\ carried \in [Requests -> Jar]
    BY BrowserAssumption DEF BrowserTypeOK
  <1>2. \A q \in Requests \ {r} : step'[q] = step[q]
    BY <1>1
       DEF SendData, DataStep, Forward, RefreshOnServer, DataServed, DataRenewed, SendLogout,
           LogoutStep, ArriveLogout, AnswerLogout, LoseReply, Move
  <1>3. \A q \in Requests \ {r} : carried'[q] = carried[q]
    BY <1>1
       DEF SendData, DataStep, Forward, RefreshOnServer, DataServed, DataRenewed, SendLogout,
           LogoutStep, ArriveLogout, AnswerLogout, LoseReply, Send, Forget
  <1>4. Alone(r)
    <2>1. CASE UNCHANGED sessionVars
      BY <2>1 DEF sessionVars, Alone
    <2>2. ASSUME NEW all \in BOOLEAN,
                 \/ Forward(r) \/ RefreshOnServer(r) \/ ArriveLogout(r, all)
          PROVE  Alone(r)
      <3>1. Throttled(r, carried[r].token) => Logout(r, carried[r].token, all)
        BY DEF Logout, Admit
      <3>2. QED
        BY <2>2, <3>1, AsksAlone DEF Forward, RefreshOnServer, ArriveLogout, BrowserTypeOK
    <2>3. QED
      BY <2>1, <2>2
         DEF SendData, DataStep, DataServed, DataRenewed, SendLogout, LogoutStep, AnswerLogout,
             LoseReply
  <1>5. QED
    BY <1>1, <1>2, <1>3, <1>4 DEF Alone, Elsewhere

LEMMA IssuedGrows ==
  ASSUME TypeOK, [Next]_sessionVars
  PROVE  issued <= issued' /\ issued' \in Nat
  <1>1. issued \in Nat
    BY DEF TypeOK
  <1>2. issued' \in {issued, issued + 1}
    BY RequestsAsk
       DEF Next, Tick, Heartbeat, LoginStart, Asking, SessionActive, FindRevoked, TurnAway,
           Proceed, ReadFamily, Resolve, Recheck, Supersede, Insert, TouchSession, RevokeFamily,
           RevokeSession, RevokeAllForUser, GoWrong, ReadFamilyFails, RecheckFails,
           SupersedeFails, InsertFails, UpdateFails, LogoutCaught, Abort, sessionVars
  <1>3. QED
    BY <1>1, <1>2

LEMMA OverInit == BrowserInit => OverHolds
  BY BrowserAssumption DEF BrowserInit, OverHolds

LEMMA OverStep ==
  ASSUME Timeless, CallsAnswered, BrowserTypeOK, RowsLast, OverHolds, [BrowserNext]_vars
  PROVE  OverHolds'
  <1>0. /\ TypeOK /\ step \in [Requests -> Steps]
        /\ Data \subseteq Requests /\ Logouts \subseteq Requests
        /\ Calls \cap Data = {} /\ Calls \cap Logouts = {} /\ Data \cap Logouts = {}
    BY BrowserAssumption DEF BrowserTypeOK
  <1>1. [Next]_sessionVars
    BY <1>0, BrowserSteps DEF vars
  <1>2. issued <= issued' /\ issued' \in Nat
    BY <1>0, <1>1, IssuedGrows
  <1>3. \A q \in Data \cup Logouts :
          /\ Over(q) /\ carried'[q] = carried[q] /\ pc'[q] = pc[q] /\ req'[q] = req[q]
          => Over(q)'
    BY <1>0, <1>1, <1>2, OthersOver
  <1>4. ASSUME NEW r \in Requests, Elsewhere(r),
               r \in Data /\ step'[r] = "renewing" => Over(r)',
               r \in Logouts /\ step'[r] = "busy" => Over(r)'
        PROVE  OverHolds'
    <2>1. ASSUME NEW d \in Data, step'[d] = "renewing", d # r
          PROVE  Over(d)'
      BY <1>3, <1>4, <2>1 DEF Elsewhere, OverHolds
    <2>2. ASSUME NEW l \in Logouts, step'[l] = "busy", l # r
          PROVE  Over(l)'
      BY <1>3, <1>4, <2>2 DEF Elsewhere, OverHolds
    <2>3. QED
      BY <1>4, <2>1, <2>2 DEF OverHolds
  <1>5. CASE UNCHANGED << carried, pc, req >> /\ \A q \in Data \cup Logouts : step'[q] = step[q]
    BY <1>3, <1>5 DEF OverHolds
  <1>6. CASE Clock \/ UNCHANGED vars \/ \E t \in Tabs : CloseTab(t)
    <2>1. UNCHANGED << carried, pc, req >>
      BY <1>6 DEF Clock, Tick, vars, sessionVars, browserVars, CloseTab
    <2>2. \A q \in Data \cup Logouts : step'[q] = step[q]
      BY <1>0, <1>6 DEF Clock, vars, browserVars, CloseTab
    <2>3. QED
      BY <1>5, <2>1, <2>2
  <1>7. ASSUME NEW r \in Requests, Proceed(r) \/ GoWrong(r), UNCHANGED browserVars
        PROVE  OverHolds'
    <2>1. Alone(r) /\ UNCHANGED << step, carried >>
      BY <1>0, <1>7, TurnsTaken DEF browserVars
    <2>2. Over(r) => Over(r)'
      BY <1>0, <1>1, <1>2, <1>7, <2>1, OverTurn
    <2>3. Elsewhere(r)
      BY <1>0, <2>1 DEF Alone, Elsewhere
    <2>4. QED
      BY <1>4, <2>1, <2>2, <2>3 DEF OverHolds
  <1>8. ASSUME NEW c \in Calls,
               Join(c) \/ Wait(c) \/ Acquire(c) \/ CallStep(c) \/ LoseAnswer(c)
        PROVE  OverHolds'
    BY <1>0, <1>4, <1>8, CallsElsewhere, BrowserAssumption
  <1>9. ASSUME NEW d \in Data, SendData(d) \/ DataStep(d)
        PROVE  OverHolds'
    <2>1. CASE RefreshOnServer(d)
      <3>1. Over(d)'
        BY <1>0, <2>1, OverFinds DEF RefreshOnServer
      <3>2. QED
        BY <1>0, <1>4, <2>1, <3>1, OneElsewhere DEF DataStep
    <2>2. CASE ~ RefreshOnServer(d)
      <3>1. step'[d] # "renewing"
        BY <1>0, <1>9, <2>2 DEF SendData, DataStep, Forward, DataServed, DataRenewed, Move
      <3>2. QED
        BY <1>0, <1>4, <1>9, <3>1, OneElsewhere
    <2>3. QED
      BY <2>1, <2>2
  <1>10. ASSUME NEW l \in Logouts, SendLogout(l) \/ LogoutStep(l)
         PROVE  OverHolds'
    <2>1. ASSUME NEW all \in BOOLEAN, ArriveLogout(l, all)
          PROVE  Over(l)'
      BY <1>0, <2>1, OverLeaves DEF ArriveLogout
    <2>2. step'[l] = "busy" => \E all \in BOOLEAN : ArriveLogout(l, all)
      BY <1>0, <1>10 DEF SendLogout, LogoutStep, AnswerLogout, Move
    <2>3. QED
      BY <1>0, <1>4, <1>10, <2>1, <2>2, OneElsewhere
  <1>11. ASSUME NEW r \in Data \cup Logouts, LoseReply(r)
         PROVE  OverHolds'
    <2>1. step'[r] = "rest"
      BY <1>0, <1>11 DEF LoseReply
    <2>2. QED
      BY <1>0, <1>4, <1>11, <2>1, OneElsewhere
  <1>12. QED
    BY <1>6, <1>7, <1>8, <1>9, <1>10, <1>11 DEF BrowserNext, BackendStep

\* What the browser's reachable states have in common, as long as the backend answers.
OverInv == BrowserTypeOK /\ RowsLast /\ OverHolds

LEMMA RowsLastInit == BrowserInit => RowsLast
  <1> SUFFICES ASSUME BrowserInit
               PROVE  RowsLast
    OBVIOUS
  <1>1. 1 \in Ids /\ Issued = {1}
    BY BrowserAssumption DEF BrowserInit, Ids, Issued
  <1>2. sessions[1].expires = Lifetime
    BY <1>1 DEF BrowserInit
  <1>3. Lifetime >= Lifetime
    BY SessionAssumption
  <1>4. QED
    BY <1>1, <1>2, <1>3 DEF BrowserInit, RowsLast

LEMMA OverInvariant == Timeless /\ CallsAnswered => (BrowserSpec => []OverInv)
  <1> SUFFICES ASSUME Timeless /\ CallsAnswered
               PROVE  BrowserSpec => []OverInv
    OBVIOUS
  <1>1. BrowserInit => OverInv
    BY BrowserTypeInit, RowsLastInit, OverInit DEF OverInv
  <1>2. OverInv /\ [BrowserNext]_vars => OverInv'
    <2> SUFFICES ASSUME OverInv, [BrowserNext]_vars
                 PROVE  OverInv'
      OBVIOUS
    <2>1. BrowserTypeOK'
      BY BrowserTypeStep DEF OverInv
    <2>2. [Next]_sessionVars
      BY BrowserSteps DEF OverInv, BrowserTypeOK, vars
    <2>3. RowsLast'
      BY <2>2, RowsLastStep DEF OverInv, BrowserTypeOK
    <2>4. OverHolds'
      BY OverStep DEF OverInv
    <2>5. QED
      BY <2>1, <2>3, <2>4 DEF OverInv
  <1>3. QED
    BY <1>1, <1>2, PTL DEF BrowserSpec

\* Every reachable state of the browser, its coordinator and its requests is well formed.
THEOREM BrowserTypes == BrowserSpec => []BrowserTypeOK
  BY BrowserTypeInit, BrowserTypeStep, PTL DEF BrowserSpec

\* While no database call fails unseen and no session expires of itself, a refresh that
\* the proxy takes for the end of the session because the backend refused it, with 401, is
\* the end of it: for any number of calls, data requests and logouts, requests that die or
\* are over a limit, tabs that close, answers that are late and answers that are lost.
THEOREM ExpiredTrue == Timeless /\ CallsAnswered => (BrowserSpec => ExpiredIsTrue)
  <1> SUFFICES ASSUME Timeless /\ CallsAnswered
               PROVE  BrowserSpec => ExpiredIsTrue
    OBVIOUS
  <1> DEFINE Tells ==
        \A d \in Data :
          step[d] = "renewing" /\ pc[d] = "refused" /\ step'[d] = "rest" /\ jar' = NoJar
            => ~ Live(carried[d].token)
  <1>1. OverInv /\ [BrowserNext]_vars => [Tells]_vars
    BY DEF OverInv, OverHolds, Over, Spent, Live
  <1>2. BrowserSpec => []OverInv
    BY OverInvariant
  <1>3. QED
    BY <1>1, <1>2, PTL DEF BrowserSpec, ExpiredIsTrue

\* Likewise a logout that was answered a success has ended the session that it was sent
\* with.
THEOREM LogoutEnds == Timeless /\ CallsAnswered => (BrowserSpec => LogoutEndsSession)
  <1> SUFFICES ASSUME Timeless /\ CallsAnswered
               PROVE  BrowserSpec => LogoutEndsSession
    OBVIOUS
  <1> DEFINE Ends ==
        \A l \in Logouts :
          step[l] = "busy" /\ pc[l] = "idle" /\ step'[l] = "rest" => ~ Live(carried[l].token)
  <1>1. OverInv /\ [BrowserNext]_vars => [Ends]_vars
    BY DEF OverInv, OverHolds, Over, Spent, Live
  <1>2. BrowserSpec => []OverInv
    BY OverInvariant
  <1>3. QED
    BY <1>1, <1>2, PTL DEF BrowserSpec, LogoutEndsSession

\* Whatever the browser, its coordinator and the proxy do, the backend takes the steps of
\* SessionRotation, from a state that a login leads to; so no token outlives the cap.
THEOREM BrowserRotates == BrowserSpec => [][Next]_sessionVars
  <1>1. BrowserTypeOK /\ [BrowserNext]_vars => [Next]_sessionVars
    BY BrowserSteps DEF BrowserTypeOK, vars
  <1>2. BrowserSpec => []BrowserTypeOK
    BY BrowserTypes
  <1>3. QED
    BY <1>1, <1>2, PTL DEF BrowserSpec

THEOREM BrowserKeepsCap == "read" \notin Faults => (BrowserSpec => []CapHolds)
  <1> SUFFICES ASSUME "read" \notin Faults
               PROVE  BrowserSpec => []CapHolds
    OBVIOUS
  <1>1. BrowserInit => CapInv
    <2> SUFFICES ASSUME BrowserInit
                 PROVE  CapInv
      OBVIOUS
    <2>1. Issued = {1} /\ 1 \in Ids
      BY BrowserAssumption DEF BrowserInit, Issued, Ids
    <2>2. sessions[1].family = 1 /\ sessions[1].created = 0 /\ sessions[1].expires = Lifetime /\ now = 0
      BY <2>1 DEF BrowserInit
    <2>3. FamilyOk(1)
      BY <2>1, <2>2, SessionAssumption DEF FamilyOk
    <2>4. \A r \in Requests : RequestOk(r)
      BY DEF BrowserInit, RequestOk
    <2>5. QED
      BY <2>1, <2>3, <2>4 DEF CapInv, FamiliesOk, RequestsOk
  <1>2. TypeOK /\ CapInv /\ [Next]_sessionVars => CapInv'
    BY CapStep
  <1>3. BrowserSpec => []TypeOK
    <2>1. BrowserTypeOK => TypeOK
      BY DEF BrowserTypeOK
    <2>2. QED
      BY <2>1, BrowserTypes, PTL
  <1>4. TypeOK /\ CapInv => CapHolds
    BY CapMeans
  <1>5. QED
    BY <1>1, <1>2, <1>3, <1>4, BrowserRotates, PTL DEF BrowserSpec

-------------------------------------------------------------------------------
(* The coordinator's lock *)

\* Nothing fails, nobody closes a tab, and the tabs' coordinated calls are all that
\* refreshes or ends the session.
CallsOnly == Faults = {} /\ Data = {} /\ Logouts = {} /\ Timeless

Flying(c) == step[c] \in {"sent", "busy"}

\* The lock is held by the one call that is under way, for less than LockStale, and a
\* call still waiting after it was let go of sees that the session was just refreshed.
FlightHolds ==
    /\ \A c \in Calls : step[c] # "orphan" /\ step[c] # "renewing"
    /\ \A c \in Calls : Flying(c) => lock # NoLock /\ lock.owner = c /\ flight[TabOf[c]] = c
    /\ lock # NoLock => Flying(lock.owner) /\ lock.at <= now /\ now < lock.at + LockStale
    /\ \A c \in Calls : step[c] = "waiting" /\ lock = NoLock => refreshedAt = now
    /\ \A c \in Calls : step[c] # "busy" => pc[c] \in Resting

\* How far the refresh of a call has come: the cookies' session lives until it is
\* superseded, and then the one that answers the call does.
Coming(c) ==
    /\ pc[c] \in {"family", "resolve", "recheck", "supersede", "insert", "touch", "idle"}
    /\ pc[c] \in {"family", "resolve", "recheck", "supersede"} =>
          Live(jar.token) /\ req[c].session = jar.token
    /\ pc[c] \in {"family", "resolve", "recheck", "supersede", "insert"} =>
          req[c].goal = "refresh" /\ issued < MaxSessions
    /\ pc[c] \in {"touch", "idle"} => Live(req[c].session)

KeptHolds ==
    /\ jar.token \in Issued
    /\ (\A c \in Calls : step[c] # "busy") => Live(jar.token)
    /\ \A c \in Calls : step[c] = "sent" => carried[c].token = jar.token /\ issued < MaxSessions
    /\ \A c \in Calls : step[c] = "busy" => Coming(c)

CallsInv == BrowserTypeOK /\ RowsLast /\ FlightHolds /\ KeptHolds

LEMMA OneFlyer ==
  ASSUME FlightHolds, NEW c \in Calls, NEW e \in Calls, Flying(c), Flying(e)
  PROVE  c = e
  BY DEF FlightHolds

LEMMA CallFacts ==
  ASSUME CallsOnly, BrowserTypeOK
  PROVE  /\ Calls = Requests /\ TypeOK /\ now \in Nat /\ LockStale \in Nat \ {0}
         /\ step \in [Calls -> Steps] /\ carried \in [Calls -> Jar] /\ pc \in [Calls -> Resting \cup Working]
         /\ req \in [Calls -> Request]
         /\ lock # NoLock => lock \in Lock /\ lock.at \in Nat /\ lock.owner \in Calls
         /\ \A c \in Calls : TabOf[c] \in Tabs /\ c # NoCall
         /\ Never \notin Times /\ now \in Times /\ flight \in [Tabs -> Calls \cup {NoCall}]
  BY BrowserAssumption DEF CallsOnly, BrowserTypeOK, TypeOK, Times, Lock

LEMMA NowHeld ==
  ASSUME CallsOnly, BrowserTypeOK, NEW c \in Calls
  PROVE  [owner |-> c, at |-> now] # NoLock /\ now < now + LockStale
  BY CallFacts, BrowserAssumption

LEMMA ClockKeeps ==
  ASSUME CallsOnly, CallsInv, Clock
  PROVE  FlightHolds' /\ KeptHolds'
  <1>0. /\ Calls = Requests /\ now \in Nat /\ LockStale \in Nat \ {0}
        /\ lock # NoLock => lock \in Lock /\ lock.at \in Nat /\ lock.owner \in Calls
    BY CallFacts DEF CallsInv
  <1>1. /\ now' = now + 1 /\ UNCHANGED << sessions, issued, pc, req, browserVars >> /\ Prompt
    BY DEF Clock, Tick, CallsOnly
  <1>2. \A c \in Calls : step[c] # "waiting" \/ lock # NoLock
    BY <1>1 DEF Prompt, Due, Free
  <1>3. \A c \in Calls : Flying(c) => now + 1 < lock.at + LockStale
    BY <1>1 DEF Prompt, Flying
  <1>4. FlightHolds'
    BY <1>0, <1>1, <1>2, <1>3 DEF CallsInv, FlightHolds, Flying, browserVars
  <1>5. KeptHolds'
    BY <1>1 DEF CallsInv, KeptHolds, Coming, Live, Issued, browserVars
  <1>6. QED
    BY <1>4, <1>5

LEMMA BackendKeeps ==
  ASSUME CallsOnly, CallsInv, NEW r \in Calls, Proceed(r) \/ GoWrong(r), UNCHANGED browserVars
  PROVE  FlightHolds' /\ KeptHolds'
  <1>0. /\ Calls = Requests /\ now \in Nat /\ TypeOK /\ RowsLast
    BY CallFacts DEF CallsInv
  <1>1. /\ Turn(r) /\ Alone(r) /\ "abort" \notin Faults
        /\ UNCHANGED << jar, step, carried, lock, refreshedAt, flight, deadline, left >>
    BY <1>0, TurnsTaken DEF CallsOnly, CallsAnswered, browserVars
  <1>2. now' = now
    BY DEF Proceed, ReadFamily, Resolve,
           Recheck, Supersede, Insert, TouchSession, RevokeFamily, RevokeSession,
           RevokeAllForUser, GoWrong, ReadFamilyFails, RecheckFails, SupersedeFails, InsertFails,
           UpdateFails, LogoutCaught, Abort
  <1>3. step[r] = "busy" /\ Coming(r)
    <2>1. pc[r] \notin Resting
      BY <1>1 DEF Turn, Resting
    <2>2. QED
      BY <2>1 DEF CallsInv, FlightHolds, KeptHolds
  <1>4. \A c \in Calls \ {r} : ~ Flying(c) /\ step'[c] = step[c] /\ pc'[c] = pc[c]
    BY <1>0, <1>1, <1>3, OneFlyer DEF CallsInv, Flying, Alone
  <1>5. FlightHolds'
    BY <1>1, <1>2, <1>3, <1>4 DEF CallsInv, FlightHolds, Flying
  <1>6. jar.token \in Issued /\ jar.token \in Ids /\ issued \in Nat
    BY <1>0, IssuedIds DEF CallsInv, KeptHolds, TypeOK
  <1>7. jar.token \in Issued' /\ Coming(r)'
    <2>1. CASE pc[r] \in {"family", "resolve", "recheck"}
      BY <1>1, <1>3, <1>6, <2>1 DEF Turn, SameWork, Coming, Live, Issued
    <2>2. CASE pc[r] = "supersede"
      BY <1>1, <1>3, <1>6, <2>2 DEF Turn, SameWork, Coming, Issued
    <2>3. CASE pc[r] = "insert"
      <3>1. issued < MaxSessions /\ req[r].goal = "refresh" /\ issued + 1 \in Ids
        BY <1>0, <1>3, <2>3, SessionAssumption DEF Coming, TypeOK, Ids
      <3>2. /\ issued' = issued + 1 /\ req'[r].session = issued + 1 /\ pc'[r] = "touch"
            /\ sessions' = [sessions EXCEPT ![issued + 1] = NewRow(req[r], issued + 1)]
        <4>1. issued # MaxSessions
          BY <1>6, <3>1, SessionAssumption
        <4>2. /\ issued' = issued + 1 /\ req'[r].session = issued + 1
              /\ pc'[r] = IF req[r].goal = "login" THEN "idle" ELSE "touch"
              /\ sessions' = [sessions EXCEPT ![issued + 1] = NewRow(req[r], issued + 1)]
          BY <1>1, <2>3, <4>1 DEF Turn
        <4>3. QED
          BY <3>1, <4>2
      <3>3. ~ NewRow(req[r], issued + 1).revoked
        BY DEF NewRow
      <3>4. ~ sessions'[issued + 1].revoked
        BY <1>0, <3>1, <3>2, <3>3 DEF TypeOK
      <3>5. issued + 1 \in Issued' /\ jar.token \in Issued'
        BY <1>6, <3>2 DEF Issued
      <3>6. Live(req[r].session)'
        BY <3>2, <3>4, <3>5 DEF Live
      <3>7. QED
        BY <1>1, <3>2, <3>5, <3>6 DEF Coming
    <2>4. CASE pc[r] = "touch"
      <3>1. /\ pc'[r] = "idle" /\ req'[r].session = req[r].session
            /\ sessions' = Touched(req[r].session) /\ issued' = issued
        BY <1>1, <2>4 DEF Turn
      <3>2. \A x \in Issued : sessions'[x].revoked = sessions[x].revoked
        BY <1>0, <3>1, TouchedFades
      <3>3. Live(req[r].session)'
        BY <1>3, <2>4, <3>1, <3>2 DEF Coming, Live, Issued
      <3>4. QED
        BY <1>6, <3>1, <3>3 DEF Coming, Issued
    <2>5. QED
      BY <1>1, <1>3, <2>1, <2>2, <2>3, <2>4 DEF Turn, Coming
  <1>8. KeptHolds'
    BY <1>1, <1>3, <1>4, <1>7 DEF KeptHolds, Flying, Issued
  <1>9. QED
    BY <1>5, <1>8

\* A call that is not under way starts to wait, joins, or gives up waiting.
LEMMA BystanderKeeps ==
  ASSUME CallsOnly, CallsInv, NEW c \in Calls, Join(c) \/ Wait(c) \/ PollSkip(c)
  PROVE  FlightHolds' /\ KeptHolds'
  <1>0. Calls = Requests /\ step \in [Calls -> Steps]
    BY CallFacts DEF CallsInv
  <1>1. UNCHANGED << now, sessions, issued, pc, req, jar, carried, lock, refreshedAt, flight >>
    BY DEF Join, Wait, PollSkip, sessionVars
  <1>2. /\ ~ Flying(c) /\ step'[c] \in {"rest", "joined", "waiting"}
        /\ step'[c] = "waiting" => lock # NoLock
        /\ \A e \in Calls \ {c} : step'[e] = step[e]
    BY <1>0 DEF Join, Wait, PollSkip, MayAsk, Move, Flying, Held
  <1>3. FlightHolds'
    <2>1. \A e \in Calls : Flying(e)' <=> Flying(e)
      BY <1>2 DEF Flying
    <2>2. lock # NoLock => lock.owner \in Calls
      BY CallFacts DEF CallsInv
    <2>3. \A e \in Calls : step'[e] # "orphan" /\ step'[e] # "renewing"
      BY <1>2 DEF CallsInv, FlightHolds
    <2>4. \A e \in Calls : step'[e] = "waiting" /\ lock' = NoLock => refreshedAt' = now'
      BY <1>1, <1>2 DEF CallsInv, FlightHolds
    <2>5. \A e \in Calls : step'[e] # "busy" => pc'[e] \in Resting
      BY <1>1, <2>1, <1>2 DEF CallsInv, FlightHolds, Flying
    <2>6. QED
      BY <1>1, <2>1, <2>2, <2>3, <2>4, <2>5 DEF CallsInv, FlightHolds
  <1>4. KeptHolds'
    BY <1>1, <1>2 DEF CallsInv, KeptHolds, Coming, Live, Issued, Flying
  <1>5. QED
    BY <1>3, <1>4

\* A call that waited does not find itself alone with a lock that nobody holds.
LEMMA NoVerify ==
  ASSUME CallsOnly, CallsInv, NEW c \in Calls
  PROVE  ~ PollVerify(c)
  <1>0. /\ Calls = Requests /\ now \in Nat /\ LockStale \in Nat \ {0}
        /\ lock # NoLock => lock.at \in Nat
        /\ now \in Times /\ Never \notin Times
    BY CallFacts DEF CallsInv
  <1>1. lock # NoLock => ~ Free
    BY <1>0 DEF CallsInv, FlightHolds, Free
  <1>2. step[c] = "waiting" /\ lock = NoLock => Recent
    BY <1>0 DEF CallsInv, FlightHolds, Recent
  <1>3. QED
    BY <1>1, <1>2 DEF PollVerify, Move

LEMMA AcquireKeeps ==
  ASSUME CallsOnly, CallsInv, NEW c \in Calls, Acquire(c)
  PROVE  FlightHolds' /\ KeptHolds'
  <1>0. /\ Calls = Requests /\ step \in [Calls -> Steps] /\ carried \in [Calls -> Jar]
        /\ now \in Nat /\ LockStale \in Nat \ {0} /\ TypeOK
        /\ flight \in [Tabs -> Calls \cup {NoCall}] /\ TabOf[c] \in Tabs
    BY CallFacts DEF CallsInv
  <1>1. UNCHANGED << now, sessions, issued, pc, req, jar, refreshedAt >>
    BY DEF Acquire, sessionVars
  <1>2. lock = NoLock
    BY DEF CallsInv, FlightHolds, Acquire, Held
  <1>3. \A e \in Calls : ~ Flying(e)
    BY <1>2 DEF CallsInv, FlightHolds
  <1>4. /\ step[c] = "rest" /\ step'[c] = "sent" /\ \A e \in Calls \ {c} : step'[e] = step[e]
        /\ carried'[c] = jar /\ flight'[TabOf[c]] = c
        /\ lock' # NoLock /\ lock'.owner = c /\ lock'.at = now
    BY <1>0, NowHeld DEF Acquire, Move, Send, CallsInv
  <1>5. issued < MaxSessions
    <2>1. InFlight \in Nat /\ issued \in Nat /\ MaxSessions \in Nat
      <3>1. IsFiniteSet({r \in Requests : step[r] # "rest"})
        BY BrowserAssumption, FS_Subset
      <3>2. QED
        BY <1>0, <3>1, FS_CardinalityType, SessionAssumption DEF InFlight, TypeOK
    <2>2. issued + InFlight < MaxSessions
      BY DEF Acquire, MayAsk, MaySend
    <2>3. QED
      BY <2>1, <2>2
  <1>6. FlightHolds'
    <2>1. now < now + LockStale /\ now <= now
      BY <1>0
    <2>2. Flying(c)' /\ \A e \in Calls \ {c} : ~ Flying(e)'
      BY <1>3, <1>4 DEF Flying
    <2>3. QED
      BY <1>1, <1>4, <2>1, <2>2 DEF CallsInv, FlightHolds
  <1>7. KeptHolds'
    <2>1. \A e \in Calls : step'[e] # "busy" /\ step[e] # "busy"
      BY <1>3, <1>4 DEF Flying
    <2>2. \A e \in Calls : step'[e] = "sent" => e = c
      BY <1>3, <1>4 DEF Flying
    <2>3. QED
      BY <1>1, <1>4, <1>5, <2>1, <2>2 DEF CallsInv, KeptHolds, Live, Issued
  <1>8. QED
    BY <1>6, <1>7

LEMMA ArriveKeeps ==
  ASSUME CallsOnly, CallsInv, NEW c \in Calls, Arrive(c)
  PROVE  FlightHolds' /\ KeptHolds'
  <1> DEFINE s == carried[c].token
  <1>0. /\ Calls = Requests /\ step \in [Calls -> Steps] /\ TypeOK /\ RowsLast
        /\ now \in Nat
    BY CallFacts DEF CallsInv
  <1>1. /\ UNCHANGED << now, sessions, issued, jar, lock, refreshedAt, flight >>
        /\ step[c] = "sent" /\ step'[c] = "busy" /\ \A e \in Calls \ {c} : step'[e] = step[e]
        /\ Alone(c)
    <2>1. Alone(c)
      BY <1>0, AsksAlone DEF Arrive
    <2>2. Asking(c, s)
      BY RequestsAsk DEF Arrive
    <2>3. QED
      BY <1>0, <2>1, <2>2
         DEF Arrive, Move, Asking, SessionActive, FindRevoked, TurnAway
  <1>2. \A e \in Calls \ {c} : ~ Flying(e)
    BY <1>1, OneFlyer DEF CallsInv, Flying
  <1>3. s = jar.token /\ issued < MaxSessions /\ Live(s) /\ s \in Ids
    BY <1>0, <1>1, <1>2, IssuedIds DEF CallsInv, KeptHolds, Flying, Live
  <1>4. now < Lifetime /\ sessions[s].expires >= Lifetime /\ sessions[s].expires \in Nat
    BY <1>0, <1>3, SessionAssumption
       DEF TypeOK, RowsLast, CallsOnly, Timeless, Times, Expiries, SessionRow, Live
  <1>5. FindValid(c, s)
    <2>1. Refresh(c, s)
      BY DEF Arrive
    <2>2. ~ FindRevoked(c, s)
      BY <1>3 DEF FindRevoked, Live
    <2>3. ~ FindExpired(c, s)
      BY <1>0, <1>4, SessionAssumption DEF FindExpired
    <2>4. ~ SelectFails(c, s) /\ ~ Throttled(c, s)
      BY DEF SelectFails, Throttled, CallsOnly
    <2>5. QED
      BY <2>1, <2>2, <2>3, <2>4 DEF Refresh
  <1>6. Naming(s, "refresh", FALSE).session = s /\ Naming(s, "refresh", FALSE).goal = "refresh"
    BY <1>0, <1>3, NamingFields DEF Goals
  <1>7. pc'[c] = "family" /\ req'[c].session = s /\ req'[c].goal = "refresh"
    <2>1. Start(c, "family", Naming(s, "refresh", FALSE))
      BY <1>5 DEF FindValid
    <2>2. pc'[c] = "family" /\ req'[c] = Naming(s, "refresh", FALSE)
      BY <1>0, <2>1, StartsAt
    <2>3. QED
      BY <1>6, <2>2
  <1>8. FlightHolds'
    <2>1. Flying(c) /\ Flying(c)' /\ \A e \in Calls \ {c} : ~ Flying(e)'
      BY <1>1, <1>2 DEF Flying
    <2>2. \A e \in Calls \ {c} : pc'[e] = pc[e]
      BY <1>0, <1>1 DEF Alone
    <2>3. \A e \in Calls : Flying(e)' <=> Flying(e)
      BY <1>2, <2>1
    <2>4. lock # NoLock => lock.owner \in Calls
      BY CallFacts DEF CallsInv
    <2>5. QED
      BY <1>1, <2>2, <2>3, <2>4 DEF CallsInv, FlightHolds
  <1>9. KeptHolds'
    <2>1. Coming(c)'
      BY <1>1, <1>3, <1>7 DEF Coming, Live, Issued
    <2>2. \A e \in Calls : step'[e] \in {"sent", "busy"} => e = c
      BY <1>1, <1>2 DEF Flying
    <2>3. QED
      BY <1>1, <2>1, <2>2 DEF CallsInv, KeptHolds, Issued
  <1>10. QED
    BY <1>8, <1>9

LEMMA AnswerKeeps ==
  ASSUME CallsOnly, CallsInv, NEW c \in Calls, AnswerCall(c)
  PROVE  FlightHolds' /\ KeptHolds'
  <1>0. /\ Calls = Requests /\ step \in [Calls -> Steps] /\ TypeOK
        /\ flight \in [Tabs -> Calls \cup {NoCall}]
    BY CallFacts DEF CallsInv
  <1>1. /\ UNCHANGED << now, sessions, issued, pc, req, carried >>
        /\ step[c] = "busy" /\ pc[c] \in Resting /\ Return(c, "busy", pc[c] = "idle")
    BY DEF AnswerCall, Return, Answered, sessionVars
  <1>2. Flying(c) /\ \A e \in Calls \ {c} : ~ Flying(e)
    BY <1>1, OneFlyer DEF CallsInv, Flying
  <1>3. pc[c] = "idle" /\ Live(req[c].session)
    BY <1>1 DEF CallsInv, KeptHolds, Coming, Resting
  <1>4. flight[TabOf[c]] = c /\ lock # NoLock /\ lock.owner = c
    BY <1>2 DEF CallsInv, FlightHolds
  <1>5. lock' = NoLock /\ refreshedAt' = now
    BY <1>1, <1>3, <1>4 DEF Return
  <1>6. step'[c] = "rest" /\ \A e \in Calls : step'[e] \in {"rest", step[e]}
    BY <1>0, <1>1 DEF Return
  <1>7. \A e \in Calls : ~ Flying(e)' /\ step'[e] # "sent" /\ step'[e] # "busy"
    BY <1>2, <1>6 DEF Flying
  <1>8. jar'.token = req[c].session
    BY <1>0, <1>3, JarFields DEF AnswerCall
  <1>9. FlightHolds'
    <2>1. \A e \in Calls : step'[e] # "orphan" /\ step'[e] # "renewing"
      BY <1>6 DEF CallsInv, FlightHolds
    <2>2. \A e \in Calls : pc'[e] \in Resting
      BY <1>1, <1>2 DEF CallsInv, FlightHolds, Flying
    <2>3. QED
      BY <1>1, <1>5, <1>7, <2>1, <2>2 DEF FlightHolds
  <1>10. KeptHolds'
    BY <1>1, <1>3, <1>7, <1>8 DEF KeptHolds, Live, Issued
  <1>11. QED
    BY <1>9, <1>10

LEMMA CallsStep ==
  ASSUME CallsOnly, CallsInv, [BrowserNext]_vars
  PROVE  CallsInv'
  <1>1. BrowserTypeOK'
    BY BrowserTypeStep DEF CallsInv
  <1>2. [Next]_sessionVars
    BY BrowserSteps DEF CallsInv, BrowserTypeOK, vars
  <1>3. RowsLast'
    BY <1>2, RowsLastStep DEF CallsInv, BrowserTypeOK
  <1>4. Calls = Requests /\ Data \cup Logouts = {}
    BY CallFacts DEF CallsInv, CallsOnly
  <1>5. FlightHolds' /\ KeptHolds'
    <2>1. CASE UNCHANGED vars
      BY <2>1
         DEF vars, sessionVars, browserVars, CallsInv, FlightHolds, KeptHolds, Coming, Flying, Live,
             Issued
    <2>2. ASSUME NEW c \in Calls,
                 Join(c) \/ Wait(c) \/ Acquire(c) \/ CallStep(c) \/ LoseAnswer(c)
          PROVE  FlightHolds' /\ KeptHolds'
      <3>1. ~ LoseAnswer(c)
        BY DEF LoseAnswer, CallsOnly
      <3>2. ~ AnswerOrphan(c)
        BY DEF AnswerOrphan, Move, CallsInv, FlightHolds
      <3>3. QED
        BY <2>2, <3>1, <3>2, NoVerify, BystanderKeeps, AcquireKeeps, ArriveKeeps, AnswerKeeps
           DEF CallStep
    <2>3. \A t \in Tabs : ~ CloseTab(t)
      BY DEF CloseTab, CallsOnly
    <2>4. CASE Clock
      BY <2>4, ClockKeeps
    <2>5. ASSUME NEW r \in Requests, BackendStep(r) \/ (GoWrong(r) /\ UNCHANGED browserVars)
          PROVE  FlightHolds' /\ KeptHolds'
      BY <1>4, <2>5, BackendKeeps DEF BackendStep
    <2>6. QED
      BY <1>4, <2>1, <2>2, <2>3, <2>4, <2>5 DEF BrowserNext
  <1>6. QED
    BY <1>1, <1>3, <1>5 DEF CallsInv

LEMMA CallsInit == CallsOnly /\ BrowserInit => CallsInv
  <1> SUFFICES ASSUME CallsOnly, BrowserInit
               PROVE  CallsInv
    OBVIOUS
  <1>1. BrowserTypeOK /\ RowsLast
    BY BrowserTypeInit, RowsLastInit
  <1>2. Calls \subseteq Requests /\ 1 \in Ids /\ Issued = {1} /\ jar.token = 1
    BY BrowserAssumption DEF BrowserInit, Ids, Issued
  <1>3. FlightHolds
    BY <1>2 DEF BrowserInit, FlightHolds, Flying, Resting
  <1>4. Live(jar.token)
    BY <1>2 DEF BrowserInit, Live
  <1>5. KeptHolds
    BY <1>2, <1>4 DEF BrowserInit, KeptHolds
  <1>6. QED
    BY <1>1, <1>3, <1>5 DEF CallsInv

LEMMA CallsInvariant == CallsOnly => (BrowserSpec => []CallsInv)
  <1> SUFFICES ASSUME CallsOnly
               PROVE  BrowserSpec => []CallsInv
    OBVIOUS
  <1>2. BrowserInit => CallsInv
    BY CallsInit
  <1>3. CallsInv /\ [BrowserNext]_vars => CallsInv'
    BY CallsStep
  <1>4. QED
    BY <1>2, <1>3, PTL DEF BrowserSpec

\* Where the calls of the coordinator are all that refreshes the session, nothing fails
\* and answers are in time, one refresh is under way at a time: for any number of tabs
\* and calls, and for any time after which a lock is stale.
THEOREM OneFlight == CallsOnly => (BrowserSpec => []SingleFlight)
  <1> SUFFICES ASSUME CallsOnly
               PROVE  BrowserSpec => []SingleFlight
    OBVIOUS
  <1>1. CallsInv => SingleFlight
    BY OneFlyer DEF CallsInv, SingleFlight, Flying
  <1>2. QED
    BY <1>1, CallsInvariant, PTL

\* And whenever nothing is in flight, the cookies name a session that is live: the
\* rotations of the tokens do not log the user out.
THEOREM SessionStays == CallsOnly => (BrowserSpec => []SessionKept)
  <1> SUFFICES ASSUME CallsOnly
               PROVE  BrowserSpec => []SessionKept
    OBVIOUS
  <1>1. CallsInv => SessionKept
    <2> SUFFICES ASSUME CallsInv, AtRest
                 PROVE  Live(jar.token)
      BY DEF SessionKept
    <2>1. \A c \in Calls : step[c] # "busy"
      BY BrowserAssumption DEF AtRest
    <2>2. QED
      BY <2>1 DEF CallsInv, KeptHolds
  <1>2. QED
    BY <1>1, CallsInvariant, PTL

-------------------------------------------------------------------------------
(* Calls that come back *)

\* Where the work of a request leads: never back to where it was.
Ahead(at) ==
    CASE at = "family" -> {"resolve", "revoke", "revokeFamily"}
      [] at = "resolve" -> {"recheck"}
      [] at = "recheck" -> {"supersede", "revokeFamily"}
      [] at = "supersede" -> {"insert"}
      [] at = "insert" -> {"touch"}
      [] at = "revoke" -> {"revokeAll"}
      [] OTHER -> {}

\* What the work of a request keeps of what it was asked: it still names the same
\* family, and of the rows only its own or the one it has just inserted.
KeepsAsking(r) ==
    /\ pc'[r] \in Working => req'[r].goal = req[r].goal /\ req'[r].family = req[r].family
    /\ \/ req'[r].session \in {NoSession, req[r].session} /\ issued' = issued
       \/ pc[r] = "insert" /\ Insert(r) /\ req'[r].session = issued' /\ issued' = issued + 1

Works(r) ==
    /\ Alone(r)
    /\ pc[r] \in Working
    /\ pc'[r] \in Resting \cup Ahead(pc[r])
    /\ pc[r] = "family" /\ pc'[r] = "resolve" => req[r].goal = "refresh"
    /\ KeepsAsking(r)

LEMMA RestWorks ==
  ASSUME TypeOK, NEW r \in Requests, NEW o \in Resting, NEW s \in {NoSession, req[r].session},
         Rest(r, o, s), pc[r] \in Working, issued' = issued
  PROVE  Works(r)
  <1>1. /\ pc'[r] = o /\ req'[r] = Answering(s)
        /\ \A q \in Requests \ {r} : pc'[q] = pc[q] /\ req'[q] = req[q]
    BY RestsAt
  <1>2. req'[r].session = s
    BY <1>1 DEF Answering, NewRequest
  <1>3. pc'[r] \notin Working /\ pc'[r] # "resolve"
    BY <1>1 DEF Resting, Working
  <1> QED  BY <1>1, <1>2, <1>3 DEF Works, Alone, KeepsAsking

LEMMA GoWorks ==
  ASSUME TypeOK, NEW r \in Requests, NEW from \in Working, NEW to \in Ahead(from),
         Goto(r, from, to), issued' = issued, \A q \in Requests \ {r} : req'[q] = req[q],
         SameWork(r), req'[r].family = req[r].family,
         from = "family" /\ to = "resolve" => req[r].goal = "refresh"
  PROVE  Works(r)
  <1>1. /\ pc[r] = from /\ pc'[r] = to /\ \A q \in Requests \ {r} : pc'[q] = pc[q]
    BY GoesAt
  <1> QED  BY <1>1 DEF Works, Alone, KeepsAsking, SameWork

LEMMA StartedWorks ==
  ASSUME TypeOK, NEW r \in Requests, NEW t \in Times, StartedAt(r, t), pc[r] = "family",
         issued' = issued
  PROVE  Works(r)
  <1>1. CASE Goto(r, "family", "revokeFamily") /\ UNCHANGED req
    BY <1>1, GoWorks DEF Ahead, Working, SameWork
  <1>2. CASE Rest(r, "idle", req[r].session)
    BY <1>2, RestWorks DEF Resting, Working
  <1>3. CASE /\ Goto(r, "family", IF req[r].goal = "refresh" THEN "resolve" ELSE "revoke")
             /\ req' = [req EXCEPT ![r] = Dated(req[r], t)]
    <2>1. /\ SameWork(r) /\ req'[r].family = req[r].family
          /\ \A q \in Requests \ {r} : req'[q] = req[q]
      BY <1>3, DatedFields DEF TypeOK, SameWork
    <2>2. CASE req[r].goal = "refresh"
      BY <1>3, <2>1, <2>2, GoWorks DEF Ahead, Working
    <2>3. CASE req[r].goal # "refresh"
      BY <1>3, <2>1, <2>3, GoWorks DEF Ahead, Working
    <2> QED  BY <2>2, <2>3
  <1> QED  BY <1>1, <1>2, <1>3 DEF StartedAt

LEMMA ProceedWorks ==
  ASSUME TypeOK, NEW r \in Requests, Proceed(r)
  PROVE  Works(r)
  <1>0. req[r] \in Request
    BY DEF TypeOK
  <1>1. CASE ReadFamily(r)
    <2>1. PICK s \in Family(req[r].family) : StartedAt(r, sessions[s].created)
      BY <1>1 DEF ReadFamily
    <2>2. sessions[s].created \in Times
      BY IssuedIds DEF Family, TypeOK, SessionRow
    <2> QED  BY <1>1, <2>1, <2>2, StartedWorks DEF ReadFamily
  <1>2. CASE Resolve(r)
    <2>1. now + Lifetime \in Expiries
      BY SessionAssumption DEF TypeOK, Times, Expiries
    <2>2. CASE Rest(r, "refused", NoSession)
      BY <1>2, <2>2, RestWorks DEF Resolve, Resting, Working
    <2>3. CASE /\ pc' = [pc EXCEPT ![r] = "recheck"]
               /\ req' = [req EXCEPT ![r] = Expiring(req[r], now + Lifetime)]
      <3>1. /\ SameWork(r) /\ req'[r].family = req[r].family
            /\ \A q \in Requests \ {r} : req'[q] = req[q]
        BY <1>0, <2>1, <2>3, ExpiringFields DEF TypeOK, SameWork
      <3>2. Goto(r, "resolve", "recheck")
        BY <1>2, <2>3 DEF Resolve, Goto
      <3> QED  BY <1>2, <3>1, <3>2, GoWorks DEF Resolve, Ahead, Working
    <2> QED  BY <1>2, <2>2, <2>3 DEF Resolve
  <1>3. CASE Recheck(r)
    <2>1. CASE Goto(r, "recheck", "revokeFamily") /\ UNCHANGED req
      BY <1>3, <2>1, GoWorks DEF Recheck, Ahead, Working, SameWork
    <2>2. CASE /\ Goto(r, "recheck", "supersede")
               /\ req' = [req EXCEPT ![r] = Expiring(req[r], Capped(req[r]))]
      <3>1. /\ SameWork(r) /\ req'[r].family = req[r].family
            /\ \A q \in Requests \ {r} : req'[q] = req[q]
        BY <1>0, <2>2, CappedFields, ExpiringFields DEF TypeOK, SameWork
      <3> QED  BY <1>3, <2>2, <3>1, GoWorks DEF Recheck, Ahead, Working
    <2> QED  BY <1>3, <2>1, <2>2 DEF Recheck
  <1>4. CASE Supersede(r)
    BY <1>4, GoWorks DEF Supersede, Ahead, Working, SameWork
  <1>5. CASE Insert(r)
    <2>1. issued + 1 \in Ids
      BY <1>5, SessionAssumption DEF Insert, TypeOK, Ids
    <2>2. CASE req[r].goal = "login"
      <3>1. /\ pc'[r] = "idle" /\ req'[r] = Answering(issued + 1)
            /\ \A q \in Requests \ {r} : pc'[q] = pc[q] /\ req'[q] = req[q]
        BY <1>5, <2>2, RestsAt DEF Insert, Resting
      <3>2. req'[r].session = issued + 1
        BY <3>1 DEF Answering, NewRequest
      <3> QED  BY <1>5, <3>1, <3>2 DEF Insert, Works, Alone, KeepsAsking, Resting, Working
    <2>3. CASE req[r].goal # "login"
      <3>1. /\ pc' = [pc EXCEPT ![r] = "touch"]
            /\ req' = [req EXCEPT ![r] = WithSession(req[r], issued + 1)]
        BY <1>5, <2>3 DEF Insert
      <3>2. /\ WithSession(req[r], issued + 1).session = issued + 1
            /\ WithSession(req[r], issued + 1).goal = req[r].goal
            /\ WithSession(req[r], issued + 1).family = req[r].family
        BY <1>0 DEF WithSession, Request
      <3>3. /\ pc'[r] = "touch" /\ req'[r] = WithSession(req[r], issued + 1)
            /\ \A q \in Requests \ {r} : pc'[q] = pc[q] /\ req'[q] = req[q]
        BY <3>1 DEF TypeOK
      <3>4. pc[r] = "insert" /\ issued' = issued + 1
        BY <1>5 DEF Insert
      <3>5. "touch" \in Ahead("insert") /\ "insert" \in Working
        BY DEF Ahead, Working
      <3> QED  BY <1>5, <3>2, <3>3, <3>4, <3>5 DEF Works, Alone, KeepsAsking
    <2> QED  BY <2>2, <2>3
  <1>6. CASE TouchSession(r) \/ RevokeFamily(r) \/ RevokeAllForUser(r)
    BY <1>6, RestWorks DEF TouchSession, RevokeFamily, RevokeAllForUser, Resting, Working
  <1>7. CASE RevokeSession(r)
    <2>1. CASE Goto(r, "revoke", "revokeAll") /\ UNCHANGED req
      BY <1>7, <2>1, GoWorks DEF RevokeSession, Ahead, Working, SameWork
    <2>2. CASE Rest(r, "idle", NoSession)
      BY <1>7, <2>2, RestWorks DEF RevokeSession, Resting, Working
    <2> QED  BY <1>7, <2>1, <2>2 DEF RevokeSession, AfterRevoke
  <1> QED  BY <1>1, <1>2, <1>3, <1>4, <1>5, <1>6, <1>7 DEF Proceed

LEMMA WrongWorks ==
  ASSUME TypeOK, NEW r \in Requests, GoWrong(r)
  PROVE  Works(r)
  <1>1. CASE ReadFamilyFails(r)
    BY <1>1, StartedWorks DEF ReadFamilyFails, TypeOK
  <1>2. CASE RecheckFails(r)
    BY <1>2, GoWorks DEF RecheckFails, Ahead, Working, SameWork
  <1>3. CASE SupersedeFails(r)
    BY <1>3, GoWorks DEF SupersedeFails, Ahead, Working, SameWork
  <1>4. CASE InsertFails(r) \/ LogoutCaught(r) \/ Abort(r)
    BY <1>4, RestWorks DEF InsertFails, LogoutCaught, Abort, Resting, Working
  <1>5. CASE UpdateFails(r)
    <2>1. CASE \/ pc[r] = "touch" /\ Rest(r, "idle", req[r].session)
               \/ pc[r] = "revokeFamily" /\ Rest(r, "refused", NoSession)
               \/ pc[r] = "revokeAll" /\ Rest(r, "idle", NoSession)
               \/ pc[r] = "revoke" /\ Rest(r, "idle", NoSession)
      BY <1>5, <2>1, RestWorks DEF UpdateFails, Resting, Working
    <2>2. CASE pc[r] = "revoke" /\ Goto(r, "revoke", "revokeAll") /\ UNCHANGED req
      BY <1>5, <2>2, GoWorks DEF UpdateFails, Ahead, Working, SameWork
    <2> QED  BY <1>5, <2>1, <2>2 DEF UpdateFails, AfterRevoke
  <1> QED  BY <1>1, <1>2, <1>3, <1>4, <1>5 DEF GoWrong

\* A row descends from the first row of its family, the oldest of them.
Descends(s) ==
    LET f == sessions[s].family IN
    /\ f \in Issued
    /\ sessions[f].family = f
    /\ sessions[f].created <= sessions[s].created
    /\ sessions[s].created <= now

\* What a request names was issued, and a family it asks for has a first row.
AsksFamily(r) ==
    \/ pc[r] = "family"
    \/ pc[r] \in {"resolve", "recheck", "supersede", "insert"} /\ req[r].goal # "login"

Names(r) ==
    /\ req[r].session \in Issued \cup {NoSession}
    /\ AsksFamily(r) => Known(req[r].family)

Named == (\A s \in Issued : Descends(s)) /\ (\A r \in Requests : Names(r))

LEMMA WorkKeepsRows ==
  ASSUME TypeOK, NEW r \in Requests, Proceed(r) \/ GoWrong(r)
  PROVE  RowsKept
  <1>1. CASE Insert(r)
    <2>1. \A s \in Issued : sessions'[s] = sessions[s]
      BY <1>1, Inserted
    <2>2. now' = now /\ issued' = issued + 1 /\ now \in Nat /\ issued \in Nat
      BY <1>1 DEF Insert, TypeOK, Times
    <2> QED  BY <2>1, <2>2 DEF RowsKept
  <1>2. CASE \/ Supersede(r) \/ RevokeFamily(r) \/ RevokeSession(r) \/ RevokeAllForUser(r)
             \/ TouchSession(r)
    BY <1>2, RevokeKeeps, TouchedKeeps
       DEF Supersede, RevokeFamily, RevokeSession, RevokeAllForUser, TouchSession
  <1>3. CASE ReadFamily(r) \/ Resolve(r) \/ Recheck(r) \/ GoWrong(r)
    BY <1>3, StillKeeps
       DEF ReadFamily, Resolve, Recheck, GoWrong, ReadFamilyFails, RecheckFails, SupersedeFails,
           InsertFails, UpdateFails, LogoutCaught, Abort
  <1> QED  BY <1>1, <1>2, <1>3 DEF Proceed

LEMMA KeptDescent ==
  ASSUME TypeOK, TypeOK', RowsKept, NEW s \in Issued, Descends(s)
  PROVE  Descends(s)'
  <1>1. sessions[s].family \in Issued
    BY DEF Descends
  <1>2. sessions[s].created \in Nat /\ now \in Nat /\ now' \in Nat /\ issued \in Nat /\ issued' \in Nat
    BY IssuedIds DEF TypeOK, SessionRow, Times
  <1> QED  BY <1>1, <1>2 DEF Descends, RowsKept, Issued

StillKnown(f) == f \in Issued' /\ sessions'[f].family = f

LEMMA KeptKnown ==
  ASSUME TypeOK, TypeOK', RowsKept, NEW f, Known(f)
  PROVE  StillKnown(f)
  <1>1. issued \in Nat /\ issued' \in Nat
    BY DEF TypeOK
  <1> QED  BY <1>1 DEF Known, StillKnown, RowsKept, Issued

LEMMA KeptNames ==
  ASSUME TypeOK, TypeOK', RowsKept, NEW r \in Requests, Names(r),
         pc'[r] = pc[r], req'[r] = req[r]
  PROVE  Names(r)'
  <1>1. issued \in Nat /\ issued' \in Nat /\ issued <= issued'
    BY DEF TypeOK, RowsKept
  <1>2. req'[r].session \in Issued' \cup {NoSession}
    BY <1>1 DEF Names, Issued
  <1>3. AsksFamily(r)' => StillKnown(req[r].family)
    BY KeptKnown DEF Names, AsksFamily
  <1> QED  BY <1>2, <1>3 DEF Names, AsksFamily, Known, StillKnown

LEMMA WorkNames ==
  ASSUME TypeOK, TypeOK', Named, NEW r \in Requests, Proceed(r) \/ GoWrong(r)
  PROVE  Named'
  <1>1. RowsKept /\ Works(r) /\ Names(r)
    BY WorkKeepsRows, ProceedWorks, WrongWorks DEF Named
  <1>2. issued \in Nat /\ issued' \in Nat /\ issued <= issued'
    BY <1>1 DEF TypeOK, RowsKept
  <1>3. ASSUME NEW s \in Issued'
        PROVE  Descends(s)'
    <2>1. CASE s \in Issued
      BY <1>1, <2>1, KeptDescent DEF Named
    <2>2. CASE s \notin Issued
      <3>1. Insert(r) /\ s = issued + 1
        BY <1>1, <1>2, <2>2 DEF Works, KeepsAsking, Issued
      <3>2. s \in Ids
        BY <3>1, Inserted
      <3>3. /\ sessions'[s] = NewRow(req[r], s) /\ now' = now /\ pc[r] = "insert"
        BY <3>1, <3>2 DEF Insert, TypeOK
      <3>4. /\ req[r].goal = "login" => sessions'[s].family = s
            /\ req[r].goal # "login" => sessions'[s].family = req[r].family
            /\ sessions'[s].created = now /\ now \in Nat
        BY <3>2, <3>3, NewRowFields DEF TypeOK, Times
      <3>5. CASE req[r].goal = "login"
        BY <3>3, <3>4, <3>5 DEF Descends
      <3>6. CASE req[r].goal # "login"
        <4>1. Known(req[r].family)
          BY <1>1, <3>3, <3>6 DEF Names, AsksFamily
        <4>2. Descends(req[r].family) /\ StillKnown(req[r].family)
          BY <1>1, <4>1, KeptKnown DEF Named, Known
        <4>3. sessions'[req[r].family].created <= now
          BY <1>1, <4>1, <4>2 DEF Descends, RowsKept, Known
        <4> QED  BY <3>3, <3>4, <3>6, <4>2, <4>3 DEF Descends, Known, StillKnown
      <3> QED  BY <3>5, <3>6
    <2> QED  BY <2>1, <2>2
  <1>4. ASSUME NEW q \in Requests
        PROVE  Names(q)'
    <2>1. CASE q # r
      <3>1. pc'[q] = pc[q] /\ req'[q] = req[q]
        BY <1>1, <2>1 DEF Works, Alone
      <3> QED  BY <1>1, <3>1, KeptNames DEF Named
    <2>2. CASE q = r
      <3>1. req'[r].session \in Issued' \cup {NoSession}
        BY <1>1, <1>2 DEF Works, KeepsAsking, Names, Issued
      <3>2. AsksFamily(r)' => AsksFamily(r) /\ req'[r].family = req[r].family
        <4>1. SUFFICES ASSUME pc'[r] \in {"family", "resolve", "recheck", "supersede", "insert"}
                       PROVE  AsksFamily(r)' => AsksFamily(r) /\ req'[r].family = req[r].family
          BY DEF AsksFamily
        <4>2. /\ pc'[r] \in Ahead(pc[r]) /\ pc'[r] \in Working
              /\ req'[r].goal = req[r].goal /\ req'[r].family = req[r].family
          BY <1>1, <4>1 DEF Works, KeepsAsking, Resting, Working
        <4>3. pc[r] \in {"family", "resolve", "recheck", "supersede"}
          BY <4>1, <4>2 DEF Ahead
        <4>4. pc'[r] # "family"
          BY <4>2, <4>3 DEF Ahead
        <4> QED  BY <4>2, <4>3, <4>4 DEF AsksFamily
      <3>3. AsksFamily(r)' => StillKnown(req[r].family)
        BY <1>1, <3>2, KeptKnown DEF Names
      <3> QED  BY <2>2, <3>1, <3>2, <3>3 DEF Names, Known, StillKnown
    <2> QED  BY <2>1, <2>2
  <1> QED  BY <1>3, <1>4 DEF Named

\* A request that begins names a row it found, or no row.
LEMMA StartNames ==
  ASSUME TypeOK, TypeOK', Named, NEW r \in Requests, NEW next, NEW q, Start(r, next, q),
         UNCHANGED << now, sessions, issued >>,
         \/ q.session = NoSession /\ next \in {"refused", "throttled", "insert"}
           /\ (next = "insert" => q.goal = "login")
         \/ \E s \in Issued : q.session = s /\ q.family = sessions[s].family
  PROVE  Named'
  <1>1. RowsKept /\ Issued' = Issued
    BY StillKeeps DEF Issued
  <1>2. /\ pc'[r] = next /\ req'[r] = q
        /\ \A o \in Requests \ {r} : pc'[o] = pc[o] /\ req'[o] = req[o]
    BY StartsAt
  <1>3. \A s \in Issued' : Descends(s)'
    BY <1>1, KeptDescent DEF Named
  <1>4. Names(r)'
    <2>1. CASE q.session = NoSession /\ next \in {"refused", "throttled", "insert"}
           /\ (next = "insert" => q.goal = "login")
      BY <1>2, <2>1 DEF Names, AsksFamily
    <2>2. CASE \E s \in Issued : q.session = s /\ q.family = sessions[s].family
      <3>1. PICK s \in Issued : q.session = s /\ q.family = sessions[s].family
        BY <2>2
      <3>2. Known(q.family)
        BY <3>1 DEF Named, Descends, Known
      <3>3. StillKnown(q.family)
        BY <1>1, <3>2, KeptKnown
      <3> QED  BY <1>1, <1>2, <3>1, <3>3 DEF Names, Known, StillKnown
    <2> QED  BY <2>1, <2>2
  <1>5. \A o \in Requests \ {r} : Names(o)'
    BY <1>1, <1>2, KeptNames DEF Named
  <1> QED  BY <1>3, <1>4, <1>5 DEF Named

LEMMA NamedStep ==
  ASSUME TypeOK, Named, [Next]_sessionVars
  PROVE  Named'
  <1>0. TypeOK'
    BY TypeStep
  <1>1. CASE Tick \/ (\E s \in Ids : Heartbeat(s)) \/ UNCHANGED sessionVars
    <2>1. RowsKept /\ issued' = issued /\ UNCHANGED << pc, req >>
      BY <1>1, TouchedKeeps, StillKeeps
         DEF Tick, Heartbeat, sessionVars, RowsKept, TypeOK, Times
    <2>2. Issued' = Issued
      BY <2>1 DEF Issued
    <2> QED  BY <1>0, <2>1, <2>2, KeptDescent, KeptNames DEF Named
  <1>2. ASSUME NEW r \in Requests, LoginStart(r)
        PROVE  Named'
    <2>1. Login(now + Lifetime).session = NoSession /\ Login(now + Lifetime).goal = "login"
      BY DEF Login, NewRequest
    <2> QED  BY <1>0, <1>2, <2>1, StartNames DEF LoginStart
  <1>3. Blank.session = NoSession
    BY DEF Blank, Answering, NewRequest
  <1>4. ASSUME NEW r \in Requests, NEW s \in Ids, NEW all \in BOOLEAN,
               Refresh(r, s) \/ Check(r, s) \/ Unauthenticated(r, s) \/ Logout(r, s, all)
        PROVE  Named'
    <2>1. Asking(r, s)
      BY <1>4, RequestsAsk
    <2>2. s \in Issued /\ UNCHANGED << now, sessions, issued >>
      BY <2>1 DEF Asking, SessionActive, FindRevoked, TurnAway, Live
    <2>3. \A h \in Goals, a \in BOOLEAN :
            Naming(s, h, a).session = s /\ Naming(s, h, a).family = sessions[s].family
      BY NamingFields
    <2>4. \/ Start(r, "refused", Blank) \/ Start(r, "throttled", Blank)
          \/ \E next, h, a : h \in Goals /\ a \in BOOLEAN /\ Start(r, next, Naming(s, h, a))
      BY <2>1 DEF Asking, SessionActive, FindRevoked, TurnAway, Goals
    <2> QED  BY <1>0, <1>3, <2>2, <2>3, <2>4, StartNames
  <1>5. ASSUME NEW r \in Requests, Proceed(r) \/ GoWrong(r)
        PROVE  Named'
    BY <1>0, <1>5, WorkNames
  <1> QED  BY <1>1, <1>2, <1>4, <1>5 DEF Next

LEMMA NamedInit == BrowserInit => Named
  <1> SUFFICES ASSUME BrowserInit
               PROVE  Named
    OBVIOUS
  <1>1. 1 \in Ids /\ Issued = {1}
    BY BrowserAssumption DEF BrowserInit, Ids, Issued
  <1>2. Blank.session = NoSession
    BY DEF Blank, Answering, NewRequest
  <1> QED  BY <1>1, <1>2 DEF BrowserInit, Named, Descends, Names, AsksFamily

\* A slot whose request is in the backend, or about to be answered; one that is not a
\* call's is "busy" with a check or a logout, never with a rotation.
SlotsKnown ==
    /\ \A r \in Requests : step[r] \notin {"busy", "renewing", "orphan"} => pc[r] \in Resting
    /\ \A c \in Calls : step[c] # "renewing"
    /\ \A r \in Requests \ Calls : step[r] = "busy" =>
         /\ pc[r] \in Resting \cup {"family", "revokeFamily", "revoke", "revokeAll"}
         /\ pc[r] = "family" => req[r].goal # "refresh"

\* What a step of the browser does to a slot that it does not run on: nothing, or it
\* comes to rest, or the tab of the call goes away.
Idles(q) ==
    /\ pc'[q] = pc[q] /\ req'[q] = req[q] /\ carried'[q] = carried[q]
    /\ \/ step'[q] = step[q]
       \/ step'[q] = "rest" /\ pc[q] \in Resting
       \/ step[q] \in {"busy", "orphan"} /\ step'[q] = "orphan" /\ q \in Calls

\* And to the slot that it runs on.
Begins(r) ==
    /\ UNCHANGED sessionVars
    /\ MaySend
    /\ step[r] = "rest"
    /\ \/ step'[r] \in {"joined", "waiting"} /\ carried'[r] = carried[r]
       \/ step'[r] = "sent" /\ carried'[r] = jar

Verifies(r) ==
    /\ UNCHANGED sessionVars
    /\ step[r] = "waiting" /\ step'[r] = "sent"
    /\ jar.token # NoSession /\ carried'[r] = jar

Lands(r) ==
    /\ UNCHANGED << now, sessions, issued >>
    /\ Alone(r)
    /\ pc[r] \in Resting /\ pc'[r] \in {"family", "revokeFamily", "refused", "throttled"}
    /\ \/ step[r] = "sent" /\ step'[r] = "busy"
       \/ step[r] \in {"sent", "busy"} /\ step'[r] = "renewing"
    /\ r \in Calls => step'[r] = "busy"
    /\ r \notin Calls /\ step'[r] = "busy" /\ pc'[r] = "family" => req'[r].goal # "refresh"

Runs(r) == (Proceed(r) \/ GoWrong(r)) /\ UNCHANGED browserVars

Ends(r) ==
    /\ UNCHANGED sessionVars
    /\ pc[r] \in Resting /\ step'[r] = "rest"

Moves(r) == Begins(r) \/ Verifies(r) \/ Lands(r) \/ Runs(r) \/ Ends(r)

LEMMA SlotMoves ==
  ASSUME BrowserTypeOK, NEW r \in Requests, NEW from, NEW to, Move(r, from, to)
  PROVE  step[r] = from /\ step'[r] = to /\ \A q \in Requests \ {r} : step'[q] = step[q]
  BY DEF BrowserTypeOK, Move

LEMMA CookiesSent ==
  ASSUME BrowserTypeOK, NEW r \in Requests, Send(r) \/ Forget(r) \/ UNCHANGED carried
  PROVE  /\ \A q \in Requests \ {r} : carried'[q] = carried[q]
         /\ Send(r) => carried'[r] = jar
         /\ UNCHANGED carried => carried'[r] = carried[r]
  BY DEF BrowserTypeOK, Send, Forget

\* A request that reaches the backend is found there, or turned away.
LEMMA AskLands ==
  ASSUME TypeOK, NEW r \in Requests, NEW s, Asking(r, s)
  PROVE  /\ UNCHANGED << now, sessions, issued >> /\ Alone(r)
         /\ pc[r] \in Resting /\ pc'[r] \in {"family", "revokeFamily", "refused", "throttled"}
  <1>1. UNCHANGED << now, sessions, issued >>
    BY DEF Asking, SessionActive, FindRevoked, TurnAway
  <1>2. PICK next \in {"family", "revokeFamily", "refused", "throttled"} :
            \E q : Start(r, next, q)
    BY DEF Asking, SessionActive, FindRevoked, TurnAway
  <1>3. PICK q : Start(r, next, q)
    BY <1>2
  <1> QED  BY <1>1, <1>3, StartsAt DEF Alone

\* What the guards let through is no rotation.
LEMMA AdmitLands ==
  ASSUME TypeOK, NEW r \in Requests, NEW s, NEW g \in {"check", "logout"}, NEW all \in BOOLEAN,
         Admit(r, s, g, all) \/ Unauthenticated(r, s)
  PROVE  pc'[r] = "family" => req'[r].goal # "refresh"
  <1>1. \/ SessionActive(r, s, g, all)
        \/ \E answer \in {"refused", "throttled"} : TurnAway(r, s, answer)
    BY AdmitAsks DEF Unauthenticated
  <1>2. CASE SessionActive(r, s, g, all)
    <2>1. s \in Ids
      BY <1>2, IssuedIds DEF SessionActive, Live
    <2>2. Naming(s, g, all).goal = g
      BY <2>1, NamingFields DEF Goals
    <2> QED  BY <1>2, <2>2, StartsAt DEF SessionActive
  <1>3. ASSUME NEW answer \in {"refused", "throttled"}, TurnAway(r, s, answer)
        PROVE  pc'[r] # "family"
    BY <1>3, StartsAt DEF TurnAway
  <1> QED  BY <1>1, <1>2, <1>3

LEMMA CallMoves ==
  ASSUME BrowserTypeOK, SlotsKnown, NEW c \in Calls,
         Join(c) \/ Wait(c) \/ Acquire(c) \/ CallStep(c) \/ LoseAnswer(c)
  PROVE  (Moves(c) \/ Idles(c)) /\ \A q \in Requests \ {c} : Idles(q)
  <1>0. c \in Requests /\ TypeOK
    BY BrowserAssumption DEF BrowserTypeOK
  <1>1. CASE Join(c) \/ Wait(c)
    <2>1. UNCHANGED << sessionVars, carried >> /\ MaySend
      BY <1>1 DEF Join, Wait, MayAsk
    <2>2. \/ Move(c, "rest", "joined")
          \/ Move(c, "rest", "waiting")
      BY <1>1 DEF Join, Wait
    <2> QED  BY <1>0, <2>1, <2>2, SlotMoves DEF Moves, Begins, Idles, sessionVars
  <1>2. CASE Acquire(c)
    <2>1. UNCHANGED sessionVars /\ MaySend /\ Send(c) /\ Move(c, "rest", "sent")
      BY <1>2 DEF Acquire, MayAsk
    <2> QED  BY <1>0, <2>1, SlotMoves, CookiesSent DEF Moves, Begins, Idles, sessionVars
  <1>3. CASE PollSkip(c) \/ AnswerOrphan(c)
    <2>1. UNCHANGED << sessionVars, carried >> /\ pc[c] \in Resting
      BY <1>0, <1>3 DEF PollSkip, AnswerOrphan, Answered, Move, SlotsKnown
    <2>2. Move(c, "waiting", "rest") \/ Move(c, "orphan", "rest")
      BY <1>3 DEF PollSkip, AnswerOrphan
    <2> QED  BY <1>0, <2>1, <2>2, SlotMoves DEF Moves, Ends, Idles, sessionVars
  <1>4. CASE PollVerify(c)
    <2>1. UNCHANGED sessionVars /\ jar.token # NoSession /\ Send(c) /\ Move(c, "waiting", "sent")
      BY <1>4 DEF PollVerify
    <2> QED  BY <1>0, <2>1, SlotMoves, CookiesSent DEF Moves, Verifies, Idles, sessionVars
  <1>5. CASE Arrive(c)
    <2>1. Asking(c, carried[c].token) /\ Move(c, "sent", "busy") /\ Forget(c)
      BY <1>5, RequestsAsk DEF Arrive
    <2>2. /\ UNCHANGED << now, sessions, issued >> /\ Alone(c)
          /\ pc[c] \in Resting /\ pc'[c] \in {"family", "revokeFamily", "refused", "throttled"}
      BY <1>0, <2>1, AskLands
    <2>3. Lands(c)
      BY <1>0, <2>1, <2>2, SlotMoves DEF Lands
    <2> QED  BY <1>0, <2>1, <2>2, <2>3, SlotMoves, CookiesSent DEF Moves, Idles, Alone
  <1>6. CASE AnswerCall(c) \/ LoseAnswer(c)
    <2>1. /\ UNCHANGED << sessionVars, carried >> /\ pc[c] \in Resting
          /\ \E ok : Return(c, "busy", ok)
      BY <1>6 DEF AnswerCall, LoseAnswer, Answered
    <2>2. ASSUME NEW q \in Requests
          PROVE  step'[q] = step[q] \/ (step'[q] = "rest" /\ pc[q] \in Resting)
      BY <1>0, <2>1 DEF Return, SlotsKnown
    <2> QED  BY <1>0, <2>1, <2>2 DEF Idles, sessionVars
  <1> QED  BY <1>1, <1>2, <1>3, <1>4, <1>5, <1>6 DEF CallStep

LEMMA OtherMoves ==
  ASSUME BrowserTypeOK, SlotsKnown, NEW r \in Requests \ Calls,
         \/ SendData(r) \/ DataStep(r) \/ SendLogout(r) \/ LogoutStep(r) \/ LoseReply(r)
  PROVE  Moves(r) /\ \A q \in Requests \ {r} : Idles(q)
  <1>0. TypeOK
    BY DEF BrowserTypeOK
  <1>1. CASE SendData(r) \/ SendLogout(r)
    <2>1. UNCHANGED sessionVars /\ MaySend /\ Send(r) /\ Move(r, "rest", "sent")
      BY <1>1 DEF SendData, SendLogout
    <2> QED  BY <2>1, SlotMoves, CookiesSent DEF Moves, Begins, Idles, sessionVars
  <1>2. CASE Forward(r) \/ (\E all \in BOOLEAN : ArriveLogout(r, all))
    <2>1. Move(r, "sent", "busy") /\ UNCHANGED carried
      BY <1>2 DEF Forward, ArriveLogout
    <2>2. /\ UNCHANGED << now, sessions, issued >> /\ Alone(r)
          /\ pc[r] \in Resting /\ pc'[r] \in {"family", "revokeFamily", "refused", "throttled"}
          /\ pc'[r] = "family" => req'[r].goal # "refresh"
      <3>1. PICK g \in {"check", "logout"}, all \in BOOLEAN :
               Admit(r, carried[r].token, g, all) \/ Unauthenticated(r, carried[r].token)
        BY <1>2 DEF Forward, Check, ArriveLogout, Logout, Admit
      <3>2. Asking(r, carried[r].token)
        BY <3>1, AdmitAsks DEF Unauthenticated, Asking, Goals
      <3> QED  BY <1>0, <3>1, <3>2, AskLands, AdmitLands
    <2>3. Lands(r)
      BY <2>1, <2>2, SlotMoves DEF Lands
    <2> QED  BY <2>1, <2>2, <2>3, SlotMoves, CookiesSent DEF Moves, Idles, Alone
  <1>3. CASE RefreshOnServer(r)
    <2>1. /\ step[r] \in {"sent", "busy"} /\ UNCHANGED carried
          /\ Asking(r, carried[r].token)
          /\ step' = [step EXCEPT ![r] = "renewing"]
      BY <1>3, RequestsAsk DEF RefreshOnServer
    <2>2. step'[r] = "renewing" /\ \A q \in Requests \ {r} : step'[q] = step[q]
      BY <2>1 DEF BrowserTypeOK
    <2>3. /\ UNCHANGED << now, sessions, issued >> /\ Alone(r)
          /\ pc[r] \in Resting /\ pc'[r] \in {"family", "revokeFamily", "refused", "throttled"}
      BY <1>0, <2>1, AskLands
    <2>4. Lands(r)
      BY <2>1, <2>2, <2>3 DEF Lands
    <2> QED  BY <2>1, <2>2, <2>3, <2>4, CookiesSent DEF Moves, Idles, Alone
  <1>4. CASE DataServed(r) \/ DataRenewed(r) \/ AnswerLogout(r) \/ LoseReply(r)
    <2>1. UNCHANGED sessionVars /\ pc[r] \in Resting /\ Forget(r)
      BY <1>4 DEF DataServed, DataRenewed, AnswerLogout, LoseReply, Answered, Resting
    <2>2. step'[r] = "rest" /\ \A q \in Requests \ {r} : step'[q] = step[q]
      BY <1>4, SlotMoves
         DEF DataServed, DataRenewed, AnswerLogout, LoseReply, BrowserTypeOK
    <2> QED  BY <2>1, <2>2, CookiesSent DEF Moves, Ends, Idles, sessionVars
  <1> QED  BY <1>1, <1>2, <1>3, <1>4 DEF DataStep, LogoutStep

\* Every step of the browser runs on at most one slot.
LEMMA BrowserMoves ==
  ASSUME BrowserTypeOK, SlotsKnown, [BrowserNext]_vars
  PROVE  \/ \A q \in Requests : Idles(q)
         \/ \E r \in Requests : Moves(r) /\ \A q \in Requests \ {r} : Idles(q)
  <1>0. Calls \subseteq Requests /\ Data \cup Logouts \subseteq Requests \ Calls /\ TypeOK
    BY BrowserAssumption DEF BrowserTypeOK
  <1>1. CASE Clock \/ UNCHANGED vars
    BY <1>1 DEF Clock, Tick, vars, sessionVars, browserVars, Idles
  <1>2. ASSUME NEW r \in Requests, BackendStep(r) \/ (GoWrong(r) /\ UNCHANGED browserVars)
        PROVE  Moves(r) /\ \A q \in Requests \ {r} : Idles(q)
    <2>1. Works(r)
      BY <1>0, <1>2, ProceedWorks, WrongWorks DEF BackendStep
    <2> QED  BY <1>2, <2>1 DEF BackendStep, Works, Alone, Moves, Runs, Idles, browserVars
  <1>3. ASSUME NEW c \in Calls,
               Join(c) \/ Wait(c) \/ Acquire(c) \/ CallStep(c) \/ LoseAnswer(c)
        PROVE  (Moves(c) \/ Idles(c)) /\ \A q \in Requests \ {c} : Idles(q)
    BY <1>3, CallMoves
  <1>4. ASSUME NEW t \in Tabs, CloseTab(t), NEW q \in Requests
        PROVE  Idles(q)
    <2>1. UNCHANGED << sessionVars, carried >>
      BY <1>4 DEF CloseTab
    <2>2. \/ step'[q] = step[q]
          \/ step'[q] = "rest" /\ q \in Calls /\ step[q] \notin {"busy", "orphan"}
          \/ step[q] \in {"busy", "orphan"} /\ step'[q] = "orphan" /\ q \in Calls
      BY <1>4 DEF CloseTab
    <2> QED  BY <2>1, <2>2 DEF Idles, SlotsKnown, sessionVars
  <1>5. ASSUME NEW r \in Data \cup Logouts,
               \/ SendData(r) \/ DataStep(r) \/ SendLogout(r) \/ LogoutStep(r) \/ LoseReply(r)
        PROVE  Moves(r) /\ \A q \in Requests \ {r} : Idles(q)
    BY <1>0, <1>5, OtherMoves
  <1>6. CASE \E r \in Requests : BackendStep(r) \/ (GoWrong(r) /\ UNCHANGED browserVars)
    BY <1>2, <1>6
  <1>7. CASE \E c \in Calls : Join(c) \/ Wait(c) \/ Acquire(c) \/ CallStep(c) \/ LoseAnswer(c)
    BY <1>0, <1>3, <1>7
  <1>8. CASE \E r \in Data \cup Logouts :
               SendData(r) \/ DataStep(r) \/ SendLogout(r) \/ LogoutStep(r) \/ LoseReply(r)
    BY <1>0, <1>5, <1>8
  <1> QED  BY <1>1, <1>4, <1>6, <1>7, <1>8 DEF BrowserNext

LEMMA SlotsKnownStep ==
  ASSUME BrowserTypeOK, SlotsKnown, [BrowserNext]_vars
  PROVE  SlotsKnown'
  <1>0. TypeOK /\ Calls \subseteq Requests
    BY BrowserAssumption DEF BrowserTypeOK
  <1> DEFINE Slot(q) ==
               /\ step[q] \notin {"busy", "renewing", "orphan"} => pc[q] \in Resting
               /\ q \in Calls => step[q] # "renewing"
               /\ q \notin Calls /\ step[q] = "busy" =>
                    /\ pc[q] \in Resting \cup {"family", "revokeFamily", "revoke", "revokeAll"}
                    /\ pc[q] = "family" => req[q].goal # "refresh"
  <1>1. \A q \in Requests : Slot(q)
    BY DEF SlotsKnown
  <1>2. ASSUME NEW q \in Requests, Idles(q)
        PROVE  Slot(q)'
    BY <1>1, <1>2 DEF Idles
  <1>3. ASSUME NEW r \in Requests, Moves(r)
        PROVE  Slot(r)'
    <2>1. CASE Begins(r) \/ Verifies(r)
      <3>1. pc[r] \in Resting /\ pc' = pc /\ step'[r] \in {"joined", "waiting", "sent"}
        BY <1>1, <2>1 DEF Begins, Verifies, sessionVars
      <3> QED  BY <3>1
    <2>2. CASE Lands(r)
      BY <2>2 DEF Lands, Resting
    <2>3. CASE Ends(r)
      BY <2>3 DEF Ends, sessionVars
    <2>4. CASE Runs(r)
      <3>1. Works(r) /\ step'[r] = step[r]
        BY <1>0, <2>4, ProceedWorks, WrongWorks DEF Runs, browserVars
      <3>2. step[r] \in {"busy", "renewing", "orphan"}
        BY <1>1, <3>1 DEF Works, Resting, Working
      <3>3. CASE r \notin Calls /\ step[r] = "busy"
        <4>1. pc[r] \in {"family", "revokeFamily", "revoke", "revokeAll"}
          BY <1>1, <3>1, <3>3 DEF Works, Resting, Working
        <4>2. pc'[r] \in Resting \cup {"revoke", "revokeFamily", "revokeAll"}
          <5>1. CASE pc[r] = "family"
            BY <1>1, <3>1, <3>3, <5>1 DEF Works, Ahead
          <5>2. CASE pc[r] # "family"
            BY <3>1, <4>1, <5>2 DEF Works, Ahead
          <5> QED  BY <5>1, <5>2
        <4> QED  BY <3>1, <3>3, <4>2 DEF Resting
      <3>4. CASE ~(r \notin Calls /\ step[r] = "busy")
        BY <1>1, <3>1, <3>2, <3>4
      <3> QED  BY <3>3, <3>4
    <2> QED  BY <1>3, <2>1, <2>2, <2>3, <2>4 DEF Moves
  <1>4. \A q \in Requests : Slot(q)'
    BY <1>2, <1>3, BrowserMoves
  <1> QED  BY <1>0, <1>4 DEF SlotsKnown

\* What the browser sends was issued to it.
SendsIssued ==
    /\ jar.token \in Issued \cup {NoSession}
    /\ \A r \in Requests : step[r] = "sent" => carried[r].token \in Issued

LEMMA JarMoves ==
  ASSUME [BrowserNext]_vars
  PROVE  jar' \in {jar, NoJar} \/ \E q \in Requests : jar' = NewJar(q)
  <1>0. Calls \subseteq Requests /\ Data \subseteq Requests /\ Logouts \subseteq Requests
    BY BrowserAssumption
  <1>1. CASE \/ Clock \/ UNCHANGED vars \/ (\E t \in Tabs : CloseTab(t))
             \/ \E r \in Requests : BackendStep(r) \/ (GoWrong(r) /\ UNCHANGED browserVars)
             \/ \E r \in Data \cup Logouts : LoseReply(r)
    BY <1>1 DEF Clock, vars, browserVars, CloseTab, BackendStep, LoseReply
  <1>2. ASSUME NEW c \in Calls,
               Join(c) \/ Wait(c) \/ Acquire(c) \/ CallStep(c) \/ LoseAnswer(c)
        PROVE  jar' \in {jar, NoJar, NewJar(c)}
    <2>1. CASE AnswerCall(c)
      BY <2>1 DEF AnswerCall
    <2>2. CASE ~AnswerCall(c)
      BY <1>2, <2>2
         DEF Join, Wait, Acquire, CallStep, LoseAnswer, PollSkip, PollVerify, Arrive, AnswerOrphan
    <2> QED  BY <2>1, <2>2
  <1>3. ASSUME NEW d \in Data, SendData(d) \/ DataStep(d)
        PROVE  jar' \in {jar, NoJar, NewJar(d)}
    BY <1>3 DEF SendData, DataStep, Forward, RefreshOnServer, DataServed, DataRenewed
  <1>4. ASSUME NEW l \in Logouts, SendLogout(l) \/ LogoutStep(l)
        PROVE  jar' \in {jar, NoJar}
    BY <1>4 DEF SendLogout, LogoutStep, ArriveLogout, AnswerLogout
  <1> QED  BY <1>0, <1>1, <1>2, <1>3, <1>4 DEF BrowserNext

LEMMA SendsIssuedStep ==
  ASSUME BrowserTypeOK, Named, SlotsKnown, SendsIssued, [BrowserNext]_vars
  PROVE  SendsIssued'
  <1>0. TypeOK /\ carried \in [Requests -> Jar]
    BY DEF BrowserTypeOK
  <1>1. [Next]_sessionVars
    BY <1>0, BrowserSteps DEF vars
  <1>2. Issued \subseteq Issued'
    <2>1. issued \in Nat /\ issued <= issued' /\ issued' \in Nat
      BY <1>0, <1>1, IssuedGrows DEF TypeOK
    <2> QED  BY <2>1 DEF Issued
  <1>3. jar'.token \in Issued' \cup {NoSession}
    <2>1. ASSUME NEW q \in Requests PROVE NewJar(q).token \in Issued \cup {NoSession}
      <3>1. NewJar(q).token = req[q].session
        BY <1>0, JarFields
      <3> QED  BY <3>1 DEF Named, Names
    <2>2. NoJar.token = NoSession
      BY DEF NoJar
    <2>3. jar'.token \in Issued \cup {NoSession}
      BY <2>1, <2>2, JarMoves DEF SendsIssued
    <2> QED  BY <1>2, <2>3
  <1>4. ASSUME NEW q \in Requests, Idles(q), step'[q] = "sent"
        PROVE  carried'[q].token \in Issued'
    BY <1>2, <1>4 DEF Idles, SendsIssued
  <1>5. ASSUME NEW r \in Requests, Moves(r), step'[r] = "sent"
        PROVE  carried'[r].token \in Issued'
    <2>1. CASE Begins(r) \/ Verifies(r)
      BY <1>2, <1>5, <2>1 DEF Begins, Verifies, MaySend, SendsIssued
    <2>2. CASE Runs(r)
      BY <1>2, <1>5, <2>2 DEF Runs, browserVars, SendsIssued
    <2> QED  BY <1>5, <2>1, <2>2 DEF Moves, Lands, Ends
  <1>6. \A q \in Requests : step'[q] = "sent" => carried'[q].token \in Issued'
    BY <1>4, <1>5, BrowserMoves
  <1> QED  BY <1>3, <1>6 DEF SendsIssued

\* The call a tab has in flight is its own and is under way, a call that joined has one
\* to come back with, and no call waits for longer than a lock takes to be stale.
Attended ==
    /\ \A t \in Tabs : flight[t] # NoCall =>
         TabOf[flight[t]] = t /\ step[flight[t]] \in {"sent", "busy"}
    /\ \A c \in Calls : step[c] = "joined" => flight[TabOf[c]] # NoCall
    /\ \A c \in Calls : step[c] = "waiting" => deadline[c] <= AskUntil + LockStale

\* A step that leaves the calls in flight in flight, and lets none join or wait unasked.
LEMMA StillAttended ==
  ASSUME BrowserTypeOK, Attended, flight' = flight,
         \A c \in Calls : step[c] \in {"sent", "busy"} /\ flight[TabOf[c]] = c =>
            step'[c] \in {"sent", "busy"},
         \A c \in Calls : step'[c] = "joined" => step[c] = "joined" \/ flight[TabOf[c]] # NoCall,
         \A c \in Calls : step'[c] = "waiting" => deadline'[c] <= AskUntil + LockStale
  PROVE  Attended'
  BY DEF BrowserTypeOK, Attended

LEMMA ReturnAttended ==
  ASSUME BrowserTypeOK, Attended, NEW c \in Calls, NEW ok, Return(c, "busy", ok),
         UNCHANGED deadline
  PROVE  Attended'
  <1>0. /\ TabOf[c] \in Tabs /\ c # NoCall /\ c \in Requests /\ Calls \subseteq Requests
        /\ flight \in [Tabs -> Calls \cup {NoCall}] /\ \A e \in Calls : TabOf[e] \in Tabs
    BY BrowserAssumption DEF BrowserTypeOK
  <1> DEFINE t == TabOf[c]
  <1>1. CASE flight[t] = c
    <2>1. /\ flight'[t] = NoCall /\ \A u \in Tabs \ {t} : flight'[u] = flight[u]
      BY <1>0, <1>1 DEF Return
    <2>2. \A e \in Calls : TabOf[e] = t /\ step[e] = "joined" => step'[e] = "rest"
      BY <1>0, <1>1 DEF Return
    <2>3. \A e \in Calls : TabOf[e] # t => step'[e] = step[e]
      BY <1>0, <1>1 DEF Return
    <2>4. \A e \in Calls : step'[e] \in {"rest", step[e]}
      BY <1>0 DEF Return
    <2>5. \A u \in Tabs \ {t} : flight[u] # NoCall => flight[u] \in Calls /\ TabOf[flight[u]] = u
      BY <1>0 DEF Attended
    <2>6. \A u \in Tabs : flight'[u] # NoCall => TabOf[flight'[u]] = u /\ step'[flight'[u]] \in {"sent", "busy"}
      BY <2>1, <2>3, <2>5 DEF Attended
    <2>7. \A e \in Calls : step'[e] = "joined" => flight'[TabOf[e]] # NoCall
      BY <1>0, <2>1, <2>2, <2>3, <2>4 DEF Attended
    <2>8. \A e \in Calls : step'[e] = "waiting" => deadline'[e] <= AskUntil + LockStale
      BY <2>4 DEF Attended
    <2> QED  BY <2>6, <2>7, <2>8 DEF Attended
  <1>2. CASE flight[t] # c
    <2>1. /\ flight' = flight
          /\ \A e \in Calls \ {c} : step'[e] = step[e]
          /\ step'[c] = "rest"
      BY <1>0, <1>2 DEF Return
    <2>2. \A e \in Calls : step'[e] \in {"rest", step[e]}
      BY <2>1
    <2> QED  BY <1>0, <1>2, <2>1, <2>2, StillAttended DEF Attended
  <1> QED  BY <1>1, <1>2

LEMMA AttendedStep ==
  ASSUME BrowserTypeOK, SlotsKnown, Attended, [BrowserNext]_vars
  PROVE  Attended'
  <1>0. /\ Calls \subseteq Requests /\ \A c \in Calls : TabOf[c] \in Tabs /\ c # NoCall
        /\ (Data \cup Logouts) \cap Calls = {} /\ Data \cup Logouts \subseteq Requests
        /\ flight \in [Tabs -> Calls \cup {NoCall}] /\ deadline \in [Calls -> 0..(MaxTime + LockStale)]
        /\ step \in [Requests -> Steps]
    BY BrowserAssumption DEF BrowserTypeOK
  <1>1. ASSUME UNCHANGED << flight, deadline >>, \A c \in Calls : step'[c] = step[c]
        PROVE  Attended'
    BY <1>1, StillAttended DEF Attended
  <1>2. CASE \/ Clock \/ UNCHANGED vars
             \/ \E r \in Requests : BackendStep(r) \/ (GoWrong(r) /\ UNCHANGED browserVars)
    BY <1>1, <1>2 DEF Clock, vars, browserVars, BackendStep
  <1>3. ASSUME NEW r \in Data \cup Logouts,
               \/ SendData(r) \/ DataStep(r) \/ SendLogout(r) \/ LogoutStep(r) \/ LoseReply(r)
        PROVE  Attended'
    <2>1. UNCHANGED << flight, deadline >>
      BY <1>3
         DEF SendData, DataStep, Forward, RefreshOnServer, DataServed, DataRenewed, SendLogout,
             LogoutStep, ArriveLogout, AnswerLogout, LoseReply
    <2>2. \A q \in Requests \ {r} : step'[q] = step[q]
      BY <1>0, <1>3
         DEF SendData, DataStep, Forward, RefreshOnServer, DataServed, DataRenewed, SendLogout,
             LogoutStep, ArriveLogout, AnswerLogout, LoseReply, Move
    <2> QED  BY <1>0, <1>1, <2>1, <2>2
  <1>4. ASSUME NEW c \in Calls, NEW from, NEW to, Move(c, from, to), UNCHANGED flight,
               from \in {"sent", "busy"} => to \in {"sent", "busy"},
               to = "joined" => flight[TabOf[c]] # NoCall,
               to = "waiting" => deadline'[c] <= AskUntil + LockStale,
               \A e \in Calls \ {c} : deadline'[e] = deadline[e]
        PROVE  Attended'
    <2>1. step[c] = from /\ step'[c] = to /\ \A e \in Calls \ {c} : step'[e] = step[e]
      BY <1>0, <1>4, SlotMoves
    <2> QED  BY <1>4, <2>1, StillAttended DEF Attended
  <1>5. ASSUME NEW c \in Calls,
               Join(c) \/ Wait(c) \/ Acquire(c) \/ CallStep(c) \/ LoseAnswer(c)
        PROVE  Attended'
    <2>1. CASE Join(c)
      BY <1>4, <2>1 DEF Join
    <2>2. CASE Wait(c)
      <3>1. now \in Nat /\ LockStale \in Nat /\ AskUntil \in Nat /\ now <= AskUntil
        BY <2>2, BrowserAssumption DEF Wait, MayAsk, MaySend, BrowserTypeOK, TypeOK, Times
      <3>2. /\ deadline'[c] = now + LockStale /\ \A e \in Calls \ {c} : deadline'[e] = deadline[e]
            /\ Move(c, "rest", "waiting") /\ UNCHANGED flight
        BY <1>0, <2>2 DEF Wait
      <3>3. deadline'[c] <= AskUntil + LockStale
        BY <3>1, <3>2
      <3> QED  BY <1>4, <3>2, <3>3
    <2>3. CASE Acquire(c)
      <3>1. /\ flight'[TabOf[c]] = c /\ \A t \in Tabs \ {TabOf[c]} : flight'[t] = flight[t]
            /\ UNCHANGED deadline /\ Move(c, "rest", "sent")
        BY <1>0, <2>3 DEF Acquire
      <3>2. step[c] = "rest" /\ step'[c] = "sent" /\ \A e \in Calls \ {c} : step'[e] = step[e]
        BY <1>0, <3>1, SlotMoves
      <3>3. \A t \in Tabs : flight'[t] # NoCall =>
               TabOf[flight'[t]] = t /\ step'[flight'[t]] \in {"sent", "busy"}
        BY <1>0, <3>1, <3>2 DEF Attended
      <3>4. \A e \in Calls : step'[e] = "joined" => flight'[TabOf[e]] # NoCall
        BY <1>0, <3>1, <3>2 DEF Attended
      <3> QED  BY <3>1, <3>2, <3>3, <3>4 DEF Attended
    <2>4. CASE PollSkip(c) \/ PollVerify(c)
      <3>1. /\ UNCHANGED flight /\ \A e \in Calls \ {c} : deadline'[e] = deadline[e]
            /\ Move(c, "waiting", "rest") \/ Move(c, "waiting", "sent")
        BY <1>0, <2>4 DEF PollSkip, PollVerify
      <3> QED  BY <1>4, <3>1
    <2>5. CASE Arrive(c)
      BY <1>4, <2>5 DEF Arrive
    <2>6. CASE AnswerOrphan(c)
      BY <1>4, <2>6 DEF AnswerOrphan
    <2>7. CASE AnswerCall(c) \/ LoseAnswer(c)
      BY <2>7, ReturnAttended DEF AnswerCall, LoseAnswer
    <2> QED  BY <1>5, <2>1, <2>2, <2>3, <2>4, <2>5, <2>6, <2>7 DEF CallStep
  <1>6. ASSUME NEW t \in Tabs, CloseTab(t)
        PROVE  Attended'
    <2>1. /\ flight'[t] = NoCall /\ \A u \in Tabs \ {t} : flight'[u] = flight[u]
          /\ UNCHANGED deadline
      BY <1>0, <1>6 DEF CloseTab
    <2>2. \A c \in Calls : /\ TabOf[c] # t => step'[c] = step[c]
                           /\ TabOf[c] = t => step'[c] \in {"orphan", "rest"}
      BY <1>0, <1>6 DEF CloseTab
    <2>3. \A u \in Tabs : flight'[u] # NoCall =>
             TabOf[flight'[u]] = u /\ step'[flight'[u]] \in {"sent", "busy"}
      BY <1>0, <2>1, <2>2 DEF Attended
    <2>4. \A c \in Calls : step'[c] = "joined" => flight'[TabOf[c]] # NoCall
      BY <1>0, <2>1, <2>2 DEF Attended
    <2> QED  BY <2>1, <2>2, <2>3, <2>4 DEF Attended
  <1>7. CASE \E r \in Data \cup Logouts :
               SendData(r) \/ DataStep(r) \/ SendLogout(r) \/ LogoutStep(r) \/ LoseReply(r)
    BY <1>3, <1>7
  <1> QED  BY <1>2, <1>5, <1>6, <1>7 DEF BrowserNext

\* The slots whose request may yet insert a row.
MayInsert(r) ==
    \/ step[r] \in {"joined", "waiting", "sent"}
    \/ step[r] = "busy" /\ r \notin Calls
    \/ step[r] # "rest" /\ pc[r] \in Working \ {"touch"}
Pending == {r \in Requests : MayInsert(r)}

\* There is a row left for each of them, so no insert ever finds the table full.
Room == issued + Cardinality(Pending) <= MaxSessions

LEMMA PendingCounted ==
  ASSUME BrowserTypeOK
  PROVE  /\ IsFiniteSet(Pending) /\ Cardinality(Pending) \in Nat
         /\ InFlight \in Nat /\ Cardinality(Pending) <= InFlight
  <1>1. IsFiniteSet({r \in Requests : step[r] # "rest"})
    BY BrowserAssumption, FS_Subset
  <1>2. Pending \subseteq {r \in Requests : step[r] # "rest"}
    BY DEF Pending, MayInsert
  <1> QED  BY <1>1, <1>2, FS_Subset, FS_CardinalityType DEF InFlight

LEMMA RoomStep ==
  ASSUME BrowserTypeOK, SlotsKnown, Room, [BrowserNext]_vars
  PROVE  Room'
  <1>0. /\ TypeOK /\ issued \in Nat /\ MaxSessions \in Nat
        /\ IsFiniteSet(Pending) /\ Cardinality(Pending) \in Nat
    BY SessionAssumption, PendingCounted DEF BrowserTypeOK, TypeOK
  <1>1. BrowserTypeOK'
    BY BrowserTypeStep
  <1>2. IsFiniteSet(Pending') /\ Cardinality(Pending') \in Nat
    BY <1>1, PendingCounted, FS_Subset, BrowserAssumption, FS_CardinalityType DEF Pending
  <1>3. ASSUME issued' = issued, Pending' \subseteq Pending
        PROVE  Room'
    <2>1. Cardinality(Pending') <= Cardinality(Pending)
      BY <1>0, <1>3, FS_Subset
    <2> QED  BY <1>0, <1>2, <1>3, <2>1 DEF Room
  <1>4. ASSUME NEW q \in Requests, Idles(q), q \in Pending'
        PROVE  q \in Pending
    BY <1>4 DEF Idles, Pending, MayInsert, Resting, Working
  <1>5. CASE \A q \in Requests : Idles(q)
    <2>1. Pending' \subseteq Pending
      BY <1>4, <1>5 DEF Pending
    <2>2. issued' = issued
      <3>1. ASSUME NEW r \in Requests, pc'[r] = pc[r]
            PROVE  ~(Proceed(r) \/ GoWrong(r))
        <4>1. ASSUME Works(r) PROVE FALSE
          BY <3>1, <4>1 DEF Works, Ahead, Resting, Working
        <4> QED  BY <1>0, <4>1, ProceedWorks, WrongWorks
      <3>2. \A r \in Requests : ~(Proceed(r) \/ GoWrong(r))
        BY <1>5, <3>1 DEF Idles
      <3>3. [Next]_sessionVars
        BY <1>0, BrowserSteps DEF vars
      <3> QED  BY <3>2, <3>3, RequestsAsk
                  DEF Next, Tick, Heartbeat, LoginStart, Asking, SessionActive, FindRevoked, TurnAway,
                      sessionVars
    <2> QED  BY <1>3, <2>1, <2>2
  <1>6. ASSUME NEW r \in Requests, Moves(r), \A q \in Requests \ {r} : Idles(q)
        PROVE  Room'
    <2>0. Pending' \subseteq Pending \cup {r}
      BY <1>4, <1>6 DEF Pending
    <2>1. CASE Begins(r)
      <3>1. issued' = issued /\ issued + InFlight < MaxSessions
        BY <2>1 DEF Begins, MaySend, sessionVars
      <3>2. Cardinality(Pending') <= Cardinality(Pending) + 1
        <4>1. IsFiniteSet(Pending \cup {r}) /\ Cardinality(Pending \cup {r}) <= Cardinality(Pending) + 1
          BY <1>0, FS_AddElement
        <4>2. Cardinality(Pending') <= Cardinality(Pending \cup {r})
          BY <2>0, <4>1, FS_Subset
        <4>3. Cardinality(Pending \cup {r}) \in Nat
          BY <4>1, FS_CardinalityType
        <4> QED  BY <1>0, <1>2, <4>1, <4>2, <4>3
      <3> QED  BY <1>0, <1>2, <3>1, <3>2, PendingCounted DEF Room
    <2>2. CASE Verifies(r) \/ Lands(r) \/ Ends(r)
      <3>1. issued' = issued
        BY <2>2 DEF Verifies, Lands, Ends, sessionVars
      <3>2. r \in Pending' => r \in Pending
        BY <2>2 DEF Verifies, Lands, Ends, Pending, MayInsert
      <3> QED  BY <1>3, <2>0, <3>1, <3>2
    <2>3. CASE Runs(r)
      <3>1. Works(r) /\ step'[r] = step[r]
        BY <1>0, <2>3, ProceedWorks, WrongWorks DEF Runs, browserVars
      <3>2. step[r] \in {"busy", "renewing", "orphan"}
        BY <3>1 DEF SlotsKnown, Works, Resting, Working
      <3>3. CASE issued' = issued
        <4>1. ASSUME pc'[r] \in Working
              PROVE  pc[r] \in Working \ {"touch"}
          BY <3>1, <4>1 DEF Works, Ahead, Resting, Working
        <4>2. r \in Pending' => r \in Pending
          BY <3>1, <3>2, <4>1 DEF Pending, MayInsert
        <4> QED  BY <1>3, <2>0, <3>3, <4>2
      <3>4. CASE issued' # issued
        <4>1. pc[r] = "insert" /\ issued' = issued + 1
          BY <3>1, <3>4 DEF Works, KeepsAsking
        <4>2. pc'[r] \in Resting \cup {"touch"}
          BY <3>1, <4>1 DEF Works, Ahead
        <4>3. r \in Pending
          BY <3>2, <4>1 DEF Pending, MayInsert, Working
        <4>4. ~(r \notin Calls /\ step[r] = "busy")
          BY <4>1 DEF SlotsKnown, Resting
        <4>5. r \notin Pending'
          BY <3>1, <3>2, <4>2, <4>4 DEF Pending, MayInsert, Resting, Working
        <4>6. Pending' \subseteq Pending \ {r}
          BY <2>0, <4>5
        <4>7. Cardinality(Pending \ {r}) = Cardinality(Pending) - 1 /\ IsFiniteSet(Pending \ {r})
          BY <1>0, <4>3, FS_RemoveElement
        <4>8. Cardinality(Pending') <= Cardinality(Pending) - 1
          BY <4>6, <4>7, FS_Subset
        <4> QED  BY <1>0, <1>2, <4>1, <4>8 DEF Room
      <3> QED  BY <3>3, <3>4
    <2> QED  BY <1>6, <2>1, <2>2, <2>3 DEF Moves
  <1> QED  BY <1>5, <1>6, BrowserMoves

\* What always holds of the calls, whatever fails, dies or is slow.
CallsKnown == BrowserTypeOK /\ Named /\ SlotsKnown /\ SendsIssued /\ Attended /\ Room

LEMMA CallsKnownInit == BrowserInit => CallsKnown
  <1> SUFFICES ASSUME BrowserInit
               PROVE  CallsKnown
    OBVIOUS
  <1>1. BrowserTypeOK /\ Named
    BY BrowserTypeInit, NamedInit
  <1>2. Issued = {1} /\ jar.token = 1
    BY DEF BrowserInit, Issued
  <1>3. SlotsKnown /\ SendsIssued
    BY <1>2, BrowserAssumption DEF BrowserInit, SlotsKnown, SendsIssued, Resting
  <1>4. Attended
    BY BrowserAssumption DEF BrowserInit, Attended
  <1>5. Room
    <2>1. Pending = {}
      BY DEF BrowserInit, Pending, MayInsert
    <2> QED  BY <2>1, FS_EmptySet, BrowserAssumption DEF BrowserInit, Room
  <1> QED  BY <1>1, <1>3, <1>4, <1>5 DEF CallsKnown

LEMMA CallsKnownStep == CallsKnown /\ [BrowserNext]_vars => CallsKnown'
  <1> SUFFICES ASSUME CallsKnown, [BrowserNext]_vars
               PROVE  CallsKnown'
    OBVIOUS
  <1>1. BrowserTypeOK'
    BY BrowserTypeStep DEF CallsKnown
  <1>2. [Next]_sessionVars
    BY BrowserSteps DEF CallsKnown, BrowserTypeOK, vars
  <1>3. Named'
    BY <1>2, NamedStep DEF CallsKnown, BrowserTypeOK
  <1> QED  BY <1>1, <1>3, SlotsKnownStep, SendsIssuedStep, AttendedStep, RoomStep DEF CallsKnown

\* A request that runs finds what its next call needs: the oldest row of the family that
\* it asks for, and a row of the table that is left to insert.
CanRun(r) ==
    /\ pc[r] \in Working
    /\ pc[r] = "family" =>
         \E s \in Family(req[r].family) :
            \A x \in Family(req[r].family) : sessions[s].created <= sessions[x].created
    /\ pc[r] = "insert" => issued < MaxSessions

\* A call has a next step of its own: what it sent arrives, the answer that is there is
\* received, or its wait is over.
CanStep(c) ==
    \/ step[c] = "sent" /\ Answered(c) /\ carried[c].token \in Issued
    \/ step[c] \in {"busy", "orphan"} /\ Answered(c)
    \/ step[c] = "waiting" /\ Due(c)

LEMMA WorkingCanRun ==
  ASSUME CallsKnown, NEW r \in Requests, pc[r] \in Working
  PROVE  CanRun(r)
  <1>0. BrowserTypeOK /\ TypeOK /\ issued \in Nat /\ MaxSessions \in Nat
    BY SessionAssumption DEF CallsKnown, BrowserTypeOK, TypeOK
  <1>1. CASE pc[r] = "family"
    <2> DEFINE f == req[r].family
    <2>1. Known(f)
      BY <1>1 DEF CallsKnown, Named, Names, AsksFamily
    <2>2. f \in Family(f)
      BY <2>1 DEF Family, Known
    <2>3. \A x \in Family(f) : sessions[f].created <= sessions[x].created
      BY DEF CallsKnown, Named, Descends, Family
    <2> QED  BY <1>1, <2>2, <2>3 DEF CanRun
  <1>2. CASE pc[r] = "insert"
    <2>1. step[r] \notin {"rest", "joined", "waiting", "sent"}
      BY <1>0, <1>2 DEF CallsKnown, SlotsKnown, Resting
    <2>2. r \in Pending
      BY <1>2, <2>1 DEF Pending, MayInsert, Working
    <2>3. Cardinality(Pending) # 0 /\ Cardinality(Pending) \in Nat
      BY <1>0, <2>2, PendingCounted, FS_EmptySet
    <2>4. issued + Cardinality(Pending) <= MaxSessions
      BY DEF CallsKnown, Room
    <2> QED  BY <1>0, <1>2, <2>3, <2>4 DEF CanRun
  <1> QED  BY <1>1, <1>2 DEF CanRun

\* A call at this point of its course: under way in the backend at a label, or with its
\* answer ready.
OnItsWay(c) == step[c] \in {"busy", "orphan"}
RunsAt(c, at) == OnItsWay(c) /\ pc[c] = at
Ready(c) == OnItsWay(c) /\ pc[c] \in Resting

\* What any step does to a call that is on its way.
LEMMA OnItsWayStep ==
  ASSUME CallsKnown, NEW c \in Calls, OnItsWay(c), [BrowserNext]_vars
  PROVE  \/ step'[c] = "rest" /\ pc[c] \in Resting
         \/ OnItsWay(c)' /\ pc'[c] = pc[c]
         \/ OnItsWay(c)' /\ pc[c] \in Working /\ pc'[c] \in Resting \cup Ahead(pc[c])
  <1>0. c \in Requests /\ BrowserTypeOK /\ TypeOK /\ SlotsKnown
    BY BrowserAssumption DEF CallsKnown, BrowserTypeOK
  <1>1. CASE Idles(c)
    BY <1>1 DEF Idles, OnItsWay
  <1>2. CASE Moves(c)
    <2>1. CASE Runs(c)
      BY <1>0, <2>1, ProceedWorks, WrongWorks DEF Runs, Works, OnItsWay, browserVars
    <2>2. CASE Begins(c) \/ Verifies(c) \/ Lands(c)
      BY <1>0, <2>2 DEF Begins, Verifies, Lands, OnItsWay
    <2>3. CASE Ends(c)
      BY <2>3 DEF Ends
    <2> QED  BY <1>2, <2>1, <2>2, <2>3 DEF Moves
  <1> QED  BY <1>0, <1>1, <1>2, BrowserMoves

\* What a step of the backend does to it.
LEMMA OnItsWayRun ==
  ASSUME CallsKnown, NEW c \in Calls, OnItsWay(c), BackendStep(c)
  PROVE  OnItsWay(c)' /\ pc[c] \in Working /\ pc'[c] \in Resting \cup Ahead(pc[c])
  <1>0. c \in Requests /\ TypeOK
    BY BrowserAssumption DEF CallsKnown, BrowserTypeOK
  <1> QED  BY <1>0, ProceedWorks DEF BackendStep, Works, OnItsWay, browserVars

\* What any step does to a call whose request was sent, or that waits.
LEMMA SentStep ==
  ASSUME CallsKnown, NEW c \in Calls, step[c] = "sent", [BrowserNext]_vars
  PROVE  step'[c] \in {"sent", "busy", "rest"}
  <1>0. c \in Requests /\ BrowserTypeOK /\ TypeOK /\ SlotsKnown
    BY BrowserAssumption DEF CallsKnown, BrowserTypeOK
  <1>1. Idles(c) => step'[c] \in {"sent", "busy", "rest"}
    BY DEF Idles
  <1>2. Moves(c) => step'[c] \in {"sent", "busy", "rest"}
    BY DEF Moves, Begins, Verifies, Lands, Runs, Ends, browserVars
  <1> QED  BY <1>0, <1>1, <1>2, BrowserMoves

LEMMA WaitStep ==
  ASSUME CallsKnown, NEW c \in Calls, step[c] = "waiting", [BrowserNext]_vars
  PROVE  step'[c] \in {"waiting", "sent", "rest"}
  <1>0. c \in Requests /\ BrowserTypeOK /\ TypeOK /\ SlotsKnown
    BY BrowserAssumption DEF CallsKnown, BrowserTypeOK
  <1>1. Idles(c) => step'[c] \in {"waiting", "sent", "rest"}
    BY DEF Idles
  <1>2. Moves(c) => step'[c] \in {"waiting", "sent", "rest"}
    BY DEF Moves, Begins, Verifies, Lands, Runs, Ends, browserVars
  <1> QED  BY <1>0, <1>1, <1>2, BrowserMoves

\* What a step of the call itself does to it.
LEMMA OwnStep ==
  ASSUME CallsKnown, NEW c \in Calls, CallStep(c)
  PROVE  \/ step[c] = "waiting" /\ step'[c] \in {"sent", "rest"}
         \/ step[c] = "sent" /\ step'[c] = "busy"
         \/ step[c] \in {"busy", "orphan"} /\ step'[c] = "rest"
  <1>0. c \in Requests /\ BrowserTypeOK
    BY BrowserAssumption DEF CallsKnown
  <1>1. CASE PollSkip(c) \/ PollVerify(c) \/ Arrive(c) \/ AnswerOrphan(c)
    BY <1>0, <1>1, SlotMoves DEF PollSkip, PollVerify, Arrive, AnswerOrphan
  <1>2. CASE AnswerCall(c)
    BY <1>0, <1>2 DEF AnswerCall, Return
  <1> QED  BY <1>1, <1>2 DEF CallStep

\* Weak fairness of a call's own steps and of the backend's steps for it, with the guards
\* above for what enables them.
CallServed(c) == []([]CanStep(c) => <><<CallStep(c)>>_vars)
RequestServed(r) == []([]CanRun(r) => <><<BackendStep(r)>>_vars)

Home(c) == step[c] = "rest"

LEMMA CallsAlwaysKnown == BrowserSpec => []CallsKnown
  BY CallsKnownInit, CallsKnownStep, PTL DEF BrowserSpec

\* The answer of a call that is on its way is received.
LEMMA ComesHome ==
  ASSUME NEW c \in Calls
  PROVE  BrowserSpec /\ CallServed(c) => (Ready(c) ~> Home(c))
  <1>1. CallsKnown /\ Ready(c) /\ [BrowserNext]_vars => Ready(c)' \/ Home(c)'
    BY OnItsWayStep DEF Ready, Home, Resting, Working
  <1>2. CallsKnown /\ Ready(c) /\ <<CallStep(c)>>_vars => Home(c)'
    BY OwnStep DEF Ready, OnItsWay, Home
  <1>3. Ready(c) => CanStep(c)
    BY DEF Ready, OnItsWay, CanStep, Answered
  <1> QED  BY <1>1, <1>2, <1>3, CallsAlwaysKnown, PTL DEF BrowserSpec, CallServed

\* The backend leaves a request at no label, and the work of a request ends: the labels
\* it may be at, from the last ones back to the first.
LEMMA WorkEnds ==
  ASSUME NEW c \in Calls
  PROVE  BrowserSpec /\ RequestServed(c) => (OnItsWay(c) ~> Ready(c))
  <1> DEFINE Answer == Ready(c)
             Last == OnItsWay(c) /\ pc[c] \in {"touch", "revokeFamily", "revokeAll"}
             Inserting == OnItsWay(c) /\ pc[c] \in {"insert", "revoke"}
             Superseding == OnItsWay(c) /\ pc[c] \in {"supersede"}
             Rechecking == OnItsWay(c) /\ pc[c] \in {"recheck"}
             Resolving == OnItsWay(c) /\ pc[c] \in {"resolve"}
             Finding == OnItsWay(c) /\ pc[c] \in {"family"}
  <1>0. c \in Requests
    BY BrowserAssumption
  <1>s. CallsKnown /\ OnItsWay(c) /\ [BrowserNext]_vars =>
          \/ OnItsWay(c)' /\ pc'[c] = pc[c]
          \/ pc[c] \in Resting
          \/ OnItsWay(c)' /\ pc'[c] \in Resting \cup Ahead(pc[c])
    BY OnItsWayStep
  <1>b. CallsKnown /\ OnItsWay(c) /\ <<BackendStep(c)>>_vars =>
          OnItsWay(c)' /\ pc'[c] \in Resting \cup Ahead(pc[c])
    BY OnItsWayRun
  <1>c. CallsKnown /\ OnItsWay(c) /\ pc[c] \in Working => CanRun(c)
    BY <1>0, WorkingCanRun
  <1>1. /\ CallsKnown /\ Last /\ [BrowserNext]_vars => Last' \/ Answer'
        /\ CallsKnown /\ Last /\ <<BackendStep(c)>>_vars => Answer'
        /\ CallsKnown /\ Last => CanRun(c)
    BY <1>s, <1>b, <1>c DEF Ready, Ahead, Resting, Working
  <1>2. /\ CallsKnown /\ Inserting /\ [BrowserNext]_vars => Inserting' \/ (Last \/ Answer)'
        /\ CallsKnown /\ Inserting /\ <<BackendStep(c)>>_vars => (Last \/ Answer)'
        /\ CallsKnown /\ Inserting => CanRun(c)
    BY <1>s, <1>b, <1>c DEF Ready, Ahead, Resting, Working
  <1>3. /\ CallsKnown /\ Superseding /\ [BrowserNext]_vars => Superseding' \/ (Inserting \/ Last \/ Answer)'
        /\ CallsKnown /\ Superseding /\ <<BackendStep(c)>>_vars => (Inserting \/ Last \/ Answer)'
        /\ CallsKnown /\ Superseding => CanRun(c)
    BY <1>s, <1>b, <1>c DEF Ready, Ahead, Resting, Working
  <1>4. /\ CallsKnown /\ Rechecking /\ [BrowserNext]_vars => Rechecking' \/ (Superseding \/ Inserting \/ Last \/ Answer)'
        /\ CallsKnown /\ Rechecking /\ <<BackendStep(c)>>_vars => (Superseding \/ Inserting \/ Last \/ Answer)'
        /\ CallsKnown /\ Rechecking => CanRun(c)
    BY <1>s, <1>b, <1>c DEF Ready, Ahead, Resting, Working
  <1>5. /\ CallsKnown /\ Resolving /\ [BrowserNext]_vars => Resolving' \/ (Rechecking \/ Superseding \/ Inserting \/ Last \/ Answer)'
        /\ CallsKnown /\ Resolving /\ <<BackendStep(c)>>_vars => (Rechecking \/ Superseding \/ Inserting \/ Last \/ Answer)'
        /\ CallsKnown /\ Resolving => CanRun(c)
    BY <1>s, <1>b, <1>c DEF Ready, Ahead, Resting, Working
  <1>6. /\ CallsKnown /\ Finding /\ [BrowserNext]_vars => Finding' \/ (Resolving \/ Rechecking \/ Superseding \/ Inserting \/ Last \/ Answer)'
        /\ CallsKnown /\ Finding /\ <<BackendStep(c)>>_vars => (Resolving \/ Rechecking \/ Superseding \/ Inserting \/ Last \/ Answer)'
        /\ CallsKnown /\ Finding => CanRun(c)
    BY <1>s, <1>b, <1>c DEF Ready, Ahead, Resting, Working
  <1>7. CallsKnown /\ OnItsWay(c) => Answer \/ Last \/ Inserting \/ Superseding \/ Rechecking \/ Resolving \/ Finding
    BY <1>0 DEF CallsKnown, BrowserTypeOK, TypeOK, Ready, Resting, Working
  <1> HIDE DEF Answer, Last, Inserting, Superseding, Rechecking, Resolving, Finding
  <1>8. BrowserSpec /\ RequestServed(c) => (OnItsWay(c) ~> Answer)
    BY <1>1, <1>2, <1>3, <1>4, <1>5, <1>6, <1>7, CallsAlwaysKnown, PTL
       DEF BrowserSpec, RequestServed
  <1> QED  BY <1>8, PTL DEF Answer

\* A call whose request was sent gets there, though its tab may go away first.
LEMMA SentComesHome ==
  ASSUME NEW c \in Calls
  PROVE  BrowserSpec /\ CallServed(c) /\ RequestServed(c)
         => (step[c] \in {"sent", "busy", "orphan"} ~> Home(c))
  <1> DEFINE Sent == step[c] = "sent"
             Under == OnItsWay(c)
             Back == Home(c)
             Some == step[c] \in {"sent", "busy", "orphan"}
  <1>1. CallsKnown /\ Sent /\ [BrowserNext]_vars => Sent' \/ Under' \/ Back'
    BY SentStep DEF OnItsWay, Home
  <1>2. CallsKnown /\ Sent /\ <<CallStep(c)>>_vars => Under'
    BY OwnStep DEF OnItsWay
  <1>3. CallsKnown /\ Sent => CanStep(c)
    BY BrowserAssumption DEF CallsKnown, SlotsKnown, SendsIssued, CanStep, Answered
  <1>4. Some <=> Sent \/ Under
    BY DEF OnItsWay
  <1>5. BrowserSpec /\ CallServed(c) => (Ready(c) ~> Back)
    BY ComesHome
  <1>6. BrowserSpec /\ RequestServed(c) => (Under ~> Ready(c))
    BY WorkEnds
  <1> HIDE DEF Sent, Under, Back, Some
  <1>7. BrowserSpec /\ CallServed(c) /\ RequestServed(c) => (Some ~> Back)
    BY <1>1, <1>2, <1>3, <1>4, <1>5, <1>6, CallsAlwaysKnown, PTL DEF BrowserSpec, CallServed
  <1> QED  BY <1>7, PTL DEF Some, Back

LEMMA LateStays ==
  ASSUME now = MaxTime, [BrowserNext]_vars, BrowserTypeOK
  PROVE  now' = MaxTime
  <1>1. [Next]_sessionVars
    BY BrowserSteps DEF BrowserTypeOK, vars
  <1>2. ~Tick
    BY SessionAssumption DEF Tick
  <1> QED
    BY <1>1, <1>2, RequestsAsk
       DEF Next, Heartbeat, LoginStart, Asking, SessionActive, FindRevoked, TurnAway, Proceed,
           ReadFamily, Resolve, Recheck, Supersede, Insert, TouchSession, RevokeFamily,
           RevokeSession, RevokeAllForUser, GoWrong, ReadFamilyFails, RecheckFails,
           SupersedeFails, InsertFails, UpdateFails, LogoutCaught, Abort, sessionVars

\* A call that is under way or waits for another tab comes back, if it and its request are
\* served and time passes: whatever fails, whoever holds the lock and whichever tab is closed.
\* (coordinatedRefreshSession, waitForPeerRefresh)
THEOREM CallsComeBack ==
  ASSUME NEW c \in Calls, AskUntil + LockStale <= MaxTime
  PROVE  BrowserSpec /\ CallServed(c) /\ RequestServed(c) /\ <>(now = MaxTime)
         => (step[c] \in {"waiting", "sent", "busy", "orphan"} ~> step[c] = "rest")
  <1> DEFINE Waits == step[c] = "waiting"
             Some == step[c] \in {"sent", "busy", "orphan"}
             Any == step[c] \in {"waiting", "sent", "busy", "orphan"}
             Back == Home(c)
             Late == now = MaxTime
  <1>1. CallsKnown /\ Waits /\ [BrowserNext]_vars => Waits' \/ Some' \/ Back'
    BY WaitStep DEF Home
  <1>2. CallsKnown /\ Waits /\ <<CallStep(c)>>_vars => Some' \/ Back'
    BY OwnStep DEF Home
  <1>3. CallsKnown /\ Waits /\ Late => CanStep(c)
    <2> SUFFICES ASSUME CallsKnown, Waits, Late PROVE CanStep(c)
      OBVIOUS
    <2>1. deadline[c] <= AskUntil + LockStale
      BY DEF CallsKnown, Attended
    <2>2. deadline[c] \in Int /\ AskUntil \in Int /\ LockStale \in Int /\ MaxTime \in Int
      BY BrowserAssumption, SessionAssumption DEF CallsKnown, BrowserTypeOK, Times
    <2> QED  BY <2>1, <2>2 DEF CanStep, Due
  <1>4. CallsKnown /\ Late /\ [BrowserNext]_vars => Late'
    BY LateStays DEF CallsKnown
  <1>5. Any <=> Waits \/ Some
    OBVIOUS
  <1>6. BrowserSpec /\ CallServed(c) /\ RequestServed(c) => (Some ~> Back)
    BY SentComesHome
  <1> HIDE DEF Waits, Some, Any, Back, Late
  <1>7. BrowserSpec /\ CallServed(c) /\ RequestServed(c) /\ <>Late => (Any ~> Back)
    BY <1>1, <1>2, <1>3, <1>4, <1>5, <1>6, CallsAlwaysKnown, PTL DEF BrowserSpec, CallServed
  <1> QED  BY <1>7, PTL DEF Any, Back, Late, Home

\* A call that joined the one its tab had in flight stays with that one until it rests.
LEMMA JoinedStep ==
  ASSUME CallsKnown, NEW c \in Calls, NEW e \in Calls, [BrowserNext]_vars,
         step[c] = "joined", flight[TabOf[c]] = e
  PROVE  step'[c] = "rest" \/ (step'[c] = "joined" /\ flight'[TabOf[c]] = e)
  <1>0. /\ c \in Requests /\ e \in Requests /\ TabOf[c] \in Tabs /\ TabOf[e] = TabOf[c]
        /\ BrowserTypeOK /\ e # NoCall /\ SlotsKnown
    BY BrowserAssumption DEF CallsKnown, Attended
  <1>1. step'[c] \in {"joined", "rest"}
    <2>1. Idles(c) => step'[c] \in {"joined", "rest"}
      BY DEF Idles
    <2>2. Moves(c) => step'[c] \in {"joined", "rest"}
      BY DEF Moves, Begins, Verifies, Lands, Runs, Ends, browserVars
    <2> QED  BY <1>0, <2>1, <2>2, BrowserMoves
  <1>2. CASE UNCHANGED flight
    BY <1>1, <1>2
  <1>3. ASSUME NEW x \in Calls, Acquire(x)
        PROVE  flight'[TabOf[c]] = e
    BY <1>0, <1>3 DEF Acquire, BrowserTypeOK
  <1>4. ASSUME NEW x \in Calls, NEW ok, Return(x, "busy", ok)
        PROVE  step'[c] = "rest" \/ flight'[TabOf[c]] = e
    <2>1. CASE x = e
      BY <1>0, <1>4, <2>1 DEF Return
    <2>2. CASE x # e
      <3>1. flight[TabOf[x]] = x => TabOf[x] # TabOf[c]
        BY <2>2
      <3> QED  BY <1>0, <1>4, <3>1 DEF Return, BrowserTypeOK
    <2> QED  BY <2>1, <2>2
  <1>5. ASSUME NEW t \in Tabs, CloseTab(t)
        PROVE  step'[c] = "rest" \/ flight'[TabOf[c]] = e
    BY <1>0, <1>5 DEF CloseTab, BrowserTypeOK
  <1>6. CASE \/ Clock \/ UNCHANGED vars
             \/ \E r \in Requests : BackendStep(r) \/ (GoWrong(r) /\ UNCHANGED browserVars)
             \/ \E d \in Data : SendData(d) \/ DataStep(d)
             \/ \E l \in Logouts : SendLogout(l) \/ LogoutStep(l)
             \/ \E r \in Data \cup Logouts : LoseReply(r)
    <2>1. UNCHANGED flight
      BY <1>6
         DEF Clock, vars, browserVars, BackendStep, SendData, DataStep, Forward, RefreshOnServer,
             DataServed, DataRenewed, SendLogout, LogoutStep, ArriveLogout, AnswerLogout, LoseReply
    <2> QED  BY <1>2, <2>1
  <1>7. CASE \E x \in Calls : Join(x) \/ Wait(x) \/ Acquire(x) \/ CallStep(x) \/ LoseAnswer(x)
    <2>1. PICK x \in Calls : Join(x) \/ Wait(x) \/ Acquire(x) \/ CallStep(x) \/ LoseAnswer(x)
      BY <1>7
    <2>2. CASE \/ Join(x) \/ Wait(x) \/ PollSkip(x) \/ PollVerify(x) \/ Arrive(x)
               \/ AnswerOrphan(x)
      BY <1>2, <2>2 DEF Join, Wait, PollSkip, PollVerify, Arrive, AnswerOrphan
    <2>3. CASE AnswerCall(x) \/ LoseAnswer(x)
      BY <1>1, <1>4, <2>3 DEF AnswerCall, LoseAnswer
    <2> QED  BY <1>1, <1>3, <2>1, <2>2, <2>3 DEF CallStep
  <1> QED  BY <1>1, <1>5, <1>6, <1>7 DEF BrowserNext

\* And a call that joined comes back when that one is served.
\* (coordinatedRefreshSession: inMemoryRefresh)
THEOREM JoinedComeBack ==
  ASSUME NEW c \in Calls, NEW j \in Calls
  PROVE  BrowserSpec /\ CallServed(c) /\ RequestServed(c)
         => (step[j] = "joined" /\ flight[TabOf[j]] = c ~> step[j] = "rest")
  <1> DEFINE With == step[j] = "joined" /\ flight[TabOf[j]] = c
             Some == step[c] \in {"sent", "busy", "orphan"}
             Back == step[j] = "rest"
  <1>1. CallsKnown /\ With /\ [BrowserNext]_vars => With' \/ Back'
    BY JoinedStep
  <1>2. CallsKnown /\ With => Some
    BY BrowserAssumption DEF CallsKnown, Attended
  <1>3. Some => ~Home(c)
    BY DEF Home
  <1>4. BrowserSpec /\ CallServed(c) /\ RequestServed(c) => (Some ~> Home(c))
    BY SentComesHome
  <1> HIDE DEF With, Some, Back
  <1>5. BrowserSpec /\ CallServed(c) /\ RequestServed(c) => (With ~> Back)
    BY <1>1, <1>2, <1>3, <1>4, CallsAlwaysKnown, PTL DEF BrowserSpec
  <1> QED  BY <1>5, PTL DEF With, Back

OneCallPerTab == \A c, e \in Calls : TabOf[c] = TabOf[e] => c = e

\* Where each tab has one call at a time, that is CallsReturn.
THEOREM CallsAllReturn ==
  ASSUME OneCallPerTab, AskUntil + LockStale <= MaxTime
  PROVE  /\ BrowserSpec /\ <>(now = MaxTime)
         /\ \A c \in Calls : CallServed(c) /\ RequestServed(c)
         => CallsReturn
  <1> SUFFICES ASSUME NEW c \in Calls
               PROVE  /\ BrowserSpec /\ <>(now = MaxTime)
                      /\ \A e \in Calls : CallServed(e) /\ RequestServed(e)
                      => (step[c] # "rest" ~> step[c] = "rest")
    BY DEF CallsReturn
  <1>1. CallsKnown => (step[c] # "rest" => step[c] \in {"waiting", "sent", "busy", "orphan"})
    <2> SUFFICES ASSUME CallsKnown, step[c] # "rest"
                 PROVE  step[c] \in {"waiting", "sent", "busy", "orphan"}
      OBVIOUS
    <2>1. step[c] \in Steps /\ step[c] # "renewing"
      BY BrowserAssumption DEF CallsKnown, BrowserTypeOK, SlotsKnown
    <2>2. step[c] # "joined"
      <3>1. SUFFICES ASSUME step[c] = "joined" PROVE FALSE
        OBVIOUS
      <3>2. TabOf[c] \in Tabs /\ flight[TabOf[c]] \in Calls /\ TabOf[flight[TabOf[c]]] = TabOf[c]
            /\ step[flight[TabOf[c]]] \in {"sent", "busy"}
        BY <3>1, BrowserAssumption DEF CallsKnown, BrowserTypeOK, Attended
      <3> QED  BY <3>1, <3>2 DEF OneCallPerTab
    <2> QED  BY <2>1, <2>2 DEF Steps
  <1>2. BrowserSpec /\ CallServed(c) /\ RequestServed(c) /\ <>(now = MaxTime)
         => (step[c] \in {"waiting", "sent", "busy", "orphan"} ~> step[c] = "rest")
    BY CallsComeBack
  <1>3. (\A e \in Calls : CallServed(e) /\ RequestServed(e)) => CallServed(c) /\ RequestServed(c)
    OBVIOUS
  <1> QED  BY <1>1, <1>2, <1>3, CallsAlwaysKnown, PTL
===============================================================================
