-------------------------- MODULE StaffLessonsProofs --------------------------
(* What StaffLessons promises, for any staff, roles, ownership, requests and   *)
(* number of threads.  The invariant says of every request what it has found   *)
(* out so far (Own), that a request that is alone has the session for itself   *)
(* (AloneOwn), and that none of that is disturbed by another (QuietPreserves). *)
(* There is a lemma "...Kept" for each step of a request; the properties are   *)
(* read off the invariant.                                                     *)
EXTENDS StaffLessons, TLAPS

Views == {"ViewProfile", "EditProfile", "CreateProfile"}

(* A request that is alone has the session, and the parser, for itself. *)
AloneOwn(t) ==
  job[t].alone =>
    /\ Runs(t) /\ params = job[t].req
    /\ \A u \in Thread : Runs(u) => u = t

(* In cross site scripting whoever holds a script has read it from a row that  *)
(* had one from the start, or got one from another lesson.                     *)
ScriptOwn(t) ==
  lesson = "css" /\ job[t].at \in {"keep", "status"} /\ job[t].mark
    => job[t].got \in Scripted \cup outside

(* What a request has fetched is what it looked up, and what it has kept is    *)
(* still there if it is alone.                                                 *)
ShownOwn(t) ==
  /\ job[t].at \in {"credentials", "user"} => job[t].now = "Login"
  /\ job[t].at = "act" /\ job[t].now \in Views => job[t].subject \in Employee
  /\ job[t].at = "keep" => job[t].got \in {job[t].subject, NoOne}
  /\ job[t].alone /\ job[t].at \in {"status", "rebuild", "page"} /\ job[t].now \in Views
       => profile \in {job[t].subject, NoOne}

(* What authorization has found out about a request that is alone is true of   *)
(* the handlers that write.                                                    *)
RoleOwn(t) ==
  lesson = "role" /\ job[t].alone =>
    /\ job[t].at \in {"defend", "authorize"} => job[t].now = job[t].req.action
    /\ job[t].at = "authorize" => job[t].asked = job[t].req.action /\ job[t].me = user
    /\ job[t].at \in {"enter", "check", "act"} /\ job[t].now \in {"UpdateProfile", "DeleteProfile"}
         => <<RoleOf[user], job[t].req.action>> \in Auth
    /\ job[t].at \in {"check", "act"} /\ job[t].now = "DeleteProfile" => job[t].me = user
    /\ job[t].at = "act" => auth /\ user \in Employee

(* On the error page no handler but Login is at work. *)
ErrorOwn(t) ==
  lesson = "role" /\ page = "error" /\ job[t].alone /\ job[t].req.action # "Login"
    => job[t].at \in {"dispatch", "defend", "authorize", "refused"}

(* While requests come one after the other, there is a login wherever a page   *)
(* of a logged in user is shown, or about to be.                               *)
SerialOwn(t) == ~mixed /\ Runs(t) => \A u \in Thread : Runs(u) => u = t

LoginOwn(t) ==
  ~mixed =>
    /\ job[t].at \in {"check", "act", "keep", "status", "rebuild", "user"} => auth
    /\ job[t].at = "enter" /\ job[t].now \notin {"Login", "Logout"} => auth
    /\ job[t].at = "credentials" => page = "Login"
    /\ job[t].at \in {"dispatch", "defend", "authorize", "page", "refused"}
         /\ page \in Functions => auth

Own(t) == ScriptOwn(t) /\ ShownOwn(t) /\ RoleOwn(t) /\ ErrorOwn(t) /\ LoginOwn(t)

RowInv ==
  lesson = "css" => \A e \in Employee : row[e] = "script" => e \in Scripted \cup outside

StaffInv ==
  /\ TypeOK
  /\ RowInv
  /\ PageNeedsLogin
  /\ \A t \in Thread : AloneOwn(t) /\ SerialOwn(t) /\ Own(t)

-------------------------------------------------------------------------------
(* The steps of a request between its begin and its end: they change the job   *)
(* of that request only, and neither the lesson, nor the parser, nor what is   *)
(* counted and recorded.                                                       *)
Quiet(t) ==
  /\ Runs(t) /\ job'[t].at # "idle"
  /\ job' \in [Thread -> JobType]
  /\ job'[t].req = job[t].req /\ job'[t].alone = job[t].alone
  /\ \A u \in Thread : u # t => job'[u] = job[u]
  /\ UNCHANGED <<lesson, params, history>>

(* The variables a step may change besides, and what becomes of the job. *)
LEMMA MovesFields ==
  ASSUME TypeOK, NEW t \in Thread, NEW j \in JobType, Moves(t, j)
  PROVE  /\ job' \in [Thread -> JobType] /\ job'[t] = j
         /\ \A u \in Thread : u # t => job'[u] = job[u]
BY DEF TypeOK, Moves

LEMMA JobFields ==
  ASSUME NEW j \in JobType
  PROVE  /\ j.at \in {"idle", "dispatch", "defend", "authorize", "enter", "credentials",
                      "user", "check", "act", "keep", "status", "rebuild", "page", "refused"}
         /\ j.now \in Action /\ j.asked \in Action \cup {"unknown"}
         /\ j.req \in Requests \cup {Request0}
         /\ j.me \in Ids /\ j.subject \in Ids /\ j.got \in Ids
         /\ j.mark \in BOOLEAN /\ j.alone \in BOOLEAN
BY DEF JobType

(* The job after the step, but for what is given. *)
Only(t, at, now) ==
  /\ job'[t].at = at /\ job'[t].now = now
  /\ job'[t].req = job[t].req /\ job'[t].alone = job[t].alone

(* Goes, Chain and Handle. *)
LEMMA GoesFields ==
  ASSUME TypeOK, NEW t \in Thread, NEW at \in {"enter", "credentials", "check", "act", "keep",
           "status", "rebuild", "page", "refused"}, Goes(t, at)
  PROVE  /\ job' \in [Thread -> JobType]
         /\ \A u \in Thread : u # t => job'[u] = job[u]
         /\ Only(t, at, job[t].now)
         /\ job'[t].me = job[t].me /\ job'[t].subject = job[t].subject
         /\ job'[t].got = job[t].got /\ job'[t].mark = job[t].mark
<1> DEFINE j == [job[t] EXCEPT !.at = at]
<1>1. job[t] \in JobType
  BY DEF TypeOK
<1>2. /\ j \in JobType /\ j.at = at /\ j.now = job[t].now /\ j.req = job[t].req
      /\ j.alone = job[t].alone /\ j.me = job[t].me /\ j.subject = job[t].subject
      /\ j.got = job[t].got /\ j.mark = job[t].mark
  BY <1>1 DEF JobType
<1>3. Moves(t, j)
  BY DEF Goes
<1> HIDE DEF j
<1> QED
  BY <1>2, <1>3, MovesFields DEF Only

(* A step of one request disturbs no other: a request that is alone, and one   *)
(* while requests come one after the other, has nobody beside it.              *)
LEMMA QuietPreserves ==
  ASSUME StaffInv, NEW t \in Thread, Quiet(t), TypeOK', RowInv', Own(t)'
  PROVE  StaffInv'
<1>1. PageNeedsLogin'
  BY DEF Quiet, PageNeedsLogin, Runs
<1>2. ASSUME NEW u \in Thread PROVE AloneOwn(u)' /\ SerialOwn(u)'
  BY <1>2 DEF StaffInv, Quiet, AloneOwn, SerialOwn, Runs, history
<1>3. ASSUME NEW u \in Thread PROVE Own(u)'
  <2>1. CASE u = t
    BY <2>1
  <2>2. CASE u # t
    <3>1. job'[u] = job[u] /\ lesson' = lesson /\ mixed' = mixed /\ outside' = outside
      BY <2>2 DEF Quiet, history
    <3>2. ~job[u].alone
      BY <2>2 DEF StaffInv, Quiet, AloneOwn
    <3>3. ~mixed => ~Runs(u)
      BY <2>2 DEF StaffInv, Quiet, SerialOwn
    <3>4. ScriptOwn(u) /\ ShownOwn(u)
      BY DEF StaffInv, Own
    <3>5. ScriptOwn(u)' /\ ShownOwn(u)'
      BY <3>1, <3>2, <3>4 DEF ScriptOwn, ShownOwn
    <3>6. RoleOwn(u)' /\ ErrorOwn(u)'
      BY <3>1, <3>2 DEF RoleOwn, ErrorOwn
    <3>7. LoginOwn(u)'
      BY <3>1, <3>3 DEF LoginOwn, Runs
    <3> QED
      BY <3>5, <3>6, <3>7 DEF Own
  <2> QED
    BY <2>1, <2>2
<1> QED
  BY <1>1, <1>2, <1>3 DEF StaffInv

LEMMA ChainFields ==
  ASSUME TypeOK, NEW t \in Thread, NEW at \in {"enter", "check", "defend"}, NEW a \in Action,
         Moves(t, [job[t] EXCEPT !.at = at, !.now = a])
  PROVE  /\ job' \in [Thread -> JobType]
         /\ \A u \in Thread : u # t => job'[u] = job[u]
         /\ Only(t, at, a)
         /\ job'[t].subject = job[t].subject
<1> DEFINE j == [job[t] EXCEPT !.at = at, !.now = a]
<1>1. job[t] \in JobType
  BY DEF TypeOK
<1>2. /\ j \in JobType /\ j.at = at /\ j.now = a /\ j.req = job[t].req
      /\ j.alone = job[t].alone /\ j.subject = job[t].subject
  BY <1>1 DEF JobType
<1>3. Moves(t, j)
  OBVIOUS
<1> HIDE DEF j
<1> QED
  BY <1>2, <1>3, MovesFields DEF Only

-------------------------------------------------------------------------------
(* What every step of a request is shown to do. *)
Kept(t) == Quiet(t) /\ TypeOK' /\ RowInv' /\ Own(t)'

(* The steps that end the work of a request, and the two ways to a handler. *)
LEMMA ErrorKept ==
  ASSUME StaffInv, NEW t \in Thread, Runs(t), Error(t),
         UNCHANGED <<lesson, params, database, completed, history>>
  PROVE  Kept(t)
<1>1. TypeOK /\ RowInv
  BY DEF StaffInv
<1>2. /\ job' \in [Thread -> JobType] /\ Only(t, "refused", job[t].now)
      /\ \A u \in Thread : u # t => job'[u] = job[u]
  BY <1>1, GoesFields DEF Error
<1>3. Quiet(t)
  BY <1>2 DEF Quiet, Only
<1>4. TypeOK'
  BY <1>1, <1>2 DEF TypeOK, Error, Page, history, counts, database
<1>5. RowInv'
  BY <1>1 DEF RowInv, database, history
<1>6. Own(t)'
  BY <1>2 DEF Error, Own, Only, ScriptOwn, ShownOwn, RoleOwn, ErrorOwn, LoginOwn, Functions
<1> QED
  BY <1>3, <1>4, <1>5, <1>6 DEF Kept

LEMMA RefusedKept ==
  ASSUME StaffInv, NEW t \in Thread, Runs(t), Goes(t, "refused"),
         ~mixed /\ page \in Functions => auth,
         UNCHANGED <<lesson, session, params, database, completed, history>>
  PROVE  Kept(t)
<1>1. TypeOK /\ RowInv
  BY DEF StaffInv
<1>2. /\ job' \in [Thread -> JobType] /\ Only(t, "refused", job[t].now)
      /\ \A u \in Thread : u # t => job'[u] = job[u]
  BY <1>1, GoesFields
<1>3. Quiet(t)
  BY <1>2 DEF Quiet, Only
<1>4. TypeOK'
  BY <1>1, <1>2 DEF TypeOK, session, history, counts, database
<1>5. RowInv'
  BY <1>1 DEF RowInv, database, history
<1>6. Own(t)'
  BY <1>2 DEF Own, Only, ScriptOwn, ShownOwn, RoleOwn, ErrorOwn, LoginOwn, session, history
<1> QED
  BY <1>3, <1>4, <1>5, <1>6 DEF Kept

LEMMA HandleKept ==
  ASSUME StaffInv, NEW t \in Thread, Runs(t), NEW a \in Action, Handle(t, a),
         ~mixed /\ a \notin {"Login", "Logout"} => auth,
         lesson = "role" /\ job[t].alone /\ job[t].req.action # "Login" => page # "error",
         lesson = "role" /\ job[t].alone /\ a \in {"UpdateProfile", "DeleteProfile"}
           => <<RoleOf[user], job[t].req.action>> \in Auth,
         UNCHANGED <<lesson, session, params, database, completed, history>>
  PROVE  Kept(t)
<1>1. TypeOK /\ RowInv
  BY DEF StaffInv
<1> DEFINE first == IF a \in {"FindProfile", "UpdateProfile"} THEN "check" ELSE "enter"
<1>2. /\ job' \in [Thread -> JobType] /\ Only(t, first, a)
      /\ \A u \in Thread : u # t => job'[u] = job[u]
  <2>1. first \in {"enter", "check", "defend"} /\ Moves(t, [job[t] EXCEPT !.at = first, !.now = a])
    BY DEF Handle
  <2> QED
    BY <1>1, <2>1, ChainFields
<1>3. Quiet(t)
  BY <1>2 DEF Quiet, Only
<1>4. TypeOK'
  BY <1>1, <1>2 DEF TypeOK, session, history, counts, database
<1>5. RowInv'
  BY <1>1 DEF RowInv, database, history
<1>6. ScriptOwn(t)' /\ ShownOwn(t)'
  BY <1>2 DEF Only, ScriptOwn, ShownOwn
<1>7. RoleOwn(t)' /\ ErrorOwn(t)'
  BY <1>2 DEF Only, RoleOwn, ErrorOwn, session
<1>8. LoginOwn(t)'
  BY <1>2 DEF Only, LoginOwn, session, history
<1> QED
  BY <1>3, <1>4, <1>5, <1>6, <1>7, <1>8 DEF Kept, Own

-------------------------------------------------------------------------------
(* The dispatchers, and the authorization. *)
LEMMA DispatchKept ==
  ASSUME StaffInv, NEW t \in Thread, Dispatch(t)
  PROVE  Kept(t)
<1>1. /\ TypeOK /\ RowInv /\ Own(t) /\ AloneOwn(t)
      /\ job[t].at = "dispatch" /\ Runs(t)
  BY DEF StaffInv, Dispatch, DispatchUnknown, DispatchLogin, DispatchPlain, DispatchRole, Runs
<1>2. CASE DispatchUnknown(t)
  BY <1>1, <1>2, ErrorKept DEF DispatchUnknown
<1>3. CASE DispatchLogin(t)
  <2>1. job[t].alone => job[t].req.action = "Login"
    BY <1>1, <1>3 DEF AloneOwn, DispatchLogin
  <2> QED
    BY <1>1, <1>3, <2>1, HandleKept DEF DispatchLogin, Action
<1>4. CASE DispatchPlain(t)
  <2>1. params.action \in Action
    BY <1>4 DEF DispatchPlain, Registered
  <2>2. CASE auth
    BY <1>1, <1>4, <2>1, <2>2, HandleKept DEF DispatchPlain
  <2>3. CASE ~auth
    BY <1>1, <1>4, <2>3, RefusedKept DEF DispatchPlain, Own, LoginOwn
  <2> QED
    BY <2>2, <2>3
<1>5. CASE DispatchRole(t)
  <2> DEFINE j == [job[t] EXCEPT !.at = "defend", !.now = params.action]
  <2>1. params.action \in Action
    BY <1>5 DEF DispatchRole, Registered
  <2>2. /\ job' \in [Thread -> JobType] /\ Only(t, "defend", params.action)
        /\ \A u \in Thread : u # t => job'[u] = job[u]
    BY <1>1, <1>5, <2>1, ChainFields DEF DispatchRole
  <2>3. Quiet(t)
    BY <1>1, <1>5, <2>2 DEF Quiet, Only, DispatchRole
  <2>4. TypeOK' /\ RowInv'
    BY <1>1, <1>5, <2>2 DEF TypeOK, RowInv, DispatchRole, session, history, counts, database
  <2>5. ScriptOwn(t)' /\ ShownOwn(t)' /\ ErrorOwn(t)'
    BY <2>2 DEF Only, ScriptOwn, ShownOwn, ErrorOwn
  <2>6. RoleOwn(t)'
    BY <1>1, <1>5, <2>2 DEF Only, RoleOwn, AloneOwn, DispatchRole
  <2>7. LoginOwn(t)'
    BY <1>1, <1>5, <2>2 DEF Only, Own, LoginOwn, DispatchRole, session, history
  <2> QED
    BY <2>3, <2>4, <2>5, <2>6, <2>7 DEF Kept, Own
<1> QED
  BY <1>2, <1>3, <1>4, <1>5 DEF Dispatch

LEMMA DefendKept ==
  ASSUME StaffInv, NEW t \in Thread, Defend(t)
  PROVE  Kept(t)
<1>1. /\ TypeOK /\ RowInv /\ Own(t) /\ AloneOwn(t)
      /\ job[t].at = "defend" /\ Runs(t) /\ job[t] \in JobType
  BY DEF StaffInv, Defend, Runs, TypeOK
<1>2. CASE Error(t)
  BY <1>1, <1>2, ErrorKept DEF Defend
<1>3. CASE ~Error(t)
  <2> DEFINE j == [job[t] EXCEPT !.at = "authorize", !.asked = params.action, !.me = user]
  <2>1. /\ HasCurrent /\ Moves(t, j) /\ UNCHANGED session
        /\ UNCHANGED <<lesson, params, database, completed, history>>
    BY <1>3 DEF Defend
  <2>2. params.action \in Action \cup {"unknown"} /\ user \in Ids
    BY <1>1, StaffAssumption DEF TypeOK, Request0, Request, Action
  <2>3. /\ j \in JobType /\ j.at = "authorize" /\ j.now = job[t].now /\ j.req = job[t].req
        /\ j.alone = job[t].alone /\ j.asked = params.action /\ j.me = user
    BY <1>1, <2>2 DEF JobType
  <2> HIDE DEF j
  <2>4. /\ job' \in [Thread -> JobType] /\ Only(t, "authorize", job[t].now)
        /\ \A u \in Thread : u # t => job'[u] = job[u]
        /\ job'[t].asked = params.action /\ job'[t].me = user
    BY <1>1, <2>1, <2>3, MovesFields DEF Only
  <2>5. Quiet(t)
    BY <1>1, <2>1, <2>4 DEF Quiet, Only
  <2>6. TypeOK' /\ RowInv'
    BY <1>1, <2>1, <2>4 DEF TypeOK, RowInv, session, history, counts, database
  <2>7. ScriptOwn(t)' /\ ShownOwn(t)' /\ ErrorOwn(t)'
    BY <2>4 DEF Only, ScriptOwn, ShownOwn, ErrorOwn
  <2>8. RoleOwn(t)'
    BY <1>1, <2>1, <2>4 DEF Only, Own, RoleOwn, AloneOwn, session
  <2>9. LoginOwn(t)'
    BY <1>1, <2>1, <2>4 DEF Only, Own, LoginOwn, session, history
  <2> QED
    BY <2>5, <2>6, <2>7, <2>8, <2>9 DEF Kept, Own
<1> QED
  BY <1>2, <1>3

LEMMA AuthorizeKept ==
  ASSUME StaffInv, NEW t \in Thread, Authorize(t)
  PROVE  Kept(t)
<1>1. /\ TypeOK /\ RowInv /\ Own(t) /\ AloneOwn(t)
      /\ job[t].at = "authorize" /\ Runs(t) /\ job[t] \in JobType
      /\ UNCHANGED <<lesson, params, database, completed, history>>
  BY DEF StaffInv, Authorize, Runs, TypeOK
<1>2. CASE ~HasCurrent /\ Error(t)
  BY <1>1, <1>2, ErrorKept
<1>3. CASE HasCurrent /\ UNCHANGED session /\ Goes(t, "refused")
  BY <1>1, <1>3, RefusedKept DEF Own, LoginOwn
<1>4. CASE HasCurrent /\ UNCHANGED session /\ Authorized(t) /\ auth /\ Handle(t, job[t].now)
  <2>1. page # "error"
    BY <1>4 DEF HasCurrent, Action, Functions
  <2>2. lesson = "role" /\ job[t].alone => <<RoleOf[user], job[t].req.action>> \in Auth
    BY <1>1, <1>4 DEF Authorized, Own, RoleOwn
  <2>3. job[t].now \in Action
    BY <1>1, JobFields
  <2> QED
    BY <1>1, <1>4, <2>1, <2>2, <2>3, HandleKept
<1> QED
  BY <1>2, <1>3, <1>4 DEF Authorize

-------------------------------------------------------------------------------
(* The handlers: their page, login and logout, and the check of the login. *)
LEMMA EnterKept ==
  ASSUME StaffInv, NEW t \in Thread, Enter(t)
  PROVE  Kept(t)
<1> DEFINE next == IF job[t].now = "Login" THEN "credentials" ELSE "check"
           j == [job[t] EXCEPT !.at = next, !.me = user]
<1>1. /\ TypeOK /\ RowInv /\ Own(t) /\ AloneOwn(t)
      /\ job[t].at = "enter" /\ job[t].now # "Logout" /\ Runs(t) /\ job[t] \in JobType
      /\ page' = job[t].now /\ Moves(t, j)
      /\ UNCHANGED <<lesson, auth, user, profile, params, database, completed, history>>
  BY DEF StaffInv, Enter, Runs, TypeOK
<1>2. user \in Ids /\ job[t].now \in Action
  BY <1>1, JobFields DEF TypeOK
<1>3. /\ j \in JobType /\ j.at = next /\ j.now = job[t].now /\ j.req = job[t].req
      /\ j.alone = job[t].alone /\ j.me = user
  BY <1>1, <1>2 DEF JobType
<1> HIDE DEF j
<1>4. /\ job' \in [Thread -> JobType] /\ Only(t, next, job[t].now) /\ job'[t].me = user
      /\ \A u \in Thread : u # t => job'[u] = job[u]
  BY <1>1, <1>3, MovesFields DEF Only
<1>5. Quiet(t)
  BY <1>1, <1>4 DEF Quiet, Only
<1>6. TypeOK' /\ RowInv'
  BY <1>1, <1>2, <1>4 DEF TypeOK, RowInv, Page, history, counts, database
<1>7. ScriptOwn(t)' /\ ShownOwn(t)' /\ ErrorOwn(t)'
  BY <1>1, <1>2, <1>4 DEF Only, ScriptOwn, ShownOwn, ErrorOwn, Action, Functions
<1>8. RoleOwn(t)'
  BY <1>1, <1>4 DEF Only, Own, RoleOwn
<1>9. LoginOwn(t)'
  BY <1>1, <1>4 DEF Only, Own, LoginOwn, history
<1> QED
  BY <1>5, <1>6, <1>7, <1>8, <1>9 DEF Kept, Own

LEMMA LogoutKept ==
  ASSUME StaffInv, NEW t \in Thread, Logout(t)
  PROVE  Kept(t)
<1>1. /\ TypeOK /\ RowInv /\ Own(t)
      /\ job[t].at = "enter" /\ Runs(t) /\ auth' = FALSE
      /\ UNCHANGED <<lesson, user, page, profile, params, database, completed, history>>
  BY DEF StaffInv, Logout, Runs
<1>2. /\ job' \in [Thread -> JobType] /\ Only(t, "enter", "Login")
      /\ \A u \in Thread : u # t => job'[u] = job[u]
  <2>1. "Login" \in Action
    BY DEF Action
  <2> QED
    BY <1>1, <2>1, ChainFields DEF Logout, Chain
<1>3. Quiet(t)
  BY <1>1, <1>2 DEF Quiet, Only
<1>4. TypeOK' /\ RowInv'
  BY <1>1, <1>2 DEF TypeOK, RowInv, history, counts, database
<1>5. Own(t)'
  BY <1>1, <1>2 DEF Only, Own, ScriptOwn, ShownOwn, RoleOwn, ErrorOwn, LoginOwn
<1> QED
  BY <1>3, <1>4, <1>5 DEF Kept

LEMMA CredentialsKept ==
  ASSUME StaffInv, NEW t \in Thread, NoCredentials(t) \/ TryLogin(t)
  PROVE  Kept(t)
<1>1. /\ TypeOK /\ RowInv /\ Own(t)
      /\ job[t].at = "credentials" /\ job[t].now = "Login" /\ Runs(t) /\ job[t] \in JobType
      /\ ~mixed => page = "Login"
      /\ UNCHANGED <<lesson, user, page, profile, params, database, completed, history>>
  BY DEF StaffInv, NoCredentials, TryLogin, Runs, TypeOK, Own, ShownOwn, LoginOwn
<1>2. CASE auth' \in BOOLEAN /\ Goes(t, "page")
  <2>1. /\ job' \in [Thread -> JobType] /\ Only(t, "page", "Login")
        /\ \A u \in Thread : u # t => job'[u] = job[u]
    BY <1>1, <1>2, GoesFields
  <2>2. Quiet(t)
    BY <1>1, <2>1 DEF Quiet, Only
  <2>3. TypeOK' /\ RowInv'
    BY <1>1, <1>2, <2>1 DEF TypeOK, RowInv, history, counts, database
  <2>4. Own(t)'
    BY <1>1, <2>1 DEF Only, Own, ScriptOwn, ShownOwn, RoleOwn, ErrorOwn, LoginOwn,
                      Views, history, Functions
  <2> QED
    BY <2>2, <2>3, <2>4 DEF Kept
<1>3. CASE /\ auth' = TRUE /\ params.id # NoOne
           /\ Moves(t, [job[t] EXCEPT !.at = "user", !.subject = params.id])
  <2> DEFINE j == [job[t] EXCEPT !.at = "user", !.subject = params.id]
  <2>1. params.id \in Ids
    BY <1>1, StaffAssumption DEF TypeOK, Request0, Request, Ids
  <2>2. /\ j \in JobType /\ j.at = "user" /\ j.now = "Login" /\ j.req = job[t].req
        /\ j.alone = job[t].alone
    BY <1>1, <2>1 DEF JobType
  <2>3. Moves(t, j)
    BY <1>3
  <2> HIDE DEF j
  <2>4. /\ job' \in [Thread -> JobType] /\ Only(t, "user", "Login")
        /\ \A u \in Thread : u # t => job'[u] = job[u]
    BY <1>1, <2>2, <2>3, MovesFields DEF Only
  <2>5. Quiet(t)
    BY <1>1, <2>4 DEF Quiet, Only
  <2>6. TypeOK' /\ RowInv'
    BY <1>1, <1>3, <2>4 DEF TypeOK, RowInv, history, counts, database
  <2>7. Own(t)'
    BY <1>1, <1>3, <2>4 DEF Only, Own, ScriptOwn, ShownOwn, RoleOwn, ErrorOwn, LoginOwn
  <2> QED
    BY <2>5, <2>6, <2>7 DEF Kept
<1>4. NoCredentials(t) => auth' \in BOOLEAN /\ Goes(t, "page")
  BY DEF NoCredentials
<1>5. TryLogin(t) => \/ auth' \in BOOLEAN /\ Goes(t, "page")
                     \/ /\ auth' = TRUE /\ params.id # NoOne
                        /\ Moves(t, [job[t] EXCEPT !.at = "user", !.subject = params.id])
  BY <1>1 DEF TryLogin, TypeOK
<1> QED
  BY <1>2, <1>3, <1>4, <1>5

LEMMA SetUserKept ==
  ASSUME StaffInv, NEW t \in Thread, SetUser(t)
  PROVE  Kept(t)
<1>1. /\ TypeOK /\ RowInv /\ Own(t)
      /\ job[t].at = "user" /\ job[t].now = "Login" /\ Runs(t) /\ job[t].subject \in Ids
      /\ user' = job[t].subject
      /\ UNCHANGED <<lesson, auth, page, profile, params, database, completed, history>>
  BY JobFields DEF StaffInv, SetUser, Runs, TypeOK, Own, ShownOwn
<1>2. CASE lesson = "sql"
  <2>1. /\ job' \in [Thread -> JobType] /\ Only(t, "status", "Login")
        /\ job'[t].mark = job[t].mark
        /\ \A u \in Thread : u # t => job'[u] = job[u]
    BY <1>1, <1>2, GoesFields DEF SetUser
  <2>2. Quiet(t)
    BY <1>1, <2>1 DEF Quiet, Only
  <2>3. TypeOK' /\ RowInv'
    BY <1>1, <2>1 DEF TypeOK, RowInv, history, counts, database
  <2>4. Own(t)'
    BY <1>1, <1>2, <2>1 DEF Only, Own, ScriptOwn, ShownOwn, RoleOwn, ErrorOwn, LoginOwn,
                            Views, history
  <2> QED
    BY <2>2, <2>3, <2>4 DEF Kept
<1>3. CASE lesson # "sql"
  <2>1. /\ job' \in [Thread -> JobType] /\ Only(t, "enter", "ListStaff")
        /\ \A u \in Thread : u # t => job'[u] = job[u]
    <3>1. "ListStaff" \in Action
      BY DEF Action, Functions
    <3> QED
      BY <1>1, <1>3, <3>1, ChainFields DEF SetUser, Chain
  <2>2. Quiet(t)
    BY <1>1, <2>1 DEF Quiet, Only
  <2>3. TypeOK' /\ RowInv'
    BY <1>1, <2>1 DEF TypeOK, RowInv, history, counts, database
  <2>4. Own(t)'
    BY <1>1, <2>1 DEF Only, Own, ScriptOwn, ShownOwn, RoleOwn, ErrorOwn, LoginOwn, history
  <2> QED
    BY <2>2, <2>3, <2>4 DEF Kept
<1> QED
  BY <1>2, <1>3

LEMMA CheckFailsKept ==
  ASSUME StaffInv, NEW t \in Thread, CheckFails(t)
  PROVE  Kept(t)
<1>1. job[t].at = "check" /\ Runs(t) /\ LoginOwn(t)
  BY DEF StaffInv, CheckFails, Runs, Own
<1>2. CASE Error(t)
  BY <1>1, <1>2, ErrorKept DEF CheckFails
<1>3. CASE ~auth /\ Goes(t, "refused") /\ UNCHANGED session
  BY <1>1, <1>3, RefusedKept DEF CheckFails, LoginOwn
<1> QED
  BY <1>2, <1>3 DEF CheckFails

LEMMA CheckKept ==
  ASSUME StaffInv, NEW t \in Thread, Check(t)
  PROVE  Kept(t)
<1>1. /\ TypeOK /\ RowInv /\ Own(t)
      /\ job[t].at = "check" /\ Runs(t) /\ auth /\ job[t] \in JobType
      /\ UNCHANGED <<lesson, session, params, database, completed, history>>
  BY DEF StaffInv, Check, Runs, TypeOK
<1>2. CASE job[t].now \in {"ListStaff", "SearchStaff"} /\ Goes(t, "page")
  <2>1. /\ job' \in [Thread -> JobType] /\ Only(t, "page", job[t].now)
        /\ \A u \in Thread : u # t => job'[u] = job[u]
    BY <1>1, <1>2, GoesFields
  <2>2. Quiet(t)
    BY <1>1, <2>1 DEF Quiet, Only
  <2>3. TypeOK' /\ RowInv'
    BY <1>1, <2>1 DEF TypeOK, RowInv, session, history, counts, database
  <2>4. Own(t)'
    BY <1>1, <1>2, <2>1 DEF Only, Own, ScriptOwn, ShownOwn, RoleOwn, ErrorOwn, LoginOwn,
                            Views, session, history
  <2> QED
    BY <2>2, <2>3, <2>4 DEF Kept
<1>3. ASSUME NEW subject \in Ids, NEW mark \in BOOLEAN,
             job[t].now \in Views => subject \in Employee,
             lesson = "role" /\ job[t].alone => user \in Employee,
             Moves(t, [job[t] EXCEPT !.at = "act", !.mark = mark, !.subject = subject])
      PROVE  Kept(t)
  <2> DEFINE j == [job[t] EXCEPT !.at = "act", !.mark = mark, !.subject = subject]
  <2>1. /\ j \in JobType /\ j.at = "act" /\ j.now = job[t].now /\ j.req = job[t].req
        /\ j.alone = job[t].alone /\ j.me = job[t].me /\ j.subject = subject
    BY <1>1 DEF JobType
  <2>2. Moves(t, j)
    BY <1>3
  <2> HIDE DEF j
  <2>3. /\ job' \in [Thread -> JobType] /\ Only(t, "act", job[t].now)
        /\ job'[t].me = job[t].me /\ job'[t].subject = subject
        /\ \A u \in Thread : u # t => job'[u] = job[u]
    BY <1>1, <2>1, <2>2, MovesFields DEF Only
  <2>4. Quiet(t)
    BY <1>1, <2>3 DEF Quiet, Only
  <2>5. TypeOK' /\ RowInv'
    BY <1>1, <2>3 DEF TypeOK, RowInv, session, history, counts, database
  <2>6. Own(t)'
    BY <1>1, <1>3, <2>3 DEF Only, Own, ScriptOwn, ShownOwn, RoleOwn, ErrorOwn, LoginOwn, session
  <2> QED
    BY <2>4, <2>5, <2>6 DEF Kept
<1>4. /\ params.id \in Ids /\ job[t].subject \in Ids
      /\ (IF params.id # NoOne THEN params.id ELSE job[t].subject) \in Ids
      /\ (Fields = "script") \in BOOLEAN
  BY <1>1, JobFields, StaffAssumption DEF TypeOK, Request0, Request, Ids
<1>5. ~Missing(t) /\ job[t].now \in Views
        => (IF params.id # NoOne THEN params.id ELSE job[t].subject) \in Employee
  BY <1>4 DEF Missing, Views, Ids
<1>6. ~Missing(t) /\ job[t].now # "SearchStaff" /\ lesson = "role" /\ job[t].alone
        => user \in Employee
  BY <1>1 DEF Missing, TypeOK, Ids, Own, RoleOwn
<1> QED
  BY <1>2, <1>3, <1>4, <1>5, <1>6 DEF Check

-------------------------------------------------------------------------------
(* The work of the handlers. *)
LEMMA ReadProfileKept ==
  ASSUME StaffInv, NEW t \in Thread, ReadProfile(t)
  PROVE  Kept(t)
<1>1. /\ TypeOK /\ RowInv /\ Own(t)
      /\ job[t].at = "act" /\ job[t].now \in Views /\ Runs(t) /\ job[t] \in JobType
      /\ job[t].subject \in Employee
      /\ UNCHANGED <<lesson, session, params, database, completed, history>>
  BY DEF StaffInv, ReadProfile, Runs, TypeOK, Own, ShownOwn, Views
<1>2. PICK found \in BOOLEAN :
        Moves(t, [job[t] EXCEPT !.at = "keep",
                    !.got = IF found THEN job[t].subject ELSE NoOne,
                    !.mark = (found /\ row[job[t].subject] = "script")])
  <2>1. PICK answers \in Answers :
          Moves(t, [job[t] EXCEPT !.at = "keep",
            !.got = IF answers /\ row[job[t].subject] # "gone" THEN job[t].subject ELSE NoOne,
            !.mark = (answers /\ row[job[t].subject] # "gone"
                        /\ row[job[t].subject] = "script")])
    BY DEF ReadProfile
  <2>2. (answers /\ row[job[t].subject] # "gone") \in BOOLEAN
    BY DEF Answers
  <2> QED
    BY <2>1, <2>2
<1> DEFINE got  == IF found THEN job[t].subject ELSE NoOne
           mark == found /\ row[job[t].subject] = "script"
           j    == [job[t] EXCEPT !.at = "keep", !.got = got, !.mark = mark]
<1>3. got \in Ids /\ mark \in BOOLEAN /\ got \in {job[t].subject, NoOne}
      /\ (lesson = "css" /\ mark => got \in Scripted \cup outside)
  BY <1>1 DEF Ids, RowInv
<1>4. Moves(t, j)
  BY <1>2
<1> HIDE DEF got, mark
<1>5. /\ j \in JobType /\ j.at = "keep" /\ j.now = job[t].now /\ j.req = job[t].req
      /\ j.alone = job[t].alone /\ j.got = got /\ j.mark = mark /\ j.subject = job[t].subject
  BY <1>1, <1>3 DEF JobType
<1> HIDE DEF j
<1>6. /\ job' \in [Thread -> JobType] /\ Only(t, "keep", job[t].now)
      /\ job'[t].got = got /\ job'[t].mark = mark /\ job'[t].subject = job[t].subject
      /\ \A u \in Thread : u # t => job'[u] = job[u]
  BY <1>1, <1>4, <1>5, MovesFields DEF Only
<1>7. Quiet(t)
  BY <1>1, <1>6 DEF Quiet, Only
<1>8. TypeOK' /\ RowInv'
  BY <1>1, <1>6 DEF TypeOK, RowInv, session, history, counts, database
<1>9. Own(t)'
  BY <1>1, <1>3, <1>6 DEF Only, Own, ScriptOwn, ShownOwn, RoleOwn, ErrorOwn, LoginOwn,
                          session, history
<1> QED
  BY <1>7, <1>8, <1>9 DEF Kept

LEMMA KeepKept ==
  ASSUME StaffInv, NEW t \in Thread, Keep(t)
  PROVE  Kept(t)
<1> DEFINE at == IF lesson = "css" /\ job[t].now = "ViewProfile" THEN "status" ELSE "page"
<1>1. /\ TypeOK /\ RowInv /\ Own(t)
      /\ job[t].at = "keep" /\ Runs(t) /\ job[t].got \in Ids
      /\ profile' = job[t].got /\ Goes(t, at)
      /\ UNCHANGED <<lesson, auth, user, page, params, database, completed, history>>
  BY JobFields DEF StaffInv, Keep, Runs, TypeOK
<1>2. /\ job' \in [Thread -> JobType] /\ Only(t, at, job[t].now)
      /\ job'[t].mark = job[t].mark /\ job'[t].subject = job[t].subject
      /\ job'[t].got = job[t].got
      /\ \A u \in Thread : u # t => job'[u] = job[u]
  BY <1>1, GoesFields
<1>3. Quiet(t)
  BY <1>1, <1>2 DEF Quiet, Only
<1>4. TypeOK' /\ RowInv'
  BY <1>1, <1>2 DEF TypeOK, RowInv, history, counts, database
<1>5. Own(t)'
  BY <1>1, <1>2 DEF Only, Own, ScriptOwn, ShownOwn, RoleOwn, ErrorOwn, LoginOwn, history
<1> QED
  BY <1>3, <1>4, <1>5 DEF Kept

LEMMA FindProfileKept ==
  ASSUME StaffInv, NEW t \in Thread, FindProfile(t)
  PROVE  Kept(t)
<1>1. /\ TypeOK /\ RowInv /\ Own(t)
      /\ job[t].at = "act" /\ job[t].now = "FindProfile" /\ Runs(t) /\ job[t] \in JobType
      /\ UNCHANGED <<lesson, session, params, database, completed, history>>
  BY DEF StaffInv, FindProfile, Runs, TypeOK
<1>2. ASSUME job' \in [Thread -> JobType],
             Only(t, "page", "FindProfile") \/ Only(t, "enter", "ViewProfile"),
             \A u \in Thread : u # t => job'[u] = job[u]
      PROVE  Kept(t)
  <2>1. Quiet(t)
    BY <1>1, <1>2 DEF Quiet, Only
  <2>2. TypeOK' /\ RowInv'
    BY <1>1, <1>2 DEF TypeOK, RowInv, session, history, counts, database
  <2>3. Own(t)'
    BY <1>1, <1>2 DEF Only, Own, ScriptOwn, ShownOwn, RoleOwn, ErrorOwn, LoginOwn,
                      Views, session, history
  <2> QED
    BY <2>1, <2>2, <2>3 DEF Kept
<1>3. CASE Goes(t, "page")
  BY <1>1, <1>2, <1>3, GoesFields
<1>4. ASSUME NEW e \in Employee,
             Moves(t, [job[t] EXCEPT !.at = "enter", !.now = "ViewProfile", !.subject = e])
      PROVE  Kept(t)
  <2> DEFINE j == [job[t] EXCEPT !.at = "enter", !.now = "ViewProfile", !.subject = e]
  <2>1. /\ j \in JobType /\ j.at = "enter" /\ j.now = "ViewProfile" /\ j.req = job[t].req
        /\ j.alone = job[t].alone
    BY <1>1 DEF JobType, Ids, Action, Functions
  <2>2. Moves(t, j)
    BY <1>4
  <2> HIDE DEF j
  <2> QED
    BY <1>1, <1>2, <2>1, <2>2, MovesFields DEF Only
<1> QED
  BY <1>3, <1>4 DEF FindProfile

(* A handler that has written: its chained action only shows. *)
LEMMA WriteKept ==
  ASSUME StaffInv, NEW t \in Thread, job[t].at = "act",
         NEW a \in {"ViewProfile", "ListStaff"}, Chain(t, a),
         row' \in [Employee -> {"gone", "plain", "script"}],
         lesson = "css" => \A e \in Employee : row'[e] = "script" => row[e] = "script",
         UNCHANGED <<lesson, session, params, building, completed, history>>
  PROVE  Kept(t)
<1>1. TypeOK /\ RowInv /\ Own(t) /\ Runs(t) /\ a \in Action
  BY DEF StaffInv, Runs, Action, Functions
<1>2. /\ job' \in [Thread -> JobType] /\ Only(t, "enter", a)
      /\ \A u \in Thread : u # t => job'[u] = job[u]
  BY <1>1, ChainFields DEF Chain
<1>3. Quiet(t)
  BY <1>1, <1>2 DEF Quiet, Only
<1>4. TypeOK' /\ RowInv'
  BY <1>1, <1>2 DEF TypeOK, RowInv, session, history, counts
<1>5. Own(t)'
  BY <1>1, <1>2 DEF Only, Own, ScriptOwn, ShownOwn, RoleOwn, ErrorOwn, LoginOwn,
                    session, history
<1> QED
  BY <1>3, <1>4, <1>5 DEF Kept

LEMMA UpdateProfileKept ==
  ASSUME StaffInv, NEW t \in Thread, UpdateProfile(t)
  PROVE  Kept(t)
<1>1. TypeOK /\ Encoded(t) \in {"plain", "script"} /\ (lesson = "css" => Encoded(t) = "plain")
  BY DEF StaffInv, Encoded
<1>2. row' = row \/ row' = [row EXCEPT ![job[t].subject] = Encoded(t)]
  BY DEF UpdateProfile, Write
<1>3. /\ row' \in [Employee -> {"gone", "plain", "script"}]
      /\ lesson = "css" => \A e \in Employee : row'[e] = "script" => row[e] = "script"
  BY <1>1, <1>2 DEF TypeOK
<1> QED
  BY <1>3, WriteKept DEF UpdateProfile

LEMMA DeleteProfileKept ==
  ASSUME StaffInv, NEW t \in Thread, DeleteProfile(t)
  PROVE  Kept(t)
<1>1. TypeOK
  BY DEF StaffInv
<1>2. row' = row \/ row' = [row EXCEPT ![job[t].subject] = "gone"]
  BY DEF DeleteProfile, Write
<1>3. /\ row' \in [Employee -> {"gone", "plain", "script"}]
      /\ lesson = "css" => \A e \in Employee : row'[e] = "script" => row[e] = "script"
  BY <1>1, <1>2 DEF TypeOK
<1> QED
  BY <1>3, WriteKept DEF DeleteProfile

LEMMA BuildTypes ==
  ASSUME TypeOK, NEW b \in Builder, StartBuild(b)
  PROVE  /\ building' \subseteq Builder
         /\ row' \in [Employee -> {"gone", "plain", "script"}]
         /\ \A e \in Employee : row'[e] = "script" => e \in Scripted
<1>1. PICK kept \in SUBSET Employee :
        row' = [e \in Employee |-> IF e \in kept THEN Fresh[e] ELSE "gone"]
  <2>1. CASE row' = Fresh
    BY <2>1 DEF Fresh
  <2> QED
    BY <2>1 DEF StartBuild
<1> QED
  BY <1>1 DEF TypeOK, StartBuild, Fresh

(* A request that goes on, or is done, after the handler it was chained to. *)
LEMMA StatusKept ==
  ASSUME StaffInv, NEW t \in Thread, job[t].at \in {"status", "rebuild"},
         \/ Goes(t, "page") \/ Goes(t, "rebuild") \/ Chain(t, "ListStaff"),
         job' \in [Thread -> JobType] => TypeOK', RowInv',
         UNCHANGED <<lesson, session, params, history>>
  PROVE  Kept(t)
<1>1. TypeOK /\ Own(t) /\ Runs(t) /\ "ListStaff" \in Action
  BY DEF StaffInv, Runs, Action, Functions
<1>2. /\ job' \in [Thread -> JobType]
      /\ \/ Only(t, "page", job[t].now) \/ Only(t, "rebuild", job[t].now)
         \/ Only(t, "enter", "ListStaff")
      /\ job'[t].subject = job[t].subject \/ job'[t].now = "ListStaff"
      /\ \A u \in Thread : u # t => job'[u] = job[u]
  <2>1. CASE Goes(t, "page")
    BY <1>1, <2>1, GoesFields
  <2>2. CASE Goes(t, "rebuild")
    BY <1>1, <2>2, GoesFields
  <2>3. CASE Chain(t, "ListStaff")
    BY <1>1, <2>3, ChainFields DEF Chain, Only
  <2> QED
    BY <2>1, <2>2, <2>3
<1>3. Quiet(t)
  BY <1>1, <1>2 DEF Quiet, Only
<1>4. Own(t)'
  BY <1>1, <1>2 DEF Only, Own, ScriptOwn, ShownOwn, RoleOwn, ErrorOwn, LoginOwn,
                    Views, session, history, Functions
<1> QED
  BY <1>2, <1>3, <1>4 DEF Kept

LEMMA StatusTypes ==
  ASSUME TypeOK, job' \in [Thread -> JobType], completed' \in BOOLEAN,
         building' \subseteq Builder, row' \in [Employee -> {"gone", "plain", "script"}],
         UNCHANGED <<lesson, session, params, history>>
  PROVE  TypeOK'
BY DEF TypeOK, session, history, counts

LEMMA StatusCssKept ==
  ASSUME StaffInv, NEW t \in Thread, StatusCss(t)
  PROVE  Kept(t)
<1>1. /\ TypeOK /\ RowInv /\ Own(t) /\ Runs(t) /\ t \in Builder
      /\ lesson = "css" /\ job[t].at = "status"
      /\ UNCHANGED <<lesson, params, history>>
  BY DEF StaffInv, StatusCss, Runs, Builder
<1>2. CASE Error(t) /\ UNCHANGED <<database, completed>>
  BY <1>1, <1>2, ErrorKept
<1>3. CASE /\ job[t].mark /\ completed' = TRUE /\ StartBuild(t) /\ Goes(t, "rebuild")
           /\ UNCHANGED session
  <2>2. job' \in [Thread -> JobType] => TypeOK'
    BY <1>1, <1>3, BuildTypes, StatusTypes
  <2>3. RowInv'
    BY <1>1, <1>3, BuildTypes DEF RowInv, history
  <2> QED
    BY <1>1, <1>3, <2>2, <2>3, StatusKept
<1>4. CASE Goes(t, "page") /\ UNCHANGED <<session, database, completed>>
  <2>1. job' \in [Thread -> JobType] => TypeOK'
    BY <1>1, <1>4, StatusTypes DEF TypeOK, database
  <2>2. RowInv'
    BY <1>1, <1>4 DEF RowInv, history, database
  <2> QED
    BY <1>1, <1>4, <2>1, <2>2, StatusKept
<1> QED
  BY <1>2, <1>3, <1>4 DEF StatusCss

LEMMA StatusSqlKept ==
  ASSUME StaffInv, NEW t \in Thread, StatusSql(t)
  PROVE  Kept(t)
<1>1. /\ TypeOK /\ t \in Builder /\ lesson = "sql" /\ job[t].at = "status"
      /\ UNCHANGED <<lesson, session, params, history>>
  BY DEF StaffInv, StatusSql, Builder
<1>2. RowInv'
  BY <1>1 DEF RowInv
<1>3. CASE completed' = TRUE /\ StartBuild(t) /\ Goes(t, "rebuild")
  <2>1. job' \in [Thread -> JobType] => TypeOK'
    BY <1>1, <1>3, BuildTypes, StatusTypes
  <2> QED
    BY <1>1, <1>2, <1>3, <2>1, StatusKept
<1>4. CASE Chain(t, "ListStaff") /\ UNCHANGED <<database, completed>>
  <2>1. job' \in [Thread -> JobType] => TypeOK'
    BY <1>1, <1>4, StatusTypes DEF TypeOK, database
  <2> QED
    BY <1>1, <1>2, <1>4, <2>1, StatusKept
<1> QED
  BY <1>3, <1>4 DEF StatusSql

LEMMA RebuiltKept ==
  ASSUME StaffInv, NEW t \in Thread, Rebuilt(t)
  PROVE  Kept(t)
<1>1. /\ TypeOK /\ RowInv /\ job[t].at = "rebuild"
      /\ building' = building \ {t}
      /\ Chain(t, "ListStaff") \/ Goes(t, "page")
      /\ UNCHANGED <<lesson, session, params, row, completed, history>>
  BY DEF StaffInv, Rebuilt
<1>2. job' \in [Thread -> JobType] => TypeOK'
  BY <1>1, StatusTypes DEF TypeOK
<1>3. RowInv'
  BY <1>1 DEF RowInv, history
<1> QED
  BY <1>1, <1>2, <1>3, StatusKept

-------------------------------------------------------------------------------
(* The steps that begin and end a request, and those of the other lessons. *)
LEMMA BeginPreserves ==
  ASSUME StaffInv, NEW t \in Thread, NEW r \in Requests, Begin(t, r)
  PROVE  StaffInv'
<1> DEFINE lone == \A u \in Thread : ~Runs(u)
<1>1. /\ TypeOK /\ RowInv /\ PageNeedsLogin /\ ~Runs(t) /\ served < MaxServed
      /\ served' = served + 1 /\ params' = r /\ mixed' = (mixed \/ ~lone)
      /\ job' = [u \in Thread |-> IF u = t THEN Job("dispatch", r, lone)
                                  ELSE [job[u] EXCEPT !.alone = FALSE]]
      /\ UNCHANGED <<lesson, session, database, completed, others, outside>>
  BY DEF StaffInv, Begin
<1>2. lone \in BOOLEAN /\ (lone => \A u \in Thread : ~Runs(u))
      /\ (~lone => \E u \in Thread : Runs(u))
  OBVIOUS
<1> HIDE DEF lone
<1>3. /\ job'[t] \in JobType /\ job'[t].at = "dispatch" /\ job'[t].now = "Login"
      /\ job'[t].req = r /\ job'[t].alone = lone
  BY <1>1, <1>2 DEF Job, JobType, Ids, Action
<1>4. ASSUME NEW u \in Thread, u # t
      PROVE  /\ job'[u] \in JobType /\ job'[u].alone = FALSE
             /\ job'[u].at = job[u].at /\ job'[u].now = job[u].now
             /\ job'[u].got = job[u].got /\ job'[u].mark = job[u].mark
             /\ job'[u].subject = job[u].subject
  <2>1. job'[u] = [job[u] EXCEPT !.alone = FALSE] /\ job[u] \in JobType
    BY <1>1, <1>4 DEF TypeOK
  <2> QED
    BY <2>1 DEF JobType
<1>5. job' \in [Thread -> JobType]
  BY <1>1, <1>3, <1>4
<1>6. TypeOK'
  <2>1. served' \in 0 .. MaxServed
    BY <1>1, StaffAssumption DEF TypeOK
  <2> QED
    BY <1>1, <1>2, <1>5, <2>1 DEF TypeOK, session, database
<1>7. RowInv' /\ PageNeedsLogin'
  BY <1>1, <1>3 DEF RowInv, PageNeedsLogin, Runs, database
<1>8. ASSUME NEW u \in Thread PROVE AloneOwn(u)' /\ SerialOwn(u)' /\ Own(u)'
  <2>1. CASE u = t
    <3>1. lone => \A v \in Thread : v # t => job'[v].at = "idle"
      BY <1>2, <1>4 DEF Runs
    <3>2. AloneOwn(u)'
      BY <1>1, <1>3, <2>1, <3>1 DEF AloneOwn, Runs
    <3>3. SerialOwn(u)'
      BY <1>1, <2>1, <3>1 DEF SerialOwn, Runs
    <3>4. Own(u)'
      BY <1>1, <1>2, <1>3, <2>1 DEF Own, ScriptOwn, ShownOwn, RoleOwn, ErrorOwn, LoginOwn,
                                    PageNeedsLogin, session
    <3> QED
      BY <3>2, <3>3, <3>4
  <2>2. CASE u # t
    <3>1. AloneOwn(u)' /\ SerialOwn(u)'
      <4>1. ~job'[u].alone /\ (~mixed' => job'[u].at = "idle")
        BY <1>1, <1>2, <1>4, <2>2 DEF Runs
      <4> QED
        BY <4>1 DEF AloneOwn, SerialOwn, Runs
    <3>2. ScriptOwn(u) /\ ShownOwn(u)
      BY DEF StaffInv, Own
    <3>3. ScriptOwn(u)' /\ ShownOwn(u)' /\ RoleOwn(u)' /\ ErrorOwn(u)'
      BY <1>1, <1>4, <2>2, <3>2 DEF ScriptOwn, ShownOwn, RoleOwn, ErrorOwn
    <3>4. LoginOwn(u)'
      BY <1>1, <1>2, <1>4, <2>2 DEF LoginOwn, Runs
    <3> QED
      BY <3>1, <3>3, <3>4 DEF Own
  <2> QED
    BY <2>1, <2>2
<1> QED
  BY <1>6, <1>7, <1>8 DEF StaffInv

LEMMA LeavePreserves ==
  ASSUME StaffInv, NEW t \in Thread, Leave(t)
  PROVE  StaffInv'
<1>1. /\ TypeOK /\ RowInv /\ Own(t) /\ job[t].at \in {"page", "refused"}
      /\ Moves(t, Idle)
      /\ mixed' = (mixed /\ ~(page = "Login" /\ \A u \in Thread \ {t} : ~Runs(u)))
      /\ UNCHANGED <<lesson, session, params, database, completed, counts, outside>>
  BY DEF StaffInv, Leave
<1>2. Idle \in JobType /\ Idle.at = "idle" /\ Idle.alone = FALSE
  BY DEF Idle, Job, JobType, Ids, Action
<1>3. /\ job' \in [Thread -> JobType] /\ job'[t] = Idle
      /\ \A u \in Thread : u # t => job'[u] = job[u]
  BY <1>1, <1>2, MovesFields
<1>4. TypeOK' /\ RowInv'
  BY <1>1, <1>3 DEF TypeOK, RowInv, session, counts, database
<1>5. PageNeedsLogin'
  <2>1. CASE mixed
    BY <1>1, <2>1 DEF PageNeedsLogin, session, Functions
  <2>2. CASE ~mixed
    BY <1>1, <2>2 DEF PageNeedsLogin, session, Own, LoginOwn
  <2> QED
    BY <2>1, <2>2
<1>6. ASSUME NEW u \in Thread PROVE AloneOwn(u)' /\ SerialOwn(u)' /\ Own(u)'
  <2>1. CASE u = t
    BY <1>2, <1>3, <2>1 DEF AloneOwn, SerialOwn, Own, ScriptOwn, ShownOwn, RoleOwn, ErrorOwn,
                            LoginOwn, Runs
  <2>2. CASE u # t
    <3>1. job'[u] = job[u]
      BY <1>3, <2>2
    <3>2. AloneOwn(u) /\ SerialOwn(u) /\ Own(u)
      BY DEF StaffInv
    <3>3. ~job[u].alone
      BY <1>1, <2>2, <3>2 DEF AloneOwn, Runs
    <3>4. ~mixed' => ~Runs(u)
      BY <1>1, <2>2, <3>2 DEF SerialOwn, Runs
    <3>5. AloneOwn(u)' /\ SerialOwn(u)'
      BY <3>1, <3>3, <3>4 DEF AloneOwn, SerialOwn, Runs
    <3>6. ScriptOwn(u)' /\ ShownOwn(u)'
      BY <1>1, <3>1, <3>2, <3>3 DEF Own, ScriptOwn, ShownOwn
    <3>7. RoleOwn(u)' /\ ErrorOwn(u)' /\ LoginOwn(u)'
      BY <1>1, <3>1, <3>3, <3>4 DEF RoleOwn, ErrorOwn, LoginOwn, Runs
    <3> QED
      BY <3>5, <3>6, <3>7 DEF Own
  <2> QED
    BY <2>1, <2>2
<1> QED
  BY <1>4, <1>5, <1>6 DEF StaffInv

(* Whatever leaves the session and the requests alone. *)
LEMMA OthersPreserve ==
  ASSUME StaffInv, TypeOK', RowInv', outside \subseteq outside',
         UNCHANGED <<lesson, session, params, job, mixed>>
  PROVE  StaffInv'
<1>1. PageNeedsLogin'
  BY DEF StaffInv, PageNeedsLogin, Runs, session
<1>2. ASSUME NEW u \in Thread PROVE AloneOwn(u)' /\ SerialOwn(u)' /\ Own(u)'
  <2>1. AloneOwn(u) /\ SerialOwn(u) /\ Own(u)
    BY DEF StaffInv
  <2>2. AloneOwn(u)' /\ SerialOwn(u)'
    BY <2>1 DEF AloneOwn, SerialOwn, Runs
  <2>3. Own(u)'
    BY <2>1 DEF Own, ScriptOwn, ShownOwn, RoleOwn, ErrorOwn, LoginOwn, session
  <2> QED
    BY <2>2, <2>3
<1> QED
  BY <1>1, <1>2 DEF StaffInv

LEMMA OtherWritesPreserves ==
  ASSUME StaffInv, OtherWrites
  PROVE  StaffInv'
<1>1. /\ TypeOK /\ RowInv /\ others < MaxOthers /\ others' = others + 1
      /\ UNCHANGED <<lesson, session, params, building, completed, job, served, mixed>>
  BY DEF StaffInv, OtherWrites
<1>2. PICK e \in Employee, new \in {"gone", "script"} :
        /\ row' = [row EXCEPT ![e] = new]
        /\ outside' = IF new = "script" THEN outside \cup {e} ELSE outside
  BY DEF OtherWrites
<1>3. TypeOK'
  BY <1>1, <1>2, StaffAssumption DEF TypeOK, session
<1>4. RowInv'
  BY <1>1, <1>2 DEF RowInv, TypeOK
<1> QED
  BY <1>1, <1>2, <1>3, <1>4, OthersPreserve

LEMMA OtherBuildsPreserves ==
  ASSUME StaffInv, OtherBuilds
  PROVE  StaffInv'
<1>1. /\ TypeOK /\ RowInv /\ Other \in Builder
      /\ UNCHANGED <<lesson, session, params, completed, job, served, mixed, outside>>
  BY DEF StaffInv, OtherBuilds, Builder
<1>2. CASE others < MaxOthers /\ others' = others + 1 /\ StartBuild(Other)
  <2>1. /\ building' \subseteq Builder /\ row' \in [Employee -> {"gone", "plain", "script"}]
        /\ \A e \in Employee : row'[e] = "script" => e \in Scripted
    BY <1>1, <1>2, BuildTypes
  <2>2. TypeOK'
    BY <1>1, <1>2, <2>1, StaffAssumption DEF TypeOK, session
  <2>3. RowInv'
    BY <1>1, <2>1 DEF RowInv
  <2> QED
    BY <1>1, <2>2, <2>3, OthersPreserve
<1>3. CASE building' = building \ {Other} /\ UNCHANGED <<row, others>>
  <2>1. TypeOK' /\ RowInv'
    BY <1>1, <1>3 DEF TypeOK, RowInv, session
  <2> QED
    BY <1>1, <2>1, OthersPreserve
<1> QED
  BY <1>2, <1>3 DEF OtherBuilds

-------------------------------------------------------------------------------
LEMMA StaffInit == Init => StaffInv
<1> SUFFICES ASSUME Init PROVE StaffInv
  OBVIOUS
<1>1. Idle \in JobType /\ Idle.at = "idle" /\ Idle.alone = FALSE
  BY DEF Idle, Job, JobType, Ids, Action
<1>2. job \in [Thread -> JobType] /\ \A t \in Thread : job[t] = Idle
  BY <1>1 DEF Init
<1>3. TypeOK
  <2>1. /\ user \in Ids /\ page \in Page /\ profile \in Ids
        /\ params \in Requests \cup {Request0} /\ building \subseteq Builder
    BY DEF Init, Ids, Page
  <2>2. row \in [Employee -> {"gone", "plain", "script"}]
    BY DEF Init, Fresh
  <2>3. served \in 0 .. MaxServed /\ others \in 0 .. MaxOthers
    BY StaffAssumption DEF Init
  <2> QED
    BY <1>2, <2>1, <2>2, <2>3 DEF Init, TypeOK
<1>4. RowInv /\ PageNeedsLogin
  BY DEF Init, RowInv, PageNeedsLogin, Fresh, Functions
<1>5. ASSUME NEW t \in Thread PROVE AloneOwn(t) /\ SerialOwn(t) /\ Own(t)
  BY <1>1, <1>2 DEF AloneOwn, SerialOwn, Own, ScriptOwn, ShownOwn, RoleOwn, ErrorOwn,
                    LoginOwn, Runs
<1> QED
  BY <1>3, <1>4, <1>5 DEF StaffInv

(* A step of a request but its end. *)
Works(t) ==
  \/ Dispatch(t) \/ Defend(t) \/ Authorize(t) \/ Enter(t) \/ Logout(t) \/ Login(t)
  \/ CheckFails(t) \/ Check(t) \/ ReadProfile(t) \/ Keep(t)
  \/ FindProfile(t) \/ UpdateProfile(t) \/ DeleteProfile(t)
  \/ StatusCss(t) \/ StatusSql(t) \/ Rebuilt(t)

LEMMA WorksKept ==
  ASSUME StaffInv, NEW t \in Thread, Works(t)
  PROVE  Kept(t)
<1>1. CASE Dispatch(t) \/ Defend(t) \/ Authorize(t)
  BY <1>1, DispatchKept, DefendKept, AuthorizeKept
<1>2. CASE Enter(t) \/ Logout(t) \/ Login(t)
  BY <1>2, EnterKept, LogoutKept, CredentialsKept, SetUserKept DEF Login
<1>3. CASE CheckFails(t) \/ Check(t)
  BY <1>3, CheckFailsKept, CheckKept
<1>4. CASE ReadProfile(t) \/ Keep(t) \/ FindProfile(t) \/ UpdateProfile(t) \/ DeleteProfile(t)
  BY <1>4, ReadProfileKept, KeepKept, FindProfileKept, UpdateProfileKept, DeleteProfileKept
<1>5. CASE StatusCss(t) \/ StatusSql(t) \/ Rebuilt(t)
  BY <1>5, StatusCssKept, StatusSqlKept, RebuiltKept
<1> QED
  BY <1>1, <1>2, <1>3, <1>4, <1>5 DEF Works

LEMMA StaffNext == StaffInv /\ [Next]_vars => StaffInv'
<1> SUFFICES ASSUME StaffInv, [Next]_vars PROVE StaffInv'
  OBVIOUS
<1>1. ASSUME NEW t \in Thread, Works(t) PROVE StaffInv'
  BY <1>1, WorksKept, QuietPreserves DEF Kept
<1>2. ASSUME NEW t \in Thread, Leave(t) PROVE StaffInv'
  BY <1>2, LeavePreserves
<1>3. ASSUME NEW t \in Thread, NEW r \in Requests, Begin(t, r) PROVE StaffInv'
  BY <1>3, BeginPreserves
<1>4. CASE OtherWrites
  BY <1>4, OtherWritesPreserves
<1>5. CASE OtherBuilds
  BY <1>5, OtherBuildsPreserves
<1>6. CASE UNCHANGED vars
  <2>1. TypeOK' /\ RowInv' /\ outside' = outside
        /\ UNCHANGED <<lesson, session, params, job, mixed>>
    BY <1>6 DEF StaffInv, TypeOK, RowInv, vars, session, database, history, counts
  <2> QED
    BY <2>1, OthersPreserve
<1>7. \A t \in Thread : Step(t) <=> Works(t) \/ Leave(t)
  BY DEF Step, Works
<1> QED
  BY <1>1, <1>2, <1>3, <1>4, <1>5, <1>6, <1>7 DEF Next

(* The invariant holds: whatever the roles, the ownership, the number of       *)
(* employees, threads and requests, and whatever the other lessons do.         *)
THEOREM StaffInvariant == Spec => []StaffInv
BY StaffInit, StaffNext, PTL DEF Spec

(* The types of the variables. *)
THEOREM StaffTypes == Spec => []TypeOK
<1>1. StaffInv => TypeOK
  BY DEF StaffInv
<1> QED
  BY <1>1, StaffInvariant, PTL

(* Requests that come one after the other leave nobody on a page of a logged   *)
(* in user without a login.                                                    *)
THEOREM LoginBehindPages == Spec => []PageNeedsLogin
<1>1. StaffInv => PageNeedsLogin
  BY DEF StaffInv
<1> QED
  BY <1>1, StaffInvariant, PTL

(* A lone request that ends in a profile page shows the employee it asked for  *)
(* or found, or nobody.                                                        *)
THEOREM ProfileAsAsked == Spec => []ShownIsAsked
<1>1. StaffInv => ShownIsAsked
  BY DEF StaffInv, ShownIsAsked, Own, ShownOwn, Views
<1> QED
  BY <1>1, StaffInvariant, PTL

-------------------------------------------------------------------------------
(* A step of a request changes the table only where it writes. *)
LEMMA WorksRow ==
  ASSUME NEW t \in Thread, Works(t), job[t].at = "act", row' # row
  PROVE  UpdateProfile(t) \/ DeleteProfile(t)
<1>1. ~(Dispatch(t) \/ Defend(t) \/ Authorize(t) \/ Enter(t) \/ Logout(t) \/ Login(t))
  BY DEF Dispatch, DispatchUnknown, DispatchLogin, DispatchPlain, DispatchRole, Defend,
         Authorize, Enter, Logout, Login, NoCredentials, TryLogin, SetUser
<1>2. ~(CheckFails(t) \/ Check(t) \/ Keep(t) \/ StatusCss(t) \/ StatusSql(t) \/ Rebuilt(t))
  BY DEF CheckFails, Check, Keep, StatusCss, StatusSql, Rebuilt
<1>3. ~(ReadProfile(t) \/ FindProfile(t))
  BY DEF ReadProfile, FindProfile, database
<1> QED
  BY <1>1, <1>2, <1>3 DEF Works

(* A request that is alone is the only one with steps. *)
LEMMA OnlyAlone ==
  ASSUME StaffInv, NEW t \in Thread, job[t].alone, NEW u \in Thread, u # t
  PROVE  ~Works(u) /\ ~Leave(u)
<1>1. job[u].at = "idle"
  BY DEF StaffInv, AloneOwn, Runs
<1>2. ~(Dispatch(u) \/ Defend(u) \/ Authorize(u) \/ Enter(u) \/ Logout(u) \/ Login(u))
  BY <1>1 DEF Dispatch, DispatchUnknown, DispatchLogin, DispatchPlain, DispatchRole, Defend,
              Authorize, Enter, Logout, Login, NoCredentials, TryLogin, SetUser
<1>3. ~(CheckFails(u) \/ Check(u) \/ ReadProfile(u) \/ Keep(u) \/ FindProfile(u)
        \/ UpdateProfile(u) \/ DeleteProfile(u) \/ StatusCss(u) \/ StatusSql(u)
        \/ Rebuilt(u) \/ Leave(u))
  BY <1>1 DEF CheckFails, Check, ReadProfile, Keep, FindProfile, UpdateProfile,
              DeleteProfile, StatusCss, StatusSql, Rebuilt, Leave
<1> QED
  BY <1>2, <1>3 DEF Works

LEMMA RoleStep ==
  ASSUME StaffInv, Next, NEW t \in Thread, lesson = "role", job[t].alone,
         job[t].at = "act", row' # row, job' # job
  PROVE  /\ auth /\ <<RoleOf[user], job[t].req.action>> \in Auth
         /\ row'[user] = "gone" => row[user] = "gone"
<1>1. TypeOK /\ RoleOwn(t) /\ auth /\ user \in Employee
  BY DEF StaffInv, Own, RoleOwn
<1>2. Works(t)
  <2>1. PICK u \in Thread : Step(u) \/ \E r \in Requests : Begin(u, r)
    BY DEF Next, OtherWrites, OtherBuilds
  <2>2. ~(\E r \in Requests : Begin(u, r)) /\ ~Leave(u)
    BY DEF Begin, Leave, database
  <2>3. Works(u)
    BY <2>1, <2>2 DEF Step, Works
  <2> QED
    BY <2>3, OnlyAlone
<1>3. CASE UpdateProfile(t)
  <2>1. job[t].now = "UpdateProfile" /\ Encoded(t) # "gone"
    BY <1>3 DEF UpdateProfile, Encoded
  <2>2. row' = [row EXCEPT ![job[t].subject] = Encoded(t)]
    BY <1>3 DEF UpdateProfile, Write
  <2> QED
    BY <1>1, <2>1, <2>2 DEF TypeOK, RoleOwn
<1>4. CASE DeleteProfile(t)
  <2>1. job[t].now = "DeleteProfile" /\ job[t].me # job[t].subject
    BY <1>4 DEF DeleteProfile
  <2>2. row' = [row EXCEPT ![job[t].subject] = "gone"]
    BY <1>4 DEF DeleteProfile, Write
  <2> QED
    BY <1>1, <2>1, <2>2 DEF TypeOK, RoleOwn
<1> QED
  BY <1>2, <1>3, <1>4, WorksRow

(* In role based access control a lone request writes only what the role of    *)
(* its user allows, and never deletes the row of its user.                     *)
THEOREM RoleIsObeyed == Spec => RoleAllows
<1>1. StaffInv /\ [Next]_vars =>
        [\A t \in Thread :
           lesson = "role" /\ job[t].alone /\ job[t].at = "act" /\ row' # row /\ job' # job
             => /\ auth /\ <<RoleOf[user], job[t].req.action>> \in Auth
                /\ row'[user] = "gone" => row[user] = "gone"]_vars
  BY RoleStep
<1> QED
  BY <1>1, StaffInvariant, PTL DEF Spec, RoleAllows

LEMMA ErrorStep ==
  ASSUME StaffInv, Next, NEW t \in Thread, lesson = "role", page = "error",
         Runs(t), job[t].alone, job[t].req.action # "Login"
  PROVE  page' = "error" /\ auth' = auth
<1>1. job[t].at \in {"dispatch", "defend", "authorize", "refused"}
  BY DEF StaffInv, Own, ErrorOwn
<1>2. CASE Works(t)
  <2>1. CASE Dispatch(t)
    BY <2>1 DEF Dispatch, DispatchUnknown, DispatchLogin, DispatchPlain, DispatchRole,
                Error, session
  <2>2. CASE Defend(t) \/ Authorize(t)
    BY <2>2 DEF Defend, Authorize, Error, session
  <2>3. ~(Enter(t) \/ Logout(t) \/ Login(t) \/ CheckFails(t) \/ Check(t))
    BY <1>1 DEF Enter, Logout, Login, NoCredentials, TryLogin, SetUser, CheckFails, Check
  <2>4. ~(ReadProfile(t) \/ Keep(t) \/ FindProfile(t) \/ UpdateProfile(t) \/ DeleteProfile(t)
          \/ StatusCss(t) \/ StatusSql(t) \/ Rebuilt(t))
    BY <1>1 DEF ReadProfile, Keep, FindProfile, UpdateProfile, DeleteProfile, StatusCss,
                StatusSql, Rebuilt
  <2> QED
    BY <1>2, <2>1, <2>2, <2>3, <2>4 DEF Works
<1>3. CASE UNCHANGED session
  BY <1>3 DEF session
<1>4. \A u \in Thread, r \in Requests : Begin(u, r) => UNCHANGED session
  BY DEF Begin
<1>5. /\ \A u \in Thread : Leave(u) => UNCHANGED session
      /\ OtherWrites \/ OtherBuilds => UNCHANGED session
  BY DEF Leave, OtherWrites, OtherBuilds
<1>6. \A u \in Thread : Step(u) <=> Works(u) \/ Leave(u)
  BY DEF Step, Works
<1> QED
  BY <1>2, <1>3, <1>4, <1>5, <1>6, OnlyAlone DEF Next

(* From the error page of role based access control no lone request but Login  *)
(* leads on.                                                                   *)
THEOREM ErrorLeftByLogin == Spec => ErrorNeedsLogin
<1>1. StaffInv /\ [Next]_vars =>
        [\A t \in Thread :
           /\ lesson = "role" /\ page = "error"
           /\ Runs(t) /\ job[t].alone /\ job[t].req.action # "Login"
           => page' = "error" /\ auth' = auth]_vars
  BY ErrorStep
<1> QED
  BY <1>1, StaffInvariant, PTL DEF Spec, ErrorNeedsLogin
-------------------------------------------------------------------------------
(* Whoever goes on from "status" to a rebuild has completed a stage itself. *)
LEMMA RebuildByStatus ==
  ASSUME StaffInv, [Next]_vars, NEW t \in Thread, job[t].at = "status", job'[t].at = "rebuild"
  PROVE  StatusCss(t) \/ StatusSql(t)
<1>1. ASSUME NEW u \in Thread, Works(u) PROVE u = t
  BY <1>1, WorksKept DEF Kept, Quiet
<1>2. ASSUME NEW u \in Thread, Leave(u) PROVE FALSE
  BY <1>2 DEF Leave, Moves, Idle, Job, StaffInv, TypeOK
<1>3. ASSUME NEW u \in Thread, NEW r \in Requests, Begin(u, r) PROVE FALSE
  BY <1>3 DEF Begin, Job, Runs, StaffInv, TypeOK
<1>4. ~(OtherWrites \/ OtherBuilds \/ UNCHANGED vars)
  BY DEF OtherWrites, OtherBuilds, vars
<1>5. Works(t)
  BY <1>1, <1>2, <1>3, <1>4 DEF Next, Step, Works
<1> QED
  BY <1>5 DEF Works, Dispatch, DispatchUnknown, DispatchLogin, DispatchPlain, DispatchRole, Defend,
              Authorize, Enter, Logout, Login, NoCredentials, TryLogin, SetUser, CheckFails, Check,
              ReadProfile, Keep, FindProfile, UpdateProfile, DeleteProfile, Rebuilt

(* The stage of cross site scripting is completed only by a profile whose      *)
(* script was in its initial row or was stored by another lesson, never by one *)
(* that an update of the lesson itself has stored.                             *)
THEOREM CompletedByOthers == Spec => CompletedFromOutside
<1>1. ASSUME StaffInv, [Next]_vars, NEW t \in Thread,
             lesson = "css", job[t].at = "status", job'[t].at = "rebuild"
      PROVE  job[t].got \in Scripted \cup outside
  <2>1. StatusCss(t)
    BY <1>1, RebuildByStatus DEF StatusSql
  <2>2. TypeOK /\ ScriptOwn(t)
    BY <1>1 DEF StaffInv, Own
  <2>3. ~Goes(t, "refused") /\ ~Goes(t, "page")
    BY <1>1, <2>2, GoesFields DEF Only
  <2> QED
    BY <1>1, <2>1, <2>2, <2>3 DEF StatusCss, ScriptOwn, Error
<1>2. StaffInv /\ [Next]_vars =>
        [\A t \in Thread :
           lesson = "css" /\ job[t].at = "status" /\ job'[t].at = "rebuild"
             => job[t].got \in Scripted \cup outside]_vars
  BY <1>1
<1> QED
  BY <1>2, StaffInvariant, PTL DEF Spec, CompletedFromOutside
===============================================================================
