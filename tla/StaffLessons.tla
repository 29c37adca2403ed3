----------------------------- MODULE StaffLessons -----------------------------
(* The lessons built on Goat Hills Financial: cross site scripting ("css"),    *)
(* role based access control ("role") and database injection ("sql").  Each is *)
(* a small staff application of its own: its dispatcher (handleRequest of the  *)
(* lesson) looks up the action a request names and lets its handler run; some  *)
(* handlers end by calling another one, the chained action.                    *)
(*                                                                             *)
(* One lesson in one browser session, on which several requests may work at a  *)
(* time, each in its thread: the page that is shown next (currentLessonScreen),*)
(* the login and the profile are attributes of the session, and so is the      *)
(* parser, in which a request finds the parameters of the request that came    *)
(* last.  The employee table is shared with the other lessons of the user, who *)
(* delete and update rows of it or rebuild it (LessonDatabase); the lists of   *)
(* staff, which decide nothing, are left out.  A rebuild that does not end     *)
(* stands for one that was cut off, when the login lesson closed the           *)
(* connection under it.  The same happens to a query or a write, at any time.  *)
EXTENDS Naturals

CONSTANTS
  Thread,     \* threads of the container
  Other,      \* the other lessons of the user, as one more builder of tables
  Lessons,    \* the lessons looked at, out of {"css", "role", "sql"}
  Employee,   \* the ids of the initial rows of the table employee
  Scripted,   \* those whose address has a script from the start
  NoOne,      \* no id
  Prize,      \* PRIZE_EMPLOYEE_ID
  RoleOf,     \* the table roles: the role of each employee
  Auth,       \* the table auth: pairs of a role and a function
  Ownership,  \* the table ownership: pairs of an employer and an employee
  LoginFunction, \* the database has the stored function EMPLOYEE_LOGIN
  Requests,   \* the requests the pages and the menu can send
  MaxServed,  \* bound: the number of requests
  MaxOthers   \* bound: the number of writes and rebuilds of other lessons

Functions == {"Logout", "ListStaff", "SearchStaff", "FindProfile", "ViewProfile",
              "EditProfile", "CreateProfile", "UpdateProfile", "DeleteProfile"}
Action  == Functions \cup {"Login"}
Page    == Action \cup {"none", "error"}
Text    == {"good", "bad", "script", "none"}
Ids     == Employee \cup {NoOne}
Builder == Thread \cup {Other}

(* A request: its action, employee_id if there is one, and of the other        *)
(* parameters what matters: the right or a wrong password or none, complete    *)
(* fields of a profile or not, or complete ones with a script in the address.  *)
Request(action, id, text) == [action |-> action, id |-> id, text |-> text]
Request0 == Request("Login", NoOne, "none")

ASSUME StaffAssumption ==
  /\ Lessons \subseteq {"css", "role", "sql"}
  /\ NoOne \notin Employee /\ Prize \in Employee /\ Scripted \subseteq Employee
  /\ Other \notin Thread
  /\ DOMAIN RoleOf = Employee
  /\ \A a \in Auth : a[2] \in Functions
  /\ Ownership \subseteq Employee \X Employee
  /\ LoginFunction \in BOOLEAN
  /\ MaxServed \in Nat /\ MaxOthers \in Nat
  /\ Requests \subseteq [action : Action \cup {"unknown"}, id : Ids, text : Text]

VARIABLES
  lesson,     \* which lesson it is
  auth,       \* session attribute isAuthenticated
  user,       \* session attribute user_id
  page,       \* currentLessonScreen of the LessonSession
  profile,    \* session attribute Employee, by id
  params,     \* what the parser of the WebSession holds
  row,        \* the table employee: each initial row, and its address
  building,   \* who is in makeDB on the connection of the user
  completed,  \* the lesson tracker has the stage completed
  job,        \* where each thread is
  served,     \* the number of requests begun
  others,     \* the number of writes and rebuilds of other lessons begun
  mixed,      \* history: requests have overlapped since the last plain login page
  outside     \* history: the rows in which another lesson has stored a script

session  == <<auth, user, page, profile>>
database == <<row, building>>
counts   == <<served, others>>
history  == <<counts, mixed, outside>>
vars == <<lesson, session, params, database, completed, job, history>>

-------------------------------------------------------------------------------
(* A thread: its step, the handler it is in, the action it has asked           *)
(* authorization for, its request, the user and the subject it has read, the   *)
(* row it has fetched and whether that one has a script, and whether it has    *)
(* always been the only request.                                               *)
Job(at, req, alone) ==
  [at |-> at, now |-> "Login", asked |-> "Login", req |-> req, me |-> NoOne,
   subject |-> NoOne, got |-> NoOne, mark |-> FALSE, alone |-> alone]

Idle == Job("idle", Request0, FALSE)

Runs(t) == job[t].at # "idle"

(* The initial rows. *)
Fresh == [e \in Employee |-> IF e \in Scripted THEN "script" ELSE "plain"]

JobType ==
  [at : {"idle", "dispatch", "defend", "authorize", "enter", "credentials", "user",
         "check", "act", "keep", "status", "rebuild", "page", "refused"},
   now : Action, asked : Action \cup {"unknown"}, req : Requests \cup {Request0},
   me : Ids, subject : Ids, got : Ids, mark : BOOLEAN, alone : BOOLEAN]

TypeOK ==
  /\ lesson \in Lessons
  /\ auth \in BOOLEAN /\ user \in Ids /\ page \in Page /\ profile \in Ids
  /\ params \in Requests \cup {Request0}
  /\ row \in [Employee -> {"gone", "plain", "script"}]
  /\ building \subseteq Builder
  /\ served \in 0 .. MaxServed /\ others \in 0 .. MaxOthers
  /\ completed \in BOOLEAN /\ mixed \in BOOLEAN /\ outside \subseteq Employee
  /\ job \in [Thread -> JobType]

Init ==
  /\ lesson \in Lessons
  /\ auth = FALSE /\ user = NoOne /\ page = "none" /\ profile = NoOne
  /\ params = Request0
  /\ row = Fresh /\ building = {} /\ completed = FALSE
  /\ job = [t \in Thread |-> Idle]
  /\ served = 0 /\ others = 0
  /\ mixed = FALSE /\ outside = {}

-------------------------------------------------------------------------------
(* Where a thread goes on, and the handler it calls. *)
Moves(t, j) == job' = [job EXCEPT ![t] = j]
Goes(t, at) == Moves(t, [job[t] EXCEPT !.at = at])
Chain(t, a) == Moves(t, [job[t] EXCEPT !.at = "enter", !.now = a])

(* An exception the dispatcher catches: every one but the two of a failed      *)
(* login sends the session to the error page.                                  *)
Error(t) == page' = "error" /\ Goes(t, "refused") /\ UNCHANGED <<auth, user, profile>>

(* A handler starts with setCurrentAction, but for these two. *)
Handle(t, a) ==
  LET first == IF a \in {"FindProfile", "UpdateProfile"} THEN "check" ELSE "enter"
  IN  Moves(t, [job[t] EXCEPT !.at = first, !.now = a])

(* WebSession.update puts the parameters of the request into the parser. *)
Begin(t, r) ==
  /\ ~Runs(t)
  /\ served < MaxServed /\ served' = served + 1
  /\ params' = r
  /\ LET lone == \A u \in Thread : ~Runs(u) IN
     /\ job' = [u \in Thread |->
                  IF u = t THEN Job("dispatch", r, lone)
                  ELSE [job[u] EXCEPT !.alone = FALSE]]
     /\ mixed' = (mixed \/ ~lone)
  /\ UNCHANGED <<lesson, session, database, completed, others, outside>>

(* The actions a lesson has registered. *)
Registered == IF lesson = "role" THEN Action \ {"SearchStaff"} ELSE Action

(* No such action. *)
DispatchUnknown(t) ==
  /\ job[t].at = "dispatch" /\ params.action \notin Registered
  /\ Error(t)
  /\ UNCHANGED <<lesson, params, database, completed, history>>

(* Login is open to everybody. *)
DispatchLogin(t) ==
  /\ job[t].at = "dispatch" /\ params.action = "Login"
  /\ Handle(t, "Login")
  /\ UNCHANGED <<lesson, session, params, database, completed, history>>

(* The other actions are not, and are ignored before a login. *)
DispatchPlain(t) ==
  /\ lesson # "role"
  /\ job[t].at = "dispatch" /\ params.action \in Registered \ {"Login"}
  /\ IF auth THEN Handle(t, params.action) ELSE Goes(t, "refused")
  /\ UNCHANGED <<lesson, session, params, database, completed, history>>

(* getUserId and isAuthorized of the lesson go through the action of the page  *)
(* that is shown: there is none for the error page and before the first one.   *)
HasCurrentOrError == page # "none"
HasCurrent == page \in Action

(* Role based access control checks the authorization first. *)
DispatchRole(t) ==
  /\ lesson = "role"
  /\ job[t].at = "dispatch" /\ params.action \in Registered \ {"Login"}
  /\ Moves(t, [job[t] EXCEPT !.at = "defend", !.now = params.action])
  /\ UNCHANGED <<lesson, session, params, database, completed, history>>

(* defendIt reads the action from the parser again, and then the user. *)
Defend(t) ==
  /\ job[t].at = "defend"
  /\ IF params # Request0 /\ HasCurrent /\ user # NoOne
     THEN /\ Moves(t, [job[t] EXCEPT !.at = "authorize", !.asked = params.action,
                                     !.me = user])
          /\ UNCHANGED session
     ELSE Error(t)
  /\ UNCHANGED <<lesson, params, database, completed, history>>

(* A query may find nothing while the tables are rebuilt, and fail whenever    *)
(* the login lesson closes the connection of the user under it.                *)
Answers == BOOLEAN

(* isAuthorized for the action of the second look into the parser, and         *)
(* isAuthorizedForEmployee for the user of the session by now.                 *)
OwnershipOnly(t) == <<user, job[t].me>> \in Ownership
Authorized(t) ==
  /\ <<RoleOf[job[t].me], job[t].asked>> \in Auth
  /\ <<user, job[t].me>> \in Ownership

Authorize(t) ==
  /\ job[t].at = "authorize"
  /\ \/ /\ HasCurrent
        /\ \E answers \in Answers :
             IF answers /\ Authorized(t) /\ auth
             THEN Handle(t, job[t].now) ELSE Goes(t, "refused")
        /\ UNCHANGED session
     \/ ~HasCurrent /\ Error(t)
  /\ UNCHANGED <<lesson, params, database, completed, history>>

-------------------------------------------------------------------------------
(* setCurrentAction.  DeleteProfile reads the user at once. *)
Enter(t) ==
  /\ job[t].at = "enter" /\ job[t].now # "Logout"
  /\ page' = job[t].now
  /\ LET next == IF job[t].now = "Login" THEN "credentials" ELSE "check"
     IN  Moves(t, [job[t] EXCEPT !.at = next, !.me = user])
  /\ UNCHANGED <<lesson, auth, user, profile, params, database, completed, history>>

LogoutStays(t) ==
  /\ job[t].at = "enter" /\ job[t].now = "Logout"
  /\ auth' = FALSE
  /\ Goes(t, "page")
  /\ UNCHANGED <<lesson, user, page, profile, params, database, completed, history>>

(* Logout, chained to Login. *)
Logout(t) ==
  /\ job[t].at = "enter" /\ job[t].now = "Logout"
  /\ auth' = FALSE
  /\ Chain(t, "Login")
  /\ UNCHANGED <<lesson, user, page, profile, params, database, completed, history>>

(* Login without credentials logs the user out. *)
NoCredentials(t) ==
  /\ job[t].at = "credentials"
  /\ params.id = NoOne \/ params.text = "none"
  /\ auth' = FALSE
  /\ Goes(t, "page")
  /\ UNCHANGED <<lesson, user, page, profile, params, database, completed, history>>

(* With credentials, a failure leaves the login of the session as it is. *)
TryLogin(t) ==
  /\ job[t].at = "credentials"
  /\ params.id # NoOne /\ params.text # "none"
  /\ \E answers \in Answers :
       IF answers /\ (lesson = "sql" => LoginFunction)
          /\ params.text = "good" /\ row[params.id] # "gone"
       THEN /\ auth' = TRUE
            /\ Moves(t, [job[t] EXCEPT !.at = "user", !.subject = params.id])
       ELSE UNCHANGED auth /\ Goes(t, "page")
  /\ UNCHANGED <<lesson, user, page, profile, params, database, completed, history>>

(* The session is logged in before it has the user. *)
SetUser(t) ==
  /\ job[t].at = "user"
  /\ user' = job[t].subject
  /\ IF lesson = "sql" THEN Goes(t, "status") ELSE Chain(t, "ListStaff")
  /\ UNCHANGED <<lesson, auth, page, profile, params, database, completed, history>>

(* The fields of a profile, from the parser; cross site scripting takes them   *)
(* from getRequest, which is the request that came last too.                   *)
Fields == params.text

(* The parameters a handler cannot do without. *)
Missing(t) ==
  LET a == job[t].now IN
  \/ a # "SearchStaff" /\ (IF a = "DeleteProfile" THEN job[t].me ELSE user) = NoOne
  \/ a \in {"EditProfile", "CreateProfile", "DeleteProfile"} /\ params.id = NoOne
  \/ a = "ViewProfile" /\ params.id = NoOne /\ job[t].subject = NoOne
  \/ a = "UpdateProfile" /\ Fields \notin {"good", "script"}
  \/ a = "FindProfile" /\ params.text # "good"

(* isAuthenticated: without a login the handler throws, and the page it may    *)
(* have set stays.  DeleteProfile looks at its parameters first.               *)
CheckFails(t) ==
  /\ job[t].at = "check"
  /\ IF Missing(t) /\ (auth \/ job[t].now = "DeleteProfile")
     THEN Error(t)
     ELSE ~auth /\ Goes(t, "refused") /\ UNCHANGED session
  /\ UNCHANGED <<lesson, params, database, completed, history>>

(* A parameter goes before the employee the request has found or changed. *)
Check(t) ==
  /\ job[t].at = "check" /\ auth /\ ~Missing(t)
  /\ IF job[t].now \in {"ListStaff", "SearchStaff"} THEN Goes(t, "page")
     ELSE Moves(t, [job[t] EXCEPT !.at = "act", !.mark = (Fields = "script"),
                      !.subject = IF params.id # NoOne THEN params.id ELSE job[t].subject])
  /\ UNCHANGED <<lesson, session, params, database, completed, history>>

-------------------------------------------------------------------------------
(* The user of the session is passed along, and not the one to look up. *)
ReadProfileOfUser(t) ==
  /\ job[t].at = "act" /\ job[t].now \in {"ViewProfile", "EditProfile", "CreateProfile"}
  /\ Moves(t, [job[t] EXCEPT !.at = "keep", !.got = user])
  /\ UNCHANGED <<lesson, session, params, database, completed, history>>

(* getEmployeeProfile of ViewProfile, EditProfile and CreateProfile. *)
ReadProfile(t) ==
  /\ job[t].at = "act" /\ job[t].now \in {"ViewProfile", "EditProfile", "CreateProfile"}
  /\ \E answers \in Answers :
       LET e == job[t].subject
           found == answers /\ row[e] # "gone" IN
       Moves(t, [job[t] EXCEPT !.at = "keep", !.got = IF found THEN e ELSE NoOne,
                               !.mark = (found /\ row[e] = "script")])
  /\ UNCHANGED <<lesson, session, params, database, completed, history>>

(* The profile goes to the session, also if there is none. *)
Keep(t) ==
  /\ job[t].at = "keep"
  /\ profile' = job[t].got
  /\ Goes(t, IF lesson = "css" /\ job[t].now = "ViewProfile" THEN "status" ELSE "page")
  /\ UNCHANGED <<lesson, auth, user, page, params, database, completed, history>>

(* A write reaches the table, or is lost as the answer of a query may be. *)
Write(new) == row' \in {row, new}

(* The first hit of a pattern: any row, or none. *)
FindProfile(t) ==
  /\ job[t].at = "act" /\ job[t].now = "FindProfile"
  /\ \/ Goes(t, "page")
     \/ \E e \in Employee :
          /\ row[e] # "gone"
          /\ Moves(t, [job[t] EXCEPT !.at = "enter", !.now = "ViewProfile", !.subject = e])
  /\ UNCHANGED <<lesson, session, params, database, completed, history>>

EncodedNowhere(t) == IF job[t].mark THEN "script" ELSE "plain"

(* HtmlEncoder leaves no script in the fields of cross site scripting. *)
Encoded(t) == IF lesson = "css" \/ ~job[t].mark THEN "plain" ELSE "script"

(* changeEmployeeProfile, or without an employee_id createEmployeeProfile,     *)
(* whose INSERT has too few values and always fails.                           *)
UpdateProfile(t) ==
  /\ job[t].at = "act" /\ job[t].now = "UpdateProfile"
  /\ LET e == job[t].subject IN
     IF e \in Employee /\ row[e] # "gone"
     THEN Write([row EXCEPT ![e] = Encoded(t)]) ELSE UNCHANGED row
  /\ Chain(t, "ViewProfile")
  /\ UNCHANGED <<lesson, session, params, building, completed, history>>

(* Role based access control spares the profile of the user. *)
DeleteProfile(t) ==
  /\ job[t].at = "act" /\ job[t].now = "DeleteProfile"
  /\ IF lesson = "role" /\ job[t].me = job[t].subject THEN UNCHANGED row
     ELSE Write([row EXCEPT ![job[t].subject] = "gone"])
  /\ Chain(t, "ListStaff")
  /\ UNCHANGED <<lesson, session, params, building, completed, history>>

-------------------------------------------------------------------------------
(* setStageComplete rebuilds the tables: the initial rows, scripts included.   *)
(* Rebuilds that overlap may lose rows.                                        *)
StartBuild(b) ==
  /\ building' = building \cup {b}
  /\ IF building = {} THEN row' = Fresh
     ELSE \E kept \in SUBSET Employee :
            row' = [e \in Employee |-> IF e \in kept THEN Fresh[e] ELSE "gone"]

(* updateLessonStatus of cross site scripting: a profile that is not there is  *)
(* dereferenced; one of somebody else with a script completes the stage.       *)
StatusCss(t) ==
  /\ lesson = "css" /\ job[t].at = "status"
  /\ IF job[t].got = NoOne THEN Error(t) /\ UNCHANGED <<database, completed>>
     ELSE /\ IF user # job[t].got /\ job[t].mark
             THEN completed' = TRUE /\ StartBuild(t) /\ Goes(t, "rebuild")
             ELSE Goes(t, "page") /\ UNCHANGED <<database, completed>>
          /\ UNCHANGED session
  /\ UNCHANGED <<lesson, params, history>>

(* The login of database injection completes its stage for one employee. *)
StatusSql(t) ==
  /\ lesson = "sql" /\ job[t].at = "status"
  /\ IF job[t].subject = Prize
     THEN completed' = TRUE /\ StartBuild(t) /\ Goes(t, "rebuild")
     ELSE Chain(t, "ListStaff") /\ UNCHANGED <<database, completed>>
  /\ UNCHANGED <<lesson, session, params, history>>

Rebuilt(t) ==
  /\ job[t].at = "rebuild"
  /\ building' = building \ {t}
  /\ IF lesson = "sql" THEN Chain(t, "ListStaff") ELSE Goes(t, "page")
  /\ UNCHANGED <<lesson, session, params, row, completed, history>>

(* The page of the session is shown, and the request ends. *)
Leave(t) ==
  /\ job[t].at \in {"page", "refused"}
  /\ Moves(t, Idle)
  /\ mixed' = (mixed /\ ~(page = "Login" /\ \A u \in Thread \ {t} : ~Runs(u)))
  /\ UNCHANGED <<lesson, session, params, database, completed, counts, outside>>

(* The other lessons of the user: an update, whose address only the database   *)
(* bounds, a deletion, and a rebuild.                                          *)
OtherWrites ==
  /\ others < MaxOthers /\ others' = others + 1
  /\ \E e \in Employee, new \in {"gone", "script"} :
       /\ row[e] # "gone" /\ row' = [row EXCEPT ![e] = new]
       /\ outside' = IF new = "script" THEN outside \cup {e} ELSE outside
  /\ UNCHANGED <<lesson, session, params, building, completed, job, served, mixed>>

OtherBuilds ==
  /\ \/ /\ others < MaxOthers /\ others' = others + 1
        /\ Other \notin building /\ StartBuild(Other)
     \/ /\ Other \in building /\ building' = building \ {Other}
        /\ UNCHANGED <<row, others>>
  /\ UNCHANGED <<lesson, session, params, completed, job, served, mixed, outside>>

Dispatch(t) == DispatchUnknown(t) \/ DispatchLogin(t) \/ DispatchPlain(t) \/ DispatchRole(t)
Login(t)    == NoCredentials(t) \/ TryLogin(t) \/ SetUser(t)
Step(t) ==
  \/ Dispatch(t) \/ Defend(t) \/ Authorize(t) \/ Enter(t) \/ Logout(t) \/ Login(t)
  \/ CheckFails(t) \/ Check(t) \/ ReadProfile(t) \/ Keep(t)
  \/ FindProfile(t) \/ UpdateProfile(t) \/ DeleteProfile(t)
  \/ StatusCss(t) \/ StatusSql(t) \/ Rebuilt(t) \/ Leave(t)

Next ==
  \/ \E t \in Thread : Step(t) \/ \E r \in Requests : Begin(t, r)
  \/ OtherWrites \/ OtherBuilds

Spec == Init /\ [][Next]_vars

-------------------------------------------------------------------------------
(* Nobody is left on a page of a logged in user without a login, as long as    *)
(* the requests of the session came one after the other: a handler sets its    *)
(* page before it checks the login, and Logout clears only the login.          *)
PageNeedsLogin ==
  (\A t \in Thread : ~Runs(t)) /\ ~mixed /\ page \in Functions => auth

(* A lone request that ends in a profile page shows the employee it asked for  *)
(* or found, or nobody: the profile stays in the session when another page is  *)
(* shown, after a logout, and when its row is deleted.                         *)
ShownIsAsked ==
  \A t \in Thread :
    /\ job[t].at = "page" /\ job[t].alone
    /\ job[t].now \in {"ViewProfile", "EditProfile", "CreateProfile"}
    /\ page = job[t].now /\ auth
    => profile \in {job[t].subject, NoOne}

(* In role based access control a lone request writes a row only if the role   *)
(* of the logged in user has the function, and it never deletes their own row. *)
RoleAllows ==
  [][\A t \in Thread :
       lesson = "role" /\ job[t].alone /\ job[t].at = "act" /\ row' # row /\ job' # job
         => /\ auth /\ <<RoleOf[user], job[t].req.action>> \in Auth
            /\ row'[user] = "gone" => row[user] = "gone"]_vars

(* From the error page of role based access control only Login leads on, as    *)
(* its page offers: there is no current action to ask for authorization.       *)
ErrorNeedsLogin ==
  [][\A t \in Thread :
       /\ lesson = "role" /\ page = "error"
       /\ Runs(t) /\ job[t].alone /\ job[t].req.action # "Login"
       => page' = "error" /\ auth' = auth]_vars

(* The stage of cross site scripting is completed only by a profile whose      *)
(* script was in the initial row or was stored by another lesson: the updates  *)
(* of the lesson itself encode what they store, whatever overlaps them.        *)
CompletedFromOutside ==
  [][\A t \in Thread :
       lesson = "css" /\ job[t].at = "status" /\ job'[t].at = "rebuild"
         => job[t].got \in Scripted \cup outside]_vars
===============================================================================
