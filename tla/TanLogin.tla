------------------------------- MODULE TanLogin -------------------------------
(***************************************************************************)
(* The login in two steps of lesson "Multi Level Login" (MultiLevelLogin2, *)
(* createWorkspaceContent and defendIt): a name with its password first, a *)
(* transaction number (TAN) then.  Where the user stands is kept in        *)
(* attributes of the WebSession, which two requests of a browser write at  *)
(* the same time, and both read their parameters from the parser of the    *)
(* session, that is from the request that came last.  One step per         *)
(* attribute or parameter read or written.  Each query ends by closing the *)
(* connection, which all requests of the user share: a query of another    *)
(* thread that has the connection already fails, and its exception is      *)
(* caught.                                                                 *)
(*                                                                         *)
(* The number of the TAN to ask for (CURRENTTANPOS, login_count) is stored *)
(* but decides nothing, as getCurrentTanPosition says 1 whatever it reads: *)
(* it is left out, and with it updateTan, resetTans and getTanPosition,    *)
(* and the number of a user is always that user's first.                   *)
(***************************************************************************)
EXTENDS Naturals

CONSTANTS
  Thread,     (* the threads of the container                              *)
  User,       (* the names in the table user_data_tan                      *)
  HasTan,     (* those with transaction numbers in the table tan           *)
  Requests,   (* the requests the pages of the lesson send                 *)
  MaxServed   (* bound on the requests                                     *)

(* A password and a number are told apart by whose they are. *)
Text    == User \cup {"", "wrong"}
Request == [user : User \cup {""}, password : Text, tan : Text, logout : BOOLEAN]
Visit   == [user |-> "", password |-> "", tan |-> "", logout |-> FALSE]

ASSUME TanAssumption ==
  /\ User \cap {"", "wrong", "unset"} = {} /\ HasTan \subseteq User
  /\ Requests \subseteq Request /\ MaxServed \in Nat
  /\ \A r \in Requests : r.user = "" \/ r.tan = ""   (* no form has both *)

VARIABLES
  loggedIn,      (* LOGGEDIN is "true"                                     *)
  correct,       (* CORRECTTAN is "true"                                   *)
  loggedInUser,  (* LOGGEDINUSER                                           *)
  currentTan,    (* CURRENTTAN: the number that is asked for               *)
  completed,     (* makeSuccess was called                                 *)
  parser,        (* the thread whose request the parser reads              *)
  request,       (* the request of each thread                             *)
  at,            (* where each thread is                                   *)
  user, password, tan,  (* what each has read                              *)
  page,          (* what each has answered last                            *)
  served,        (* the number of requests so far                          *)
  known,         (* history: users logged in by their password             *)
  accepted,      (* history: users whose number was accepted               *)
  mixed          (* history: requests have overlapped since the last       *)
                 (* logout that was served alone                           *)

session    == <<loggedIn, correct, loggedInUser, currentTan>>
parameters == <<user, password, tan>>
history    == <<known, accepted, mixed>>
vars == <<session, completed, parser, request, at, parameters, page, served, history>>

Places == {"idle", "user", "password", "tan", "right", "compare", "accept", "wrong", "differs",
           "reject", "login", "name", "fetch", "logout", "forget", "defend", "both", "leave",
           "clear", "account", "ask", "lost", "empty"}

(* Where a thread may be in correctLogin, getTanPosition, getTan, updateTan *)
(* or getUser.                                                             *)
Querying == {"login", "fetch", "lost", "account", "empty"}

TypeOK ==
  /\ loggedIn \in BOOLEAN /\ correct \in BOOLEAN /\ completed \in BOOLEAN
  /\ loggedInUser \in User \cup {"", "unset"} /\ currentTan \in HasTan \cup {"", "unset"}
  /\ parser \in Thread /\ request \in [Thread -> Requests \cup {Visit}] /\ at \in [Thread -> Places]
  /\ user \in [Thread -> User \cup {""}]
  /\ password \in [Thread -> Text] /\ tan \in [Thread -> Text]
  /\ page \in [Thread -> {"none", "login", "ask", "account", "error"}]
  /\ served \in 0..MaxServed
  /\ known \subseteq User /\ accepted \subseteq Text /\ mixed \in BOOLEAN

Init ==
  /\ loggedIn = FALSE /\ correct = FALSE /\ completed = FALSE
  /\ loggedInUser = "unset" /\ currentTan = "unset"
  /\ parser \in Thread
  /\ request = [t \in Thread |-> Visit] /\ at = [t \in Thread |-> "idle"]
  /\ user = [t \in Thread |-> ""]
  /\ password = [t \in Thread |-> ""] /\ tan = [t \in Thread |-> ""]
  /\ page = [t \in Thread |-> "none"] /\ served = 0
  /\ known = {} /\ accepted = {} /\ mixed = FALSE

-----------------------------------------------------------------------------
Goto(t, from, to) == at[t] = from /\ at' = [at EXCEPT ![t] = to]
Others(t) == {u \in Thread \ {t} : at[u] # "idle"}

(* The container recycles a request that was answered. *)
Parameters == {request[parser]} \cup (IF at[parser] = "idle" THEN {Visit} ELSE {})

Begin(t, r) ==
  /\ served < MaxServed /\ Goto(t, "idle", "user")
  /\ parser' = t /\ request' = [request EXCEPT ![t] = r] /\ page' = [page EXCEPT ![t] = "none"]
  /\ served' = served + 1
  /\ mixed' = (mixed \/ Others(t) # {})
  /\ UNCHANGED <<session, completed, parameters, known, accepted>>

Answer(t, from, p) ==
  /\ Goto(t, from, "idle") /\ page' = [page EXCEPT ![t] = p]
  /\ user' = [user EXCEPT ![t] = ""]
  /\ password' = [password EXCEPT ![t] = ""] /\ tan' = [tan EXCEPT ![t] = ""]
  /\ mixed' = (mixed /\ (Others(t) # {} \/ parser # t \/ ~request[t].logout))

ReadUser(t) ==
  /\ Goto(t, "user", "password")
  /\ \E p \in Parameters : user' = [user EXCEPT ![t] = p.user]
  /\ UNCHANGED <<session, completed, parser, request, password, tan, page, served, history>>

ReadPassword(t) ==
  /\ Goto(t, "password", "tan")
  /\ \E p \in Parameters : password' = [password EXCEPT ![t] = p.password]
  /\ UNCHANGED <<session, completed, parser, request, user, tan, page, served, history>>

ReadTan(t) ==
  /\ Goto(t, "tan", "right")
  /\ \E p \in Parameters : tan' = [tan EXCEPT ![t] = p.tan]
  /\ UNCHANGED <<session, completed, parser, request, user, password, page, served, history>>

(* loggedIn(s) of the two conditions on the number that came *)
AskLoggedIn(t) ==
  /\ \/ Goto(t, "right", IF loggedIn THEN "compare" ELSE "wrong")
     \/ Goto(t, "wrong", IF loggedIn THEN "differs" ELSE "login")
  /\ UNCHANGED <<session, completed, parser, request, parameters, page, served, history>>

(* correctTan(tan, s).  A login of another request sets LOGGEDIN first and *)
(* CURRENTTAN last: in between, the number may not be there at all.        *)
IsCorrect(t) == currentTan # "" /\ tan[t] = currentTan
Compare(t) ==
  /\ currentTan # "unset"
  /\ \/ Goto(t, "compare", IF IsCorrect(t) THEN "accept" ELSE "wrong")
     \/ Goto(t, "differs", IF IsCorrect(t) THEN "login" ELSE "reject")
  /\ UNCHANGED <<session, completed, parser, request, parameters, page, served, history>>

CompareWithNothing(t) ==
  /\ currentTan = "unset"
  /\ Answer(t, "compare", "error") \/ Answer(t, "differs", "error")
  /\ UNCHANGED <<session, completed, parser, request, served, known, accepted>>

Accept(t) ==
  /\ Goto(t, "accept", "login")
  /\ correct' = TRUE
  /\ accepted' = accepted \cup {tan[t]}
  /\ UNCHANGED <<loggedIn, loggedInUser, currentTan, completed, parser, request, parameters, page,
                 served, known, mixed>>

Reject(t) ==
  /\ Goto(t, "reject", "login")
  /\ loggedIn' = FALSE
  /\ UNCHANGED <<correct, loggedInUser, currentTan, completed, parser, request, parameters, page,
                 served, history>>

(* correctLogin, and the attributes one after the other *)
RightPassword(t) == user[t] \in User /\ password[t] = user[t]
LogIn(t) ==
  /\ RightPassword(t) /\ Goto(t, "login", "name")
  /\ loggedIn' = TRUE
  /\ known' = known \cup {user[t]}
  /\ UNCHANGED <<correct, loggedInUser, currentTan, completed, parser, request, parameters, page,
                 served, accepted, mixed>>

NoLogIn(t) ==
  /\ ~RightPassword(t) /\ Goto(t, "login", "logout")
  /\ UNCHANGED <<session, completed, parser, request, parameters, page, served, history>>

SetName(t) ==
  /\ Goto(t, "name", "fetch")
  /\ loggedInUser' = user[t]
  /\ UNCHANGED <<loggedIn, correct, currentTan, completed, parser, request, parameters, page, served,
                 history>>

(* A mutant: a user without numbers is asked for one all the same. *)
SetTanAlways(t) ==
  /\ Goto(t, "fetch", "logout")
  /\ currentTan' = user[t]
  /\ UNCHANGED <<loggedIn, correct, loggedInUser, completed, parser, request, parameters, page,
                 served, history>>

(* getTan finds nothing for a user without numbers. *)
SetTan(t) ==
  /\ Goto(t, "fetch", "logout")
  /\ currentTan' = IF user[t] \in HasTan THEN user[t] ELSE ""
  /\ UNCHANGED <<loggedIn, correct, loggedInUser, completed, parser, request, parameters, page,
                 served, history>>

(* The connection is closed under a query: no login, number or account.   *)
CloseUnder(t) ==
  /\ \E u \in Others(t) : at[u] \in Querying
  /\ Goto(t, "login", "logout") \/ Goto(t, "fetch", "lost") \/ Goto(t, "account", "empty")
  /\ UNCHANGED <<session, completed, parser, request, parameters, page, served, history>>

SetNoTan(t) ==
  /\ Goto(t, "lost", "logout")
  /\ currentTan' = ""
  /\ UNCHANGED <<loggedIn, correct, loggedInUser, completed, parser, request, parameters, page,
                 served, history>>

LogOut(t) ==
  /\ \E p \in Parameters :
       /\ Goto(t, "logout", IF p.logout THEN "forget" ELSE "defend")
       /\ loggedIn' = (loggedIn /\ ~p.logout)
  /\ UNCHANGED <<correct, loggedInUser, currentTan, completed, parser, request, parameters, page,
                 served, history>>

(* A mutant: the logout keeps the accepted number. *)
ForgetNothing(t) ==
  /\ Goto(t, "forget", "defend")
  /\ UNCHANGED <<session, completed, parser, request, parameters, page, served, history>>

Forget(t) ==
  /\ Goto(t, "forget", "defend")
  /\ correct' = FALSE
  /\ UNCHANGED <<loggedIn, loggedInUser, currentTan, completed, parser, request, parameters, page,
                 served, history>>

(* A mutant: the number is not asked for any more. *)
DefendLoggedIn(t) ==
  /\ \/ Goto(t, "defend", IF loggedIn THEN "leave" ELSE "ask")
     \/ Goto(t, "both", IF correct THEN "leave" ELSE "ask")
  /\ UNCHANGED <<session, completed, parser, request, parameters, page, served, history>>

(* defendIt: both steps are done, or the number is missing, or both are. *)
Defend(t) ==
  /\ \/ Goto(t, "defend", IF loggedIn THEN "both" ELSE "ask")
     \/ Goto(t, "both", IF correct THEN "leave" ELSE "ask")
  /\ UNCHANGED <<session, completed, parser, request, parameters, page, served, history>>

Leave(t) ==
  /\ Goto(t, "leave", "clear")
  /\ loggedIn' = FALSE
  /\ UNCHANGED <<correct, loggedInUser, currentTan, completed, parser, request, parameters, page,
                 served, history>>

Clear(t) ==
  /\ Goto(t, "clear", "account")
  /\ correct' = FALSE
  /\ UNCHANGED <<loggedIn, loggedInUser, currentTan, completed, parser, request, parameters, page,
                 served, history>>

(* createSuccessfulLoginContent, for the name among the parameters: the    *)
(* form for the number sends none, and then no row is found to compare.    *)
ShowAccount(t) ==
  /\ Answer(t, "account", "account")
  /\ completed' = (completed \/ (user[t] \in User /\ user[t] # loggedInUser))
  /\ UNCHANGED <<session, parser, request, served, known, accepted>>

(* getUser returned null: the page of the account without what is in it.  *)
ShowNothing(t) ==
  /\ Answer(t, "empty", "account")
  /\ UNCHANGED <<session, completed, parser, request, served, known, accepted>>

AskOrStart(t) ==
  /\ Answer(t, "ask", IF loggedIn THEN "ask" ELSE "login")
  /\ UNCHANGED <<session, completed, parser, request, served, known, accepted>>

Step(t) ==
  \/ ReadUser(t) \/ ReadPassword(t) \/ ReadTan(t)
  \/ AskLoggedIn(t) \/ Compare(t) \/ CompareWithNothing(t) \/ Accept(t) \/ Reject(t)
  \/ LogIn(t) \/ NoLogIn(t) \/ SetName(t) \/ SetTan(t) \/ LogOut(t) \/ Forget(t)
  \/ CloseUnder(t) \/ SetNoTan(t)
  \/ Defend(t) \/ Leave(t) \/ Clear(t) \/ ShowAccount(t) \/ ShowNothing(t) \/ AskOrStart(t)

Next == \E t \in Thread : Step(t) \/ \E r \in Requests : Begin(t, r)

Spec == Init /\ [][Next]_vars

-----------------------------------------------------------------------------
(* Whatever overlaps, nobody sees an account before a right password and   *)
(* then the number of the user it belongs to were given in this session.   *)
PageNeedsBoth ==
  /\ accepted \subseteq known \cap HasTan
  /\ \A t \in Thread : at[t] \in {"leave", "clear", "account", "empty"} \/ page[t] = "account" =>
       accepted # {}

(* As long as requests do not overlap, and again after they did from the   *)
(* first logout on that is served alone: between requests the mark of an   *)
(* accepted number is gone, so that a number has to be entered again       *)
(* before the next account is shown (the same one serves again, see        *)
(* TanUsedOnce); the number asked for is that of the user logged in; the   *)
(* account shown answers the number of that user; and no request ends in   *)
(* an error.                                                               *)
LoneIsExact ==
  ~mixed =>
    /\ (\A t \in Thread : at[t] = "idle") =>
         ~correct /\ (loggedIn => currentTan = IF loggedInUser \in HasTan THEN loggedInUser ELSE "")
    /\ \A t \in Thread : at[t] = "account" => request[t].tan = loggedInUser
    /\ \A t \in Thread : at[t] \in {"compare", "differs"} => currentTan # "unset"

(* What the comment of updateTan says: "Every tan should be used only      *)
(* once."  It does not hold: every login asks for the first number of the  *)
(* user, so the number accepted before is accepted again.                  *)
TanUsedOnce == \A t \in Thread : at[t] = "accept" => tan[t] \notin accepted
=============================================================================
