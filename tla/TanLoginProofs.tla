---------------------------- MODULE TanLoginProofs ----------------------------
(***************************************************************************)
(* Proofs about TanLogin, for any number of threads, users and requests:   *)
(* its state keeps its type, and no account is shown without a password    *)
(* and a number, whatever overlaps.                                        *)
(***************************************************************************)
EXTENDS TanLogin, TLAPS

LEMMA TypeInit == Init => TypeOK
<1> SUFFICES ASSUME Init PROVE TypeOK
  OBVIOUS
<1>1. /\ request \in [Thread -> Requests \cup {Visit}] /\ at \in [Thread -> Places]
      /\ page \in [Thread -> {"none", "login", "ask", "account", "error"}]
  BY DEF Init, Places
<1>2. /\ user \in [Thread -> User \cup {""}]
      /\ password \in [Thread -> Text] /\ tan \in [Thread -> Text]
  BY DEF Init, Text
<1>3. MaxServed \in Nat
  BY TanAssumption
<1>4. served \in 0..MaxServed
  <2>1. served = 0
    BY DEF Init
  <2>2. QED BY <1>3, <2>1
<1>5. /\ loggedIn \in BOOLEAN /\ correct \in BOOLEAN /\ completed \in BOOLEAN
      /\ mixed \in BOOLEAN /\ parser \in Thread
      /\ loggedInUser \in {"", "unset"} /\ currentTan \in {"", "unset"}
      /\ known \subseteq User /\ accepted \subseteq Text
  BY DEF Init
<1>6. QED BY <1>1, <1>2, <1>4, <1>5 DEF TypeOK

(* Where a thread goes is a place, if the step says so. *)
LEMMA TypeGoto ==
  ASSUME TypeOK, NEW t \in Thread, NEW from, NEW to \in Places, Goto(t, from, to)
  PROVE  at' \in [Thread -> Places] /\ at[t] = from /\ at'[t] = to
         /\ \A u \in Thread \ {t} : at'[u] = at[u]
BY DEF TypeOK, Goto

LEMMA ParametersType ==
  ASSUME TypeOK
  PROVE  Parameters \subseteq Requests \cup {Visit} /\ Requests \cup {Visit} \subseteq Request
<1>1. Visit \in Request
  BY DEF Visit, Request, Text
<1>2. Requests \subseteq Request
  BY TanAssumption
<1>3. request[parser] \in Requests \cup {Visit}
  BY DEF TypeOK
<1>4. QED BY <1>1, <1>2, <1>3 DEF Parameters

LEMMA TypeAnswer ==
  ASSUME TypeOK, NEW t \in Thread, NEW from,
         NEW p \in {"login", "ask", "account", "error"}, Answer(t, from, p)
  PROVE  /\ at' \in [Thread -> Places] /\ mixed' \in BOOLEAN
         /\ page' \in [Thread -> {"none", "login", "ask", "account", "error"}]
         /\ user' \in [Thread -> User \cup {""}]
         /\ password' \in [Thread -> Text] /\ tan' \in [Thread -> Text]
<1>1. "idle" \in Places
  BY DEF Places
<1>2. at' \in [Thread -> Places]
  BY <1>1, TypeGoto DEF Answer
<1>3. mixed' \in BOOLEAN
  BY DEF Answer, TypeOK
<1>4. QED BY <1>2, <1>3 DEF Answer, TypeOK, Text

LEMMA TypeBegin ==
  ASSUME TypeOK, NEW t \in Thread, NEW r \in Requests, Begin(t, r)
  PROVE  TypeOK'
<1>1. at' \in [Thread -> Places]
  BY TypeGoto DEF Begin, Places
<1>2. served' \in 0..MaxServed
  <2>1. served \in 0..MaxServed /\ served < MaxServed /\ served' = served + 1 /\ MaxServed \in Nat
    BY TanAssumption DEF TypeOK, Begin
  <2>2. QED BY <2>1
<1>3. mixed' \in BOOLEAN
  BY DEF TypeOK, Begin
<1>4. request' \in [Thread -> Requests \cup {Visit}]
  BY DEF TypeOK, Begin
<1>5. page' \in [Thread -> {"none", "login", "ask", "account", "error"}]
  BY DEF TypeOK, Begin
<1>6. QED BY <1>1, <1>2, <1>3, <1>4, <1>5 DEF TypeOK, Begin, session, parameters

LEMMA TypeStep ==
  ASSUME TypeOK, NEW t \in Thread, Step(t)
  PROVE  TypeOK'
<1> USE DEF session, parameters, history
<1>0. Parameters \subseteq Request
  BY ParametersType
<1>1. ASSUME NEW from, NEW to \in Places, Goto(t, from, to) PROVE at' \in [Thread -> Places]
  BY <1>1, TypeGoto
<1>2. CASE ReadUser(t)
  <2>1. PICK p \in Request : user' = [user EXCEPT ![t] = p.user]
    BY <1>0, <1>2 DEF ReadUser
  <2>2. p.user \in User \cup {""}
    BY <2>1 DEF Request
  <2>3. user' \in [Thread -> User \cup {""}]
    BY <2>1, <2>2 DEF TypeOK
  <2>4. at' \in [Thread -> Places]
    BY <1>1, <1>2 DEF ReadUser, Places
  <2>5. QED BY <1>2, <2>3, <2>4 DEF ReadUser, TypeOK
<1>3. CASE ReadPassword(t)
  <2>1. PICK p \in Request : password' = [password EXCEPT ![t] = p.password]
    BY <1>0, <1>3 DEF ReadPassword
  <2>2. p.password \in Text
    BY <2>1 DEF Request
  <2>3. password' \in [Thread -> Text]
    BY <2>1, <2>2 DEF TypeOK
  <2>4. at' \in [Thread -> Places]
    BY <1>1, <1>3 DEF ReadPassword, Places
  <2>5. QED BY <1>3, <2>3, <2>4 DEF ReadPassword, TypeOK
<1>4. CASE ReadTan(t)
  <2>1. PICK p \in Request : tan' = [tan EXCEPT ![t] = p.tan]
    BY <1>0, <1>4 DEF ReadTan
  <2>2. p.tan \in Text
    BY <2>1 DEF Request
  <2>3. tan' \in [Thread -> Text]
    BY <2>1, <2>2 DEF TypeOK
  <2>4. at' \in [Thread -> Places]
    BY <1>1, <1>4 DEF ReadTan, Places
  <2>5. QED BY <1>4, <2>3, <2>4 DEF ReadTan, TypeOK
<1>5. CASE AskLoggedIn(t)
  <2>1. at' \in [Thread -> Places]
    BY <1>1, <1>5 DEF AskLoggedIn, Places
  <2>2. QED BY <1>5, <2>1 DEF AskLoggedIn, TypeOK
<1>6. CASE Compare(t)
  <2>1. at' \in [Thread -> Places]
    BY <1>1, <1>6 DEF Compare, Places
  <2>2. QED BY <1>6, <2>1 DEF Compare, TypeOK
<1>7. CASE CompareWithNothing(t)
  <2>1. PICK from : Answer(t, from, "error")
    BY <1>7 DEF CompareWithNothing
  <2>2. QED BY <1>7, <2>1, TypeAnswer DEF CompareWithNothing, TypeOK
<1>8. CASE Accept(t)
  <2>1. at' \in [Thread -> Places]
    BY <1>1, <1>8 DEF Accept, Places
  <2>2. accepted' \subseteq Text
    BY <1>8 DEF Accept, TypeOK
  <2>3. QED BY <1>8, <2>1, <2>2 DEF Accept, TypeOK
<1>9. CASE LogIn(t)
  <2>1. at' \in [Thread -> Places]
    BY <1>1, <1>9 DEF LogIn, Places
  <2>2. known' \subseteq User
    BY <1>9 DEF LogIn, RightPassword, TypeOK
  <2>3. QED BY <1>9, <2>1, <2>2 DEF LogIn, TypeOK
<1>10. CASE SetName(t)
  <2>1. at' \in [Thread -> Places]
    BY <1>1, <1>10 DEF SetName, Places
  <2>2. QED BY <1>10, <2>1 DEF SetName, TypeOK
<1>11. CASE SetTan(t)
  <2>1. at' \in [Thread -> Places]
    BY <1>1, <1>11 DEF SetTan, Places
  <2>2. QED BY <1>11, <2>1 DEF SetTan, TypeOK
<1>12. CASE Reject(t) \/ NoLogIn(t) \/ Forget(t) \/ Leave(t) \/ Clear(t)
  <2>1. at' \in [Thread -> Places]
    BY <1>1, <1>12 DEF Reject, NoLogIn, Forget, Leave, Clear, Places
  <2>2. QED BY <1>12, <2>1 DEF Reject, NoLogIn, Forget, Leave, Clear, TypeOK
<1>13. CASE LogOut(t)
  <2>1. at' \in [Thread -> Places]
    BY <1>1, <1>13 DEF LogOut, Places
  <2>2. loggedIn' \in BOOLEAN
    BY <1>13 DEF LogOut
  <2>3. QED BY <1>13, <2>1, <2>2 DEF LogOut, TypeOK
<1>14. CASE Defend(t)
  <2>1. at' \in [Thread -> Places]
    BY <1>1, <1>14 DEF Defend, Places
  <2>2. QED BY <1>14, <2>1 DEF Defend, TypeOK
<1>15. CASE ShowAccount(t)
  <2>1. Answer(t, "account", "account") /\ completed' \in BOOLEAN
    BY <1>15 DEF ShowAccount
  <2>2. QED BY <1>15, <2>1, TypeAnswer DEF ShowAccount, TypeOK
<1>16. CASE AskOrStart(t)
  <2>1. PICK p \in {"ask", "login"} : Answer(t, "ask", p)
    BY <1>16 DEF AskOrStart
  <2>2. QED BY <1>16, <2>1, TypeAnswer DEF AskOrStart, TypeOK
<1>17. CASE CloseUnder(t)
  <2>1. at' \in [Thread -> Places]
    BY <1>1, <1>17 DEF CloseUnder, Places
  <2>2. QED BY <1>17, <2>1 DEF CloseUnder, TypeOK
<1>18. CASE SetNoTan(t)
  <2>1. at' \in [Thread -> Places]
    BY <1>1, <1>18 DEF SetNoTan, Places
  <2>2. QED BY <1>18, <2>1 DEF SetNoTan, TypeOK
<1>19. CASE ShowNothing(t)
  BY <1>19, TypeAnswer DEF ShowNothing, TypeOK
<1>20. QED
  BY <1>2, <1>3, <1>4, <1>5, <1>6, <1>7, <1>8, <1>9, <1>10, <1>11, <1>12, <1>13, <1>14, <1>15,
     <1>16, <1>17, <1>18, <1>19 DEF Step

(* The session, the threads and what they have read are of their types.    *)
THEOREM TypeCorrect == Spec => []TypeOK
<1>1. TypeOK /\ [Next]_vars => TypeOK'
  <2> SUFFICES ASSUME TypeOK, [Next]_vars PROVE TypeOK'
    OBVIOUS
  <2>1. ASSUME NEW t \in Thread, NEW r \in Requests, Begin(t, r) PROVE TypeOK'
    BY <2>1, TypeBegin
  <2>2. ASSUME NEW t \in Thread, Step(t) PROVE TypeOK'
    BY <2>2, TypeStep
  <2>3. CASE UNCHANGED vars
    BY <2>3 DEF TypeOK, vars, session, parameters, history
  <2>4. QED BY <2>1, <2>2, <2>3 DEF Next
<1>2. QED BY <1>1, TypeInit, PTL DEF Spec

-----------------------------------------------------------------------------
(* What is asked for, and what is accepted, belongs to somebody who logged *)
(* in before; without an accepted number nothing is marked as correct.     *)
BothInv ==
  /\ currentTan \in {"", "unset"} \cup (known \cap HasTan)
  /\ \A t \in Thread : at[t] \in {"name", "fetch", "lost"} => user[t] \in known
  /\ \A t \in Thread : at[t] = "accept" => tan[t] \in known \cap HasTan
  /\ correct => accepted # {}
  /\ PageNeedsBoth

LEMMA BothInit == Init => BothInv
BY DEF Init, BothInv, PageNeedsBoth

LEMMA BothAnswer ==
  ASSUME TypeOK, BothInv, NEW t \in Thread, NEW from, NEW p, Answer(t, from, p),
         p = "account" => accepted # {},
         UNCHANGED <<session, known, accepted>>
  PROVE  BothInv'
<1>1. /\ at' = [at EXCEPT ![t] = "idle"] /\ page' = [page EXCEPT ![t] = p]
      /\ user' = [user EXCEPT ![t] = ""] /\ tan' = [tan EXCEPT ![t] = ""]
  BY DEF Answer, Goto
<1>2. \A u \in Thread : at'[u] # "idle" => u # t /\ at'[u] = at[u] /\ user'[u] = user[u] /\ tan'[u] = tan[u]
  BY <1>1 DEF TypeOK
<1>3. \A u \in Thread : page'[u] = "account" => page[u] = "account" \/ p = "account"
  BY <1>1 DEF TypeOK
<1>4. PageNeedsBoth'
  BY <1>2, <1>3 DEF BothInv, PageNeedsBoth, session
<1>5. QED BY <1>2, <1>4 DEF BothInv, session

LEMMA BothBegin ==
  ASSUME TypeOK, BothInv, NEW t \in Thread, NEW r \in Requests, Begin(t, r)
  PROVE  BothInv'
BY DEF Begin, Goto, BothInv, PageNeedsBoth, TypeOK, session, parameters

LEMMA BothStep ==
  ASSUME TypeOK, BothInv, NEW t \in Thread, Step(t)
  PROVE  BothInv'
<1> USE DEF session, parameters, history
<1>1. CASE ReadUser(t)
  BY <1>1 DEF ReadUser, Goto, BothInv, PageNeedsBoth, TypeOK
<1>2. CASE ReadPassword(t)
  BY <1>2 DEF ReadPassword, Goto, BothInv, PageNeedsBoth, TypeOK
<1>3. CASE ReadTan(t)
  BY <1>3 DEF ReadTan, Goto, BothInv, PageNeedsBoth, TypeOK
<1>4. CASE AskLoggedIn(t)
  BY <1>4, ZenonT(30) DEF AskLoggedIn, Goto, BothInv, PageNeedsBoth, TypeOK
<1>5. CASE Compare(t)
  BY <1>5, ZenonT(30) DEF Compare, IsCorrect, Goto, BothInv, PageNeedsBoth, TypeOK
<1>6. CASE Accept(t)
  BY <1>6 DEF Accept, Goto, BothInv, PageNeedsBoth, TypeOK
<1>7. CASE Reject(t)
  BY <1>7 DEF Reject, Goto, BothInv, PageNeedsBoth, TypeOK
<1>8. CASE LogIn(t)
  BY <1>8 DEF LogIn, Goto, BothInv, PageNeedsBoth, TypeOK
<1>9. CASE NoLogIn(t)
  BY <1>9 DEF NoLogIn, Goto, BothInv, PageNeedsBoth, TypeOK
<1>10. CASE SetName(t)
  BY <1>10 DEF SetName, Goto, BothInv, PageNeedsBoth, TypeOK
<1>11. CASE SetTan(t)
  BY <1>11 DEF SetTan, Goto, BothInv, PageNeedsBoth, TypeOK
<1>12. CASE LogOut(t)
  BY <1>12 DEF LogOut, Goto, BothInv, PageNeedsBoth, TypeOK
<1>13. CASE Forget(t)
  BY <1>13 DEF Forget, Goto, BothInv, PageNeedsBoth, TypeOK
<1>14. CASE Defend(t)
  BY <1>14, ZenonT(30) DEF Defend, Goto, BothInv, PageNeedsBoth, TypeOK
<1>15. CASE Leave(t)
  BY <1>15 DEF Leave, Goto, BothInv, PageNeedsBoth, TypeOK
<1>16. CASE Clear(t)
  BY <1>16 DEF Clear, Goto, BothInv, PageNeedsBoth, TypeOK
<1>17. CASE CompareWithNothing(t)
  BY <1>17, BothAnswer DEF CompareWithNothing
<1>18. CASE ShowAccount(t)
  <2>1. accepted # {}
    BY <1>18 DEF ShowAccount, Answer, Goto, BothInv, PageNeedsBoth
  <2>2. QED BY <1>18, <2>1, BothAnswer DEF ShowAccount
<1>19. CASE AskOrStart(t)
  BY <1>19, BothAnswer DEF AskOrStart
<1>20. CASE CloseUnder(t)
  BY <1>20 DEF CloseUnder, Goto, BothInv, PageNeedsBoth, TypeOK
<1>21. CASE SetNoTan(t)
  BY <1>21 DEF SetNoTan, Goto, BothInv, PageNeedsBoth, TypeOK
<1>22. CASE ShowNothing(t)
  <2>1. accepted # {}
    BY <1>22 DEF ShowNothing, Answer, Goto, BothInv, PageNeedsBoth
  <2>2. QED BY <1>22, <2>1, BothAnswer DEF ShowNothing
<1>23. QED
  BY <1>1, <1>2, <1>3, <1>4, <1>5, <1>6, <1>7, <1>8, <1>9, <1>10, <1>11, <1>12, <1>13, <1>14, <1>15,
     <1>16, <1>17, <1>18, <1>19, <1>20, <1>21, <1>22 DEF Step

(* Whatever overlaps, no account is shown before a right password and the  *)
(* number of its user were given in the session.                           *)
THEOREM AccountNeedsBoth == Spec => []PageNeedsBoth
<1>1. TypeOK /\ BothInv /\ [Next]_vars => BothInv'
  <2> SUFFICES ASSUME TypeOK, BothInv, [Next]_vars PROVE BothInv'
    OBVIOUS
  <2>1. ASSUME NEW t \in Thread, NEW r \in Requests, Begin(t, r) PROVE BothInv'
    BY <2>1, BothBegin
  <2>2. ASSUME NEW t \in Thread, Step(t) PROVE BothInv'
    BY <2>2, BothStep
  <2>3. CASE UNCHANGED vars
    BY <2>3 DEF BothInv, PageNeedsBoth, vars, session, parameters, history
  <2>4. QED BY <2>1, <2>2, <2>3 DEF Next
<1>2. BothInv => PageNeedsBoth
  BY DEF BothInv
<1>3. QED BY <1>1, <1>2, BothInit, TypeCorrect, PTL DEF Spec
-----------------------------------------------------------------------------
(* Requests alone.  A logout sees to it that nobody is logged in and no    *)
(* number kept, but for what the threads do that have still to pass it:    *)
(* they all read its parameter.                                            *)
Early == {"user", "password", "tan", "right", "compare", "accept", "wrong", "differs", "reject",
          "login", "name", "fetch", "lost", "logout"}

LogoutInv ==
  at[parser] # "idle" /\ request[parser].logout =>
    /\ loggedIn => \E u \in Thread : at[u] \in Early
    /\ correct  => \E u \in Thread : at[u] \in Early \cup {"forget"}

(* Before the first number is there, nothing was accepted, and somebody    *)
(* logged in is about to set it.                                           *)
UnsetInv ==
  currentTan = "unset" =>
    /\ ~correct /\ \A u \in Thread : at[u] # "accept"
    /\ loggedIn => \E u \in Thread : at[u] \in {"name", "fetch", "lost"}

LEMMA NobodyIsEmpty == "" \notin User
BY TanAssumption

LEMMA NumberIsThere == \A u \in HasTan : u \in User /\ u \notin {"", "wrong", "unset"}
BY TanAssumption

LEMMA UnsetStep ==
  ASSUME TypeOK, BothInv, UnsetInv, NEW t \in Thread, Step(t)
  PROVE  UnsetInv'
<1> USE DEF session, parameters, history
<1>1. CASE ReadUser(t)
  BY <1>1 DEF ReadUser, Goto, UnsetInv, TypeOK
<1>2. CASE ReadPassword(t)
  BY <1>2 DEF ReadPassword, Goto, UnsetInv, TypeOK
<1>3. CASE ReadTan(t)
  BY <1>3 DEF ReadTan, Goto, UnsetInv, TypeOK
<1>4. CASE AskLoggedIn(t)
  BY <1>4 DEF AskLoggedIn, Goto, UnsetInv, TypeOK
<1>5. CASE Compare(t)
  BY <1>5 DEF Compare, IsCorrect, Goto, UnsetInv, TypeOK
<1>6. CASE Accept(t)
  BY <1>6 DEF Accept, Goto, UnsetInv, TypeOK
<1>7. CASE Reject(t)
  BY <1>7 DEF Reject, Goto, UnsetInv, TypeOK
<1>8. CASE LogIn(t)
  BY <1>8 DEF LogIn, Goto, UnsetInv, TypeOK
<1>9. CASE NoLogIn(t)
  BY <1>9 DEF NoLogIn, Goto, UnsetInv, TypeOK
<1>10. CASE SetName(t)
  BY <1>10 DEF SetName, Goto, UnsetInv, TypeOK
<1>11. CASE SetTan(t)
  <2>1. currentTan' # "unset"
    BY <1>11, NumberIsThere DEF SetTan
  <2>2. QED BY <2>1 DEF UnsetInv
<1>12. CASE LogOut(t)
  BY <1>12, ZenonT(30) DEF LogOut, Parameters, Goto, UnsetInv, TypeOK
<1>13. CASE Forget(t)
  BY <1>13 DEF Forget, Goto, UnsetInv, TypeOK
<1>14. CASE Defend(t)
  BY <1>14 DEF Defend, Goto, UnsetInv, TypeOK
<1>15. CASE Leave(t)
  BY <1>15 DEF Leave, Goto, UnsetInv, TypeOK
<1>16. CASE Clear(t)
  BY <1>16 DEF Clear, Goto, UnsetInv, TypeOK
<1>17. CASE CompareWithNothing(t)
  BY <1>17, ZenonT(30) DEF CompareWithNothing, Answer, Goto, UnsetInv, TypeOK
<1>18. CASE ShowAccount(t)
  BY <1>18 DEF ShowAccount, Answer, Goto, UnsetInv, TypeOK
<1>19. CASE AskOrStart(t)
  BY <1>19 DEF AskOrStart, Answer, Goto, UnsetInv, TypeOK
<1>20. CASE CloseUnder(t)
  BY <1>20 DEF CloseUnder, Goto, UnsetInv, TypeOK
<1>21. CASE SetNoTan(t)
  BY <1>21 DEF SetNoTan, UnsetInv
<1>22. CASE ShowNothing(t)
  BY <1>22 DEF ShowNothing, Answer, Goto, UnsetInv, TypeOK
<1>23. QED
  BY <1>1, <1>2, <1>3, <1>4, <1>5, <1>6, <1>7, <1>8, <1>9, <1>10, <1>11, <1>12, <1>13, <1>14, <1>15,
     <1>16, <1>17, <1>18, <1>19, <1>20, <1>21, <1>22 DEF Step

LEMMA LogoutStep ==
  ASSUME TypeOK, UnsetInv, LogoutInv, NEW t \in Thread, Step(t)
  PROVE  LogoutInv'
<1> USE DEF session, parameters, history
<1>1. CASE ReadUser(t)
  BY <1>1 DEF ReadUser, Goto, LogoutInv, TypeOK, UnsetInv, Early
<1>2. CASE ReadPassword(t)
  BY <1>2 DEF ReadPassword, Goto, LogoutInv, TypeOK, UnsetInv, Early
<1>3. CASE ReadTan(t)
  BY <1>3 DEF ReadTan, Goto, LogoutInv, TypeOK, UnsetInv, Early
<1>4. CASE AskLoggedIn(t)
  BY <1>4 DEF AskLoggedIn, Goto, LogoutInv, TypeOK, UnsetInv, Early
<1>5. CASE Compare(t)
  BY <1>5 DEF Compare, IsCorrect, Goto, LogoutInv, TypeOK, UnsetInv, Early
<1>6. CASE Accept(t)
  BY <1>6 DEF Accept, Goto, LogoutInv, TypeOK, UnsetInv, Early
<1>7. CASE Reject(t)
  BY <1>7 DEF Reject, Goto, LogoutInv, TypeOK, UnsetInv, Early
<1>8. CASE LogIn(t)
  BY <1>8 DEF LogIn, Goto, LogoutInv, TypeOK, UnsetInv, Early
<1>9. CASE NoLogIn(t)
  BY <1>9 DEF NoLogIn, Goto, LogoutInv, TypeOK, UnsetInv, Early
<1>10. CASE SetName(t)
  BY <1>10 DEF SetName, Goto, LogoutInv, TypeOK, UnsetInv, Early
<1>11. CASE SetTan(t)
  BY <1>11 DEF SetTan, BothInv, Goto, LogoutInv, TypeOK, UnsetInv, Early
<1>12. CASE LogOut(t)
  BY <1>12 DEF LogOut, Parameters, Goto, LogoutInv, TypeOK, UnsetInv, Early
<1>13. CASE Forget(t)
  BY <1>13 DEF Forget, Goto, LogoutInv, TypeOK, UnsetInv, Early
<1>14. CASE Defend(t)
  BY <1>14 DEF Defend, Goto, LogoutInv, TypeOK, UnsetInv, Early
<1>15. CASE Leave(t)
  BY <1>15 DEF Leave, Goto, LogoutInv, TypeOK, UnsetInv, Early
<1>16. CASE Clear(t)
  BY <1>16 DEF Clear, Goto, LogoutInv, TypeOK, UnsetInv, Early
<1>17. CASE CompareWithNothing(t)
  <2>1. /\ at[t] \in {"compare", "differs"} /\ at'[t] = "idle"
        /\ \A u \in Thread \ {t} : at'[u] = at[u]
        /\ UNCHANGED <<loggedIn, correct, parser, request>>
    BY <1>17 DEF CompareWithNothing, Answer, Goto, TypeOK
  <2>2. ~correct /\ (loggedIn => \E u \in Thread : at[u] \in {"name", "fetch", "lost"})
    BY <1>17 DEF CompareWithNothing, UnsetInv
  <2>3. loggedIn => \E u \in Thread : at'[u] \in {"name", "fetch", "lost"}
    BY <2>1, <2>2
  <2>4. QED BY <2>1, <2>2, <2>3 DEF LogoutInv, Early
<1>18. CASE ShowAccount(t)
  BY <1>18 DEF ShowAccount, Answer, Goto, LogoutInv, TypeOK, UnsetInv, Early
<1>19. CASE AskOrStart(t)
  BY <1>19 DEF AskOrStart, Answer, Goto, LogoutInv, TypeOK, UnsetInv, Early
<1>20. CASE CloseUnder(t)
  BY <1>20, ZenonT(30) DEF CloseUnder, Goto, LogoutInv, TypeOK, UnsetInv, Early
<1>21. CASE SetNoTan(t)
  BY <1>21 DEF SetNoTan, Goto, LogoutInv, TypeOK, UnsetInv, Early
<1>22. CASE ShowNothing(t)
  BY <1>22 DEF ShowNothing, Answer, Goto, LogoutInv, TypeOK, UnsetInv, Early
<1>23. QED
  BY <1>1, <1>2, <1>3, <1>4, <1>5, <1>6, <1>7, <1>8, <1>9, <1>10, <1>11, <1>12, <1>13, <1>14, <1>15,
     <1>16, <1>17, <1>18, <1>19, <1>20, <1>21, <1>22 DEF Step

(* The state of a request that is alone, by where it is. *)
TanOf(u) == IF u \in HasTan THEN u ELSE ""

LoneAt(t) ==
  /\ at[t] \notin {"idle", "user"} => user[t] = request[t].user
  /\ at[t] \notin {"idle", "user", "password", "tan"} => tan[t] = request[t].tan
  /\ at[t] \in {"compare", "differs", "accept"} => loggedIn
  /\ at[t] \in {"accept", "leave", "clear", "account"} => tan[t] = loggedInUser /\ tan[t] # ""
  /\ at[t] # "idle" /\ correct =>
       /\ at[t] \in {"login", "logout", "forget", "defend", "both", "leave", "clear"}
       /\ tan[t] = loggedInUser /\ tan[t] # ""
       /\ at[t] \notin {"forget", "clear"} => loggedIn
  /\ at[t] = "fetch" => loggedInUser = user[t]
  /\ at[t] \notin {"lost", "empty"}

(* While nothing overlaps, the parser reads the request under way; the     *)
(* number is the one of the user logged in, except while a login sets them *)
(* one after the other.                                                    *)
LoneInv ==
  ~mixed =>
    /\ \A t \in Thread : at[t] # "idle" => parser = t /\ Others(t) = {}
    /\ \A t \in Thread : LoneAt(t)
    /\ (\A t \in Thread : at[t] = "idle") => ~correct
    /\ loggedIn => \/ currentTan = TanOf(loggedInUser)
                   \/ \E t \in Thread : at[t] \in {"name", "fetch"}

LEMMA LoneBegin ==
  ASSUME TypeOK, LoneInv, NEW t \in Thread, NEW r \in Requests, Begin(t, r)
  PROVE  LoneInv'
<1> SUFFICES ASSUME ~mixed' PROVE LoneInv'
  BY DEF LoneInv
<1>1. ~mixed /\ Others(t) = {} /\ at[t] = "idle"
  BY DEF Begin, Goto
<1>2. \A u \in Thread : at[u] = "idle"
  BY <1>1 DEF Others
<1>3. /\ at'[t] = "user" /\ \A u \in Thread \ {t} : at'[u] = "idle"
      /\ parser' = t /\ UNCHANGED <<session, parameters>>
  BY <1>2 DEF Begin, Goto, TypeOK
<1>4. ~correct /\ (loggedIn => currentTan = TanOf(loggedInUser))
  BY <1>1, <1>2 DEF LoneInv
<1>5. \A u \in Thread : LoneAt(u)'
  BY <1>3, <1>4 DEF LoneAt, session
<1>6. \A u \in Thread : at'[u] # "idle" => parser' = u /\ Others(u)' = {}
  BY <1>3 DEF Others
<1>7. QED BY <1>3, <1>4, <1>5, <1>6 DEF LoneInv, session, TanOf

(* A request that ends lets the session exact behind it: because it was    *)
(* alone, or because it was a logout and the last one to end.              *)
LEMMA LoneAnswer ==
  ASSUME TypeOK, LoneInv, UnsetInv, LogoutInv, NEW t \in Thread, NEW from, NEW p,
         Answer(t, from, p), from \in {"account", "empty", "ask"} \/ currentTan = "unset",
         from \in {"compare", "differs", "account", "empty", "ask"},
         UNCHANGED <<session, parser, request>>
  PROVE  LoneInv'
<1> SUFFICES ASSUME ~mixed' PROVE LoneInv'
  BY DEF LoneInv
<1>1. /\ at[t] = from /\ at'[t] = "idle" /\ \A u \in Thread \ {t} : at'[u] = at[u]
  BY DEF Answer, Goto, TypeOK
<1>2. mixed => Others(t) = {} /\ parser = t /\ request[t].logout
  BY DEF Answer
<1>3. Others(t) = {}
  BY <1>1, <1>2 DEF LoneInv
<1>4. \A u \in Thread : at'[u] = "idle"
  BY <1>1, <1>3 DEF Others
<1>5. \A u \in Thread \ {t} : at[u] = "idle"
  BY <1>3 DEF Others
<1>6. ~correct /\ (loggedIn => currentTan = TanOf(loggedInUser))
  <2>1. CASE currentTan = "unset"
    BY <1>1, <1>5, <2>1 DEF UnsetInv
  <2>2. CASE mixed /\ from \in {"account", "empty", "ask"}
    BY <1>1, <1>2, <1>5, <2>2 DEF LogoutInv, Early
  <2>3. CASE ~mixed /\ from \in {"account", "empty", "ask"}
    BY <1>1, <1>5, <2>3 DEF LoneInv, LoneAt
  <2>4. QED BY <2>1, <2>2, <2>3
<1>7. \A u \in Thread : LoneAt(u)'
  BY <1>4 DEF LoneAt
<1>8. QED BY <1>4, <1>6, <1>7 DEF LoneInv, session, TanOf

(* A request that is alone reads its own parameters. *)
LEMMA LoneReads ==
  ASSUME TypeOK, LoneInv, ~mixed, NEW t \in Thread, at[t] # "idle"
  PROVE  /\ parser = t /\ Parameters = {request[t]}
         /\ \A u \in Thread \ {t} : at[u] = "idle"
         /\ request[t].user = "" \/ request[t].tan = ""
<1>1. parser = t /\ Others(t) = {}
  BY DEF LoneInv
<1>2. request[t] \in Requests \cup {Visit}
  BY DEF TypeOK
<1>3. \A r \in Requests \cup {Visit} : r.user = "" \/ r.tan = ""
  <2>1. \A r \in Requests : r.user = "" \/ r.tan = ""
    BY TanAssumption, Zenon
  <2>2. Visit.user = ""
    BY DEF Visit
  <2>3. QED BY <2>1, <2>2
<1>4. request[t].user = "" \/ request[t].tan = ""
  BY <1>2, <1>3
<1>5. QED BY <1>1, <1>4 DEF Parameters, Others

(* The steps of a request that is alone, but the last one. *)
LEMMA LoneStep ==
  ASSUME TypeOK, LoneInv, ~mixed, NEW t \in Thread, at[t] # "idle", at'[t] # "idle",
         \A u \in Thread \ {t} : at'[u] = at[u],
         LoneAt(t)', parser' = parser, mixed' = mixed,
         loggedIn' => \/ currentTan' = TanOf(loggedInUser')
                      \/ at'[t] \in {"name", "fetch"}
  PROVE  LoneInv'
<1>1. parser = t /\ \A u \in Thread \ {t} : at'[u] = "idle"
  BY LoneReads
<1>2. \A u \in Thread : LoneAt(u)'
  BY <1>1 DEF LoneAt
<1>3. \A u \in Thread : at'[u] # "idle" => parser' = u /\ Others(u)' = {}
  BY <1>1 DEF Others
<1>4. QED BY <1>2, <1>3 DEF LoneInv, TanOf

LEMMA LoneNext ==
  ASSUME TypeOK, BothInv, UnsetInv, LogoutInv, LoneInv, NEW t \in Thread, Step(t)
  PROVE  LoneInv'
<1> USE DEF session, parameters, history
<1>1. CASE CompareWithNothing(t)
  BY <1>1, LoneAnswer DEF CompareWithNothing
<1>2. CASE ShowAccount(t)
  BY <1>2, LoneAnswer DEF ShowAccount
<1>3. CASE AskOrStart(t)
  BY <1>3, LoneAnswer DEF AskOrStart
<1>a. CASE ShowNothing(t)
  BY <1>a, LoneAnswer DEF ShowNothing
<1>b. CASE CloseUnder(t)
  <2>1. Others(t) # {} /\ at[t] # "idle" /\ mixed' = mixed
    BY <1>b DEF CloseUnder, Goto
  <2>2. QED BY <2>1 DEF LoneInv
<1>c. CASE SetNoTan(t)
  <2>1. at[t] = "lost" /\ mixed' = mixed
    BY <1>c DEF SetNoTan, Goto
  <2>2. QED BY <2>1 DEF LoneInv, LoneAt
<1> SUFFICES ASSUME ~CompareWithNothing(t), ~ShowAccount(t), ~AskOrStart(t), ~ShowNothing(t),
                    ~CloseUnder(t), ~SetNoTan(t), ~mixed'
             PROVE  LoneInv'
  BY <1>1, <1>2, <1>3, <1>a, <1>b, <1>c DEF LoneInv
<1>4. /\ at[t] # "idle" /\ at'[t] # "idle" /\ \A u \in Thread \ {t} : at'[u] = at[u]
      /\ UNCHANGED <<parser, request, mixed>>
  <2>1. PICK from, to \in Places \ {"idle"} : Goto(t, from, to)
    BY DEF Step, ReadUser, ReadPassword, ReadTan, AskLoggedIn, Compare, Accept, Reject, LogIn, NoLogIn, SetName, SetTan, LogOut, Forget, Defend, Leave, Clear, Places
  <2>2. UNCHANGED <<parser, request, mixed>>
    BY DEF Step, ReadUser, ReadPassword, ReadTan, AskLoggedIn, Compare, Accept, Reject, LogIn, NoLogIn, SetName, SetTan, LogOut, Forget, Defend, Leave, Clear
  <2>3. QED BY <2>1, <2>2, TypeGoto
<1>5. /\ ~mixed /\ LoneAt(t) /\ parser = t /\ Parameters = {request[t]}
      /\ request[t].user = "" \/ request[t].tan = ""
      /\ \A u \in Thread \ {t} : at[u] = "idle"
  BY <1>4, LoneReads DEF LoneInv
<1>6. loggedIn => currentTan = TanOf(loggedInUser) \/ at[t] \in {"name", "fetch"}
  BY <1>4, <1>5 DEF LoneInv
<1>7. CASE ReadUser(t)
  <2>1. LoneAt(t)'
    <3>1. user'[t] = request[t].user
      BY <1>5, <1>7, ZenonT(30) DEF ReadUser, TypeOK
    <3>2. QED BY <1>4, <1>5, <1>7, <3>1 DEF ReadUser, Goto, LoneAt, TypeOK
  <2>2. loggedIn' => currentTan' = TanOf(loggedInUser') \/ at'[t] \in {"name", "fetch"}
    BY <1>4, <1>5, <1>6, <1>7 DEF ReadUser, Goto, LoneAt, TanOf, TypeOK
  <2>3. QED BY <1>4, <1>5, <2>1, <2>2, LoneStep
<1>8. CASE ReadPassword(t)
  <2>1. LoneAt(t)'
    BY <1>4, <1>5, <1>6, <1>8, NumberIsThere DEF ReadPassword, Goto, LoneAt, TanOf, TypeOK
  <2>2. loggedIn' => currentTan' = TanOf(loggedInUser') \/ at'[t] \in {"name", "fetch"}
    BY <1>4, <1>5, <1>6, <1>8 DEF ReadPassword, Goto, LoneAt, TanOf, TypeOK
  <2>3. QED BY <1>4, <1>5, <2>1, <2>2, LoneStep
<1>9. CASE ReadTan(t)
  <2>1. LoneAt(t)'
    <3>1. tan'[t] = request[t].tan
      BY <1>5, <1>9, ZenonT(30) DEF ReadTan, TypeOK
    <3>2. QED BY <1>4, <1>5, <1>9, <3>1 DEF ReadTan, Goto, LoneAt, TypeOK
  <2>2. loggedIn' => currentTan' = TanOf(loggedInUser') \/ at'[t] \in {"name", "fetch"}
    BY <1>4, <1>5, <1>6, <1>9 DEF ReadTan, Goto, LoneAt, TanOf, TypeOK
  <2>3. QED BY <1>4, <1>5, <2>1, <2>2, LoneStep
<1>10. CASE AskLoggedIn(t)
  <2>1. LoneAt(t)'
    BY <1>4, <1>5, <1>6, <1>10, NumberIsThere, ZenonT(30) DEF AskLoggedIn, Goto, LoneAt, TanOf, TypeOK
  <2>2. loggedIn' => currentTan' = TanOf(loggedInUser') \/ at'[t] \in {"name", "fetch"}
    BY <1>4, <1>5, <1>6, <1>10 DEF AskLoggedIn, Goto, LoneAt, TanOf, TypeOK
  <2>3. QED BY <1>4, <1>5, <2>1, <2>2, LoneStep
<1>11. CASE Compare(t)
  <2>1. LoneAt(t)'
    BY <1>4, <1>5, <1>6, <1>11, NumberIsThere, ZenonT(30) DEF Compare, IsCorrect, Goto, LoneAt, TanOf, TypeOK
  <2>2. loggedIn' => currentTan' = TanOf(loggedInUser') \/ at'[t] \in {"name", "fetch"}
    BY <1>4, <1>5, <1>6, <1>11 DEF Compare, Goto, LoneAt, TanOf, TypeOK
  <2>3. QED BY <1>4, <1>5, <2>1, <2>2, LoneStep
<1>12. CASE Accept(t)
  <2>1. LoneAt(t)'
    BY <1>4, <1>5, <1>6, <1>12, NumberIsThere DEF Accept, Goto, LoneAt, TanOf, TypeOK
  <2>2. loggedIn' => currentTan' = TanOf(loggedInUser') \/ at'[t] \in {"name", "fetch"}
    BY <1>4, <1>5, <1>6, <1>12 DEF Accept, Goto, LoneAt, TanOf, TypeOK
  <2>3. QED BY <1>4, <1>5, <2>1, <2>2, LoneStep
<1>13. CASE Reject(t)
  <2>1. LoneAt(t)'
    BY <1>4, <1>5, <1>6, <1>13, NumberIsThere DEF Reject, Goto, LoneAt, TanOf, TypeOK
  <2>2. loggedIn' => currentTan' = TanOf(loggedInUser') \/ at'[t] \in {"name", "fetch"}
    BY <1>4, <1>5, <1>6, <1>13 DEF Reject, Goto, LoneAt, TanOf, TypeOK
  <2>3. QED BY <1>4, <1>5, <2>1, <2>2, LoneStep
<1>14. CASE LogIn(t)
  <2>1. LoneAt(t)'
    <3>1. user[t] # "" /\ user[t] = request[t].user /\ tan[t] = request[t].tan
      BY <1>5, <1>14, NobodyIsEmpty DEF LogIn, RightPassword, Goto, LoneAt
    <3>2. ~correct
      BY <1>4, <1>5, <3>1 DEF LoneAt
    <3>3. QED BY <1>4, <1>5, <1>14, <3>2 DEF LogIn, Goto, LoneAt, TypeOK
  <2>2. loggedIn' => currentTan' = TanOf(loggedInUser') \/ at'[t] \in {"name", "fetch"}
    BY <1>4, <1>5, <1>6, <1>14 DEF LogIn, Goto, LoneAt, TanOf, TypeOK
  <2>3. QED BY <1>4, <1>5, <2>1, <2>2, LoneStep
<1>15. CASE NoLogIn(t)
  <2>1. LoneAt(t)'
    BY <1>4, <1>5, <1>6, <1>15, NumberIsThere DEF NoLogIn, Goto, LoneAt, TanOf, TypeOK
  <2>2. loggedIn' => currentTan' = TanOf(loggedInUser') \/ at'[t] \in {"name", "fetch"}
    BY <1>4, <1>5, <1>6, <1>15 DEF NoLogIn, Goto, LoneAt, TanOf, TypeOK
  <2>3. QED BY <1>4, <1>5, <2>1, <2>2, LoneStep
<1>16. CASE SetName(t)
  <2>1. LoneAt(t)'
    BY <1>4, <1>5, <1>6, <1>16, NumberIsThere DEF SetName, Goto, LoneAt, TanOf, TypeOK
  <2>2. loggedIn' => currentTan' = TanOf(loggedInUser') \/ at'[t] \in {"name", "fetch"}
    BY <1>4, <1>5, <1>6, <1>16 DEF SetName, Goto, LoneAt, TanOf, TypeOK
  <2>3. QED BY <1>4, <1>5, <2>1, <2>2, LoneStep
<1>17. CASE SetTan(t)
  <2>1. LoneAt(t)'
    BY <1>4, <1>5, <1>6, <1>17, NumberIsThere DEF SetTan, Goto, LoneAt, TanOf, TypeOK
  <2>2. loggedIn' => currentTan' = TanOf(loggedInUser') \/ at'[t] \in {"name", "fetch"}
    BY <1>4, <1>5, <1>6, <1>17 DEF SetTan, Goto, LoneAt, TanOf, TypeOK
  <2>3. QED BY <1>4, <1>5, <2>1, <2>2, LoneStep
<1>18. CASE LogOut(t)
  <2>1. LoneAt(t)'
    BY <1>4, <1>5, <1>6, <1>18, NumberIsThere, ZenonT(30) DEF LogOut, Goto, LoneAt, TanOf, TypeOK
  <2>2. loggedIn' => currentTan' = TanOf(loggedInUser') \/ at'[t] \in {"name", "fetch"}
    BY <1>4, <1>5, <1>6, <1>18 DEF LogOut, Goto, LoneAt, TanOf, TypeOK
  <2>3. QED BY <1>4, <1>5, <2>1, <2>2, LoneStep
<1>19. CASE Forget(t)
  <2>1. LoneAt(t)'
    BY <1>4, <1>5, <1>6, <1>19, NumberIsThere DEF Forget, Goto, LoneAt, TanOf, TypeOK
  <2>2. loggedIn' => currentTan' = TanOf(loggedInUser') \/ at'[t] \in {"name", "fetch"}
    BY <1>4, <1>5, <1>6, <1>19 DEF Forget, Goto, LoneAt, TanOf, TypeOK
  <2>3. QED BY <1>4, <1>5, <2>1, <2>2, LoneStep
<1>20. CASE Defend(t)
  <2>1. LoneAt(t)'
    BY <1>4, <1>5, <1>6, <1>20, NumberIsThere, ZenonT(30) DEF Defend, Goto, LoneAt, TanOf, TypeOK
  <2>2. loggedIn' => currentTan' = TanOf(loggedInUser') \/ at'[t] \in {"name", "fetch"}
    BY <1>4, <1>5, <1>6, <1>20 DEF Defend, Goto, LoneAt, TanOf, TypeOK
  <2>3. QED BY <1>4, <1>5, <2>1, <2>2, LoneStep
<1>21. CASE Leave(t)
  <2>1. LoneAt(t)'
    BY <1>4, <1>5, <1>6, <1>21, NumberIsThere DEF Leave, Goto, LoneAt, TanOf, TypeOK
  <2>2. loggedIn' => currentTan' = TanOf(loggedInUser') \/ at'[t] \in {"name", "fetch"}
    BY <1>4, <1>5, <1>6, <1>21 DEF Leave, Goto, LoneAt, TanOf, TypeOK
  <2>3. QED BY <1>4, <1>5, <2>1, <2>2, LoneStep
<1>22. CASE Clear(t)
  <2>1. LoneAt(t)'
    BY <1>4, <1>5, <1>6, <1>22, NumberIsThere DEF Clear, Goto, LoneAt, TanOf, TypeOK
  <2>2. loggedIn' => currentTan' = TanOf(loggedInUser') \/ at'[t] \in {"name", "fetch"}
    BY <1>4, <1>5, <1>6, <1>22 DEF Clear, Goto, LoneAt, TanOf, TypeOK
  <2>3. QED BY <1>4, <1>5, <2>1, <2>2, LoneStep
<1>23. QED
  BY <1>7, <1>8, <1>9, <1>10, <1>11, <1>12, <1>13, <1>14, <1>15, <1>16, <1>17, <1>18, <1>19, <1>20, <1>21, <1>22 DEF Step

(* Requests that do not overlap leave the session exact, and after some    *)
(* did, a logout that is served alone makes it exact again.                *)
THEOREM LoneRequestsAreExact == Spec => []LoneIsExact
<1> DEFINE Inv == BothInv /\ UnsetInv /\ LogoutInv /\ LoneInv
<1>1. Init => Inv
  <2> SUFFICES ASSUME Init PROVE Inv
    OBVIOUS
  <2>1. BothInv
    BY BothInit
  <2>2. UnsetInv /\ LogoutInv
    BY DEF Init, UnsetInv, LogoutInv
  <2>3. LoneInv
    BY DEF Init, LoneInv, LoneAt
  <2>4. QED BY <2>1, <2>2, <2>3
<1>2. TypeOK /\ Inv /\ [Next]_vars => Inv'
  <2> SUFFICES ASSUME TypeOK, Inv, [Next]_vars PROVE Inv'
    OBVIOUS
  <2>1. ASSUME NEW t \in Thread, NEW r \in Requests, Begin(t, r) PROVE Inv'
    <3>1. BothInv'
      BY <2>1, BothBegin
    <3>2. UnsetInv'
      BY <2>1 DEF Begin, Goto, UnsetInv, TypeOK, session
    <3>3. LogoutInv'
      <4>1. parser' = t /\ at'[t] = "user"
        BY <2>1 DEF Begin, Goto, TypeOK
      <4>2. QED BY <4>1 DEF LogoutInv, Early
    <3>4. LoneInv'
      BY <2>1, LoneBegin
    <3>5. QED BY <3>1, <3>2, <3>3, <3>4
  <2>2. ASSUME NEW t \in Thread, Step(t) PROVE Inv'
    BY <2>2, BothStep, UnsetStep, LogoutStep, LoneNext
  <2>3. CASE UNCHANGED vars
    <3> USE <2>3 DEF vars, session, parameters, history
    <3>1. BothInv'
      BY DEF BothInv, PageNeedsBoth
    <3>2. UnsetInv' /\ LogoutInv'
      BY DEF UnsetInv, LogoutInv
    <3>3. LoneInv'
      BY DEF LoneInv, LoneAt, Others, TanOf
    <3>4. QED BY <3>1, <3>2, <3>3
  <2>4. QED BY <2>1, <2>2, <2>3 DEF Next
<1>3. TypeOK /\ Inv => LoneIsExact
  <2> SUFFICES ASSUME TypeOK, LoneInv, ~mixed PROVE LoneIsExact
    BY DEF LoneIsExact
  <2>1. ASSUME NEW t \in Thread, at[t] = "account" PROVE request[t].tan = loggedInUser
    BY <2>1 DEF LoneInv, LoneAt
  <2>2. ASSUME NEW t \in Thread, at[t] \in {"compare", "differs"} PROVE currentTan # "unset"
    <3>1. \A u \in Thread \ {t} : at[u] = "idle"
      BY <2>2, LoneReads
    <3>2. currentTan = TanOf(loggedInUser)
      BY <2>2, <3>1 DEF LoneInv, LoneAt
    <3>3. QED BY <3>2, NumberIsThere DEF TanOf
  <2>3. (\A t \in Thread : at[t] = "idle") =>
          ~correct /\ (loggedIn => currentTan = TanOf(loggedInUser))
    BY DEF LoneInv
  <2>4. QED BY <2>1, <2>2, <2>3 DEF LoneIsExact, TanOf
<1> HIDE DEF Inv
<1>4. QED BY <1>1, <1>2, <1>3, TypeCorrect, PTL DEF Spec
=============================================================================
