------------------------- MODULE LessonFrontendProofs -------------------------
(***************************************************************************)
(* Proofs about SessionScreens, for any number of threads, lessons, stages *)
(* and kinds of request, and about LessonFrontend, whose servlet is a      *)
(* behaviour of SessionScreens.                                            *)
(***************************************************************************)
EXTENDS LessonFrontend, TLAPS

(* The parser reads the request of the thread it is at, while that runs. *)
LEMMA ParametersType ==
  ASSUME TypeOK
  PROVE  /\ Parameters \subseteq Request
         /\ \A t \in Thread : pc[t] # "idle" /\ parser = t => Parameters = {req[t]}
BY ScreensAssumption DEF Parameters, TypeOK, Nothing, Request

LEMMA AnswerType ==
  ASSUME TypeOK, NEW t \in Thread, NEW p \in Page, Answer(t, p)
  PROVE  /\ pc' \in [Thread -> PC] /\ page' \in [Thread -> Page] /\ streak' \in 0..2
         /\ shared' = shared /\ asked' = asked
BY DEF Answer, TypeOK, PC

LEMMA BlankType == \A k \in {"welcome", "invalid", "error", "fatal", "redirect", "source"} : Blank(k) \in Page
BY ScreensAssumption DEF Blank, Page, Screen

(* Every variable of the session keeps its type. *)
LEMMA ScreensType == TypeOK /\ [Next]_vars => TypeOK'
<1> SUFFICES ASSUME TypeOK, [Next]_vars PROVE TypeOK'
  OBVIOUS
<1>. USE DEF screens, flags, thread, history
<1>a. Parameters \subseteq Request
  BY ParametersType
<1>b. First \in Screen /\ WELCOME \in Screen /\ Lesson \subseteq Screen
  BY ScreensAssumption DEF Screen
<1>1. CASE UNCHANGED vars
  BY <1>1 DEF vars, TypeOK
<1>2. CASE RestartService
  BY <1>2, ScreensAssumption DEF RestartService, RestartCurrent, ToFirstStage, TypeOK
<1>3. ASSUME NEW t \in Thread, NEW q \in Requests, Begin(t, q) PROVE TypeOK'
  BY <1>3, <1>b, ScreensAssumption DEF Begin, Goto, TypeOK, PC, Request, Screen
<1>4. ASSUME NEW t \in Thread, FirstLesson(t) PROVE TypeOK'
  BY <1>4, <1>b DEF FirstLesson, Goto, TypeOK, PC
<1>5. ASSUME NEW t \in Thread, Remember(t) PROVE TypeOK'
  BY <1>5 DEF Remember, Goto, TypeOK, PC
<1>6. ASSUME NEW t \in Thread, Choose(t) PROVE TypeOK'
  <2>1. current' \in Screen
    BY <1>6, <1>a DEF Choose, Request, TypeOK
  <2>2. pc' \in [Thread -> PC]
    BY <1>6 DEF Choose, Goto, TypeOK, PC
  <2>. QED
    BY <1>6, <2>1, <2>2 DEF Choose, TypeOK
<1>7. ASSUME NEW t \in Thread, Compare(t) PROVE TypeOK'
  <2>1. pc' \in [Thread -> PC] /\ previousStage' \in 0..(N + 1)
    BY <1>7, ScreensAssumption DEF Compare, TypeOK, PC
  <2>. QED
    BY <1>7, <2>1 DEF Compare, TypeOK
<1>8. ASSUME NEW t \in Thread, UpdateStage(t) PROVE TypeOK'
  <2>1. previousStage' \in 0..(N + 1) /\ stage' \in [Staged -> 1..N]
    BY <1>8, <1>a DEF UpdateStage, Request, TypeOK
  <2>. QED
    BY <1>8, <2>1 DEF UpdateStage, Goto, TypeOK, PC
<1>9. ASSUME NEW t \in Thread, Restart(t) PROVE TypeOK'
  <2>1. CASE Answer(t, Blank("fatal")) /\ UNCHANGED stage
    BY <1>9, <2>1, AnswerType, BlankType DEF Restart, TypeOK
  <2>2. ASSUME NEW l, ToFirstStage(l) PROVE stage' \in [Staged -> 1..N]
    BY <2>2, ScreensAssumption DEF ToFirstStage, TypeOK
  <2>3. CASE UNCHANGED <<page, history>> /\ (\E l : ToFirstStage(l))
             /\ \E x \in {"source", "parameters"} : pc' = [pc EXCEPT ![t] = x]
    <3>1. pc' \in [Thread -> PC] /\ stage' \in [Staged -> 1..N]
      BY <2>2, <2>3 DEF TypeOK, PC
    <3>. QED
      BY <1>9, <2>3, <3>1 DEF Restart, TypeOK
  <2>. QED
    BY <1>9, <2>1, <2>3 DEF Restart
<1>10. ASSUME NEW t \in Thread, UpdateParameters(t) PROVE TypeOK'
  <2>1. isHackedAdmin' \in BOOLEAN /\ hasHacked' \in BOOLEAN
    BY <1>10, ScreensAssumption DEF UpdateParameters, TypeOK
  <2>2. CASE pc[t] = "source"
    BY <1>10, <2>1, <2>2, AnswerType, BlankType DEF UpdateParameters, TypeOK
  <2>3. CASE pc[t] # "source"
    BY <1>10, <2>1, <2>3 DEF UpdateParameters, TypeOK, PC
  <2>. QED
    BY <2>2, <2>3
<1>11. ASSUME NEW t \in Thread, Make(t) PROVE TypeOK'
  <2>1. CASE req[t].kind = "start"
    BY <1>11, <2>1, AnswerType, BlankType DEF Make, TypeOK
  <2>2. CASE req[t].kind # "start"
    BY <1>11, <2>2 DEF Make, TypeOK, PC
  <2>. QED
    BY <2>1, <2>2
<1>12. ASSUME NEW t \in Thread, MakeChallenge(t) PROVE TypeOK'
  BY <1>12 DEF MakeChallenge, Goto, TypeOK, PC
<1>13. ASSUME NEW t \in Thread, Lookup(t) PROVE TypeOK'
  <2>1. CASE Answer(t, Blank("welcome")) /\ UNCHANGED <<current, hasHacked, completed>>
    BY <1>13, <2>1, AnswerType, BlankType DEF Lookup, TypeOK
  <2>2. CASE Answer(t, Blank("invalid")) /\ FixCurrentScreen /\ UNCHANGED <<hasHacked, completed>>
    BY <1>13, <2>2, <1>b, AnswerType, BlankType DEF Lookup, FixCurrentScreen, TypeOK
  <2>3. CASE /\ hasHacked' = (hasHacked /\ Role[scr[t]] = "hacked")
             /\ completed' = (completed \/ hasHacked')
             /\ pc' = [pc EXCEPT ![t] = "handle"]
             /\ UNCHANGED <<current, page, history>>
    BY <1>13, <2>3 DEF Lookup, TypeOK, PC
  <2>. QED
    BY <1>13, <2>1, <2>2, <2>3 DEF Lookup
<1>14. ASSUME NEW t \in Thread, Handle(t) PROVE TypeOK'
  <2>1. [kind |-> "lesson", lesson |-> scr[t], own |-> parser = t] \in Page
    BY DEF Page, TypeOK
  <2>2. stage' \in [Staged -> 1..N]
    BY <1>14, ScreensAssumption DEF Handle, TypeOK
  <2>. QED
    BY <1>14, <2>1, <2>2, AnswerType DEF Handle, TypeOK
<1>15. ASSUME NEW t \in Thread, Fail(t) PROVE TypeOK'
  BY <1>15, <1>b, AnswerType, BlankType DEF Fail, FixCurrentScreen, TypeOK
<1>. QED
  BY <1>1, <1>2, <1>3, <1>4, <1>5, <1>6, <1>7, <1>8, <1>9, <1>10, <1>11, <1>12, <1>13, <1>14, <1>15
  DEF Next, Step

(* A step of a thread leaves the other threads and the histories alone.    *)
LEMMA StepFrame ==
  ASSUME TypeOK, NEW t \in Thread, Step(t)
  PROVE  /\ pc[t] # "idle" /\ parser' = parser /\ req' = req /\ shared' = shared /\ asked' = asked
         /\ \A u \in Thread \ {t} : pc'[u] = pc[u] /\ page'[u] = page[u] /\ scr'[u] = scr[u]
<1>. USE DEF screens, flags, thread, history, TypeOK, Goto, Answer
<1>1. CASE FirstLesson(t) \/ Remember(t) \/ Choose(t) \/ Compare(t) \/ UpdateStage(t)
  BY <1>1 DEF FirstLesson, Remember, Choose, Compare, UpdateStage
<1>2. CASE Restart(t)
  BY <1>2 DEF Restart
<1>3. CASE UpdateParameters(t)
  BY <1>3 DEF UpdateParameters
<1>4. CASE Make(t) \/ MakeChallenge(t)
  BY <1>4 DEF Make, MakeChallenge
<1>5. CASE Lookup(t)
  BY <1>5 DEF Lookup
<1>6. CASE Handle(t) \/ Fail(t)
  BY <1>6 DEF Handle, Fail
<1>. QED
  BY <1>1, <1>2, <1>3, <1>4, <1>5, <1>6 DEF Step

(* A request that has not been overlapped stays in control of the session. *)
LEMMA AloneStep ==
  ASSUME TypeOK, AloneInv, [Next]_vars
  PROVE  AloneInv'
<1> SUFFICES ASSUME NEW t \in Thread, pc'[t] # "idle", t \notin shared' PROVE Lone(t)'
  BY DEF AloneInv, Alone
<1>1. CASE UNCHANGED vars
  BY <1>1 DEF vars, screens, flags, thread, history, AloneInv, Alone, Lone, StartsCourse
<1>2. CASE RestartService
  BY <1>2 DEF RestartService, screens, flags, thread, history, AloneInv, Alone, Lone, StartsCourse
<1>3. ASSUME NEW u \in Thread, NEW q \in Requests, Begin(u, q) PROVE Lone(t)'
  <2>1. u = t /\ \A x \in Thread : pc[x] = "idle"
    BY <1>3 DEF Begin, Goto, TypeOK
  <2>. QED
    BY <1>3, <2>1 DEF Begin, Goto, TypeOK, Lone, StartsCourse, screens
<1>4. ASSUME NEW u \in Thread, Step(u) PROVE Lone(t)'
  <2>1. u = t
    BY <1>4, StepFrame DEF AloneInv, Alone, Lone
  <2>2. Lone(t)
    BY <1>4, <2>1, StepFrame DEF AloneInv, Alone
  <2>3. /\ parser' = t /\ req' = req /\ asked' = asked
        /\ \A x \in Thread \ {t} : pc'[x] = "idle"
    BY <1>4, <2>1, <2>2, StepFrame DEF Lone
  <2>4. Parameters = {req[t]}
    BY <1>4, <2>1, <2>2, StepFrame, ParametersType DEF Lone
  <2>. USE DEF screens, flags, thread, history, TypeOK, Goto
  <2>5. CASE FirstLesson(t)
    BY <2>2, <2>3, <2>5 DEF FirstLesson, Lone
  <2>6. CASE Remember(t)
    BY <2>2, <2>3, <2>6 DEF Remember, Lone
  <2>7. CASE Choose(t)
    BY <2>2, <2>3, <2>4, <2>7 DEF Choose, Lone
  <2>8. CASE Compare(t)
    BY <2>2, <2>3, <2>8 DEF Compare, Lone
  <2>9. CASE UpdateStage(t)
    BY <2>2, <2>3, <2>9 DEF UpdateStage, Lone
  <2>10. CASE Restart(t)
    BY <2>2, <2>3, <2>10 DEF Restart, Answer, Lone
  <2>11. CASE UpdateParameters(t)
    BY <2>2, <2>3, <2>4, <2>11, ScreensAssumption DEF UpdateParameters, Answer, Lone
  <2>12. CASE Make(t)
    BY <2>2, <2>3, <2>12 DEF Make, Answer, IsChallenge, Lone
  <2>13. CASE MakeChallenge(t)
    BY <2>2, <2>3, <2>13 DEF MakeChallenge, IsChallenge, Lone
  <2>14. CASE Lookup(t)
    BY <2>2, <2>3, <2>14 DEF Lookup, Answer, Lone
  <2>15. CASE Handle(t) \/ Fail(t)
    BY <2>15 DEF Handle, Fail, Answer
  <2>. QED
    BY <1>4, <2>1, <2>5, <2>6, <2>7, <2>8, <2>9, <2>10, <2>11, <2>12, <2>13, <2>14, <2>15 DEF Step
<1>. QED
  BY <1>1, <1>2, <1>3, <1>4 DEF Next

(* A request that is for the first lesson finds it, whoever asks. *)
LEMMA FirstIsFound == CurrentLesson(First) /\ \A roles : "user" \in roles => Found(First, roles)
BY ScreensAssumption DEF CurrentLesson, Found, Roles

LEMMA StreakStep ==
  ASSUME TypeOK, AloneInv, StreakInv, [Next]_vars
  PROVE  StreakInv'
<1>1. CASE UNCHANGED vars
  BY <1>1 DEF vars, screens, thread, history, StreakInv, Alone
<1>2. CASE RestartService
  BY <1>2 DEF RestartService, screens, thread, history, StreakInv, Alone
<1>3. ASSUME NEW t \in Thread, NEW q \in Requests, Begin(t, q) PROVE StreakInv'
  <2>1. streak' = streak /\ current' = current /\ pc' = [pc EXCEPT ![t] = "first"]
    BY <1>3 DEF Begin, Goto, screens
  <2>2. ASSUME streak = 1, NEW u \in Thread, u \notin shared', pc'[u] # "idle",
               req'[u].screen = Absent
        PROVE  asked'[u] = First
    <3>1. u = t /\ \A x \in Thread : pc[x] = "idle"
      BY <1>3, <2>2 DEF Begin, Goto, TypeOK
    <3>2. current = First
      BY <2>2, <3>1 DEF StreakInv
    <3>. QED
      BY <1>3, <2>2, <3>1, <3>2 DEF Begin, TypeOK
  <2>3. pc'[t] # "idle"
    BY <2>1 DEF TypeOK
  <2>. QED
    BY <2>1, <2>2, <2>3 DEF StreakInv, Alone
<1>4. ASSUME NEW t \in Thread, Step(t) PROVE StreakInv'
  <2>1. /\ pc[t] # "idle" /\ req' = req /\ shared' = shared /\ asked' = asked
        /\ \A u \in Thread \ {t} : pc'[u] = pc[u]
    BY <1>4, StepFrame
  <2>2. CASE streak' = streak /\ pc'[t] # "idle"
    BY <2>1, <2>2 DEF StreakInv, Alone
  <2>3. CASE streak' = 0
    BY <2>3 DEF StreakInv
  <2>4. CASE Answer(t, Blank("invalid")) /\ Lookup(t) /\ t \notin shared
    <3>1. current' = First /\ scr[t] # First
      <4>1. page'[t].kind = "invalid" /\ pc'[t] = "idle"
        BY <2>4 DEF Answer, Blank, TypeOK
      <4>2. ~Answer(t, Blank("welcome")) /\ pc' # [pc EXCEPT ![t] = "handle"]
        BY <4>1 DEF Answer, Blank, TypeOK
      <4>. QED
        BY <2>4, <4>2, FirstIsFound DEF Lookup, FixCurrentScreen
    <3>2. Lone(t) /\ pc[t] \in {"user", "admin"}
      BY <2>1, <2>4 DEF AloneInv, Alone, Lookup
    <3>3. streak' # 2
      <4>1. streak' = IF req[t].screen # Absent THEN 1 ELSE IF streak = 0 THEN 1 ELSE 2
        BY <2>4 DEF Answer, Blank
      <4>2. scr[t] = asked[t]
        BY <3>2 DEF Lone
      <4>3. req[t].screen = Absent => streak # 1
        BY <2>1, <2>4, <3>1, <4>2 DEF StreakInv, Alone
      <4>4. streak \in {0, 1}
        BY DEF TypeOK, StreakInv
      <4>. QED
        BY <4>1, <4>3, <4>4
    <3>4. \A u \in Thread : pc'[u] = "idle"
      BY <2>1, <2>4, <3>2 DEF Answer, Lone, TypeOK
    <3>5. streak' \in {0, 1, 2}
      BY <2>4 DEF Answer
    <3>. QED
      BY <3>1, <3>3, <3>4, <3>5 DEF StreakInv
  <2>5. ASSUME NEW p, Answer(t, p), p.kind # "invalid" PROVE StreakInv'
    BY <2>3, <2>5 DEF Answer
  <2>6. \A k : Blank(k).kind = k
    BY DEF Blank
  <2>. USE DEF history, TypeOK, Goto
  <2>7. CASE FirstLesson(t) \/ Remember(t) \/ Choose(t) \/ Compare(t) \/ UpdateStage(t)
    BY <2>2, <2>7 DEF FirstLesson, Remember, Choose, Compare, UpdateStage
  <2>8. CASE Restart(t)
    BY <2>2, <2>5, <2>6, <2>8 DEF Restart
  <2>9. CASE UpdateParameters(t)
    BY <2>2, <2>5, <2>6, <2>9 DEF UpdateParameters
  <2>10. CASE Make(t) \/ MakeChallenge(t)
    BY <2>2, <2>5, <2>6, <2>10 DEF Make, MakeChallenge
  <2>11. CASE Lookup(t)
    <3>1. Answer(t, Blank("invalid")) => StreakInv'
      BY <2>3, <2>4, <2>11 DEF Answer
    <3>. QED
      BY <2>2, <2>5, <2>6, <2>11, <3>1 DEF Lookup
  <2>12. CASE Handle(t) \/ Fail(t)
    BY <2>5, <2>6, <2>12 DEF Handle, Fail
  <2>. QED
    BY <1>4, <2>7, <2>8, <2>9, <2>10, <2>11, <2>12 DEF Step
<1>. QED
  BY <1>1, <1>2, <1>3, <1>4 DEF Next

LEMMA ScreensInit == Init => TypeOK /\ AloneInv /\ StreakInv
<1> SUFFICES ASSUME Init PROVE TypeOK /\ AloneInv /\ StreakInv
  OBVIOUS
<1>1. WELCOME \in Screen
  BY DEF Screen
<1>2. [kind |-> "none", lesson |-> WELCOME, own |-> TRUE] \in Page
  BY <1>1 DEF Page
<1>3. 1 \in 1..N /\ 0 \in 0..(N + 1) /\ 0 \in 0..2
  BY ScreensAssumption
<1>4. previous \in Screen \cup {ERROR} /\ stage \in [Staged -> 1..N] /\ page \in [Thread -> Page]
  BY <1>2, <1>3 DEF Init
<1>5. TypeOK
  BY <1>1, <1>3, <1>4 DEF Init, TypeOK, PC
<1>6. AloneInv /\ StreakInv
  BY DEF Init, AloneInv, StreakInv, Alone
<1>. QED
  BY <1>5, <1>6

LEMMA ScreensInductive == Spec => [](TypeOK /\ AloneInv /\ StreakInv)
BY ScreensInit, ScreensType, AloneStep, StreakStep, PTL DEF Spec

(* Every variable of the session keeps its type, whatever the requests do. *)
THEOREM ScreensTypeCorrect == Spec => []TypeOK
BY ScreensInductive, PTL

(* Whatever races went before, a user who sends one request after another  *)
(* leaves the error screen with the first request that names no screen.    *)
THEOREM ErrorScreenIsLeft == Spec => []NotStuckOnError
<1>1. StreakInv => NotStuckOnError
  BY DEF StreakInv, NotStuckOnError
<1>. QED
  BY <1>1, ScreensInductive, PTL

(* A lone request that ends in a lesson ends in the lesson it asked for, with its *)
(* own parameters, and leaves the session there.                                  *)
LEMMA LoneLesson ==
  ASSUME TypeOK, NEW t \in Thread, Step(t), Lone(t), pc'[t] = "idle", page'[t].kind = "lesson"
  PROVE  page'[t].lesson = asked[t] /\ page'[t].own /\ current' = asked[t]
<1>1. Handle(t)
  BY DEF Step, Restart, UpdateParameters, Make, Lookup, Fail, Answer, Blank, TypeOK,
     FirstLesson, Remember, Choose, Compare, UpdateStage, MakeChallenge, Goto
<1>2. page'[t] = [kind |-> "lesson", lesson |-> scr[t], own |-> parser = t] /\ current' = current
  BY <1>1 DEF Handle, Answer, TypeOK, screens
<1>3. page'[t].own
  <2>1. (parser = t) = TRUE
    BY DEF Lone
  <2>2. page'[t] = [kind |-> "lesson", lesson |-> scr[t], own |-> TRUE]
    BY <1>2, <2>1, Zenon
  <2>. QED
    BY <2>2
<1>4. scr[t] = asked[t] /\ current = asked[t]
  BY <1>1 DEF Handle, Lone
<1>. QED
  BY <1>2, <1>3, <1>4

(* A request that no other overlaps is answered for the screen it asked    *)
(* for, with its own parameters.  For the administrator of the container   *)
(* the lookup of a challenge is that of a user (doPost asks isUser() or    *)
(* isChallenge()), so a challenge that is not for users would be refused;  *)
(* the course has no such lesson.                                          *)
THEOREM LoneRequestIsExact ==
  ASSUME UserInRole => \A l \in Challenge : Role[l] = "user"
  PROVE  Spec => AloneIsExact
<1>1. TypeOK /\ AloneInv /\ [Next]_vars =>
        [\A t \in Thread : pc[t] # "idle" /\ pc'[t] = "idle" /\ Alone(t) =>
           /\ page'[t].kind = "lesson" =>
                page'[t].lesson = asked[t] /\ page'[t].own /\ current' = asked[t]
           /\ page'[t].kind = "invalid" => ~Found(asked[t], Roles) /\ CurrentLesson(current')
           /\ page'[t].kind = "welcome" => asked[t] = WELCOME]_vars
  <2> SUFFICES ASSUME TypeOK, AloneInv, Next, NEW t \in Thread,
                      pc[t] # "idle", pc'[t] = "idle", Alone(t)
               PROVE  /\ page'[t].kind = "lesson" =>
                           page'[t].lesson = asked[t] /\ page'[t].own /\ current' = asked[t]
                      /\ page'[t].kind = "invalid" =>
                           ~Found(asked[t], Roles) /\ CurrentLesson(current')
                      /\ page'[t].kind = "welcome" => asked[t] = WELCOME
    BY DEF vars
  <2>1. Lone(t)
    BY DEF AloneInv
  <2>2. Step(t)
    BY <2>1, StepFrame DEF Next, Begin, Goto, RestartService, Lone, TypeOK
  <2>3. CASE Restart(t)
    BY <2>3 DEF Restart, Answer, Blank, TypeOK
  <2>4. CASE UpdateParameters(t)
    BY <2>4 DEF UpdateParameters, Answer, Blank, TypeOK
  <2>5. CASE Make(t)
    BY <2>5 DEF Make, Answer, Blank, TypeOK
  <2>6. CASE Lookup(t)
    <3>1. scr[t] = asked[t] /\ isHackedAdmin' = isHackedAdmin
      BY <2>1, <2>6 DEF Lookup, Lone
    <3>2. CASE Answer(t, Blank("welcome")) /\ scr[t] = WELCOME
      BY <3>1, <3>2 DEF Answer, Blank, TypeOK
    <3>3. CASE /\ Answer(t, Blank("invalid")) /\ current' = First
               /\ ~Found(scr[t], IF pc[t] = "user" THEN {"user"} ELSE {"user", "admin", "hacked"})
      <4>1. ~Found(asked[t], Roles)
        <5>1. CASE pc[t] = "admin"
          BY <2>6, <3>1, <3>3, <5>1 DEF Found, Roles
        <5>2. CASE pc[t] = "user" /\ ~UserInRole
          BY <3>1, <3>3, <5>2 DEF Found, Roles
        <5>3. CASE pc[t] = "user" /\ UserInRole
          <6>1. asked[t] \in Challenge /\ Role[asked[t]] = "user" /\ asked[t] \in Lesson
            BY <2>1, <5>3, ScreensAssumption DEF Lone
          <6>. QED
            BY <3>1, <3>3, <5>3, <6>1 DEF Found
        <5>. QED
          BY <2>6, <5>1, <5>2, <5>3, ScreensAssumption DEF Lookup
      <4>2. CurrentLesson(current')
        BY <3>3, FirstIsFound
      <4>. QED
        BY <3>3, <4>1, <4>2 DEF Answer, Blank, TypeOK
    <3>. QED
      BY <2>6, <3>2, <3>3 DEF Lookup, FixCurrentScreen, TypeOK
  <2>7. CASE Handle(t)
    <3>1. page'[t].kind = "lesson"
      BY <2>7 DEF Handle, Answer, TypeOK
    <3>. QED
      BY <2>1, <2>2, <3>1, LoneLesson
  <2>8. CASE Fail(t)
    BY <2>8 DEF Fail, Answer, Blank, TypeOK
  <2>. QED
    BY <2>2, <2>3, <2>4, <2>5, <2>6, <2>7, <2>8 DEF Step, FirstLesson, Remember, Choose, Compare,
       UpdateStage, MakeChallenge, Goto, TypeOK
<1>. QED
  BY <1>1, ScreensInductive, PTL DEF Spec, AloneIsExact

(* A user cannot complete the hackable admin in two requests, one that     *)
(* leaves the flag behind and one that uses it.                            *)
THEOREM HackIsOneRequest == Spec => HackTakesOneRequest
<1>1. TypeOK /\ AloneInv /\ [Next]_vars =>
        [\A t \in Thread : Alone(t) /\ ~UserInRole /\ pc[t] = "user" /\ completed' # completed =>
           req[t].admin = "true" /\ Role[scr[t]] = "hacked"]_vars
  <2> SUFFICES ASSUME TypeOK, AloneInv, Next, NEW t \in Thread,
                      Alone(t), ~UserInRole, pc[t] = "user", completed' # completed
               PROVE  req[t].admin = "true" /\ Role[scr[t]] = "hacked"
    BY DEF vars
  <2>1. Lone(t)
    BY DEF AloneInv
  <2>2. Lookup(t)
    <3>1. ASSUME NEW u \in Thread, Step(u) PROVE u = t
      BY <2>1, <3>1, StepFrame DEF Lone
    <3>2. ASSUME NEW u \in Thread, NEW q \in Requests, Begin(u, q) PROVE completed' = completed
      BY <3>2 DEF Begin, flags
    <3>3. ~RestartService
      BY DEF RestartService, flags
    <3>4. Step(t)
      BY <3>1, <3>2, <3>3 DEF Next
    <3>. QED
      BY <3>4 DEF Step, FirstLesson, Remember, Choose, Compare, UpdateStage, Restart,
         UpdateParameters, Make, MakeChallenge, Handle, Fail, Goto, flags
  <2>3. Found(scr[t], {"user"}) /\ hasHacked' = (hasHacked /\ Role[scr[t]] = "hacked")
        /\ completed' = (completed \/ hasHacked')
    BY <2>2 DEF Lookup
  <2>4. hasHacked' /\ Role[scr[t]] = "hacked"
    BY <2>3 DEF TypeOK
  <2>5. isHackedAdmin
    BY <2>3, <2>4 DEF Found
  <2>. QED
    BY <2>1, <2>4, <2>5 DEF Lone
<1>. QED
  BY <1>1, ScreensInductive, PTL DEF Spec, HackTakesOneRequest

-----------------------------------------------------------------------------
(* What the requests of the front end can be, and what the services find. *)

LEMMA NothingIsAbsent ==
  /\ Nothing.admin = "absent" /\ Nothing.screen = Absent
  /\ \A p \in Place : Attack(p).admin = "absent" /\ Attack(p).screen = p.lesson
BY DEF Nothing, Attack

(* A request of the front end: for a place, or for no screen at all. *)
Asked(t) == \/ \E p \in Place : p.lesson # Absent /\ Attack(p) \in Requests /\ Begin(t, Attack(p))
            \/ Nothing \in Requests /\ Begin(t, Nothing)

LEMMA FoundStep ==
  ASSUME TypeOK, FoundInv,
         \/ \E t \in Thread : Asked(t)
         \/ \E t \in Thread : Step(t)
         \/ UNCHANGED vars
  PROVE  FoundInv' /\ (isHackedAdmin => isHackedAdmin')
<1>. USE DEF screens, flags, thread, history
<1>a. \A q \in Parameters : q.admin = "absent"
  BY NothingIsAbsent DEF Parameters, FoundInv, TypeOK
<1>b. ASSUME NEW l, isHackedAdmin => isHackedAdmin', CurrentLesson(l) PROVE CurrentLesson(l)'
  BY <1>b DEF CurrentLesson, Found
<1>1. CASE UNCHANGED vars
  BY <1>1 DEF vars, FoundInv, CurrentLesson, Found
<1>2. ASSUME NEW t \in Thread, Asked(t)
      PROVE  FoundInv' /\ (isHackedAdmin => isHackedAdmin')
  <2>1. PICK q : q.admin = "absent" /\ Begin(t, q)
    BY <1>2, NothingIsAbsent DEF Asked
  <2>. QED
    BY <2>1 DEF Begin, Goto, FoundInv, CurrentLesson, Found, TypeOK
<1>3. ASSUME NEW t \in Thread, Step(t)
      PROVE  FoundInv' /\ (isHackedAdmin => isHackedAdmin')
  <2>1. /\ req' = req
        /\ \A u \in Thread \ {t} : pc'[u] = pc[u] /\ page'[u] = page[u] /\ scr'[u] = scr[u]
    BY <1>3, StepFrame
  <2>. DEFINE Mine == /\ pc'[t] \in {"make", "challenge", "user", "admin", "handle"} =>
                           (UserInRole => isHackedAdmin')
                      /\ pc'[t] = "admin" => UserInRole
                      /\ pc'[t] = "handle" => CurrentLesson(scr[t])'
                      /\ page'[t].kind = "lesson" => CurrentLesson(page[t].lesson)'
  <2>2. ASSUME isHackedAdmin' = isHackedAdmin, Mine
        PROVE  FoundInv' /\ (isHackedAdmin => isHackedAdmin')
    BY <2>1, <2>2 DEF FoundInv, CurrentLesson, Found
  <2>3. CASE FirstLesson(t) \/ Remember(t) \/ Choose(t) \/ Compare(t) \/ UpdateStage(t)
    <3>1. isHackedAdmin' = isHackedAdmin /\ Mine
      BY <2>3 DEF FirstLesson, Remember, Choose, Compare, UpdateStage, Goto, FoundInv, TypeOK,
         CurrentLesson, Found
    <3>. QED
      BY <2>2, <3>1
  <2>4. CASE Restart(t)
    <3>1. isHackedAdmin' = isHackedAdmin /\ Mine
      BY <2>4 DEF Restart, Answer, Blank, FoundInv, TypeOK, CurrentLesson, Found
    <3>. QED
      BY <2>2, <3>1
  <2>5. CASE UpdateParameters(t)
    <3>1. isHackedAdmin' = UserInRole
      <4>1. PICK q \in Parameters : isHackedAdmin' =
              (q.admin = "true" \/ (q.admin = "absent" /\ UserInRole))
        BY <2>5 DEF UpdateParameters
      <4>2. q.admin = "absent"
        BY <1>a
      <4>. QED
        BY <4>1, <4>2, ScreensAssumption
    <3>2. Mine
      <4>1. pc'[t] \in {"make", "idle"}
        BY <2>5 DEF UpdateParameters, Answer, TypeOK
      <4>2. page'[t] = page[t] \/ page'[t] = Blank("source")
        BY <2>5 DEF UpdateParameters, Answer, TypeOK
      <4>3. page'[t].kind = "lesson" => page'[t] = page[t]
        BY <4>2 DEF Blank
      <4>. QED
        BY <3>1, <4>1, <4>3, ScreensAssumption DEF FoundInv, CurrentLesson, Found
    <3>3. \A l : CurrentLesson(l) => CurrentLesson(l)'
      BY <1>b, <3>1 DEF FoundInv
    <3>. QED
      BY <2>1, <3>1, <3>2, <3>3 DEF FoundInv
  <2>6. CASE Make(t) \/ MakeChallenge(t)
    <3>1. isHackedAdmin' = isHackedAdmin /\ Mine
      BY <2>6 DEF Make, MakeChallenge, Goto, Answer, Blank, FoundInv, TypeOK, CurrentLesson, Found
    <3>. QED
      BY <2>2, <3>1
  <2>7. CASE Lookup(t)
    <3>1. isHackedAdmin' = isHackedAdmin /\ scr' = scr
      BY <2>7 DEF Lookup
    <3>2. \/ Answer(t, Blank("welcome")) \/ Answer(t, Blank("invalid"))
          \/ /\ pc' = [pc EXCEPT ![t] = "handle"] /\ page' = page
             /\ Found(scr[t], IF pc[t] = "user" THEN {"user"} ELSE {"user", "admin", "hacked"})
      BY <2>7 DEF Lookup
    <3>3. ASSUME Found(scr[t], IF pc[t] = "user" THEN {"user"} ELSE {"user", "admin", "hacked"})
          PROVE  CurrentLesson(scr[t])
      <4>1. CASE pc[t] = "user"
        BY <3>3, <4>1 DEF Found, CurrentLesson, Roles
      <4>2. CASE pc[t] = "admin"
        BY <3>3, <4>2 DEF Found, CurrentLesson, Roles, FoundInv
      <4>. QED
        BY <2>7, <4>1, <4>2 DEF Lookup
    <3>4. CASE Answer(t, Blank("welcome")) \/ Answer(t, Blank("invalid"))
      BY <2>2, <3>1, <3>4 DEF Answer, Blank, TypeOK
    <3>5. CASE pc' = [pc EXCEPT ![t] = "handle"] /\ page' = page /\ CurrentLesson(scr[t])
      BY <2>2, <2>7, <3>1, <3>5 DEF FoundInv, TypeOK, CurrentLesson, Found, Lookup
    <3>. QED
      BY <3>2, <3>3, <3>4, <3>5
  <2>8. CASE Handle(t) \/ Fail(t)
    <3>1. isHackedAdmin' = isHackedAdmin /\ Mine
      BY <2>8 DEF Handle, Fail, Goto, Answer, Blank, FoundInv, TypeOK, CurrentLesson, Found
    <3>. QED
      BY <2>2, <3>1
  <2>. QED
    BY <1>3, <2>3, <2>4, <2>5, <2>6, <2>7, <2>8 DEF Step
<1>. QED
  BY <1>1, <1>2, <1>3

-----------------------------------------------------------------------------
(* The front end drives the servlet of SessionScreens, and nothing else.   *)

(* The steps of the front end, one by one. *)
LEMMA FrontendSteps ==
  ASSUME [FrontendNext]_all
  PROVE  \/ \E t \in Thread : \/ \E p \in Links : Click(t, p)
                              \/ Submit(t) \/ FollowLink(t) \/ Deliver(t)
                              \/ InfoService(t) \/ InfoLoaded(t) \/ InfoFailed(t) \/ Serve(t)
         \/ UNCHANGED all
BY DEF FrontendNext, User, Network

(* What it is to send a request for a place. *)
LEMMA Sends ==
  ASSUME FrontendTypeOK, NEW t \in Thread, NEW who \in {"load", "form"}, NEW p \in Place,
         p.lesson # Absent, Send(t, who, p)
  PROVE  /\ Attack(p) \in Requests /\ Begin(t, Attack(p))
         /\ pc[t] = "idle" /\ pc' = [pc EXCEPT ![t] = "first"] /\ pc'[t] = "first"
         /\ ajax[t] = "none" /\ ajax' = [ajax EXCEPT ![t] = who] /\ ajax'[t] # "none"
         /\ current' = current /\ page' = page /\ isHackedAdmin' = isHackedAdmin
         /\ asked'[t] = p.lesson
         /\ (\A u \in Thread : pc[u] = "idle") => t \notin shared'
<1>1. Begin(t, Attack(p)) /\ ajax[t] = "none" /\ ajax' = [ajax EXCEPT ![t] = who]
  BY DEF Send
<1>2. asked'[t] = p.lesson
  BY <1>1 DEF Begin, Attack, FrontendTypeOK, TypeOK
<1>. QED
  BY <1>1, <1>2, LinksAssumption DEF Begin, Goto, screens, flags, FrontendTypeOK, TypeOK

(* Whom the page asks for what. *)
LEMMA Asks ==
  ASSUME FrontendTypeOK, PageInv, NEW t \in Thread
  PROVE  /\ \A p \in Links : Click(t, p) => p \in Place /\ p.lesson # Absent /\ Send(t, "load", p)
         /\ Submit(t) => form \in Place /\ form.lesson # Absent /\ Send(t, "form", form)
<1>1. ASSUME Submit(t) PROVE form.lesson # Absent
  BY <1>1, LinksAssumption DEF Submit, PageInv, Marks
<1>. QED
  BY <1>1, LinksAssumption DEF Click, Submit, FrontendTypeOK

(* Every step of the front end is, for the servlet, one of its own. *)
LEMMA BrowserServes ==
  ASSUME FrontendTypeOK, PageInv, [FrontendNext]_all
  PROVE  \/ \E t \in Thread : Asked(t)
         \/ \E t \in Thread : Step(t)
         \/ UNCHANGED vars
<1>1. ASSUME NEW t \in Thread, Submit(t) \/ \E p \in Links : Click(t, p)
      PROVE  Asked(t)
  BY <1>1, Asks, Sends DEF Asked
<1>6. ASSUME NEW t \in Thread, FollowLink(t) PROVE Asked(t)
  BY <1>6, LinksAssumption DEF FollowLink, Asked
<1>2. ASSUME NEW t \in Thread, Deliver(t) \/ InfoService(t) \/ InfoLoaded(t) \/ InfoFailed(t)
      PROVE  UNCHANGED vars
  BY <1>2 DEF Deliver, InfoService, InfoLoaded, InfoFailed
<1>3. UNCHANGED all => UNCHANGED vars
  BY DEF all
<1>5. ASSUME NEW t \in Thread, Serve(t) PROVE Step(t)
  BY <1>5 DEF Serve
<1>. QED
  BY FrontendSteps, <1>1, <1>2, <1>3, <1>5, <1>6

LEMMA BrowserStep ==
  ASSUME FrontendTypeOK, PageInv, [FrontendNext]_all
  PROVE  [Next]_vars
BY BrowserServes DEF Next, Asked

LEMMA ActType ==
  ASSUME FrontendTypeOK, Act(Busy) \/ Act(raced \/ Busy)
  PROVE  acts' \in 0..MaxActs /\ raced' \in BOOLEAN
<1>1. Busy \in BOOLEAN
  BY DEF Busy
<1>2. raced' = Busy \/ raced' = (raced \/ Busy)
  BY DEF Act
<1>. QED
  BY <1>1, <1>2, LinksAssumption DEF Act, FrontendTypeOK

(* Every variable of the browser keeps its type. *)
LEMMA FrontendTypeStep ==
  ASSUME FrontendTypeOK, PageInv, FoundInv, [FrontendNext]_all
  PROVE  FrontendTypeOK'
<1>. USE DEF view, model, infos, user, browser, all
<1>1. TypeOK'
  BY BrowserStep, ScreensType DEF FrontendTypeOK
<1>2. ASSUME NEW t \in Thread, NEW p \in Links, Click(t, p) PROVE FrontendTypeOK'
  BY <1>1, <1>2, Asks, ActType, ZenonT(30) DEF Click, Send, FrontendTypeOK
<1>3. ASSUME NEW t \in Thread, Submit(t) PROVE FrontendTypeOK'
  BY <1>1, <1>3, ActType DEF Submit, Send, FrontendTypeOK
<1>4. ASSUME NEW t \in Thread, Deliver(t) PROVE FrontendTypeOK'
  <2>1. page[t].kind = "lesson" => page[t].lesson \in Lesson
    BY DEF FoundInv, CurrentLesson, Found
  <2>. QED
    BY <1>1, <1>4, <2>1 DEF Deliver, FrontendTypeOK
<1>5. ASSUME NEW t \in Thread, InfoService(t) PROVE FrontendTypeOK'
  BY <1>1, <1>5 DEF InfoService, CurrentLesson, Found, FrontendTypeOK
<1>6. ASSUME NEW t \in Thread, InfoLoaded(t) \/ InfoFailed(t) PROVE FrontendTypeOK'
  BY <1>1, <1>6 DEF InfoLoaded, InfoFailed, FrontendTypeOK
<1>7. ASSUME NEW t \in Thread, FollowLink(t) PROVE FrontendTypeOK'
  BY <1>1, <1>7, ActType DEF FollowLink, FrontendTypeOK
<1>8. ASSUME NEW t \in Thread, Serve(t) PROVE FrontendTypeOK'
  BY <1>1, <1>8 DEF Serve, FrontendTypeOK
<1>9. CASE UNCHANGED all
  BY <1>1, <1>9 DEF FrontendTypeOK
<1>. QED
  BY FrontendSteps, <1>2, <1>3, <1>4, <1>5, <1>6, <1>7, <1>8, <1>9

(* What FoundInv says stays true, and a lesson that was found stays found. *)
LEMMA BrowserFinds ==
  ASSUME FrontendTypeOK, PageInv, FoundInv, [FrontendNext]_all
  PROVE  FoundInv' /\ \A l \in Lesson : CurrentLesson(l) => CurrentLesson(l)'
<1>1. FoundInv' /\ (isHackedAdmin => isHackedAdmin')
  BY BrowserServes, FoundStep DEF FrontendTypeOK
<1>. QED
  BY <1>1 DEF CurrentLesson, Found

LEMMA UnderWay ==
  ASSUME PageInv, NEW t \in Thread, ajax[t] # "none" \/ info[t] # "none"
  PROVE  url.lesson # Absent
BY DEF PageInv

LEMMA PageStep ==
  ASSUME FrontendTypeOK, PageInv, FoundInv, [FrontendNext]_all
  PROVE  PageInv'
<1>. USE DEF view, model, infos, user, browser, all
<1>1. \A l \in Lesson : CurrentLesson(l) => CurrentLesson(l)'
  BY BrowserFinds
<1>2. ASSUME NEW t \in Thread, NEW p \in Links, Click(t, p) PROVE PageInv'
  <2>1. p.lesson # Absent /\ Send(t, "load", p) /\ p \in Place
    BY <1>2, Asks
  <2>2. /\ pc' = [pc EXCEPT ![t] = "first"] /\ ajax' = [ajax EXCEPT ![t] = "load"]
    BY <2>1, Sends
  <2>. QED
    BY <1>1, <1>2, <2>1, <2>2 DEF Click, PageInv, FrontendTypeOK, TypeOK
<1>3. ASSUME NEW t \in Thread, Submit(t) PROVE PageInv'
  <2>1. form.lesson # Absent /\ Send(t, "form", form) /\ form \in Place
    BY <1>3, Asks
  <2>2. /\ pc' = [pc EXCEPT ![t] = "first"] /\ ajax' = [ajax EXCEPT ![t] = "form"]
    BY <2>1, Sends
  <2>3. url.lesson # Absent
    BY <1>3, LinksAssumption DEF Submit, PageInv, Marks
  <2>. QED
    BY <1>1, <1>3, <2>1, <2>2, <2>3 DEF Submit, PageInv, FrontendTypeOK, TypeOK
<1>4. ASSUME NEW t \in Thread, FollowLink(t) PROVE PageInv'
  <2>1. url.lesson # Absent
    BY <1>4, LinksAssumption DEF FollowLink, PageInv, Marks
  <2>. QED
    BY <1>1, <1>4, <2>1 DEF FollowLink, Begin, Goto, PageInv, FrontendTypeOK, TypeOK
<1>5. ASSUME NEW t \in Thread, Deliver(t) PROVE PageInv'
  <2>1. url.lesson # Absent
    BY <1>5, UnderWay DEF Deliver
  <2>2. page[t].kind = "lesson" => CurrentLesson(page[t].lesson)
    BY DEF FoundInv
  <2>3. shown' \in Lesson => page[t].kind = "lesson" /\ shown' = page[t].lesson
    BY <1>5, LinksAssumption DEF Deliver, Marks
  <2>. QED
    BY <1>1, <1>5, <2>1, <2>2, <2>3 DEF Deliver, PageInv, vars, FrontendTypeOK, TypeOK
<1>6. ASSUME NEW t \in Thread, InfoService(t) PROVE PageInv'
  BY <1>1, <1>6 DEF InfoService, PageInv, vars, FrontendTypeOK
<1>7. ASSUME NEW t \in Thread, InfoLoaded(t) PROVE PageInv'
  <2>1. url.lesson # Absent
    BY <1>7, UnderWay, LinksAssumption DEF InfoLoaded, Marks
  <2>. QED
    BY <1>1, <1>7, <2>1 DEF InfoLoaded, PageInv, vars, FrontendTypeOK
<1>8. ASSUME NEW t \in Thread, InfoFailed(t) PROVE PageInv'
  BY <1>1, <1>8 DEF InfoFailed, PageInv, vars, FrontendTypeOK
<1>9. ASSUME NEW t \in Thread, Serve(t) PROVE PageInv'
  <2>1. pc[t] # "idle" /\ \A u \in Thread \ {t} : pc'[u] = pc[u]
    BY <1>9, StepFrame DEF Serve, FrontendTypeOK
  <2>. QED
    BY <1>1, <1>9, <2>1 DEF Serve, PageInv
<1>10. CASE UNCHANGED all
  BY <1>1, <1>10 DEF PageInv, vars
<1>. QED
  BY FrontendSteps, <1>2, <1>3, <1>4, <1>5, <1>6, <1>7, <1>8, <1>9, <1>10

(* The session leaves the welcome screen with its first request and never  *)
(* comes back to it: a later request that names no screen is for the       *)
(* current one.                                                            *)
LEMMA CourseStep ==
  ASSUME FrontendTypeOK, PageInv, CourseInv, [FrontendNext]_all
  PROVE  CourseInv'
<1>. USE DEF screens, flags, thread, history, TypeOK, FrontendTypeOK
<1>a. First # WELCOME /\ WELCOME # ERROR /\ Absent # WELCOME /\ Nothing.screen # WELCOME
  BY ScreensAssumption, NothingIsAbsent
<1>b. \A q \in Parameters : q.screen # WELCOME
  BY <1>a DEF Parameters, CourseInv
<1>1. CASE UNCHANGED vars
  BY <1>1 DEF vars, CourseInv
<1>2. ASSUME NEW t \in Thread, Asked(t) PROVE CourseInv'
  <2>1. PICK q : q.screen # WELCOME /\ Begin(t, q)
    <3>1. \A p \in Place : p.lesson # WELCOME
      BY ScreensAssumption DEF Place
    <3>. QED
      BY <1>2, <1>a, <3>1, NothingIsAbsent DEF Asked
  <2>. QED
    BY <2>1 DEF Begin, Goto, CourseInv
<1>3. ASSUME NEW t \in Thread, Step(t) PROVE CourseInv'
  <2>1. req' = req /\ \A u \in Thread \ {t} : pc'[u] = pc[u]
    BY <1>3, StepFrame
  <2>2. current' = current \/ current' # WELCOME
    BY <1>3, <1>a, <1>b
    DEF Step, FirstLesson, Remember, Choose, Compare, UpdateStage, Restart, UpdateParameters,
        Make, MakeChallenge, Lookup, Handle, Fail, FixCurrentScreen
  <2>3. CASE FirstLesson(t)
    BY <1>a, <2>1, <2>3 DEF FirstLesson, Goto, StartsCourse, CourseInv
  <2>4. CASE Remember(t)
    BY <2>1, <2>4 DEF Remember, Goto, CourseInv
  <2>5. CASE ~FirstLesson(t) /\ ~Remember(t)
    <3>1. previous' = previous /\ pc[t] \notin {"idle", "first"}
      BY <1>3, <2>5
      DEF Step, Choose, Compare, UpdateStage, Restart, UpdateParameters,
          Make, MakeChallenge, Lookup, Handle, Fail, Goto
    <3>. QED
      BY <2>1, <2>2, <3>1 DEF CourseInv
  <2>. QED
    BY <2>3, <2>4, <2>5
<1>. QED
  BY <1>1, <1>2, <1>3, BrowserServes

(* What leaves content requests, the page and the servlet alone, leaves    *)
(* the one request of a settled page alone.                                *)
LEMMA SoleStays ==
  ASSUME UNCHANGED <<ajax, shown, pc, page, current, shared, asked, url>>,
         NEW t \in Thread, SoleRequest(t)
  PROVE  SoleRequest(t)'
BY DEF SoleRequest, Alone

(* The user acts on a page where nothing is under way: the request that    *)
(* this sends is the only one, and it is for the lesson of the address.    *)
LEMMA SoleSent ==
  ASSUME FrontendTypeOK, PageInv, NEW t \in Thread, NEW who \in {"load", "form"}, NEW p \in Place,
         p.lesson # Absent, Send(t, who, p), \A u \in Thread : ajax[u] = "none",
         p.lesson = url'.lesson, who = "form" => shown' = url'.lesson
  PROVE  /\ \A u \in Thread : ajax'[u] # "none" => SoleRequest(u)'
         /\ ajax'[t] # "none"
<1>1. \A u \in Thread : pc[u] = "idle"
  BY DEF PageInv
<1>2. /\ ajax' = [ajax EXCEPT ![t] = who] /\ ajax'[t] # "none" /\ pc'[t] = "first"
      /\ asked'[t] = p.lesson /\ t \notin shared'
  BY <1>1, Sends
<1>3. \A u \in Thread \ {t} : ajax'[u] = "none"
  BY <1>2 DEF FrontendTypeOK
<1>. QED
  BY <1>2, <1>3 DEF SoleRequest, Alone

(* A page that was not raced on settles: the one request under way is for  *)
(* the lesson of its address and stays alone, and when nothing is under    *)
(* way the page shows that lesson, and a request that names no screen is   *)
(* for it.                                                                 *)
LEMMA SettledStep ==
  ASSUME FrontendTypeOK, PageInv, FoundInv, CourseInv, AloneInv, SettledInv, [FrontendNext]_all
  PROVE  SettledInv'
<1> SUFFICES ASSUME ~raced' PROVE SettledInv'
  BY DEF SettledInv
<1>. USE DEF view, model, infos, user, browser, all
<1>1. ASSUME NEW t \in Thread, NEW p \in Links, Click(t, p) PROVE SettledInv'
  <2>1. p \in Place /\ p.lesson # Absent /\ Send(t, "load", p)
    BY <1>1, Asks
  <2>2. p.lesson = url'.lesson /\ \A u \in Thread : ajax[u] = "none"
    BY <1>1 DEF Click, Act, Busy
  <2>. QED
    BY <2>1, <2>2, SoleSent DEF SettledInv
<1>2. ASSUME NEW t \in Thread, Submit(t) PROVE SettledInv'
  <2>1. form \in Place /\ form.lesson # Absent /\ Send(t, "form", form)
    BY <1>2, Asks
  <2>2. ~raced /\ \A u \in Thread : ajax[u] = "none"
    BY <1>2 DEF Submit, Act, Busy
  <2>3. form.lesson = url'.lesson /\ shown' = url'.lesson
    BY <1>2, <2>2, LinksAssumption DEF Submit, SettledInv, AtRest, Marks
  <2>. QED
    BY <2>1, <2>2, <2>3, SoleSent DEF SettledInv
<1>3. ASSUME NEW t \in Thread, FollowLink(t) PROVE SettledInv'
  <2>1. ~raced /\ \A u \in Thread : ajax[u] = "none" /\ pc[u] = "idle"
    BY <1>3 DEF FollowLink, Act, Busy, PageInv
  <2>2. shown \in Lesson /\ shown = url.lesson /\ shown = current /\ UNCHANGED <<shown, url>>
    BY <1>3, <2>1 DEF FollowLink, SettledInv, AtRest
  <2>3. ~StartsCourse
    BY <2>2, ScreensAssumption DEF StartsCourse, CourseInv
  <2>4. /\ ajax' = [ajax EXCEPT ![t] = "link"] /\ pc' = [pc EXCEPT ![t] = "first"]
        /\ asked'[t] = current /\ t \notin shared'
    BY <1>3, <2>1, <2>3, NothingIsAbsent DEF FollowLink, Begin, Goto, FrontendTypeOK, TypeOK
  <2>5. SoleRequest(t)' /\ ajax'[t] # "none" /\ \A u \in Thread \ {t} : ajax'[u] = "none"
    BY <2>1, <2>2, <2>4 DEF SoleRequest, Alone, FrontendTypeOK, TypeOK
  <2>. QED
    BY <2>5 DEF SettledInv
<1>4. ASSUME NEW t \in Thread, Deliver(t) PROVE SettledInv'
  <2>1. SoleRequest(t) /\ ajax[t] # "none" /\ pc[t] = "idle"
    BY <1>4 DEF Deliver, SettledInv
  <2>2. \A u \in Thread : ajax'[u] = "none"
    BY <1>4, <2>1 DEF Deliver, SoleRequest, FrontendTypeOK
  <2>3. shown' \in Lesson => shown' = url.lesson /\ shown' = current
    BY <1>4, <2>1, LinksAssumption DEF Deliver, SoleRequest, Marks
  <2>4. AtRest'
    BY <1>4, <2>1, <2>3 DEF Deliver, AtRest, SoleRequest, vars, screens, FrontendTypeOK
  <2>. QED
    BY <2>2, <2>4 DEF SettledInv
<1>5. ASSUME NEW t \in Thread, InfoService(t) \/ InfoLoaded(t) \/ InfoFailed(t)
      PROVE  SettledInv'
  <2>1. /\ UNCHANGED <<ajax, shown, pc, page, current, shared, asked, url>>
        /\ UNCHANGED <<form, newest, raced>>
    BY <1>5 DEF InfoService, InfoLoaded, InfoFailed, vars, screens, thread, history
  <2>2. ASSUME AtRest PROVE AtRest'
    <3>1. SUFFICES ASSUME shown \in Lesson
                   PROVE  /\ info'[newest] \in {"sent", "none", shown}
                          /\ info'[newest] = "none" => loaded' = shown /\ title' = shown
      BY <2>1, <2>2 DEF AtRest
    <3>2. shown = current /\ CurrentLesson(shown) /\ shown \notin Marks
      BY <2>2, <3>1, LinksAssumption DEF AtRest, PageInv
    <3>3. info[newest] \in {"sent", "none", shown} /\ (info[newest] = "none" => loaded = shown /\ title = shown)
      BY <2>2, <3>1 DEF AtRest
    <3>4. CASE InfoService(t)
      <4>1. info'[newest] = info[newest] \/ info'[newest] = shown
        BY <3>2, <3>4 DEF InfoService, FrontendTypeOK
      <4>. QED
        BY <3>2, <3>3, <3>4, <4>1 DEF InfoService, Marks
    <3>5. CASE InfoLoaded(t)
      <4>1. newest = t => info[t] = shown
        BY <3>3, <3>5, LinksAssumption DEF InfoLoaded, Marks
      <4>2. info' = [info EXCEPT ![t] = "none"] /\ title' = loaded'
            /\ loaded' = (IF newest = t THEN info[t] ELSE loaded)
        BY <3>5 DEF InfoLoaded
      <4>3. CASE newest = t
        BY <4>1, <4>2, <4>3 DEF FrontendTypeOK
      <4>4. CASE newest # t
        BY <3>3, <4>2, <4>4 DEF FrontendTypeOK
      <4>. QED
        BY <4>3, <4>4
    <3>6. CASE InfoFailed(t)
      <4>1. newest # t
        BY <3>2, <3>3, <3>6 DEF InfoFailed, Marks
      <4>. QED
        BY <3>3, <3>6, <4>1 DEF InfoFailed, FrontendTypeOK
    <3>. QED
      BY <1>5, <3>4, <3>5, <3>6
  <2>. QED
    BY <2>1, <2>2, SoleStays DEF SettledInv
<1>6. ASSUME NEW t \in Thread, Serve(t) PROVE SettledInv'
  <2>1. /\ pc[t] # "idle" /\ shared' = shared /\ asked' = asked /\ Step(t) /\ UNCHANGED browser
    BY <1>6, StepFrame DEF Serve, FrontendTypeOK
  <2>2. ajax[t] # "none" /\ SoleRequest(t)
    BY <2>1 DEF PageInv, SettledInv
  <2>3. Lone(t)
    BY <2>1, <2>2 DEF AloneInv, SoleRequest
  <2>4. SoleRequest(t)'
    BY <2>1, <2>2, <2>3, LoneLesson DEF SoleRequest, Alone, FrontendTypeOK
  <2>. QED
    BY <2>1, <2>2, <2>4 DEF SettledInv, SoleRequest
<1>7. CASE UNCHANGED all
  BY <1>7, SoleStays DEF SettledInv, AtRest, vars, screens, thread, history
<1>. QED
  BY FrontendSteps, <1>1, <1>2, <1>3, <1>4, <1>5, <1>6, <1>7

LEMMA FrontendInductive ==
  FrontendSpec => [](FrontendTypeOK /\ PageInv /\ FoundInv /\ CourseInv /\ AloneInv /\ SettledInv)
<1>. DEFINE IInv == FrontendTypeOK /\ PageInv /\ FoundInv /\ CourseInv /\ AloneInv /\ SettledInv
<1>1. FrontendInit => IInv
  <2> SUFFICES ASSUME FrontendInit PROVE IInv
    OBVIOUS
  <2>1. TypeOK /\ AloneInv
    BY ScreensInit DEF FrontendInit
  <2>2. FrontendTypeOK
    <3>1. Nowhere \in Place
      BY ScreensAssumption DEF Nowhere, Place
    <3>2. 0 \in 0..MaxActs
      BY LinksAssumption
    <3>. QED
      BY <2>1, <3>1, <3>2 DEF FrontendInit, FrontendTypeOK
  <2>3. PageInv
    BY LinksAssumption DEF FrontendInit, Init, PageInv, Nowhere, Marks
  <2>4. FoundInv
    BY NothingIsAbsent DEF FrontendInit, Init, FoundInv
  <2>5. SettledInv
    BY LinksAssumption DEF FrontendInit, SettledInv, AtRest, Marks
  <2>6. CourseInv
    BY ScreensAssumption, NothingIsAbsent DEF FrontendInit, Init, CourseInv
  <2>. QED
    BY <2>1, <2>2, <2>3, <2>4, <2>5, <2>6
<1>2. IInv /\ [FrontendNext]_all => IInv'
  <2> SUFFICES ASSUME IInv, [FrontendNext]_all PROVE IInv'
    OBVIOUS
  <2>1. FrontendTypeOK' /\ PageInv' /\ FoundInv' /\ CourseInv' /\ SettledInv'
    BY FrontendTypeStep, PageStep, BrowserFinds, CourseStep, SettledStep
  <2>2. AloneInv'
    BY BrowserStep, AloneStep DEF FrontendTypeOK
  <2>. QED
    BY <2>1, <2>2
<1>. QED
  BY <1>1, <1>2, PTL DEF FrontendSpec

(* Every variable of the browser and of its session keeps its type.        *)
THEOREM FrontendTypeCorrect == FrontendSpec => []FrontendTypeOK
BY FrontendInductive, PTL

(* The requests of the front end are requests a session can get: what is   *)
(* proved of Spec holds of the front end's server.                         *)
THEOREM FrontendIsServed == FrontendSpec => Spec
<1>1. FrontendInit => Init
  BY DEF FrontendInit
<1>. QED
  BY <1>1, FrontendInductive, BrowserStep, PTL DEF FrontendSpec, Spec

(* When nothing is under way and the user has not acted into a race since  *)
(* the last link followed at rest, content, title, forms, address and      *)
(* server are at one lesson: onContentLoaded takes the urlRoot of the one  *)
(* request there was, and the info service answers for its screen.         *)
THEOREM RestingPage == FrontendSpec => []RestingPageAgrees
<1>1. FrontendTypeOK /\ PageInv /\ SettledInv => RestingPageAgrees
  <2> SUFFICES ASSUME FrontendTypeOK, PageInv, SettledInv, Quiet, ~raced, shown \in Lesson
               PROVE  /\ shown = url.lesson /\ shown = form.lesson /\ shown = title
                      /\ shown = current /\ shown = hash.lesson
    BY DEF RestingPageAgrees
  <2>1. AtRest /\ info[newest] = "none"
    BY DEF SettledInv, Quiet, Busy, FrontendTypeOK
  <2>2. shown # "nothing"
    BY LinksAssumption DEF Marks
  <2>. QED
    BY <2>1, <2>2 DEF AtRest, PageInv
<1>. QED
  BY <1>1, FrontendInductive, PTL

(* A form or a link of a lesson that is answered by a lesson is answered   *)
(* by the same one, however the requests before it have raced, if the page *)
(* was at rest when the user followed it: the link names no screen, and    *)
(* the session is then at the lesson on the page.                          *)
THEOREM ContentStays == FrontendSpec => ContentStaysOnLesson
<1>1. FrontendTypeOK /\ SettledInv /\ [FrontendNext]_all =>
        [\A t \in Thread : /\ ajax[t] \in {"form", "link"} /\ ajax'[t] = "none"
                           /\ ~raced /\ page[t].kind = "lesson"
                           => shown' = shown]_all
  <2> SUFFICES ASSUME FrontendTypeOK, SettledInv, [FrontendNext]_all, NEW t \in Thread,
                      ajax[t] \in {"form", "link"}, ajax'[t] = "none",
                      ~raced, page[t].kind = "lesson"
               PROVE  shown' = shown
    OBVIOUS
  <2>1. SoleRequest(t)
    BY DEF SettledInv
  <2>2. Deliver(t)
    <3>1. \A u \in Thread : Deliver(u) => u = t
      BY DEF Deliver, FrontendTypeOK
    <3>2. ASSUME NEW u \in Thread, \/ Submit(u) \/ FollowLink(u) \/ \E p \in Links : Click(u, p)
          PROVE  FALSE
      BY <3>2 DEF Submit, FollowLink, Click, Send, FrontendTypeOK
    <3>3. ASSUME NEW u \in Thread, InfoService(u) \/ InfoLoaded(u) \/ InfoFailed(u) \/ Serve(u)
          PROVE  FALSE
      BY <3>3 DEF InfoService, InfoLoaded, InfoFailed, Serve, browser
    <3>4. ~UNCHANGED all
      BY DEF all, browser
    <3>. QED
      BY <3>1, <3>2, <3>3, <3>4, FrontendSteps
  <2>. QED
    BY <2>1, <2>2 DEF Deliver, SoleRequest
<1>. QED
  BY <1>1, FrontendInductive, PTL DEF FrontendSpec, ContentStaysOnLesson

(* A step of a request takes it further through HammerHead. *)
LEMMA StepGoesOn ==
  ASSUME TypeOK, NEW t \in Thread, Step(t)
  PROVE  PointsLeft(t)' < PointsLeft(t)
<1>. USE DEF Goto, Answer, PointsLeft, TypeOK, PC
<1>1. CASE FirstLesson(t) \/ Remember(t) \/ Choose(t) \/ UpdateStage(t)
  BY <1>1 DEF FirstLesson, Remember, Choose, UpdateStage
<1>2. CASE Compare(t)
  BY <1>2 DEF Compare
<1>3. CASE Restart(t)
  BY <1>3 DEF Restart
<1>4. CASE UpdateParameters(t)
  BY <1>4 DEF UpdateParameters
<1>5. CASE Make(t) \/ MakeChallenge(t)
  BY <1>5 DEF Make, MakeChallenge
<1>6. CASE Lookup(t)
  BY <1>6 DEF Lookup
<1>7. CASE Handle(t) \/ Fail(t)
  BY <1>7 DEF Handle, Fail
<1>. QED
  BY <1>1, <1>2, <1>3, <1>4, <1>5, <1>6, <1>7 DEF Step

(* Nothing is left exactly when the page is at rest. *)
LEMMA NothingLeft ==
  ASSUME FrontendTypeOK, PageInv
  PROVE  /\ \A t \in Thread : Left(t) \in Nat
         /\ Quiet <=> \A t \in Thread : Left(t) = 0
<1>2. ASSUME NEW t \in Thread
      PROVE  Left(t) \in Nat /\ (Left(t) = 0 <=> ajax[t] = "none" /\ info[t] = "none")
  <2>1. PointsLeft(t) \in Nat /\ (PointsLeft(t) = 0 <=> pc[t] = "idle")
    BY DEF FrontendTypeOK, TypeOK, PC, PointsLeft
  <2>2. AnswerLeft(t) \in Nat /\ (AnswerLeft(t) = 0 <=> ajax[t] = "none")
    BY DEF AnswerLeft
  <2>3. InfoLeft(t) \in Nat /\ (InfoLeft(t) = 0 <=> info[t] = "none")
    BY DEF InfoLeft
  <2>4. pc[t] # "idle" => ajax[t] # "none"
    BY DEF PageInv
  <2>. QED
    BY <2>1, <2>2, <2>3, <2>4 DEF Left
<1>. QED
  BY <1>2 DEF Quiet, Busy

(* What nobody touches is left for as many steps as before. *)
LEMMA LeftStays ==
  ASSUME NEW u \in Thread, pc'[u] = pc[u], ajax'[u] = ajax[u], info'[u] = info[u]
  PROVE  Left(u)' = Left(u)
BY DEF Left, PointsLeft, AnswerLeft, InfoLeft

(* Of everything a click, a form or a link sets off there is               *)
(* an end, whatever the number of threads and lessons: the answers do not  *)
(* keep each other going, and the page comes to rest.                      *)
THEOREM AnswersEnd ==
  FrontendSpec => /\ AnswersRunOut
                  /\ [](Quiet <=> \A t \in Thread : Left(t) = 0)
<1>1. ASSUME FrontendTypeOK, FrontendTypeOK', PageInv, PageInv',
             Network \/ \E t \in Thread : Serve(t)
      PROVE  \E t \in Thread :
               /\ \A u \in Thread \ {t} : Left(u)' = Left(u)
               /\ Left(t)' < Left(t)
  <2>. DEFINE Others(t) == \A u \in Thread \ {t} : Left(u)' = Left(u)
              Fewer(t) == Left(t)' < Left(t)
  <2>1. \A u \in Thread : PointsLeft(u) \in Nat /\ PointsLeft(u)' \in Nat
    BY <1>1 DEF FrontendTypeOK, TypeOK, PC, PointsLeft
  <2>2. ASSUME NEW t \in Thread, Serve(t) PROVE Others(t) /\ Fewer(t)
    <3>1. PointsLeft(t)' < PointsLeft(t) /\ \A u \in Thread \ {t} : pc'[u] = pc[u]
      BY <1>1, <2>2, StepGoesOn, StepFrame DEF Serve, FrontendTypeOK
    <3>2. ajax' = ajax /\ info' = info
      BY <2>2 DEF Serve, browser, infos
    <3>3. Others(t)
      BY <3>1, <3>2, LeftStays
    <3>. QED
      BY <2>1, <3>1, <3>2, <3>3 DEF Left, AnswerLeft, InfoLeft
  <2>3. ASSUME NEW t \in Thread, Deliver(t) PROVE Others(t) /\ Fewer(t)
    <3>1. /\ pc' = pc
          /\ ajax[t] # "none" /\ info[t] = "none"
          /\ ajax' = [ajax EXCEPT ![t] = "none"] /\ info' = [info EXCEPT ![t] = "sent"]
      BY <2>3 DEF Deliver, vars
    <3>2. ajax'[t] = "none" /\ info'[t] = "sent"
      BY <1>1, <3>1 DEF FrontendTypeOK
    <3>3. Others(t)
      BY <3>1, LeftStays
    <3>4. PointsLeft(t)' = PointsLeft(t)
      BY <3>1 DEF PointsLeft
    <3>5. AnswerLeft(t) = 3 /\ AnswerLeft(t)' = 0 /\ InfoLeft(t) = 0 /\ InfoLeft(t)' = 2
      BY <3>1, <3>2 DEF AnswerLeft, InfoLeft
    <3>. QED
      BY <2>1, <3>3, <3>4, <3>5 DEF Left
  <2>4. ASSUME NEW t \in Thread, InfoService(t) \/ InfoLoaded(t) \/ InfoFailed(t)
        PROVE  Others(t) /\ Fewer(t)
    <3>1. /\ pc' = pc /\ ajax' = ajax
          /\ \A u \in Thread \ {t} : info'[u] = info[u]
      BY <2>4, <1>1 DEF InfoService, InfoLoaded, InfoFailed, vars, FrontendTypeOK
    <3>2. InfoLeft(t)' < InfoLeft(t) /\ InfoLeft(t) \in Nat /\ InfoLeft(t)' \in Nat
      BY <2>4, <1>1, LinksAssumption
      DEF InfoService, InfoLoaded, InfoFailed, FrontendTypeOK, InfoLeft, CurrentLesson, Found, Marks
    <3>3. Others(t)
      BY <3>1, LeftStays
    <3>4. PointsLeft(t)' = PointsLeft(t) /\ AnswerLeft(t)' = AnswerLeft(t)
      BY <3>1 DEF PointsLeft, AnswerLeft
    <3>5. AnswerLeft(t) \in Nat
      BY DEF AnswerLeft
    <3>. QED
      BY <2>1, <3>2, <3>3, <3>4, <3>5 DEF Left
  <2>. QED
    BY <1>1, <2>2, <2>3, <2>4 DEF Network
<1>2. FrontendTypeOK /\ PageInv => (Quiet <=> \A t \in Thread : Left(t) = 0)
  BY NothingLeft
<1>. QED
  BY <1>1, <1>2, FrontendInductive, PTL DEF FrontendSpec, AnswersRunOut
===============================================================================
