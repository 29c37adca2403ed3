---------------------------- MODULE SessionScreens ----------------------------
(***************************************************************************)
(* The screen state of one WebSession and the servlet HammerHead that      *)
(* moves it.  All requests of a browser share the session, the servlet     *)
(* takes no lock, and the parser of the parameters is part of the session: *)
(* a thread reads the parameters of whichever request updated it last.     *)
(* One step per read or write that another request can come between.       *)
(***************************************************************************)
EXTENDS Naturals

CONSTANTS
  Thread,          (* the container's threads                              *)
  Lesson,          (* the lessons of the course                            *)
  Role,            (* the role each lesson is for                          *)
  Challenge,       (* lessons of the category CHALLENGE                    *)
  Staged,          (* lessons that are a RandomLessonAdapter               *)
  N,               (* stages of each of them                               *)
  First,           (* Course.getFirstLesson                                *)
  UserInRole,      (* isUserInRole(WEBGOAT_ADMIN) for this user            *)
  Requests,        (* the requests to consider                             *)
  WELCOME, ERROR,  (* screen ids that are no lesson's                      *)
  Unknown,         (* a screen id the course does not know                 *)
  Absent           (* the value of a parameter that is not sent            *)

Screen == Lesson \cup {WELCOME, Unknown}

Request == [screen : Screen \cup {Absent},
            stage : 0..(N + 1),                  (* 0: no stage parameter  *)
            restart : Lesson \cup {Unknown, Absent},
            admin : {"true", "false", "absent"},
            kind : {"page", "start", "source"}]  (* source: show=Source    *)

ASSUME ScreensAssumption ==
  /\ N \in Nat \ {0} /\ UserInRole \in BOOLEAN
  /\ {WELCOME, ERROR, Unknown, Absent} \cap Lesson = {}
  /\ WELCOME \notin {ERROR, Unknown, Absent} /\ ERROR \notin {Unknown, Absent} /\ Unknown # Absent
  /\ Role \in [Lesson -> {"user", "hacked", "admin"}]
  /\ First \in Lesson /\ Role[First] = "user"
  /\ Challenge \subseteq Lesson /\ Staged \subseteq Lesson
  /\ Requests \subseteq Request

VARIABLES
  current, previous, (* currentScreen, previousScreen                      *)
  previousStage,     (* 1-based; 0 for the code's -1                       *)
  isHackedAdmin, hasHacked, completed, (* the hackable admin's three flags *)
  parser,            (* the thread whose request the parser reads          *)
  stage,             (* the stage of each lesson's tracker                 *)
  pc, req, scr,      (* the threads: where, which request, local scr       *)
  page,              (* what each answered last                            *)
  shared,            (* history: threads whose request overlapped another  *)
  asked,             (* history: the screen each request is to show        *)
  streak             (* history: pages "invalid screen" one after another  *)

flags   == <<isHackedAdmin, hasHacked, completed>>
screens == <<current, previous, previousStage>>
thread  == <<req, scr>>
history == <<shared, asked, streak>>
vars    == <<screens, flags, parser, stage, pc, thread, page, history>>

Nothing == [screen |-> Absent, stage |-> 0, restart |-> Absent,
            admin |-> "absent", kind |-> "page"]

PC == {"idle", "first", "remember", "choose", "compare", "stage", "restart", "parameters",
       "source", "make", "challenge", "user", "admin", "handle", "broken"}

Page == [kind : {"none", "lesson", "welcome", "invalid", "error", "fatal", "redirect", "source"},
         lesson : Screen, own : BOOLEAN]

TypeOK ==
  /\ current \in Screen
  /\ previous \in Screen \cup {ERROR}
  /\ previousStage \in 0..(N + 1)
  /\ isHackedAdmin \in BOOLEAN /\ hasHacked \in BOOLEAN /\ completed \in BOOLEAN
  /\ parser \in Thread
  /\ stage \in [Staged -> 1..N]
  /\ pc \in [Thread -> PC]
  /\ req \in [Thread -> Requests \cup {Nothing}]
  /\ scr \in [Thread -> Screen]
  /\ page \in [Thread -> Page]
  /\ shared \subseteq Thread
  /\ asked \in [Thread -> Screen]
  /\ streak \in 0..2

Init ==
  /\ current = WELCOME /\ previous = ERROR /\ previousStage = 0
  /\ isHackedAdmin = FALSE /\ hasHacked = FALSE /\ completed = FALSE
  /\ parser \in Thread
  /\ stage = [l \in Staged |-> 1]
  /\ pc = [t \in Thread |-> "idle"]
  /\ req = [t \in Thread |-> Nothing]
  /\ scr = [t \in Thread |-> WELCOME]
  /\ page = [t \in Thread |-> [kind |-> "none", lesson |-> WELCOME, own |-> TRUE]]
  /\ shared = {}
  /\ asked = [t \in Thread |-> WELCOME]
  /\ streak = 0

-----------------------------------------------------------------------------
Goto(t, from, to) == pc[t] = from /\ pc' = [pc EXCEPT ![t] = to]

(* The parameters the parser sees.  The container recycles a request that  *)
(* has been answered: what is read from it then may be gone.               *)
Parameters == {req[parser]} \cup (IF pc[parser] = "idle" THEN {Nothing} ELSE {})

(* Course.getLesson, for a session without and with the hacked admin's role *)
Found(id, roles) ==
  id \in Lesson /\ Role[id] \in roles \cup (IF isHackedAdmin THEN {"hacked"} ELSE {})
Roles == {"user"} \cup (IF UserInRole THEN {"admin"} ELSE {})
CurrentLesson(id) == Found(id, Roles)
IsChallenge == CurrentLesson(current) /\ current \in Challenge

StartsCourse == previous = WELCOME \/ (current = WELCOME /\ previous = ERROR)

(* The request is over.  The streak counts pages "invalid screen" that came *)
(* without an overlap, after the first one only for requests that did not   *)
(* ask for a screen.                                                        *)
Answer(t, p) ==
  /\ pc' = [pc EXCEPT ![t] = "idle"]
  /\ page' = [page EXCEPT ![t] = p]
  /\ streak' = IF t \in shared \/ p.kind # "invalid" THEN 0
               ELSE IF req[t].screen # Absent THEN 1
               ELSE IF streak = 0 THEN 1 ELSE 2
  /\ UNCHANGED <<shared, asked>>

Blank(k) == [kind |-> k, lesson |-> WELCOME, own |-> TRUE]

-----------------------------------------------------------------------------
(* A request arrives: updateSession, WebSession.update up to updateParser. *)
Begin(t, q) ==
  /\ Goto(t, "idle", "first")
  /\ parser' = t
  /\ req' = [req EXCEPT ![t] = q]
  /\ LET busy == {u \in Thread : pc[u] # "idle"} IN
     shared' = IF busy = {} THEN shared \ {t} ELSE shared \cup busy \cup {t}
  /\ asked' = [asked EXCEPT ![t] = IF q.screen # Absent THEN q.screen
                                   ELSE IF StartsCourse THEN First ELSE current]
  /\ UNCHANGED <<screens, flags, stage, scr, page, streak>>

(* updateScreenProperties, in three steps *)
FirstLesson(t) ==
  /\ Goto(t, "first", "remember")
  /\ current' = IF StartsCourse THEN First ELSE current
  /\ UNCHANGED <<previous, previousStage, flags, parser, stage, thread, page, history>>

Remember(t) ==
  /\ Goto(t, "remember", "choose")
  /\ previous' = current
  /\ UNCHANGED <<current, previousStage, flags, parser, stage, thread, page, history>>

ChooseKnown(t) ==
  /\ Goto(t, "choose", "compare")
  /\ \E p \in Parameters :
       current' = IF p.screen \in Lesson THEN p.screen ELSE current
  /\ UNCHANGED <<previous, previousStage, flags, parser, stage, thread, page, history>>

Choose(t) ==
  /\ Goto(t, "choose", "compare")
  /\ \E p \in Parameters :
       current' = IF p.screen # Absent THEN p.screen ELSE current
  /\ UNCHANGED <<previous, previousStage, flags, parser, stage, thread, page, history>>

(* A new screen: clearScreenProperties, and the stage parameter is not     *)
(* looked at.  The same screen: the stage, or else the commands.           *)
Compare(t) ==
  /\ pc[t] = "compare"
  /\ \E p \in Parameters :
       pc' = [pc EXCEPT ![t] = IF current # previous THEN "parameters"
                               ELSE IF p.stage # 0 THEN "stage"
                               ELSE IF p.restart # Absent THEN "restart"
                               ELSE IF p.kind = "source" THEN "source"
                               ELSE "parameters"]
  /\ previousStage' = IF current # previous THEN 0 ELSE previousStage
  /\ UNCHANGED <<current, previous, flags, parser, stage, thread, page, history>>

(* updateCurrentScreenStage, updateRlaStage: of the lesson that is current *)
(* now, and only when the parameter is not the one it was the last time.   *)
UpdateStage(t) ==
  /\ Goto(t, "stage", "parameters")
  /\ \E p \in Parameters :
       IF CurrentLesson(current) /\ current \in Staged /\ p.stage \notin {0, previousStage}
         THEN /\ previousStage' = p.stage
              /\ stage' = IF p.stage \in 1..N THEN [stage EXCEPT ![current] = p.stage] ELSE stage
         ELSE UNCHANGED <<previousStage, stage>>
  /\ UNCHANGED <<current, previous, flags, parser, thread, page, history>>

(* WebSession.restartLesson *)
ToFirstStage(l) == stage' = IF l \in Staged THEN [stage EXCEPT ![l] = 1] ELSE stage

(* A lesson the course does not have: a NullPointerException leaves        *)
(* update, and doPost too, which returns the connection of a null session. *)
Restart(t) ==
  /\ pc[t] = "restart"
  /\ \E p \in Parameters :
       \/ /\ p.restart = Absent \/ CurrentLesson(p.restart)
          /\ pc' = [pc EXCEPT ![t] = IF p.kind = "source" THEN "source" ELSE "parameters"]
          /\ ToFirstStage(p.restart)
          /\ UNCHANGED <<page, history>>
       \/ /\ p.restart # Absent /\ ~CurrentLesson(p.restart)
          /\ Answer(t, Blank("fatal"))
          /\ UNCHANGED stage
  /\ UNCHANGED <<screens, flags, parser, thread>>

UpdateParametersSticky(t) ==
  /\ pc[t] \in {"parameters", "source"}
  /\ \E p \in Parameters :
       LET hacked == p.admin = "true" \/ (p.admin = "absent" /\ (UserInRole \/ isHackedAdmin))
       IN isHackedAdmin' = hacked /\ hasHacked' = (hasHacked \/ hacked)
  /\ IF pc[t] = "source" THEN Answer(t, Blank("source"))
     ELSE pc' = [pc EXCEPT ![t] = "make"] /\ UNCHANGED <<page, history>>
  /\ UNCHANGED <<screens, completed, parser, stage, thread>>

(* updateParameters; the source of a lesson has been written by then *)
UpdateParameters(t) ==
  /\ pc[t] \in {"parameters", "source"}
  /\ \E p \in Parameters :
       LET hacked == p.admin = "true" \/ (p.admin = "absent" /\ UserInRole)
       IN isHackedAdmin' = hacked /\ hasHacked' = (hasHacked \/ hacked)
  /\ IF pc[t] = "source" THEN Answer(t, Blank("source"))
     ELSE pc' = [pc EXCEPT ![t] = "make"] /\ UNCHANGED <<page, history>>
  /\ UNCHANGED <<screens, completed, parser, stage, thread>>

(* doPost: start=true redirects to the first lesson.  Otherwise makeScreen, *)
(* where isUser and isChallenge each look up the current lesson.            *)
Make(t) ==
  /\ pc[t] = "make"
  /\ \/ req[t].kind = "start" /\ Answer(t, Blank("redirect")) /\ UNCHANGED scr
     \/ /\ req[t].kind # "start"
        /\ pc' = [pc EXCEPT ![t] = IF ~UserInRole /\ ~IsChallenge THEN "user" ELSE "challenge"]
        /\ scr' = [scr EXCEPT ![t] = current]
        /\ UNCHANGED <<page, history>>
  /\ UNCHANGED <<screens, flags, parser, stage, req>>

(* Neither a user nor a challenge nor an admin: no screen at all. *)
MakeChallenge(t) ==
  /\ Goto(t, "challenge", IF IsChallenge THEN "user" ELSE IF UserInRole THEN "admin" ELSE "broken")
  /\ UNCHANGED <<screens, flags, parser, stage, thread, page, history>>

NoFix == UNCHANGED current

(* ErrorScreen.fixCurrentScreen: a screen that is known *)
FixCurrentScreen == current' = First

Lookup(t) ==
  /\ pc[t] \in {"user", "admin"}
  /\ LET roles == IF pc[t] = "user" THEN {"user"} ELSE {"user", "admin", "hacked"} IN
     \/ /\ scr[t] = WELCOME
        /\ Answer(t, Blank("welcome"))
        /\ UNCHANGED <<current, hasHacked, completed>>
     \/ /\ Found(scr[t], roles)
        /\ hasHacked' = (hasHacked /\ Role[scr[t]] = "hacked") (* setHasHackableAdmin *)
        /\ completed' = (completed \/ hasHacked')
        /\ pc' = [pc EXCEPT ![t] = "handle"]
        /\ UNCHANGED <<current, page, history>>
     \/ /\ scr[t] # WELCOME /\ ~Found(scr[t], roles)
        /\ Answer(t, Blank("invalid"))
        /\ FixCurrentScreen
        /\ UNCHANGED <<hasHacked, completed>>
  /\ UNCHANGED <<previous, previousStage, isHackedAdmin, parser, stage, thread>>

HandleAndFix(t) ==
  /\ pc[t] = "handle"
  /\ Answer(t, [kind |-> "lesson", lesson |-> scr[t], own |-> parser = t])
  /\ FixCurrentScreen
  /\ UNCHANGED <<previous, previousStage, flags, parser, stage, thread>>

(* handleRequest: the lesson may complete its stage, and reads its         *)
(* parameters from the session's parser.                                   *)
Handle(t) ==
  /\ pc[t] = "handle"
  /\ \/ UNCHANGED stage
     \/ /\ scr[t] \in Staged /\ stage[scr[t]] < N
        /\ stage' = [stage EXCEPT ![scr[t]] = @ + 1]
  /\ Answer(t, [kind |-> "lesson", lesson |-> scr[t], own |-> parser = t])
  /\ UNCHANGED <<screens, flags, parser, thread>>

(* The lesson throws, or there was no screen: ErrorScreen. *)
Fail(t) ==
  /\ pc[t] \in {"handle", "broken"}
  /\ Answer(t, Blank("error"))
  /\ FixCurrentScreen
  /\ UNCHANGED <<previous, previousStage, flags, parser, stage, thread>>

(* RestartLessonService, of whatever screen is current *)
RestartCurrent ==
  /\ CurrentLesson(current)
  /\ ToFirstStage(current)

RestartService ==
  /\ RestartCurrent
  /\ UNCHANGED <<screens, flags, parser, pc, thread, page, history>>

Step(t) ==
  \/ FirstLesson(t) \/ Remember(t) \/ Choose(t) \/ Compare(t)
  \/ UpdateStage(t) \/ Restart(t) \/ UpdateParameters(t)
  \/ Make(t) \/ MakeChallenge(t) \/ Lookup(t) \/ Handle(t) \/ Fail(t)

Next ==
  \/ \E t \in Thread : (\E q \in Requests : Begin(t, q)) \/ Step(t)
  \/ RestartService

Spec == Init /\ [][Next]_vars

-----------------------------------------------------------------------------
Alone(t) == t \notin shared

(* A request that ran alone answers for the screen it asked for, or for the *)
(* one the session was at when it arrived, with its own parameters,         *)
(* whatever earlier requests that raced have left behind; and the session   *)
(* is at that screen when it ends.                                          *)
AloneIsExact ==
  [][\A t \in Thread : pc[t] # "idle" /\ pc'[t] = "idle" /\ Alone(t) =>
       /\ page'[t].kind = "lesson" =>
            page'[t].lesson = asked[t] /\ page'[t].own /\ current' = asked[t]
       /\ page'[t].kind = "invalid" => ~Found(asked[t], Roles) /\ CurrentLesson(current')
       /\ page'[t].kind = "welcome" => asked[t] = WELCOME]_vars

(* So the user can't get stuck on the error screen: after a page "invalid   *)
(* screen" a request that names no screen gets another page, even when an   *)
(* early return left an unknown screen behind before.                       *)
NotStuckOnError == streak < 2

(* The hackable admin is completed by one request that both says admin=true *)
(* and opens a screen of the hacked admin; a flag an earlier request left   *)
(* does not count for a later one.                                          *)
HackTakesOneRequest ==
  [][\A t \in Thread : Alone(t) /\ ~UserInRole /\ pc[t] = "user" /\ completed' # completed =>
       req[t].admin = "true" /\ Role[scr[t]] = "hacked"]_vars

(* Each page is made from the parameters of the request it answers.         *)
PageIsForItsRequest == \A t \in Thread : page[t].own

-----------------------------------------------------------------------------
(* The strengthenings the proofs use. *)

(* What is known of a request that runs alone, at each point. *)
Lone(t) ==
  /\ parser = t
  /\ \A u \in Thread \ {t} : pc[u] = "idle"
  /\ req[t].screen # Absent => asked[t] = req[t].screen
  /\ req[t].screen = Absent =>
       /\ pc[t] = "first" => asked[t] = (IF StartsCourse THEN First ELSE current)
       /\ pc[t] \in {"remember", "choose"} => asked[t] = current
  /\ pc[t] \notin {"first", "remember", "choose"} => asked[t] = current
  /\ pc[t] \in {"challenge", "user", "admin", "handle", "broken"} => scr[t] = asked[t]
  /\ pc[t] = "user" /\ UserInRole => current \in Challenge
  /\ pc[t] = "admin" => UserInRole
  /\ pc[t] \in {"make", "challenge", "user", "admin"} /\ ~UserInRole /\ isHackedAdmin =>
       req[t].admin = "true"

AloneInv == \A t \in Thread : pc[t] # "idle" /\ Alone(t) => Lone(t)

(* After a page "invalid screen" the session is at the first lesson, until *)
(* a request arrives; if that one stays alone it asks for the first lesson *)
(* or for a screen of its own.                                             *)
StreakInv ==
  /\ streak < 2
  /\ streak = 1 =>
       /\ (\A t \in Thread : pc[t] = "idle") => current = First
       /\ \A t \in Thread : pc[t] # "idle" /\ Alone(t) /\ req[t].screen = Absent =>
            asked[t] = First
=============================================================================
