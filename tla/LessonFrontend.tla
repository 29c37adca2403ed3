---------------------------- MODULE LessonFrontend ----------------------------
(***************************************************************************)
(* The single-page front end (goatApp) over SessionScreens: the lesson     *)
(* controller, the content and info models, the forms and the links of one *)
(* browser.  Its requests run as threads of the servlet, in any order, and *)
(* their answers come back in any order.  The server keeps one current     *)
(* screen per session; the browser has its own idea of it in five places.  *)
(***************************************************************************)
EXTENDS SessionScreens

CONSTANTS
  Links,    (* the links of the menu, to a lesson or to a stage of one, and *)
            (* bookmarks of a lesson that the course has no more           *)
  MaxActs   (* bound on what the user does                                 *)

(* What the page says instead of a lesson. *)
Marks == {"none", "sent", "failed", "nothing", "error"}

Place == [lesson : Lesson \cup {Unknown, Absent}, stage : 0..N] (* stage 0: none *)
Nowhere == [lesson |-> Absent, stage |-> 0]

Attack(p) == [screen |-> p.lesson, stage |-> p.stage, restart |-> Absent,
              admin |-> "absent", kind |-> "page"]

ASSUME LinksAssumption ==
  /\ MaxActs \in Nat
  /\ Links \subseteq Place
  /\ \A k \in Links : k.lesson # Absent /\ (k.stage # 0 => k.lesson \in Staged)
  /\ \A p \in Place : p.lesson # Absent => Attack(p) \in Requests
  /\ Nothing \in Requests
  /\ Lesson \cap Marks = {}

VARIABLES
  hash,     (* the fragment of the address bar                             *)
  url,      (* LessonContentModel.urlRoot, and the controller's scr, stage *)
  shown,    (* the content on the page: a lesson, an error, or nothing     *)
  form,     (* where the forms of the content post to                      *)
  title,    (* the title on the page; Absent when it is blank              *)
  ajax,     (* the content request of each thread: who waits for it        *)
  info,     (* the info request that each content answer has started       *)
  newest,   (* lessonInfoModel: the info request started last              *)
  loaded,   (* what that one has brought; Absent before                    *)
  acts,     (* what the user has done so far                               *)
  raced     (* history: the user acted while a request was under way, and  *)
            (* has not followed a menu link on a page at rest since        *)

view    == <<shown, form, title>>
model   == <<hash, url>>
infos   == <<info, newest, loaded>>
user    == <<acts, raced>>
browser == <<view, model, ajax, infos, user>>
all     == <<vars, browser>>

FrontendTypeOK ==
  /\ TypeOK
  /\ hash \in Place /\ url \in Place /\ form \in Place
  /\ shown \in Lesson \cup {"nothing", "error"}
  /\ title \in Lesson \cup {Absent}
  /\ ajax \in [Thread -> {"none", "load", "form", "link"}]
  /\ info \in [Thread -> Lesson \cup {"none", "sent", "failed"}]
  /\ newest \in Thread
  /\ loaded \in Lesson \cup {Absent}
  /\ acts \in 0..MaxActs /\ raced \in BOOLEAN

FrontendInit ==
  /\ Init
  /\ hash = Nowhere /\ url = Nowhere /\ form = Nowhere
  /\ shown = "nothing" /\ title = Absent
  /\ ajax = [t \in Thread |-> "none"]
  /\ info = [t \in Thread |-> "none"]
  /\ newest \in Thread /\ loaded = Absent
  /\ acts = 0 /\ raced = FALSE

-----------------------------------------------------------------------------
Busy  == \E t \in Thread : ajax[t] # "none"
Quiet == ~Busy /\ \A t \in Thread : info[t] = "none"

Send(t, who, p) ==
  /\ ajax[t] = "none"
  /\ ajax' = [ajax EXCEPT ![t] = who]
  /\ Begin(t, Attack(p))

(* The user does something while the page may not be at rest. *)
Act(r) == acts < MaxActs /\ acts' = acts + 1 /\ raced' = r

(* The user follows a link of the menu: the router fires when the fragment *)
(* changes, and loadLesson sets urlRoot and sends the request.             *)
Click(t, p) ==
  /\ p # hash
  /\ hash' = p /\ url' = p
  /\ Send(t, "load", p)
  /\ Act(Busy)
  /\ UNCHANGED <<view, infos>>

(* A form of the content: makeFormsAjax gave it the urlRoot of its time. *)
Submit(t) ==
  /\ shown \in Lesson
  /\ Send(t, "form", form)
  /\ Act(raced \/ Busy)
  /\ UNCHANGED <<view, model, infos>>

(* A link "attack?name=value" of the content: ajaxifyAttackHref posts what  *)
(* the lesson wrote into it, which names no screen and no stage.           *)
FollowLink(t) ==
  /\ shown \in Lesson
  /\ ajax[t] = "none"
  /\ ajax' = [ajax EXCEPT ![t] = "link"]
  /\ Begin(t, Nothing)
  /\ Act(raced \/ Busy)
  /\ UNCHANGED <<view, model, infos>>

DeliverUnchecked(t) ==
  /\ ajax[t] # "none" /\ pc[t] = "idle" /\ info[t] = "none"
  /\ ajax' = [ajax EXCEPT ![t] = "none"]
  /\ shown' = page[t].lesson
  /\ form' = url
  /\ info' = [info EXCEPT ![t] = "sent"]
  /\ newest' = t /\ loaded' = Absent
  /\ UNCHANGED <<vars, title, model, user>>

(* The answer of the servlet, to loadData or to reLoadView: setContent,     *)
(* onContentLoaded, render.  Each starts an info request of its own (bound: *)
(* one under way per thread).                                               *)
Deliver(t) ==
  /\ ajax[t] # "none" /\ pc[t] = "idle" /\ info[t] = "none"
  /\ ajax' = [ajax EXCEPT ![t] = "none"]
  /\ shown' = IF page[t].kind = "lesson" THEN page[t].lesson ELSE "error"
  /\ form' = url
  /\ info' = [info EXCEPT ![t] = "sent"]
  /\ newest' = t /\ loaded' = Absent
  /\ UNCHANGED <<vars, title, model, user>>

(* LessonInfoService: the lesson that is current when it runs, if any *)
InfoService(t) ==
  /\ info[t] = "sent"
  /\ info' = [info EXCEPT ![t] = IF CurrentLesson(current) THEN current ELSE "failed"]
  /\ UNCHANGED <<vars, view, model, ajax, newest, loaded, user>>

InfoLoadedOwnModel(t) ==
  /\ info[t] \in Lesson
  /\ info' = [info EXCEPT ![t] = "none"]
  /\ loaded' = IF newest = t THEN info[t] ELSE loaded
  /\ title' = info[t]
  /\ UNCHANGED <<vars, shown, form, model, ajax, newest, user>>

InfoLoadedStale(t) ==
  /\ info[t] \in Lesson
  /\ info' = [info EXCEPT ![t] = "none"]
  /\ loaded' = IF newest = t THEN info[t] ELSE loaded
  /\ title' = loaded
  /\ UNCHANGED <<vars, shown, form, model, ajax, newest, user>>

(* onInfoLoaded renders the title of the newest model, whichever one has   *)
(* just been loaded.                                                       *)
InfoLoaded(t) ==
  /\ info[t] \in Lesson
  /\ info' = [info EXCEPT ![t] = "none"]
  /\ loaded' = IF newest = t THEN info[t] ELSE loaded
  /\ title' = loaded'
  /\ UNCHANGED <<vars, shown, form, model, ajax, newest, user>>

InfoFailed(t) ==
  /\ info[t] = "failed"
  /\ info' = [info EXCEPT ![t] = "none"]
  /\ UNCHANGED <<vars, view, model, ajax, newest, loaded, user>>

(* A thread of the servlet.  A link of the menu solves nothing: only a form *)
(* or a link of the content carries input that may complete a stage, of     *)
(* the thread that reads it through the session's parser.                   *)
Serve(t) ==
  /\ Step(t)
  /\ pc[t] = "handle" /\ ajax[parser] = "load" => stage' = stage
  /\ UNCHANGED browser

User    == \E t \in Thread : Submit(t) \/ FollowLink(t) \/ \E p \in Links : Click(t, p)
Network == \E t \in Thread : Deliver(t) \/ InfoService(t) \/ InfoLoaded(t) \/ InfoFailed(t)

FrontendNext == User \/ Network \/ \E t \in Thread : Serve(t)

(* The container and the browser go on as long as one of them has something *)
(* to do, and no answer is lost; the user need not do anything.            *)
FrontendSpec ==
  /\ FrontendInit /\ [][FrontendNext]_all
  /\ WF_all(Network \/ \E t \in Thread : Serve(t))

-----------------------------------------------------------------------------
(* Once everything asked for has come, and the last thing the user did was *)
(* done on a page at rest, content, title, forms, address bar and server   *)
(* agree on the lesson, whatever earlier races have left behind.           *)
RestingPageAgrees ==
  Quiet /\ ~raced /\ shown \in Lesson =>
    shown = url.lesson /\ shown = form.lesson /\ shown = title
    /\ shown = current /\ shown = hash.lesson

(* A form or a link of the content, followed on a page at rest, is answered *)
(* by the lesson it was on, if by a lesson: the link names no screen, and   *)
(* it is the session that has to be at the lesson the user looks at.        *)
ContentStaysOnLesson ==
  [][\A t \in Thread :
       /\ ajax[t] \in {"form", "link"} /\ ajax'[t] = "none"
       /\ ~raced /\ page[t].kind = "lesson"
       => shown' = shown]_all

(* The lesson of the last click gets on the page, and its title with it,   *)
(* unless the lesson fails or the user goes on clicking before it has.     *)
ClickIsShown ==
  \A l \in Lesson :
    (url.lesson = l /\ ~raced) ~>
      (raced \/ url.lesson # l \/ shown = "error" \/ (shown = l /\ title = l))

(* The steps at most that are still to be taken for the requests of a      *)
(* thread: its points of HammerHead, the answer, the info request.         *)
PointsLeft(t) ==
  [first |-> 10, remember |-> 9, choose |-> 8, compare |-> 7, stage |-> 6, restart |-> 6,
   source |-> 5, parameters |-> 5, make |-> 4, challenge |-> 3, user |-> 2, admin |-> 2,
   broken |-> 2, handle |-> 1, idle |-> 0][pc[t]]
AnswerLeft(t) == IF ajax[t] = "none" THEN 0 ELSE 3
InfoLeft(t)   == IF info[t] = "none" THEN 0 ELSE IF info[t] = "sent" THEN 2 ELSE 1
Left(t)       == PointsLeft(t) + AnswerLeft(t) + InfoLeft(t)

(* The part of ClickIsShown that is not about fairness: whatever the answers *)
(* set off comes to an end.  Unless the user acts, each step is one of the   *)
(* steps left for one request, and no answer sends a request for a lesson.   *)
AnswersRunOut ==
  [][Network \/ (\E t \in Thread : Serve(t)) =>
       \E t \in Thread :
         /\ \A u \in Thread \ {t} : Left(u)' = Left(u)
         /\ Left(t)' < Left(t)]_all

-----------------------------------------------------------------------------
(* The strengthenings the proofs use. *)

(* The front end sends no admin parameter: a lesson that is answered is    *)
(* one that the services of the session find too, from then on.            *)
FoundInv ==
  /\ isHackedAdmin => UserInRole
  /\ \A t \in Thread :
       /\ req[t].admin = "absent"
       /\ pc[t] \in {"make", "challenge", "user", "admin", "handle"} => (UserInRole => isHackedAdmin)
       /\ pc[t] = "admin" => UserInRole
       /\ pc[t] = "handle" => CurrentLesson(scr[t])
       /\ page[t].kind = "lesson" => CurrentLesson(page[t].lesson)

(* A request of the servlet has somebody waiting for it; what can be seen  *)
(* came after a link; the page knows the lesson in its address.            *)
PageInv ==
  /\ hash.lesson = url.lesson
  /\ \A t \in Thread : /\ pc[t] # "idle" => ajax[t] # "none"
                       /\ ajax[t] # "none" \/ info[t] # "none" => url.lesson # Absent
  /\ shown # "nothing" => url.lesson # Absent /\ form.lesson # Absent
  /\ shown \in Lesson => CurrentLesson(shown)

(* The session is at a screen of the course from its first request on, so a *)
(* request that names no screen finds the one that is current.             *)
CourseInv ==
  /\ previous # WELCOME
  /\ current = WELCOME => /\ previous = ERROR
                          /\ \A t \in Thread : pc[t] \in {"idle", "first"}
  /\ \A t \in Thread : req[t].screen # WELCOME

(* The one content request of a page the user has not raced on. *)
SoleRequest(t) ==
  /\ \A u \in Thread \ {t} : ajax[u] = "none"
  /\ ajax[t] \in {"form", "link"} => shown = url.lesson
  /\ pc[t] # "idle" => Alone(t) /\ asked[t] = url.lesson
  /\ pc[t] = "idle" /\ page[t].kind = "lesson" =>
       page[t].lesson = url.lesson /\ current = url.lesson

(* The page when its content is there. *)
AtRest ==
  /\ shown # "nothing" => form.lesson = url.lesson
  /\ shown \in Lesson =>
       /\ shown = url.lesson /\ shown = current
       /\ info[newest] \in {"sent", "none", shown}
       /\ info[newest] = "none" => loaded = shown /\ title = shown

SettledInv ==
  ~raced => /\ \A t \in Thread : ajax[t] # "none" => SoleRequest(t)
            /\ (\A t \in Thread : ajax[t] = "none") => AtRest
=============================================================================
