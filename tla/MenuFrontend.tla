----------------------------- MODULE MenuFrontend -----------------------------
(***************************************************************************)
(* The page of WebGoat from its first byte: the loader brings the modules  *)
(* of the front end while the browser parses the body, the router's        *)
(* factory makes the views, the application starts the history, and then   *)
(* the user goes through lessons while menu and progress are asked for     *)
(* again and again, beside the lesson, with answers in any order.          *)
(* (Threads of the servlet, restarts and titles: LessonFrontend.)          *)
(***************************************************************************)
EXTENDS ModuleLoading

CONSTANTS
  Router,   (* the module GoatRouter, whose factory makes the views *)
  Lesson,
  Lab,      (* the lessons with stages; here each has one *)
  Opened,   (* the fragments the page may be opened with *)
  MaxActs   (* bound on what the user does               *)

Fragment == Lesson \cup {"none", "welcome"}

ASSUME MenuAssumption ==
  /\ Router \in Module
  /\ Lesson \cap {"none", "welcome"} = {}
  /\ Lab \subseteq Lesson /\ Opened \subseteq Fragment
  /\ MaxActs \in Nat

(* goatApp.js needs the router, the entry point needs goatApp.js, and      *)
(* neither is in a circle with what needs it.                              *)
ASSUME RouterAssumption ==
  \E app \in Needs[Entry] :
    Router \in Needs[app] /\ ~Graph!LeadsTo(app, Entry) /\ ~Graph!LeadsTo(Router, app)

Marks    == SUBSET Lesson
Many     == 0..(2 * MaxActs + 3)   (* more requests than can be under way *)

VARIABLES
  parsed,     (* the body of the page is there                                 *)
  elements,   (* what the views found of it when they were made                *)
  wired,      (* the router listens for menu:reload                            *)
  hash,       (* the fragment in the address bar                               *)
  changed,    (* a hashchange event is under way                               *)
  fragment,   (* Backbone.history.fragment; the lesson loadLesson was given    *)
  current,    (* the server: the lesson of the session                         *)
  completed,  (* the server: the lessons the user has completed                *)
  asked,      (* requests on their way to the server, by what they ask for     *)
  lessons,    (* answers on their way back: contents,                          *)
  menus,      (* ... menus, by the marks in them,                              *)
  messages,   (* ... and progress, by whether it says completed                *)
  shown,      (* the lesson on the page                                        *)
  form,       (* where its forms post to                                       *)
  menu,       (* the marks in the menu, or the spinner                         *)
  selected,   (* curLessonLinkId: the lesson selected in the menu              *)
  message,    (* LessonProgressView shows the success message                  *)
  acts,       (* what the user has done so far                                 *)
  raced,      (* history: the last thing was done on a page not at rest        *)
  strayed     (* history: since the last click a lesson was gone to otherwise  *)

begun    == <<parsed, elements, wired>>
address  == <<hash, changed, fragment>>
server   == <<current, completed>>
requests == <<asked, lessons, menus, messages>>
screen   == <<shown, form, menu, selected, message>>
user     == <<acts, raced, strayed>>
page     == <<begun, address, server, requests, screen, user>>
all      == <<loader, page>>

Question == [of : {"lesson", "form"}, lesson : Lesson] \cup [of : {"menu", "progress"}, lesson : {"none"}]
Ask(what)  == [of |-> what, lesson |-> "none"]
None(S)    == [x \in S |-> 0]
Add(f, x)  == [f EXCEPT ![x] = @ + 1]
Take(f, x) == [f EXCEPT ![x] = @ - 1]

PageTypeOK ==
  /\ TypeOK
  /\ parsed \in BOOLEAN /\ elements \in {"none", "missing", "there"} /\ wired \in BOOLEAN
  /\ hash \in Fragment /\ changed \in BOOLEAN /\ fragment \in Fragment
  /\ current \in Lesson \cup {"none"} /\ completed \in Marks
  /\ asked \in [Question -> Many] /\ lessons \in [Lesson -> Many]
  /\ menus \in [Marks -> Many] /\ messages \in [BOOLEAN -> Many]
  /\ shown \in Lesson \cup {"none"} /\ form \in Fragment /\ selected \in Lesson \cup {"none"}
  /\ menu \in Marks \cup {{"spinner"}} /\ message \in BOOLEAN
  /\ acts \in 0..MaxActs /\ raced \in BOOLEAN /\ strayed \in BOOLEAN

PageInit ==
  /\ Init
  /\ parsed = FALSE /\ elements = "none" /\ wired = FALSE
  /\ hash \in Opened /\ changed = FALSE /\ fragment = "none"
  /\ current = "none" /\ completed = {}
  /\ asked = None(Question) /\ lessons = None(Lesson)
  /\ menus = None(Marks) /\ messages = None(BOOLEAN)
  /\ shown = "none" /\ form = "none" /\ menu = {"spinner"} /\ selected = "none"
  /\ message = FALSE
  /\ acts = 0 /\ raced = FALSE /\ strayed = FALSE

-----------------------------------------------------------------------------
(* The start of the page *)

(* What the loader did not load when the application started, nobody wants; *)
(* what it does from here on is left out.                                  *)
Loaded == Entry \in done /\ enabled = done

(* Nothing else runs in the browser during a turn of the loader. *)
Between == turn = "idle" \/ Loaded

Parse ==
  /\ Between /\ ~parsed /\ parsed' = TRUE
  /\ UNCHANGED <<loader, elements, wired, address, server, requests, screen, user>>

(* attackRoute: loadLesson asks for the content, updateMenu for the menu. *)
RouteTo(l) == [of |-> "lesson", lesson |-> l]
Route(l, before) == Add(Add(before, Ask("menu")), RouteTo(l))

(* The factory of GoatRouter makes the views, each of which looks up its   *)
(* element once and for all, and the menu asks for its data.               *)
CreateViews ==
  /\ Define(Router)
  /\ elements' = IF parsed THEN "there" ELSE "missing"
  /\ asked' = Add(asked, Ask("menu"))
  /\ UNCHANGED <<parsed, wired, address, server, lessons, menus, messages, screen, user>>

(* initApp: history.start takes the fragment of the address to its route.  *)
(* On welcome the route throws (there is no loadWelcome), and what comes   *)
(* after history.start is not done; the loader takes Entry for done all    *)
(* the same, as it looks at it no more.                                    *)
InitApp ==
  /\ Define(Entry)
  /\ fragment' = hash
  /\ wired' = (hash # "welcome")
  /\ asked' = IF hash \in Lesson THEN Route(hash, asked) ELSE asked
  /\ UNCHANGED <<parsed, elements, hash, changed, server, lessons, menus, messages, screen, user>>

LoaderTurn ==
  /\ ~Loaded
  /\ \/ CreateViews \/ InitApp
     \/ Turn /\ done' \cap {Router, Entry} = done \cap {Router, Entry} /\ UNCHANGED page

LoaderEvent(A) == ~Loaded /\ A /\ UNCHANGED page

-----------------------------------------------------------------------------
(* The user and the address *)

OnItsWay(f) == \E x \in DOMAIN f : f[x] > 0
AtRest == ~(changed \/ OnItsWay(asked) \/ OnItsWay(lessons) \/ OnItsWay(menus) \/ OnItsWay(messages))
Act(r) == acts < MaxActs /\ acts' = acts + 1 /\ raced' = r

(* A link of the menu: onLessonClick, and the browser goes to its href,    *)
(* which loads nothing when the page is there already.                     *)
Click(l) ==
  /\ Between /\ menu # {"spinner"} /\ Act(IF l = hash THEN raced ELSE ~AtRest)
  /\ selected' = l /\ strayed' = FALSE
  /\ hash' = l /\ changed' = (changed \/ l # hash)
  /\ UNCHANGED <<loader, begun, fragment, server, requests, shown, form, menu, message>>

(* The back button, a bookmark, a link in a lesson. *)
GoTo(l) ==
  /\ Entry \in done /\ l # hash /\ Act(~AtRest)
  /\ strayed' = TRUE
  /\ hash' = l /\ changed' = TRUE
  /\ UNCHANGED <<loader, begun, fragment, server, requests, screen>>

(* checkUrl: of several changes since the last event the newest counts. *)
CheckUrl ==
  /\ Entry \in done /\ changed /\ changed' = FALSE
  /\ fragment' = hash
  /\ asked' = IF hash \in Lesson \ {fragment} THEN Route(hash, asked) ELSE asked
  /\ UNCHANGED <<loader, begun, hash, server, lessons, menus, messages, screen, user>>

Submit ==
  /\ shown # "none" /\ Act(~AtRest)
  /\ asked' = Add(asked, [of |-> "form", lesson |-> form])
  /\ UNCHANGED <<loader, begun, address, server, lessons, menus, messages, screen, strayed>>

-----------------------------------------------------------------------------
(* The server, a request at a time *)

(* A lesson or a form: the session moves there, and a form may complete it. *)
ServeLesson(q) ==
  /\ asked[q] > 0 /\ q.of \in {"lesson", "form"}
  /\ asked' = Take(asked, q) /\ lessons' = Add(lessons, q.lesson)
  /\ current' = q.lesson
  /\ completed' \in {completed} \cup {completed \cup {q.lesson} : x \in {"form"} \cap {q.of}}
  /\ UNCHANGED <<loader, begun, address, menus, messages, screen, user>>

(* LessonMenuService.showLeftNav *)
ServeMenu ==
  /\ asked[Ask("menu")] > 0
  /\ asked' = Take(asked, Ask("menu")) /\ menus' = Add(menus, completed)
  /\ UNCHANGED <<loader, begun, address, server, lessons, messages, screen, user>>

(* LessonProgressService.getLessonInfo: of the lesson of the session *)
ServeProgress ==
  /\ asked[Ask("progress")] > 0
  /\ asked' = Take(asked, Ask("progress"))
  /\ messages' = Add(messages, current \in completed)
  /\ UNCHANGED <<loader, begun, address, server, lessons, menus, screen, user>>

-----------------------------------------------------------------------------
(* The answers.  A view without its element draws nothing. *)

(* Mutants of ShowLesson: the progress is not asked for; the menu is not   *)
(* reloaded; the answer is handled again.                                  *)
ShowWithoutProgress(l) ==
  /\ Between /\ lessons[l] > 0 /\ lessons' = Take(lessons, l)
  /\ IF elements = "there" THEN shown' = l /\ form' = fragment ELSE UNCHANGED <<shown, form>>
  /\ asked' = IF wired THEN Add(asked, Ask("menu")) ELSE asked
  /\ UNCHANGED <<loader, begun, address, server, menus, messages, menu, selected, message, user>>

ShowWithoutMenu(l) ==
  /\ Between /\ lessons[l] > 0 /\ lessons' = Take(lessons, l)
  /\ IF elements = "there" THEN shown' = l /\ form' = fragment ELSE UNCHANGED <<shown, form>>
  /\ asked' = Add(asked, Ask("progress"))
  /\ UNCHANGED <<loader, begun, address, server, menus, messages, menu, selected, message, user>>

ShowTwice(l) ==
  /\ Between /\ lessons[l] > 0
  /\ IF elements = "there" THEN shown' = l /\ form' = fragment ELSE UNCHANGED <<shown, form>>
  /\ asked' = LET more == Add(asked, Ask("progress"))
              IN IF wired THEN Add(more, Ask("menu")) ELSE more
  /\ UNCHANGED <<loader, begun, address, server, lessons, menus, messages, menu, selected, message,
                 user>>

(* setContent, onContentLoaded: the lesson is rendered, with its forms for *)
(* the lesson loaded last, the menu reloaded and the progress asked for.   *)
ShowLesson(l) ==
  /\ Between /\ lessons[l] > 0 /\ lessons' = Take(lessons, l)
  /\ IF elements = "there" THEN shown' = l /\ form' = fragment ELSE UNCHANGED <<shown, form>>
  /\ asked' = LET more == Add(asked, Ask("progress"))
              IN IF wired THEN Add(more, Ask("menu")) ELSE more
  /\ UNCHANGED <<loader, begun, address, server, menus, messages, menu, selected, message, user>>

(* onDataLoaded, MenuView.render: stages get a mark, other lessons do not. *)
ShowMenu(c) ==
  /\ Between /\ menus[c] > 0 /\ menus' = Take(menus, c)
  /\ menu' = IF elements = "there" THEN c \cap Lab ELSE menu
  /\ UNCHANGED <<loader, begun, address, server, asked, lessons, messages, shown, form, selected,
                 message, user>>

(* The model changes, LessonProgressView.render *)
ShowProgress(b) ==
  /\ Between /\ messages[b] > 0 /\ messages' = Take(messages, b)
  /\ message' = IF elements = "there" THEN b ELSE message
  /\ UNCHANGED <<loader, begun, address, server, asked, lessons, menus, shown, form, menu, selected,
                 user>>

Answers ==
  \/ ServeMenu \/ ServeProgress \/ \E q \in Question : ServeLesson(q)
  \/ \E l \in Lesson : ShowLesson(l)
  \/ \E c \in Marks : ShowMenu(c)
  \/ \E b \in BOOLEAN : ShowProgress(b)

Browser == Parse \/ CheckUrl \/ LoaderTurn \/ LoaderEvent(Timer \/ Clock \/ \E c \in Call : Tick(c))
Network == Answers \/ \E m \in Module : LoaderEvent(ScriptLoads(m) \/ ScriptFails(m))
User    == Submit \/ \E l \in Lesson : Click(l) \/ GoTo(l)

PageNext == Browser \/ Network \/ User

(* The server answers, and its answers come, as long as anything was asked, *)
(* and the browser delivers hashchange; it treats the loader as fairly as   *)
(* ModuleLoading says.  The user need not do anything.                      *)
PageSpec ==
  /\ PageInit /\ [][PageNext]_all
  /\ WF_all(Answers) /\ WF_all(CheckUrl) /\ WF_all(LoaderTurn)
  /\ WF_all(LoaderEvent(Timer)) /\ WF_all(LoaderEvent(Clock))
  /\ SF_all(LoaderEvent(\E c \in Call : Tick(c)))

-----------------------------------------------------------------------------
(* The application has started and its views are in the page. *)
Works == Entry \in done /\ elements = "there"

(* Once everything asked for has come, and the last thing the user did was *)
(* done on a page at rest, the menu marks the stages the server knows to be *)
(* completed, unless the page was opened at #welcome; the message is there *)
(* for completed lessons only; the lesson shown is the one of the address  *)
(* and of the session, whatever races went before; and it is the one       *)
(* selected in the menu, however often that was drawn anew, as long as     *)
(* lessons are chosen there.                                               *)
RestingMenuAgrees ==
  Works /\ AtRest /\ ~raced =>
    /\ wired => menu = completed \cap Lab
    /\ shown # "none" =>
         message = (shown \in completed) /\ shown = current /\ shown = hash /\ shown = form
    /\ ~strayed /\ selected # "none" => selected = shown

(* A stage a form completes gets its mark in the menu, unless the user races,*)
(* or the page was broken at its start.                                    *)
MarkIsShown ==
  \A l \in Lab :
    (l \in completed /\ Works /\ wired) ~> (l \in menu \/ raced)

(* How many requests or answers for members of S there are, by kind. *)
Contents     == {q \in Question : q.of \in {"lesson", "form"}}
Copies(f, S) == UNION {{x} \X (1..f[x]) : x \in S}
Size(f, S)   == Cardinality(Copies(f, S))
One(b)       == IF b THEN 1 ELSE 0

LessonsAsked  == Size(asked, Contents)
LessonsSent   == Size(lessons, Lesson)
MenusAsked    == asked[Ask("menu")]
MenusSent     == Size(menus, Marks)
MessagesAsked == asked[Ask("progress")]
MessagesSent  == Size(messages, BOOLEAN)

(* The lessons on their way or still to be asked for. *)
Pending == LessonsAsked + LessonsSent + One(changed)

Counted ==
  /\ IsFiniteSet(Copies(asked, Contents)) /\ IsFiniteSet(Copies(lessons, Lesson))
  /\ IsFiniteSet(Copies(menus, Marks)) /\ IsFiniteSet(Copies(messages, BOOLEAN))

(* The steps at most until the page is at rest: a change of the address    *)
(* leads to a lesson and a menu, a lesson to a menu and a message.         *)
PageLeft == 9 * One(changed) + 6 * LessonsAsked + 5 * LessonsSent
              + 2 * MenusAsked + MenusSent + 2 * MessagesAsked + MessagesSent

(* The part of MarkIsShown that is not about fairness: what a lesson sets   *)
(* off (the menu is reloaded, the progress asked for, the address checked) *)
(* does not keep itself going.  Only the user and the start of the         *)
(* application add to what is to come; all else takes from it.             *)
AnswersRunOut ==
  [][/\ Answers \/ CheckUrl => PageLeft' < PageLeft
     /\ PageLeft' > PageLeft =>
          acts' = acts + 1 \/ done' \cap {Router, Entry} # done \cap {Router, Entry}]_all

-----------------------------------------------------------------------------
(* The strengthenings the proofs use. *)

NoLesson   == (\A q \in Contents : asked[q] = 0) /\ \A l \in Lesson : lessons[l] = 0
NoMenu     == asked[Ask("menu")] = 0 /\ \A c \in Marks : menus[c] = 0
NoProgress == asked[Ask("progress")] = 0 /\ \A b \in BOOLEAN : messages[b] = 0
Coming     == changed /\ hash # fragment   (* checkUrl will ask for a lesson *)

(* The application runs after its views were made. *)
AfterNeeds == \A n \in done : \A d \in Needs[n] : d \in done \/ Graph!LeadsTo(d, n)

(* What address, forms and selection have to do with each other, races or  *)
(* not.                                                                    *)
AddressInv ==
  /\ Entry \in done => Router \in done
  /\ Router \notin done => elements = "none" /\ NoMenu
  /\ Entry \notin done => fragment = "none" /\ NoLesson /\ NoProgress /\ shown = "none"
  /\ Entry \in done /\ ~changed => hash = fragment
  /\ changed \/ fragment \in Lesson => hash \in Lesson
  /\ ~NoLesson \/ shown # "none" => fragment \in Lesson
  /\ shown # "none" => form \in Lesson /\ elements = "there"
  /\ NoLesson /\ shown # "none" => form = fragment
  /\ NoLesson /\ fragment \in Lesson /\ elements = "there" => shown # "none"
  /\ ~strayed /\ selected # "none" => selected = hash

(* A lesson on its way is the only one, and what the page asks for once it *)
(* has come was not asked before.                                          *)
SoleQuestion(q) ==
  /\ asked[q] = 1 /\ \A r \in Contents \ {q} : asked[r] = 0
  /\ \A l \in Lesson : lessons[l] = 0
  /\ q.lesson = hash /\ ~Coming /\ NoProgress /\ (q.of = "form" => NoMenu)

SoleAnswer(l) ==
  /\ lessons[l] = 1 /\ \A m \in Lesson \ {l} : lessons[m] = 0
  /\ \A q \in Contents : asked[q] = 0
  /\ l = hash /\ l = current /\ ~Coming /\ NoProgress

(* The page when no lesson is on its way. *)
LessonThere ==
  /\ shown # "none" =>
       /\ shown = current /\ shown = hash
       /\ \A b \in BOOLEAN : messages[b] > 0 => (b <=> current \in completed)
       /\ NoProgress => (message <=> current \in completed)
  /\ NoMenu /\ elements = "there" /\ (wired \/ Entry \notin done) => menu = completed \cap Lab

WaveInv ==
  ~raced =>
    /\ \A q \in Contents : asked[q] > 0 => SoleQuestion(q)
    /\ \A l \in Lesson : lessons[l] > 0 => SoleAnswer(l)
    /\ Coming => NoProgress
    /\ \A c \in Marks : menus[c] > 0 => c = completed
    /\ NoLesson /\ ~Coming => LessonThere

(* Each action leads to one lesson at most, each change of the address to  *)
(* one menu and each lesson to one menu and one message.                   *)
CountInv ==
  /\ Counted
  /\ MessagesAsked + MessagesSent + Pending <= acts + One(Entry \in done)
  /\ MenusAsked + MenusSent + Pending + One(changed)
       <= 2 * (acts + One(Entry \in done)) + One(Router \in done)
=============================================================================
