# Verification project for WebGoat (secthon)

The repository holds a WebGoat server: a servlet container application
(`src/mGoat/webgoat-container`, Java), the lessons it loads as plugins
(`src/Lockup-Challenges`, Java) and a Backbone front end
(`webgoat-container/src/main/webapp/js/goatApp`). This directory holds TLA+
models of its stateful parts, TLC configurations that check them on small
instances, and TLAPS proofs. Below, `J` stands for
`src/mGoat/webgoat-container/src/main/java/org/owasp/webgoat` and `L` for
`src/Lockup-Challenges`.

1. [Inventory](#1-inventory)
2. [How the parts interact](#2-how-the-parts-interact)
3. [The modules](#3-the-modules)
4. [The runs](#4-the-runs)
5. [The proofs](#5-the-proofs)
6. [What is not modelled](#6-what-is-not-modelled)
7. [Where code and comments disagree](#7-where-code-and-comments-disagree)
8. [Plan](#8-plan)

## 1. Inventory

| Component | State it keeps | Operations | Talks to | What is hard | What makes it correct |
|---|---|---|---|---|---|
| Front controller (`J/HammerHead`) | none of its own | `doPost`: update the session, make the screen, track, answer | session, course, trackers, connections | every error path ends in the `finally` | one page per request, made from that request |
| Web session (`J/session/WebSession`, `ErrorScreen`) | current and previous screen, stage, admin flags, parser | `update`, `restartLesson`, `getCurrentLesson`, ... | one object for all requests of a browser session, without a lock | requests in parallel see each other's screen | a request alone is exact whatever happened before; no way to get stuck |
| Lesson tracking (`J/session/UserTracker`, `LessonTracker`, `RandomLessonTracker`; `J/Catcher`) | cache user -> title -> tracker; property files | load, store, complete a stage, restart | front controller, services | check-then-act races, torn files, crashes | what is on record was completed, or set by Catcher into a store under way; acknowledged progress is durable |
| Connections and databases (`J/session/DatabaseUtilities`, `CreateDB`; `J/lessons/RandomLessonAdapter`) | connections by user, whether the database was built, sixteen tables per user | `getConnection`, `makeDB` the first time and on every stage | every lesson with SQL | one connection per user; rebuilds overlap statement by statement and abort each other; the login lesson closes the connection under them | whole when no rebuild runs; exact after a rebuild that ran alone; nobody queries a database being opened |
| User database (`J/session/UserDatabase`) | one connection, H2 tables | open, close, add or remove roles and users | admin screens | one shared connection opened and closed per call | a call keeps its connection |
| Plugins and course (`J/plugins`, `J/session/Course`) | plugin directories, extracted files, class loader, the list of lessons | copy, extract, process, load, reload | session, labels | partial failure, overlapping loads | all or nothing; a load that runs alone repairs |
| Categories, ranking, roles (`J/lessons/Category`, `AbstractLesson`, `J/session/Course`) | none beyond the course | look up by screen id, role and ranking | session, menu | lists rebuilt per request | every lesson of a role is listed once |
| Services and controllers (`J/service`, `J/controller`) | none | JSON views of the session; restart, reload | session, course, trackers | stale session state | an answer belongs to the question |
| Labels (`J/util/LabelProvider`, `LabelManagerImpl`) | message source, debug flag | look up, set locale, enable | lessons, plugins | cached while the files change | labels of the loaded lessons are found |
| Parameter parser (`J/session/ParameterParser`) | a view of one request | typed accessors with defaults | session, lessons | exception or default, per accessor | each accessor against its reference |
| Front end: lesson (`goatApp`: `LessonController`, `LessonContentModel`, ...) | lesson shown, address, forms, title | load a lesson, render, submit, follow a link of the content | servlet and services over HTTP | answers out of order | a page at rest agrees with the server |
| Front end: module loading (`js/libs/require.js`, `js/main.js`) | registry of modules and require calls, scripts, a timer | load, define, give up, break circles | browser, the application's factories | scripts in any order, failing or missing; modules that need each other | each factory runs once, after what it needs; the application starts or an error is thrown |
| Front end: start, menu, progress (`GoatRouter`, `MenuView`, `MenuCollection`, `LessonProgressView`; Backbone's history) | menu drawn, selected link, progress message, fragment | start the history, route, redraw after every lesson | loader, lesson, services | views made before the body is there; three kinds of answers in any order | a page at rest shows what the server knows |
| OS commands (`L/common`: `Exec`, `ThreadWatcher`, `ExecResults`) | a child process, its pipes, the results | run with input, timeout, lazily | lessons | pipe deadlock, timeout races | whole output, no orphan, a timeout ends the call |
| Staff lessons (`L/goat-hills-financial`, `business-layer-access`, `cross-site-scripting`, `db-sql-injection`) | login, page and profile as session attributes, the employee table | dispatch, authorize, eleven actions, some chained | session, parser, database | handlers set their page before they check; parser and table are shared | page, login and profile agree; a role does what it may; a stage is completed by what it asks for |
| Login with transaction numbers (`L/multi-level-login2`) | four session attributes, two tables | name and password, then a number, then the account; logout | session, parser, database | steps in any order and overlapping; the parser and the connection are shared | no account without both steps; exact after a logout served alone |
| Other lessons (`L/*`) | session attributes, database rows | one `createContent` each | session, connections, trackers | protocols of several requests | a stage is completed by what it asks for |

`PROJECT.json` lists the same parts with their files ("components") and the
hazards of each, at the line where it bites ("hazards").

## 2. How the parts interact

A browser session has one `WebSession` in its HTTP session. It is made at
login, and with it a `Course`, which `PluginsLoader` fills from the jars in
`plugin_lessons`. Every request to `/attack` goes through `HammerHead.doPost`:
`WebSession.update` swaps the request in the session's parameter parser and
moves the screen, `makeScreen` picks the lesson, the lesson handles the request
(reading parameters, tracker and database through the session), then
`UserTracker.update` stores the tracker. The REST services read the same
session on other threads; two of them change it (`RestartLessonService`,
`PluginReloadService`). Nothing of this takes a lock on the session: what is
synchronized guards static tables (connections, categories, the instance of
`UserTracker`), one call at a time.

The front end is brought by RequireJS: the page names one script, whose `require`
call asks for the application, whose modules ask for theirs. The factory of
`GoatRouter` makes the views, `initApp` starts Backbone's history, and from then
on a change of the fragment loads a lesson and the menu. The front end sends a
content request per click or form, and per content answer an info request for
the title, one for the menu and one for the progress; it never cancels any.

| Interaction | Modelled in |
|---|---|
| requests of one user on cache, trackers and files | `LessonTracking` |
| requests of one browser session on the session | `SessionScreens` |
| browser and server, with the threads of the servlet | `LessonFrontend`, which extends `SessionScreens` |
| loader, application, menu, progress and services | `MenuFrontend`, which extends `ModuleLoading` |
| what the application expects of its loader | `ModuleGraph`, which `ModuleLoading` implements |
| start, logins, reloads and the jobs of their loads on one directory | `PluginLoading` |
| caller, child process and watcher | `ExecProcess` |
| requests of one user rebuilding and using the user's database | `LessonDatabase` |
| requests of one session in a staff lesson, beside the other lessons of its user | `StaffLessons` |
| requests of one session in the login lesson, on attributes, parser and connection | `TanLogin` |

## 3. The modules

Every variable, action and helper that stands for code has its lines in the
"map" of `PROJECT.json`. Conventions: a multi-step operation has one action per
step another actor can come between; histories are the variables marked
*history* at their declaration, and no action that stands for code reads one.

### LessonTracking

*The progress of one user in lessons with stages.* State: `storage` and `maps`
are the two levels of `UserTracker.storage`; `completed`, `stage` and `props`
are the fields of the tracker objects; `disk` is the property file of each
lesson. A request is a thread that runs `getLessonTracker` (`GetUserMap`,
`NewUserMap`, `GetTracker`, `Load`, `PutTracker`), acts on the tracker
(`CompleteStage`, `ChooseStage`, `ReadPage`, `PageFails`, `Look`,
`RestartClear`/`RestartStage`, `CatchProperty`, `CatchNoMore`), and for a page or a Catcher
call stores it (`ReadCompleted`, `SetProperties`, `OpenFile`, `WriteFile` or
`StoreFails`) and publishes it (`PublishTracker`). `Crash` loses all but the
files.

`Catcher` first runs `WebSession.update`, as a page does, which may pick a stage
or restart the lesson. Then it copies every parameter of the request, under its own name, into the
properties of the tracker, which it looks up again for each: one `CatchProperty`
per parameter. `WithParameter` is what one can change: a property of no
meaning (`custom`), or one of those a store writes, `<title>.<stage>.completed`
and `<title>.stage`. The next store sets the latter anew from the tracker, so that
they matter only when they are set between the loop over the properties and
`Properties.store` of another request. Then such a parameter is written into the
file, and a later load takes it for progress: `forged` is the history of the
stages that were made up in this way. Which parameters come, in which order and
whether `PROPERTY` is one of them is left open.

`alone` is the request, if any, that has been the only one since it began,
whatever overlapped before it. What the file holds when such a page is answered
is what the tracker holds, stage included (`AnsweredPageReloads`); of pages that
overlap this is false, for another request may complete a stage after the file
was written.

Progress can be lost in this code, and the model keeps every way it can be. The
history `accident` names the first one of a lesson: another request's entry was
*replaced* in the cache; a store used a *stale* list; a write *failed*; a file
was *torn* by a stop; a stop *revived* what a restart had cleared but not
stored; a parameter of Catcher *forged* what a store was about to write. The
durability properties say that nothing else loses progress; what holds
even after an accident (`NoForgedProgress`) is stated without it.

Abstractions: `makeSuccess` does nothing for these lessons
(`LessonAdapter.java:254-256`) and nobody calls `setCompleted(true)`, so
progress is the completed stages; visits, hints and the viewed flags decide
nothing and are left out; a missing and a truncated file load alike; two writes
of one file at a time end as one of the two; the internals of a `HashMap`
under a race are left out (no lost entry but by replacement), and so is a
parameter named like a counter whose value is no number (a later load gives up
and starts an empty tracker). The lesson's test
of `getStage` and its `setStageComplete` are two lookups, so the stage that is
completed need not be the tracker's stage any more.

*What a user is promised* is `LessonProgress`, an abstract specification of four
variables: what a lesson shows, what has been answered for, what was earned,
which lessons are spoilt. Its steps are `Earn`, `Forge` (a parameter of Catcher
that came at the wrong moment: the lesson is spoilt), `Answer`, `Restart`, `Stop` and
`Mishap`. `LessonTracking` implements it (`Progress`, `KeepsProgress`): shown is
what the cached tracker holds, or the property file when there is none (`Shown`);
spoilt is a lesson with an accident. That says of steps what the invariants say
of states: a stage that is shown stays until a restart, and a stop of the server
takes only what no page has answered and brings nothing back.

### ExecProcess

*One call of `Exec.execOptions`.* State: the child (`child`, `code`, `wrote`),
three pipes of `Capacity` bytes, the caller's program counter and locals, the
bit it shares with the `ThreadWatcher`, the results. The child is any program:
it writes, reads, closes and exits when it likes. The watcher's `interrupt`
sets the bit (`WatcherMarks`), then destroys (`WatcherDestroys`). The caller
follows the code from top to bottom: write the input, read the output, read the
error stream *into the output buffer*, test the bit again, wait, destroy. The
two versions, for a string and an array, are the same code. In this snapshot
`Exec.main` is the only caller.

`CallerCanMove`, `ChildCanMove` and `WatcherCanMove` collect the guards of the
actions above them, so that who has a step to take is said without ENABLED. With
them two statements about progress become safety: what a hang looks like
(`OnlyPipesHang`), and that a timed call never waits for the child alone
(`TimedCallMoves`). `StepsRunOut` adds that the steps of caller and watcher
count down a number (`Left`) that no step of the child raises.

### SessionScreens

*The screens of one `WebSession` under parallel requests.* State: `current`,
`previous`, `previousStage`, the three flags of the hackable admin, `parser`
(whose request the session's parser holds) and the stage of each tracker. A
request goes through `FirstLesson`, `Remember`, `Choose`, `Compare`,
`UpdateStage`, `Restart`, `UpdateParameters` (all `WebSession.update`), `Make`,
`MakeChallenge`, `Lookup` (`makeScreen`), `Handle` or `Fail`. One action is one
read or write of the shared session. A request whose thread the container has
reused may still be held by the parser: reading it gives its parameters or none.

Left out: the hint number, cookies, debug and colour flags, messages and the
current menu, on which nothing here decides. The session is never new
(`HammerHead.java:379`), so the welcome page for new sessions does not occur.

### LessonFrontend

*One browser over `SessionScreens`.* State: address (`hash`), `urlRoot`
(`url`), what is on the page (`shown`, `form`, `title`), and the content and
info requests under way. The user clicks links of the menu, submits forms of the
lesson and follows its links (`Click`, `Submit`, `FollowLink`); answers come in
any order (`Deliver`, `InfoService`, `InfoLoaded`, `InfoFailed`); `Serve` is a
step of the servlet. The model of the server is the full `SessionScreens`, not a
stub, so an overlap of two clicks in the browser is an overlap of two requests
in the session.

A form posts to the `urlRoot` of its time, which names the screen. A link of the
content (`attack?name=value`, from `ECSFactory.makeLink`) is posted as the
lesson wrote it and names none, so the servlet answers for the lesson the
session is at: `ContentStaysOnLesson` says when that is the lesson on the page.

`LessonController.restartLesson` is left out: the page (`main_new.jsp`) has no
element `#restart-lesson-button`, so nothing ever triggers it. The service it
would call is `RestartService` of `SessionScreens`, whoever calls it.

`Left` counts the steps at most that are left for the requests of a thread;
`AnswersRunOut` says that answers do not keep each other going.

### PluginLoading

*All loads of a server and their jobs.* State: the jars, the class loader's
jars, the extracted directory (`i18n`, `labels`, `file`), the label cache, the
load of each thread, the job of each load and jar, the courses. A load is
`BeginLoad` (from the start of the application, a login, or the reload
service), `Clean`, one job per jar, `Collect` or `Abort`, an `Add` per lesson,
`Finish`. A job is `OpenJar`, then its entries in any order (`MakeDirs` and
`AppendLabels`; `CopyFile`), then the `finally` (`ReadFile`, `WriteFile`:
`replaceInFile`). A jar is replaced in steps (`ChangeJar`): absent, partly
copied, whole.

A course is named after the thread that made its session. The pool's limit of
ten jobs only takes interleavings away and is left out. Copying a file is one
step: reading it meanwhile has the outcomes of reading it while it is
rewritten, which are in the model. `LessonJar` are the jars with a lesson that can
be made and is not hidden: the loop of `Course.loadLessonFromPlugin` catches what one lesson
throws, skips it like a hidden one, and goes on. The order of the list is left out, and
the directory is empty at first.

### LessonDatabase

*The database of one user.* State: whether the connection is registered
(`open`) and the first build done (`built`), who is inside the synchronized
`getConnection` (`lock`), where each request is in `makeDB` (`job`), which
tables there are (`exists`), how often each initial row is in them
(`count`), and whether a lesson of each request has fetched the connection and
it is still open (`held`). `FirstConnection` opens and fills the database under the lock;
`Refresh` is a `makeDB` outside it (`setStage`, `setStageComplete`,
`refreshDB`). A `makeDB` is a `Drop`, a `Create` and the `Insert`s of each
table, in order, one statement per step; `Abort` is the exception that leaves
it (a table dropped by another rebuild, a primary key already there, the one
`CREATE` that throws again), `Finish` its return. A lesson fetches the
connection (`Connect`), and then, without any lock, runs its statements on it
(`Query`, `Delete`) until it lets go of it (`Release`). `Close` is the login
lesson closing the connection it has queried (`MultiLevelLogin2.java:464`). What
other lessons run on theirs fails from then on; every rebuild under way ends
where it is, and `cut` remembers that until one has run alone to its end. The
next `getConnection` opens another connection on the same database. Rows that lessons add or change are not initial
rows and are left out; the histories `lost` and `surprised` say which rows
lessons deleted and whether a query on an open connection failed without a
refresh under way. The statements an administrator types in
(`ViewDatabase.java:78`) could be any, and are left out.

Overlapping rebuilds do leave the rows of tables without a primary key twice,
which is why `LoneRebuildIsExact` speaks of a rebuild that was alone. A rebuild
that is cut off leaves tables missing with nobody to make them, which is why
`WholeAtRest` and `QueriesFindTables` have `cut` as their exception.

`RebuildAdvances` is the safety part of `RebuildEnds`: a statement takes its
rebuild further along the script (`Further`) or out of it, and what other
requests do leaves it in its place.

### StaffLessons

*One staff lesson in one browser session.* State: the session attributes
`isAuthenticated`, `user_id` and `Employee` (`auth`, `user`, `profile`), the
current page of the `LessonSession` (`page`), what the parser holds (`params`),
the rows of the table `employee` and who rebuilds it, and where each request is
(`job`). The three lessons differ in their dispatcher (`DispatchPlain`;
`DispatchRole`, `Defend`, `Authorize`), their login (`TryLogin`, `StatusSql`),
in whether they encode the fields of a profile
(`Encoded`), and in what completes their stage (`StatusCss`,
`StatusSql`); each step is one or a few reads followed by one write of what
requests share. A handler is `Enter` (its page), `Check` or `CheckFails` (login
and parameters), its own action, and a chained handler is the next `Enter`.
The other lessons of the user delete and update rows and rebuild the tables;
a rebuild is here a set of builders that overlap. Queries and updates may find
nothing or fail at any time (`Answers`, `Write`): the tables are being rebuilt,
or the login lesson has closed the connection under them. A rebuild may stay
among the builders for ever, which stands for one that was cut off by it.

`LoginFunction` says whether the database has the function `EMPLOYEE_LOGIN`,
which only the scripts for Oracle and SQL Server define: with the default
database nobody logs in to database injection. A profile with a script in it is
`script`: the row of an employee may have one from the start (`Scripted`, in the
code employee 108), which every rebuild brings back, or get one by an update.
Of the passwords only right and wrong are told apart. Left out: the
lists of staff and the search result (they are shown, and decide nothing), and
the second stage of database injection, for coding exercises.

### ModuleGraph and ModuleLoading

*RequireJS as the page uses it.* `ModuleGraph` is what the application expects:
a set of modules and require calls that have run (`done`), one action `Run`,
which runs a factory once all it needs has run, or what has not run leads back
to it. `ModuleLoading` is the loader. State: the script element of each module,
and of the registry what is wanted, initialised, given its dependencies, run or
in error; the require calls in `nextTick`; the timer of `checkLoaded` (`armed`),
its flag `inCheckLoaded` (`jammed`), the clock (`age`).

JavaScript runs one event to its end. An event (`Tick`, `ScriptLoads`, `Timer`)
opens a turn, `turn = "run"`, in which factories run one after the other
(`Define`) until none is ready; the last thing in it is `checkLoaded`, which
waits (`KeepWaiting`), gives up (`GiveUp`), does nothing because an error left
its flag set (`NeverAgain`), or breaks circles (`LookForCycles`, `BreakCycle`,
`CyclesBroken`). `ScriptFails` throws and opens no turn. A script need never
come. A module with a shim waits behind a *gate*: the require call its `fetch`
makes for the shim's dependencies, after which its script is asked for.

Which module of a circle is given away without a value depends on the order of
dependency lists; here it may be any of the circle, so the model has every
behaviour of the code and more. `breakCycle` stops at a module with an error; the
model need not say so, since nothing lies behind one: its script failed and its
dependencies are not known, or it was given up and `checkLoaded` never looks again.
Factories do not throw. Of names, paths, plugins and packages nothing
is kept; one context, no `undef`.

`NeverSilent` and `WaitIsBounded` are the safety part of `StartsOrReports`: as
long as nothing has started and nothing was reported, something is under way or
the timer is set, and the wait it watches is bounded.

### MenuFrontend

*The page from its first byte*, over the whole of `ModuleLoading`. State added:
whether the body is parsed, whether the views found their elements, whether the
router listens to `menu:reload`; the address, Backbone's fragment; the lesson
of the session and what is completed on the server; requests and answers under
way, as bags; what is on the page. `CreateViews` is the factory of `GoatRouter`
and `InitApp` the callback of `main.js`: both are steps of the loader
(`Define`) with effects on the page. `CheckUrl` is Backbone's handler of
`hashchange`, `Click` a link of the menu, `GoTo` any other change of the
address, `Submit` a form; `ServeLesson`, `ServeMenu`, `ServeProgress` are the
server, a request at a time, `ShowLesson`, `ShowMenu`, `ShowProgress` the
answers, in any order.

Three things the code does are in the model as they are: a view made before its
element is parsed draws nothing, for ever; a page opened at `#welcome` throws in
its route (`loadWelcome` does not exist), so the `listenTo` after it is never
reached and the menu is not reloaded after a lesson; the selected link is the
one clicked last, which the back button does not change.
In the menu a lesson with stages is its stage, of which a `Lab` has one.

`PageLeft` weighs all that is under way by what it can still lead to (a lesson
asks for the menu and the progress again); `AnswersRunOut` says that only the
user and the start of the application add to it.

### TanLogin

*The login in two steps of one browser session.* State: the attributes
`LOGGEDIN`, `CORRECTTAN`, `LOGGEDINUSER`, `CURRENTTAN`, what the parser reads
(`parser`), and where each request is, with what it has read. A request reads
three parameters, tests and sets the attributes one by one (`Compare`,
`Accept`, `Reject`; `LogIn`, `SetName`, `SetTan`; `LogOut`, `Forget`), and
`defendIt` shows the account, after taking back both steps (`Leave`, `Clear`),
asks for the number, or starts again. Every query ends by closing the connection
of the user, so a query of another request may find nothing (`CloseUnder`,
`SetNoTan`, `ShowNothing`). A comparison before the first number is there
throws (`CompareWithNothing`).

A password and a number are told apart by whose they are. The position of the
number and the count of logins are stored, but `getCurrentTanPosition` answers
1 whatever it reads, so they decide nothing and are left out. A user's number is
therefore the same at every login: a number has to be entered for each account
that is shown (`LoneIsExact`), but it may be the one entered before, which is
against a comment of the code (`TanUsedOnce`, section 7).

## 4. The runs

| Run | Instance | Shows |
|---|---|---|
| `tracking` | 2 requests at a time, 1 lesson, 2 stages, 4 objects | `NoForgedProgress`, `MemoryIsExact`, `AckedIsDurable`, the implementation of `LessonProgress` (`KeepsProgress`), under every interleaving of pages, queries, restarts, Catcher calls, failing writes and stops; and that a page that was alone reloads to the same progress and stage (`AnsweredPageReloads`) |
| `tracking_custom` | 1 request at a time, 1 stage | the code loses Catcher's property (section 7) |
| `exec_call` | 2 bytes per stream, pipes of 1 byte, every combination of input, timeout, lazy | `OutputIsWhole`, `NoOrphan`, the complete list of hangs `OnlyPipesHang`, and `TimeoutEndsTheCall` |
| `screens` | 2 threads, 3 lessons (one a challenge with 2 stages, one for admins), 10 kinds of request | `AloneIsExact`, `NotStuckOnError`, `HackTakesOneRequest` |
| `screens_parameters` | the same | section 7 |
| `frontend` | 2 threads, 2 lessons, an unknown link, 3 user actions | `RestingPageAgrees`, `ContentStaysOnLesson`, `ClickIsShown` |
| `plugins` | 2 jars (one with labels), 2 threads, 2 changes | `LoneLoadIsExact`, `LoneLoadRepairs`, `AllOrNothing` |
| `database` | 3 requests, 3 rebuilds after the first, 2 tables (2 rows with a key; 1 without, its `CREATE` strict) | `WholeAtRest`, `LoneRebuildIsExact`, `QueriesFindTables`, `RebuildEnds` |
| `staff` | 2 threads, 3 requests out of 11 kinds, 2 employees (one with every right and a script in the initial row, one without `DeleteProfile`), one write or rebuild of another lesson | `PageNeedsLogin`, `ShownIsAsked`, `RoleAllows`, `ErrorNeedsLogin`, `CompletedFromOutside` |
| `page` | 7 modules (a plain one, two with shims, one of them with dependencies, the script of `main.js`, the application, the router, and one that needs itself), 2 lessons (one with a stage), opened at nothing, `#welcome` or a lesson, 2 user actions, a timeout of 1 tick | `ImplementsGraph`, `NothingForgotten`, `StartsOrReports`; `RestingMenuAgrees`, `MarkIsShown` |
| `tan` | 2 threads, 4 requests, a user with numbers and one without; right and wrong passwords, a right number, an empty one, a logout | `PageNeedsBoth`, `LoneIsExact` |
| `tan_once` | the same with one thread, so that nothing overlaps | section 7 |

**Bounds.** *Two threads* everywhere: each hazard is a step of one request
between two steps of another, and what a third one adds is a choice between
two already there; the histories (`accident`, `shared`, `raced`) make no
difference between one and many offenders. *Two stages* for a request that is alone,
where the stage to resume at matters; requests that overlap do not look at its number (`LastOnly`, below). *Four objects* are what
two requests and a cache can hold at once with one spare. *Pipes of one byte
and two bytes per stream*: a pipe is empty, full, and filled again. *Three user
actions*: two that race and one on the page at rest after them, which is what
`RestingPageAgrees` is about. *Two jars*: one that fails and one that does not,
with and without labels; *two changes*: a jar that is deleted and half copied,
or copied, and with the start before them, a jar that comes and goes.
*Three requests and three rebuilds* on the database: one that inserts, one
that drops under it and one that runs into both (with two, a refused row was
always inserted by the only other one), or two that overlap, one that closes the
connection under both, and a rebuild alone after it; *two tables* have between them
what the sixteen have: a primary key or none, rows a lesson deletes, a `CREATE` that is caught or thrown again.
*Three requests* in a staff lesson: a login, a request that leaves something in
the session or the table, and the one that meets it, two of them at a time.
*Four requests* in the login lesson: name, number and logout, and one that
overlaps any of them. *A timeout of one tick*: a script comes before it or not;
that it is seven seconds in the code only delays it. *Two user actions* on the
page: two that race, or one and a second on the page at rest after it; with the
lesson the page is opened at there are three loads.
`MaxChanges`, `MaxActs`, `MaxBytes`, `MaxRefreshes`, `MaxServed` and `MaxOthers`
are guards, named as bounds.

**Views, constraints, symmetry.** The views leave out what no later step and no
property can read: maps and objects nobody refers to, pages already delivered,
courses no session has, what a request has read once it is used. Of a lesson with an accident the
properties of `tracking` speak of the stages on record only, so that from there on its view (`Told`) keeps
what decides about these (`Recorded`), not the stage a tracker is at nor the
other histories; before, it keeps all but the properties of no meaning (`Progressing`).
`LastOnly` lets requests that overlap, or come after an accident, deal with the last stage only: no action
compares the numbers of two stages, and for the last one there is no next stage
to move to. `AccidentFree` is a constraint of `tracking_custom` only. After a change of
`plugin_lessons` loads come one at a time (`LoadsOverlapBeforeChanges`).
`Reachable` leaves the loader out once the application has started and all that was wanted has run: from then on no action
reads its state or changes it, so of two states that differ in it only, every
later step is the same, and of the properties only `NothingForgotten`, which the
view keeps, looks at it; `ImplementsGraph` and `StartsOrReports` are about steps
taken before.
Trackers and threads are interchangeable in `tracking` (symmetry), and no run with a liveness
property uses symmetry.

**Deadlock** is checked except in `exec_call` (untimed calls can hang: that is
what `OnlyPipesHang` says), `staff` and `tan` (after `MaxServed` requests), `frontend` and `page` (the user stops after `MaxActs`) and
`database` (no more rebuilds after `MaxRefreshes`).

**Fairness.** `ExecProcess`: weak fairness of the caller's and the watcher's
threads, which the virtual machine runs; none of the child. `LessonFrontend`:
weak fairness of the network and the servlet threads together (something goes
on as long as anything can), no answer is lost; none of the user. `LessonDatabase`: weak fairness of each request inside
`makeDB`, which waits for nobody; none of the requests to come. `ModuleLoading`: weak
fairness of a turn, of the timer and of the clock, as a browser runs an event to
its end, fires its timers and lets time pass; strong fairness of `nextTick`, which is due
before the other timers and can only be put off by events in between; none of
the scripts, which need never come. `MenuFrontend` adds weak fairness of the
network and the server together and of `hashchange`; none of the user. The other modules state safety only: nothing in that code
waits for anybody else.

## 5. The proofs

The runs show the properties on small instances; these theorems show them for
every value of the constants. What they assume of the constants are the named
ASSUMEs of the modules, which TLC evaluates on every run. Most say that model
values such as `None` are no threads or lessons and that sizes are natural
numbers. Four say more:

* `LinksAssumption` (`LessonFrontend`): a link of the menu names a screen, a
  stage only with a lesson that has stages, and every such place is a request a
  session can get.
* `RouterAssumption` (`MenuFrontend`): `goatApp.js` needs the router, the entry
  point needs `goatApp.js`, and neither is in a circle with what needs it, as
  their `define` and `require` lists say.
* `StartAssumption` (`ModuleLoading`): the first call needs the module of
  `data-main`, which RequireJS makes its dependency.
* `ThreadAssumption` (`PluginLoading`): there are finitely many threads, as the
  container's pool has.

One theorem has a hypothesis of its own. `LoneRequestIsExact` asks, for an administrator of the container only, that every challenge is for
users: `HammerHead.makeScreen` looks a challenge up with the role of a user
whoever asks. The lessons here that are not for users are all admin functions,
none is a challenge. Bounds such as `MaxActs` and `MaxChanges` are any numbers.

| Theorem | Says | Argument |
|---|---|---|
| `LessonTrackingProofs!TypeCorrect` | `[]TypeOK` | `TypeOK` needs to know which locals are set where (`LocalsOK`): a tracker is an object where it is dereferenced, a map is a map where it is read. The two together are inductive |
| `LessonTrackingProofs!ProgressIsEarned` | `[]NoForgedProgress` | not inductive: an object the cache does not hold yet may be put there. `EarnedInv` says it of every object a request, a local or the cache can reach, that no object serves two lessons, and that snapshots, and the properties of an object that is being stored, are to the credit of the lesson: earned, or `forged`. Of an object nobody is storing nothing is said of the properties, where a parameter of Catcher may put any stage: the next store sets them anew. The steps that need it are `Load` (the object is fresh, so whatever refers to it refers to one lesson), `SetProperties` and `CatchProperty` |
| `LessonTrackingProofs!CachedTrackerIsExact`, `AcknowledgedIsDurable` | `[]MemoryIsExact`, `[]AckedIsDurable` | `ExactInv`, over `EarnedInv`, says four things of each lesson without an accident. `OneTracker`: every request that has a tracker has the one in the cache. `LoadedFresh`: before there is one, whoever is about to put it holds what the file holds. `TrackerExact`: it has what was acknowledged and what requests under way have gained, and nothing from before the last restart. `StoredExact`: what is about to be written has all of that too, and so has the file unless somebody is between truncating and writing it. A step that breaks one of the four is a step that records an accident |
| `LessonTrackingProofs!LonePageReloads` | `[]AnsweredPageReloads` | `AloneInv`: a request in `alone` is under way and no other is, so that every step while it stays there is its own, or a stop. Over it `LoneStore`: from the copy of the completed stages to the answer, properties and then file are what the tracker holds, stage included |
| `LessonTrackingProofs!ProgressIsKept` | `KeepsProgress` (a refinement) | every step of `LessonTracking` is a step of `LessonProgress` or a stutter (`ProgressStep`). `ExactInv` gives all but one case, a stop of the server: the file must not know a stage the tracker does not. `BehindInv` says so, of the file and of what is about to be written, up to what was earned before the last restart; a stop that would bring back that too is the accident *revived*. What Catcher sets while the properties are being stored is the accident *forged*, and `Forge` of the abstract specification. Most steps touch neither tracker nor file (`QuietSteps`), and one of another lesson does not count (`ApartKeepsBehind`) |
| `ExecProcessProofs!CallInvariant` | `[](TypeOK /\ CallInv)` | `CallInv` says what the caller knows at each point. Its heart: bytes are conserved (buffer + pipes = written), a closed stream stays closed, and a process is destroyed by the watcher only after the bit is set |
| `ExecProcessProofs!WholeOutput` | `[]OutputIsWhole` | from `CallInv`: when the loop ends by an end of stream without the bit, the child closed it itself, and the pipe is empty |
| `ExecProcessProofs!ChildIsGone` | `[]NoOrphan` | from `CallInv`: every way to `done` passes `destroy`, or there is no child |
| `ExecProcessProofs!HangsArePipes` | `[]OnlyPipesHang` | `MoveInv`: a timed call that has begun has a watcher, its bit is set only by a watcher that goes on to destroy, a destroyed child is not alive, and in `waitFor` the error stream has ended. What each point of the program waits for is then a case each |
| `ExecProcessProofs!TimedCallIsFree`, `CallsAreBounded` | `[]TimedCallMoves`; `[](Left \in Nat)` and `StepsRunOut` | from `MoveInv` and `CallInv`: the watcher has a step until it has destroyed the child, and then nothing blocks. The bytes read are bounded by what the child can write (`CallInv`), so `Left` is natural. Together: all that `TimeoutEndsTheCall` needs but fairness |
| `LessonFrontendProofs!ScreensTypeCorrect` | `[]TypeOK` of `SessionScreens` | the parser yields the parameters of a request or none (`ParametersType`) |
| `LessonFrontendProofs!ErrorScreenIsLeft` | `[]NotStuckOnError` | `StreakInv`: after a page for an invalid screen the session is at the first lesson, and a request that comes alone and names no screen asks for that |
| `LessonFrontendProofs!LoneRequestIsExact`, `HackIsOneRequest` | `AloneIsExact`, `HackTakesOneRequest` (action properties) | `AloneInv`: what a request nothing overlaps has found (`Lone`), by where it is: the parser is its own, from the choice of the screen on the session is at what it asked for, and the flag of the hackable admin is the one it set itself. An overlap ends `Alone` for both, so whatever it leaves is behind the request's own writes |
| `LessonFrontendProofs!FrontendTypeCorrect` | `[]FrontendTypeOK` | needs `FoundInv` and the types of the session: an answer under way has a lesson only if the session has it |
| `LessonFrontendProofs!FrontendIsServed` | `FrontendSpec => Spec` | every step of the page is one of the servlet or leaves the session alone (`BrowserStep`): all of the above holds under the page |
| `LessonFrontendProofs!RestingPage`, `ContentStays` | `[]RestingPageAgrees`, `ContentStaysOnLesson` (an action property) | `FoundInv`: what is answered is a lesson the services find too. `PageInv`: what can be seen came after a link. `CourseInv`: the session never goes back to the welcome screen, so a request without a screen is for the current one. `SettledInv`: until the user races, either one request is under way, alone in the servlet and for the address (`SoleRequest`, by `LoneLesson` it comes back as that), or all that is on the page is of one lesson (`AtRest`) |
| `LessonFrontendProofs!AnswersEnd` | `AnswersRunOut` (an action property), and nothing is left exactly when `Quiet` | a step of the servlet passes one point of its own request (`StepGoesOn`) and touches no other (`StepFrame`); a delivery costs three and starts an info request of two; only the user's actions add |
| `PluginLoadingProofs!LoadInvariant` | `[]LoadInv` | nine conjuncts, each preserved by a lemma of its own. `Alone`: while a load runs alone nobody else is busy, and no job left behind runs. `Waiting`: a load waits for one job per jar it listed. `Outcomes`: a job that failed met a jar that cannot be loaded, and one that ended well met one that can. `Filling`: what the course holds and what is still to be added. `Overlap` and `Courses`: the same for loads that are not alone, up to the course they share with another |
| `PluginLoadingProofs!LoneLoad` | `[]LoneLoadIsExact` | from `Settled`, which `Filling` becomes when the load ends |
| `PluginLoadingProofs!NoPartialCourse` | `[]AllOrNothing` | from `Courses`: the lessons in the course and those still to be added make up all that was listed, or nothing |
| `PluginLoadingProofs!LoneLoadMends` | `[]LoneLoadRepairs` | `DirInv`, over `LoadInv`. `Extracting`: while a load is alone, what the directory holds for a jar is what the jar's job has done so far: labels appended once, the file raw before it is rewritten, good after. `Mended`: when all jobs are through this is the whole of the directory, and nobody works on it afterwards (`Alone`) |
| `PluginLoadingProofs!PluginTypeCorrect` | `[]TypeOK` | `Copies`: how often a course holds a lesson, and how many loads of the course have it still to add, are together never more than there are threads. Each load empties the course when it begins and adds a lesson once, so only loads that overlap add to each other |
| `LessonDatabaseProofs!WholeDatabase` | `[]WholeAtRest` | until a rebuild is cut off, `Covered`: a missing table or row has a job that will make it. It is kept by aborts because of `NoGap`: behind a row that is there, a missing one has a job between the two. For who inserted the first went on from it, and is itself stopped only by a row that is there. After a cut neither holds; a rebuild that runs alone to its end (`LoneIsWhole`) brings both back |
| `LessonDatabaseProofs!ExactRebuild` | `[]LoneRebuildIsExact` | `LoneInv`: what a job that has always been alone has made so far |
| `LessonDatabaseProofs!NoSurprise` | `[]QueriesFindTables` | `Covered` again: out of the lock every table is there, or a refresh is about to create it; and who holds a connection is out of the lock (`LockInv`) |
| `LessonDatabaseProofs!DatabaseTypes` | `[]TypeOK` | by the same invariant |
| `LessonDatabaseProofs!RebuildsAdvance` | `RebuildAdvances` (an action property) | a statement changes the place of its own request only (`OthersLeaveJob`), and to a later one or out of `makeDB` (`StatementAdvances`); `Close` and `FirstConnection` are the other ways out and in |
| `StaffLessonsProofs!StaffInvariant` | `[]StaffInv` | `Own` says of a request, by where it is, what it has found out: the right to write (`RoleOwn`), the row fetched (`ShownOwn`), where a script comes from (`ScriptOwn`), the login (`LoginOwn`). `AloneOwn` and `SerialOwn` say that a request that is alone, or one of a series, has nobody beside it; hence a step has to keep `Own` of its own request only (`QuietPreserves`) |
| `StaffLessonsProofs!StaffTypes`, `LoginBehindPages`, `ProfileAsAsked`, `CompletedByOthers` | `[]TypeOK`, `[]PageNeedsLogin`, `[]ShownIsAsked`; `CompletedFromOutside` (an action property) | parts of `StaffInv`, or immediate from it; the last from `ScriptOwn` and `RowInv`, which say that a script a request of cross site scripting holds, or a row has, was there from the start or came from another lesson, and from `RebuildByStatus`: only the check of that request completes its stage |
| `StaffLessonsProofs!RoleIsObeyed` | `RoleAllows` (an action property) | by `AloneOwn` no other request steps; the steps that write are `UpdateProfile` and `DeleteProfile`, and for these `RoleOwn` is the property |
| `StaffLessonsProofs!ErrorLeftByLogin` | `ErrorNeedsLogin` (an action property) | by `ErrorOwn` the request is still in the dispatcher or the authorization, whose steps keep the page or set the error page again |
| `MenuFrontendProofs!LoaderImplementsGraph` | `Loading => ImplementsGraph` | the refinement maps `done` to `done`: a `Define` is a `Run`, all else stutters. `GivenInv`: what a node has been given has run, or leads back to it in the graph; the circles `breakCycle` finds among what waits are circles of the graph (`CircleOfGraph`) |
| `MenuFrontendProofs!AllWantedRuns` | `[]NothingForgotten` | `WaitersWait`: when nothing is missed and nothing is ready, each that waits waits for another. `FoundShrinks`: once circles are broken, less is found from that one than from the first; the sets found are finite and strict inclusion among them is well-founded, so nothing waits (`NoCircleNoWaiting`) |
| `MenuFrontendProofs!Watched`, `TypeCorrect` | `[]PendingIsWatched`, `[]TypeOK` | what is missed has the timer or the turn under way, unless an error left `checkLoaded` unable to run |
| `MenuFrontendProofs!LoaderIsNeverSilent` | `[]NeverSilent` | `StartInv`: the first call, and the call of the main script, are made or wait in nextTick. If nothing is missed and nothing was thrown, all that is wanted has run (`NothingForgotten`), the application among it; if something is missed, it is watched (`WatchInv`) |
| `MenuFrontendProofs!WaitEnds` | `WaitIsBounded` (an action property) | only `Enter` sets the clock back, and only when it wants something new; `checkLoaded` passes over what is missed only when an error was thrown (`KnownInv`) |
| `MenuFrontendProofs!PageIsLoaded` | `PageSpec => Loading` | every step of the page is one of the loader or leaves it alone (`PageStep`), so the page is a refinement of the loader with its own variables |
| `MenuFrontendProofs!PageImplementsGraph`, `PageForgetsNothing` | `PageSpec => ImplementsGraph`, `PageSpec => []NothingForgotten` | by `PageIsLoaded` |
| `MenuFrontendProofs!PageTypeCorrect` | `[]PageTypeOK` | `CountInv`: an action leads to one lesson at most, a change of the address to one menu, a lesson to one menu and one message. What is under way is counted as a finite set of copies (`Size`), so that no order of answers matters |
| `MenuFrontendProofs!AnswersEnd` | `AnswersRunOut` (an action property), and `PageLeft` is 0 exactly at rest | `AnswerCounts`: what each answer takes and adds, by kind of request; the weights of `PageLeft` make each a loss |
| `MenuFrontendProofs!RestingMenu` | `[]RestingMenuAgrees` | `AfterNeeds`: the application runs after the router it needs. `AddressInv` ties address, fragment, forms and selection together, races or not. `WaveInv`: until the user races, at most one lesson is asked for or on its way, it is the one of the address and of the session, and what follows it, message and menus, is what the server knew and still knows |
| `TanLoginProofs!TypeCorrect` | `[]TypeOK` | inductive |
| `TanLoginProofs!AccountNeedsBoth` | `[]PageNeedsBoth` | `BothInv`: what is asked for, and what is accepted, belongs to somebody who logged in before; without an accepted number nothing is marked as correct |
| `TanLoginProofs!LoneRequestsAreExact` | `[]LoneIsExact` | `UnsetInv`: before the first number somebody logged in is about to set it. `LogoutInv`: after a logout under way, only what threads do that have still to pass it can log anybody in; it holds under any overlap and is what makes the logout served alone a new start. `LoneInv`: what a request that is alone has found, by where it is |

Every strengthening was checked with TLC on the instances of section 4 before
it was proved. The invariants of `SessionScreens`, `LessonFrontend`,
`MenuFrontend` and `LessonTracking` that a run can check too stand at the end of
these modules; those of the other proofs are in the proof modules.

Every invariant and every safety property of steps a passing run checks is
proved, and so are both refinements. What stays with TLC are the liveness
properties (`TimeoutEndsTheCall`, `ClickIsShown`, `RebuildEnds`,
`StartsOrReports`, `MarkIsShown`). For each of them a part that is not about
fairness is proved: what there is to do runs out (`CallsAreBounded`, both
`AnswersEnd`, `RebuildsAdvance`, `WaitEnds`), and there is something to do until
the end is reached (`TimedCallIsFree`, `LoaderIsNeverSilent`), which is the one
promised (`RestingPage`, `RestingMenu`). Who can move in `OnlyPipesHang` is written out as
conditions, since ENABLED is out of the prover's reach; that whoever takes a step
satisfies them is the lemma `StepsAreMoves`.

## 6. What is not modelled

* User database, categories and roles, the parameter parser, the lesson on
  request forgery: in the plan (section 8).
* Titles, session and application services, the login and start
  controllers, the admin screens: they read what others keep and write a page.
* Lessons of one request (client side validation, error handling, XML, JSON,
  XPath, string SQL, XSS): one page out of its parameters. That a lesson may
  complete a stage, or throw, is a choice in `LessonTracking` and
  `SessionScreens`.
* Help, hints and developer controls of the front end: they show what a service
  answers, and no other view depends on them.
* Vendored JavaScript, which is most of the lines of script here: the editor
  `wysihtml5` and the copies of Backbone, underscore and jquery.form under
  `js/backbone` and `js/jquery_form` are loaded by no page; underscore, jQuery
  and jquery.form are collections of pure helpers or of calls the models take as
  one step. What decides about the order of things in the page is in RequireJS
  and in Backbone's history, and that is modelled.
* Of RequireJS: plugins, packages, bundles, path fallbacks, several contexts,
  `undef` and the optimizer, which the page does not use, and the normalization
  of names, which are model values here.
* Encodings, form helpers, layout, JSPs, build output, tests.
* External code is modelled by how it is used: the servlet container (threads,
  reuse of requests), the file system (truncate, then write), processes and
  pipes, class loader, zip reader, the browser (one event at a time, its parser,
  its address bar and history).

## 7. Where code and comments disagree

Three are runs that TLC refutes, with the text they contradict quoted in
`PROJECT.json` ("findings").

* `tracking_custom`: a property a screen has stored is dropped when its tracker
  is loaded again (`Screen.java:97`).
* `screens_parameters`: a lesson reads the parameters of another request of its
  session (`WebSession.java:1130`).
* `tan_once`: the same transaction number is accepted at every login, against
  "Every tan should be used only once" (`MultiLevelLogin2.java:94` and `:408`).

## 8. Plan

Done: `LessonTracking`, `ExecProcess`, `SessionScreens`, `LessonFrontend`,
`PluginLoading`, `LessonDatabase`, in the order of what a user can lose;
`StaffLessons` and `TanLogin`, the lessons with a protocol of their own;
`ModuleGraph`, `ModuleLoading` and `MenuFrontend`, with the first refinement;
`LessonProgress`, with the second.

Next, in this order:

1. `MessageBoard`: `CSRF`, numbered messages and page tokens (`Integer`
   objects compared by identity).
2. `UserRoles`: `UserDatabase`'s shared connection and its calls.
3. `CourseLookup`: categories, ranking and roles as operators against a
   reference definition, over the courses `PluginLoading` produces; the lessons
   a reload loses.
4. `Parameters`: the accessors of `ParameterParser` as operators.
5. Refinements: an abstract `Command` (a call and its result) implemented by
   `ExecProcess`; an abstract `Library` (a course is empty or whole)
   implemented by `PluginLoading`.
6. Proofs: with each module its invariants, and the refinements of item 5.
