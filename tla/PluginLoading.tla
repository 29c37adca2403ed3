---------------------------- MODULE PluginLoading ----------------------------
(***************************************************************************)
(* Loading the lessons: PluginsLoader, PluginExtractor, Plugin and the     *)
(* callers of loadPlugins: the start of the web application, the           *)
(* constructor of a WebSession (first request after a login) and the       *)
(* reload service.  Every load clears and fills the one plugin_extracted   *)
(* directory with a pool of jobs, one for each jar, and nothing keeps two  *)
(* loads, or a load and the jobs a failed one left behind, apart.          *)
(*                                                                         *)
(* A Course is named after the thread that made its WebSession.  A jar     *)
(* with a lesson has one file whose paths are rewritten, and some have     *)
(* labels; a jar without one has classes only.  The pool's limit of ten    *)
(* running jobs only takes interleavings away and is left out.             *)
(***************************************************************************)
EXTENDS Naturals, FiniteSets

CONSTANTS
  Jar,         (* names of the files in plugin_lessons                     *)
  LessonJar,   (* those with a lesson that can be made and is not hidden:  *)
               (* the loop of Course skips any other                      *)
  LabelJar,    (* those with labels                                        *)
  Thread,      (* servlet threads                                          *)
  MaxChanges,  (* bound on the changes made to plugin_lessons              *)
  None

ASSUME JarAssumption == LessonJar \subseteq Jar /\ LabelJar \subseteq LessonJar /\ MaxChanges \in Nat
ASSUME NoneAssumption == None \notin Thread
ASSUME ThreadAssumption == IsFiniteSet(Thread)

VARIABLES
  source,   (* what is in plugin_lessons: no jar, a part of it, the jar    *)
  changes,  (* how often plugin_lessons changed                            *)
  alreadyLoaded, known, (* PluginsLoader's flag; jars of the class loader  *)
  i18n,     (* whether plugin_extracted/plugin/i18n exists                 *)
  labels,   (* the jars whose labels are in WebGoatLabels.properties       *)
  cache,    (* the labels LabelProvider has read, or None                  *)
  file,     (* the extracted file of each lesson                           *)
  load,     (* the load of each thread                                     *)
  job,      (* the extractor of each load and jar                          *)
  session,  (* the WebSession attribute of the HTTP session                *)
  lessons,  (* Course.lessons: how often each jar's lesson is in it        *)
  admin,    (* the courses that hold the lessons of LegacyLoader           *)
  listed,   (* history: the lessons the last load of a course listed       *)
  raced,    (* history: courses with loads that overlapped                 *)
  settled   (* history: the course loaded last, if that load ran alone     *)

disk    == <<i18n, labels, file>>
dir     == <<source, changes>>
loader  == <<alreadyLoaded, known>>
courses == <<session, lessons, admin>>
history == <<listed, raced, settled>>
vars    == <<dir, loader, disk, cache, load, job, courses, history>>

Load(at, kind, course, plugins, alone) ==
  [at |-> at, kind |-> kind, course |-> course, plugins |-> plugins, alone |-> alone]
Idle == Load("idle", "none", None, {}, FALSE)
Disturbed(r) == Load(r.at, r.kind, r.course, r.plugins, FALSE)
Job(at, todo, read) == [at |-> at, todo |-> todo, read |-> read]
NoJob == Job("none", {}, "none")
Ended == {"none", "ok", "failed"}
Content == {"none", "torn", "raw", "good", "twice"}

Present == {j \in Jar : source[j] # "absent"}
Busy(t)    == load[t].at # "idle"
Working(t) == \E j \in Jar : job[t][j].at \notin Ended
Quiet      == \A t \in Thread : ~Busy(t) /\ ~Working(t)
Up == alreadyLoaded /\ \A t \in Thread : Busy(t) => load[t].kind # "startup"

TypeOK ==
  /\ source \in [Jar -> {"absent", "partial", "whole"}] /\ changes \in 0..MaxChanges
  /\ alreadyLoaded \in BOOLEAN /\ known \subseteq Jar
  /\ i18n \in BOOLEAN /\ labels \subseteq LabelJar /\ (labels # {} => i18n)
  /\ cache \in (SUBSET LabelJar) \cup {None}
  /\ file \in [LessonJar -> Content]
  /\ load \in [Thread -> [at : {"idle", "clean", "wait", "add"}, alone : BOOLEAN,
                          kind : {"none", "startup", "login", "reload"},
                          course : Thread \cup {None}, plugins : SUBSET LessonJar]]
  /\ job \in [Thread -> [Jar ->
                [at : Ended \cup {"queued", "entries", "append", "rewrite", "write"},
                 todo : SUBSET {"labels", "file"}, read : Content]]]
  /\ session \in Thread \cup {None}
  /\ lessons \in [Thread -> [LessonJar -> 0..Cardinality(Thread)]]
  /\ admin \subseteq Thread /\ raced \subseteq Thread
  /\ listed \in [Thread -> SUBSET LessonJar]
  /\ settled \in Thread \cup {None}

Init ==
  /\ source \in [Jar -> {"absent", "whole"}] /\ changes = 0
  /\ alreadyLoaded = FALSE /\ known = {}
  /\ i18n = FALSE /\ labels = {} /\ cache = None
  /\ file = [j \in LessonJar |-> "none"]
  /\ load = [t \in Thread |-> Idle]
  /\ job = [t \in Thread |-> [j \in Jar |-> NoJob]]
  /\ session = None /\ lessons = [c \in Thread |-> [j \in LessonJar |-> 0]] /\ admin = {}
  /\ listed = [t \in Thread |-> {}] /\ raced = {} /\ settled = None

-----------------------------------------------------------------------------
(* The loads.                                                              *)

(* The class loader gets the jars of the first load, and no others.        *)
CopyJars ==
  /\ alreadyLoaded' = TRUE
  /\ known' = IF alreadyLoaded THEN known ELSE Present

(* A load begins: lessons.clear(), then copyJars.                          *)
BeginLoad(t, kind, c) ==
  /\ ~Busy(t)
  /\ ~Working(t)   (* bound: a thread waits for the jobs it left behind    *)
  /\ CopyJars
  /\ load' = [s \in Thread |->
       IF s = t THEN Load("clean", kind, c, {}, Quiet) ELSE Disturbed(load[s])]
  /\ lessons' = [d \in Thread |-> IF d = c THEN [j \in LessonJar |-> 0] ELSE lessons[d]]
  /\ admin' = admin \ {c}
  /\ raced' = IF \E s \in Thread : Busy(s) /\ load[s].course = c THEN raced \cup {c} ELSE raced \ {c}
  /\ settled' = None
  /\ UNCHANGED <<dir, disk, cache, job, session, listed>>

Startup(t) == ~alreadyLoaded /\ BeginLoad(t, "startup", None)

(* The session has no WebSession yet: one is made, with a course.          *)
Login(t) == Up /\ session = None /\ BeginLoad(t, "login", t)

Reload(t) == Up /\ session # None /\ BeginLoad(t, "reload", session)

(* Delete the labels, list the jars, submit a job for each of them.        *)
Clean(t) ==
  /\ load[t].at = "clean"
  /\ i18n' = FALSE /\ labels' = {}
  /\ job' = [job EXCEPT ![t] =
       [j \in Jar |-> IF j \in Present THEN Job("queued", {}, "none") ELSE NoJob]]
  /\ load' = [load EXCEPT ![t] = Load("wait", @.kind, @.course, {}, @.alone)]
  /\ listed' = [c \in Thread |-> IF c = load[t].course THEN Present \cap LessonJar ELSE listed[c]]
  /\ UNCHANGED <<dir, loader, file, cache, courses, raced, settled>>

(* Nobody asks for the outcome of a job whose load is over.                *)
Forget(t) ==
  job' = [job EXCEPT ![t] = [j \in Jar |-> IF job[t][j].at \in Ended THEN NoJob ELSE job[t][j]]]

Got(t, plugins) ==
  /\ load' = [load EXCEPT ![t] = IF @.kind = "startup" THEN Idle
                                 ELSE Load("add", @.kind, @.course, plugins, @.alone)]
  /\ Forget(t)

CollectKeepsCache(t) ==
  /\ load[t].at = "wait"
  /\ \A j \in Jar : job[t][j].at \in {"none", "ok"}
  /\ Got(t, {j \in LessonJar : job[t][j].at = "ok"})
  /\ UNCHANGED <<dir, loader, disk, cache, courses, history>>

(* Every job has delivered its plugin: LabelProvider starts over.          *)
Collect(t) ==
  /\ load[t].at = "wait"
  /\ \A j \in Jar : job[t][j].at \in {"none", "ok"}
  /\ cache' = None
  /\ Got(t, {j \in LessonJar : job[t][j].at = "ok"})
  /\ UNCHANGED <<dir, loader, disk, courses, history>>

AbortKeepsPlugins(t) ==
  /\ load[t].at = "wait"
  /\ \E j \in Jar : job[t][j].at = "failed"
  /\ Got(t, {j \in LessonJar : job[t][j].at = "ok"})
  /\ UNCHANGED <<dir, loader, disk, cache, courses, history>>

(* One job failed: the plugins collected so far are dropped, the other     *)
(* jobs go on, and the labels stay as they were read.                      *)
Abort(t) ==
  /\ load[t].at = "wait"
  /\ \E j \in Jar : job[t][j].at = "failed"
  /\ Got(t, {})
  /\ UNCHANGED <<dir, loader, disk, cache, courses, history>>

OneMore(course, j) == [course EXCEPT ![j] = @ + 1]

(* One lesson is put into the course.                                      *)
Add(t, j) ==
  /\ load[t].at = "add"
  /\ j \in load[t].plugins
  /\ lessons' = [lessons EXCEPT ![load[t].course] = OneMore(@, j)]
  /\ load' = [load EXCEPT ![t] = Load("add", @.kind, @.course, @.plugins \ {j}, @.alone)]
  /\ UNCHANGED <<dir, loader, disk, cache, job, session, admin, history>>

(* A login adds the lessons of LegacyLoader and shows the session; a       *)
(* reload only answers.                                                    *)
Finish(t) ==
  /\ load[t].at = "add"
  /\ load[t].plugins = {}
  /\ IF load[t].kind = "login" THEN admin' = admin \cup {t} /\ session' = t
                               ELSE UNCHANGED <<admin, session>>
  /\ load' = [load EXCEPT ![t] = Idle]
  /\ settled' = IF load[t].alone THEN load[t].course ELSE None
  /\ UNCHANGED <<dir, loader, disk, cache, job, lessons, listed, raced>>

-----------------------------------------------------------------------------
(* A job: PluginExtractor.extractJarFile of one jar.                       *)

Step(t, j, r) == job' = [job EXCEPT ![t] = [@ EXCEPT ![j] = r]]

End(t, j, outcome) ==
  Step(t, j, IF load[t].at = "wait" THEN Job(outcome, {}, "none") ELSE NoJob)

JobOnly == UNCHANGED <<dir, loader, cache, load, courses, history>>

Entries(j) == {e \in {"labels", "file"} : IF e = "labels" THEN j \in LabelJar ELSE j \in LessonJar}

(* The finally of extractJarFile: the classes have to be found, and the    *)
(* source of the lesson has to be there to have its paths rewritten.       *)
Finally(t, j, todo) ==
  IF j \notin known THEN End(t, j, "failed")
  ELSE IF j \notin LessonJar THEN End(t, j, "ok")
  ELSE IF "file" \in todo THEN End(t, j, "failed")
  ELSE Step(t, j, Job("rewrite", todo, "none"))

(* The next entry of the jar, in any order; finally after the last.        *)
NextEntry(t, j, todo) ==
  IF todo = {} THEN Finally(t, j, {}) ELSE Step(t, j, Job("entries", todo, "none"))

OpenJarUnchecked(t, j) ==
  /\ job[t][j].at = "queued"
  /\ IF source[j] # "absent" THEN NextEntry(t, j, Entries(j)) ELSE End(t, j, "failed")
  /\ UNCHANGED disk /\ JobOnly

(* A jar that is being copied, or is gone, is no zip file.                 *)
OpenJar(t, j) ==
  /\ job[t][j].at = "queued"
  /\ IF source[j] = "whole" THEN NextEntry(t, j, Entries(j)) ELSE End(t, j, "failed")
  /\ UNCHANGED disk /\ JobOnly

(* createParentDirs                                                        *)
MakeDirs(t, j) ==
  /\ job[t][j].at = "entries" /\ "labels" \in job[t][j].todo
  /\ i18n' = TRUE
  /\ Step(t, j, Job("append", job[t][j].todo, "none"))
  /\ UNCHANGED <<labels, file>> /\ JobOnly

AppendLabelsUnchecked(t, j) ==
  /\ job[t][j].at = "append"
  /\ labels' = labels \cup {j}
  /\ NextEntry(t, j, job[t][j].todo \ {"labels"})
  /\ UNCHANGED <<i18n, file>> /\ JobOnly

(* Fails when the directory has been deleted in between.                   *)
AppendLabels(t, j) ==
  /\ job[t][j].at = "append"
  /\ IF i18n THEN labels' = labels \cup {j} /\ NextEntry(t, j, job[t][j].todo \ {"labels"})
             ELSE UNCHANGED labels /\ Finally(t, j, job[t][j].todo)
  /\ UNCHANGED <<i18n, file>> /\ JobOnly

(* Another entry of the jar is written over the file of the last load.     *)
(* To read a file while it is copied has the outcomes of reading it while  *)
(* it is rewritten; so has the deletion of an open label file those of its *)
(* deletion later on.                                                      *)
CopyFile(t, j) ==
  /\ job[t][j].at = "entries" /\ "file" \in job[t][j].todo
  /\ file' = [file EXCEPT ![j] = "raw"]
  /\ NextEntry(t, j, job[t][j].todo \ {"file"})
  /\ UNCHANGED <<i18n, labels>> /\ JobOnly

(* replaceInFile reads the file, empties it and writes it again.           *)
ReadFile(t, j) ==
  /\ job[t][j].at = "rewrite"
  /\ file' = [file EXCEPT ![j] = "torn"]
  /\ Step(t, j, Job("write", job[t][j].todo, file[j]))
  /\ UNCHANGED <<i18n, labels>> /\ JobOnly

(* The new path has the old one in it: a second pass spoils the first.     *)
Rewritten(c) == IF c = "raw" THEN "good" ELSE IF c = "good" THEN "twice" ELSE c

(* An error on an entry comes back at the end of the finally.              *)
WriteFile(t, j) ==
  /\ job[t][j].at = "write"
  /\ file' = [file EXCEPT ![j] = Rewritten(job[t][j].read)]
  /\ End(t, j, IF job[t][j].todo = {} THEN "ok" ELSE "failed")
  /\ UNCHANGED <<i18n, labels>> /\ JobOnly

-----------------------------------------------------------------------------
(* Everybody else.                                                         *)

(* LabelProvider.get: the file is read once after clearCache.              *)
LookUpLabel ==
  /\ Up /\ cache = None
  /\ cache' = labels
  /\ UNCHANGED <<dir, loader, disk, load, job, courses, history>>

(* Somebody copies a jar into plugin_lessons, or deletes one.              *)
ChangeJar(j) ==
  /\ Up /\ changes < MaxChanges
  /\ source' = [source EXCEPT ![j] =
       IF @ = "absent" THEN "partial" ELSE IF @ = "partial" THEN "whole" ELSE "absent"]
  /\ changes' = changes + 1
  /\ load' = [t \in Thread |-> Disturbed(load[t])]
  /\ settled' = None
  /\ UNCHANGED <<loader, disk, cache, job, courses, listed, raced>>

LoadStep(t) == Clean(t) \/ Collect(t) \/ Abort(t) \/ Finish(t) \/ \E j \in LessonJar : Add(t, j)

JobStep(t, j) ==
  \/ OpenJar(t, j) \/ MakeDirs(t, j) \/ AppendLabels(t, j)
  \/ CopyFile(t, j) \/ ReadFile(t, j) \/ WriteFile(t, j)

Next ==
  \/ \E t \in Thread : Startup(t) \/ Login(t) \/ Reload(t) \/ LoadStep(t)
  \/ \E t \in Thread, j \in Jar : JobStep(t, j)
  \/ \E j \in Jar : ChangeJar(j)
  \/ LookUpLabel

Spec == Init /\ [][Next]_vars

-----------------------------------------------------------------------------
(* Properties.                                                             *)

Held(c) == {j \in LessonJar : lessons[c][j] > 0}

(* The whole load fails with its first bad jar.                            *)
Loadable == \A j \in Present : source[j] = "whole" /\ j \in known

(* A load that ran alone, whatever had gone wrong before it, leaves the    *)
(* course with each lesson once if every jar can be loaded, and with no    *)
(* lesson of a jar otherwise.                                              *)
LoneLoadIsExact ==
  settled # None =>
    \A j \in LessonJar : lessons[settled][j] = IF Loadable /\ j \in Present THEN 1 ELSE 0

(* A load that ran alone over good jars repairs the directory: the paths   *)
(* of every lesson are rewritten exactly once, and lookups find the labels *)
(* of every lesson.                                                        *)
LoneLoadRepairs ==
  settled # None /\ Loadable =>
    /\ \A j \in LessonJar \cap Present : file[j] = "good"
    /\ labels = LabelJar \cap Present
    /\ cache \in {None, labels}

(* Loads of different courses, failing jars and jobs left behind may cost  *)
(* a course all its lessons, but never some of them and never double any:  *)
(* that takes two loads of the same course.                                *)
AllOrNothing ==
  \A c \in Thread \ raced :
    (\A t \in Thread : Busy(t) /\ load[t].course = c => load[t].at = "add" /\ load[t].plugins = {})
      => /\ Held(c) \in {{}, listed[c]}
         /\ \A j \in LessonJar : lessons[c][j] <= 1
=============================================================================
