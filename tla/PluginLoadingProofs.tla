------------------------- MODULE PluginLoadingProofs -------------------------
(* Proofs about PluginLoading, for any number of jars, threads and changes *)
(* of the plugin directory.                                                *)
EXTENDS PluginLoading, FiniteSetTheorems, TLAPS

Source == {"absent", "partial", "whole"}
LoadRecord == [at : {"idle", "clean", "wait", "add"}, alone : BOOLEAN,
               kind : {"none", "startup", "login", "reload"},
               course : Thread \cup {None}, plugins : SUBSET LessonJar]
JobRecord  == [at : Ended \cup {"queued", "entries", "append", "rewrite", "write"},
               todo : SUBSET {"labels", "file"}, read : Content]

(* The types the proofs need: all but the bound on the copies of a lesson. *)
Types ==
  /\ source \in [Jar -> Source] /\ known \subseteq Jar
  /\ load \in [Thread -> LoadRecord]
  /\ job \in [Thread -> [Jar -> JobRecord]]
  /\ file \in [LessonJar -> Content]
  /\ \A t \in Thread, j \in Jar : job[t][j].at = "rewrite" => j \in LessonJar
  /\ lessons \in [Thread -> [LessonJar -> Nat]]
  /\ listed \in [Thread -> SUBSET LessonJar]
  /\ session \in Thread \cup {None} /\ settled \in Thread \cup {None}
  /\ raced \subseteq Thread

(* Only the load at the start is not for a course, and it adds nothing; no  *)
(* load has begun before it.                                               *)
Adding ==
  \A t \in Thread : Busy(t) =>
    /\ alreadyLoaded
    /\ load[t].course = None <=> load[t].kind = "startup"
    /\ load[t].at = "add" => load[t].kind # "startup"

(* While a load is alone, nobody else does anything to the directory.      *)
Alone ==
  \A t, s \in Thread : Busy(t) /\ load[t].alone /\ s # t => ~Busy(s) /\ ~Working(s)

(* A load waits for a job of every jar it listed.                          *)
Waiting ==
  \A t \in Thread : load[t].at = "wait" =>
    /\ load[t].course \in Thread \ raced =>
         \A j \in LessonJar : job[t][j].at # "none" <=> j \in listed[load[t].course]
    /\ load[t].alone => \A j \in Jar : job[t][j].at # "none" <=> j \in Present

(* What the jobs of a load that runs alone know.                           *)
Outcome(t, j) ==
  /\ job[t][j].at \in {"entries", "append", "rewrite", "write", "ok"} => source[j] = "whole"
  /\ job[t][j].at \in {"rewrite", "write", "ok"} => j \in known
  /\ job[t][j].at \in {"rewrite", "write"} => job[t][j].todo = {}
  /\ job[t][j].at = "append" => i18n
  /\ job[t][j].at = "failed" => source[j] # "whole" \/ j \notin known

Outcomes ==
  \A t \in Thread, j \in Jar : load[t].at = "wait" /\ load[t].alone => Outcome(t, j)

Wanted(j) == Loadable /\ j \in Present

(* A load that runs alone fills its course with what is wanted.            *)
Filling ==
  \A t \in Thread : Busy(t) /\ load[t].alone /\ load[t].course \in Thread =>
    \A j \in LessonJar :
      /\ load[t].at # "add" => lessons[load[t].course][j] = 0
      /\ load[t].at = "add" =>
           /\ j \in load[t].plugins => Wanted(j)
           /\ lessons[load[t].course][j] = IF Wanted(j) /\ j \notin load[t].plugins THEN 1 ELSE 0

Settled ==
  settled # None =>
    /\ \A t \in Thread : ~Busy(t)
    /\ \A j \in LessonJar : lessons[settled][j] = IF Wanted(j) THEN 1 ELSE 0

(* Loads of one course that overlap are noticed.                           *)
Overlap ==
  \A t, s \in Thread :
    Busy(t) /\ Busy(s) /\ s # t /\ load[t].course = load[s].course /\ load[t].course \in Thread
      => load[t].course \in raced

(* A course and the plugins still to be added make up all or nothing.      *)
Whole(course, all, rest) ==
  /\ \A j \in LessonJar : course[j] = 0 \/ (course[j] = 1 /\ j \notin rest)
  /\ {j \in LessonJar : course[j] > 0} \cup rest \in {{}, all}

Empty(course) == \A j \in LessonJar : course[j] = 0

AtRest(c) == (\A t \in Thread : Busy(t) => load[t].course # c) => Whole(lessons[c], listed[c], {})

Loading(c, t) ==
  Busy(t) /\ load[t].course = c =>
    /\ load[t].at # "add" => Empty(lessons[c])
    /\ load[t].at = "add" => Whole(lessons[c], listed[c], load[t].plugins)

Courses == \A c \in Thread \ raced : AtRest(c) /\ \A t \in Thread : Loading(c, t)

LoadInv ==
  Types /\ Adding /\ Alone /\ Waiting /\ Outcomes /\ Filling /\ Settled /\ Overlap /\ Courses

-----------------------------------------------------------------------------
(* What every step of a job has in common.                                 *)
Possible(t, j, r) ==
  /\ load[t].at = "wait" => r.at # "none"
  /\ r.at = "rewrite" => j \in LessonJar

LEMMA JobShape ==
  ASSUME Types, NEW t \in Thread, NEW j \in Jar, JobStep(t, j)
  PROVE  /\ JobOnly
         /\ job[t][j].at \notin Ended
         /\ \E r \in JobRecord : Step(t, j, r) /\ Possible(t, j, r)
<1> DEFINE At == Ended \cup {"queued", "entries", "append", "rewrite", "write"}
           Shape == \E r \in JobRecord : Step(t, j, r) /\ Possible(t, j, r)
<1>1. job[t][j] \in JobRecord
  BY DEF Types
<1>2. JobOnly
  BY DEF JobStep, OpenJar, MakeDirs, AppendLabels, CopyFile, ReadFile, WriteFile
<1>3. job[t][j].at \notin Ended
  BY DEF JobStep, OpenJar, MakeDirs, AppendLabels, CopyFile, ReadFile, WriteFile, Ended
<1>4. ASSUME NEW at \in At \ {"none"}, NEW todo \in SUBSET {"labels", "file"}, NEW c \in Content,
             at = "rewrite" => j \in LessonJar, Step(t, j, Job(at, todo, c))
      PROVE  Shape
  <2>1. Job(at, todo, c) \in JobRecord
    BY DEF Job, JobRecord
  <2>2. Possible(t, j, Job(at, todo, c))
    BY <1>4 DEF Possible, Job
  <2>. QED
    BY <1>4, <2>1, <2>2
<1>5. "none" \in Content /\ {} \in SUBSET {"labels", "file"}
  BY DEF Content
<1>6. ASSUME NEW o \in {"ok", "failed"}, End(t, j, o)
      PROVE  Shape
  <2>1. CASE load[t].at = "wait"
    BY <1>4, <1>5, <1>6, <2>1 DEF End, Ended
  <2>2. CASE load[t].at # "wait"
    <3>1. NoJob \in JobRecord
      BY DEF NoJob, Job, JobRecord, Ended, Content
    <3>2. Possible(t, j, NoJob)
      BY <2>2 DEF Possible, NoJob, Job
    <3>. QED
      BY <1>6, <2>2, <3>1, <3>2 DEF End
  <2>. QED
    BY <2>1, <2>2
<1>7. ASSUME NEW todo \in SUBSET {"labels", "file"}, Finally(t, j, todo)
      PROVE  Shape
  BY <1>4, <1>5, <1>6, <1>7 DEF Finally
<1>8. ASSUME NEW todo \in SUBSET {"labels", "file"}, NextEntry(t, j, todo)
      PROVE  Shape
  BY <1>4, <1>5, <1>7, <1>8 DEF NextEntry
<1>9. job[t][j].todo \in SUBSET {"labels", "file"}
  BY <1>1 DEF JobRecord
<1>10. Shape
  <2>1. CASE OpenJar(t, j)
    BY <2>1, <1>6, <1>8 DEF OpenJar, Entries
  <2>2. CASE MakeDirs(t, j)
    BY <2>2, <1>4, <1>5, <1>9 DEF MakeDirs
  <2>3. CASE AppendLabels(t, j)
    BY <2>3, <1>7, <1>8, <1>9 DEF AppendLabels
  <2>4. CASE CopyFile(t, j)
    BY <2>4, <1>8, <1>9 DEF CopyFile
  <2>5. CASE ReadFile(t, j)
    <3>1. j \in LessonJar /\ file[j] \in Content
      BY <2>5 DEF ReadFile, Types
    <3>. QED
      BY <2>5, <3>1, <1>4, <1>9 DEF ReadFile
  <2>6. CASE WriteFile(t, j)
    BY <2>6, <1>6 DEF WriteFile
  <2>. QED
    BY <2>1, <2>2, <2>3, <2>4, <2>5, <2>6 DEF JobStep
<1>. QED
  BY <1>2, <1>3, <1>10

-----------------------------------------------------------------------------
(* Types.                                                                  *)
LEMMA LoadTyped ==
  ASSUME NEW at \in {"idle", "clean", "wait", "add"},
         NEW kind \in {"none", "startup", "login", "reload"},
         NEW c \in Thread \cup {None}, NEW p \in SUBSET LessonJar, NEW alone \in BOOLEAN
  PROVE  Load(at, kind, c, p, alone) \in LoadRecord
BY DEF Load, LoadRecord

LEMMA LoadFields ==
  ASSUME NEW r \in LoadRecord
  PROVE  /\ r.at \in {"idle", "clean", "wait", "add"}
         /\ r.kind \in {"none", "startup", "login", "reload"}
         /\ r.course \in Thread \cup {None} /\ r.plugins \in SUBSET LessonJar
         /\ r.alone \in BOOLEAN
         /\ Disturbed(r) \in LoadRecord
<1>1. /\ r.at \in {"idle", "clean", "wait", "add"}
      /\ r.kind \in {"none", "startup", "login", "reload"}
      /\ r.course \in Thread \cup {None} /\ r.plugins \in SUBSET LessonJar
      /\ r.alone \in BOOLEAN
  BY DEF LoadRecord
<1>2. Disturbed(r) \in LoadRecord
  <2>1. FALSE \in BOOLEAN
    OBVIOUS
  <2>. QED
    BY <1>1, <2>1, LoadTyped DEF Disturbed
<1>. QED
  BY <1>1, <1>2

LEMMA TypesInit == Init => Types
<1> SUFFICES ASSUME Init PROVE Types
  OBVIOUS
<1>1. NoJob \in JobRecord /\ NoJob.at = "none"
  BY DEF NoJob, Job, JobRecord, Ended, Content
<1>2. Idle \in LoadRecord
  BY LoadTyped DEF Idle
<1>3. 0 \in Nat /\ "none" \in Content
  BY DEF Content
<1>. QED
  BY <1>1, <1>2, <1>3 DEF Init, Types, Source

LEMMA TypesStep ==
  ASSUME Types, Adding, Next
  PROVE  Types'
<1> USE DEF Types
<1>1. NoJob \in JobRecord /\ Idle \in LoadRecord /\ NoJob.at = "none"
  <2>1. NoJob \in JobRecord /\ NoJob.at = "none"
    BY DEF NoJob, Job, JobRecord, Ended, Content
  <2>2. Idle \in LoadRecord
    BY LoadTyped DEF Idle
  <2>. QED
    BY <2>1, <2>2
<1>2. ASSUME NEW t \in Thread, NEW kind \in {"startup", "login", "reload"},
             NEW c \in Thread \cup {None}, c = None => ~alreadyLoaded, BeginLoad(t, kind, c)
      PROVE  Types'
  <2>1. load' \in [Thread -> LoadRecord]
    <3>1. Quiet \in BOOLEAN
      BY DEF Quiet
    <3>2. Load("clean", kind, c, {}, Quiet) \in LoadRecord
      BY <3>1, LoadTyped
    <3>3. \A s \in Thread : Disturbed(load[s]) \in LoadRecord
      BY LoadFields
    <3>. QED
      BY <1>2, <3>2, <3>3 DEF BeginLoad
  <2>2. known' \subseteq Jar
    BY <1>2 DEF BeginLoad, CopyJars, Present
  <2>3. lessons' \in [Thread -> [LessonJar -> Nat]]
    BY <1>2 DEF BeginLoad
  <2>4. raced' \subseteq Thread
    <3>1. CASE c = None
      BY <1>2, <3>1 DEF BeginLoad, Adding
    <3>2. CASE c \in Thread
      BY <1>2, <3>2 DEF BeginLoad
    <3>. QED
      BY <3>1, <3>2
  <2>5. settled' = None /\ UNCHANGED <<source, job, file, listed, session>>
    BY <1>2 DEF BeginLoad, dir, disk
  <2>. QED
    BY <2>1, <2>2, <2>3, <2>4, <2>5
<1>3. ASSUME NEW t \in Thread, Clean(t)
      PROVE  Types'
  <2>1. load' \in [Thread -> LoadRecord]
    <3>1. load[t] \in LoadRecord
      OBVIOUS
    <3>2. Load("wait", load[t].kind, load[t].course, {}, load[t].alone) \in LoadRecord
      BY <3>1, LoadFields, LoadTyped
    <3>. QED
      BY <1>3, <3>2 DEF Clean
  <2>2. job' \in [Thread -> [Jar -> JobRecord]]
    <3>1. Job("queued", {}, "none") \in JobRecord
      BY DEF Job, JobRecord, Content
    <3>. QED
      BY <1>3, <1>1, <3>1 DEF Clean
  <2>3. \A s \in Thread, j \in Jar : job'[s][j].at = "rewrite" => j \in LessonJar
    BY <1>3 DEF Clean, Job, NoJob
  <2>4. listed' \in [Thread -> SUBSET LessonJar]
    BY <1>3 DEF Clean
  <2>5. UNCHANGED <<source, known, file, lessons, session, settled, raced>>
    BY <1>3 DEF Clean, dir, loader, courses
  <2>. QED
    BY <2>1, <2>2, <2>3, <2>4, <2>5
<1>4. ASSUME NEW t \in Thread, NEW plugins \in SUBSET LessonJar, load[t].at = "wait", Got(t, plugins),
             UNCHANGED <<dir, loader, disk, courses, history>>
      PROVE  Types'
  <2>1. Load("add", load[t].kind, load[t].course, plugins, load[t].alone) \in LoadRecord
    <3>1. load[t] \in LoadRecord
      OBVIOUS
    <3>. QED
      BY <3>1, LoadFields, LoadTyped
  <2>2. load' \in [Thread -> LoadRecord]
    BY <1>1, <1>4, <2>1 DEF Got
  <2>3. job' \in [Thread -> [Jar -> JobRecord]]
    BY <1>1, <1>4 DEF Got, Forget
  <2>4. \A s \in Thread, j \in Jar : job'[s][j].at = "rewrite" => j \in LessonJar
    BY <1>1, <1>4 DEF Got, Forget
  <2>. QED
    BY <1>4, <2>2, <2>3, <2>4 DEF dir, loader, disk, courses, history
<1>5. ASSUME NEW t \in Thread, NEW j \in LessonJar, Add(t, j)
      PROVE  Types'
  <2>1. load' \in [Thread -> LoadRecord]
    <3>1. load[t] \in LoadRecord
      OBVIOUS
    <3>2. load[t].plugins \ {j} \in SUBSET LessonJar
      BY <3>1, LoadFields
    <3>3. Load("add", load[t].kind, load[t].course, load[t].plugins \ {j}, load[t].alone) \in LoadRecord
      BY <3>1, <3>2, LoadFields, LoadTyped
    <3>. QED
      BY <1>5, <3>3 DEF Add
  <2>2. load[t].course \in Thread
    BY <1>5, LoadFields DEF Add, Adding, Busy
  <2>3. lessons' \in [Thread -> [LessonJar -> Nat]]
    <3>1. OneMore(lessons[load[t].course], j) \in [LessonJar -> Nat]
      BY <2>2 DEF OneMore
    <3>. QED
      BY <1>5, <2>2, <3>1 DEF Add
  <2>4. UNCHANGED <<source, known, job, file, listed, session, settled, raced>>
    BY <1>5 DEF Add, dir, loader, disk, history
  <2>. QED
    BY <2>1, <2>3, <2>4
<1>6. ASSUME NEW t \in Thread, Finish(t)
      PROVE  Types'
  <2>1. load' \in [Thread -> LoadRecord]
    BY <1>1, <1>6 DEF Finish
  <2>2. session' \in Thread \cup {None} /\ settled' \in Thread \cup {None}
    <3>1. load[t].course \in Thread \cup {None}
      BY LoadFields
    <3>. QED
      BY <1>6, <3>1 DEF Finish
  <2>3. UNCHANGED <<source, known, job, file, lessons, listed, raced>>
    BY <1>6 DEF Finish, dir, loader, disk
  <2>. QED
    BY <2>1, <2>2, <2>3
<1>7. ASSUME NEW t \in Thread, NEW j \in Jar, JobStep(t, j)
      PROVE  Types'
  <2>1. PICK r \in JobRecord : Step(t, j, r) /\ Possible(t, j, r)
    BY <1>7, JobShape
  <2>2. job' \in [Thread -> [Jar -> JobRecord]]
    BY <2>1 DEF Step
  <2>3. \A s \in Thread, i \in Jar : job'[s][i].at = "rewrite" => i \in LessonJar
    BY <2>1 DEF Step, Possible
  <2>4. UNCHANGED <<source, known, load, lessons, session, listed, settled, raced>>
    BY <1>7, JobShape DEF JobOnly, dir, loader, courses, history
  <2>5. file' \in [LessonJar -> Content]
    <3>1. job[t][j].read \in Content
      BY DEF JobRecord
    <3>2. Rewritten(job[t][j].read) \in Content
      BY <3>1 DEF Rewritten, Content
    <3>3. "raw" \in Content /\ "torn" \in Content
      BY DEF Content
    <3>. QED
      BY <1>7, <3>2, <3>3 DEF JobStep, OpenJar, MakeDirs, AppendLabels, CopyFile, ReadFile, WriteFile, disk
  <2>. QED
    BY <2>2, <2>3, <2>4, <2>5
<1>8. ASSUME NEW j \in Jar, ChangeJar(j)
      PROVE  Types'
  <2>1. load' \in [Thread -> LoadRecord]
    <3>1. \A s \in Thread : Disturbed(load[s]) \in LoadRecord
      BY LoadFields
    <3>. QED
      BY <1>8, <3>1 DEF ChangeJar
  <2>2. source' \in [Jar -> Source]
    BY <1>8 DEF ChangeJar, Source
  <2>3. settled' = None /\ UNCHANGED <<known, job, file, lessons, session, listed, raced>>
    BY <1>8 DEF ChangeJar, loader, disk, courses
  <2>. QED
    BY <2>1, <2>2, <2>3
<1>9. ASSUME LookUpLabel
      PROVE  Types'
  BY <1>9 DEF LookUpLabel, dir, loader, disk, courses, history
<1>10. ASSUME NEW t \in Thread, Startup(t) \/ Login(t) \/ Reload(t)
      PROVE  Types'
  <2>1. CASE Startup(t)
    BY <1>2, <2>1 DEF Startup
  <2>2. CASE Login(t)
    BY <1>2, <2>2, NoneAssumption DEF Login
  <2>3. CASE Reload(t)
    BY <1>2, <2>3 DEF Reload
  <2>. QED
    BY <1>10, <2>1, <2>2, <2>3
<1>11. ASSUME NEW t \in Thread, LoadStep(t)
       PROVE  Types'
  <2>1. CASE Collect(t)
    BY <1>4, <2>1 DEF Collect
  <2>2. CASE Abort(t)
    BY <1>4, <2>2 DEF Abort
  <2>. QED
    BY <1>3, <1>5, <1>6, <1>11, <2>1, <2>2 DEF LoadStep
<1>. QED
  BY <1>7, <1>8, <1>9, <1>10, <1>11 DEF Next
-----------------------------------------------------------------------------
(* What the steps leave alone.                                             *)

(* A step of a load or of a job changes nothing of the other threads.      *)
LEMMA OwnStep ==
  ASSUME Types, NEW t \in Thread, LoadStep(t) \/ \E j \in Jar : JobStep(t, j)
  PROVE  /\ \A s \in Thread \ {t} : load'[s] = load[s] /\ job'[s] = job[s]
         /\ Busy(t) \/ Working(t)
         /\ load'[t].at # "idle" =>
              /\ Busy(t)
              /\ load'[t].alone = load[t].alone /\ load'[t].kind = load[t].kind
              /\ load'[t].course = load[t].course
         /\ UNCHANGED <<source, known, alreadyLoaded, raced>>
<1> USE DEF Types
<1>1. Idle.at = "idle"
  BY DEF Idle, Load
<1>2. CASE Clean(t)
  BY <1>2 DEF Clean, Load, Busy, dir, loader
<1>3. ASSUME NEW plugins, load[t].at = "wait", Got(t, plugins), UNCHANGED <<dir, loader, history>>
      PROVE  /\ \A s \in Thread \ {t} : load'[s] = load[s] /\ job'[s] = job[s]
             /\ Busy(t)
             /\ load'[t].at # "idle" =>
                  /\ load'[t].alone = load[t].alone /\ load'[t].kind = load[t].kind
                  /\ load'[t].course = load[t].course
             /\ UNCHANGED <<source, known, alreadyLoaded, raced>>
  BY <1>3, <1>1 DEF Got, Forget, Load, Busy, dir, loader, history
<1>4. CASE Collect(t)
  BY <1>3, <1>4 DEF Collect
<1>5. CASE Abort(t)
  BY <1>3, <1>5 DEF Abort
<1>6. CASE Finish(t)
  BY <1>1, <1>6 DEF Finish, Busy, dir, loader
<1>7. CASE \E j \in LessonJar : Add(t, j)
  BY <1>7 DEF Add, Load, Busy, dir, loader, history
<1>8. ASSUME NEW j \in Jar, JobStep(t, j)
      PROVE  /\ \A s \in Thread \ {t} : load'[s] = load[s] /\ job'[s] = job[s]
             /\ Working(t)
             /\ UNCHANGED <<load, source, known, alreadyLoaded, raced>>
  <2>1. JobOnly /\ job[t][j].at \notin Ended /\ \E r \in JobRecord : Step(t, j, r)
    BY <1>8, JobShape
  <2>. QED
    BY <2>1 DEF JobOnly, Step, Working, dir, loader, history
<1>. QED
  BY <1>2, <1>4, <1>5, <1>6, <1>7, <1>8 DEF LoadStep, Busy

(* A load that begins is the first of its thread and disturbs the others.  *)
LEMMA Beginning ==
  ASSUME Types, Adding, NEW t \in Thread, Startup(t) \/ Login(t) \/ Reload(t)
  PROVE  \E kind \in {"startup", "login", "reload"}, c \in Thread \cup {None} :
           /\ BeginLoad(t, kind, c)
           /\ c = None <=> kind = "startup"
           /\ c = None => \A s \in Thread : ~Busy(s)
<1>1. CASE Startup(t)
  BY <1>1 DEF Startup, Adding
<1>2. CASE Login(t)
  BY <1>2, NoneAssumption DEF Login
<1>3. CASE Reload(t)
  BY <1>3 DEF Reload, Types
<1>. QED
  BY <1>1, <1>2, <1>3

LEMMA FirstStep ==
  ASSUME Types, NEW t \in Thread, NEW kind, NEW c, BeginLoad(t, kind, c)
  PROVE  /\ ~Busy(t)
         /\ load'[t].at = "clean" /\ load'[t].kind = kind /\ load'[t].course = c
         /\ load'[t].alone => Quiet
         /\ \A s \in Thread \ {t} :
              /\ ~load'[s].alone
              /\ load'[s].at = load[s].at /\ load'[s].kind = load[s].kind
              /\ load'[s].course = load[s].course /\ load'[s].plugins = load[s].plugins
         /\ alreadyLoaded' /\ settled' = None
         /\ UNCHANGED <<source, job, listed>>
<1>1. ~Busy(t) /\ alreadyLoaded' /\ settled' = None /\ UNCHANGED <<source, job, listed>>
  BY DEF BeginLoad, CopyJars, dir
<1>2. load'[t] = Load("clean", kind, c, {}, Quiet)
  BY DEF BeginLoad
<1>3. /\ load'[t].at = "clean" /\ load'[t].kind = kind /\ load'[t].course = c
      /\ load'[t].alone = Quiet
  BY <1>2 DEF Load
<1>4. \A s \in Thread \ {t} : load'[s] = Disturbed(load[s])
  BY DEF BeginLoad
<1>5. \A s \in Thread \ {t} :
        /\ ~load'[s].alone
        /\ load'[s].at = load[s].at /\ load'[s].kind = load[s].kind
        /\ load'[s].course = load[s].course /\ load'[s].plugins = load[s].plugins
  <2> TAKE s \in Thread \ {t}
  <2>1. load'[s] = Load(load[s].at, load[s].kind, load[s].course, load[s].plugins, FALSE)
    BY <1>4 DEF Disturbed
  <2>. QED
    BY <2>1 DEF Load
<1>. QED
  BY <1>1, <1>3, <1>5

LEMMA JarStep ==
  ASSUME NEW j \in Jar, ChangeJar(j)
  PROVE  /\ \A s \in Thread :
              /\ ~load'[s].alone
              /\ load'[s].at = load[s].at /\ load'[s].kind = load[s].kind
              /\ load'[s].course = load[s].course /\ load'[s].plugins = load[s].plugins
         /\ settled' = None
         /\ UNCHANGED <<known, alreadyLoaded, job, file, lessons, listed, raced>>
BY DEF ChangeJar, Load, Disturbed, loader, disk, courses

-----------------------------------------------------------------------------
(* Who is at work.                                                         *)
LEMMA AddingStep ==
  ASSUME Types, Adding, Next
  PROVE  Adding'
<1> USE DEF Adding, Busy
<1>1. ASSUME NEW t \in Thread, NEW kind \in {"startup", "login", "reload"}, NEW c \in Thread \cup {None},
             BeginLoad(t, kind, c), c = None <=> kind = "startup"
      PROVE  Adding'
  BY <1>1, FirstStep
<1>2. ASSUME NEW t \in Thread, LoadStep(t) \/ \E j \in Jar : JobStep(t, j),
             load'[t].at = "add" => load'[t].kind # "startup"
      PROVE  Adding'
  BY <1>2, OwnStep
<1>3. ASSUME NEW t \in Thread, LoadStep(t)
      PROVE  load'[t].at = "add" => load'[t].kind # "startup"
  <2>1. CASE Clean(t)
    BY <2>1 DEF Clean, Load, Types
  <2>2. ASSUME NEW plugins, Got(t, plugins)
        PROVE  load'[t].at = "add" => load'[t].kind # "startup"
    BY <2>2 DEF Got, Load, Types, Idle
  <2>3. CASE Collect(t)
    BY <2>2, <2>3 DEF Collect
  <2>4. CASE Abort(t)
    BY <2>2, <2>4 DEF Abort
  <2>5. CASE Finish(t)
    BY <2>5 DEF Finish, Load, Types, Idle
  <2>6. CASE \E j \in LessonJar : Add(t, j)
    BY <2>6 DEF Add, Load, Types
  <2>. QED
    BY <1>3, <2>1, <2>3, <2>4, <2>5, <2>6 DEF LoadStep
<1>4. ASSUME NEW t \in Thread, NEW j \in Jar, JobStep(t, j)
      PROVE  load'[t].at = "add" => load'[t].kind # "startup"
  BY <1>4, JobShape DEF JobOnly
<1>5. ASSUME NEW j \in Jar, ChangeJar(j)
      PROVE  Adding'
  BY <1>5, JarStep
<1>6. CASE LookUpLabel
  BY <1>6 DEF LookUpLabel, loader
<1>. QED
  BY <1>1, <1>2, <1>3, <1>4, <1>5, <1>6, Beginning DEF Next

LEMMA AloneStep ==
  ASSUME Types, Adding, Alone, Next
  PROVE  Alone'
<1>1. ASSUME NEW t \in Thread, NEW kind, NEW c, BeginLoad(t, kind, c)
      PROVE  Alone'
  BY <1>1, FirstStep DEF Alone, Busy, Working, Quiet
<1>2. ASSUME NEW t \in Thread, LoadStep(t) \/ \E j \in Jar : JobStep(t, j)
      PROVE  Alone'
  BY <1>2, OwnStep DEF Alone, Busy, Working
<1>3. ASSUME NEW j \in Jar, ChangeJar(j)
      PROVE  Alone'
  BY <1>3, JarStep DEF Alone
<1>4. CASE LookUpLabel
  BY <1>4 DEF LookUpLabel, Alone, Busy, Working
<1>. QED
  BY <1>1, <1>2, <1>3, <1>4, Beginning DEF Next

LEMMA OverlapStep ==
  ASSUME Types, Adding, Overlap, Next
  PROVE  Overlap'
<1>1. ASSUME NEW t \in Thread, NEW kind, NEW c, BeginLoad(t, kind, c)
      PROVE  Overlap'
  <2>1. raced' = IF \E s \in Thread : Busy(s) /\ load[s].course = c THEN raced \cup {c} ELSE raced \ {c}
    BY <1>1 DEF BeginLoad
  <2>. QED
    BY <1>1, <2>1, FirstStep DEF Overlap, Busy
<1>2. ASSUME NEW t \in Thread, LoadStep(t) \/ \E j \in Jar : JobStep(t, j)
      PROVE  Overlap'
  BY <1>2, OwnStep DEF Overlap, Busy
<1>3. ASSUME NEW j \in Jar, ChangeJar(j)
      PROVE  Overlap'
  BY <1>3, JarStep DEF Overlap, Busy
<1>4. CASE LookUpLabel
  BY <1>4 DEF LookUpLabel, Overlap, Busy, history
<1>. QED
  BY <1>1, <1>2, <1>3, <1>4, Beginning DEF Next
-----------------------------------------------------------------------------
(* What a load waits for, and what its jobs know.                          *)
LEMMA WaitingStep ==
  ASSUME Types, Adding, Alone, Overlap, Waiting, Next
  PROVE  Waiting'
<1>1. ASSUME NEW t \in Thread, NEW kind, NEW c, BeginLoad(t, kind, c)
      PROVE  Waiting'
  <2>1. raced' = IF \E s \in Thread : Busy(s) /\ load[s].course = c THEN raced \cup {c} ELSE raced \ {c}
    BY <1>1 DEF BeginLoad
  <2>. QED
    BY <1>1, <2>1, FirstStep DEF Waiting, Busy
<1>2. ASSUME NEW t \in Thread, LoadStep(t) \/ \E j \in Jar : JobStep(t, j),
             NEW s \in Thread \ {t}, load'[s].at = "wait", UNCHANGED listed \/ Clean(t)
      PROVE  /\ load'[s].course \in Thread \ raced' =>
                  \A j \in LessonJar : job'[s][j].at # "none" <=> j \in listed'[load'[s].course]
             /\ ~load'[s].alone
  <2>1. /\ load'[s] = load[s] /\ job'[s] = job[s] /\ raced' = raced
        /\ Busy(t) \/ Working(t)
    BY <1>2, OwnStep
  <2>2. ~load[s].alone
    BY <1>2, <2>1 DEF Alone, Busy
  <2>3. load[s].course \in Thread \ raced => listed'[load[s].course] = listed[load[s].course]
    BY <1>2, <2>1 DEF Clean, Overlap, Busy, Types
  <2>. QED
    BY <1>2, <2>1, <2>2, <2>3 DEF Waiting
<1>3. ASSUME NEW t \in Thread, Clean(t)
      PROVE  Waiting'
  <2>1. \A j \in Jar : job'[t][j].at # "none" <=> j \in Present
    BY <1>3 DEF Clean, Job, NoJob, Types
  <2>2. load'[t].course = load[t].course /\ Present' = Present
    BY <1>3 DEF Clean, Load, Types, Present, dir
  <2>3. load[t].course \in Thread => listed'[load[t].course] = Present \cap LessonJar
    BY <1>3 DEF Clean
  <2>. QED
    BY <1>2, <1>3, <2>1, <2>2, <2>3, JarAssumption DEF Waiting, LoadStep
<1>4. ASSUME NEW t \in Thread, LoadStep(t), UNCHANGED listed, load'[t].at # "wait"
      PROVE  Waiting'
  BY <1>2, <1>4 DEF Waiting
<1>5. ASSUME NEW t \in Thread, NEW plugins, Got(t, plugins)
      PROVE  load'[t].at # "wait"
  BY <1>5 DEF Got, Load, Idle, Types
<1>6. ASSUME NEW t \in Thread, Collect(t)
      PROVE  Waiting'
  BY <1>4, <1>5, <1>6 DEF Collect, LoadStep, history
<1>7. ASSUME NEW t \in Thread, Abort(t)
      PROVE  Waiting'
  BY <1>4, <1>5, <1>7 DEF Abort, LoadStep, history
<1>8. ASSUME NEW t \in Thread, NEW j \in LessonJar, Add(t, j)
      PROVE  Waiting'
  BY <1>4, <1>8 DEF Add, LoadStep, Load, Types, history
<1>9. ASSUME NEW t \in Thread, Finish(t)
      PROVE  Waiting'
  BY <1>4, <1>9 DEF Finish, LoadStep, Load, Idle, Types
<1>10. ASSUME NEW t \in Thread, NEW j \in Jar, JobStep(t, j)
       PROVE  Waiting'
  <2>1. PICK r \in JobRecord : Step(t, j, r) /\ Possible(t, j, r)
    BY <1>10, JobShape
  <2>2. job[t][j].at # "none" /\ UNCHANGED <<source, load, listed, raced>>
    BY <1>10, JobShape DEF JobOnly, Ended, dir, history
  <2>3. load[t].at = "wait" => \A i \in Jar : job'[t][i].at # "none" <=> job[t][i].at # "none"
    BY <2>1, <2>2 DEF Step, Possible, Types
  <2>. QED
    BY <1>2, <1>10, <2>2, <2>3, JarAssumption DEF Waiting, Present
<1>11. ASSUME NEW j \in Jar, ChangeJar(j)
       PROVE  Waiting'
  BY <1>11, JarStep DEF Waiting
<1>12. CASE LookUpLabel
  BY <1>12 DEF LookUpLabel, Waiting, Present, dir, history
<1>. QED
  BY <1>1, <1>3, <1>6, <1>7, <1>8, <1>9, <1>10, <1>11, <1>12, Beginning DEF Next, LoadStep
LEMMA OutcomeOfJob ==
  ASSUME Types, NEW t \in Thread, NEW j \in Jar, JobStep(t, j), load[t].at = "wait",
         \A i \in Jar : Outcome(t, i)
  PROVE  \A i \in Jar : Outcome(t, i)'
<1> USE DEF Types
<1>1. UNCHANGED <<source, known>> /\ (i18n => i18n')
  BY JobShape DEF JobOnly, dir, loader, JobStep, OpenJar, MakeDirs, AppendLabels, CopyFile,
                  ReadFile, WriteFile, disk
<1>2. ASSUME NEW i \in Jar \ {j}
      PROVE  Outcome(t, i)'
  <2>1. job'[t][i] = job[t][i]
    BY JobShape DEF Step
  <2>. QED
    BY <1>1, <2>1 DEF Outcome
<1>3. ASSUME NEW at, NEW todo, NEW c, Step(t, j, Job(at, todo, c)),
             at \in {"entries", "append", "rewrite", "write", "ok"} => source[j] = "whole",
             at \in {"rewrite", "write", "ok"} => j \in known,
             at \in {"rewrite", "write"} => todo = {},
             at = "append" => i18n',
             at = "failed" => source[j] # "whole" \/ j \notin known
      PROVE  Outcome(t, j)'
  <2>1. job'[t][j] = Job(at, todo, c)
    BY <1>3 DEF Step
  <2>2. job'[t][j].at = at /\ job'[t][j].todo = todo
    BY <2>1 DEF Job
  <2>. QED
    BY <1>1, <1>3, <2>2 DEF Outcome
<1>4. ASSUME NEW o \in {"ok", "failed"}, End(t, j, o),
             o = "ok" => source[j] = "whole" /\ j \in known,
             o = "failed" => source[j] # "whole" \/ j \notin known
      PROVE  Outcome(t, j)'
  BY <1>3, <1>4 DEF End
<1>5. ASSUME NEW todo, NextEntry(t, j, todo), source[j] = "whole"
      PROVE  Outcome(t, j)'
  <2>1. CASE todo # {}
    <3>1. Step(t, j, Job("entries", todo, "none"))
      BY <1>5, <2>1 DEF NextEntry
    <3>. QED
      BY <1>3, <1>5, <3>1
  <2>2. CASE todo = {} /\ j \notin known
    BY <1>4, <1>5, <2>2 DEF NextEntry, Finally
  <2>3. CASE todo = {} /\ j \in known /\ j \notin LessonJar
    BY <1>4, <1>5, <2>3 DEF NextEntry, Finally
  <2>4. CASE todo = {} /\ j \in known /\ j \in LessonJar
    BY <1>3, <1>5, <2>4, SMTT(30) DEF NextEntry, Finally
  <2>. QED
    BY <2>1, <2>2, <2>3, <2>4
<1>6. Outcome(t, j)'
  <2>1. CASE OpenJar(t, j)
    BY <1>4, <1>5, <2>1 DEF OpenJar
  <2>2. CASE MakeDirs(t, j)
    BY <1>3, <2>2 DEF MakeDirs, Outcome
  <2>3. CASE AppendLabels(t, j)
    BY <1>5, <2>3 DEF AppendLabels, Outcome
  <2>4. CASE CopyFile(t, j)
    BY <1>5, <2>4 DEF CopyFile, Outcome
  <2>5. CASE ReadFile(t, j)
    <3>1. source[j] = "whole" /\ j \in known /\ job[t][j].todo = {}
      BY <2>5 DEF ReadFile, Outcome
    <3>2. Step(t, j, Job("write", {}, file[j]))
      BY <2>5, <3>1 DEF ReadFile
    <3>3. job'[t][j].at = "write" /\ job'[t][j].todo = {}
      BY <3>2 DEF Step, Job
    <3>. QED
      BY <1>1, <3>1, <3>3 DEF Outcome
  <2>6. CASE WriteFile(t, j)
    BY <1>4, <2>6 DEF WriteFile, Outcome
  <2>. QED
    BY <2>1, <2>2, <2>3, <2>4, <2>5, <2>6 DEF JobStep
<1>. QED
  BY <1>2, <1>6

LEMMA OutcomesStep ==
  ASSUME Types, Adding, Alone, Outcomes, Next
  PROVE  Outcomes'
<1>1. ASSUME NEW t \in Thread, NEW kind, NEW c, BeginLoad(t, kind, c)
      PROVE  Outcomes'
  BY <1>1, FirstStep DEF Outcomes
<1>2. ASSUME NEW t \in Thread, LoadStep(t) \/ \E j \in Jar : JobStep(t, j), NEW s \in Thread \ {t}
      PROVE  ~(load'[s].at = "wait" /\ load'[s].alone)
  BY <1>2, OwnStep DEF Alone, Busy
<1>3. ASSUME NEW t \in Thread, LoadStep(t),
             load'[t].at = "wait" => \A j \in Jar : job'[t][j].at \in {"queued", "none"}
      PROVE  Outcomes'
  BY <1>2, <1>3 DEF Outcomes, Outcome
<1>4. ASSUME NEW t \in Thread, Clean(t)
      PROVE  Outcomes'
  <2>1. \A j \in Jar : job'[t][j].at \in {"queued", "none"}
    BY <1>4 DEF Clean, Job, NoJob, Types
  <2>. QED
    BY <1>3, <1>4, <2>1 DEF LoadStep
<1>5. ASSUME NEW t \in Thread, NEW plugins, Got(t, plugins)
      PROVE  load'[t].at # "wait"
  BY <1>5 DEF Got, Load, Idle, Types
<1>6. ASSUME NEW t \in Thread, Collect(t)
      PROVE  Outcomes'
  BY <1>3, <1>5, <1>6 DEF Collect, LoadStep
<1>7. ASSUME NEW t \in Thread, Abort(t)
      PROVE  Outcomes'
  BY <1>3, <1>5, <1>7 DEF Abort, LoadStep
<1>8. ASSUME NEW t \in Thread, NEW j \in LessonJar, Add(t, j)
      PROVE  Outcomes'
  BY <1>3, <1>8 DEF Add, LoadStep, Load, Types
<1>9. ASSUME NEW t \in Thread, Finish(t)
      PROVE  Outcomes'
  BY <1>3, <1>9 DEF Finish, LoadStep, Load, Idle, Types
<1>10. ASSUME NEW t \in Thread, NEW j \in Jar, JobStep(t, j)
       PROVE  Outcomes'
  <2>1. UNCHANGED load
    BY <1>10, JobShape DEF JobOnly
  <2>2. load[t].at = "wait" /\ load[t].alone => \A i \in Jar : Outcome(t, i)'
    BY <1>10, OutcomeOfJob DEF Outcomes
  <2>. QED
    BY <1>2, <1>10, <2>1, <2>2 DEF Outcomes
<1>11. ASSUME NEW j \in Jar, ChangeJar(j)
       PROVE  Outcomes'
  BY <1>11, JarStep DEF Outcomes
<1>12. CASE LookUpLabel
  BY <1>12 DEF LookUpLabel, Outcomes, Outcome, dir, loader, disk
<1>. QED
  BY <1>1, <1>4, <1>6, <1>7, <1>8, <1>9, <1>10, <1>11, <1>12, Beginning DEF Next, LoadStep

-----------------------------------------------------------------------------
(* A load that runs alone is exact.                                        *)
LEMMA FillingStep ==
  ASSUME Types, Adding, Alone, Waiting, Outcomes, Filling, Next
  PROVE  Filling'
<1> USE DEF Types
<1>1. ASSUME NEW t \in Thread, NEW kind, NEW c, BeginLoad(t, kind, c)
      PROVE  Filling'
  <2>1. c \in Thread => \A j \in LessonJar : lessons'[c][j] = 0
    BY <1>1 DEF BeginLoad
  <2>. QED
    BY <1>1, <2>1, FirstStep DEF Filling
<1>2. ASSUME NEW t \in Thread, LoadStep(t) \/ \E j \in Jar : JobStep(t, j), NEW s \in Thread \ {t}
      PROVE  ~(Busy(s)' /\ load'[s].alone)
  BY <1>2, OwnStep, ZenonT(30) DEF Alone, Busy
<1>3. ASSUME NEW t \in Thread, NEW j \in Jar, JobStep(t, j)
      PROVE  Filling'
  <2>1. UNCHANGED <<load, source, known, lessons>>
    BY <1>3, JobShape DEF JobOnly, dir, loader, courses
  <2>. QED
    BY <2>1 DEF Filling, Busy, Wanted, Loadable, Present
<1>4. ASSUME NEW t \in Thread, LoadStep(t)
      PROVE  \A j \in LessonJar : Wanted(j)' <=> Wanted(j)
  BY <1>4, OwnStep DEF Wanted, Loadable, Present
<1>5. ASSUME NEW t \in Thread, Clean(t)
      PROVE  Filling'
  <2>1. /\ load'[t].at = "wait" /\ load'[t].course = load[t].course /\ load'[t].alone = load[t].alone
        /\ UNCHANGED lessons
    BY <1>5 DEF Clean, Load, courses
  <2>2. load[t].alone /\ load[t].course \in Thread => \A j \in LessonJar : lessons[load[t].course][j] = 0
    BY <1>5 DEF Filling, Busy, Clean
  <2>3. \A s \in Thread \ {t} : ~(Busy(s)' /\ load'[s].alone)
    BY <1>2, <1>5 DEF LoadStep
  <2>. QED
    BY <2>1, <2>2, <2>3 DEF Filling
<1>6. ASSUME NEW t \in Thread, NEW plugins \in SUBSET LessonJar,
             load[t].at = "wait", LoadStep(t), Got(t, plugins), UNCHANGED courses,
             load[t].alone => plugins = {j \in LessonJar : Wanted(j)}
      PROVE  Filling'
  <2>1. CASE load[t].kind = "startup"
    BY <1>2, <1>6, <2>1 DEF Filling, Got, Idle, Load, Busy
  <2>2. CASE load[t].kind # "startup"
    <3>1. /\ load'[t].at = "add" /\ load'[t].course = load[t].course /\ load'[t].alone = load[t].alone
          /\ load'[t].plugins = plugins /\ UNCHANGED lessons
      BY <1>6, <2>2 DEF Got, Load, courses
    <3>2. load[t].alone /\ load[t].course \in Thread => \A j \in LessonJar : lessons[load[t].course][j] = 0
      BY <1>6 DEF Filling, Busy
    <3>. QED
      BY <1>2, <1>4, <1>6, <3>1, <3>2 DEF Filling
  <2>. QED
    BY <2>1, <2>2
<1>7. ASSUME NEW t \in Thread, Collect(t)
      PROVE  Filling'
  <2>1. load[t].alone => {j \in LessonJar : job[t][j].at = "ok"} = {j \in LessonJar : Wanted(j)}
    BY <1>7, JarAssumption DEF Collect, Outcomes, Outcome, Waiting, Wanted, Loadable, Present
  <2>. QED
    BY <1>6, <1>7, <2>1 DEF Collect, LoadStep
<1>8. ASSUME NEW t \in Thread, Abort(t)
      PROVE  Filling'
  <2>1. load[t].alone => {} = {j \in LessonJar : Wanted(j)}
    BY <1>8 DEF Abort, Outcomes, Outcome, Waiting, Wanted, Loadable, Present
  <2>. QED
    BY <1>6, <1>8, <2>1 DEF Abort, LoadStep
<1>9. ASSUME NEW t \in Thread, NEW j \in LessonJar, Add(t, j)
      PROVE  Filling'
  <2>1. /\ load'[t].at = "add" /\ load'[t].course = load[t].course /\ load'[t].alone = load[t].alone
        /\ load'[t].plugins = load[t].plugins \ {j}
    BY <1>9 DEF Add, Load
  <2>2. load[t].course \in Thread =>
          /\ lessons'[load[t].course][j] = lessons[load[t].course][j] + 1
          /\ \A i \in LessonJar \ {j} : lessons'[load[t].course][i] = lessons[load[t].course][i]
    BY <1>9 DEF Add, OneMore
  <2>3. load[t].at = "add" /\ j \in load[t].plugins
    BY <1>9 DEF Add
  <2>4. \A s \in Thread \ {t} : ~(Busy(s)' /\ load'[s].alone)
    BY <1>2, <1>9 DEF LoadStep
  <2>5. \A i \in LessonJar : Wanted(i)' <=> Wanted(i)
    BY <1>4, <1>9 DEF LoadStep
  <2>6. load[t].alone /\ load[t].course \in Thread =>
          \A i \in LessonJar :
            /\ i \in load[t].plugins => Wanted(i)
            /\ lessons[load[t].course][i] = IF Wanted(i) /\ i \notin load[t].plugins THEN 1 ELSE 0
    BY <2>3 DEF Filling, Busy
  <2>7. load[t].alone /\ load[t].course \in Thread =>
          \A i \in LessonJar :
            /\ i \in load'[t].plugins => Wanted(i)
            /\ lessons'[load[t].course][i] = IF Wanted(i) /\ i \notin load'[t].plugins THEN 1 ELSE 0
    BY <2>1, <2>2, <2>3, <2>6
  <2>. QED
    BY <2>1, <2>4, <2>5, <2>7 DEF Filling
<1>10. ASSUME NEW t \in Thread, Finish(t)
       PROVE  Filling'
  <2>1. load'[t].at = "idle"
    BY <1>10 DEF Finish, Idle, Load
  <2>. QED
    BY <1>2, <1>10, <2>1 DEF Filling, LoadStep, Busy
<1>11. ASSUME NEW j \in Jar, ChangeJar(j)
       PROVE  Filling'
  BY <1>11, JarStep DEF Filling
<1>12. CASE LookUpLabel
  BY <1>12 DEF LookUpLabel, Filling, Busy, Wanted, Loadable, Present, dir, loader, courses
<1>. QED
  BY <1>1, <1>3, <1>5, <1>7, <1>8, <1>9, <1>10, <1>11, <1>12, Beginning DEF Next, LoadStep

LEMMA SettledStep ==
  ASSUME Types, Adding, Alone, Filling, Settled, Next
  PROVE  Settled'
<1> USE DEF Types
<1>1. ASSUME NEW t \in Thread, NEW kind, NEW c, BeginLoad(t, kind, c)
      PROVE  Settled'
  BY <1>1, FirstStep DEF Settled
<1>2. ASSUME NEW t \in Thread, Busy(t), UNCHANGED settled
      PROVE  Settled'
  BY <1>2 DEF Settled
<1>3. ASSUME NEW t \in Thread, NEW j \in Jar, JobStep(t, j)
      PROVE  Settled'
  <2>1. UNCHANGED <<load, source, known, lessons, settled>>
    BY <1>3, JobShape DEF JobOnly, dir, loader, courses, history
  <2>. QED
    BY <2>1 DEF Settled, Busy, Wanted, Loadable, Present
<1>4. ASSUME NEW t \in Thread, Clean(t) \/ Collect(t) \/ Abort(t) \/ \E j \in LessonJar : Add(t, j)
      PROVE  Settled'
  BY <1>2, <1>4 DEF Clean, Collect, Abort, Add, Busy, history
<1>5. ASSUME NEW t \in Thread, Finish(t)
      PROVE  Settled'
  <2>1. CASE ~load[t].alone
    BY <1>5, <2>1 DEF Finish, Settled
  <2>2. CASE load[t].alone
    <3>1. \A s \in Thread : load'[s].at = "idle"
      BY <1>5, <2>2 DEF Finish, Alone, Busy, Idle, Load
    <3>2. settled' = load[t].course /\ UNCHANGED <<lessons, source, known>>
      BY <1>5, <2>2 DEF Finish, dir, loader
    <3>3. load[t].course \in Thread
      BY <1>5, LoadFields DEF Finish, Adding, Busy
    <3>4. \A j \in LessonJar : lessons[load[t].course][j] = IF Wanted(j) THEN 1 ELSE 0
      BY <1>5, <2>2, <3>3 DEF Finish, Filling, Busy
    <3>5. \A j \in LessonJar : Wanted(j)' <=> Wanted(j)
      BY <3>2 DEF Wanted, Loadable, Present
    <3>. QED
      BY <3>1, <3>2, <3>4, <3>5 DEF Settled, Busy
  <2>. QED
    BY <2>1, <2>2
<1>6. ASSUME NEW j \in Jar, ChangeJar(j)
      PROVE  Settled'
  BY <1>6, JarStep DEF Settled
<1>7. CASE LookUpLabel
  BY <1>7 DEF LookUpLabel, Settled, Busy, Wanted, Loadable, Present, dir, loader, courses, history
<1>. QED
  BY <1>1, <1>3, <1>4, <1>5, <1>6, <1>7, Beginning DEF Next, LoadStep

-----------------------------------------------------------------------------
(* A course holds all or nothing.                                          *)
LEMMA WholeAtFirst ==
  ASSUME NEW course, NEW all, NEW p, p = {} \/ p = all, Empty(course)
  PROVE  Whole(course, all, p)
<1>1. {j \in LessonJar : course[j] > 0} = {}
  BY DEF Empty
<1>. QED
  BY <1>1 DEF Whole, Empty

LEMMA WholeAfterAdd ==
  ASSUME NEW course \in [LessonJar -> Nat], NEW all, NEW rest \in SUBSET LessonJar, NEW j \in rest,
         Whole(course, all, rest)
  PROVE  Whole(OneMore(course, j), all, rest \ {j})
<1>1. /\ OneMore(course, j)[j] = 1
      /\ \A i \in LessonJar \ {j} : OneMore(course, j)[i] = course[i]
  BY DEF OneMore, Whole
<1>2. {i \in LessonJar : OneMore(course, j)[i] > 0} \cup (rest \ {j})
        = {i \in LessonJar : course[i] > 0} \cup rest
  BY <1>1
<1>. QED
  BY <1>1, <1>2 DEF Whole

LEMMA CoursesStep ==
  ASSUME Types, Adding, Waiting, Overlap, Courses, Next
  PROVE  Courses'
<1> USE DEF Types
<1>1. ASSUME NEW t \in Thread, NEW kind, NEW c, BeginLoad(t, kind, c)
      PROVE  Courses'
  <2>1. raced' = IF \E s \in Thread : Busy(s) /\ load[s].course = c THEN raced \cup {c} ELSE raced \ {c}
    BY <1>1 DEF BeginLoad
  <2>2. \A d \in Thread : IF d = c THEN Empty(lessons'[d]) ELSE lessons'[d] = lessons[d]
    BY <1>1 DEF BeginLoad, Empty
  <2>3. listed' = listed /\ Busy(t)' /\ load'[t].course = c /\ load'[t].at = "clean" /\ ~Busy(t)
    BY <1>1, FirstStep DEF Busy
  <2>4. \A s \in Thread \ {t} : /\ Busy(s)' <=> Busy(s)
                               /\ load'[s].at = load[s].at /\ load'[s].course = load[s].course
                               /\ load'[s].plugins = load[s].plugins
    BY <1>1, FirstStep DEF Busy
  <2>5. SUFFICES ASSUME NEW d \in Thread \ raced'
                 PROVE  AtRest(d)' /\ \A s \in Thread : Loading(d, s)'
    BY DEF Courses
  <2>6. CASE d = c
    <3>1. AtRest(d)'
      BY <2>3, <2>6 DEF AtRest
    <3>2. \A s \in Thread \ {t} : ~(Busy(s)' /\ load'[s].course = d)
      BY <2>1, <2>4, <2>5, <2>6
    <3>3. Loading(d, t)'
      BY <2>2, <2>3, <2>6 DEF Loading
    <3>. QED
      BY <3>1, <3>2, <3>3 DEF Loading
  <2>7. CASE d # c
    <3>1. d \in Thread \ raced /\ lessons'[d] = lessons[d] /\ listed'[d] = listed[d]
      BY <2>1, <2>2, <2>3, <2>5, <2>7
    <3>2. AtRest(d) /\ \A s \in Thread : Loading(d, s)
      BY <3>1 DEF Courses
    <3>3. AtRest(d)'
      BY <2>3, <2>4, <2>7, <3>1, <3>2 DEF AtRest
    <3>4. ASSUME NEW s \in Thread \ {t} PROVE Loading(d, s)'
      BY <2>4, <3>1, <3>2 DEF Loading
    <3>5. Loading(d, t)'
      BY <2>3, <2>7 DEF Loading
    <3>. QED
      BY <3>3, <3>4, <3>5
  <2>. QED
    BY <2>6, <2>7
<1>2. ASSUME NEW t \in Thread, LoadStep(t),
             \A d \in Thread : d # load[t].course => lessons'[d] = lessons[d] /\ listed'[d] = listed[d],
             load[t].course \in Thread \ raced =>
               LET c == load[t].course IN
               /\ load'[t].at = "idle" => Whole(lessons'[c], listed'[c], {})
               /\ load'[t].at \notin {"idle", "add"} => Empty(lessons'[c])
               /\ load'[t].at = "add" => Whole(lessons'[c], listed'[c], load'[t].plugins)
      PROVE  Courses'
  <2>1. SUFFICES ASSUME NEW d \in Thread \ raced'
                 PROVE  AtRest(d)' /\ \A s \in Thread : Loading(d, s)'
    BY DEF Courses
  <2>2. raced' = raced /\ \A s \in Thread \ {t} : load'[s] = load[s]
    BY <1>2, OwnStep
  <2>3. load'[t].at # "idle" => Busy(t) /\ load'[t].course = load[t].course
    BY <1>2, OwnStep
  <2>4. Busy(t)
    BY <1>2 DEF LoadStep, Clean, Collect, Abort, Finish, Add, Busy
  <2>5. CASE d # load[t].course
    <3>1. lessons'[d] = lessons[d] /\ listed'[d] = listed[d]
      BY <1>2, <2>1, <2>5
    <3>2. AtRest(d) /\ \A s \in Thread : Loading(d, s)
      BY <2>1, <2>2 DEF Courses
    <3>3. \A s \in Thread : Busy(s) /\ load[s].course = d => Busy(s)' /\ load'[s].course = d
      BY <2>2, <2>5 DEF Busy
    <3>4. AtRest(d)'
      BY <3>1, <3>2, <3>3 DEF AtRest
    <3>5. ASSUME NEW s \in Thread \ {t} PROVE Loading(d, s)'
      BY <2>2, <3>1, <3>2 DEF Loading, Busy
    <3>6. Loading(d, t)'
      BY <2>3, <2>5 DEF Loading, Busy
    <3>. QED
      BY <3>4, <3>5, <3>6
  <2>6. CASE d = load[t].course
    <3>1. \A s \in Thread \ {t} : Busy(s)' => load'[s].course # d
      BY <2>1, <2>2, <2>4, <2>6 DEF Overlap, Busy
    <3>2. d \in Thread \ raced
      BY <2>1, <2>2
    <3>3. AtRest(d)'
      BY <1>2, <2>3, <2>6, <3>2 DEF AtRest, Busy
    <3>4. \A s \in Thread \ {t} : Loading(d, s)'
      BY <3>1 DEF Loading
    <3>5. Loading(d, t)'
      BY <1>2, <2>6, <3>2 DEF Loading, Busy
    <3>. QED
      BY <3>3, <3>4, <3>5
  <2>. QED
    BY <2>5, <2>6
<1>3. ASSUME NEW t \in Thread, Clean(t)
      PROVE  Courses'
  <2>1. load'[t].at = "wait" /\ UNCHANGED lessons
    BY <1>3 DEF Clean, Load, courses
  <2>2. \A d \in Thread : d # load[t].course => listed'[d] = listed[d]
    BY <1>3 DEF Clean
  <2>3. load[t].course \in Thread \ raced => Empty(lessons[load[t].course])
    BY <1>3 DEF Clean, Courses, Loading, Busy
  <2>. QED
    BY <1>2, <1>3, <2>1, <2>2, <2>3 DEF LoadStep
<1>4. ASSUME NEW t \in Thread, NEW plugins, load[t].at = "wait", LoadStep(t), Got(t, plugins),
             UNCHANGED <<lessons, listed>>,
             load[t].course \in Thread \ raced => plugins \in {{}, listed[load[t].course]}
      PROVE  Courses'
  <2>1. CASE load[t].kind = "startup"
    <3>1. load[t].course \notin Thread
      BY <1>4, <2>1, NoneAssumption DEF Adding, Busy
    <3>. QED
      BY <1>2, <1>4, <3>1
  <2>2. CASE load[t].kind # "startup"
    <3>1. load'[t].at = "add" /\ load'[t].plugins = plugins
      BY <1>4, <2>2 DEF Got, Load
    <3>2. load[t].course \in Thread \ raced => Empty(lessons[load[t].course])
      BY <1>4 DEF Courses, Loading, Busy
    <3>3. load[t].course \in Thread \ raced =>
            Whole(lessons[load[t].course], listed[load[t].course], plugins)
      <4> SUFFICES ASSUME load[t].course \in Thread \ raced
                   PROVE  Whole(lessons[load[t].course], listed[load[t].course], plugins)
        OBVIOUS
      <4>1. Empty(lessons[load[t].course])
        BY <3>2
      <4>2. plugins = {} \/ plugins = listed[load[t].course]
        BY <1>4
      <4>. QED
        BY <4>1, <4>2, WholeAtFirst
    <3>. QED
      BY <1>2, <1>4, <3>1, <3>3
  <2>. QED
    BY <2>1, <2>2
<1>5. ASSUME NEW t \in Thread, Collect(t)
      PROVE  Courses'
  <2>1. load[t].course \in Thread \ raced =>
          {j \in LessonJar : job[t][j].at = "ok"} = listed[load[t].course]
    BY <1>5, JarAssumption DEF Collect, Waiting
  <2>. QED
    BY <1>4, <1>5, <2>1 DEF Collect, LoadStep, courses, history
<1>6. ASSUME NEW t \in Thread, Abort(t)
      PROVE  Courses'
  BY <1>4, <1>6 DEF Abort, LoadStep, courses, history
<1>7. ASSUME NEW t \in Thread, NEW j \in LessonJar, Add(t, j)
      PROVE  Courses'
  <2>1. load'[t].at = "add" /\ load'[t].plugins = load[t].plugins \ {j} /\ listed' = listed
    BY <1>7 DEF Add, Load, history
  <2>2. \A d \in Thread : lessons'[d] = IF d = load[t].course THEN OneMore(lessons[d], j) ELSE lessons[d]
    BY <1>7 DEF Add
  <2>3. load[t].course \in Thread \ raced =>
          Whole(OneMore(lessons[load[t].course], j), listed[load[t].course], load[t].plugins \ {j})
    <3>1. load[t].plugins \in SUBSET LessonJar /\ j \in load[t].plugins
      BY <1>7, LoadFields DEF Add
    <3>2. load[t].course \in Thread \ raced =>
            Whole(lessons[load[t].course], listed[load[t].course], load[t].plugins)
      BY <1>7 DEF Add, Courses, Loading, Busy
    <3>. QED
      BY <3>1, <3>2, WholeAfterAdd
  <2>. QED
    BY <1>2, <1>7, <2>1, <2>2, <2>3 DEF LoadStep
<1>8. ASSUME NEW t \in Thread, Finish(t)
      PROVE  Courses'
  <2>1. load'[t].at = "idle" /\ UNCHANGED <<lessons, listed>>
    BY <1>8 DEF Finish, Idle, Load
  <2>2. load[t].course \in Thread \ raced => Whole(lessons[load[t].course], listed[load[t].course], {})
    BY <1>8 DEF Finish, Courses, Loading, Busy
  <2>. QED
    BY <1>2, <1>8, <2>1, <2>2 DEF LoadStep
<1>9. ASSUME NEW t \in Thread, NEW j \in Jar, JobStep(t, j)
      PROVE  Courses'
  <2>1. UNCHANGED <<load, lessons, listed, raced>>
    BY <1>9, JobShape DEF JobOnly, courses, history
  <2>. QED
    BY <2>1 DEF Courses, AtRest, Loading, Busy
<1>10. ASSUME NEW j \in Jar, ChangeJar(j)
       PROVE  Courses'
  BY <1>10, JarStep, ZenonT(30) DEF Courses, AtRest, Loading, Busy
<1>11. CASE LookUpLabel
  BY <1>11 DEF LookUpLabel, Courses, AtRest, Loading, Busy, courses, history
<1>. QED
  BY <1>1, <1>3, <1>5, <1>6, <1>7, <1>8, <1>9, <1>10, <1>11, Beginning DEF Next, LoadStep

-----------------------------------------------------------------------------
(* The invariant and what follows from it.                                 *)

(* Types, who is at work, what each load waits for and what its jobs know,  *)
(* and what the courses hold meanwhile: an invariant of every load.         *)
THEOREM LoadInvariant == Spec => []LoadInv
<1>1. Init => LoadInv
  <2> SUFFICES ASSUME Init PROVE LoadInv
    OBVIOUS
  <2>1. Types
    BY TypesInit
  <2>2. \A t \in Thread : load[t].at = "idle"
    BY DEF Init, Idle, Load
  <2>3. Adding /\ Alone /\ Waiting /\ Outcomes /\ Filling /\ Overlap
    BY <2>2 DEF Adding, Alone, Waiting, Outcomes, Filling, Overlap, Busy
  <2>4. Settled
    BY DEF Init, Settled
  <2>5. Courses
    <3>1. ASSUME NEW c \in Thread PROVE Whole(lessons[c], listed[c], {})
      <4>1. Empty(lessons[c])
        BY DEF Init, Empty
      <4>. QED
        BY <4>1, WholeAtFirst
    <3>. QED
      BY <2>2, <3>1 DEF Courses, AtRest, Loading, Busy
  <2>. QED
    BY <2>1, <2>3, <2>4, <2>5 DEF LoadInv
<1>2. LoadInv /\ [Next]_vars => LoadInv'
  <2> SUFFICES ASSUME LoadInv, [Next]_vars PROVE LoadInv'
    OBVIOUS
  <2>1. CASE Next
    BY <2>1, TypesStep, AddingStep, AloneStep, WaitingStep, OutcomesStep, FillingStep,
       SettledStep, OverlapStep, CoursesStep DEF LoadInv
  <2>2. CASE UNCHANGED vars
    <3>1. UNCHANGED <<source, changes, alreadyLoaded, known, i18n, labels, file, cache, load, job,
                      session, lessons, admin, listed, raced, settled>>
      BY <2>2 DEF vars, dir, loader, disk, courses, history
    <3>2. Types' /\ Adding' /\ Alone' /\ Overlap'
      BY <3>1 DEF LoadInv, Types, Adding, Alone, Overlap, Busy, Working
    <3>3. Waiting' /\ Outcomes'
      BY <3>1 DEF LoadInv, Waiting, Outcomes, Outcome, Present
    <3>4. Filling' /\ Settled'
      BY <3>1 DEF LoadInv, Filling, Settled, Busy, Wanted, Loadable, Present
    <3>5. Courses'
      BY <3>1 DEF LoadInv, Courses, AtRest, Loading, Busy
    <3>. QED
      BY <3>2, <3>3, <3>4, <3>5 DEF LoadInv
  <2>. QED
    BY <2>1, <2>2
<1>. QED
  BY <1>1, <1>2, PTL DEF Spec

(* Whatever went wrong before it, a load that ran alone leaves the course   *)
(* with each lesson once if every jar can be loaded, and empty otherwise.   *)
THEOREM LoneLoad == Spec => []LoneLoadIsExact
<1>1. LoadInv => LoneLoadIsExact
  BY DEF LoadInv, Settled, Wanted, LoneLoadIsExact
<1>. QED
  BY <1>1, LoadInvariant, PTL

(* Failing jars, overlapping loads of other courses and jobs left behind    *)
(* never leave a course with a part of its lessons, or with one twice.      *)
THEOREM NoPartialCourse == Spec => []AllOrNothing
<1>1. LoadInv => AllOrNothing
  <2> SUFFICES ASSUME LoadInv, NEW c \in Thread \ raced,
                      \A t \in Thread : Busy(t) /\ load[t].course = c =>
                         load[t].at = "add" /\ load[t].plugins = {}
               PROVE  /\ Held(c) \in {{}, listed[c]}
                      /\ \A j \in LessonJar : lessons[c][j] <= 1
    BY DEF AllOrNothing
  <2>1. Whole(lessons[c], listed[c], {})
    <3>1. AtRest(c) /\ \A t \in Thread : Loading(c, t)
      BY DEF LoadInv, Courses
    <3>. QED
      BY <3>1 DEF AtRest, Loading
  <2>. QED
    BY <2>1 DEF Whole, Held
<1>. QED
  BY <1>1, LoadInvariant, PTL

-----------------------------------------------------------------------------
(* The directory.                                                          *)

(* What a job has still to do is in its jar.                               *)
Tasks ==
  \A t \in Thread, j \in Jar :
    /\ job[t][j].todo \subseteq Entries(j)
    /\ job[t][j].at = "append" => "labels" \in job[t][j].todo

DiskTypes ==
  /\ changes \in 0..MaxChanges /\ alreadyLoaded \in BOOLEAN /\ admin \subseteq Thread
  /\ i18n \in BOOLEAN /\ labels \subseteq LabelJar /\ (labels # {} => i18n)
  /\ cache \in (SUBSET LabelJar) \cup {None}

(* Loads of one course that overlap put a lesson there as often as there   *)
(* are threads, no more: since one of them cleared it each adds it once.   *)
StillToAdd(c, j) ==
  {t \in Thread : Busy(t) /\ load[t].course = c /\ (load[t].at = "add" => j \in load[t].plugins)}

Copies ==
  \A c \in Thread, j \in LessonJar :
    lessons[c][j] + Cardinality(StillToAdd(c, j)) <= Cardinality(Thread)

(* What the jobs of a load that runs alone have done so far.               *)
Appended(t, j) ==
  \/ job[t][j].at = "entries" /\ "labels" \notin job[t][j].todo
  \/ job[t][j].at \in {"rewrite", "write", "ok"}

Extracted(t, j) ==
  /\ job[t][j].at # "failed" => (j \in labels <=> j \in LabelJar /\ Appended(t, j))
  /\ j \in LessonJar =>
       /\ job[t][j].at \in {"entries", "append"} /\ "file" \notin job[t][j].todo => file[j] = "raw"
       /\ job[t][j].at = "rewrite" => file[j] = "raw"
       /\ job[t][j].at = "write" => job[t][j].read = "raw"
       /\ job[t][j].at = "ok" => file[j] = "good"

Extracting ==
  \A t \in Thread, j \in Jar : load[t].at = "wait" /\ load[t].alone => Extracted(t, j)

(* What such a load leaves behind, if every jar was good.                  *)
Repaired ==
  Loadable =>
    /\ \A j \in LessonJar \cap Present : file[j] = "good"
    /\ labels = LabelJar \cap Present
    /\ cache \in {None, labels}
    /\ \A s \in Thread : ~Working(s)

Mended ==
  /\ \A t \in Thread : load[t].at = "add" /\ load[t].alone => Repaired
  /\ settled # None => Repaired

DirInv == Tasks /\ DiskTypes /\ Copies /\ Extracting /\ Mended

LEMMA TaskOfJob ==
  ASSUME Types, Tasks, NEW t \in Thread, NEW j \in Jar, JobStep(t, j)
  PROVE  \E r : Step(t, j, r) /\ r.todo \subseteq Entries(j) /\ (r.at = "append" => "labels" \in r.todo)
<1>. DEFINE Shape == \E r : /\ Step(t, j, r) /\ r.todo \subseteq Entries(j)
                            /\ r.at = "append" => "labels" \in r.todo
<1>1. ASSUME NEW at, NEW todo \in SUBSET Entries(j), NEW c, Step(t, j, Job(at, todo, c)),
             at = "append" => "labels" \in todo
      PROVE  Shape
  BY <1>1 DEF Job
<1>2. ASSUME NEW o \in {"ok", "failed"}, End(t, j, o) PROVE Shape
  BY <1>1, <1>2 DEF End, NoJob
<1>3. ASSUME NEW todo \in SUBSET Entries(j), Finally(t, j, todo) PROVE Shape
  BY <1>1, <1>2, <1>3 DEF Finally
<1>4. ASSUME NEW todo \in SUBSET Entries(j), NextEntry(t, j, todo) PROVE Shape
  BY <1>1, <1>3, <1>4 DEF NextEntry
<1>5. job[t][j].todo \in SUBSET Entries(j)
  BY DEF Tasks
<1>. HIDE DEF Shape
<1>6. Shape
  <2>1. CASE OpenJar(t, j)
    BY <2>1, <1>2, <1>4 DEF OpenJar
  <2>2. CASE MakeDirs(t, j)
    BY <2>2, <1>1, <1>5 DEF MakeDirs
  <2>3. CASE AppendLabels(t, j)
    BY <2>3, <1>3, <1>4, <1>5 DEF AppendLabels
  <2>4. CASE CopyFile(t, j)
    BY <2>4, <1>4, <1>5 DEF CopyFile
  <2>5. CASE ReadFile(t, j)
    BY <2>5, <1>1, <1>5 DEF ReadFile
  <2>6. CASE WriteFile(t, j)
    BY <2>6, <1>2 DEF WriteFile
  <2>. QED
    BY <2>1, <2>2, <2>3, <2>4, <2>5, <2>6 DEF JobStep
<1>. QED
  BY <1>6 DEF Shape

LEMMA TasksStep ==
  ASSUME Types, Adding, Tasks, Next
  PROVE  Tasks'
<1>. USE DEF Types
<1>1. ASSUME NEW t \in Thread, Clean(t) PROVE Tasks'
  BY <1>1 DEF Clean, Tasks, Job, NoJob
<1>2. ASSUME NEW t \in Thread, Forget(t) PROVE Tasks'
  BY <1>2 DEF Forget, Tasks, Job, NoJob
<1>3. ASSUME NEW t \in Thread, LoadStep(t) PROVE Tasks'
  <2>1. Clean(t) \/ Forget(t) \/ job' = job
    BY <1>3 DEF LoadStep, Collect, Abort, Got, Add, Finish
  <2>. QED
    BY <1>1, <1>2, <2>1 DEF Tasks
<1>4. ASSUME NEW t \in Thread, NEW j \in Jar, JobStep(t, j) PROVE Tasks'
  <2>1. PICK r : Step(t, j, r) /\ r.todo \subseteq Entries(j) /\ (r.at = "append" => "labels" \in r.todo)
    BY <1>4, TaskOfJob
  <2>2. \A s \in Thread, i \in Jar : job'[s][i] = IF s = t /\ i = j THEN r ELSE job[s][i]
    BY <2>1 DEF Step
  <2>. QED
    BY <2>1, <2>2, ZenonT(30) DEF Tasks
<1>5. ASSUME NEW t \in Thread, Startup(t) \/ Login(t) \/ Reload(t) PROVE Tasks'
  BY <1>5 DEF Startup, Login, Reload, BeginLoad, Tasks
<1>6. ASSUME NEW j \in Jar, ChangeJar(j) PROVE Tasks'
  BY <1>6 DEF ChangeJar, Tasks
<1>7. CASE LookUpLabel
  BY <1>7 DEF LookUpLabel, Tasks
<1>. QED
  BY <1>3, <1>4, <1>5, <1>6, <1>7 DEF Next

LEMMA DiskTypesStep ==
  ASSUME Types, Tasks, DiskTypes, Next
  PROVE  DiskTypes'
<1>. USE DEF DiskTypes, dir, loader, disk, courses, history
<1>1. ASSUME NEW t \in Thread, LoadStep(t) PROVE DiskTypes'
  <2>1. CASE Clean(t)
    BY <2>1 DEF Clean
  <2>2. CASE Collect(t)
    <3>1. cache' = None /\ UNCHANGED <<dir, loader, disk, courses>>
      BY <2>2 DEF Collect
    <3>. QED
      BY <3>1
  <2>3. CASE Abort(t)
    <3>1. UNCHANGED <<dir, loader, disk, cache, courses>>
      BY <2>3 DEF Abort
    <3>. QED
      BY <3>1
  <2>4. CASE Finish(t)
    BY <2>4 DEF Finish
  <2>5. ASSUME NEW j \in LessonJar, Add(t, j) PROVE DiskTypes'
    BY <2>5 DEF Add
  <2>. QED
    BY <1>1, <2>1, <2>2, <2>3, <2>4, <2>5 DEF LoadStep
<1>2. ASSUME NEW t \in Thread, NEW j \in Jar, JobStep(t, j) PROVE DiskTypes'
  <2>1. CASE AppendLabels(t, j)
    <3>1. j \in LabelJar
      BY <2>1 DEF AppendLabels, Tasks, Entries
    <3>. QED
      BY <2>1, <3>1 DEF AppendLabels, JobOnly
  <2>2. CASE MakeDirs(t, j)
    BY <2>2 DEF MakeDirs, JobOnly
  <2>3. CASE OpenJar(t, j) \/ CopyFile(t, j) \/ ReadFile(t, j) \/ WriteFile(t, j)
    BY <2>3 DEF OpenJar, CopyFile, ReadFile, WriteFile, JobOnly
  <2>. QED
    BY <1>2, <2>1, <2>2, <2>3 DEF JobStep
<1>3. ASSUME NEW t \in Thread, Startup(t) \/ Login(t) \/ Reload(t) PROVE DiskTypes'
  BY <1>3 DEF Startup, Login, Reload, BeginLoad, CopyJars
<1>4. ASSUME NEW j \in Jar, ChangeJar(j) PROVE DiskTypes'
  BY <1>4, JarAssumption DEF ChangeJar
<1>5. CASE LookUpLabel
  BY <1>5 DEF LookUpLabel
<1>. QED
  BY <1>1, <1>2, <1>3, <1>4, <1>5 DEF Next

-----------------------------------------------------------------------------
(* How often a lesson can be in a course.                                  *)

(* One lesson more in the course is one thread less that has it to add.    *)
LEMMA CopyCount ==
  ASSUME NEW S \in SUBSET Thread, NEW R \in SUBSET S, NEW n \in Nat, NEW m \in Nat,
         n + Cardinality(S) <= Cardinality(Thread),
         m = n \/ (m = n + 1 /\ \E t \in S : t \notin R)
  PROVE  m + Cardinality(R) <= Cardinality(Thread)
<1>1. IsFiniteSet(S) /\ IsFiniteSet(R)
  BY ThreadAssumption, FS_Subset
<1>2. Cardinality(S) \in Nat /\ Cardinality(R) \in Nat /\ Cardinality(R) <= Cardinality(S)
      /\ Cardinality(Thread) \in Nat
  BY <1>1, ThreadAssumption, FS_Subset, FS_CardinalityType
<1>3. ASSUME NEW t \in S, t \notin R PROVE Cardinality(R) < Cardinality(S)
  <2>1. R # S
    BY <1>3
  <2>. QED
    BY <1>1, <1>2, <2>1, FS_Subset
<1>. QED
  BY <1>2, <1>3

LEMMA CopiesStep ==
  ASSUME Types, Adding, Copies, Next
  PROVE  Copies'
<1>. USE DEF Types
<1>1. ASSUME NEW c \in Thread, NEW j \in LessonJar, lessons'[c][j] \in Nat,
             StillToAdd(c, j)' \subseteq StillToAdd(c, j),
             \/ lessons'[c][j] = lessons[c][j]
             \/ /\ lessons'[c][j] = lessons[c][j] + 1
                /\ \E t \in StillToAdd(c, j) : t \notin StillToAdd(c, j)'
      PROVE  lessons'[c][j] + Cardinality(StillToAdd(c, j)') <= Cardinality(Thread)
  <2>. DEFINE S == StillToAdd(c, j)
              R == StillToAdd(c, j)'
  <2>1. S \in SUBSET Thread /\ R \in SUBSET S
    BY <1>1 DEF StillToAdd
  <2>2. lessons[c][j] \in Nat /\ lessons[c][j] + Cardinality(S) <= Cardinality(Thread)
    BY DEF Copies
  <2>3. lessons'[c][j] = lessons[c][j]
        \/ (lessons'[c][j] = lessons[c][j] + 1 /\ \E t \in S : t \notin R)
    BY <1>1
  <2>. HIDE DEF S, R
  <2>4. lessons'[c][j] + Cardinality(R) <= Cardinality(Thread)
    BY <1>1, <2>1, <2>2, <2>3, CopyCount
  <2>. QED
    BY <2>4 DEF R
<1>2. ASSUME UNCHANGED lessons,
             \A c \in Thread, j \in LessonJar : StillToAdd(c, j)' \subseteq StillToAdd(c, j)
      PROVE  Copies'
  BY <1>1, <1>2 DEF Copies
<1>3. ASSUME UNCHANGED lessons,
             \A s \in Thread : /\ load'[s].at = load[s].at /\ load'[s].course = load[s].course
                               /\ load'[s].plugins = load[s].plugins
      PROVE  Copies'
  BY <1>2, <1>3 DEF StillToAdd, Busy
<1>4. ASSUME NEW t \in Thread, NEW kind, NEW c, BeginLoad(t, kind, c)
      PROVE  Copies'
  <2>1. SUFFICES ASSUME NEW d \in Thread, NEW j \in LessonJar
                 PROVE  lessons'[d][j] + Cardinality(StillToAdd(d, j)') <= Cardinality(Thread)
    BY DEF Copies
  <2>2. CASE d = c
    <3>1. lessons'[d][j] = 0
      BY <1>4, <2>2 DEF BeginLoad
    <3>2. StillToAdd(d, j)' \subseteq Thread
      BY DEF StillToAdd
    <3>3. Cardinality(StillToAdd(d, j)') <= Cardinality(Thread)
          /\ Cardinality(StillToAdd(d, j)') \in Nat
      BY <3>2, ThreadAssumption, FS_Subset, FS_CardinalityType
    <3>. QED
      BY <3>1, <3>3
  <2>3. CASE d # c
    <3>1. lessons'[d][j] = lessons[d][j]
      BY <1>4, <2>3 DEF BeginLoad
    <3>2. StillToAdd(d, j)' \subseteq StillToAdd(d, j)
      BY <1>4, <2>3, FirstStep, SMTT(30) DEF StillToAdd, Busy
    <3>. QED
      BY <1>1, <3>1, <3>2
  <2>. QED
    BY <2>2, <2>3
<1>5. ASSUME NEW t \in Thread, LoadStep(t), UNCHANGED lessons,
             load'[t].at # "idle" => load[t].at # "add"
      PROVE  Copies'
  <2>1. /\ \A s \in Thread \ {t} : load'[s] = load[s]
        /\ load'[t].at # "idle" => Busy(t) /\ load'[t].course = load[t].course
    BY <1>5, OwnStep
  <2>2. ASSUME NEW c \in Thread, NEW j \in LessonJar, NEW s \in StillToAdd(c, j)'
        PROVE  s \in StillToAdd(c, j)
    <3>1. /\ s \in Thread /\ Busy(s)' /\ load'[s].course = c
          /\ load'[s].at = "add" => j \in load'[s].plugins
      BY <2>2 DEF StillToAdd
    <3>2. CASE s = t
      BY <1>5, <2>1, <3>1, <3>2 DEF StillToAdd, Busy
    <3>3. CASE s # t
      BY <2>1, <3>1, <3>3 DEF StillToAdd, Busy
    <3>. QED
      BY <3>2, <3>3
  <2>. QED
    BY <1>2, <1>5, <2>2
<1>6. ASSUME NEW t \in Thread, Clean(t) PROVE Copies'
  BY <1>5, <1>6 DEF Clean, LoadStep, courses
<1>7. ASSUME NEW t \in Thread, Collect(t) \/ Abort(t) PROVE Copies'
  BY <1>5, <1>7 DEF Collect, Abort, LoadStep, courses
<1>8. ASSUME NEW t \in Thread, Finish(t) PROVE Copies'
  <2>1. load'[t].at = "idle"
    BY <1>8 DEF Finish, Idle, Load
  <2>. QED
    BY <1>5, <1>8, <2>1 DEF Finish, LoadStep
<1>9. ASSUME NEW t \in Thread, NEW j \in LessonJar, Add(t, j) PROVE Copies'
  <2>1. /\ load'[t].at = "add" /\ load[t].at = "add" /\ load'[t].course = load[t].course
        /\ j \in load[t].plugins /\ load'[t].plugins = load[t].plugins \ {j}
    BY <1>9 DEF Add, Load
  <2>2. \A s \in Thread \ {t} : load'[s] = load[s]
    BY <1>9 DEF Add
  <2>3. load[t].course \in Thread
    BY <2>1, LoadFields DEF Adding, Busy
  <2>4. SUFFICES ASSUME NEW d \in Thread, NEW i \in LessonJar
                 PROVE  lessons'[d][i] + Cardinality(StillToAdd(d, i)') <= Cardinality(Thread)
    BY DEF Copies
  <2>5. StillToAdd(d, i)' \subseteq StillToAdd(d, i)
    BY <2>1, <2>2 DEF StillToAdd, Busy
  <2>6. CASE d = load[t].course /\ i = j
    <3>1. lessons'[d][i] = lessons[d][i] + 1
      BY <1>9, <2>6 DEF Add, OneMore
    <3>2. t \in StillToAdd(d, i) /\ t \notin StillToAdd(d, i)'
      BY <2>1, <2>6 DEF StillToAdd, Busy
    <3>3. \E s \in StillToAdd(d, i) : s \notin StillToAdd(d, i)'
      BY <3>2
    <3>4. lessons'[d][i] \in Nat
      BY <3>1
    <3>. QED
      BY <1>1, <2>5, <3>1, <3>3, <3>4
  <2>7. CASE ~(d = load[t].course /\ i = j)
    <3>1. lessons'[d][i] = lessons[d][i]
      BY <1>9, <2>7 DEF Add, OneMore
    <3>. QED
      BY <1>1, <2>5, <3>1
  <2>. QED
    BY <2>6, <2>7
<1>10. ASSUME NEW t \in Thread, NEW j \in Jar, JobStep(t, j) PROVE Copies'
  BY <1>3, <1>10, JobShape DEF JobOnly, courses
<1>11. ASSUME NEW j \in Jar, ChangeJar(j) PROVE Copies'
  BY <1>3, <1>11, JarStep
<1>12. CASE LookUpLabel
  BY <1>3, <1>12 DEF LookUpLabel, courses
<1>. QED
  BY <1>4, <1>6, <1>7, <1>8, <1>9, <1>10, <1>11, <1>12, Beginning DEF Next, LoadStep

-----------------------------------------------------------------------------
(* A load that runs alone repairs the directory.                           *)
LEMMA ExtractedOfJob ==
  ASSUME Types, Tasks, NEW t \in Thread, NEW j \in Jar, JobStep(t, j), load[t].at = "wait",
         \A i \in Jar : Outcome(t, i) /\ Extracted(t, i)
  PROVE  \A i \in Jar : Extracted(t, i)'
<1>. USE DEF Types
<1>1. /\ labels' \in {labels, labels \cup {j}}
      /\ \A i \in LessonJar \ {j} : file'[i] = file[i]
  BY DEF JobStep, OpenJar, MakeDirs, AppendLabels, CopyFile, ReadFile, WriteFile, disk
<1>2. ASSUME NEW i \in Jar \ {j} PROVE Extracted(t, i)'
  <2>1. job'[t][i] = job[t][i]
    BY JobShape DEF Step
  <2>. QED
    BY <1>1, <2>1 DEF Extracted, Appended
<1>3. ASSUME NEW at, NEW todo, NEW c, Step(t, j, Job(at, todo, c)),
             at # "failed" =>
               (j \in labels' <=> /\ j \in LabelJar
                                  /\ (at = "entries" /\ "labels" \notin todo)
                                       \/ at \in {"rewrite", "write", "ok"}),
             j \in LessonJar =>
               /\ at \in {"entries", "append"} /\ "file" \notin todo => file'[j] = "raw"
               /\ at = "rewrite" => file'[j] = "raw"
               /\ at = "write" => c = "raw"
               /\ at = "ok" => file'[j] = "good"
      PROVE  Extracted(t, j)'
  <2>1. job'[t][j] = Job(at, todo, c)
    BY <1>3 DEF Step
  <2>2. job'[t][j].at = at /\ job'[t][j].todo = todo /\ job'[t][j].read = c
    BY <2>1 DEF Job
  <2>. QED
    BY <1>3, <2>2 DEF Extracted, Appended
<1>4. ASSUME NEW o \in {"ok", "failed"}, End(t, j, o),
             o = "ok" => (j \in labels' <=> j \in LabelJar) /\ (j \in LessonJar => file'[j] = "good")
      PROVE  Extracted(t, j)'
  BY <1>3, <1>4 DEF End
<1>5. ASSUME NEW todo, NextEntry(t, j, todo),
             j \in labels' <=> j \in LabelJar /\ "labels" \notin todo,
             j \in LessonJar /\ "file" \notin todo => file'[j] = "raw"
      PROVE  Extracted(t, j)'
  <2>1. CASE todo # {}
    <3>1. Step(t, j, Job("entries", todo, "none"))
      BY <1>5, <2>1 DEF NextEntry
    <3>. QED
      BY <1>3, <1>5, <3>1
  <2>2. CASE todo = {} /\ j \notin known
    BY <1>4, <1>5, <2>2 DEF NextEntry, Finally
  <2>3. CASE todo = {} /\ j \in known /\ j \notin LessonJar
    BY <1>4, <1>5, <2>3 DEF NextEntry, Finally
  <2>4. CASE todo = {} /\ j \in known /\ j \in LessonJar
    <3>1. Step(t, j, Job("rewrite", {}, "none"))
      BY <1>5, <2>4 DEF NextEntry, Finally
    <3>. QED
      BY <1>3, <1>5, <2>4, <3>1
  <2>. QED
    BY <2>1, <2>2, <2>3, <2>4
<1>6. Extracted(t, j) /\ Outcome(t, j)
  OBVIOUS
<1>7. Extracted(t, j)'
  <2>1. CASE OpenJar(t, j)
    <3>1. j \notin labels' /\ ("labels" \in Entries(j) <=> j \in LabelJar)
          /\ ("file" \in Entries(j) <=> j \in LessonJar)
      BY <1>6, <2>1 DEF OpenJar, Extracted, Appended, Entries, disk
    <3>. QED
      BY <1>4, <1>5, <2>1, <3>1 DEF OpenJar
  <2>2. CASE MakeDirs(t, j)
    <3>1. Step(t, j, Job("append", job[t][j].todo, "none"))
          /\ labels' = labels /\ file' = file /\ job[t][j].at = "entries" /\ "labels" \in job[t][j].todo
      BY <2>2 DEF MakeDirs
    <3>. QED
      BY <1>3, <1>6, <3>1 DEF Extracted, Appended
  <2>3. CASE AppendLabels(t, j)
    <3>1. i18n /\ job[t][j].at = "append"
      BY <1>6, <2>3 DEF AppendLabels, Outcome
    <3>2. labels' = labels \cup {j} /\ file' = file /\ NextEntry(t, j, job[t][j].todo \ {"labels"})
      BY <2>3, <3>1 DEF AppendLabels
    <3>3. j \in LabelJar
      BY <3>1 DEF Tasks, Entries
    <3>. QED
      BY <1>5, <1>6, <3>1, <3>2, <3>3 DEF Extracted
  <2>4. CASE CopyFile(t, j)
    <3>1. /\ job[t][j].at = "entries" /\ "file" \in job[t][j].todo /\ labels' = labels
          /\ NextEntry(t, j, job[t][j].todo \ {"file"})
          /\ j \in LessonJar => file'[j] = "raw"
      BY <2>4 DEF CopyFile
    <3>2. j \in labels <=> j \in LabelJar /\ "labels" \notin job[t][j].todo
      BY <1>6, <3>1 DEF Extracted, Appended
    <3>. QED
      BY <1>5, <3>1, <3>2
  <2>5. CASE ReadFile(t, j)
    <3>1. job[t][j].at = "rewrite" /\ Step(t, j, Job("write", job[t][j].todo, file[j])) /\ labels' = labels
      BY <2>5 DEF ReadFile
    <3>2. (j \in labels <=> j \in LabelJar) /\ (j \in LessonJar => file[j] = "raw")
      BY <1>6, <3>1 DEF Extracted, Appended
    <3>. QED
      BY <1>3, <3>1, <3>2
  <2>6. CASE WriteFile(t, j)
    <3>1. job[t][j].at = "write" /\ job[t][j].todo = {}
      BY <1>6, <2>6 DEF WriteFile, Outcome
    <3>2. End(t, j, "ok") /\ labels' = labels
          /\ (j \in LessonJar => file'[j] = Rewritten(job[t][j].read))
      BY <2>6, <3>1 DEF WriteFile
    <3>3. (j \in labels <=> j \in LabelJar) /\ (j \in LessonJar => job[t][j].read = "raw")
      BY <1>6, <3>1 DEF Extracted, Appended
    <3>. QED
      BY <1>4, <3>2, <3>3 DEF Rewritten
  <2>. QED
    BY <2>1, <2>2, <2>3, <2>4, <2>5, <2>6 DEF JobStep
<1>. QED
  BY <1>2, <1>7

LEMMA ExtractingStep ==
  ASSUME Types, Adding, Alone, Outcomes, Tasks, Extracting, Next
  PROVE  Extracting'
<1>1. ASSUME NEW t \in Thread, NEW kind, NEW c, BeginLoad(t, kind, c)
      PROVE  Extracting'
  BY <1>1, FirstStep DEF Extracting
<1>2. ASSUME NEW t \in Thread, LoadStep(t) \/ \E j \in Jar : JobStep(t, j), NEW s \in Thread \ {t}
      PROVE  ~(load'[s].at = "wait" /\ load'[s].alone)
  BY <1>2, OwnStep DEF Alone, Busy
<1>3. ASSUME NEW t \in Thread, LoadStep(t), load'[t].at # "wait"
      PROVE  Extracting'
  BY <1>2, <1>3 DEF Extracting
<1>4. ASSUME NEW t \in Thread, Clean(t)
      PROVE  Extracting'
  <2>1. \A j \in Jar : job'[t][j].at \in {"queued", "none"}
    BY <1>4 DEF Clean, Job, NoJob, Types
  <2>2. labels' = {}
    BY <1>4 DEF Clean
  <2>3. \A j \in Jar : Extracted(t, j)'
    BY <2>1, <2>2 DEF Extracted, Appended
  <2>. QED
    BY <1>2, <1>4, <2>3 DEF Extracting, LoadStep
<1>5. ASSUME NEW t \in Thread, NEW plugins, Got(t, plugins)
      PROVE  load'[t].at # "wait"
  BY <1>5 DEF Got, Load, Idle, Types
<1>6. ASSUME NEW t \in Thread, Collect(t)
      PROVE  Extracting'
  BY <1>3, <1>5, <1>6 DEF Collect, LoadStep
<1>7. ASSUME NEW t \in Thread, Abort(t)
      PROVE  Extracting'
  BY <1>3, <1>5, <1>7 DEF Abort, LoadStep
<1>8. ASSUME NEW t \in Thread, NEW j \in LessonJar, Add(t, j)
      PROVE  Extracting'
  BY <1>3, <1>8 DEF Add, LoadStep, Load, Types
<1>9. ASSUME NEW t \in Thread, Finish(t)
      PROVE  Extracting'
  BY <1>3, <1>9 DEF Finish, LoadStep, Load, Idle, Types
<1>10. ASSUME NEW t \in Thread, NEW j \in Jar, JobStep(t, j)
       PROVE  Extracting'
  <2>1. UNCHANGED load
    BY <1>10, JobShape DEF JobOnly
  <2>2. load[t].at = "wait" /\ load[t].alone => \A i \in Jar : Extracted(t, i)'
    BY <1>10, ExtractedOfJob DEF Extracting, Outcomes
  <2>. QED
    BY <1>2, <1>10, <2>1, <2>2 DEF Extracting
<1>11. ASSUME NEW j \in Jar, ChangeJar(j)
       PROVE  Extracting'
  BY <1>11, JarStep DEF Extracting
<1>12. CASE LookUpLabel
  BY <1>12 DEF LookUpLabel, Extracting, Extracted, Appended, disk
<1>. QED
  BY <1>1, <1>4, <1>6, <1>7, <1>8, <1>9, <1>10, <1>11, <1>12, Beginning DEF Next, LoadStep

(* Looking a label up reads what is there; nothing else touches a repaired *)
(* directory but a load, a job or a change of plugin_lessons.              *)
LEMMA RepairedKept ==
  ASSUME Repaired, UNCHANGED <<source, known, file, labels, job>>, cache' \in {cache, labels}
  PROVE  Repaired'
BY DEF Repaired, Loadable, Present, Working

LEMMA MendedStep ==
  ASSUME Types, Adding, Alone, Waiting, Outcomes, Settled, Tasks, DiskTypes, Extracting, Mended, Next
  PROVE  Mended'
<1>. USE DEF Types
<1>1. ASSUME NEW t \in Thread, NEW kind, NEW c, BeginLoad(t, kind, c)
      PROVE  Mended'
  BY <1>1, FirstStep DEF Mended
<1>2. ASSUME NEW j \in Jar, ChangeJar(j) PROVE Mended'
  BY <1>2, JarStep DEF Mended
<1>3. CASE LookUpLabel
  <2>1. Repaired => Repaired'
    BY <1>3, RepairedKept DEF LookUpLabel, dir, loader, disk
  <2>. QED
    BY <1>3, <2>1 DEF Mended, LookUpLabel, history
<1>4. ASSUME NEW t \in Thread, NEW j \in Jar, JobStep(t, j) PROVE Mended'
  <2>1. UNCHANGED <<source, known, load, settled>> /\ Working(t)
    BY <1>4, JobShape DEF JobOnly, dir, loader, history, Working
  <2>2. Repaired => ~Loadable
    BY <2>1 DEF Repaired
  <2>3. Loadable' <=> Loadable
    BY <2>1 DEF Loadable, Present
  <2>4. Repaired => Repaired'
    BY <2>2, <2>3 DEF Repaired
  <2>. QED
    BY <2>1, <2>4 DEF Mended
<1>5. ASSUME NEW t \in Thread, LoadStep(t),
             load[t].alone /\ (load'[t].at = "add" \/ settled' # None) => Repaired'
      PROVE  Mended'
  <2>1. /\ \A s \in Thread \ {t} : load'[s] = load[s]
        /\ load'[t].at # "idle" => load'[t].alone = load[t].alone
    BY <1>5, OwnStep
  <2>2. Busy(t)
    BY <1>5 DEF LoadStep, Clean, Collect, Abort, Add, Finish, Busy
  <2>3. \A s \in Thread \ {t} : ~(load'[s].at = "add" /\ load'[s].alone)
    BY <2>1, <2>2 DEF Alone, Busy
  <2>4. settled' # None => load[t].alone
    BY <1>5, <2>2 DEF LoadStep, Clean, Collect, Abort, Add, Finish, history, Settled
  <2>. QED
    BY <1>5, <2>1, <2>3, <2>4 DEF Mended
<1>6. ASSUME NEW t \in Thread, Clean(t) PROVE Mended'
  <2>1. load'[t].at = "wait" /\ settled' = settled /\ Busy(t)
    BY <1>6 DEF Clean, Load, Busy
  <2>. QED
    BY <1>5, <1>6, <2>1 DEF LoadStep, Settled
<1>7. ASSUME NEW t \in Thread, Collect(t) PROVE Mended'
  <2>1. SUFFICES ASSUME load[t].alone PROVE Repaired'
    BY <1>5, <1>7 DEF LoadStep
  <2>2. /\ UNCHANGED <<source, known, file, labels>> /\ cache' = None
        /\ load[t].at = "wait" /\ Forget(t) /\ \A j \in Jar : job[t][j].at \in {"none", "ok"}
    BY <1>7 DEF Collect, Got, dir, loader, disk
  <2>3. \A s \in Thread : ~Working(s)'
    <3>1. ASSUME NEW s \in Thread \ {t} PROVE ~Working(s)'
      <4>1. ~Working(s) /\ job'[s] = job[s]
        BY <2>1, <2>2 DEF Alone, Busy, Forget
      <4>. QED
        BY <4>1 DEF Working
    <3>2. ~Working(t)'
      BY <2>2 DEF Working, Forget, NoJob, Job, Ended
    <3>. QED
      BY <3>1, <3>2
  <2>4. \A j \in Jar : Extracted(t, j) /\ (job[t][j].at = "ok" <=> j \in Present)
    BY <2>1, <2>2 DEF Extracting, Waiting
  <2>5. \A j \in LessonJar \cap Present : file[j] = "good"
    BY <2>4, JarAssumption DEF Extracted
  <2>6. \A j \in Jar : j \in labels <=> j \in LabelJar /\ j \in Present
    BY <2>2, <2>4 DEF Extracted, Appended
  <2>7. labels = LabelJar \cap Present
    BY <2>6, JarAssumption DEF DiskTypes
  <2>8. Present' = Present
    BY <2>2 DEF Present
  <2>. QED
    BY <2>2, <2>3, <2>5, <2>7, <2>8 DEF Repaired
<1>8. ASSUME NEW t \in Thread, Abort(t) PROVE Mended'
  <2>1. SUFFICES ASSUME load[t].alone PROVE ~Loadable'
    BY <1>5, <1>8 DEF LoadStep, Repaired
  <2>2. PICK j \in Jar : job[t][j].at = "failed"
    BY <1>8 DEF Abort
  <2>3. load[t].at = "wait" /\ UNCHANGED <<source, known>>
    BY <1>8 DEF Abort, dir, loader
  <2>4. j \in Present /\ (source[j] # "whole" \/ j \notin known)
    BY <2>1, <2>2, <2>3 DEF Waiting, Outcomes, Outcome
  <2>. QED
    BY <2>3, <2>4 DEF Loadable, Present
<1>9. ASSUME NEW t \in Thread, \/ \E j \in LessonJar : Add(t, j)
                               \/ Finish(t)
      PROVE  Mended'
  <2>1. load[t].at = "add" /\ UNCHANGED <<source, known, file, labels, job, cache>>
    BY <1>9 DEF Add, Finish, dir, loader, disk
  <2>2. load[t].alone => Repaired'
    BY <2>1, RepairedKept DEF Mended
  <2>. QED
    BY <1>5, <1>9, <2>2 DEF LoadStep
<1>. QED
  BY <1>1, <1>2, <1>3, <1>4, <1>6, <1>7, <1>8, <1>9, Beginning DEF Next, LoadStep

-----------------------------------------------------------------------------
(* What is always true of the directory, and of the variables' types.      *)

LEMMA DirInductive == Spec => []DirInv
<1>1. Init => DirInv
  <2> SUFFICES ASSUME Init PROVE DirInv
    OBVIOUS
  <2>1. \A t \in Thread : load[t].at = "idle" /\ \A j \in Jar : job[t][j] = NoJob
    BY DEF Init, Idle, Load
  <2>2. Tasks /\ Extracting
    BY <2>1 DEF Tasks, Extracting, NoJob, Job
  <2>3. Mended
    BY <2>1 DEF Mended, Init
  <2>4. DiskTypes
    <3>1. changes = 0 /\ alreadyLoaded = FALSE /\ admin = {} /\ i18n = FALSE /\ labels = {} /\ cache = None
      BY DEF Init
    <3>2. 0 \in 0..MaxChanges
      BY JarAssumption
    <3>. QED
      BY <3>1, <3>2 DEF DiskTypes
  <2>5. Copies
    <3>1. ASSUME NEW c \in Thread, NEW j \in LessonJar
          PROVE  lessons[c][j] = 0 /\ StillToAdd(c, j) = {}
      BY <2>1 DEF Init, StillToAdd, Busy
    <3>2. Cardinality({}) = 0 /\ Cardinality(Thread) \in Nat
      BY ThreadAssumption, FS_EmptySet, FS_CardinalityType
    <3>. QED
      BY <3>1, <3>2 DEF Copies
  <2>. QED
    BY <2>2, <2>3, <2>4, <2>5 DEF DirInv
<1>2. LoadInv /\ DirInv /\ [Next]_vars => DirInv'
  <2> SUFFICES ASSUME LoadInv, DirInv, [Next]_vars PROVE DirInv'
    OBVIOUS
  <2>1. CASE Next
    BY <2>1, TasksStep, DiskTypesStep, CopiesStep, ExtractingStep, MendedStep DEF LoadInv, DirInv
  <2>2. CASE UNCHANGED vars
    <3>1. UNCHANGED <<source, changes, alreadyLoaded, known, i18n, labels, file, cache, load, job,
                      lessons, admin, settled>>
      BY <2>2 DEF vars, dir, loader, disk, courses, history
    <3>2. Tasks' /\ DiskTypes' /\ Copies'
      BY <3>1 DEF DirInv, Tasks, DiskTypes, Copies, StillToAdd, Busy
    <3>3. Extracting' /\ Mended'
      BY <3>1 DEF DirInv, Extracting, Extracted, Appended, Mended, Repaired, Loadable, Present, Working
    <3>. QED
      BY <3>2, <3>3 DEF DirInv
  <2>. QED
    BY <2>1, <2>2
<1>. QED
  BY <1>1, <1>2, LoadInvariant, PTL DEF Spec

(* Every variable of the loader of the lessons keeps its type: a course     *)
(* holds a lesson at most as often as there are threads to load it.         *)
THEOREM PluginTypeCorrect == Spec => []TypeOK
<1>1. LoadInv /\ DirInv => TypeOK
  <2> SUFFICES ASSUME LoadInv, DirInv PROVE TypeOK
    OBVIOUS
  <2>1. lessons \in [Thread -> [LessonJar -> 0..Cardinality(Thread)]]
    <3>1. ASSUME NEW c \in Thread, NEW j \in LessonJar
          PROVE  lessons[c][j] \in 0..Cardinality(Thread)
      <4>1. IsFiniteSet(StillToAdd(c, j))
        BY ThreadAssumption, FS_Subset DEF StillToAdd
      <4>2. Cardinality(StillToAdd(c, j)) \in Nat /\ Cardinality(Thread) \in Nat
        BY <4>1, ThreadAssumption, FS_CardinalityType
      <4>3. lessons[c][j] \in Nat /\ lessons[c][j] + Cardinality(StillToAdd(c, j)) <= Cardinality(Thread)
        BY DEF LoadInv, Types, DirInv, Copies
      <4>. QED
        BY <4>2, <4>3
    <3>2. lessons \in [Thread -> [LessonJar -> Nat]]
      BY DEF LoadInv, Types
    <3>. QED
      BY <3>1, <3>2
  <2>2. load \in [Thread -> [at : {"idle", "clean", "wait", "add"}, alone : BOOLEAN,
                             kind : {"none", "startup", "login", "reload"},
                             course : Thread \cup {None}, plugins : SUBSET LessonJar]]
    BY DEF LoadInv, Types, LoadRecord
  <2>3. job \in [Thread -> [Jar -> [at : Ended \cup {"queued", "entries", "append", "rewrite", "write"},
                                    todo : SUBSET {"labels", "file"}, read : Content]]]
    BY DEF LoadInv, Types, JobRecord
  <2>. QED
    BY <2>1, <2>2, <2>3 DEF LoadInv, DirInv, Types, DiskTypes, TypeOK, Source
<1>. QED
  BY <1>1, LoadInvariant, DirInductive, PTL

(* Whatever loads and changes went before it and left behind, a load that   *)
(* ran alone over good jars leaves the lessons' paths rewritten exactly     *)
(* once and the labels of all of them, and only them, to be found.          *)
THEOREM LoneLoadMends == Spec => []LoneLoadRepairs
<1>1. DirInv => LoneLoadRepairs
  BY DEF DirInv, Mended, Repaired, LoneLoadRepairs
<1>. QED
  BY <1>1, DirInductive, PTL
=============================================================================
