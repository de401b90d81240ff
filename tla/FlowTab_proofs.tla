--------------------------- MODULE FlowTab_proofs ---------------------------
(***************************************************************************)
(* Proofs about FlowTab for every set of tasks and aliases, every mix of   *)
(* their kinds and every bound: what tasks that are not mixed up with each *)
(* other may rely on, although they share one browser tab.                 *)
(***************************************************************************)
EXTENDS FlowTab, SequenceTheorems, TLAPS

----------------------------------------------------------------------------
(* Types, and what the page and the stage of a task say of the media *)

Working == Using \ Stretch
Unresolved == Stretch \cup {"lookup", "home"}
Resolved == Working \cup {"go", "done"}
Edits(j) == Kinds(j, {"character"})

\* A page of a project names it, a detail page also its item, which was made of something.
PageHolds ==
  /\ page.at \in {"project", "media", "editor"} => page.project \in Project
  /\ page.at \in {"media", "editor"} => page.item \in Job
  /\ page.at = "media" => media[page.item].from # {}

\* A media that was begun was made of something, and so was every tile.
MediaHolds ==
  /\ \A m \in Job : media[m].state # "none" => media[m].from # {}
  /\ \A p \in Project : \A i \in DOMAIN grid[p] : media[grid[p][i]].from # {}

\* Only the tasks of a kind get to the stages of that kind.
StageFits(j) ==
  /\ task[j].at \in {"prompt", "submit", "start", "poll", "open", "rename"} => Generates(j)
  /\ task[j].at \in {"add", "upload", "name"} => Kinds(j, {"upload", "clip"})
  /\ task[j].at \in {"new", "portray", "portrayed", "save"} => Edits(j)
  /\ task[j].at \in {"download", "wait", "close"} => Generates(j) \/ Edits(j)

\* A task that has resolved its alias has a project.
TaskHolds ==
  \A j \in Job : /\ StageFits(j)
                 /\ task[j].at \in Resolved \cup {"rehome", "retitle"} => task[j].project \in Project

\* Inductive: the type of the files needs that what a detail page shows was made of
\* something, which needs the same of every tile.
IInv == TypeOK /\ PageHolds /\ MediaHolds /\ TaskHolds

\* A tile is put in front of the others.
LEMMA Prepended ==
  ASSUME NEW s \in Seq(Job), NEW x \in Job
  PROVE  /\ <<x>> \o s \in Seq(Job) /\ <<x>> \o s # <<>> /\ Head(<<x>> \o s) = x
         /\ \A i \in DOMAIN (<<x>> \o s) : (<<x>> \o s)[i] = x \/ \E k \in DOMAIN s : (<<x>> \o s)[i] = s[k]
         /\ Range(<<x>> \o s) = Range(s) \cup {x}
<1>1. <<x>> \in Seq(Job) /\ Len(<<x>>) = 1 /\ <<x>>[1] = x
  OBVIOUS
<1>2. /\ <<x>> \o s \in Seq(Job) /\ Len(<<x>> \o s) = 1 + Len(s) /\ Len(s) \in Nat
      /\ \A i \in 1..1 + Len(s) : (<<x>> \o s)[i] = IF i <= 1 THEN <<x>>[i] ELSE s[i - 1]
  BY <1>1, ConcatProperties, LenProperties
<1>3. DOMAIN (<<x>> \o s) = 1..1 + Len(s) /\ DOMAIN s = 1..Len(s)
  BY <1>2, LenProperties
<1>4. <<x>> \o s # <<>> /\ Head(<<x>> \o s) = x
  BY <1>1, <1>2, <1>3, HeadTailProperties
<1>5. ASSUME NEW i \in 1..1 + Len(s)
      PROVE  (<<x>> \o s)[i] = x \/ \E k \in DOMAIN s : (<<x>> \o s)[i] = s[k]
  <2>1. CASE i = 1
    BY <1>1, <1>2, <2>1
  <2>2. CASE i # 1
    <3>1. i - 1 \in DOMAIN s /\ ~(i <= 1)
      BY <1>2, <1>3, <2>2
    <3>. QED
      BY <1>2, <3>1
  <2>. QED
    BY <2>1, <2>2
<1>6. ASSUME NEW k \in DOMAIN s PROVE k + 1 \in DOMAIN (<<x>> \o s) /\ (<<x>> \o s)[k + 1] = s[k]
  <2>1. k + 1 \in 1..1 + Len(s) /\ ~(k + 1 <= 1) /\ (k + 1) - 1 = k
    BY <1>2, <1>3
  <2>. QED
    BY <1>2, <1>3, <2>1
<1>7. 1 \in DOMAIN (<<x>> \o s) /\ (<<x>> \o s)[1] = x
  BY <1>1, <1>2, <1>3
<1>8. Range(<<x>> \o s) = Range(s) \cup {x}
  <2>. DEFINE t == <<x>> \o s
  <2>1. \A y : y \in Range(t) <=> \E i \in DOMAIN t : t[i] = y
    BY DEF Range
  <2>2. \A y : y \in Range(s) <=> \E i \in DOMAIN s : s[i] = y
    BY DEF Range
  <2>3. \A y \in Range(t) : y \in Range(s) \cup {x}
    BY <1>3, <1>5, <2>1, <2>2
  <2>4. \A y \in Range(s) \cup {x} : y \in Range(t)
    BY <1>6, <1>7, <2>1, <2>2
  <2>. QED
    BY <2>3, <2>4
<1>. QED
  BY <1>2, <1>3, <1>4, <1>5, <1>8

\* What a step leaves unchanged keeps its type.
LEMMA TypeFrame ==
  ASSUME TypeOK
  PROVE  /\ UNCHANGED <<fixed, mapping, title>> => ProjectType'
         /\ UNCHANGED tabVars => TabType'
         /\ UNCHANGED <<grid, media, look, coming>> => MediaType'
         /\ UNCHANGED task => TaskType'
         /\ UNCHANGED <<histories, events>> => HistoryType'
BY DEF TypeOK, ProjectType, TabType, MediaType, TaskType, HistoryType, fixed, tabVars, histories

\* What a step leaves unchanged still holds.
LEMMA HoldsFrame ==
  ASSUME IInv
  PROVE  /\ UNCHANGED <<page, media>> => PageHolds'
         /\ UNCHANGED <<grid, media>> => MediaHolds'
         /\ UNCHANGED <<plan, task>> => TaskHolds'
BY DEF IInv, PageHolds, MediaHolds, TaskHolds, StageFits, Generates, Edits, Kinds

\* One task goes on, the others stay.
LEMMA Goes ==
  ASSUME TaskType, NEW j \in Job, NEW at \in Stage, GoTo(j, at)
  PROVE  /\ TaskType'
         /\ task'[j] = [task[j] EXCEPT !.at = at]
         /\ task'[j].at = at /\ task'[j].project = task[j].project /\ task'[j].files = task[j].files
         /\ task'[j].part = task[j].part /\ task'[j].tiles = task[j].tiles
         /\ \A i \in Job : i # j => task'[i] = task[i]
BY DEF TaskType, Tasks, GoTo

\* A task that goes on with the project it has.
LEMMA GoesHolding ==
  ASSUME IInv, NEW j \in Job, UNCHANGED plan,
         \A i \in Job : i # j => task'[i] = task[i],
         task'[j].project \in Project, StageFits(j)'
  PROVE  TaskHolds'
BY DEF IInv, TaskHolds, StageFits, Generates, Edits, Kinds

\* A page of its own kind is shown.
LEMMA Visits ==
  ASSUME TypeOK, NEW at \in {"home", "project"}, NEW p \in Project \cup {None}, Visit(at, p),
         at = "project" => p \in Project
  PROVE  TabType' /\ PageHolds' /\ page'.at = at /\ page'.project = p
BY DEF TypeOK, TabType, Visit, PageHolds

\* The kinds exclude each other.
LEMMA KindFacts ==
  ASSUME TypeOK, NEW j \in Job
  PROVE  /\ plan[j].kind \in Kind /\ plan[j].alias \in Alias
         /\ FirstStage(j) = IF Generates(j) THEN "prompt"
                            ELSE IF Kinds(j, {"upload", "clip"}) THEN "add" ELSE "new"
         /\ ~Generates(j) /\ ~Kinds(j, {"upload", "clip"}) => Edits(j)
BY MixAssumption DEF TypeOK, ProjectType, FirstStage, Generates, Kinds, Edits, Kind

\* An image of a character is made.
LEMMA Drawn ==
  ASSUME TypeOK, NEW x, NEW q \in Part, NEW j \in Job, look' = [look EXCEPT ![x][q] = {j}]
  PROVE  /\ look' \in [Job -> [Part -> SUBSET Job]]
         /\ \A i \in Job, p \in Part : look'[i][p] = IF i = x /\ p = q THEN {j} ELSE look[i][p]
<1>1. look \in [Job -> [Part -> SUBSET Job]]
  BY DEF TypeOK, MediaType
<1>2. ASSUME NEW f \in [Part -> SUBSET Job]
      PROVE  /\ [f EXCEPT ![q] = {j}] \in [Part -> SUBSET Job]
             /\ \A p \in Part : [f EXCEPT ![q] = {j}][p] = IF p = q THEN {j} ELSE f[p]
  OBVIOUS
<1>3. \A i \in Job : look'[i] = IF i = x THEN [look[i] EXCEPT ![q] = {j}] ELSE look[i]
  BY <1>1
<1>4. look' = [i \in Job |-> look'[i]]
  BY <1>1
<1>5. \A i \in Job : look'[i] \in [Part -> SUBSET Job]
  BY <1>1, <1>2, <1>3
<1>6. look' \in [Job -> [Part -> SUBSET Job]]
  BY <1>4, <1>5
<1>7. \A i \in Job, p \in Part : look'[i][p] = IF i = x /\ p = q THEN {j} ELSE look[i][p]
  BY <1>1, <1>2, <1>3
<1>. QED
  BY <1>6, <1>7

\* A media gets a name and stays what it is.
LEMMA Renamed ==
  ASSUME TypeOK, NEW x, NEW j \in Job, media' = [media EXCEPT ![x].name = j]
  PROVE  /\ media' \in [Job -> [state : {"none", "loading", "ready", "failed"}, from : SUBSET Job,
                                name : Job \cup {None}]]
         /\ \A m \in Job : /\ media'[m].from = media[m].from /\ media'[m].state = media[m].state
                           /\ media'[m].name = IF m = x THEN j ELSE media[m].name
<1>. DEFINE Records == [state : {"none", "loading", "ready", "failed"}, from : SUBSET Job,
                        name : Job \cup {None}]
<1>1. media \in [Job -> Records]
  BY DEF TypeOK, MediaType
<1>2. ASSUME NEW r \in Records
      PROVE  /\ [r EXCEPT !.name = j] \in Records
             /\ [r EXCEPT !.name = j].from = r.from /\ [r EXCEPT !.name = j].state = r.state
             /\ [r EXCEPT !.name = j].name = j
  OBVIOUS
<1>3. \A m \in Job : media'[m] = IF m = x THEN [media[m] EXCEPT !.name = j] ELSE media[m]
  BY <1>1
<1>4. media' = [m \in Job |-> media'[m]]
  BY <1>1
<1>. HIDE DEF Records
<1>5. \A m \in Job : media'[m] \in Records
  BY <1>1, <1>2, <1>3
<1>6. media' \in [Job -> Records]
  BY <1>4, <1>5
<1>7. \A m \in Job : /\ media'[m].from = media[m].from /\ media'[m].state = media[m].state
                     /\ media'[m].name = IF m = x THEN j ELSE media[m].name
  BY <1>1, <1>2, <1>3
<1>. QED
  BY <1>6, <1>7 DEF Records

\* Media are made of what they are made of, and new tiles belong to new media.
LEMMA TilesHold ==
  ASSUME IInv, NEW j \in Job,
         \A m \in Job : \/ media'[m].from # {}
                        \/ media'[m].from = media[m].from /\ media'[m].state = media[m].state,
         \/ UNCHANGED grid
         \/ page.at = "project" /\ grid' = [grid EXCEPT ![page.project] = <<j>> \o @] /\ media'[j].from # {}
  PROVE  /\ grid' \in [Project -> Seq(Job)] /\ MediaHolds'
         /\ \A m \in Job : media[m].from # {} => media'[m].from # {}
<1>1. \A m \in Job : media[m].from # {} => media'[m].from # {}
  OBVIOUS
<1>2. grid \in [Project -> Seq(Job)]
  BY DEF IInv, TypeOK, MediaType
<1>3. \A p \in Project : \A i \in DOMAIN grid[p] : grid[p][i] \in Job /\ media[grid[p][i]].from # {}
  BY <1>2, ElementOfSeq DEF IInv, MediaHolds
<1>4. CASE UNCHANGED grid
  <2>1. MediaHolds'
    BY <1>1, <1>3, <1>4 DEF IInv, MediaHolds
  <2>. QED
    BY <1>1, <1>2, <1>4, <2>1
<1>5. CASE page.at = "project" /\ grid' = [grid EXCEPT ![page.project] = <<j>> \o @] /\ media'[j].from # {}
  <2>. DEFINE t == grid[page.project]
  <2>1. page.project \in Project /\ t \in Seq(Job) /\ grid' = [grid EXCEPT ![page.project] = <<j>> \o t]
    BY <1>2, <1>5 DEF IInv, PageHolds
  <2>2. /\ <<j>> \o t \in Seq(Job)
        /\ \A i \in DOMAIN (<<j>> \o t) : (<<j>> \o t)[i] = j \/ \E k \in DOMAIN t : (<<j>> \o t)[i] = t[k]
    BY <2>1, Prepended
  <2>3. ASSUME NEW p \in Project, NEW i \in DOMAIN grid'[p] PROVE media'[grid'[p][i]].from # {}
    <3>1. CASE p = page.project
      <4>1. grid'[p] = <<j>> \o t
        BY <1>2, <2>1, <3>1
      <4>2. grid'[p][i] = j \/ \E k \in DOMAIN t : grid'[p][i] = t[k]
        BY <2>2, <4>1
      <4>. QED
        BY <1>1, <1>3, <1>5, <2>1, <4>2
    <3>2. CASE p # page.project
      BY <1>1, <1>2, <1>3, <2>1, <3>2
    <3>. QED
      BY <3>1, <3>2
  <2>4. MediaHolds'
    BY <2>3 DEF IInv, MediaHolds
  <2>. QED
    BY <1>1, <1>2, <2>1, <2>2, <2>4
<1>. QED
  BY <1>4, <1>5

\* Initially nothing is on the page and no task has begun.
LEMMA InitIInv == Init => IInv
<1>. SUFFICES ASSUME Init PROVE IInv
  OBVIOUS
<1>1. ProjectType
  BY MixAssumption, NameAssumption DEF Init, ProjectType, Project
<1>2. TabType
  BY DEF Init, TabType
<1>7. HistoryType
  BY BoundAssumption DEF Init, HistoryType
<1>6. MediaType
  <2>1. grid \in [Project -> Seq(Job)] /\ coming = {}
    BY DEF Init
  <2>2. media \in [Job -> [state : {"none", "loading", "ready", "failed"}, from : SUBSET Job,
                          name : Job \cup {None}]]
    BY DEF Init
  <2>3. look \in [Job -> [Part -> SUBSET Job]]
    BY DEF Init
  <2>. QED
    BY <2>1, <2>2, <2>3 DEF MediaType
<1>3. TaskType
  BY DEF Init, TaskType, Tasks, Stage, Part
<1>4. PageHolds /\ MediaHolds
  BY DEF Init, PageHolds, MediaHolds
<1>5. TaskHolds
  BY DEF Init, TaskHolds, StageFits, Resolved, Working, Using, Stretch
<1>. QED
  BY <1>1, <1>2, <1>3, <1>4, <1>5, <1>6, <1>7 DEF IInv, TypeOK

\* Whoever uses the tab is a task, and the bound on the events is kept.
LEMMA HistoryKept ==
  ASSUME TypeOK
  PROVE  /\ \A j \in Job : Touch(j) => mixed' \subseteq Job
         /\ Event => events' \in 0..MaxEvents
         /\ UNCHANGED events => events' \in 0..MaxEvents
         /\ \A j \in Job : Misled(j) \subseteq Job /\ Confused(j) \subseteq Job
BY BoundAssumption DEF TypeOK, HistoryType, Touch, Event, Misled, Confused

\* The resolution of an alias.
LEMMA ResolveIInv ==
  ASSUME IInv, NEW j \in Job, Lookup(j) \/ Resolve(j)
  PROVE  IInv'
<1>. USE DEF Resolve
<1>1. TypeOK /\ plan[j].alias \in Alias /\ TaskType
  BY KindFacts DEF IInv, TypeOK
<1>2. UNCHANGED <<plan, local, grid, media, look, coming>>
  BY DEF Lookup, OpenHome, ListProjects, ClickNewProject, ReadUrl, Retitle, RetitleAgain, RetitleLost,
     fixed, flowVars
<1>3. MediaType' /\ MediaHolds'
  BY <1>1, <1>2, TypeFrame, HoldsFrame
<1>4. TabType' /\ PageHolds'
  <2>1. CASE OpenHome(j) \/ ClickNewProject(j)
    <3>1. Visit("home", None) \/ Visit("project", j)
      BY <2>1 DEF OpenHome, ClickNewProject
    <3>. QED
      BY <1>1, <3>1, Visits DEF Project
  <2>2. CASE ~(OpenHome(j) \/ ClickNewProject(j))
    <3>1. UNCHANGED tabVars
      BY <2>2 DEF Lookup, ListProjects, ReadUrl, Retitle, RetitleAgain, RetitleLost
    <3>. QED
      BY <1>1, <1>2, <3>1, TypeFrame, HoldsFrame DEF tabVars
  <2>. QED
    BY <2>1, <2>2
<1>5. ASSUME NEW p \in Project, Found(j, p)
      PROVE  /\ mapping' \in [Alias -> Project \cup {None}]
             /\ TaskType' /\ task'[j] = [task[j] EXCEPT !.at = "go", !.project = p]
             /\ \A i \in Job : i # j => task'[i] = task[i]
  BY <1>1, <1>5 DEF Found, TypeOK, ProjectType, TaskType, Tasks, Stage
<1>6. /\ TaskType' /\ \A i \in Job : i # j => task'[i] = task[i]
      /\ \/ task'[j].at \in {"home", "list", "create", "url"}
         \/ task'[j].at \in {"go", "rehome", "retitle"} /\ task'[j].project \in Project
  <2>1. CASE Lookup(j)
    <3>. DEFINE known == mapping[plan[j].alias]
    <3>1. known \in Project \cup {None}
      BY <1>1 DEF TypeOK, ProjectType
    <3>2. task' = [task EXCEPT ![j].at = IF known = None THEN "home" ELSE "go", ![j].project = known]
      BY <2>1 DEF Lookup
    <3>. QED
      BY <1>1, <3>1, <3>2 DEF TaskType, Tasks, Stage
  <2>2. CASE ReadUrl(j)
    <3>1. page.project \in Project
      BY <1>1, <2>2 DEF ReadUrl, TypeOK, TabType
    <3>. QED
      BY <1>1, <2>2, <3>1 DEF ReadUrl, TaskType, Tasks, Stage, Using, Stretch
  <2>3. CASE OpenHome(j) \/ RetitleAgain(j) \/ ClickNewProject(j) \/ (ListProjects(j) /\ GoTo(j, "create"))
    <3>1. \/ \E at \in {"list", "url", "create"} : GoTo(j, at)
          \/ /\ task[j].at \in {"rehome", "retitle"}
             /\ \E at \in {"rehome", "retitle"} : GoTo(j, at)
      BY <2>3 DEF OpenHome, RetitleAgain, ClickNewProject, At
    <3>2. task[j].at \in {"rehome", "retitle"} => task[j].project \in Project
      BY DEF IInv, TaskHolds
    <3>. QED
      BY <1>1, <3>1, <3>2, Goes DEF Stage, Using, Stretch
  <2>4. CASE (ListProjects(j) /\ ~GoTo(j, "create")) \/ Retitle(j) \/ RetitleLost(j)
    <3>1. \E p \in Project : Found(j, p)
      BY <2>4 DEF ListProjects, Retitle, RetitleLost, Titled, At, IInv, TaskHolds
    <3>. QED
      BY <1>1, <1>5, <3>1 DEF Tasks, TaskType
  <2>. QED
    BY <2>1, <2>2, <2>3, <2>4
<1>7. TaskHolds'
  BY <1>2, <1>6 DEF IInv, TaskHolds, StageFits, Generates, Edits, Kinds, Resolved, Working, Using, Stretch
<1>8. ProjectType'
  <2>1. mapping' \in [Alias -> Project \cup {None}]
    BY <1>1, <1>5 DEF Lookup, OpenHome, ListProjects, ClickNewProject, ReadUrl, Retitle, RetitleAgain,
       RetitleLost, TypeOK, ProjectType, Titled, IInv, TaskHolds, At
  <2>2. title' \in [Project -> Alias \cup {"untitled", None}]
    BY <1>1 DEF Lookup, OpenHome, ListProjects, ClickNewProject, ReadUrl, Retitle, RetitleAgain,
       RetitleLost, TypeOK, ProjectType, flowVars, Project
  <2>. QED
    BY <1>1, <1>2, <2>1, <2>2 DEF TypeOK, ProjectType
<1>9. HistoryType'
  <2>1. mixed' \subseteq Job /\ events' \in 0..MaxEvents /\ muddled' = muddled
    BY <1>1, HistoryKept DEF Lookup, OpenHome, ListProjects, ClickNewProject, ReadUrl, Retitle,
       RetitleAgain, RetitleLost, histories, TypeOK, HistoryType
  <2>2. forked' \subseteq Alias
    BY <1>1 DEF Lookup, OpenHome, ListProjects, ClickNewProject, ReadUrl, Retitle, RetitleAgain,
       RetitleLost, histories, TypeOK, HistoryType
  <2>. QED
    BY <1>1, <2>1, <2>2 DEF TypeOK, HistoryType
<1>. QED
  BY <1>3, <1>4, <1>6, <1>7, <1>8, <1>9 DEF IInv, TypeOK

\* A generation: what the page objects read off the page they show.
LEMMA GenerateIInv ==
  ASSUME IInv, NEW j \in Job, Generate(j)
  PROVE  IInv'
<1>. USE DEF Generate
<1>1. TypeOK /\ TaskType /\ grid \in [Project -> Seq(Job)]
  BY DEF IInv, TypeOK, MediaType
<1>2. UNCHANGED <<fixed, mapping, title, look>>
  BY DEF VisitProject, EnterPrompt, PromptLost, Submit, SubmitLost, Started, PollDone, PollTimeout,
     OpenTile, RenameMedia, Download, WaitTimeout, Close, flowVars
<1>3. HistoryType'
  <2>1. mixed' \subseteq Job /\ events' \in 0..MaxEvents /\ forked' = forked /\ muddled' \subseteq Job
    BY <1>1, HistoryKept DEF VisitProject, EnterPrompt, PromptLost, Submit, SubmitLost, Started, PollDone,
       PollTimeout, OpenTile, RenameMedia, Download, WaitTimeout, Close, histories, TypeOK, HistoryType
  <2>. QED
    BY <1>1, <2>1 DEF TypeOK, HistoryType
<1>4. Tile => page.project \in Project /\ Head(grid[page.project]) \in Job
              /\ media[Head(grid[page.project])].from # {}
  <2>. SUFFICES ASSUME Tile PROVE /\ page.project \in Project /\ Head(grid[page.project]) \in Job
                                  /\ media[Head(grid[page.project])].from # {}
    OBVIOUS
  <2>1. page.project \in Project /\ grid[page.project] \in Seq(Job) /\ grid[page.project] # <<>>
    BY <1>1 DEF Tile, IInv, PageHolds
  <2>2. 1 \in DOMAIN grid[page.project] /\ Head(grid[page.project]) = grid[page.project][1]
    BY <2>1, HeadTailProperties, LenProperties, EmptySeq
  <2>. QED
    BY <2>1, <2>2, HeadTailProperties DEF IInv, MediaHolds
<1>5. \A m \in Job : \/ media'[m].from # {}
                     \/ media'[m].from = media[m].from /\ media'[m].state = media[m].state
  <2>1. CASE Submit(j)
    BY <1>1, <2>1 DEF Submit, Submittable, TypeOK, MediaType
  <2>2. CASE RenameMedia(j)
    <3>1. UNCHANGED media \/ media' = [media EXCEPT ![page.item].name = j]
      BY <2>2 DEF RenameMedia
    <3>. QED
      BY <1>1, <3>1, Renamed
  <2>3. CASE ~Submit(j) /\ ~RenameMedia(j)
    BY <2>3 DEF VisitProject, EnterPrompt, PromptLost, SubmitLost, Started, PollDone, PollTimeout, OpenTile,
       Download, WaitTimeout, Close, flowVars
  <2>. QED
    BY <2>1, <2>2, <2>3
<1>6. /\ grid' \in [Project -> Seq(Job)] /\ MediaHolds'
      /\ \A m \in Job : media[m].from # {} => media'[m].from # {}
  <2>1. CASE Submit(j)
    <3>1. /\ page.at = "project" /\ grid' = [grid EXCEPT ![page.project] = <<j>> \o @]
          /\ media'[j].from # {}
      BY <1>1, <2>1 DEF Submit, Submittable, TypeOK, MediaType
    <3>. QED
      BY <1>5, <3>1, TilesHold
  <2>2. CASE ~Submit(j)
    <3>1. UNCHANGED grid
      BY <2>2 DEF VisitProject, EnterPrompt, PromptLost, SubmitLost, Started, PollDone, PollTimeout, OpenTile,
         RenameMedia, Download, WaitTimeout, Close, flowVars
    <3>. QED
      BY <1>5, <3>1, TilesHold
  <2>. QED
    BY <2>1, <2>2
<1>7. page.at = "media" => page.item \in Job /\ media[page.item].from \in Content
  BY <1>1 DEF IInv, PageHolds, TypeOK, MediaType, Content
<1>8. MediaType'
  <2>1. media' \in [Job -> [state : {"none", "loading", "ready", "failed"}, from : SUBSET Job,
                           name : Job \cup {None}]]
    <3>1. \/ UNCHANGED media
          \/ media' = [media EXCEPT ![j] = [state |-> "loading", from |-> prompt, name |-> None]]
          \/ media' = [media EXCEPT ![page.item].name = j]
      BY DEF VisitProject, EnterPrompt, PromptLost, Submit, SubmitLost, Started, PollDone,
         PollTimeout, OpenTile, RenameMedia, Download, WaitTimeout, Close, flowVars
    <3>2. CASE media' = [media EXCEPT ![j] = [state |-> "loading", from |-> prompt, name |-> None]]
      BY <1>1, <3>2 DEF TypeOK, MediaType, TabType
    <3>. QED
      BY <1>1, <3>1, <3>2, Renamed DEF TypeOK, MediaType
  <2>2. coming' \subseteq [name : Job \cup {None, "character"}, from : Content]
    BY <1>1, <1>7 DEF VisitProject, EnterPrompt, PromptLost, Submit, SubmitLost, Started, PollDone,
       PollTimeout, OpenTile, RenameMedia, Download, WaitTimeout, Close, TypeOK, MediaType
  <2>. QED
    BY <1>1, <1>2, <1>6, <2>1, <2>2 DEF TypeOK, MediaType
<1>9. TabType' /\ PageHolds'
  <2>1. CASE VisitProject(j)
    BY <1>1, <2>1, Visits DEF VisitProject, IInv, TaskHolds, At, Resolved
  <2>2. CASE OpenTile(j)
    BY <1>1, <1>4, <1>6, <2>2 DEF OpenTile, Show, Tile, IInv, TypeOK, TabType, PageHolds, flowVars
  <2>3. CASE Close(j)
    BY <1>1, <2>3 DEF Close, Show, tabVars, flowVars, IInv, TypeOK, TabType, PageHolds
  <2>4. CASE ~VisitProject(j) /\ ~OpenTile(j) /\ ~Close(j)
    <3>1. page' = page /\ error' = error /\ prompt' \subseteq Job
      BY <1>1, <2>4 DEF EnterPrompt, PromptLost, Submit, SubmitLost, Started, PollDone, PollTimeout,
         RenameMedia, Download, WaitTimeout, tabVars, TypeOK, TabType
    <3>. QED
      BY <1>1, <1>6, <3>1 DEF IInv, TypeOK, TabType, PageHolds
  <2>. QED
    BY <2>1, <2>2, <2>3, <2>4
<1>10. task[j].project \in Project
  BY DEF VisitProject, EnterPrompt, PromptLost, Submit, SubmitLost, Started, PollDone, PollTimeout, OpenTile,
     RenameMedia, Download, WaitTimeout, Close, At, IInv, TaskHolds, Resolved, Working, Using, Stretch
<1>11. /\ TaskType' /\ task'[j].project = task[j].project /\ StageFits(j)'
       /\ \A i \in Job : i # j => task'[i] = task[i]
  <2>1. plan' = plan /\ StageFits(j)
    BY <1>2 DEF fixed, IInv, TaskHolds
  <2>2. CASE VisitProject(j)
    <3>1. GoTo(j, FirstStage(j)) /\ FirstStage(j) \in {"prompt", "add", "new"}
      BY <1>1, <2>2, KindFacts DEF VisitProject
    <3>. QED
      BY <1>1, <2>1, <3>1, Goes, KindFacts DEF StageFits, Stage, Using, Generates, Edits, Kinds
  <2>3. CASE Submit(j) \/ SubmitLost(j)
    <3>1. Tiles(j) \in Nat
      BY <1>1, <2>3, LenProperties DEF Submit, SubmitLost, Submittable, Tiles, IInv, PageHolds
    <3>2. task' = [task EXCEPT ![j].at = "start", ![j].tiles = Tiles(j)] /\ At(j, "submit")
      BY <2>3 DEF Submit, SubmitLost
    <3>3. /\ TaskType' /\ task'[j] = [task[j] EXCEPT !.at = "start", !.tiles = Tiles(j)]
          /\ \A i \in Job : i # j => task'[i] = task[i]
      BY <1>1, <3>1, <3>2 DEF TaskType, Tasks, Stage, Using
    <3>. QED
      BY <1>1, <2>1, <3>2, <3>3 DEF StageFits, At, Generates, Edits, Kinds, TaskType, Tasks
  <2>4. CASE RenameMedia(j)
    <3>1. PICK files \in SUBSET Content :
            task' = [task EXCEPT ![j].at = "download", ![j].files = files]
      <4>1. task[j].files \in SUBSET Content
        BY <1>1 DEF TaskType, Tasks
      <4>. QED
        BY <1>7, <2>4, <4>1 DEF RenameMedia
    <3>2. /\ TaskType' /\ task'[j] = [task[j] EXCEPT !.at = "download", !.files = files]
          /\ \A i \in Job : i # j => task'[i] = task[i]
      BY <1>1, <3>1 DEF TaskType, Tasks, Stage, Using
    <3>. QED
      BY <1>1, <2>1, <2>4, <3>2 DEF RenameMedia, StageFits, At, Generates, Edits, Kinds, TaskType, Tasks
  <2>5. CASE EnterPrompt(j) \/ PromptLost(j) \/ Started(j) \/ PollDone(j) \/ PollTimeout(j) \/ OpenTile(j)
    <3>1. Generates(j)
      BY <2>1, <2>5 DEF EnterPrompt, PromptLost, Started, PollDone, PollTimeout, OpenTile, At, StageFits
    <3>2. \E at \in {"submit", "poll", "open", "raised", "rename"} : GoTo(j, at)
      BY <2>5 DEF EnterPrompt, PromptLost, Started, PollDone, PollTimeout, OpenTile
    <3>. QED
      BY <1>1, <2>1, <3>1, <3>2, Goes DEF StageFits, Stage, Using, Generates, Edits, Kinds
  <2>6. CASE Download(j) \/ WaitTimeout(j) \/ Close(j)
    <3>1. Generates(j) \/ Edits(j)
      BY <2>1, <2>6 DEF Download, WaitTimeout, Close, At, StageFits
    <3>2. \E at \in {"wait", "close", "raised", "done"} : GoTo(j, at)
      BY <2>6 DEF Download, WaitTimeout, Close
    <3>. QED
      BY <1>1, <2>1, <3>1, <3>2, Goes DEF StageFits, Stage, Using, Generates, Edits, Kinds
  <2>. QED
    BY <2>2, <2>3, <2>4, <2>5, <2>6
<1>12. TaskHolds'
  BY <1>2, <1>10, <1>11, GoesHolding DEF fixed
<1>13. ProjectType'
  BY <1>1, <1>2, TypeFrame
<1>. QED
  BY <1>3, <1>6, <1>8, <1>9, <1>11, <1>12, <1>13 DEF IInv, TypeOK

\* An upload.
LEMMA UploadIInv ==
  ASSUME IInv, NEW j \in Job, UploadFile(j)
  PROVE  IInv'
<1>. USE DEF UploadFile
<1>1. TypeOK /\ TaskType
  BY DEF IInv, TypeOK
<1>2. UNCHANGED <<fixed, mapping, title, look, coming, muddled, forked, events>> /\ Touch(j)
  BY DEF VisitForClip, AddMedia, Uploaded, NameUpload, flowVars
<1>3. HistoryType' /\ ProjectType'
  BY <1>1, <1>2, HistoryKept, TypeFrame DEF TypeOK, HistoryType
<1>4. \/ UNCHANGED media
      \/ media' = [media EXCEPT ![j] = [state |-> "ready", from |-> {j}, name |-> None]]
      \/ media' = [media EXCEPT ![page.item].name = j]
  BY DEF VisitForClip, AddMedia, Uploaded, NameUpload, flowVars
<1>5. /\ media' \in [Job -> [state : {"none", "loading", "ready", "failed"}, from : SUBSET Job,
                             name : Job \cup {None}]]
      /\ \A m \in Job : \/ media'[m].from # {}
                        \/ media'[m].from = media[m].from /\ media'[m].state = media[m].state
  <2>1. CASE media' = [media EXCEPT ![j] = [state |-> "ready", from |-> {j}, name |-> None]]
    BY <1>1, <2>1 DEF TypeOK, MediaType
  <2>. QED
    BY <1>1, <1>4, <2>1, Renamed DEF TypeOK, MediaType
<1>6. /\ grid' \in [Project -> Seq(Job)] /\ MediaHolds'
      /\ \A m \in Job : media[m].from # {} => media'[m].from # {}
  <2>1. CASE AddMedia(j)
    <3>1. /\ page.at = "project" /\ grid' = [grid EXCEPT ![page.project] = <<j>> \o @]
          /\ media'[j].from # {}
      BY <1>1, <2>1 DEF AddMedia, TypeOK, MediaType
    <3>. QED
      BY <1>5, <3>1, TilesHold
  <2>2. CASE ~AddMedia(j)
    <3>1. UNCHANGED grid
      BY <2>2 DEF VisitForClip, Uploaded, NameUpload, flowVars
    <3>. QED
      BY <1>5, <3>1, TilesHold
  <2>. QED
    BY <2>1, <2>2
<1>7. MediaType'
  BY <1>1, <1>2, <1>5, <1>6 DEF TypeOK, MediaType
<1>8. TabType' /\ PageHolds'
  <2>1. CASE Uploaded(j)
    <3>1. page.at = "project" /\ page.project \in Project /\ page' = [page EXCEPT !.at = "media", !.item = j]
          /\ prompt' = {} /\ error' = FALSE
      BY <2>1 DEF Uploaded, Tile, Show, IInv, PageHolds
    <3>2. media'[j].from # {}
      <4>1. 1 \in DOMAIN grid[page.project] /\ grid[page.project][1] = j
        BY <1>1, <2>1, <3>1, HeadTailProperties, LenProperties, EmptySeq DEF Uploaded, Tile, TypeOK, MediaType
      <4>. QED
        BY <1>6, <3>1, <4>1 DEF IInv, MediaHolds
    <3>. QED
      BY <1>1, <3>1, <3>2 DEF TypeOK, TabType, PageHolds
  <2>2. CASE ~Uploaded(j)
    <3>1. \/ UNCHANGED tabVars
          \/ Visit("project", task[j].project) /\ task[j].project \in Project
          \/ Show("project", None) /\ page.at = "media"
      BY <2>2 DEF VisitForClip, AddMedia, NameUpload, At, IInv, TaskHolds, Resolved
    <3>2. CASE UNCHANGED tabVars
      BY <1>1, <1>6, <3>2, TypeFrame DEF tabVars, IInv, PageHolds
    <3>3. CASE Show("project", None) /\ page.at = "media"
      BY <1>1, <3>3 DEF Show, IInv, TypeOK, TabType, PageHolds
    <3>. QED
      BY <1>1, <3>1, <3>2, <3>3, Visits
  <2>. QED
    BY <2>1, <2>2
<1>9. TaskType' /\ TaskHolds'
  <2>1. plan' = plan /\ StageFits(j) /\ task[j].project \in Project
    BY <1>2 DEF fixed, IInv, TaskHolds, VisitForClip, AddMedia, Uploaded, NameUpload, At, Resolved, Working,
       Using, Stretch
  <2>2. Kinds(j, {"upload", "clip"}) /\ \E at \in {"add", "upload", "name", "done"} : GoTo(j, at)
    BY <2>1 DEF VisitForClip, AddMedia, Uploaded, NameUpload, At, StageFits, Kinds
  <2>3. /\ TaskType' /\ task'[j].project = task[j].project /\ StageFits(j)'
        /\ \A i \in Job : i # j => task'[i] = task[i]
    BY <1>1, <2>1, <2>2, Goes DEF StageFits, Stage, Using, Kinds
  <2>. QED
    BY <2>1, <2>3, GoesHolding
<1>. QED
  BY <1>3, <1>6, <1>7, <1>8, <1>9 DEF IInv, TypeOK

\* A character.
LEMMA CharacterIInv ==
  ASSUME IInv, NEW j \in Job, MakeCharacter(j)
  PROVE  IInv'
<1>. USE DEF MakeCharacter
<1>1. TypeOK /\ TaskType
  BY DEF IInv, TypeOK
<1>2. UNCHANGED <<fixed, mapping, title, grid, media, forked, events>>
  BY DEF NewCharacter, Portray, NoFullbody, Portrayed, DownloadCharacter, NextPart, SaveCharacter,
     flowVars, histories
<1>3. HistoryType' /\ ProjectType' /\ MediaHolds'
  <2>1. mixed' \subseteq Job /\ muddled' \subseteq Job
    BY <1>1, HistoryKept DEF NewCharacter, Portray, NoFullbody, Portrayed, DownloadCharacter, NextPart,
       SaveCharacter, flowVars, histories, TypeOK, HistoryType
  <2>. QED
    BY <1>1, <1>2, <2>1, TypeFrame, HoldsFrame DEF TypeOK, HistoryType
<1>4. page.at = "editor" => page.item \in Job
  BY DEF IInv, PageHolds
<1>5. look' \in [Job -> [Part -> SUBSET Job]]
  <2>1. UNCHANGED look \/ look' = [look EXCEPT ![page.item][task[j].part] = {j}]
    BY DEF NewCharacter, Portray, NoFullbody, Portrayed, DownloadCharacter, NextPart, SaveCharacter, flowVars
  <2>2. task[j].part \in Part
    BY <1>1 DEF TaskType, Tasks
  <2>. QED
    BY <1>1, <2>1, <2>2, Drawn DEF TypeOK, MediaType
<1>6. coming' \subseteq [name : Job \cup {None, "character"}, from : Content]
  <2>1. \A i \in Job, p \in Part : look[i][p] \in SUBSET Job
    BY <1>1 DEF TypeOK, MediaType
  <2>. QED
    BY <1>1, <1>4, <2>1 DEF NewCharacter, Portray, NoFullbody, Portrayed, DownloadCharacter, NextPart,
       SaveCharacter, TypeOK, MediaType, Content
<1>7. MediaType'
  BY <1>1, <1>2, <1>5, <1>6 DEF TypeOK, MediaType
<1>8. TabType' /\ PageHolds'
  <2>1. \/ UNCHANGED tabVars
        \/ Show("editor", j) /\ page.at = "project"
        \/ Show("project", None) /\ page.at = "editor"
    BY DEF NewCharacter, Portray, NoFullbody, Portrayed, DownloadCharacter, NextPart, SaveCharacter
  <2>2. CASE UNCHANGED tabVars
    BY <1>1, <1>2, <2>2, TypeFrame, HoldsFrame DEF tabVars
  <2>3. CASE Show("editor", j) /\ page.at = "project"
    BY <1>1, <2>3 DEF Show, IInv, TypeOK, TabType, PageHolds
  <2>4. CASE Show("project", None) /\ page.at = "editor"
    BY <1>1, <2>4 DEF Show, IInv, TypeOK, TabType, PageHolds
  <2>. QED
    BY <2>1, <2>2, <2>3, <2>4
<1>9. TaskType' /\ TaskHolds'
  <2>1. plan' = plan /\ StageFits(j) /\ task[j].project \in Project
    BY <1>2 DEF fixed, IInv, TaskHolds, NewCharacter, Portray, NoFullbody, Portrayed, DownloadCharacter,
       NextPart, SaveCharacter, At, Resolved, Working, Using, Stretch
  <2>2. Edits(j)
    BY <2>1 DEF NewCharacter, Portray, NoFullbody, Portrayed, DownloadCharacter, NextPart, SaveCharacter, At,
       StageFits, Edits
  <2>3. /\ TaskType' /\ task'[j].project = task[j].project
        /\ task'[j].at \in {"portray", "portrayed", "download", "wait", "close", "save", "done"}
        /\ \A i \in Job : i # j => task'[i] = task[i]
    <3>1. CASE \E at \in {"portray", "portrayed", "download", "wait", "close", "save", "done"} : GoTo(j, at)
      BY <1>1, <3>1, Goes DEF Stage, Using
    <3>2. CASE task' = [task EXCEPT ![j].at = "portray", ![j].part = "fullbody"]
      BY <1>1, <3>2 DEF TaskType, Tasks, Stage, Using, Part
    <3>. QED
      BY <3>1, <3>2 DEF NewCharacter, Portray, NoFullbody, Portrayed, DownloadCharacter, NextPart, SaveCharacter
  <2>4. StageFits(j)'
    BY <2>1, <2>2, <2>3 DEF StageFits, Edits, Generates, Kinds
  <2>. QED
    BY <2>1, <2>3, <2>4, GoesHolding
<1>. QED
  BY <1>3, <1>7, <1>8, <1>9 DEF IInv, TypeOK


\* A task raises: what Flow has begun goes on.
LEMMA RaiseIInv ==
  ASSUME IInv, NEW j \in Job, Raise(j)
  PROVE  IInv'
<1>1. TypeOK /\ TaskType
  BY DEF IInv, TypeOK
<1>2. /\ UNCHANGED <<fixed, mapping, tabVars, flowVars, coming, mixed, forked>> /\ GoTo(j, "raised")
      /\ muddled' = muddled \cup Misled(j) /\ (Event \/ UNCHANGED events)
  BY DEF Raise
<1>3. ProjectType' /\ TabType' /\ MediaType' /\ PageHolds' /\ MediaHolds'
  BY <1>1, <1>2, TypeFrame, HoldsFrame DEF flowVars, tabVars
<1>4. HistoryType'
  BY <1>1, <1>2, HistoryKept DEF TypeOK, HistoryType
<1>5. /\ TaskType' /\ task'[j].at = "raised" /\ \A i \in Job : i # j => task'[i] = task[i]
  BY <1>1, <1>2, Goes DEF Stage
<1>6. TaskHolds'
  BY <1>2, <1>5 DEF fixed, IInv, TaskHolds, StageFits, Generates, Edits, Kinds, Resolved, Working, Using
<1>. QED
  BY <1>3, <1>4, <1>5, <1>6 DEF IInv, TypeOK

\* A media is ready or has failed, and is what it was otherwise.
LEMMA Ended ==
  ASSUME TypeOK, NEW m \in Job, MediaEnds(m)
  PROVE  /\ media' \in [Job -> [state : {"none", "loading", "ready", "failed"}, from : SUBSET Job,
                                name : Job \cup {None}]]
         /\ media[m].state = "loading" /\ media'[m].state \in {"ready", "failed"}
         /\ \A i \in Job : /\ media'[i].from = media[i].from /\ media'[i].name = media[i].name
                           /\ i # m => media'[i] = media[i]
<1>1. PICK state \in {"ready", "failed"} : media' = [media EXCEPT ![m].state = state]
  BY DEF MediaEnds
<1>2. media[m].state = "loading"
  BY DEF MediaEnds
<1>3. media \in [Job -> [state : {"none", "loading", "ready", "failed"}, from : SUBSET Job,
                         name : Job \cup {None}]]
  BY DEF TypeOK, MediaType
<1>. QED
  BY <1>1, <1>2, <1>3

\* A file arrives for whom waits for it.
LEMMA Arrives ==
  ASSUME TypeOK, NEW d \in coming, Arrive(d)
  PROVE  /\ TaskType'
         /\ \A j \in Job :
              /\ task'[j].project = task[j].project /\ task'[j].part = task[j].part
              /\ ~Waits(j, d) => task'[j] = task[j]
              /\ Waits(j, d) => /\ task[j].at = "wait" /\ task'[j].at = "close"
                                /\ task'[j].files = task[j].files \cup {d.from}
<1>1. d.from \in Content
  BY DEF TypeOK, MediaType
<1>2. task \in [Job -> Tasks]
  BY DEF TypeOK, TaskType
<1>3. ASSUME NEW j \in Job
      PROVE  task'[j] = IF Waits(j, d)
               THEN [task[j] EXCEPT !.at = "close", !.files = task[j].files \cup {d.from}] ELSE task[j]
  BY DEF Arrive
<1>4. \A j \in Job : task[j] \in Tasks /\ task[j].files \cup {d.from} \in SUBSET Content
  BY <1>1, <1>2 DEF Tasks
<1>5. ASSUME NEW j \in Job
      PROVE  /\ task'[j] \in Tasks
             /\ task'[j].project = task[j].project /\ task'[j].part = task[j].part
             /\ ~Waits(j, d) => task'[j] = task[j]
             /\ Waits(j, d) => task'[j].at = "close" /\ task'[j].files = task[j].files \cup {d.from}
  <2>1. CASE Waits(j, d)
    <3>. DEFINE files == task[j].files \cup {d.from}
    <3>1. task'[j] = [task[j] EXCEPT !.at = "close", !.files = files]
      BY <1>3, <2>1
    <3>2. task[j] \in Tasks /\ files \in SUBSET Content
      BY <1>4
    <3>. HIDE DEF files
    <3>3. PICK t \in Tasks, g \in SUBSET Content : t = task[j] /\ g = files
      BY <3>2
    <3>4. task'[j] = [t EXCEPT !.at = "close", !.files = g]
      BY <3>1, <3>3
    <3>5. /\ task'[j] \in Tasks /\ task'[j].project = t.project /\ task'[j].part = t.part
          /\ task'[j].at = "close" /\ task'[j].files = g
      BY <3>4 DEF Tasks, Stage, Using
    <3>. QED
      BY <2>1, <3>3, <3>5 DEF files
  <2>2. CASE ~Waits(j, d)
    BY <1>3, <1>4, <2>2
  <2>. QED
    BY <2>1, <2>2
<1>6. TaskType'
  BY <1>5 DEF Arrive, TaskType
<1>. QED
  BY <1>5, <1>6 DEF Waits, At

\* What Flow and Chrome do by themselves.
LEMMA FlowIInv ==
  ASSUME IInv, (\E m \in Job : MediaEnds(m)) \/ \E d \in coming : Arrive(d)
  PROVE  IInv'
<1>1. TypeOK
  BY DEF IInv
<1>2. CASE \E m \in Job : MediaEnds(m)
  <2>1. PICK m \in Job : MediaEnds(m)
    BY <1>2
  <2>2. /\ UNCHANGED <<fixed, mapping, page, prompt, title, grid, look, coming, task, histories, events>>
        /\ error' \in BOOLEAN
    BY <2>1 DEF MediaEnds
  <2>3. ProjectType' /\ TaskType' /\ HistoryType' /\ TaskHolds'
    BY <1>1, <2>2, TypeFrame, HoldsFrame DEF fixed
  <2>4. TabType'
    BY <1>1, <2>2 DEF TypeOK, TabType
  <2>5. MediaType' /\ MediaHolds'
    BY <1>1, <2>1, <2>2, Ended, TilesHold DEF TypeOK, MediaType, IInv, MediaHolds
  <2>6. PageHolds'
    BY <1>1, <2>1, <2>2, Ended DEF IInv, PageHolds
  <2>. QED
    BY <2>3, <2>4, <2>5, <2>6 DEF IInv, TypeOK
<1>3. CASE \E d \in coming : Arrive(d)
  <2>1. PICK d \in coming : Arrive(d)
    BY <1>3
  <2>2. /\ UNCHANGED <<fixed, mapping, tabVars, flowVars, histories, events>>
        /\ coming' \subseteq coming
    BY <2>1 DEF Arrive
  <2>3. ProjectType' /\ TabType' /\ HistoryType' /\ PageHolds' /\ MediaHolds'
    BY <1>1, <2>2, TypeFrame, HoldsFrame DEF tabVars, flowVars
  <2>4. MediaType'
    BY <1>1, <2>2 DEF TypeOK, MediaType, flowVars
  <2>5. TaskType' /\ TaskHolds'
    BY <1>1, <2>1, <2>2, Arrives DEF IInv, TaskHolds, StageFits, Generates, Edits, Kinds, Resolved, Working,
       Using, Stretch, fixed
  <2>. QED
    BY <2>3, <2>4, <2>5 DEF IInv, TypeOK
<1>. QED
  BY <1>2, <1>3

Tools ==
  \/ \E p \in Project : ToolLists(p) \/ \E a \in Alias : ProjectOpen(a, p)
  \/ OpenWebsite \/ ProjectList

\* What every tool does.
LEMMA ToolFacts ==
  ASSUME TypeOK, Tools
  PROVE  /\ Tool /\ mixed' \subseteq Job
         /\ UNCHANGED tabVars \/ Visit("home", None) \/ \E p \in Project : Visit("project", p)
         /\ mapping' \in [Alias -> Project \cup {None}]
<1>1. mapping \in [Alias -> Project \cup {None}]
  BY DEF TypeOK, ProjectType
<1>2. Tool => mixed' \subseteq Job
  BY DEF Tool, TypeOK, HistoryType
<1>3. CASE \E p \in Project : ToolLists(p)
  BY <1>1, <1>2, <1>3 DEF ToolLists
<1>4. CASE \E p \in Project : \E a \in Alias : ProjectOpen(a, p)
  BY <1>1, <1>2, <1>4 DEF ProjectOpen
<1>5. CASE OpenWebsite
  BY <1>1, <1>2, <1>5 DEF OpenWebsite
<1>6. CASE ProjectList
  <2>1. ASSUME NEW a \in Alias, Titled(a) # {} PROVE (CHOOSE p \in Titled(a) : TRUE) \in Project
    <3>1. (CHOOSE p \in Titled(a) : TRUE) \in Titled(a)
      BY <2>1
    <3>. QED
      BY <3>1 DEF Titled
  <2>2. mapping' = [a \in Alias |->
          IF Unambiguous /\ Titled(a) # {} THEN CHOOSE p \in Titled(a) : TRUE ELSE mapping[a]]
    BY <1>6 DEF ProjectList
  <2>3. mapping' \in [Alias -> Project \cup {None}]
    BY <1>1, <2>1, <2>2
  <2>. QED
    BY <1>2, <1>6, <2>3 DEF ProjectList
<1>. QED
  BY <1>3, <1>4, <1>5, <1>6 DEF Tools

\* A tool opens a page.
LEMMA ToolIInv ==
  ASSUME IInv, Tools
  PROVE  IInv'
<1>1. TypeOK
  BY DEF IInv
<1>2. /\ UNCHANGED <<fixed, flowVars, coming, task, muddled, forked>> /\ Event
  BY <1>1, ToolFacts DEF Tool
<1>3. MediaType' /\ TaskType' /\ MediaHolds' /\ TaskHolds'
  BY <1>1, <1>2, TypeFrame, HoldsFrame DEF flowVars, fixed
<1>4. HistoryType'
  BY <1>1, <1>2, ToolFacts, HistoryKept DEF TypeOK, HistoryType
<1>5. ProjectType'
  BY <1>1, <1>2, ToolFacts DEF TypeOK, ProjectType, fixed, flowVars
<1>6. TabType' /\ PageHolds'
  <2>1. UNCHANGED tabVars => TabType' /\ PageHolds'
    BY <1>1, <1>2, TypeFrame, HoldsFrame DEF tabVars, flowVars
  <2>2. ASSUME NEW p \in Project, Visit("project", p) PROVE TabType' /\ PageHolds'
    BY <1>1, <2>2, Visits
  <2>3. Visit("home", None) => TabType' /\ PageHolds'
    BY <1>1, Visits
  <2>. QED
    BY <1>1, <2>1, <2>2, <2>3, ToolFacts
<1>. QED
  BY <1>3, <1>4, <1>5, <1>6 DEF IInv, TypeOK

\* A restart interrupts every task that has begun and is not done.
LEMMA Restarts ==
  ASSUME TypeOK, Restart
  PROVE  /\ TaskType'
         /\ \A j \in Job :
              /\ task'[j].project = task[j].project /\ task'[j].files = task[j].files
              /\ task[j].at \in {"lookup", "done"} => task'[j] = task[j]
              /\ task[j].at \notin {"lookup", "done"} => task'[j].at = "raised"
<1>1. task \in [Job -> Tasks]
  BY DEF TypeOK, TaskType
<1>2. ASSUME NEW t \in Tasks
      PROVE  /\ [t EXCEPT !.at = "raised"] \in Tasks
             /\ [t EXCEPT !.at = "raised"].project = t.project
             /\ [t EXCEPT !.at = "raised"].files = t.files
             /\ [t EXCEPT !.at = "raised"].at = "raised"
  BY DEF Tasks, Stage
<1>3. \A j \in Job : task'[j] = IF task[j].at \in {"lookup", "done"} THEN task[j]
                                ELSE [task[j] EXCEPT !.at = "raised"]
  BY DEF Restart
<1>4. \A j \in Job : task[j] \in Tasks
  BY <1>1
<1>5. TaskType'
  <2>1. \A j \in Job : task'[j] \in Tasks
    BY <1>2, <1>3, <1>4
  <2>. QED
    BY <2>1 DEF Restart, TaskType
<1>6. ASSUME NEW j \in Job
      PROVE  /\ task'[j].project = task[j].project /\ task'[j].files = task[j].files
             /\ task[j].at \in {"lookup", "done"} => task'[j] = task[j]
             /\ task[j].at \notin {"lookup", "done"} => task'[j].at = "raised"
  <2>1. CASE task[j].at \in {"lookup", "done"}
    BY <1>3, <2>1
  <2>2. CASE task[j].at \notin {"lookup", "done"}
    <3>1. task'[j] = [task[j] EXCEPT !.at = "raised"]
      BY <1>3, <2>2
    <3>. QED
      BY <1>2, <1>4, <2>2, <3>1
  <2>. QED
    BY <2>1, <2>2
<1>. QED
  BY <1>5, <1>6

\* A restart keeps the types.
LEMMA RestartIInv ==
  ASSUME IInv, Restart
  PROVE  IInv'
<1>1. TypeOK
  BY DEF IInv
<1>2. /\ UNCHANGED <<fixed, tabVars, flowVars, coming, mixed, forked>> /\ Event
      /\ mapping' = [a \in Alias |-> None]
      /\ muddled' = muddled \cup UNION {Misled(j) : j \in Job}
  BY DEF Restart
<1>3. TabType' /\ MediaType' /\ PageHolds' /\ MediaHolds'
  BY <1>1, <1>2, TypeFrame, HoldsFrame DEF flowVars, tabVars
<1>4. HistoryType'
  <2>1. muddled' \subseteq Job
    BY <1>1, <1>2, HistoryKept DEF TypeOK, HistoryType
  <2>. QED
    BY <1>1, <1>2, <2>1, HistoryKept DEF TypeOK, HistoryType
<1>5. ProjectType'
  BY <1>1, <1>2 DEF TypeOK, ProjectType, fixed, flowVars
<1>6. TaskType' /\ TaskHolds'
  BY <1>1, <1>2, Restarts DEF IInv, TaskHolds, StageFits, Generates, Edits, Kinds, Resolved, Working, Using,
     Stretch, fixed
<1>. QED
  BY <1>3, <1>4, <1>5, <1>6 DEF IInv, TypeOK

\* The actors: a task, Flow and Chrome, a tool, a restart.
LEMMA Actors ==
  ASSUME [Next]_vars
  PROVE  \/ \E j \in Job : Lookup(j) \/ Resolve(j) \/ Generate(j) \/ UploadFile(j) \/ MakeCharacter(j) \/ Raise(j)
         \/ (\E m \in Job : MediaEnds(m)) \/ \E d \in coming : Arrive(d)
         \/ Tools \/ Restart \/ UNCHANGED vars
BY DEF Next, Step, Tools

\* Every step keeps the invariant.
LEMMA NextIInv ==
  ASSUME IInv, [Next]_vars
  PROVE  IInv'
<1>1. CASE \E j \in Job : Lookup(j) \/ Resolve(j) \/ Generate(j) \/ UploadFile(j) \/ MakeCharacter(j) \/ Raise(j)
  BY <1>1, ResolveIInv, GenerateIInv, UploadIInv, CharacterIInv, RaiseIInv
<1>2. CASE UNCHANGED vars
  <2>1. TypeOK
    BY DEF IInv
  <2>2. UNCHANGED <<fixed, mapping, tabVars, flowVars, coming, task, histories, events>>
    BY <1>2 DEF vars
  <2>3. TypeOK'
    BY <2>1, <2>2, TypeFrame DEF TypeOK, flowVars
  <2>4. PageHolds' /\ MediaHolds' /\ TaskHolds'
    BY <2>2, HoldsFrame DEF flowVars, tabVars, fixed
  <2>. QED
    BY <2>3, <2>4 DEF IInv
<1>. QED
  BY <1>1, <1>2, FlowIInv, ToolIInv, RestartIInv, Actors

\* The invariant of the types holds in every reachable state.
THEOREM TypesHold == Spec => []IInv
<1>1. IInv /\ [Next]_vars => IInv'
  BY NextIInv
<1>. QED
  BY <1>1, InitIInv, PTL DEF Spec

\* Every variable stays in its domain: in particular a detail page always shows a media, a
\* task always knows its project when it generates, and a file is never made of nothing.
THEOREM TypeCorrect == Spec => []TypeOK
<1>1. IInv => TypeOK
  BY DEF IInv
<1>. QED
  BY <1>1, TypesHold, PTL

----------------------------------------------------------------------------
(* Whoever is not mixed up with another has the tab to itself *)

\* Every step of a task, and what it leaves alone when it does not touch the tab.
LEMMA OneMoves ==
  ASSUME IInv, NEW i \in Job, Lookup(i) \/ Step(i)
  PROVE  /\ \A j \in Job : j # i => task'[j] = task[j]
         /\ UNCHANGED fixed
         /\ \/ Touch(i)
            \/ /\ UNCHANGED <<tabVars, title, grid, media, coming, mixed>>
               /\ UNCHANGED look \/ Portrayed(i)
<1>1. UNCHANGED fixed
  BY DEF Step, Lookup, Resolve, OpenHome, ListProjects, ClickNewProject, ReadUrl, Retitle, RetitleAgain, RetitleLost,
     Generate, VisitProject, EnterPrompt, PromptLost, Submit, SubmitLost, Started, PollDone, PollTimeout, OpenTile,
     RenameMedia, Download, WaitTimeout, Close, UploadFile, VisitForClip, AddMedia, Uploaded, NameUpload,
     MakeCharacter, NewCharacter, Portray, NoFullbody, Portrayed, DownloadCharacter, NextPart, SaveCharacter, Raise
<1>2. \A j \in Job : j # i => task'[j] = task[j]
  <2>1. task \in [Job -> Tasks]
    BY DEF IInv, TypeOK, TaskType
  <2>2. CASE Lookup(i) \/ Resolve(i)
    BY <2>1, <2>2 DEF Lookup, Resolve, OpenHome, ListProjects, ClickNewProject, ReadUrl, Retitle, RetitleAgain,
       RetitleLost, GoTo, Found
  <2>3. CASE Generate(i) \/ Raise(i)
    BY <2>1, <2>3 DEF Generate, VisitProject, EnterPrompt, PromptLost, Submit, SubmitLost, Started, PollDone,
       PollTimeout, OpenTile, RenameMedia, Download, WaitTimeout, Close, Raise, GoTo
  <2>4. CASE UploadFile(i) \/ MakeCharacter(i)
    BY <2>1, <2>4 DEF UploadFile, VisitForClip, AddMedia, Uploaded, NameUpload, MakeCharacter, NewCharacter,
       Portray, NoFullbody, Portrayed, DownloadCharacter, NextPart, SaveCharacter, GoTo
  <2>. QED
    BY <2>2, <2>3, <2>4 DEF Step
<1>3. \/ Touch(i)
      \/ /\ UNCHANGED <<tabVars, title, grid, media, coming, mixed>>
         /\ UNCHANGED look \/ Portrayed(i)
  <2>1. CASE Lookup(i) \/ Resolve(i)
    BY <2>1 DEF Lookup, Resolve, OpenHome, ListProjects, ClickNewProject, ReadUrl, Retitle, RetitleAgain,
       RetitleLost, flowVars, histories
  <2>2. CASE Generate(i) \/ Raise(i)
    BY <2>2 DEF Generate, VisitProject, EnterPrompt, PromptLost, Submit, SubmitLost, Started, PollDone,
       PollTimeout, OpenTile, RenameMedia, Download, WaitTimeout, Close, Raise, flowVars, histories
  <2>3. CASE UploadFile(i) \/ MakeCharacter(i)
    BY <2>3 DEF UploadFile, VisitForClip, AddMedia, Uploaded, NameUpload, MakeCharacter, NewCharacter,
       Portray, NoFullbody, Portrayed, DownloadCharacter, NextPart, SaveCharacter, flowVars, histories
  <2>. QED
    BY <2>1, <2>2, <2>3 DEF Step
<1>. QED
  BY <1>1, <1>2, <1>3

\* The histories only grow, and who touches the tab is mixed up with whoever uses it.
LEMMA Touched ==
  ASSUME IInv, NEW i \in Job, Touch(i)
  PROVE  /\ mixed \subseteq mixed'
         /\ \A j \in Job : j # i /\ task[j].at \in Using => j \in mixed' /\ i \in mixed'
BY DEF Touch

\* Nothing is taken back from the histories.
LEMMA HistoriesGrow ==
  ASSUME IInv, [Next]_vars
  PROVE  /\ plan' = plan /\ local' = local
         /\ mixed \subseteq mixed' /\ muddled \subseteq muddled' /\ forked \subseteq forked'
<1>1. CASE \E j \in Job : Lookup(j) \/ Step(j)
  <2>1. PICK j \in Job : Lookup(j) \/ Step(j)
    BY <1>1
  <2>2. /\ plan' = plan /\ local' = local /\ mixed \subseteq mixed'
    BY <2>1, OneMoves, Touched DEF fixed
  <2>3. muddled \subseteq muddled' /\ forked \subseteq forked'
    BY <2>1 DEF Step, Lookup, Resolve, OpenHome, ListProjects, ClickNewProject, ReadUrl, Retitle, RetitleAgain,
       RetitleLost, Generate, VisitProject, EnterPrompt, PromptLost, Submit, SubmitLost, Started, PollDone,
       PollTimeout, OpenTile, RenameMedia, Download, WaitTimeout, Close, UploadFile, VisitForClip, AddMedia,
       Uploaded, NameUpload, MakeCharacter, NewCharacter, Portray, NoFullbody, Portrayed, DownloadCharacter,
       NextPart, SaveCharacter, Raise, histories
  <2>. QED
    BY <2>2, <2>3
<1>2. CASE Tools
  BY <1>2, ToolFacts DEF IInv, Tool, fixed
<1>3. CASE ~(\E j \in Job : Lookup(j) \/ Step(j)) /\ ~Tools
  BY <1>3 DEF Next, Tools, MediaEnds, Arrive, Restart, histories, fixed, vars
<1>. QED
  BY <1>1, <1>2, <1>3

\* A task that is not mixed up with another moves on by itself; meanwhile nobody else
\* turns the page or touches what is on it, save that a media of the page ends, and the
\* thread may get its file or be interrupted by a restart.
LEMMA Alone ==
  ASSUME IInv, [Next]_vars, NEW j \in Job, j \notin mixed', task[j].at \in Using, ~Step(j)
  PROVE  /\ UNCHANGED <<page, prompt, title, grid>>
         /\ \A m \in Job : /\ media'[m].from = media[m].from /\ media'[m].name = media[m].name
                           /\ \/ media'[m].state = media[m].state
                              \/ media[m].state = "loading" /\ media'[m].state \in {"ready", "failed"}
         /\ coming' \subseteq coming
         /\ task'[j].project = task[j].project
         /\ \/ task'[j] = task[j]
            \/ \E d \in coming : Arrive(d) /\ Waits(j, d)
            \/ task'[j].at = "raised" /\ task'[j].files = task[j].files
<1>1. TypeOK
  BY DEF IInv
<1>2. ~Lookup(j)
  BY DEF Lookup, At, Using, Stretch
<1>3. CASE \E i \in Job : Lookup(i) \/ Step(i)
  <2>1. PICK i \in Job : Lookup(i) \/ Step(i)
    BY <1>3
  <2>2. i # j
    BY <1>2, <2>1
  <2>3. ~Touch(i)
    BY <2>2, Touched
  <2>. QED
    BY <2>1, <2>2, <2>3, OneMoves DEF tabVars
<1>4. ~Tools
  BY <1>1, ToolFacts DEF Tool
<1>5. CASE \E m \in Job : MediaEnds(m)
  <2>1. PICK m \in Job : MediaEnds(m)
    BY <1>5
  <2>2. UNCHANGED <<page, prompt, title, grid, coming, task>>
    BY <2>1 DEF MediaEnds
  <2>. QED
    BY <1>1, <2>1, <2>2, Ended
<1>6. CASE \E d \in coming : Arrive(d)
  <2>1. PICK d \in coming : Arrive(d)
    BY <1>6
  <2>2. UNCHANGED <<page, prompt, title, grid, media>> /\ coming' \subseteq coming
    BY <2>1 DEF Arrive, tabVars, flowVars
  <2>. QED
    BY <1>1, <2>1, <2>2, Arrives
<1>7. CASE Restart
  <2>1. UNCHANGED <<page, prompt, title, grid, media, coming>>
    BY <1>7 DEF Restart, tabVars, flowVars
  <2>2. task[j].at \notin {"lookup", "done"}
    BY DEF Using, Stretch
  <2>. QED
    BY <1>1, <1>7, <2>1, <2>2, Restarts
<1>8. CASE UNCHANGED vars
  BY <1>8 DEF vars, tabVars, flowVars
<1>. QED
  BY <1>3, <1>4, <1>5, <1>6, <1>7, <1>8 DEF Next, Tools

\* Nobody else takes a task to another stage, unless a file arrives or the worker restarts.
LEMMA OwnStages ==
  ASSUME IInv, [Next]_vars, NEW j \in Job, ~Lookup(j), ~Step(j)
  PROVE  /\ task'[j].project = task[j].project
         /\ \/ task'[j] = task[j]
            \/ task[j].at = "wait" /\ task'[j].at = "close"
            \/ task'[j].at = "raised"
<1>1. TypeOK
  BY DEF IInv
<1>2. CASE \E i \in Job : Lookup(i) \/ Step(i)
  BY <1>2, OneMoves
<1>3. CASE Tools
  BY <1>1, <1>3, ToolFacts DEF Tool
<1>4. CASE \E m \in Job : MediaEnds(m)
  BY <1>4 DEF MediaEnds
<1>5. CASE \E d \in coming : Arrive(d)
  BY <1>1, <1>5, Arrives
<1>6. CASE Restart
  BY <1>1, <1>6, Restarts
<1>7. CASE UNCHANGED vars
  BY <1>7 DEF vars
<1>. QED
  BY <1>2, <1>3, <1>4, <1>5, <1>6, <1>7 DEF Next, Tools

\* A task resolves its alias once, and works in that project from then on.
LEMMA ProjectKept ==
  ASSUME IInv, [Next]_vars, NEW j \in Job, task[j].at \notin Unresolved
  PROVE  task'[j].project = task[j].project /\ task'[j].at \notin Unresolved
<1>1. TypeOK /\ TaskType /\ task[j] \in Tasks
  BY DEF IInv, TypeOK, TaskType
<1>2. ~Lookup(j) /\ ~Resolve(j)
  BY DEF Lookup, Resolve, OpenHome, ListProjects, ClickNewProject, ReadUrl, Retitle, RetitleAgain, RetitleLost,
     At, Unresolved, Stretch
<1>3. CASE Submit(j) \/ SubmitLost(j)
  BY <1>1, <1>3 DEF Submit, SubmitLost, TaskType, Tasks, Unresolved, Stretch
<1>4. CASE RenameMedia(j)
  BY <1>1, <1>4 DEF RenameMedia, TaskType, Tasks, Unresolved, Stretch
<1>5. CASE NextPart(j)
  BY <1>1, <1>5 DEF NextPart, GoTo, TaskType, Tasks, Unresolved, Stretch
<1>6. CASE VisitProject(j)
  BY <1>1, <1>6, KindFacts, Goes DEF VisitProject, Stage, Using, Unresolved, Stretch
<1>7. CASE (Generate(j) \/ UploadFile(j) \/ MakeCharacter(j) \/ Raise(j))
           /\ ~(Submit(j) \/ SubmitLost(j) \/ RenameMedia(j) \/ NextPart(j) \/ VisitProject(j))
  <2>1. \E at \in Stage \ Unresolved : GoTo(j, at)
    BY <1>7 DEF Generate, EnterPrompt, PromptLost, Started, PollDone, PollTimeout, OpenTile, Download, WaitTimeout,
       Close, UploadFile, VisitForClip, AddMedia, Uploaded, NameUpload, MakeCharacter, NewCharacter, Portray,
       NoFullbody, Portrayed, DownloadCharacter, SaveCharacter, Raise, Stage, Using, Unresolved, Stretch
  <2>. QED
    BY <1>1, <2>1, Goes
<1>8. CASE ~Step(j)
  BY <1>2, <1>8, OwnStages DEF Unresolved, Stretch
<1>. QED
  BY <1>2, <1>3, <1>4, <1>5, <1>6, <1>7, <1>8 DEF Step, Generate, MakeCharacter

----------------------------------------------------------------------------
(* Media end up in the project of their task *)

\* Who works on a page, and is not mixed up with another, works on a page of its project.
OwnProject == \A j \in Job \ mixed : task[j].at \in Working => page.project = task[j].project

\* Who has not resolved its alias has made nothing yet.
NotYet == \A j \in Job, p \in Project : task[j].at \in Unresolved => j \notin Range(grid[p])

\* Inductive: a media lands in the project of the page.
LandsInv == OwnProject /\ NotYet /\ LandsInOwnProject

\* A tile appears on the page of the project that the tab shows.
LEMMA GridGrows ==
  ASSUME IInv, [Next]_vars, NEW p \in Project
  PROVE  \/ grid'[p] = grid[p]
         \/ \E j \in Job : /\ Submit(j) \/ AddMedia(j)
                           /\ page.at = "project" /\ p = page.project /\ UNCHANGED page
                           /\ grid[p] \in Seq(Job) /\ grid'[p] = <<j>> \o grid[p]
                           /\ Range(grid'[p]) = Range(grid[p]) \cup {j}
<1>1. TypeOK /\ grid \in [Project -> Seq(Job)]
  BY DEF IInv, TypeOK, MediaType
<1>2. ASSUME NEW j \in Job, Submit(j) \/ AddMedia(j)
      PROVE  \/ grid'[p] = grid[p]
             \/ /\ page.at = "project" /\ p = page.project /\ UNCHANGED page
                /\ grid[p] \in Seq(Job) /\ grid'[p] = <<j>> \o grid[p]
                /\ Range(grid'[p]) = Range(grid[p]) \cup {j}
  <2>1. page.at = "project" /\ grid' = [grid EXCEPT ![page.project] = <<j>> \o @] /\ UNCHANGED page
    BY <1>2 DEF Submit, Submittable, AddMedia, tabVars
  <2>2. CASE p = page.project
    <3>1. grid[p] \in Seq(Job) /\ grid'[p] = <<j>> \o grid[p]
      BY <1>1, <2>1, <2>2
    <3>2. Range(<<j>> \o grid[p]) = Range(grid[p]) \cup {j}
      BY <3>1, Prepended
    <3>. QED
      BY <2>1, <2>2, <3>1, <3>2
  <2>3. CASE p # page.project
    BY <1>1, <2>1, <2>3
  <2>. QED
    BY <2>2, <2>3
<1>3. CASE \E j \in Job : Lookup(j) \/ Step(j)
  <2>1. PICK j \in Job : Lookup(j) \/ Step(j)
    BY <1>3
  <2>2. CASE ~Submit(j) /\ ~AddMedia(j)
    <3>1. UNCHANGED grid
      BY <2>1, <2>2 DEF Step, Lookup, Resolve, OpenHome, ListProjects, ClickNewProject, ReadUrl, Retitle,
         RetitleAgain, RetitleLost, Generate, VisitProject, EnterPrompt, PromptLost, SubmitLost, Started,
         PollDone, PollTimeout, OpenTile, RenameMedia, Download, WaitTimeout, Close, UploadFile, VisitForClip,
         Uploaded, NameUpload, MakeCharacter, NewCharacter, Portray, NoFullbody, Portrayed, DownloadCharacter,
         NextPart, SaveCharacter, Raise, flowVars
    <3>. QED
      BY <3>1
  <2>. QED
    BY <1>2, <2>1, <2>2
<1>4. CASE Tools
  BY <1>1, <1>4, ToolFacts DEF Tool, flowVars
<1>5. CASE ~(\E j \in Job : Lookup(j) \/ Step(j)) /\ ~Tools
  <2>1. UNCHANGED grid
    BY <1>5 DEF Next, Tools, MediaEnds, Arrive, Restart, flowVars, vars
  <2>. QED
    BY <2>1
<1>. QED
  BY <1>3, <1>4, <1>5

\* Initially there are no media.
LEMMA InitLands == Init => LandsInv
<1>. SUFFICES ASSUME Init PROVE LandsInv
  OBVIOUS
<1>1. \A p \in Project : Range(grid[p]) = {}
  BY DEF Init, Range
<1>2. \A j \in Job : task[j].at = "lookup"
  BY DEF Init
<1>. QED
  BY <1>1, <1>2 DEF LandsInv, OwnProject, NotYet, LandsInOwnProject, Working, Using, Stretch

\* Where a task that is by itself goes on, the page is one of its project.
LEMMA OwnProjectKept ==
  ASSUME IInv, OwnProject, [Next]_vars
  PROVE  OwnProject'
<1>. SUFFICES ASSUME NEW j \in Job, j \notin mixed', task'[j].at \in Working
              PROVE  page'.project = task'[j].project
  BY DEF OwnProject
<1>1. j \notin mixed /\ TypeOK /\ TaskType
  BY HistoriesGrow DEF IInv, TypeOK
<1>2. CASE Lookup(j) \/ Resolve(j)
  <2>1. task'[j].at \notin Working
    BY <1>1, <1>2 DEF Lookup, Resolve, OpenHome, ListProjects, ClickNewProject, ReadUrl, Retitle, RetitleAgain,
       RetitleLost, GoTo, Found, TaskType, Tasks, Working, Using, Stretch
  <2>. QED
    BY <2>1
<1>3. CASE VisitProject(j) \/ VisitForClip(j)
  <2>1. page'.project = task[j].project /\ \E at \in Stage : GoTo(j, at)
    BY <1>1, <1>3, KindFacts DEF VisitProject, VisitForClip, Visit, tabVars, Stage, Using
  <2>. QED
    BY <1>1, <2>1, Goes
<1>4. CASE Step(j) /\ ~Resolve(j) /\ ~VisitProject(j) /\ ~VisitForClip(j)
  <2>1. CASE Raise(j)
    <3>1. task'[j].at = "raised"
      BY <1>1, <2>1, Goes DEF Raise, Stage
    <3>. QED
      BY <3>1 DEF Working, Using
  <2>2. CASE ~Raise(j)
    <3>1. task[j].at \in Working
      BY <1>4, <2>2 DEF Step, Generate, EnterPrompt, PromptLost, Submit, SubmitLost, Started, PollDone, PollTimeout,
         OpenTile, RenameMedia, Download, WaitTimeout, Close, UploadFile, AddMedia, Uploaded, NameUpload,
         MakeCharacter, NewCharacter, Portray, NoFullbody, Portrayed, DownloadCharacter, NextPart, SaveCharacter,
         At, Working, Using, Stretch
    <3>2. page'.project = page.project
      <4>1. UNCHANGED page \/ \E at, item : Show(at, item)
        BY <1>4, <2>2 DEF Step, Generate, EnterPrompt, PromptLost, Submit, SubmitLost, Started, PollDone,
           PollTimeout, OpenTile, RenameMedia, Download, WaitTimeout, Close, UploadFile, AddMedia, Uploaded,
           NameUpload, MakeCharacter, NewCharacter, Portray, NoFullbody, Portrayed, DownloadCharacter, NextPart,
           SaveCharacter, tabVars
      <4>. QED
        BY <1>1, <4>1 DEF Show, TypeOK, TabType
    <3>3. task'[j].project = task[j].project
      BY <3>1, ProjectKept DEF Working, Unresolved, Using, Stretch
    <3>. QED
      BY <1>1, <3>1, <3>2, <3>3 DEF OwnProject
  <2>. QED
    BY <2>1, <2>2
<1>5. CASE ~Lookup(j) /\ ~Step(j)
  <2>1. task[j].at \in Working
    BY <1>5, OwnStages DEF Working, Using, Stretch
  <2>2. page' = page /\ task'[j].project = task[j].project
    BY <1>5, <2>1, Alone DEF Working
  <2>. QED
    BY <1>1, <2>1, <2>2 DEF OwnProject
<1>. QED
  BY <1>2, <1>3, <1>4, <1>5 DEF Step

\* Every step keeps the media in the projects of their tasks.
LEMMA NextLands ==
  ASSUME IInv, LandsInv, [Next]_vars
  PROVE  LandsInv'
<1>1. OwnProject'
  BY OwnProjectKept DEF LandsInv
<1>2. ASSUME NEW j \in Job, NEW p \in Project, j \in Range(grid'[p])
      PROVE  /\ task[j].at \notin Unresolved
             /\ j \notin mixed' => p = task[j].project
  <2>1. j \notin mixed' => j \notin mixed
    BY HistoriesGrow
  <2>2. CASE j \in Range(grid[p])
    BY <2>1, <2>2 DEF LandsInv, NotYet, LandsInOwnProject
  <2>3. CASE j \notin Range(grid[p])
    <3>1. (Submit(j) \/ AddMedia(j)) /\ p = page.project
      BY <1>2, <2>3, GridGrows
    <3>2. task[j].at \in Working /\ task[j].at \notin Unresolved
      BY <3>1 DEF Submit, AddMedia, At, Working, Unresolved, Using, Stretch
    <3>. QED
      BY <2>1, <3>1, <3>2 DEF LandsInv, OwnProject
  <2>. QED
    BY <2>2, <2>3
<1>3. NotYet'
  BY <1>2, ProjectKept DEF NotYet
<1>4. LandsInOwnProject'
  BY <1>2, ProjectKept DEF LandsInOwnProject
<1>. QED
  BY <1>1, <1>3, <1>4 DEF LandsInv

\* Media end up in the project of their task, wherever the tab was before: the URL that a
\* page object builds from the project is the one it clicks on (pages/base_page.py), as
\* long as nobody else uses the tab.
THEOREM MediaLandInOwnProject == Spec => []LandsInOwnProject
<1>1. IInv /\ LandsInv /\ [Next]_vars => LandsInv'
  BY NextLands
<1>2. LandsInv => LandsInOwnProject
  BY DEF LandsInv
<1>. QED
  BY <1>1, <1>2, InitLands, TypesHold, PTL DEF Spec

----------------------------------------------------------------------------
(* One project for each alias *)

\* A project the system has heard of exists.
Exists(p) == p # None => title[p] # None

ProjectsExist ==
  /\ Exists(page.project)
  /\ \A a \in Alias : Exists(mapping[a])
  /\ \A j \in Job : Exists(task[j].project)

\* A project does not exist before it is made.
Unmade == \A j \in Job : task[j].at \in {"lookup", "home", "list", "create"} => title[j] = None

\* Who resolves an alias by itself sees what it looks for: there was no project of that
\* title, and the one it names is the one it made.
OwnResolution ==
  \A j \in Job \ mixed :
    /\ task[j].at \in {"list", "create"} => page.at = "home"
    /\ task[j].at \in {"create", "url", "rehome", "retitle"} => Titled(plan[j].alias) = {}
    /\ task[j].at \in {"url", "rehome", "retitle"} => title[j] = "untitled"
    /\ task[j].at = "url" => page.project = j
    /\ task[j].at \in {"rehome", "retitle"} => task[j].project = j

\* The project of an alias bears its name, in the mapping and for who has resolved it.
Named ==
  \A a \in Alias \ forked :
    /\ mapping[a] # None => title[mapping[a]] = a
    /\ \A p, q \in Titled(a) : p = q
    /\ \A j \in Job : plan[j].alias = a /\ task[j].at \in Resolved => title[task[j].project] = a

\* Inductive: tasks of one alias meet in the project of that title.
AliasInv == ProjectsExist /\ Unmade /\ OwnResolution /\ Named

\* Who gives a project a title.
LEMMA TitleMoves ==
  ASSUME IInv, [Next]_vars
  PROVE  \/ UNCHANGED title
         \/ \E j \in Job : ClickNewProject(j) /\ title' = [title EXCEPT ![j] = "untitled"]
         \/ \E j \in Job : Retitle(j) /\ title' = [title EXCEPT ![task[j].project] = plan[j].alias]
<1>1. CASE \E j \in Job : ClickNewProject(j) \/ Retitle(j)
  BY <1>1 DEF ClickNewProject, Retitle
<1>2. CASE \E j \in Job : (Lookup(j) \/ Step(j)) /\ ~ClickNewProject(j) /\ ~Retitle(j)
  BY <1>2 DEF Step, Lookup, Resolve, OpenHome, ListProjects, ReadUrl, RetitleAgain, RetitleLost, Generate,
     VisitProject, EnterPrompt, PromptLost, Submit, SubmitLost, Started, PollDone, PollTimeout, OpenTile,
     RenameMedia, Download, WaitTimeout, Close, UploadFile, VisitForClip, AddMedia, Uploaded, NameUpload,
     MakeCharacter, NewCharacter, Portray, NoFullbody, Portrayed, DownloadCharacter, NextPart, SaveCharacter,
     Raise, flowVars
<1>3. CASE Tools
  BY <1>3, ToolFacts DEF IInv, Tool, flowVars
<1>4. CASE ~(\E j \in Job : Lookup(j) \/ Step(j)) /\ ~Tools
  BY <1>4 DEF Next, Tools, MediaEnds, Arrive, Restart, flowVars, vars
<1>. QED
  BY <1>1, <1>2, <1>3, <1>4

\* Where an entry of the mapping comes from.
LEMMA MappingMoves ==
  ASSUME IInv, [Next]_vars, NEW a \in Alias
  PROVE  \/ mapping'[a] = mapping[a]
         \/ mapping'[a] = None
         \/ mapping'[a] \in Titled(a) /\ UNCHANGED title
         \/ \E j \in Job : /\ Retitle(j) \/ RetitleLost(j)
                           /\ plan[j].alias = a /\ mapping'[a] = task[j].project
<1>1. TypeOK /\ mapping \in [Alias -> Project \cup {None}]
  BY DEF IInv, TypeOK, ProjectType
<1>2. ASSUME NEW j \in Job, NEW p, Found(j, p)
      PROVE  mapping'[a] = IF plan[j].alias = a THEN p ELSE mapping[a]
  BY <1>1, <1>2 DEF Found
<1>3. CASE \E j \in Job : Retitle(j) \/ RetitleLost(j)
  BY <1>2, <1>3 DEF Retitle, RetitleLost
<1>4. CASE \E j \in Job : ListProjects(j)
  <2>1. PICK j \in Job : ListProjects(j)
    BY <1>4
  <2>2. UNCHANGED title
    BY <2>1 DEF ListProjects, flowVars
  <2>3. UNCHANGED mapping \/ \E p \in Titled(plan[j].alias) : Found(j, p)
    BY <2>1 DEF ListProjects
  <2>. QED
    BY <1>2, <2>2, <2>3
<1>5. CASE \E j \in Job : (Lookup(j) \/ Step(j)) /\ ~Retitle(j) /\ ~RetitleLost(j) /\ ~ListProjects(j)
  <2>1. UNCHANGED mapping
    BY <1>5 DEF Step, Lookup, Resolve, OpenHome, ClickNewProject, ReadUrl, RetitleAgain, Generate,
       VisitProject, EnterPrompt, PromptLost, Submit, SubmitLost, Started, PollDone, PollTimeout, OpenTile,
       RenameMedia, Download, WaitTimeout, Close, UploadFile, VisitForClip, AddMedia, Uploaded, NameUpload,
       MakeCharacter, NewCharacter, Portray, NoFullbody, Portrayed, DownloadCharacter, NextPart, SaveCharacter,
       Raise
  <2>. QED
    BY <2>1
<1>6. CASE Tools
  <2>1. UNCHANGED title
    BY <1>1, <1>6, ToolFacts DEF Tool, flowVars
  <2>2. CASE (\E p \in Project : ToolLists(p)) \/ OpenWebsite
    BY <2>2 DEF ToolLists, OpenWebsite
  <2>3. CASE \E p \in Project : \E b \in Alias : ProjectOpen(b, p)
    BY <1>1, <2>1, <2>3 DEF ProjectOpen
  <2>4. CASE ProjectList
    <3>1. mapping'[a] = IF Unambiguous /\ Titled(a) # {} THEN CHOOSE p \in Titled(a) : TRUE ELSE mapping[a]
      BY <2>4 DEF ProjectList
    <3>2. Titled(a) # {} => (CHOOSE p \in Titled(a) : TRUE) \in Titled(a)
      OBVIOUS
    <3>. QED
      BY <2>1, <3>1, <3>2
  <2>. QED
    BY <1>6, <2>2, <2>3, <2>4 DEF Tools
<1>7. CASE Restart
  BY <1>7 DEF Restart
<1>8. CASE ~(\E j \in Job : Lookup(j) \/ Step(j)) /\ ~Tools /\ ~Restart
  BY <1>8 DEF Next, Tools, MediaEnds, Arrive, vars
<1>. QED
  BY <1>3, <1>4, <1>5, <1>6, <1>7, <1>8

\* Where a task gets its project from.
LEMMA ProjectMoves ==
  ASSUME IInv, [Next]_vars, NEW j \in Job
  PROVE  \/ task'[j].project = task[j].project
         \/ Lookup(j) /\ task'[j].project = mapping[plan[j].alias]
         \/ ListProjects(j) /\ task'[j].project \in Titled(plan[j].alias)
         \/ ReadUrl(j) /\ task'[j].project = page.project
<1>1. TypeOK /\ TaskType /\ task[j] \in Tasks
  BY DEF IInv, TypeOK, TaskType
<1>2. CASE task[j].at \notin Unresolved
  BY <1>2, ProjectKept
<1>3. CASE Lookup(j)
  BY <1>1, <1>3 DEF Lookup, TaskType, Tasks
<1>4. CASE ListProjects(j)
  BY <1>1, <1>4, Goes DEF ListProjects, Found, GoTo, TaskType, Tasks
<1>5. CASE ReadUrl(j)
  BY <1>1, <1>5 DEF ReadUrl, TaskType, Tasks
<1>6. CASE Retitle(j) \/ RetitleLost(j)
  BY <1>1, <1>6 DEF Retitle, RetitleLost, Found, TaskType, Tasks
<1>7. CASE OpenHome(j) \/ ClickNewProject(j) \/ RetitleAgain(j) \/ Raise(j)
  <2>1. \E at \in Stage : GoTo(j, at)
    BY <1>7 DEF OpenHome, ClickNewProject, RetitleAgain, Raise, Stage, Using, Stretch
  <2>. QED
    BY <1>1, <2>1, Goes
<1>8. CASE task[j].at \in Unresolved /\ ~Lookup(j) /\ ~Resolve(j) /\ ~Raise(j)
  <2>1. ~Step(j)
    BY <1>8 DEF Step, Generate, VisitProject, EnterPrompt, PromptLost, Submit, SubmitLost, Started, PollDone,
       PollTimeout, OpenTile, RenameMedia, Download, WaitTimeout, Close, UploadFile, VisitForClip, AddMedia,
       Uploaded, NameUpload, MakeCharacter, NewCharacter, Portray, NoFullbody, Portrayed, DownloadCharacter,
       NextPart, SaveCharacter, At, Unresolved, Stretch
  <2>. QED
    BY <1>8, <2>1, OwnStages
<1>. QED
  BY <1>2, <1>3, <1>4, <1>5, <1>6, <1>7, <1>8 DEF Resolve

\* Where the project of the page comes from.
LEMMA PageMoves ==
  ASSUME IInv, [Next]_vars
  PROVE  \/ page'.project \in {page.project, None}
         \/ \E j \in Job : ClickNewProject(j) /\ page'.project = j
         \/ \E j \in Job : page'.project = task[j].project
         \/ \E a \in Alias : page'.project = mapping[a] \/ page'.project \in Titled(a)
<1>1. TypeOK /\ page.project \in Project \cup {None}
  BY DEF IInv, TypeOK, TabType
<1>2. CASE \E j \in Job : Lookup(j) \/ Resolve(j)
  BY <1>2 DEF Lookup, Resolve, OpenHome, ListProjects, ClickNewProject, ReadUrl, Retitle, RetitleAgain, RetitleLost,
     Visit, tabVars
<1>3. CASE \E j \in Job : Generate(j) \/ Raise(j) \/ UploadFile(j) \/ MakeCharacter(j)
  <2>1. PICK j \in Job : Generate(j) \/ Raise(j) \/ UploadFile(j) \/ MakeCharacter(j)
    BY <1>3
  <2>2. UNCHANGED page \/ (\E at, item : Show(at, item)) \/ Visit("project", task[j].project)
    BY <2>1 DEF Generate, VisitProject, EnterPrompt, PromptLost, Submit, SubmitLost, Started, PollDone,
       PollTimeout, OpenTile, RenameMedia, Download, WaitTimeout, Close, UploadFile, VisitForClip, AddMedia,
       Uploaded, NameUpload, MakeCharacter, NewCharacter, Portray, NoFullbody, Portrayed, DownloadCharacter,
       NextPart, SaveCharacter, Raise, tabVars
  <2>3. ASSUME NEW at, NEW item, Show(at, item) PROVE page'.project = page.project
    BY <1>1, <2>3 DEF Show, TypeOK, TabType
  <2>4. ASSUME Visit("project", task[j].project) PROVE page'.project = task[j].project
    BY <2>4 DEF Visit
  <2>. QED
    BY <2>2, <2>3, <2>4
<1>4. CASE Tools
  BY <1>4 DEF Tools, ToolLists, ProjectOpen, OpenWebsite, ProjectList, Visit, tabVars
<1>5. CASE ~(\E j \in Job : Lookup(j) \/ Step(j)) /\ ~Tools
  BY <1>5 DEF Next, Tools, MediaEnds, Arrive, Restart, tabVars, vars
<1>. QED
  BY <1>2, <1>3, <1>4, <1>5 DEF Step

\* A project that exists goes on to exist, and one made on the home page is new.
LEMMA TitleKept ==
  ASSUME IInv, ProjectsExist, Unmade, [Next]_vars
  PROVE  /\ \A p \in Project : title[p] # None => title'[p] # None
         /\ \A j \in Job : ClickNewProject(j) => title[j] = None /\ title'[j] # None
         /\ \A j \in Job : title'[j] # title[j] => ClickNewProject(j) \/ title[j] # None
<1>1. TypeOK /\ title \in [Project -> Alias \cup {"untitled", None}]
  BY DEF IInv, TypeOK, ProjectType
<1>2. \A j \in Job : plan[j].alias \in Alias /\ j \in Project
  BY <1>1, KindFacts DEF Project
<1>3. "untitled" # None /\ None \notin Alias
  BY NameAssumption DEF Project
<1>4. ASSUME NEW j \in Job, ClickNewProject(j)
      PROVE  title[j] = None /\ title' = [title EXCEPT ![j] = "untitled"] /\ title'[j] # None
  BY <1>1, <1>2, <1>3, <1>4 DEF ClickNewProject, Unmade, At
<1>5. ASSUME NEW j \in Job, Retitle(j)
      PROVE  /\ title' = [title EXCEPT ![task[j].project] = plan[j].alias]
             /\ task[j].project \in Project /\ title[task[j].project] # None
  <2>1. task[j].project \in Project
    BY <1>5 DEF Retitle, At, IInv, TaskHolds
  <2>. QED
    BY <1>5, <2>1, NameAssumption DEF Retitle, ProjectsExist, Exists
<1>6. CASE UNCHANGED title
  BY <1>4, <1>6
<1>7. CASE \E j \in Job : ClickNewProject(j)
  <2>1. PICK j \in Job : ClickNewProject(j)
    BY <1>7
  <2>. QED
    BY <1>1, <1>2, <1>3, <1>4, <2>1
<1>8. CASE \E j \in Job : Retitle(j)
  <2>1. PICK j \in Job : Retitle(j)
    BY <1>8
  <2>. QED
    BY <1>1, <1>2, <1>3, <1>4, <1>5, <2>1
<1>. QED
  BY <1>6, <1>7, <1>8, TitleMoves

\* What the page, the mapping and the tasks know of goes on to exist.
LEMMA ProjectsExistKept ==
  ASSUME IInv, ProjectsExist, Unmade, [Next]_vars
  PROVE  ProjectsExist'
<1>1. TypeOK /\ page.project \in Project \cup {None} /\ mapping \in [Alias -> Project \cup {None}]
      /\ \A j \in Job : task[j].project \in Project \cup {None} /\ plan[j].alias \in Alias
  BY KindFacts DEF IInv, TypeOK, TabType, ProjectType, TaskType, Tasks
<1>2. ASSUME NEW p \in Project \cup {None}, Exists(p) PROVE Exists(p)'
  BY <1>2, TitleKept DEF Exists
<1>3. ASSUME NEW a \in Alias, NEW p \in Titled(a) PROVE p \in Project /\ Exists(p)
  BY NameAssumption DEF Titled, Exists, Project
<1>4. Exists(page.project)'
  <2>1. CASE page'.project \in {page.project, None}
    BY <1>1, <1>2, <2>1 DEF ProjectsExist, Exists
  <2>2. CASE \E j \in Job : ClickNewProject(j) /\ page'.project = j
    BY <2>2, TitleKept DEF Exists
  <2>3. CASE \E j \in Job : page'.project = task[j].project
    BY <1>1, <1>2, <2>3 DEF ProjectsExist, Exists
  <2>4. CASE \E a \in Alias : page'.project = mapping[a] \/ page'.project \in Titled(a)
    BY <1>1, <1>2, <1>3, <2>4 DEF ProjectsExist, Exists
  <2>. QED
    BY <2>1, <2>2, <2>3, <2>4, PageMoves
<1>5. ASSUME NEW a \in Alias PROVE Exists(mapping[a])'
  <2>1. CASE mapping'[a] = mapping[a] \/ mapping'[a] = None
    BY <1>1, <1>2, <2>1 DEF ProjectsExist, Exists
  <2>2. CASE mapping'[a] \in Titled(a)
    BY <1>2, <1>3, <2>2 DEF Exists
  <2>3. CASE \E j \in Job : mapping'[a] = task[j].project
    BY <1>1, <1>2, <2>3 DEF ProjectsExist, Exists
  <2>. QED
    BY <2>1, <2>2, <2>3, MappingMoves
<1>6. ASSUME NEW j \in Job PROVE Exists(task[j].project)'
  <2>1. CASE task'[j].project = task[j].project
    BY <1>1, <1>2, <2>1 DEF ProjectsExist, Exists
  <2>2. CASE task'[j].project = mapping[plan[j].alias]
    BY <1>1, <1>2, <2>2 DEF ProjectsExist, Exists
  <2>3. CASE task'[j].project \in Titled(plan[j].alias)
    BY <1>1, <1>2, <1>3, <2>3 DEF Exists
  <2>4. CASE task'[j].project = page.project
    BY <1>1, <1>2, <2>4 DEF ProjectsExist, Exists
  <2>. QED
    BY <2>1, <2>2, <2>3, <2>4, ProjectMoves
<1>. QED
  BY <1>4, <1>5, <1>6 DEF ProjectsExist

\* The stages of the resolution, in their order.
LEMMA ResolvingStages ==
  ASSUME IInv, [Next]_vars, NEW j \in Job
  PROVE  /\ task'[j].at \in {"lookup", "home"} => task[j].at \in {"lookup", "home"}
         /\ task'[j].at \in {"list", "create"} =>
              \/ task'[j].at = task[j].at /\ ~Lookup(j) /\ ~Step(j)
              \/ OpenHome(j) /\ task'[j].at = "list" /\ At(j, "home")
              \/ ListProjects(j) /\ task'[j].at = "create"
         /\ task'[j].at \in {"url", "rehome", "retitle"} =>
              \/ task'[j].at = task[j].at /\ ~Lookup(j) /\ ~Step(j)
              \/ ClickNewProject(j) /\ task'[j].at = "url"
              \/ ReadUrl(j) /\ task'[j].at = "rehome"
              \/ OpenHome(j) /\ task'[j].at = "retitle" /\ At(j, "rehome")
              \/ RetitleAgain(j) /\ task'[j].at = "rehome"
         /\ task'[j].at \in Resolved => \/ task[j].at \in Resolved
                                        \/ Lookup(j) /\ mapping[plan[j].alias] # None
                                        \/ ListProjects(j) /\ task'[j].project \in Titled(plan[j].alias)
                                        \/ Retitle(j) \/ RetitleLost(j)
<1>1. TypeOK /\ TaskType /\ task[j] \in Tasks
  BY DEF IInv, TypeOK, TaskType
<1>2. CASE ~Lookup(j) /\ ~Step(j)
  BY <1>2, OwnStages DEF Resolved, Working, Using, Stretch
<1>3. CASE Lookup(j)
  BY <1>1, <1>3 DEF Lookup, TaskType, Tasks, At, Resolved, Working, Using, Stretch
<1>4. CASE ListProjects(j)
  BY <1>1, <1>4 DEF ListProjects, Found, GoTo, TaskType, Tasks, At, Resolved, Working, Using, Stretch
<1>5. CASE Retitle(j) \/ RetitleLost(j)
  BY <1>1, <1>5 DEF Retitle, RetitleLost, Found, TaskType, Tasks, At, Resolved, Working, Using, Stretch
<1>6. CASE ReadUrl(j)
  BY <1>1, <1>6 DEF ReadUrl, TaskType, Tasks, At, Resolved, Working, Using, Stretch
<1>7. CASE OpenHome(j) \/ ClickNewProject(j) \/ RetitleAgain(j) \/ Raise(j)
  <2>1. \/ OpenHome(j) /\ At(j, "home") /\ GoTo(j, "list")
        \/ OpenHome(j) /\ At(j, "rehome") /\ GoTo(j, "retitle")
        \/ ClickNewProject(j) /\ GoTo(j, "url")
        \/ RetitleAgain(j) /\ GoTo(j, "rehome")
        \/ GoTo(j, "raised")
    BY <1>7 DEF OpenHome, ClickNewProject, RetitleAgain, Raise
  <2>2. ASSUME NEW at \in Stage, GoTo(j, at) PROVE task'[j].at = at
    BY <1>1, <2>2, Goes
  <2>3. {"list", "retitle", "url", "rehome", "raised"} \subseteq Stage
    BY DEF Stage, Using, Stretch
  <2>. QED
    BY <2>1, <2>2, <2>3 DEF Resolved, Working, Using, Stretch
<1>8. CASE (Generate(j) \/ UploadFile(j) \/ MakeCharacter(j)) /\ ~Raise(j)
  <2>1. task[j].at \in Resolved /\ task[j].at \notin Unresolved
    BY <1>8 DEF Generate, VisitProject, EnterPrompt, PromptLost, Submit, SubmitLost, Started, PollDone,
       PollTimeout, OpenTile, RenameMedia, Download, WaitTimeout, Close, UploadFile, VisitForClip, AddMedia,
       Uploaded, NameUpload, MakeCharacter, NewCharacter, Portray, NoFullbody, Portrayed, DownloadCharacter,
       NextPart, SaveCharacter, At, Resolved, Working, Using, Stretch, Unresolved
  <2>2. task'[j].at \notin Unresolved
    BY <2>1, ProjectKept
  <2>. QED
    BY <2>1, <2>2 DEF Unresolved, Stretch
<1>. QED
  BY <1>2, <1>3, <1>4, <1>5, <1>6, <1>7, <1>8 DEF Step, Resolve

\* Only the task itself makes its project.
LEMMA UnmadeKept ==
  ASSUME IInv, ProjectsExist, Unmade, [Next]_vars
  PROVE  Unmade'
<1>. SUFFICES ASSUME NEW j \in Job, task'[j].at \in {"lookup", "home", "list", "create"}
              PROVE  title'[j] = None
  BY DEF Unmade
<1>1. task[j].at \in {"lookup", "home", "list", "create"}
  BY ResolvingStages DEF ListProjects, At
<1>2. ~ClickNewProject(j)
  <2>1. ClickNewProject(j) => task'[j].at = "url"
    BY Goes DEF ClickNewProject, IInv, TypeOK, Stage, Using, Stretch
  <2>. QED
    BY <2>1
<1>. QED
  BY <1>1, <1>2, TitleKept DEF Unmade

\* A step of a task that is by itself, or of others that leave it alone, keeps what it saw.
LEMMA OwnResolutionKept ==
  ASSUME IInv, AliasInv, [Next]_vars
  PROVE  OwnResolution'
<1>. SUFFICES ASSUME NEW j \in Job, j \notin mixed'
              PROVE  /\ task'[j].at \in {"list", "create"} => page'.at = "home"
                     /\ task'[j].at \in {"create", "url", "rehome", "retitle"} => Titled(plan[j].alias)' = {}
                     /\ task'[j].at \in {"url", "rehome", "retitle"} => title'[j] = "untitled"
                     /\ task'[j].at = "url" => page'.project = j
                     /\ task'[j].at \in {"rehome", "retitle"} => task'[j].project = j
  BY HistoriesGrow DEF OwnResolution, Titled
<1>1. TypeOK /\ TaskType /\ task[j] \in Tasks /\ j \notin mixed /\ j \in Project /\ plan' = plan
      /\ plan[j].alias \in Alias
  BY HistoriesGrow, KindFacts DEF IInv, TypeOK, TaskType, Project
<1>2. /\ task[j].at \in {"list", "create"} => page.at = "home"
      /\ task[j].at \in {"create", "url", "rehome", "retitle"} => Titled(plan[j].alias) = {}
      /\ task[j].at \in {"url", "rehome", "retitle"} => title[j] = "untitled"
      /\ task[j].at = "url" => page.project = j
      /\ task[j].at \in {"rehome", "retitle"} => task[j].project = j
  BY <1>1 DEF AliasInv, OwnResolution
<1>3. UNCHANGED title => Titled(plan[j].alias)' = Titled(plan[j].alias)
  BY <1>1 DEF Titled
<1>4. CASE task'[j].at \notin Stretch
  BY <1>4 DEF Stretch
<1>5. CASE task'[j].at \in Stretch /\ task'[j].at = task[j].at /\ ~Lookup(j) /\ ~Step(j)
  <2>1. UNCHANGED <<page, title>> /\ task'[j].project = task[j].project
    BY <1>5, Alone DEF Using
  <2>. QED
    BY <1>1, <1>2, <1>3, <1>5, <2>1
<1>6. CASE OpenHome(j) /\ task'[j].at = "list"
  BY <1>6 DEF OpenHome, Visit
<1>7. CASE ListProjects(j) /\ task'[j].at = "create"
  <2>1. ~\E p : Found(j, p)
    BY <1>1, <1>7 DEF Found, TaskType, Tasks
  <2>2. UNCHANGED <<page, title>> /\ At(j, "list")
    BY <1>7 DEF ListProjects, tabVars, flowVars
  <2>3. ~(page.at = "home" /\ Titled(plan[j].alias) # {})
    BY <1>7, <2>1 DEF ListProjects
  <2>. QED
    BY <1>2, <1>3, <1>7, <2>2, <2>3 DEF At
<1>8. CASE ClickNewProject(j) /\ task'[j].at = "url"
  <2>1. title' = [title EXCEPT ![j] = "untitled"] /\ page'.project = j /\ At(j, "create")
    BY <1>8 DEF ClickNewProject, Visit
  <2>2. title \in [Project -> Alias \cup {"untitled", None}] /\ "untitled" \notin Alias
    BY <1>1, NameAssumption DEF TypeOK, ProjectType
  <2>3. \A p \in Project : title'[p] = IF p = j THEN "untitled" ELSE title[p]
    BY <1>1, <2>1, <2>2
  <2>4. Titled(plan[j].alias)' = {}
    BY <1>1, <1>2, <2>1, <2>2, <2>3 DEF Titled, At
  <2>. QED
    BY <1>1, <1>8, <2>1, <2>3, <2>4
<1>9. CASE ReadUrl(j) /\ task'[j].at = "rehome"
  <2>1. UNCHANGED <<page, title>> /\ At(j, "url") /\ task'[j].project = page.project
    BY <1>1, <1>9 DEF ReadUrl, tabVars, flowVars, TaskType, Tasks
  <2>. QED
    BY <1>2, <1>3, <1>9, <2>1 DEF At
<1>10. CASE OpenHome(j) /\ task'[j].at = "retitle" /\ At(j, "rehome")
  <2>1. UNCHANGED title /\ task'[j].project = task[j].project
    <3>1. GoTo(j, "list") \/ GoTo(j, "retitle")
      BY <1>10 DEF OpenHome
    <3>. QED
      BY <1>1, <1>10, <3>1, Goes DEF OpenHome, flowVars, Stage, Using, Stretch
  <2>. QED
    BY <1>2, <1>3, <1>10, <2>1 DEF At
<1>11. CASE RetitleAgain(j) /\ task'[j].at = "rehome"
  <2>1. UNCHANGED title /\ task'[j].project = task[j].project /\ At(j, "retitle")
    BY <1>1, <1>11, Goes DEF RetitleAgain, flowVars, Stage, Using, Stretch
  <2>. QED
    BY <1>2, <1>3, <1>11, <2>1 DEF At
<1>. QED
  BY <1>4, <1>5, <1>6, <1>7, <1>8, <1>9, <1>10, <1>11, ResolvingStages DEF Stretch

\* A title changes only where nobody holds on to it, or where that is noted.
LEMMA NamesMove ==
  ASSUME IInv, AliasInv, [Next]_vars, NEW a \in Alias, a \notin forked'
  PROVE  /\ a \notin forked
         /\ \A p \in Project : title[p] = a => title'[p] = a
         /\ \A p \in Project : \/ title'[p] # a
                               \/ title[p] = a
                               \/ /\ Titled(a) = {}
                                  /\ \E j \in Job : Retitle(j) /\ task[j].project = p /\ plan[j].alias = a
<1>1. TypeOK /\ title \in [Project -> Alias \cup {"untitled", None}]
  BY DEF IInv, TypeOK, ProjectType
<1>2. a \notin forked
  BY HistoriesGrow
<1>3. "untitled" # a /\ None # a
  BY NameAssumption DEF Project
<1>4. CASE UNCHANGED title
  BY <1>2, <1>4
<1>5. CASE \E j \in Job : ClickNewProject(j) /\ title' = [title EXCEPT ![j] = "untitled"]
  <2>1. PICK j \in Job : ClickNewProject(j) /\ title' = [title EXCEPT ![j] = "untitled"]
    BY <1>5
  <2>2. title[j] = None
    BY <2>1, TitleKept DEF AliasInv
  <2>3. \A p \in Project : title'[p] = IF p = j THEN "untitled" ELSE title[p]
    BY <1>1, <2>1
  <2>. QED
    BY <1>2, <1>3, <2>2, <2>3
<1>6. CASE \E j \in Job : Retitle(j) /\ title' = [title EXCEPT ![task[j].project] = plan[j].alias]
  <2>1. PICK j \in Job : Retitle(j) /\ title' = [title EXCEPT ![task[j].project] = plan[j].alias]
    BY <1>6
  <2>2. /\ At(j, "retitle")
        /\ forked' = IF j \in mixed' THEN forked \cup ({plan[j].alias, title[task[j].project]} \cap Alias)
                     ELSE forked
    BY <2>1 DEF Retitle
  <2>3. \A p \in Project : title'[p] = IF p = task[j].project THEN plan[j].alias ELSE title[p]
    BY <1>1, <2>1
  <2>4. CASE j \in mixed'
    <3>1. a # plan[j].alias /\ a # title[task[j].project]
      BY <2>2, <2>4
    <3>. QED
      BY <1>2, <2>3, <3>1
  <2>5. CASE j \notin mixed'
    <3>1. j \notin mixed
      BY <2>5, HistoriesGrow
    <3>2. /\ Titled(plan[j].alias) = {} /\ title[j] = "untitled" /\ task[j].project = j
      BY <2>2, <3>1 DEF AliasInv, OwnResolution, At
    <3>. QED
      BY <1>2, <1>3, <2>1, <2>3, <3>2
  <2>. QED
    BY <2>4, <2>5
<1>. QED
  BY <1>4, <1>5, <1>6, TitleMoves

\* The names stay right.
LEMMA NamedKept ==
  ASSUME IInv, AliasInv, [Next]_vars
  PROVE  Named'
<1>. SUFFICES ASSUME NEW a \in Alias, a \notin forked'
              PROVE  /\ mapping'[a] # None => title'[mapping'[a]] = a
                     /\ \A p, q \in Titled(a)' : p = q
                     /\ \A j \in Job : plan'[j].alias = a /\ task'[j].at \in Resolved =>
                          title'[task'[j].project] = a
  BY DEF Named
<1>1. TypeOK /\ mapping \in [Alias -> Project \cup {None}] /\ plan' = plan
      /\ \A j \in Job : task[j].project \in Project \cup {None}
  BY HistoriesGrow DEF IInv, TypeOK, ProjectType, TaskType, Tasks
<1>2. /\ a \notin forked
      /\ mapping[a] # None => title[mapping[a]] = a
      /\ \A p, q \in Titled(a) : p = q
      /\ \A j \in Job : plan[j].alias = a /\ task[j].at \in Resolved => title[task[j].project] = a
  BY NamesMove DEF AliasInv, Named
<1>3. \A p \in Titled(a) : title'[p] = a /\ p \in Project
  BY NamesMove DEF Titled
<1>4. ASSUME NEW j \in Job, Retitle(j) \/ RetitleLost(j), plan[j].alias = a
      PROVE  title'[task[j].project] = a
  <2>1. ~RetitleLost(j)
    BY <1>4 DEF RetitleLost
  <2>2. task[j].project \in Project
    BY <1>4 DEF Retitle, RetitleLost, At, IInv, TaskHolds
  <2>3. title \in [Project -> Alias \cup {"untitled", None}]
    BY <1>1 DEF TypeOK, ProjectType
  <2>. QED
    BY <1>4, <2>1, <2>2, <2>3 DEF Retitle
<1>5. mapping'[a] # None => title'[mapping'[a]] = a
  <2>1. CASE mapping'[a] = mapping[a]
    BY <1>1, <1>2, <2>1, NamesMove
  <2>2. CASE mapping'[a] \in Titled(a)
    BY <1>3, <2>2
  <2>3. CASE \E j \in Job : /\ Retitle(j) \/ RetitleLost(j)
                            /\ plan[j].alias = a /\ mapping'[a] = task[j].project
    BY <1>4, <2>3
  <2>. QED
    BY <2>1, <2>2, <2>3, MappingMoves
<1>6. \A p, q \in Titled(a)' : p = q
  <2>. SUFFICES ASSUME NEW p \in Project, NEW q \in Project, title'[p] = a, title'[q] = a PROVE p = q
    BY DEF Titled
  <2>1. CASE title[p] = a /\ title[q] = a
    BY <1>2, <2>1 DEF Titled
  <2>2. CASE title[p] # a \/ title[q] # a
    <3>1. Titled(a) = {} /\ title[p] # a /\ title[q] # a
      BY <2>2, NamesMove DEF Titled
    <3>2. PICK i \in Job : Retitle(i) /\ task[i].project = p
      BY <3>1, NamesMove
    <3>3. PICK k \in Job : Retitle(k) /\ task[k].project = q
      BY <3>1, NamesMove
    <3>4. title' = [title EXCEPT ![task[i].project] = plan[i].alias]
      BY <3>2 DEF Retitle
    <3>5. title \in [Project -> Alias \cup {"untitled", None}]
      BY <1>1 DEF TypeOK, ProjectType
    <3>6. q # p => title'[q] = title[q]
      BY <3>2, <3>4, <3>5
    <3>. QED
      BY <3>1, <3>6
  <2>. QED
    BY <2>1, <2>2
<1>7. ASSUME NEW j \in Job, plan[j].alias = a, task'[j].at \in Resolved
      PROVE  title'[task'[j].project] = a
  <2>1. CASE task[j].at \in Resolved
    <3>1. task'[j].project = task[j].project /\ task[j].project \in Project
      BY <2>1, ProjectKept DEF IInv, TaskHolds, Resolved, Unresolved, Working, Using, Stretch
    <3>. QED
      BY <1>2, <1>7, <2>1, <3>1, NamesMove
  <2>2. CASE Lookup(j) /\ mapping[plan[j].alias] # None
    <3>1. task'[j].project = mapping[a]
      BY <1>1, <1>7, <2>2 DEF Lookup, IInv, TypeOK, TaskType, Tasks
    <3>. QED
      BY <1>1, <1>2, <1>7, <2>2, <3>1, NamesMove
  <2>3. CASE ListProjects(j) /\ task'[j].project \in Titled(plan[j].alias)
    BY <1>3, <1>7, <2>3
  <2>4. CASE Retitle(j) \/ RetitleLost(j)
    <3>1. task'[j].project = task[j].project
      BY <1>1, <2>4 DEF Retitle, RetitleLost, Found, IInv, TypeOK, TaskType, Tasks
    <3>. QED
      BY <1>4, <1>7, <2>4, <3>1
  <2>. QED
    BY <1>7, <2>1, <2>2, <2>3, <2>4, ResolvingStages
<1>. QED
  BY <1>1, <1>5, <1>6, <1>7

\* Initially a project that exists bears its alias, and nobody knows it.
LEMMA InitAlias == Init => AliasInv
<1>. SUFFICES ASSUME Init PROVE AliasInv
  OBVIOUS
<1>1. PICK old \in SUBSET {plan[j].alias : j \in Job} :
        title = [p \in Project |-> IF p \in old THEN p ELSE None]
  BY DEF Init
<1>2. old \subseteq Alias
  <2>1. \A j \in Job : plan[j].alias \in Alias
    BY InitIInv, KindFacts DEF IInv
  <2>. QED
    BY <1>1, <2>1
<1>3. \A j \in Job : title[j] = None
  BY <1>1, <1>2, NameAssumption DEF Project
<1>4. ASSUME NEW a \in Alias PROVE \A p, q \in Titled(a) : p = q
  BY <1>1, NameAssumption DEF Titled, Project
<1>5. /\ page.project = None /\ \A a \in Alias : mapping[a] = None
      /\ \A j \in Job : task[j].project = None /\ task[j].at = "lookup"
  BY DEF Init
<1>6. ProjectsExist /\ Unmade
  BY <1>3, <1>5 DEF ProjectsExist, Exists, Unmade
<1>7. OwnResolution /\ Named
  BY <1>4, <1>5 DEF OwnResolution, Named, Resolved, Working, Using, Stretch
<1>. QED
  BY <1>6, <1>7 DEF AliasInv

\* Two tasks of an alias that have resolved it have the project that bears its name.
LEMMA AliasInvImplies ==
  ASSUME IInv, AliasInv
  PROVE  OneProjectPerAlias
<1>. SUFFICES ASSUME NEW i \in Job, NEW j \in Job, plan[i].alias = plan[j].alias,
                     plan[i].alias \notin forked,
                     task[i].at \in {"go", "done"}, task[j].at \in {"go", "done"}
              PROVE  task[i].project = task[j].project
  BY DEF OneProjectPerAlias
<1>1. plan[i].alias \in Alias
  BY KindFacts DEF IInv
<1>2. task[i].at \in Resolved /\ task[j].at \in Resolved
  BY DEF Resolved
<1>3. title[task[i].project] = plan[i].alias /\ title[task[j].project] = plan[i].alias
  BY <1>1, <1>2 DEF AliasInv, Named
<1>4. task[i].project \in Project /\ task[j].project \in Project
  BY <1>2 DEF IInv, TaskHolds
<1>5. task[i].project \in Titled(plan[i].alias) /\ task[j].project \in Titled(plan[i].alias)
  BY <1>3, <1>4 DEF Titled
<1>. QED
  BY <1>1, <1>5 DEF AliasInv, Named

\* Tasks of one alias work in one project (ensure_project_url), however their resolutions
\* overlap on the Master and however often a worker restarts, as long as the project got
\* its title and nobody who was mixed up with another named it.
THEOREM AliasHasOneProject == Spec => []OneProjectPerAlias
<1>1. IInv /\ AliasInv /\ [Next]_vars => AliasInv'
  BY ProjectsExistKept, UnmadeKept, OwnResolutionKept, NamedKept DEF AliasInv
<1>2. IInv /\ AliasInv => OneProjectPerAlias
  BY AliasInvImplies
<1>. QED
  BY <1>1, <1>2, InitAlias, TypesHold, PTL DEF Spec

----------------------------------------------------------------------------
(* What a finished task hands out was made of its own prompt *)

Clean(j) == j \notin mixed \cup muddled

\* The newest tile of the page is the media of j, made of its prompt alone.
Mine(j) == page.at = "project" /\ Tile /\ Head(grid[page.project]) = j /\ media[j].from = {j}

\* What a generation that is by itself sees: an empty editor, its own prompt, its own tile
\* or no sign of a beginning, its own media.
OwnMedia(j) ==
  /\ task[j].at = "prompt" => page.at = "project" /\ prompt = {}
  /\ task[j].at = "submit" => page.at = "project" /\ prompt \subseteq {j}
  /\ task[j].at = "start" => page.at = "project" /\ (Mine(j) \/ ~Starting(j))
  /\ task[j].at \in {"poll", "open"} => Mine(j)
  /\ task[j].at \in {"rename", "download"} =>
       page.at = "media" /\ page.item = j /\ media[j].from = {j}

\* A character that is by itself has the editor.
OwnEditor(j) ==
  /\ task[j].at = "new" => page.at = "project"
  /\ task[j].at \in {"portray", "portrayed", "download", "wait", "close", "save"} =>
       page.at = "editor" /\ page.item = j

OwnPages ==
  /\ \A j \in Job : Clean(j) /\ Generates(j) => OwnMedia(j)
  /\ \A j \in Job \ mixed : Edits(j) => OwnEditor(j)

\* Nobody else drew a character that is by itself.
Looks == \A j \in Job \ mixed, p \in Part : look[j][p] \subseteq {j}

\* Beside an editor only an upload may begin, which does not find its button.
EditorAlone ==
  page.at = "editor" /\ page.item \notin mixed =>
    \A i \in Job \ {page.item} : task[i].at \in Using => At(i, "add")

\* A media that bears the name of a generation, and a file of that name, are its own.
Names == \A m, j \in Job : media[m].name = j /\ Clean(j) /\ Generates(j) => media[m].from = {j}
Arriving == \A d \in coming, j \in Job : d.name = j /\ Clean(j) /\ Generates(j) => d.from = {j}

\* Unless all characters are muddled, a file of a character is that of the only one that waits.
EditorFiles ==
  (\E j \in Job \ muddled : Edits(j)) =>
    /\ \A d \in coming : d.name = "character" => \E i \in Job : Edits(i) /\ At(i, "wait") /\ d.from = {i}
    /\ \A i, k \in Job : Edits(i) /\ Edits(k) /\ At(i, "wait") /\ At(k, "wait") => i = k

OwnFiles == \A j \in Job : Clean(j) => task[j].files \subseteq {{j}}

\* Inductive: what is on the page, what has a name, what is on its way, what has arrived.
MediaInv == OwnPages /\ Looks /\ EditorAlone /\ Names /\ Arriving /\ EditorFiles /\ OwnFiles

\* How a task comes to use the tab.
LEMMA Enters ==
  ASSUME IInv, [Next]_vars, NEW i \in Job, task'[i].at \in Using, task[i].at \notin Using
  PROVE  \/ OpenHome(i) /\ page'.at = "home"
         \/ VisitProject(i) /\ page'.at = "project"
         \/ VisitForClip(i) /\ task'[i].at = "add"
<1>1. TypeOK /\ TaskType /\ task[i] \in Tasks
  BY DEF IInv, TypeOK, TaskType
<1>2. CASE Lookup(i)
  BY <1>1, <1>2 DEF Lookup, TaskType, Tasks, Using, Stretch
<1>3. CASE ~Lookup(i) /\ ~Step(i)
  BY <1>3, OwnStages DEF Using, Stretch
<1>4. CASE OpenHome(i) \/ VisitProject(i)
  BY <1>4 DEF OpenHome, VisitProject, Visit
<1>5. CASE VisitForClip(i)
  BY <1>1, <1>5, Goes DEF VisitForClip, Stage, Using
<1>6. CASE Raise(i)
  <2>1. GoTo(i, "raised") /\ "raised" \in Stage
    BY <1>6 DEF Raise, Stage
  <2>2. task'[i].at = "raised"
    BY <1>1, <2>1, Goes
  <2>. QED
    BY <2>2 DEF Using, Stretch
<1>7. CASE Step(i) /\ ~OpenHome(i) /\ ~VisitProject(i) /\ ~VisitForClip(i) /\ ~Raise(i)
  BY <1>7 DEF Step, Resolve, ListProjects, ClickNewProject, ReadUrl, Retitle, RetitleAgain, RetitleLost, Generate,
     EnterPrompt, PromptLost, Submit, SubmitLost, Started, PollDone, PollTimeout, OpenTile, RenameMedia,
     Download, WaitTimeout, Close, UploadFile, AddMedia, Uploaded, NameUpload, MakeCharacter, NewCharacter,
     Portray, NoFullbody, Portrayed, DownloadCharacter, NextPart, SaveCharacter, At, Using, Stretch
<1>. QED
  BY <1>2, <1>3, <1>4, <1>5, <1>6, <1>7

\* How the tab comes to show an editor.
LEMMA EditorOpens ==
  ASSUME IInv, [Next]_vars, page'.at = "editor"
  PROVE  page' = page \/ \E j \in Job : NewCharacter(j) /\ page'.item = j
<1>1. TypeOK /\ page.at \in {"blank", "home", "project", "media", "editor"}
  BY DEF IInv, TypeOK, TabType
<1>2. CASE \E j \in Job : NewCharacter(j)
  BY <1>1, <1>2 DEF NewCharacter, Show, TypeOK, TabType, tabVars
<1>3. CASE \E j \in Job : (Lookup(j) \/ Step(j)) /\ ~NewCharacter(j)
  <2>1. \/ UNCHANGED page
        \/ \E p : Visit("home", p) \/ Visit("project", p)
        \/ \E item : Show("project", item) \/ Show("media", item)
    BY <1>3 DEF Step, Lookup, Resolve, OpenHome, ListProjects, ClickNewProject, ReadUrl, Retitle, RetitleAgain,
       RetitleLost, Generate, VisitProject, EnterPrompt, PromptLost, Submit, SubmitLost, Started, PollDone,
       PollTimeout, OpenTile, RenameMedia, Download, WaitTimeout, Close, UploadFile, VisitForClip, AddMedia,
       Uploaded, NameUpload, MakeCharacter, Portray, NoFullbody, Portrayed, DownloadCharacter, NextPart,
       SaveCharacter, Raise, tabVars
  <2>2. ASSUME NEW at \in {"home", "project"}, NEW p, Visit(at, p) PROVE FALSE
    BY <2>2 DEF Visit
  <2>3. ASSUME NEW at \in {"project", "media"}, NEW item, Show(at, item) PROVE FALSE
    BY <1>1, <2>3 DEF Show, TypeOK, TabType
  <2>. QED
    BY <2>1, <2>2, <2>3
<1>4. CASE Tools
  BY <1>4 DEF Tools, ToolLists, ProjectOpen, OpenWebsite, ProjectList, Visit, tabVars
<1>5. CASE ~(\E j \in Job : Lookup(j) \/ Step(j)) /\ ~Tools
  BY <1>5 DEF Next, Tools, MediaEnds, Arrive, Restart, tabVars, vars
<1>. QED
  BY <1>2, <1>3, <1>4, <1>5

\* How a media gets its name.
LEMMA NameMoves ==
  ASSUME IInv, [Next]_vars, NEW m \in Job
  PROVE  \/ media'[m].name = media[m].name /\ media'[m].from = media[m].from
         \/ media'[m].name = None
         \/ \E i \in Job : /\ RenameMedia(i) \/ NameUpload(i)
                           /\ m = page.item /\ media'[m].name = i /\ media'[m].from = media[m].from
<1>1. TypeOK
  BY DEF IInv
<1>2. media \in [Job -> [state : {"none", "loading", "ready", "failed"}, from : SUBSET Job,
                         name : Job \cup {None}]]
  BY <1>1 DEF TypeOK, MediaType
<1>3. CASE \E i \in Job : Submit(i) \/ AddMedia(i)
  <2>1. PICK i \in Job : Submit(i) \/ AddMedia(i)
    BY <1>3
  <2>2. \E state, from : media' = [media EXCEPT ![i] = [state |-> state, from |-> from, name |-> None]]
    BY <2>1 DEF Submit, AddMedia
  <2>. QED
    BY <1>2, <2>2
<1>4. CASE \E i \in Job : RenameMedia(i) \/ NameUpload(i)
  <2>1. PICK i \in Job : RenameMedia(i) \/ NameUpload(i)
    BY <1>4
  <2>2. UNCHANGED media \/ media' = [media EXCEPT ![page.item].name = i]
    BY <2>1 DEF RenameMedia, NameUpload
  <2>. QED
    BY <1>1, <2>1, <2>2, Renamed
<1>5. CASE \E m2 \in Job : MediaEnds(m2)
  BY <1>1, <1>5, Ended
<1>6. CASE UNCHANGED media
  BY <1>6
<1>7. CASE \E i \in Job : /\ Lookup(i) \/ Step(i)
                          /\ ~Submit(i) /\ ~AddMedia(i) /\ ~RenameMedia(i) /\ ~NameUpload(i)
  <2>1. UNCHANGED media
    BY <1>7 DEF Step, Lookup, Resolve, OpenHome, ListProjects, ClickNewProject, ReadUrl, Retitle, RetitleAgain,
       RetitleLost, Generate, VisitProject, EnterPrompt, PromptLost, SubmitLost, Started, PollDone, PollTimeout,
       OpenTile, Download, WaitTimeout, Close, UploadFile, VisitForClip, Uploaded, MakeCharacter, NewCharacter,
       Portray, NoFullbody, Portrayed, DownloadCharacter, NextPart, SaveCharacter, Raise, flowVars
  <2>. QED
    BY <2>1
<1>8. CASE Tools
  BY <1>1, <1>8, ToolFacts DEF Tool, flowVars
<1>9. CASE ~(\E j \in Job : Lookup(j) \/ Step(j) \/ MediaEnds(j)) /\ ~Tools
  BY <1>9 DEF Next, Tools, Arrive, Restart, flowVars, vars
<1>. QED
  BY <1>3, <1>4, <1>5, <1>7, <1>8, <1>9

\* Where a download comes from.
LEMMA ComingMoves ==
  ASSUME IInv, [Next]_vars, NEW d \in coming'
  PROVE  \/ d \in coming
         \/ \E i \in Job : /\ Download(i) /\ page.at = "media"
                           /\ d.name = media[page.item].name /\ d.from = media[page.item].from
         \/ \E i \in Job : /\ DownloadCharacter(i) /\ page.at = "editor" /\ GoTo(i, "wait")
                           /\ d.name = "character" /\ d.from # {} /\ \E p \in Part : d.from = look[page.item][p]
<1>1. CASE \E i \in Job : Download(i)
  BY <1>1 DEF Download
<1>2. CASE \E i \in Job : DownloadCharacter(i)
  <2>1. PICK i \in Job : DownloadCharacter(i)
    BY <1>2
  <2>. DEFINE images == IF page.at = "editor" THEN {look[page.item][p] : p \in Part} \ {{}} ELSE {}
  <2>2. \/ /\ GoTo(i, "wait") /\ images # {}
           /\ \E image \in images : coming' = coming \cup {[name |-> "character", from |-> image]}
        \/ UNCHANGED coming
    BY <2>1 DEF DownloadCharacter
  <2>3. \A image \in images : /\ page.at = "editor" /\ image # {}
                              /\ \E p \in Part : image = look[page.item][p]
    OBVIOUS
  <2>. HIDE DEF images
  <2>. QED
    BY <2>1, <2>2, <2>3
<1>3. CASE \E i \in Job : (Lookup(i) \/ Step(i)) /\ ~Download(i) /\ ~DownloadCharacter(i)
  BY <1>3 DEF Step, Lookup, Resolve, OpenHome, ListProjects, ClickNewProject, ReadUrl, Retitle, RetitleAgain,
     RetitleLost, Generate, VisitProject, EnterPrompt, PromptLost, Submit, SubmitLost, Started, PollDone,
     PollTimeout, OpenTile, RenameMedia, WaitTimeout, Close, UploadFile, VisitForClip, AddMedia, Uploaded,
     NameUpload, MakeCharacter, NewCharacter, Portray, NoFullbody, Portrayed, NextPart, SaveCharacter, Raise
<1>4. CASE Tools
  BY <1>4, ToolFacts DEF IInv, Tool
<1>5. CASE ~(\E j \in Job : Lookup(j) \/ Step(j)) /\ ~Tools
  BY <1>5 DEF Next, Tools, MediaEnds, Arrive, Restart, vars
<1>. QED
  BY <1>1, <1>2, <1>3, <1>4, <1>5

\* Where the file of a task comes from.
LEMMA FilesMove ==
  ASSUME IInv, [Next]_vars, NEW j \in Job
  PROVE  \/ task'[j].files = task[j].files
         \/ /\ RenameMedia(j) /\ page.at = "media" /\ Generates(j)
            /\ task'[j].files = task[j].files \cup {media[page.item].from}
         \/ \E d \in coming : /\ Arrive(d) /\ Waits(j, d) /\ task[j].at = "wait"
                              /\ task'[j].files = task[j].files \cup {d.from}
<1>1. TypeOK /\ TaskType /\ task[j] \in Tasks
  BY DEF IInv, TypeOK, TaskType
<1>2. CASE RenameMedia(j)
  BY <1>1, <1>2 DEF RenameMedia, TaskType, Tasks, Generates, Kinds
<1>3. CASE Lookup(j) \/ Resolve(j)
  BY <1>1, <1>3 DEF Lookup, Resolve, OpenHome, ListProjects, ClickNewProject, ReadUrl, Retitle, RetitleAgain,
     RetitleLost, GoTo, Found, TaskType, Tasks
<1>4. CASE (Generate(j) \/ UploadFile(j) \/ MakeCharacter(j) \/ Raise(j)) /\ ~RenameMedia(j)
  <2>1. \/ \E at : GoTo(j, at)
        \/ \E at, tiles : task' = [task EXCEPT ![j].at = at, ![j].tiles = tiles]
        \/ \E at, part : task' = [task EXCEPT ![j].at = at, ![j].part = part]
    BY <1>4 DEF Generate, VisitProject, EnterPrompt, PromptLost, Submit, SubmitLost, Started, PollDone,
       PollTimeout, OpenTile, Download, WaitTimeout, Close, UploadFile, VisitForClip, AddMedia, Uploaded,
       NameUpload, MakeCharacter, NewCharacter, Portray, NoFullbody, Portrayed, DownloadCharacter, NextPart,
       SaveCharacter, Raise
  <2>2. ASSUME NEW at, NEW x, \/ GoTo(j, at)
                              \/ task' = [task EXCEPT ![j].at = at, ![j].tiles = x]
                              \/ task' = [task EXCEPT ![j].at = at, ![j].part = x]
        PROVE  task'[j].files = task[j].files
    BY <1>1, <2>2 DEF GoTo, TaskType, Tasks
  <2>. QED
    BY <2>1, <2>2
<1>5. CASE \E i \in Job : i # j /\ (Lookup(i) \/ Step(i))
  BY <1>5, OneMoves
<1>6. CASE \E d \in coming : Arrive(d)
  BY <1>1, <1>6, Arrives
<1>7. CASE Tools
  BY <1>1, <1>7, ToolFacts DEF Tool
<1>8. CASE Restart
  BY <1>1, <1>8, Restarts
<1>9. CASE ~(\E i \in Job : Lookup(i) \/ Step(i)) /\ ~(\E d \in coming : Arrive(d)) /\ ~Tools /\ ~Restart
  BY <1>9 DEF Next, Tools, MediaEnds, vars
<1>. QED
  BY <1>2, <1>3, <1>4, <1>5, <1>6, <1>7, <1>8, <1>9 DEF Step

\* Who is clean was clean; its kind does not change.
LEMMA CleanBefore ==
  ASSUME IInv, [Next]_vars, NEW j \in Job
  PROVE  /\ j \notin mixed' => j \notin mixed
         /\ Clean(j)' => Clean(j) /\ j \notin mixed'
         /\ Generates(j)' <=> Generates(j)
         /\ Edits(j)' <=> Edits(j)
BY HistoriesGrow DEF Clean, Generates, Edits, Kinds

\* The kinds exclude each other.
LEMMA OneKind ==
  ASSUME NEW j \in Job
  PROVE  /\ Generates(j) => ~Edits(j) /\ ~Kinds(j, {"upload", "clip"})
         /\ Edits(j) => ~Kinds(j, {"upload", "clip"})
BY DEF Generates, Edits, Kinds

\* A generation that is by itself sees its own media.
LEMMA OwnMediaKept ==
  ASSUME IInv, MediaInv, [Next]_vars, NEW j \in Job, Clean(j)', Generates(j)
  PROVE  OwnMedia(j)'
<1>1. TypeOK /\ TaskType /\ task[j] \in Tasks /\ Clean(j) /\ j \notin mixed' /\ plan' = plan
  BY CleanBefore, HistoriesGrow DEF IInv, TypeOK, TaskType
<1>2. OwnMedia(j)
  BY <1>1 DEF MediaInv, OwnPages
<1>3. /\ grid \in [Project -> Seq(Job)] /\ prompt \subseteq Job
      /\ media \in [Job -> [state : {"none", "loading", "ready", "failed"}, from : SUBSET Job,
                            name : Job \cup {None}]]
      /\ page.at = "project" => page.project \in Project
      /\ page \in [at : {"blank", "home", "project", "media", "editor"},
                   project : Project \cup {None}, item : Job \cup {None}]
  BY <1>1 DEF TypeOK, MediaType, TabType, IInv, PageHolds
<1>4. ASSUME NEW at \in Stage, GoTo(j, at) PROVE task'[j].at = at /\ task'[j].tiles = task[j].tiles
  BY <1>1, <1>4, Goes
<1>5. ~Edits(j) /\ ~Kinds(j, {"upload", "clip"}) /\ ~Kinds(j, {"character"}) /\ StageFits(j)
  BY OneKind DEF Edits, IInv, TaskHolds
<1>. DEFINE Later == {"wait", "close", "done", "raised"}
<1>6. CASE task'[j].at \notin {"prompt", "submit", "start", "poll", "open", "rename", "download"}
  BY <1>6 DEF OwnMedia
<1>7. CASE VisitProject(j)
  <2>1. GoTo(j, "prompt") /\ page'.at = "project" /\ prompt' = {}
    BY <1>1, <1>7, KindFacts DEF VisitProject, Visit
  <2>2. task'[j].at = "prompt"
    BY <1>4, <2>1 DEF Stage, Using
  <2>. QED
    BY <2>1, <2>2 DEF OwnMedia
<1>8. CASE EnterPrompt(j) \/ PromptLost(j)
  <2>1. GoTo(j, "submit") /\ page' = page /\ prompt' \subseteq prompt \cup {j} /\ At(j, "prompt")
    BY <1>8 DEF EnterPrompt, PromptLost, tabVars
  <2>2. task'[j].at = "submit"
    BY <1>4, <2>1 DEF Stage, Using
  <2>. QED
    BY <1>2, <2>1, <2>2 DEF OwnMedia, At
<1>9. CASE Submit(j)
  <2>1. /\ page.at = "project" /\ prompt = {j} /\ page' = page
        /\ media' = [media EXCEPT ![j] = [state |-> "loading", from |-> prompt, name |-> None]]
        /\ grid' = [grid EXCEPT ![page.project] = <<j>> \o @]
    BY <1>2, <1>9 DEF Submit, Submittable, OwnMedia, At
  <2>2. task'[j].at = "start"
    BY <1>1, <1>9 DEF Submit, TaskType, Tasks
  <2>3. media'[j].from = {j}
    BY <1>3, <2>1
  <2>4. grid'[page.project] = <<j>> \o grid[page.project] /\ grid[page.project] \in Seq(Job)
    BY <1>3, <2>1
  <2>5. grid'[page.project] # <<>> /\ Head(grid'[page.project]) = j
    BY <2>4, Prepended
  <2>6. Mine(j)'
    BY <2>1, <2>3, <2>5 DEF Mine, Tile
  <2>. QED
    BY <2>1, <2>2, <2>6 DEF OwnMedia
<1>10. CASE SubmitLost(j)
  <2>1. /\ page.at = "project" /\ ~Loading /\ UNCHANGED <<page, media, grid>>
        /\ task' = [task EXCEPT ![j].at = "start", ![j].tiles = Tiles(j)]
    BY <1>1, <1>10 DEF SubmitLost, Submittable, Clean, tabVars, flowVars
  <2>2. task'[j].at = "start" /\ task'[j].tiles = Tiles(j)
    BY <1>1, <2>1 DEF TaskType, Tasks
  <2>3. Len(grid[page.project]) \in Nat
    BY <1>3, <2>1, LenProperties
  <2>4. ~Loading'
    BY <2>1 DEF Loading
  <2>5. ~Starting(j)'
    BY <1>1, <2>1, <2>2, <2>3, <2>4 DEF Starting, Tiles, Kinds
  <2>. QED
    BY <2>1, <2>2, <2>5 DEF OwnMedia
<1>11. CASE Started(j) \/ PollDone(j) \/ PollTimeout(j)
  <2>1. /\ UNCHANGED <<page, media, grid>>
        /\ \/ At(j, "start") /\ Starting(j) /\ GoTo(j, "poll")
           \/ At(j, "poll") /\ (GoTo(j, "open") \/ GoTo(j, "raised"))
    BY <1>11 DEF Started, PollDone, PollTimeout, tabVars, flowVars
  <2>2. task'[j].at \in {"poll", "open", "raised"}
    BY <1>4, <2>1 DEF Stage, Using
  <2>3. Mine(j)
    BY <1>2, <2>1 DEF OwnMedia, At
  <2>4. Mine(j)'
    BY <2>1, <2>3 DEF Mine, Tile
  <2>. QED
    BY <2>2, <2>4 DEF OwnMedia
<1>12. CASE OpenTile(j)
  <2>1. Mine(j) /\ GoTo(j, "rename") /\ UNCHANGED media /\ page' = [page EXCEPT !.at = "media", !.item = j]
    BY <1>2, <1>12 DEF OpenTile, OwnMedia, At, Mine, Show, flowVars
  <2>2. task'[j].at = "rename"
    BY <1>4, <2>1 DEF Stage, Using
  <2>3. page'.at = "media" /\ page'.item = j
    BY <1>3, <2>1
  <2>. QED
    BY <2>1, <2>2, <2>3 DEF OwnMedia, Mine
<1>13. CASE RenameMedia(j)
  <2>1. page.at = "media" /\ page.item = j /\ media[j].from = {j} /\ page' = page
    BY <1>2, <1>13 DEF RenameMedia, OwnMedia, At, tabVars
  <2>2. UNCHANGED media \/ media' = [media EXCEPT ![page.item].name = j]
    BY <1>13 DEF RenameMedia
  <2>3. media'[j].from = {j}
    BY <1>1, <2>1, <2>2, Renamed
  <2>4. task'[j].at = "download"
    BY <1>1, <1>13 DEF RenameMedia, TaskType, Tasks
  <2>. QED
    BY <2>1, <2>3, <2>4 DEF OwnMedia
<1>14. CASE Download(j) \/ WaitTimeout(j) \/ Close(j) \/ Raise(j)
  <2>1. \E at \in Later : GoTo(j, at)
    BY <1>14 DEF Download, WaitTimeout, Close, Raise
  <2>2. task'[j].at \in Later
    BY <1>4, <2>1 DEF Stage, Using
  <2>. QED
    BY <2>2 DEF OwnMedia
<1>15. CASE Lookup(j) \/ Resolve(j)
  <2>1. task'[j].at \notin Working
    BY <1>1, <1>15 DEF Lookup, Resolve, OpenHome, ListProjects, ClickNewProject, ReadUrl, Retitle, RetitleAgain,
       RetitleLost, GoTo, Found, TaskType, Tasks, Working, Using, Stretch
  <2>. QED
    BY <1>6, <2>1 DEF Working, Using, Stretch
<1>16. ~UploadFile(j)
  BY <1>5 DEF UploadFile, VisitForClip, AddMedia, Uploaded, NameUpload, StageFits, At, Kinds
<1>17. ~MakeCharacter(j)
  BY <1>5 DEF MakeCharacter, NewCharacter, Portray, NoFullbody, Portrayed, DownloadCharacter, NextPart,
     SaveCharacter, StageFits, At
<1>18. CASE ~Lookup(j) /\ ~Step(j) /\ task'[j].at \in {"prompt", "submit", "start", "poll", "open", "rename", "download"}
  <2>1. task'[j].at = task[j].at /\ task[j].at \in Using
    BY <1>18, OwnStages DEF Using
  <2>2. /\ UNCHANGED <<page, prompt, grid>> /\ media'[j].from = media[j].from
        /\ \A m \in Job : media'[m].state = "loading" => media[m].state = "loading"
    BY <1>1, <1>18, <2>1, Alone
  <2>3. task'[j] = task[j]
    BY <1>18, OwnStages
  <2>4. Mine(j) => Mine(j)'
    BY <2>2 DEF Mine, Tile
  <2>5. page.at = "project" => \A i \in DOMAIN grid[page.project] : grid[page.project][i] \in Job
    BY <1>3, ElementOfSeq
  <2>6. Loading' => Loading
    BY <2>2, <2>5 DEF Loading
  <2>7. ~Starting(j) => ~Starting(j)'
    BY <1>1, <2>2, <2>3, <2>6 DEF Starting, Kinds
  <2>. QED
    BY <1>2, <2>2, <2>3, <2>4, <2>7 DEF OwnMedia
<1>. QED
  BY <1>6, <1>7, <1>8, <1>9, <1>10, <1>11, <1>12, <1>13, <1>14, <1>15, <1>16, <1>17, <1>18 DEF Step, Generate

\* A character that is by itself keeps the editor.
LEMMA OwnEditorKept ==
  ASSUME IInv, MediaInv, [Next]_vars, NEW j \in Job, j \notin mixed', Edits(j)
  PROVE  OwnEditor(j)'
<1>1. TypeOK /\ TaskType /\ task[j] \in Tasks /\ j \notin mixed
  BY CleanBefore DEF IInv, TypeOK, TaskType
<1>2. OwnEditor(j)
  BY <1>1 DEF MediaInv, OwnPages
<1>3. page \in [at : {"blank", "home", "project", "media", "editor"},
                project : Project \cup {None}, item : Job \cup {None}]
  BY <1>1 DEF TypeOK, TabType
<1>4. ~Generates(j) /\ ~Kinds(j, {"upload", "clip"}) /\ StageFits(j)
  BY OneKind DEF IInv, TaskHolds
<1>. DEFINE Editing == {"portray", "portrayed", "download", "wait", "close", "save"}
<1>5. CASE task'[j].at \notin {"new"} \cup Editing
  BY <1>5 DEF OwnEditor
<1>6. CASE VisitProject(j)
  <2>1. GoTo(j, "new") /\ page'.at = "project"
    BY <1>1, <1>4, <1>6, KindFacts DEF VisitProject, Visit
  <2>2. task'[j].at = "new"
    BY <1>1, <2>1, Goes DEF Stage, Using
  <2>. QED
    BY <2>1, <2>2 DEF OwnEditor
<1>7. CASE NewCharacter(j)
  <2>1. GoTo(j, "portray") /\ page' = [page EXCEPT !.at = "editor", !.item = j]
    BY <1>2, <1>7 DEF NewCharacter, OwnEditor, At, Show
  <2>2. task'[j].at = "portray"
    BY <1>1, <2>1, Goes DEF Stage, Using
  <2>3. page'.at = "editor" /\ page'.item = j
    BY <1>3, <2>1
  <2>. QED
    BY <2>2, <2>3 DEF OwnEditor
<1>8. CASE (MakeCharacter(j) /\ ~NewCharacter(j) /\ ~SaveCharacter(j)) \/ WaitTimeout(j)
  <2>1. UNCHANGED page /\ task[j].at \in Editing
    BY <1>8 DEF MakeCharacter, Portray, NoFullbody, Portrayed, DownloadCharacter, NextPart, WaitTimeout, At, tabVars
  <2>2. task'[j].at # "new"
    <3>1. NextPart(j) => task'[j].at # "new"
      BY <1>1 DEF NextPart, GoTo, TaskType, Tasks
    <3>2. ~NextPart(j) => \E at \in Editing : GoTo(j, at)
      BY <1>8 DEF MakeCharacter, Portray, NoFullbody, Portrayed, DownloadCharacter, WaitTimeout
    <3>3. ASSUME NEW at \in Editing, GoTo(j, at) PROVE task'[j].at = at
      BY <1>1, <3>3, Goes DEF Stage, Using
    <3>. QED
      BY <3>1, <3>2, <3>3
  <2>. QED
    BY <1>2, <2>1, <2>2 DEF OwnEditor
<1>9. CASE SaveCharacter(j) \/ Raise(j)
  <2>1. \E at \in {"done", "raised"} : GoTo(j, at)
    BY <1>9 DEF SaveCharacter, Raise
  <2>2. task'[j].at \in {"done", "raised"}
    BY <1>1, <2>1, Goes DEF Stage
  <2>. QED
    BY <1>5, <2>2
<1>10. CASE Lookup(j) \/ Resolve(j)
  <2>1. task'[j].at \notin Working
    BY <1>1, <1>10 DEF Lookup, Resolve, OpenHome, ListProjects, ClickNewProject, ReadUrl, Retitle, RetitleAgain,
       RetitleLost, GoTo, Found, TaskType, Tasks, Working, Using, Stretch
  <2>. QED
    BY <1>5, <2>1 DEF Working, Using, Stretch
<1>11. ~(Generate(j) /\ ~VisitProject(j) /\ ~WaitTimeout(j)) /\ ~UploadFile(j)
  BY <1>4 DEF Generate, EnterPrompt, PromptLost, Submit, SubmitLost, Started, PollDone, PollTimeout, OpenTile,
     RenameMedia, Download, Close, UploadFile, VisitForClip, AddMedia, Uploaded, NameUpload, StageFits, At, Kinds
<1>12. CASE ~Lookup(j) /\ ~Step(j) /\ task'[j].at \in {"new"} \cup Editing
  <2>1. /\ task'[j] = task[j] \/ (task[j].at = "wait" /\ task'[j].at = "close")
        /\ task[j].at \in Using
    BY <1>12, OwnStages DEF Using
  <2>2. page' = page
    BY <1>12, <2>1, Alone
  <2>. QED
    BY <1>2, <2>1, <2>2 DEF OwnEditor
<1>. QED
  BY <1>5, <1>6, <1>7, <1>8, <1>9, <1>10, <1>11, <1>12 DEF Step

\* How a character gets an image.
LEMMA LookMoves ==
  ASSUME IInv, [Next]_vars
  PROVE  UNCHANGED look \/ \E i \in Job : Portrayed(i)
<1>1. CASE \E i \in Job : (Lookup(i) \/ Step(i)) /\ ~Portrayed(i)
  BY <1>1 DEF Step, Lookup, Resolve, OpenHome, ListProjects, ClickNewProject, ReadUrl, Retitle, RetitleAgain,
     RetitleLost, Generate, VisitProject, EnterPrompt, PromptLost, Submit, SubmitLost, Started, PollDone,
     PollTimeout, OpenTile, RenameMedia, Download, WaitTimeout, Close, UploadFile, VisitForClip, AddMedia,
     Uploaded, NameUpload, MakeCharacter, NewCharacter, Portray, NoFullbody, DownloadCharacter, NextPart,
     SaveCharacter, Raise, flowVars
<1>2. CASE Tools
  BY <1>2, ToolFacts DEF IInv, Tool, flowVars
<1>3. CASE ~(\E j \in Job : Lookup(j) \/ Step(j)) /\ ~Tools
  BY <1>3 DEF Next, Tools, MediaEnds, Arrive, Restart, flowVars, vars
<1>. QED
  BY <1>1, <1>2, <1>3

\* Nobody else draws in the editor of a character that is by itself.
LEMMA LooksKept ==
  ASSUME IInv, MediaInv, [Next]_vars
  PROVE  Looks'
<1>. SUFFICES ASSUME NEW j \in Job, j \notin mixed', NEW p \in Part PROVE look'[j][p] \subseteq {j}
  BY DEF Looks
<1>1. TypeOK /\ j \notin mixed /\ look[j][p] \subseteq {j}
  BY CleanBefore DEF IInv, MediaInv, Looks
<1>2. CASE \E i \in Job : Portrayed(i)
  <2>1. PICK i \in Job : Portrayed(i)
    BY <1>2
  <2>2. /\ page.at = "editor" /\ look' = [look EXCEPT ![page.item][task[i].part] = {i}]
        /\ At(i, "portrayed") /\ task[i].part \in Part
    BY <1>1, <2>1 DEF Portrayed, TypeOK, TaskType, Tasks
  <2>3. page.item = j => i = j
    BY <1>1, <2>2 DEF MediaInv, EditorAlone, At, Using
  <2>4. look'[j][p] = IF j = page.item /\ p = task[i].part THEN {i} ELSE look[j][p]
    BY <1>1, <2>2, Drawn
  <2>. QED
    BY <1>1, <2>3, <2>4
<1>. QED
  BY <1>1, <1>2, LookMoves

\* Whoever joins a character in its editor opens another page or is mixed up with it.
LEMMA EditorAloneKept ==
  ASSUME IInv, MediaInv, [Next]_vars
  PROVE  EditorAlone'
<1>. SUFFICES ASSUME page'.at = "editor", page'.item \notin mixed', NEW i \in Job, i # page'.item,
                     task'[i].at \in Using
              PROVE  task'[i].at = "add"
  BY DEF EditorAlone, At
<1>1. CASE \E j \in Job : NewCharacter(j) /\ page'.item = j
  <2>1. PICK j \in Job : NewCharacter(j) /\ page'.item = j
    BY <1>1
  <2>2. task'[i] = task[i]
    BY <2>1, OneMoves DEF Step, MakeCharacter
  <2>3. Touch(j)
    BY <2>1 DEF NewCharacter
  <2>. QED
    BY <2>1, <2>2, <2>3, Touched
<1>2. CASE page' = page
  <2>1. CASE task[i].at \notin Using
    BY <1>2, <2>1, Enters
  <2>2. CASE task[i].at \in Using
    <3>1. At(i, "add")
      <4>1. page.item \notin mixed
        BY <1>2, HistoriesGrow
      <4>. QED
        BY <1>2, <2>2, <4>1 DEF MediaInv, EditorAlone
    <3>2. CASE Lookup(i) \/ Step(i)
      <4>1. Raise(i)
        BY <1>2, <3>1, <3>2 DEF Step, Lookup, Resolve, OpenHome, ListProjects, ClickNewProject, ReadUrl, Retitle,
           RetitleAgain, RetitleLost, Generate, VisitProject, EnterPrompt, PromptLost, Submit, SubmitLost,
           Started, PollDone, PollTimeout, OpenTile, RenameMedia, Download, WaitTimeout, Close, UploadFile,
           VisitForClip, AddMedia, Uploaded, NameUpload, MakeCharacter, NewCharacter, Portray, NoFullbody,
           Portrayed, DownloadCharacter, NextPart, SaveCharacter, At
      <4>2. GoTo(i, "raised") /\ "raised" \in Stage
        BY <4>1 DEF Raise, Stage
      <4>3. task'[i].at = "raised"
        BY <4>2, Goes DEF IInv, TypeOK
      <4>. QED
        BY <4>3 DEF Using, Stretch
    <3>3. CASE ~Lookup(i) /\ ~Step(i)
      BY <3>1, <3>3, OwnStages DEF At, Using, Stretch
    <3>. QED
      BY <3>2, <3>3
  <2>. QED
    BY <2>1, <2>2
<1>. QED
  BY <1>1, <1>2, EditorOpens

\* A generation that is by itself gives its name to its own media.
LEMMA NamesKept ==
  ASSUME IInv, MediaInv, [Next]_vars
  PROVE  Names'
<1>. SUFFICES ASSUME NEW m \in Job, NEW j \in Job, media'[m].name = j, Clean(j)', Generates(j)
              PROVE  media'[m].from = {j}
  BY CleanBefore DEF Names
<1>1. Clean(j) /\ OwnMedia(j) /\ j # None
  BY CleanBefore, NameAssumption DEF MediaInv, OwnPages, Project
<1>2. CASE media'[m].name = media[m].name /\ media'[m].from = media[m].from
  BY <1>1, <1>2 DEF MediaInv, Names
<1>3. CASE /\ RenameMedia(j) \/ NameUpload(j)
           /\ m = page.item /\ media'[m].from = media[m].from
  <2>1. ~NameUpload(j)
    BY OneKind DEF NameUpload, At, IInv, TaskHolds, StageFits
  <2>. QED
    BY <1>1, <1>3, <2>1 DEF RenameMedia, At, OwnMedia
<1>. QED
  BY <1>1, <1>2, <1>3, NameMoves

\* A file that bears the name of a generation is the one it asked for.
LEMMA ArrivingKept ==
  ASSUME IInv, MediaInv, [Next]_vars
  PROVE  Arriving'
<1>. SUFFICES ASSUME NEW d \in coming', NEW j \in Job, d.name = j, Clean(j)', Generates(j)
              PROVE  d.from = {j}
  BY CleanBefore DEF Arriving
<1>1. Clean(j) /\ j # "character"
  BY CleanBefore, NameAssumption
<1>2. CASE d \in coming
  BY <1>1, <1>2 DEF MediaInv, Arriving
<1>3. CASE page.at = "media" /\ d.name = media[page.item].name /\ d.from = media[page.item].from
  <2>1. page.item \in Job
    BY <1>3 DEF IInv, PageHolds
  <2>. QED
    BY <1>1, <1>3, <2>1 DEF MediaInv, Names
<1>. QED
  BY <1>1, <1>2, <1>3, ComingMoves

\* While not all characters are muddled, one that waits stops waiting only for its file.
LEMMA WaitKept ==
  ASSUME IInv, [Next]_vars, NEW i \in Job, Edits(i), At(i, "wait"),
         NEW j \in Job, j \notin muddled', Edits(j)
  PROVE  task'[i] = task[i] \/ \E d \in coming : Arrive(d) /\ Waits(i, d)
<1>1. TypeOK
  BY DEF IInv
<1>2. j \in Misled(i)
  BY DEF Misled, Edits
<1>3. ~Raise(i) /\ ~WaitTimeout(i) /\ ~Restart
  BY <1>2 DEF Raise, WaitTimeout, Restart
<1>4. ~Lookup(i) /\ ~Step(i)
  BY <1>3 DEF Step, Lookup, Resolve, OpenHome, ListProjects, ClickNewProject, ReadUrl, Retitle, RetitleAgain,
     RetitleLost, Generate, VisitProject, EnterPrompt, PromptLost, Submit, SubmitLost, Started, PollDone,
     PollTimeout, OpenTile, RenameMedia, Download, Close, UploadFile, VisitForClip, AddMedia, Uploaded,
     NameUpload, MakeCharacter, NewCharacter, Portray, NoFullbody, Portrayed, DownloadCharacter, NextPart,
     SaveCharacter, At
<1>5. CASE \E k \in Job : Lookup(k) \/ Step(k)
  BY <1>4, <1>5, OneMoves
<1>6. CASE \E d \in coming : Arrive(d)
  BY <1>1, <1>6, Arrives
<1>7. CASE Tools
  BY <1>1, <1>7, ToolFacts DEF Tool
<1>8. CASE ~(\E k \in Job : Lookup(k) \/ Step(k)) /\ ~(\E d \in coming : Arrive(d)) /\ ~Tools
  BY <1>3, <1>8 DEF Next, Tools, MediaEnds, vars
<1>. QED
  BY <1>5, <1>6, <1>7, <1>8

\* Only a download makes a character wait.
LEMMA WaitBegins ==
  ASSUME IInv, [Next]_vars, NEW i \in Job, Edits(i), task'[i].at = "wait"
  PROVE  \/ task[i].at = "wait" /\ ~Step(i)
         \/ DownloadCharacter(i)
<1>1. TypeOK /\ TaskType /\ task[i] \in Tasks
  BY DEF IInv, TypeOK, TaskType
<1>2. ~Generates(i) /\ ~Kinds(i, {"upload", "clip"}) /\ StageFits(i)
  BY OneKind DEF IInv, TaskHolds
<1>3. ASSUME NEW at \in Stage, GoTo(i, at) PROVE task'[i].at = at
  BY <1>1, <1>3, Goes
<1>4. ~Lookup(i) /\ ~Resolve(i)
  BY <1>1 DEF Lookup, Resolve, OpenHome, ListProjects, ClickNewProject, ReadUrl, Retitle, RetitleAgain,
     RetitleLost, GoTo, Found, TaskType, Tasks
<1>5. ~VisitProject(i)
  <2>1. VisitProject(i) => GoTo(i, "new") /\ "new" \in Stage
    BY <1>1, <1>2, KindFacts DEF VisitProject, Stage, Using
  <2>. QED
    BY <1>3, <2>1
<1>6. ~(Generate(i) /\ ~VisitProject(i) /\ ~WaitTimeout(i)) /\ ~UploadFile(i)
  BY <1>2 DEF Generate, EnterPrompt, PromptLost, Submit, SubmitLost, Started, PollDone, PollTimeout, OpenTile,
     RenameMedia, Download, Close, UploadFile, VisitForClip, AddMedia, Uploaded, NameUpload, StageFits, At, Kinds
<1>7. ~NextPart(i)
  BY <1>1 DEF NextPart, GoTo, TaskType, Tasks
<1>8. ~NewCharacter(i) /\ ~Portray(i) /\ ~NoFullbody(i) /\ ~Portrayed(i) /\ ~SaveCharacter(i) /\ ~Raise(i)
      /\ ~WaitTimeout(i)
  <2>1. NewCharacter(i) \/ Portray(i) \/ NoFullbody(i) \/ Portrayed(i) \/ SaveCharacter(i) \/ Raise(i) \/ WaitTimeout(i)
        => \E at \in {"portray", "portrayed", "download", "done", "raised", "close"} : GoTo(i, at)
    BY DEF NewCharacter, Portray, NoFullbody, Portrayed, SaveCharacter, Raise, WaitTimeout
  <2>2. {"portray", "portrayed", "download", "done", "raised", "close"} \subseteq Stage
    BY DEF Stage, Using
  <2>. QED
    BY <1>3, <2>1, <2>2
<1>9. CASE ~Step(i)
  BY <1>4, <1>9, OwnStages
<1>. QED
  BY <1>4, <1>5, <1>6, <1>7, <1>8, <1>9 DEF Step, Generate, MakeCharacter

\* The files of characters that are on their way.
LEMMA EditorFilesKept ==
  ASSUME IInv, MediaInv, [Next]_vars
  PROVE  EditorFiles'
<1>. SUFFICES ASSUME NEW j \in Job, j \notin muddled', Edits(j)
              PROVE  /\ \A d \in coming' : d.name = "character" =>
                          \E i \in Job : Edits(i) /\ task'[i].at = "wait" /\ d.from = {i}
                     /\ \A i, k \in Job :
                          Edits(i) /\ Edits(k) /\ task'[i].at = "wait" /\ task'[k].at = "wait" => i = k
  BY CleanBefore DEF EditorFiles, At
<1>1. TypeOK /\ TaskType /\ j \notin muddled
  BY HistoriesGrow DEF IInv, TypeOK
<1>2. /\ \A d \in coming : d.name = "character" => \E i \in Job : Edits(i) /\ At(i, "wait") /\ d.from = {i}
      /\ \A i, k \in Job : Edits(i) /\ Edits(k) /\ At(i, "wait") /\ At(k, "wait") => i = k
  BY <1>1 DEF MediaInv, EditorFiles
<1>3. ASSUME NEW i \in Job, DownloadCharacter(i)
      PROVE  /\ Edits(i) /\ i \notin mixed' /\ page.item = i /\ \A p \in Part : look[page.item][p] \subseteq {i}
             /\ \A k \in Job : k # i => task'[k] = task[k] /\ task[k].at \notin Using
  <2>1. Edits(i) /\ Touch(i) /\ At(i, "download")
    BY <1>3 DEF DownloadCharacter, Edits
  <2>2. i \notin mixed'
    BY <1>3 DEF DownloadCharacter, Confused, Edits
  <2>3. i \notin mixed
    BY <2>2, CleanBefore
  <2>4. page.item = i /\ \A p \in Part : look[page.item][p] \subseteq {i}
    BY <2>1, <2>3 DEF MediaInv, OwnPages, OwnEditor, Looks, At
  <2>5. \A k \in Job : k # i => task'[k] = task[k]
    BY <1>3, OneMoves DEF Step, MakeCharacter
  <2>. QED
    BY <2>1, <2>2, <2>4, <2>5, Touched
<1>4. ASSUME NEW d \in coming', d.name = "character"
      PROVE  \E i \in Job : Edits(i) /\ task'[i].at = "wait" /\ d.from = {i}
  <2>1. CASE d \in coming
    <3>1. PICK i \in Job : Edits(i) /\ At(i, "wait") /\ d.from = {i}
      BY <1>2, <1>4, <2>1
    <3>2. CASE task'[i] = task[i]
      BY <3>1, <3>2 DEF At
    <3>3. CASE \E e \in coming : Arrive(e) /\ Waits(i, e)
      <4>1. PICK e \in coming : Arrive(e) /\ Waits(i, e)
        BY <3>3
      <4>2. e.name = "character"
        BY <3>1, <4>1, OneKind DEF Waits
      <4>3. e.from = {i}
        BY <1>2, <3>1, <4>2
      <4>4. coming \subseteq [name : Job \cup {None, "character"}, from : Content]
        BY <1>1 DEF TypeOK, MediaType
      <4>5. d = e
        BY <1>4, <2>1, <3>1, <4>2, <4>3, <4>4
      <4>6. d \notin coming'
        BY <4>1, <4>5 DEF Arrive
      <4>. QED
        BY <1>4, <4>6
    <3>. QED
      BY <3>1, <3>2, <3>3, WaitKept
  <2>2. ASSUME NEW i \in Job, DownloadCharacter(i), GoTo(i, "wait"), d.from # {},
               \E p \in Part : d.from = look[page.item][p]
        PROVE  Edits(i) /\ task'[i].at = "wait" /\ d.from = {i}
    <3>1. Edits(i) /\ d.from = {i}
      BY <1>3, <2>2
    <3>2. task'[i].at = "wait"
      BY <1>1, <2>2, Goes DEF Stage, Using
    <3>. QED
      BY <3>1, <3>2
  <2>3. ASSUME NEW i \in Job, page.at = "media", d.name = media[page.item].name
        PROVE  FALSE
    <3>1. media[page.item].name \in Job \cup {None}
      BY <1>1, <2>3 DEF IInv, PageHolds, TypeOK, MediaType
    <3>. QED
      BY <1>4, <2>3, <3>1, NameAssumption
  <2>. QED
    BY <2>1, <2>2, <2>3, ComingMoves
<1>5. ASSUME NEW i \in Job, NEW k \in Job, Edits(i), Edits(k), task'[i].at = "wait", task'[k].at = "wait", i # k
      PROVE  FALSE
  <2>1. CASE DownloadCharacter(i)
    BY <1>3, <1>5, <2>1 DEF Using
  <2>2. CASE DownloadCharacter(k)
    BY <1>3, <1>5, <2>2 DEF Using
  <2>3. CASE task[i].at = "wait" /\ task[k].at = "wait"
    BY <1>2, <1>5, <2>3 DEF At
  <2>. QED
    BY <1>5, <2>1, <2>2, <2>3, WaitBegins
<1>. QED
  BY <1>4, <1>5

\* What a task gets is its own.
LEMMA OwnFilesKept ==
  ASSUME IInv, MediaInv, [Next]_vars
  PROVE  OwnFiles'
<1>. SUFFICES ASSUME NEW j \in Job, Clean(j)' PROVE task'[j].files \subseteq {{j}}
  BY DEF OwnFiles
<1>1. Clean(j) /\ task[j].files \subseteq {{j}}
  BY CleanBefore DEF MediaInv, OwnFiles
<1>2. CASE /\ RenameMedia(j) /\ page.at = "media" /\ Generates(j)
           /\ task'[j].files = task[j].files \cup {media[page.item].from}
  <2>1. OwnMedia(j) /\ At(j, "rename")
    BY <1>1, <1>2 DEF MediaInv, OwnPages, RenameMedia
  <2>. QED
    BY <1>1, <1>2, <2>1 DEF OwnMedia, At
<1>3. CASE \E d \in coming : /\ Arrive(d) /\ Waits(j, d) /\ task[j].at = "wait"
                             /\ task'[j].files = task[j].files \cup {d.from}
  <2>1. PICK d \in coming : /\ Arrive(d) /\ Waits(j, d) /\ task[j].at = "wait"
                            /\ task'[j].files = task[j].files \cup {d.from}
    BY <1>3
  <2>2. CASE Generates(j)
    BY <1>1, <2>1, <2>2 DEF MediaInv, Arriving, Waits
  <2>3. CASE ~Generates(j)
    <3>1. Edits(j) /\ j \notin muddled /\ d.name = "character"
      BY <1>1, <2>1, <2>3 DEF Waits, IInv, TaskHolds, StageFits, Clean
    <3>2. PICK i \in Job : Edits(i) /\ At(i, "wait") /\ d.from = {i}
      BY <3>1 DEF MediaInv, EditorFiles
    <3>3. i = j
      BY <2>1, <3>1, <3>2 DEF MediaInv, EditorFiles, At
    <3>. QED
      BY <1>1, <2>1, <3>2, <3>3
  <2>. QED
    BY <2>2, <2>3
<1>. QED
  BY <1>1, <1>2, <1>3, FilesMove

\* Initially there is nothing to take for another's.
LEMMA InitMedia == Init => MediaInv
<1>. SUFFICES ASSUME Init PROVE MediaInv
  OBVIOUS
<1>1. /\ page.at = "blank" /\ coming = {} /\ \A j \in Job : task[j].at = "lookup" /\ task[j].files = {}
  BY DEF Init
<1>2. OwnPages
  BY <1>1 DEF OwnPages, OwnMedia, OwnEditor
<1>3. Looks
  BY DEF Init, Looks
<1>4. EditorAlone /\ Arriving /\ EditorFiles /\ OwnFiles
  BY <1>1 DEF EditorAlone, Arriving, EditorFiles, OwnFiles, At
<1>5. Names
  BY NameAssumption DEF Init, Names, Project
<1>. QED
  BY <1>2, <1>3, <1>4, <1>5 DEF MediaInv

\* Every step keeps the media apart.
LEMMA NextMedia ==
  ASSUME IInv, MediaInv, [Next]_vars
  PROVE  MediaInv'
<1>1. OwnPages'
  <2>1. \A j \in Job : Clean(j)' /\ Generates(j)' => OwnMedia(j)'
    BY CleanBefore, OwnMediaKept
  <2>2. \A j \in Job : j \notin mixed' /\ Edits(j)' => OwnEditor(j)'
    BY CleanBefore, OwnEditorKept
  <2>. QED
    BY <2>1, <2>2 DEF OwnPages
<1>. QED
  BY <1>1, LooksKept, EditorAloneKept, NamesKept, ArrivingKept, EditorFilesKept, OwnFilesKept DEF MediaInv

\* What a finished task hands out was made of its own prompt alone (pages/video_page.py,
\* image_page.py, character_page.py), whatever failed and abandoned tasks left in the tab,
\* unless it was mixed up with another user of the tab, a click of its own was lost while a
\* foreign media was loading, or the file of another character was on its way.
THEOREM MediaAreRight == Spec => []RightMedia
<1>1. IInv /\ MediaInv /\ [Next]_vars => MediaInv'
  BY NextMedia
<1>2. MediaInv => RightMedia
  BY DEF MediaInv, OwnFiles, Clean, RightMedia
<1>. QED
  BY <1>1, <1>2, InitMedia, TypesHold, PTL DEF Spec
=============================================================================
