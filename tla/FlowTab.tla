------------------------------ MODULE FlowTab ------------------------------
(***************************************************************************)
(* One browser tab of Google Flow and the threads that drive it: the page  *)
(* objects (pages/), the resolution of a project alias (local_executor.py, *)
(* executor.py) and the tools that list and open pages.  All of them take  *)
(* browser.latest_tab and none of them holds a lock.                       *)
(*                                                                         *)
(* On the Master the resolution and the tools run in the event loop from   *)
(* end to end, while the generations run in threads beside it; on a worker *)
(* every call is a thread.  A page object's action is one look at the page *)
(* or one click; what Flow does (media that finish, files that arrive,     *)
(* clicks and inputs that go nowhere) is modelled from what the page       *)
(* objects expect and tolerate.  A media is named after the job that made  *)
(* it; `from` is the set of prompts it was made of.                        *)
(***************************************************************************)
EXTENDS Integers, SequencesExt

CONSTANTS
  Job,         \* tasks that use the tab
  Alias,       \* project aliases; also the ids of the projects that exist before
  None,        \* no project, no item, no name
  Mix,         \* the kinds and aliases of the tasks that are considered together
  MaxEvents    \* bound: clicks, names and inputs that go nowhere unnoticed, calls of
               \* tools that navigate, restarts of the worker process

Kind == {"image", "video", "upload", "clip", "character"}
Project == Job \cup Alias

ASSUME MixAssumption == Mix \subseteq [Job -> [kind : Kind, alias : Alias]]
ASSUME BoundAssumption == MaxEvents \in Nat
ASSUME NameAssumption ==
  /\ Job \cap Alias = {} /\ None \notin Project \cup {"untitled", "character"}
  /\ "untitled" \notin Alias   \* the date Flow gives a new project for a title is no alias
  /\ "character" \notin Job    \* nor is the word in front of a character's file a job id

VARIABLES
  local,   \* the tab of the Master (Worker 0), or of a remote worker
  plan,    \* kind and alias of each task
  mapping, \* project_mappings in memory, or the table on the Master
  title,   \* titles of the projects; None: there is no such project
  page,    \* where the tab is: the project, and the item whose detail page it is
  prompt,  \* prompts in the editor of the project page
  error,   \* the page shows an error title
  grid,    \* tiles of each project, newest first
  media,   \* what became of the media of each task
  look,    \* images of each character, by part
  coming,  \* downloads Chrome has begun
  task,    \* where the thread of each task is
  mixed,   \* history: another task or a tool used the tab meanwhile
  muddled, \* history: a click was lost while a foreign media was loading, or the file of
           \* a character may be taken for that of another
  forked,  \* history: aliases whose project did not get its title, or lost it, or got it
           \* from a task that was mixed up with another
  events   \* how many of those there have been

tabVars == <<page, prompt, error>>
flowVars == <<title, grid, media, look>>
fixed == <<local, plan>>
histories == <<mixed, muddled, forked>>
vars == <<fixed, mapping, tabVars, flowVars, coming, task, histories, events>>

Part == {"portrait", "fullbody"}
Stretch == {"list", "create", "url", "rehome", "retitle"}
Using == Stretch \cup {"prompt", "submit", "start", "poll", "open", "rename", "download", "wait",
                       "close", "add", "upload", "name", "new", "portray", "portrayed", "save"}
Stage == Using \cup {"lookup", "home", "go", "done", "raised"}
Content == (SUBSET Job) \ {{}}
Tasks == [at : Stage, project : Project \cup {None}, tiles : Nat, part : Part,
          files : SUBSET Content]

ProjectType ==
  /\ local \in BOOLEAN /\ plan \in Mix
  /\ mapping \in [Alias -> Project \cup {None}]
  /\ title \in [Project -> Alias \cup {"untitled", None}]

TabType ==
  /\ page \in [at : {"blank", "home", "project", "media", "editor"},
               project : Project \cup {None}, item : Job \cup {None}]
  /\ prompt \subseteq Job /\ error \in BOOLEAN

MediaType ==
  /\ grid \in [Project -> Seq(Job)]
  /\ media \in [Job -> [state : {"none", "loading", "ready", "failed"}, from : SUBSET Job,
                        name : Job \cup {None}]]
  /\ look \in [Job -> [Part -> SUBSET Job]]
  /\ coming \subseteq [name : Job \cup {None, "character"}, from : Content]

TaskType == task \in [Job -> Tasks]

HistoryType ==
  /\ mixed \subseteq Job /\ muddled \subseteq Job /\ forked \subseteq Alias
  /\ events \in 0..MaxEvents

\* Every variable stays in its domain; the proofs start from here.
TypeOK == ProjectType /\ TabType /\ MediaType /\ TaskType /\ HistoryType

Init ==
  /\ local \in BOOLEAN /\ plan \in Mix
  /\ ~local => \A j \in Job : plan[j].kind # "image"   \* a worker generates videos only
  /\ \E old \in SUBSET {plan[j].alias : j \in Job} :
       title = [p \in Project |-> IF p \in old THEN p ELSE None]
  /\ mapping = [a \in Alias |-> None]
  /\ page = [at |-> "blank", project |-> None, item |-> None]
  /\ prompt = {} /\ error = FALSE /\ coming = {}
  /\ grid = [p \in Project |-> <<>>]
  /\ media = [j \in Job |-> [state |-> "none", from |-> {}, name |-> None]]
  /\ look = [j \in Job |-> [p \in Part |-> {}]]
  /\ task = [j \in Job |-> [at |-> "lookup", project |-> None, tiles |-> 0, part |-> "portrait",
                            files |-> {}]]
  /\ mixed = {} /\ muddled = {} /\ forked = {}
  /\ events = 0

Event == events < MaxEvents /\ events' = events + 1

At(j, at) == task[j].at = at
GoTo(j, at) == task' = [task EXCEPT ![j].at = at]
Kinds(j, kinds) == plan[j].kind \in kinds
Generates(j) == Kinds(j, {"image", "video"})

\* The Master's event loop is not in the middle of a resolution.
LoopFree == local => \A i \in Job : task[i].at \notin Stretch

\* j does something to the tab: whoever else is using it is mixed up with j.
Touch(j) ==
  LET others == {i \in Job \ {j} : task[i].at \in Using}
  IN mixed' = mixed \cup others \cup (IF others = {} THEN {} ELSE {j})

\* tab.get: a fresh page, an empty editor.
Visit(at, p) ==
  /\ page' = [at |-> at, project |-> p, item |-> None]
  /\ prompt' = {} /\ error' = FALSE

Show(at, item) ==
  /\ page' = [page EXCEPT !.at = at, !.item = item]
  /\ prompt' = {} /\ error' = FALSE

----------------------------------------------------------------------------
(* ensure_project_url and the calls of HomePage it makes *)

Lookup(j) ==
  /\ At(j, "lookup") /\ LoopFree
  /\ LET known == mapping[plan[j].alias]
     IN task' = [task EXCEPT ![j].at = IF known = None THEN "home" ELSE "go",
                             ![j].project = known]
  /\ UNCHANGED <<fixed, mapping, tabVars, flowVars, coming, histories, events>>

OpenHome(j) ==
  /\ \/ At(j, "home") /\ LoopFree /\ GoTo(j, "list")
     \/ At(j, "rehome") /\ GoTo(j, "retitle")
  /\ Visit("home", None)
  /\ Touch(j)
  /\ UNCHANGED <<fixed, mapping, flowVars, coming, muddled, forked, events>>

Titled(a) == {p \in Project : title[p] = a}
Unambiguous == \A a \in Alias, p, q \in Project : {p, q} \subseteq Titled(a) => p = q

Found(j, p) ==
  /\ mapping' = [mapping EXCEPT ![plan[j].alias] = p]
  /\ task' = [task EXCEPT ![j].at = "go", ![j].project = p]

\* Broken: a project is created whenever the mapping does not know the alias.
CreateUnseen(j) ==
  /\ At(j, "list")
  /\ GoTo(j, "create")
  /\ UNCHANGED <<fixed, mapping, tabVars, flowVars, coming, histories, events>>

\* get_projects: the cards of the home page, no card on any other page; two equal
\* titles raise, whatever alias is asked for.
ListProjects(j) ==
  /\ At(j, "list")
  /\ IF page.at = "home" /\ Titled(plan[j].alias) # {}
     THEN \E p \in Titled(plan[j].alias) : Unambiguous /\ Found(j, p)
     ELSE GoTo(j, "create") /\ (page.at = "home" => Unambiguous) /\ UNCHANGED mapping
  /\ UNCHANGED <<fixed, tabVars, flowVars, coming, histories, events>>

\* create_project: the click on the button of the home page.
ClickNewProject(j) ==
  /\ At(j, "create") /\ page.at = "home"
  /\ title' = [title EXCEPT ![j] = "untitled"]
  /\ Visit("project", j)
  /\ Touch(j)
  /\ GoTo(j, "url")
  /\ UNCHANGED <<fixed, mapping, grid, media, look, coming, muddled, forked, events>>

\* The id is taken from the URL of the tab, if that is no longer the home page.
ReadUrl(j) ==
  /\ At(j, "url") /\ page.project # None
  /\ task' = [task EXCEPT ![j].at = "rehome", ![j].project = page.project]
  /\ UNCHANGED <<fixed, mapping, tabVars, flowVars, coming, histories, events>>

\* rename_project finds the card on the home page; the mapping is written in any case.
Retitle(j) ==
  /\ At(j, "retitle") /\ page.at = "home"
  /\ title' = [title EXCEPT ![task[j].project] = plan[j].alias]
  /\ Found(j, task[j].project)
  /\ Touch(j)
  /\ forked' = IF j \in mixed' THEN forked \cup ({plan[j].alias, title[task[j].project]} \cap Alias)
               ELSE forked
  /\ UNCHANGED <<fixed, tabVars, grid, media, look, coming, muddled, events>>

\* A worker opens the home page and tries again, three times in all.
RetitleAgain(j) ==
  /\ At(j, "retitle") /\ ~local /\ Event
  /\ GoTo(j, "rehome")
  /\ UNCHANGED <<fixed, mapping, tabVars, flowVars, coming, histories>>

\* No card, no button, no input, no answer: False, which nobody asks for in the end.
RetitleLost(j) ==
  /\ At(j, "retitle")
  /\ IF page.at = "home" THEN Event ELSE UNCHANGED events
  /\ forked' = forked \cup {plan[j].alias}
  /\ Found(j, task[j].project)
  /\ UNCHANGED <<fixed, tabVars, flowVars, coming, mixed, muddled>>

----------------------------------------------------------------------------
(* generate_image and generate_video *)

FirstStage(j) ==
  CASE Generates(j) -> "prompt"
    [] Kinds(j, {"upload", "clip"}) -> "add"
    [] Kinds(j, {"character"}) -> "new"

\* Broken: the page is left as it is when the tab shows the project already.
VisitOnce(j) ==
  /\ At(j, "go") /\ LoopFree /\ ~Kinds(j, {"clip"})
  /\ IF page.at = "project" /\ page.project = task[j].project THEN UNCHANGED tabVars
     ELSE Visit("project", task[j].project)
  /\ Touch(j)
  /\ GoTo(j, FirstStage(j))
  /\ UNCHANGED <<fixed, mapping, flowVars, coming, muddled, forked, events>>

\* The thread begins, with a fresh page.
VisitProject(j) ==
  /\ At(j, "go") /\ LoopFree /\ ~Kinds(j, {"clip"})
  /\ Visit("project", task[j].project)
  /\ Touch(j)
  /\ GoTo(j, FirstStage(j))
  /\ UNCHANGED <<fixed, mapping, flowVars, coming, muddled, forked, events>>

\* The editor of a project page takes the text where the cursor is.
EnterPrompt(j) ==
  /\ At(j, "prompt")
  /\ prompt' = IF page.at = "project" THEN prompt \cup {j} ELSE prompt
  /\ Touch(j)
  /\ GoTo(j, "submit")
  /\ UNCHANGED <<fixed, mapping, page, error, flowVars, coming, muddled, forked, events>>

\* Neither way of typing worked: that is only logged.
PromptLost(j) ==
  /\ At(j, "prompt") /\ Event
  /\ GoTo(j, "submit")
  /\ UNCHANGED <<fixed, mapping, tabVars, flowVars, coming, histories>>

\* Broken: the button is clicked although it is disabled.
SubmittableEmpty == page.at = "project"

\* The button is enabled as soon as there is text.
Submittable == page.at = "project" /\ prompt # {}

\* A video counts the tiles first.
Tiles(j) == IF Kinds(j, {"video"}) THEN Len(grid[page.project]) ELSE 0

Submit(j) ==
  /\ At(j, "submit") /\ Submittable
  /\ media' = [media EXCEPT ![j] = [state |-> "loading", from |-> prompt, name |-> None]]
  /\ grid' = [grid EXCEPT ![page.project] = <<j>> \o @]
  /\ prompt' = {}
  /\ task' = [task EXCEPT ![j].at = "start", ![j].tiles = Tiles(j)]
  /\ Touch(j)
  /\ UNCHANGED <<fixed, mapping, page, error, title, look, coming, muddled, forked, events>>

\* Some media on the page is loading, whoever asked for it.
Loading ==
  /\ page.at = "project"
  /\ \E i \in DOMAIN grid[page.project] : media[grid[page.project][i]].state = "loading"

\* click_btn gives up after its own retries and says so to nobody.
SubmitLost(j) ==
  /\ At(j, "submit") /\ Submittable /\ Event
  /\ task' = [task EXCEPT ![j].at = "start", ![j].tiles = Tiles(j)]
  /\ muddled' = IF Loading THEN muddled \cup {j} ELSE muddled
  /\ UNCHANGED <<fixed, mapping, tabVars, flowVars, coming, mixed, forked>>

\* A video also takes one more tile for a start.
Starting(j) ==
  \/ Loading
  \/ /\ Kinds(j, {"video"}) /\ page.at = "project"
     /\ Len(grid[page.project]) > task[j].tiles

Started(j) ==
  /\ At(j, "start")
  /\ Starting(j)
  /\ GoTo(j, "poll")
  /\ UNCHANGED <<fixed, mapping, tabVars, flowVars, coming, histories, events>>

\* Nothing is loading any more: the error title decides.
PollDone(j) ==
  /\ At(j, "poll") /\ ~Loading
  /\ GoTo(j, IF error THEN "raised" ELSE "open")
  /\ UNCHANGED <<fixed, mapping, tabVars, flowVars, coming, histories, events>>

\* Broken: the poll has no timeout.
PollOn(j) == At(j, "poll") /\ FALSE /\ UNCHANGED vars

\* 180 or 300 seconds are over: the loop ends and the code goes on as if it were done.
PollTimeout(j) ==
  /\ At(j, "poll") /\ Loading
  /\ GoTo(j, "open")
  /\ UNCHANGED <<fixed, mapping, tabVars, flowVars, coming, histories, events>>

Tile == page.at = "project" /\ grid[page.project] # <<>>

\* The first tile of the page is taken for the new one.
OpenTile(j) ==
  /\ At(j, "open") /\ Tile
  /\ Show("media", Head(grid[page.project]))
  /\ Touch(j)
  /\ GoTo(j, "rename")
  /\ UNCHANGED <<fixed, mapping, flowVars, coming, muddled, forked, events>>

\* Rename what the tab shows; an image also hands out its content.
RenameMedia(j) ==
  /\ At(j, "rename")
  /\ LET shown == page.at = "media"
     IN /\ \/ /\ shown /\ media' = [media EXCEPT ![page.item].name = j]
              /\ UNCHANGED events
           \/ UNCHANGED media /\ IF shown THEN Event ELSE UNCHANGED events
        /\ task' = [task EXCEPT ![j].at = "download",
                      ![j].files = IF shown /\ Kinds(j, {"image"})
                                   THEN @ \cup {media[page.item].from} ELSE @]
  /\ Touch(j)
  /\ UNCHANGED <<fixed, mapping, tabVars, title, grid, look, coming, muddled, forked>>

\* The file will be called as the media is.
Download(j) ==
  /\ At(j, "download") /\ Generates(j)
  /\ IF page.at = "media" /\ media[page.item].state = "ready"
     THEN /\ coming' = coming \cup {[name |-> media[page.item].name, from |-> media[page.item].from]}
          /\ GoTo(j, "wait")
     ELSE GoTo(j, "close") /\ UNCHANGED coming
  /\ Touch(j)
  /\ UNCHANGED <<fixed, mapping, tabVars, flowVars, muddled, forked, events>>

\* A new file matters to a thread that waits for one of its own name; all characters
\* wait for the same name.
Waits(j, d) == At(j, "wait") /\ d.name = (IF Generates(j) THEN j ELSE "character")

Arrive(d) ==
  /\ d \in coming
  /\ coming' = coming \ {d}
  /\ task' = [j \in Job |-> IF Waits(j, d)
                THEN [task[j] EXCEPT !.at = "close", !.files = @ \cup {d.from}] ELSE task[j]]
  /\ UNCHANGED <<fixed, mapping, tabVars, flowVars, histories, events>>

\* The file of a character that nobody waits for any more may still come, and the next
\* thread that waits for a character's file will take it for its own.
Misled(j) ==
  IF At(j, "wait") /\ Kinds(j, {"character"}) THEN {i \in Job : Kinds(i, {"character"})} ELSE {}

\* 60 or 180 seconds are over.
WaitTimeout(j) ==
  /\ At(j, "wait")
  /\ GoTo(j, "close")
  /\ muddled' = muddled \cup Misled(j)
  /\ UNCHANGED <<fixed, mapping, tabVars, flowVars, coming, mixed, forked, events>>

\* Back to the project, if there is a button; a worker insists on the file of a video.
Close(j) ==
  /\ At(j, "close") /\ Generates(j)
  /\ IF page.at = "media" THEN Show("project", None) ELSE UNCHANGED tabVars
  /\ GoTo(j, IF ~local /\ task[j].files = {} THEN "raised" ELSE "done")
  /\ Touch(j)
  /\ UNCHANGED <<fixed, mapping, flowVars, coming, muddled, forked, events>>

----------------------------------------------------------------------------
(* Uploads *)

\* Broken: any project page will do.
VisitAnyProject(j) ==
  /\ At(j, "go") /\ LoopFree /\ Kinds(j, {"clip"})
  /\ IF page.project # None THEN UNCHANGED tabVars ELSE Visit("project", task[j].project)
  /\ Touch(j)
  /\ GoTo(j, "add")
  /\ UNCHANGED <<fixed, mapping, flowVars, coming, muddled, forked, events>>

\* A video is uploaded without a fresh page when the URL contains the project's, which
\* that of a detail page does as well.
VisitForClip(j) ==
  /\ At(j, "go") /\ LoopFree /\ Kinds(j, {"clip"})
  /\ IF page.project = task[j].project THEN UNCHANGED tabVars
     ELSE Visit("project", task[j].project)
  /\ Touch(j)
  /\ GoTo(j, "add")
  /\ UNCHANGED <<fixed, mapping, flowVars, coming, muddled, forked, events>>

\* The button of a project page; the tile gets the name of the file.
AddMedia(j) ==
  /\ At(j, "add") /\ page.at = "project"
  /\ media' = [media EXCEPT ![j] = [state |-> "ready", from |-> {j}, name |-> None]]
  /\ grid' = [grid EXCEPT ![page.project] = <<j>> \o @]
  /\ GoTo(j, "upload")
  /\ Touch(j)
  /\ UNCHANGED <<fixed, mapping, tabVars, title, look, coming, muddled, forked, events>>

\* The first tile carries the name of the file.
Uploaded(j) ==
  /\ At(j, "upload") /\ Tile /\ Head(grid[page.project]) = j
  /\ Show("media", j)
  /\ Touch(j)
  /\ GoTo(j, "name")
  /\ UNCHANGED <<fixed, mapping, flowVars, coming, muddled, forked, events>>

\* Whatever goes wrong with the name is logged only.
NameUpload(j) ==
  /\ At(j, "name")
  /\ media' = IF page.at = "media" THEN [media EXCEPT ![page.item].name = j] ELSE media
  /\ IF page.at = "media" THEN Show("project", None) ELSE UNCHANGED tabVars
  /\ Touch(j)
  /\ GoTo(j, "done")
  /\ UNCHANGED <<fixed, mapping, title, grid, look, coming, muddled, forked, events>>

----------------------------------------------------------------------------
(* CharacterPage *)

NewCharacter(j) ==
  /\ At(j, "new")
  /\ IF page.at = "project" THEN Show("editor", j) ELSE UNCHANGED tabVars
  /\ Touch(j)
  /\ GoTo(j, "portray")
  /\ UNCHANGED <<fixed, mapping, flowVars, coming, muddled, forked, events>>

\* Generate or upload the portrait or the full body in the editor that is open.
Portray(j) ==
  /\ At(j, "portray") /\ page.at = "editor"
  /\ Touch(j)
  /\ GoTo(j, "portrayed")
  /\ UNCHANGED <<fixed, mapping, tabVars, flowVars, coming, muddled, forked, events>>

\* There is no button for the full body: "" and on.
NoFullbody(j) ==
  /\ At(j, "portray") /\ task[j].part = "fullbody"
  /\ GoTo(j, "download")
  /\ UNCHANGED <<fixed, mapping, tabVars, flowVars, coming, histories, events>>

\* One more image on the page.
Portrayed(j) ==
  /\ At(j, "portrayed") /\ page.at = "editor"
  /\ look' = [look EXCEPT ![page.item][task[j].part] = {j}]
  /\ GoTo(j, "download")
  /\ UNCHANGED <<fixed, mapping, tabVars, title, grid, media, coming, histories, events>>

\* Two characters that are edited at a time wait for the same file: one may be left over.
Confused(j) ==
  IF j \in mixed' THEN {i \in Job : Kinds(i, {"character"})} ELSE {}

\* Download an image of the character in the editor, if there is a button.
DownloadCharacter(j) ==
  /\ At(j, "download") /\ Kinds(j, {"character"})
  /\ LET images == IF page.at = "editor" THEN {look[page.item][p] : p \in Part} \ {{}} ELSE {}
     IN \/ /\ images # {}
           /\ \E image \in images : coming' = coming \cup {[name |-> "character", from |-> image]}
           /\ GoTo(j, "wait")
        \/ (images = {} \/ ~local) /\ GoTo(j, "close") /\ UNCHANGED coming
  /\ Touch(j)
  /\ muddled' = muddled \cup Confused(j)
  /\ UNCHANGED <<fixed, mapping, tabVars, flowVars, forked, events>>

\* The voice; then the full body, if the job wants one.
NextPart(j) ==
  /\ At(j, "close") /\ Kinds(j, {"character"})
  /\ \/ task[j].part = "portrait"
        /\ task' = [task EXCEPT ![j].at = "portray", ![j].part = "fullbody"]
     \/ GoTo(j, "save")
  /\ UNCHANGED <<fixed, mapping, tabVars, flowVars, coming, histories, events>>

\* Name and save; neither result is looked at.
SaveCharacter(j) ==
  /\ At(j, "save")
  /\ IF page.at = "editor" THEN Show("project", None) ELSE UNCHANGED tabVars
  /\ Touch(j)
  /\ GoTo(j, "done")
  /\ UNCHANGED <<fixed, mapping, flowVars, coming, muddled, forked, events>>

----------------------------------------------------------------------------
(* What raises, and the world around *)

\* What the page object of j looks for is not there when its wait is over.
Missing(j) ==
  \/ At(j, "list") /\ page.at = "home" /\ ~Unambiguous
  \/ At(j, "create") /\ page.at # "home"
  \/ At(j, "url") /\ page.project = None
  \/ At(j, "submit") /\ ~Submittable
  \/ At(j, "start") /\ ~Starting(j)
  \/ At(j, "open") /\ ~Tile
  \/ At(j, "add") /\ page.at # "project"
  \/ At(j, "upload") /\ ~(Tile /\ Head(grid[page.project]) = j)
  \/ (At(j, "portray") \/ At(j, "portrayed")) /\ page.at # "editor"

\* Then it raises, and so may any call of the browser.  That ends the thread, not what
\* Flow has begun.
Raise(j) ==
  /\ \/ Missing(j) /\ UNCHANGED events
     \/ task[j].at \in Using /\ Event
  /\ GoTo(j, "raised")
  /\ muddled' = muddled \cup Misled(j)
  /\ UNCHANGED <<fixed, mapping, tabVars, flowVars, coming, mixed, forked>>

\* A media gets ready or fails; the page that shows it shows the error.
MediaEnds(m) ==
  /\ media[m].state = "loading"
  /\ \E state \in {"ready", "failed"} :
       /\ media' = [media EXCEPT ![m].state = state]
       /\ error' = (error \/ (state = "failed" /\ page.at = "project"
                                /\ m \in Range(grid[page.project])))
  /\ UNCHANGED <<fixed, mapping, page, prompt, title, grid, look, coming, task, histories, events>>

\* The tools run in the event loop, beside the threads.
Tool ==
  /\ local /\ LoopFree /\ Event
  /\ mixed' = mixed \cup {i \in Job : task[i].at \in Using}
  /\ UNCHANGED <<fixed, flowVars, coming, task, muddled, forked>>

\* image_list and character_list open the project, video_list only when the URL does not
\* contain the project's.
ToolLists(p) ==
  /\ \E a \in Alias : mapping[a] = p
  /\ Visit("project", p) \/ (page.project = p /\ UNCHANGED tabVars)
  /\ Tool /\ UNCHANGED mapping

\* website_open.
OpenWebsite == Visit("home", None) /\ Tool /\ UNCHANGED mapping

\* project_list writes the mapping of every title it sees.
ProjectList ==
  /\ Visit("home", None)
  /\ mapping' = [a \in Alias |->
       IF Unambiguous /\ Titled(a) # {} THEN CHOOSE p \in Titled(a) : TRUE ELSE mapping[a]]
  /\ Tool

\* project_open of a project there is; to create one it does what a task does.
ProjectOpen(a, p) ==
  /\ Unambiguous /\ p \in Titled(a)
  /\ Visit("project", p)
  /\ mapping' = [mapping EXCEPT ![a] = p]
  /\ Tool

\* The worker restarts with an empty mapping; Chrome stays as it is.
Restart ==
  /\ ~local /\ Event
  /\ mapping' = [a \in Alias |-> None]
  /\ task' = [j \in Job |-> IF task[j].at \in {"lookup", "done"} THEN task[j]
                            ELSE [task[j] EXCEPT !.at = "raised"]]
  /\ muddled' = muddled \cup UNION {Misled(j) : j \in Job}
  /\ UNCHANGED <<fixed, tabVars, flowVars, coming, mixed, forked>>

----------------------------------------------------------------------------

Resolve(j) ==
  \/ OpenHome(j) \/ ListProjects(j) \/ ClickNewProject(j) \/ ReadUrl(j)
  \/ Retitle(j) \/ RetitleAgain(j) \/ RetitleLost(j)

Generate(j) ==
  \/ VisitProject(j) \/ EnterPrompt(j) \/ PromptLost(j) \/ Submit(j) \/ SubmitLost(j)
  \/ Started(j) \/ PollDone(j) \/ PollTimeout(j) \/ OpenTile(j) \/ RenameMedia(j)
  \/ Download(j) \/ WaitTimeout(j) \/ Close(j)

UploadFile(j) == VisitForClip(j) \/ AddMedia(j) \/ Uploaded(j) \/ NameUpload(j)

MakeCharacter(j) ==
  \/ NewCharacter(j) \/ Portray(j) \/ NoFullbody(j) \/ Portrayed(j)
  \/ DownloadCharacter(j) \/ NextPart(j) \/ SaveCharacter(j)

Step(j) == Resolve(j) \/ Generate(j) \/ UploadFile(j) \/ MakeCharacter(j) \/ Raise(j)

Next ==
  \/ \E j \in Job : Lookup(j) \/ Step(j) \/ MediaEnds(j)
  \/ \E d \in coming : Arrive(d)
  \/ \E p \in Project : ToolLists(p) \/ \E a \in Alias : ProjectOpen(a, p)
  \/ OpenWebsite \/ ProjectList \/ Restart

Spec == Init /\ [][Next]_vars

\* A thread that has begun goes on.  Flow owes nothing: media may load for ever.
Fairness == \A j \in Job : WF_vars(Step(j))

FairSpec == Spec /\ Fairness

----------------------------------------------------------------------------
(* Properties *)

\* What a finished task hands out was made of its own prompt alone, although the tab, its
\* editor and its grid still hold what failed and abandoned tasks left there and files of
\* theirs may still arrive.  It may not be when another task or a tool uses the tab at the
\* same time, when a click was lost while an abandoned media is loading (video_page.py:340,
\* 381), or when the file of an abandoned character is still coming (character_page.py:505).
RightMedia ==
  \A j \in Job \ (mixed \cup muddled) : At(j, "done") => task[j].files \subseteq {{j}}

\* Media end up in the project of their task, wherever the tab was before.
LandsInOwnProject ==
  \A j \in Job \ mixed, p \in Project : j \in Range(grid[p]) => p = task[j].project

\* Tasks of one alias work in one project, also after a restart and also when they looked
\* for the alias at the same time on the Master, unless the project of the alias did not get
\* its title, lost it, or was named by a task that was mixed up with another.
OneProjectPerAlias ==
  \A i, j \in Job :
    /\ plan[i].alias = plan[j].alias /\ plan[i].alias \notin forked
    /\ task[i].at \in {"go", "done"} /\ task[j].at \in {"go", "done"}
    => task[i].project = task[j].project

\* A task that has begun ends, although Flow may show "loading" for ever: every wait of
\* the page objects has a timeout.
EveryTaskEnds == \A j \in Job : At(j, "go") ~> At(j, "done") \/ At(j, "raised")
=============================================================================
