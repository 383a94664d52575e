----------------------------- MODULE CloudSync -----------------------------
(***************************************************************************)
(* A cloud-backed workspace (WorkspaceCloudSync, services/workspace-cloud.ts,*)
(* with WorkspaceService.openLocal, the onVersion listener of context.ts and  *)
(* the flush of shutdown()): the object, the working copy of this instance,   *)
(* workspaces.cloud_sync, and the pulls, marks and pushes between them.       *)
(*                                                                         *)
(* A file or an object is the set of the writes it holds.  A step is the code *)
(* from one await to the next with the statement or call that ends it, so     *)
(* that a state read before an await may be old when it is written back.      *)
(* Names that other modules have too begin with Cloud here, so that one proof   *)
(* module can extend this one and ResultCache.                               *)
(***************************************************************************)
EXTENDS Naturals

CONSTANTS
  Opener,    \* requests that need the engine
  Statement, \* mutating statements
  Theirs,    \* what another instance writes
  MaxSyncs,  \* bound on "Sync now"
  Worlds,    \* what may go on around the instance
  NoFile

World ==
  [openers : SUBSET Opener, statements : SUBSET Statement, \* those there are
   shared : BOOLEAN,   \* another instance writes the object
   syncs : BOOLEAN,    \* "Sync now" is used
   slow : BOOLEAN,     \* a push may take longer than cloud_sync_delay_seconds
   faults : BOOLEAN,   \* an upload may fail
   crashes : BOOLEAN,  \* the instance may crash and start again
   hasty : BOOLEAN]    \* an eviction or the shutdown may come while a request is on its way

\* "No file" is not a file.
ASSUME CloudAssumption ==
  /\ MaxSyncs \in Nat /\ Worlds \subseteq World /\ Theirs \notin Statement
  /\ \A c \in SUBSET (Statement \cup {Theirs}) : c # NoFile

VARIABLES
  world,  \* the one this is; it does not change
  row,    \* cloud_sync: the last ETag (0 for none), dirty, last_error
  local,  \* the working copy, NoFile when there is none
  object, \* the object: its ETag (0 when there is none) and content
  engine, \* EngineManager holds an engine of the workspace
  opener, \* each request in openLocal()
  note,   \* each write: run, then noted by markDirty()
  timer,  \* a push is scheduled
  push,   \* the push under way (inflight)
  syncs,  \* "Sync now" so far
  phase,  \* of this instance
  slips   \* history: what has happened that the code does nothing against (Slips)

(* Two requests pulled at once; an eviction or the shutdown came while a request  *)
(* or a statement was on its way; a push cleared the mark of a write it did not   *)
(* have; a pull replaced the file whose snapshot a push was uploading.           *)
Slips == {"crowded", "hurried", "cleared", "overlapped"}

cloudVars == <<world, row, local, object, engine, opener, note, timer, push, syncs, phase, slips>>

Content == SUBSET (Statement \cup {Theirs})
State == [etag : Nat, dirty : BOOLEAN, error : BOOLEAN]
NeverSynced == [etag |-> 0, dirty |-> FALSE, error |-> FALSE]
AtRest == [pc |-> "idle", row |-> NeverSynced, etag |-> 0]
NoPush == [pc |-> "idle", row |-> NeverSynced, content |-> {}, etag |-> 0]

CloudInit ==
  /\ world \in Worlds
  /\ row = NeverSynced /\ local = NoFile /\ object = [etag |-> 0, content |-> {}]
  /\ engine = FALSE
  /\ opener = [o \in Opener |-> AtRest]
  /\ note = [w \in Statement |-> AtRest]
  /\ timer = FALSE /\ push = NoPush /\ syncs = 0 /\ phase = "up"
  /\ slips = {}

slip(kind, happens) == slips' = IF happens THEN slips \cup {kind} ELSE slips

inSync(etag) == [etag |-> etag, dirty |-> FALSE, error |-> FALSE]

-----------------------------------------------------------------------------
(* openLocal() and pull().                                                   *)
at(o, pc) == opener[o].pc = pc /\ phase = "up"
goto(o, pc) == opener' = [opener EXCEPT ![o].pc = pc]

ReadRow(o) ==
  /\ o \in world.openers /\ at(o, "idle")
  /\ opener' = [opener EXCEPT ![o] = [pc |-> "peek", row |-> row, etag |-> 0]]
  /\ UNCHANGED <<world, row, local, object, engine, note, timer, push, syncs, phase, slips>>

(* Only a workspace without an engine is pulled.                             *)
Peek(o) ==
  /\ at(o, "peek")
  /\ goto(o, IF engine THEN "open" ELSE "head")
  /\ slip("crowded", ~engine /\ \E p \in Opener : opener[p].pc \in {"head", "pull", "download", "save", "open"})
  /\ UNCHANGED <<world, row, local, object, engine, note, timer, push, syncs, phase>>

(* pull(): the HEAD of the object.                                           *)
Head(o) ==
  /\ at(o, "head")
  /\ opener' = [opener EXCEPT ![o].pc = "pull", ![o].etag = object.etag]
  /\ UNCHANGED <<world, row, local, object, engine, note, timer, push, syncs, phase, slips>>

(* pull() that does not look at dirty.                                       *)
Pull_Clobbers(o) ==
  LET mine == opener[o].row
      there == opener[o].etag IN
  /\ at(o, "pull")
  /\ IF there = 0
     THEN /\ row' = IF local = NoFile THEN [mine EXCEPT !.dirty = FALSE] ELSE row
          /\ goto(o, "open") /\ UNCHANGED engine
     ELSE IF local # NoFile /\ there = mine.etag
     THEN goto(o, "open") /\ UNCHANGED <<row, engine>>
     ELSE /\ engine' = FALSE
          /\ goto(o, "download") /\ UNCHANGED row
  /\ UNCHANGED <<world, local, object, note, timer, push, syncs, phase, slips>>

(* pull(), on the answer: nothing there yet, in sync, a conflict with what is   *)
(* not pushed, or a download once the engine is evicted.                      *)
Pull(o) ==
  LET mine == opener[o].row
      there == opener[o].etag IN
  /\ at(o, "pull")
  /\ \/ /\ there = 0
        /\ row' = IF local = NoFile THEN [mine EXCEPT !.dirty = FALSE] ELSE row
        /\ goto(o, "open") /\ UNCHANGED engine
     \/ /\ there # 0 /\ local # NoFile /\ there = mine.etag
        /\ goto(o, "open") /\ UNCHANGED <<row, engine>>
     \/ /\ there # 0 /\ local # NoFile /\ there # mine.etag /\ mine.dirty
        /\ row' = [mine EXCEPT !.error = TRUE]
        /\ goto(o, "open") /\ UNCHANGED engine
     \/ /\ there # 0
        /\ local # NoFile => there # mine.etag /\ ~mine.dirty
        /\ engine' = FALSE
        /\ goto(o, "download") /\ UNCHANGED row
  /\ UNCHANGED <<world, local, object, note, timer, push, syncs, phase, slips>>

(* The object is downloaded, and does not take the place of the file.          *)
Download_NoRename(o) ==
  /\ at(o, "download")
  /\ local' = IF local = NoFile THEN object.content ELSE local
  /\ opener' = [opener EXCEPT ![o].pc = "save", ![o].etag = object.etag]
  /\ slip("overlapped", push.pc = "upload")
  /\ UNCHANGED <<world, row, object, engine, note, timer, push, syncs, phase>>

Download(o) ==
  /\ at(o, "download")
  /\ local' = object.content
  /\ opener' = [opener EXCEPT ![o].pc = "save", ![o].etag = object.etag]
  /\ slip("overlapped", push.pc = "upload")
  /\ UNCHANGED <<world, row, object, engine, note, timer, push, syncs, phase>>

Downloaded(o) ==
  /\ at(o, "save")
  /\ row' = inSync(opener[o].etag)
  /\ goto(o, "open")
  /\ UNCHANGED <<world, local, object, engine, note, timer, push, syncs, phase, slips>>

(* EngineManager.get(): the engine there is, or a new one on the file.        *)
Open(o) ==
  /\ at(o, "open")
  /\ engine' = TRUE
  /\ local' = IF local = NoFile THEN {} ELSE local
  /\ goto(o, "idle")
  /\ UNCHANGED <<world, row, object, note, timer, push, syncs, phase, slips>>

quiet == /\ \A w \in Statement : note[w].pc \notin {"run", "read"}
         /\ \A o \in Opener : opener[o].pc = "idle"

Evict ==
  /\ engine /\ phase = "up" /\ (world.hasty \/ quiet)
  /\ engine' = FALSE
  /\ slip("hurried", ~quiet)
  /\ UNCHANGED <<world, row, local, object, opener, note, timer, push, syncs, phase>>

-----------------------------------------------------------------------------
(* A mutating statement, and the listener of its bump, which reads the row     *)
(* and writes it back with dirty.                                            *)
Mutate(w) ==
  /\ w \in world.statements /\ engine /\ phase = "up" /\ note[w].pc = "idle"
  /\ local' = local \cup {w}
  /\ note' = [note EXCEPT ![w].pc = "run"]
  /\ UNCHANGED <<world, row, object, engine, opener, timer, push, syncs, phase, slips>>

ReadForMark(w) ==
  /\ note[w].pc = "run"
  /\ note' = [note EXCEPT ![w] = [pc |-> "read", row |-> row, etag |-> 0]]
  /\ UNCHANGED <<world, row, local, object, engine, opener, timer, push, syncs, phase, slips>>

(* The row is marked and no push scheduled.                                  *)
MarkDirty_NoTimer(w) ==
  /\ note[w].pc = "read"
  /\ row' = [note[w].row EXCEPT !.dirty = TRUE]
  /\ note' = [note EXCEPT ![w] = [AtRest EXCEPT !.pc = "marked"]]
  /\ UNCHANGED <<world, local, object, engine, opener, timer, push, syncs, phase, slips>>

MarkDirty(w) ==
  /\ note[w].pc = "read"
  /\ row' = [note[w].row EXCEPT !.dirty = TRUE]
  /\ timer' = TRUE
  /\ note' = [note EXCEPT ![w] = [AtRest EXCEPT !.pc = "marked"]]
  /\ UNCHANGED <<world, local, object, engine, opener, push, syncs, phase, slips>>

-----------------------------------------------------------------------------
(* push(): one at a time; a call meanwhile gets the promise of the one there   *)
(* is.  doPush(): the row, the snapshot, the upload, the row again.            *)
begin == IF push.pc = "idle" THEN [NoPush EXCEPT !.pc = "start"] ELSE push

TimerFires ==
  /\ timer /\ (push.pc # "idle" => world.slow)
  /\ timer' = FALSE
  /\ push' = begin
  /\ UNCHANGED <<world, row, local, object, engine, opener, note, syncs, phase, slips>>

SyncNow ==
  /\ phase = "up" /\ world.syncs /\ syncs < MaxSyncs /\ push.pc = "idle"
  /\ syncs' = syncs + 1
  /\ push' = begin
  /\ UNCHANGED <<world, row, local, object, engine, opener, note, timer, phase, slips>>

PushReads ==
  /\ push.pc = "start"
  /\ push' = [push EXCEPT !.pc = IF local = NoFile THEN "nothing" ELSE "snapshot", !.row = row]
  /\ UNCHANGED <<world, row, local, object, engine, opener, note, timer, syncs, phase, slips>>

NothingToPush ==
  /\ push.pc = "nothing"
  /\ row' = [push.row EXCEPT !.dirty = FALSE]
  /\ push' = NoPush
  /\ slip("cleared", \E w \in Statement : note[w].pc = "marked")
  /\ UNCHANGED <<world, local, object, engine, opener, note, timer, syncs, phase>>

Snapshot ==
  /\ push.pc = "snapshot"
  /\ push' = [push EXCEPT !.pc = "upload", !.content = local]
  /\ UNCHANGED <<world, row, local, object, engine, opener, note, timer, syncs, phase, slips>>

Upload ==
  /\ push.pc = "upload"
  /\ object' = [etag |-> object.etag + 1, content |-> push.content]
  /\ push' = [push EXCEPT !.pc = "uploaded", !.etag = object.etag + 1]
  /\ UNCHANGED <<world, row, local, engine, opener, note, timer, syncs, phase, slips>>

UploadFails ==
  /\ world.faults /\ push.pc = "upload"
  /\ row' = [push.row EXCEPT !.dirty = TRUE, !.error = TRUE]
  /\ push' = NoPush
  /\ UNCHANGED <<world, local, object, engine, opener, note, timer, syncs, phase, slips>>

Uploaded ==
  /\ push.pc = "uploaded"
  /\ row' = inSync(push.etag)
  /\ push' = NoPush
  /\ slip("cleared", \E w \in Statement : note[w].pc = "marked" /\ w \notin push.content)
  /\ UNCHANGED <<world, local, object, engine, opener, note, timer, syncs, phase>>

-----------------------------------------------------------------------------
(* shutdown(), once no request is served: flush() pushes what is dirty, and    *)
(* the process ends.                                                         *)
Shutdown ==
  /\ phase = "up" /\ (world.hasty \/ quiet)
  /\ timer' = FALSE
  /\ phase' = IF row.dirty THEN "flushing" ELSE "closing"
  /\ push' = IF row.dirty THEN begin ELSE push
  /\ slip("hurried", ~quiet)
  /\ UNCHANGED <<world, row, local, object, engine, opener, note, syncs>>

Exit ==
  /\ phase = "closing" \/ (phase = "flushing" /\ push.pc = "idle")
  /\ phase' = "down"
  /\ engine' = FALSE /\ timer' = FALSE /\ push' = NoPush
  /\ opener' = [o \in Opener |-> AtRest]
  /\ note' = [w \in Statement |-> IF note[w].pc \in {"run", "read"} THEN [AtRest EXCEPT !.pc = "lost"]
                                  ELSE note[w]]
  /\ UNCHANGED <<world, row, local, object, syncs, slips>>

(* The process dies; a new one has the row and the file.                     *)
Crash ==
  /\ world.crashes /\ phase = "up"
  /\ engine' = FALSE /\ timer' = FALSE /\ push' = NoPush
  /\ opener' = [o \in Opener |-> AtRest]
  /\ note' = [w \in Statement |-> IF note[w].pc \in {"run", "read"} THEN [AtRest EXCEPT !.pc = "lost"]
                                  ELSE note[w]]
  /\ UNCHANGED <<world, row, local, object, syncs, phase, slips>>

(* Another instance pulls the object, writes and pushes, at any time.          *)
TheyPush ==
  /\ world.shared /\ Theirs \notin object.content
  /\ object' = [etag |-> object.etag + 1, content |-> object.content \cup {Theirs}]
  /\ UNCHANGED <<world, row, local, engine, opener, note, timer, push, syncs, phase, slips>>

OpenStep(o) ==
  ReadRow(o) \/ Peek(o) \/ Head(o) \/ Pull(o) \/ Download(o) \/ Downloaded(o) \/ Open(o)
MarkStep(w) == ReadForMark(w) \/ MarkDirty(w)
PushStep == TimerFires \/ PushReads \/ NothingToPush \/ Snapshot \/ Upload \/ Uploaded

CloudNext ==
  \/ \E o \in Opener : OpenStep(o)
  \/ Evict
  \/ \E w \in Statement : Mutate(w) \/ MarkStep(w)
  \/ PushStep \/ UploadFails \/ SyncNow
  \/ Shutdown \/ Exit \/ Crash
  \/ TheyPush

CloudSpec == CloudInit /\ [][CloudNext]_cloudVars

(* Timers fire and awaits come back while the instance is up; nobody has to    *)
(* shut it down.                                                             *)
CloudFairSpec ==
  CloudSpec /\ WF_cloudVars(PushStep) /\ \A w \in Statement : WF_cloudVars(MarkStep(w))

-----------------------------------------------------------------------------
(* Every variable has its type, and an open engine has its file.              *)
CloudTypeOK ==
  /\ row \in State
  /\ local \in Content \cup {NoFile}
  /\ object \in [etag : Nat, content : Content]
  /\ engine \in BOOLEAN /\ timer \in BOOLEAN
  /\ opener \in [Opener -> [pc : {"idle", "peek", "head", "pull", "download", "save", "open"},
                          row : State, etag : Nat]]
  /\ note \in [Statement -> [pc : {"idle", "run", "read", "marked", "lost"}, row : State, etag : {0}]]
  /\ push \in [pc : {"idle", "start", "nothing", "snapshot", "upload", "uploaded"}, row : State,
               content : Content, etag : Nat]
  /\ syncs \in 0 .. MaxSyncs
  /\ phase \in {"up", "flushing", "closing", "down"} /\ slips \subseteq Slips
  /\ engine => local # NoFile

(* While nobody else writes the object, what was marked dirty stays in the     *)
(* working copy, over evictions, pulls, failing pushes and crashes, until two    *)
(* requests pull at once or an eviction meets one on its way.                  *)
MarkedIsKept ==
  [][\A w \in Statement : /\ ~world.shared /\ slips \cap {"crowded", "hurried"} = {}
                          /\ note[w].pc = "marked" /\ local # NoFile /\ w \in local
       => w \in local']_cloudVars

Replaced(o) == at(o, "download") /\ local' # local /\ local # NoFile
MarkedIsThere == \A w \in Statement : note[w].pc = "marked" /\ w \in local => w \in object.content

(* "A remote change that arrives while local changes are unsynced is [...]       *)
(* never overwritten silently by a pull" (header of workspace-cloud.ts): a pull   *)
(* does not replace marked writes that are nowhere else, whatever the other      *)
(* instance pushes and whatever fails, until a push has cleared such a mark or   *)
(* a request, an eviction or the shutdown has met another request.             *)
NoClobber ==
  [][\A o \in Opener : slips \subseteq {"overlapped"} /\ Replaced(o) => MarkedIsThere]_cloudVars

(* The same as the header has it.                                            *)
NeverClobbered == [][\A o \in Opener : Replaced(o) => MarkedIsThere]_cloudVars

(* A working copy that counts as in sync, and so is opened as it is, holds all   *)
(* the object does, until a pull replaces a file that a push is uploading.      *)
InSyncHoldsAll ==
  ("overlapped" \notin slips /\ object.etag # 0 /\ row.etag = object.etag /\ local # NoFile)
    => object.content \subseteq local

(* "Any open engine must let go of the file before it is replaced."            *)
ReplacedWhenClosed ==
  [][\A o \in Opener : at(o, "download") /\ opener'[o].pc = "save" => ~engine]_cloudVars

(* Nothing fails, evictions come between requests, and a push is shorter than    *)
(* the quiet period.                                                         *)
calm == ~world.slow /\ ~world.faults /\ ~world.crashes /\ ~world.hasty

(* A write is pushed, while the instance is up; where another instance writes    *)
(* too, unless a push has cleared a mark.                                     *)
Pushed ==
  \A w \in Statement : calm /\ note[w].pc = "run" ~>
    w \in object.content \/ phase # "up" \/ (world.shared /\ "cleared" \in slips)

(* "push ... at shutdown": what was marked before the instance stopped is in   *)
(* the object when it is down.                                               *)
ShutdownPushes ==
  phase = "down" => \A w \in Statement : note[w].pc = "marked" => w \in object.content
=============================================================================
