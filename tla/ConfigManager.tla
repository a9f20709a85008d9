---------------------------- MODULE ConfigManager -----------------------------
(***************************************************************************)
(* The configuration: config.Manager of src/config (config.go, write.go),  *)
(* the admin handlers that save it (src/admin/api.go), and as much of the  *)
(* file system and of inotify, through fsnotify, as they rely on.          *)
(*                                                                         *)
(* Who acts: the dashboard's handlers, one of which at a time is inside    *)
(* Manager.mu (variable edit); the raw editor's handler, which writes the  *)
(* file in place and takes no lock (raw); the goroutine of Watch (watcher) *)
(* ; a text editor outside the process; crashes.                           *)
(*                                                                         *)
(* A file is an inode: in-place writers keep the inode they opened, a      *)
(* rename puts another inode at the path, and inotify watches an inode,    *)
(* whatever path it was asked for.                                         *)
(***************************************************************************)
EXTENDS Naturals, Sequences, FiniteSets

CONSTANTS
  Aliases, ProviderIDs, Values,
  Edits,            \* the dashboard's requests: [kind, name, value]
  Bodies,           \* the documents written by hand; Unreadable may be one
  Unreadable,       \* no TOML
  FirstDoc,         \* config.toml at the start
  Writers,          \* who saves: subset of {"dashboard", "raw", "replace", "move"}
  MaxWrites,        \* bound on the contents the file ever has
  MaxCrashes

Docs == [models: Seq([alias: Aliases, value: Values]),
         providers: UNION {[S -> Values] : S \in SUBSET ProviderIDs}]

\* applyDefaults over an empty file.
EmptyDoc == [models |-> <<>>, providers |-> [p \in {} |-> p]]

EditKinds == {"UpsertModel", "DeleteModel", "UpsertProvider", "DeleteProvider"}

ASSUME ConfigAssumption ==
  /\ Aliases \cap ProviderIDs = {}
  /\ \A e \in Edits :
       /\ e = [kind |-> e.kind, name |-> e.name, value |-> e.value]
       /\ e.kind \in EditKinds
       /\ e.name \in (IF e.kind \in {"UpsertModel", "DeleteModel"} THEN Aliases ELSE ProviderIDs)
       /\ e.value \in Values
  /\ FirstDoc \in Docs
  /\ Unreadable \notin Docs
  /\ \A S \in SUBSET (Aliases \cup ProviderIDs) : Unreadable \notin [S -> Values]
  /\ Bodies \subseteq Docs \cup {Unreadable}
  /\ Writers \subseteq {"dashboard", "raw", "replace", "move"}

VARIABLES
  inodes,           \* Seq of contents; an inode's number is its index
  writes,           \* how many contents the file has had
  path,             \* the inode at the path, 0 for none
  watch,            \* the inode that is watched, 0 for none
  events,           \* inotify's queue: "write", "rename"
  current,          \* Manager.current: the content it was parsed from, and
                    \* by whom it was put there
  edit,             \* the handler inside Manager.mu; alone is a ghost: nobody
                    \* wrote the file by hand since it was parsed
  raw,              \* handleSetRawConfig
  watcher,          \* the goroutine of Watch
  up,               \* the process runs
  crashes

fileVars == <<inodes, writes, path, watch, events>>
vars     == <<fileVars, current, edit, raw, watcher, up, crashes>>

\* A content of the file: a document, whether it is all of what was to be
\* written, who wrote it, whether inotify told, and its place in the order of
\* the file's contents.
Content(doc, whole, by, told) ==
  [doc |-> doc, whole |-> whole, by |-> by, told |-> told, gen |-> writes + 1]

Here == inodes[path]

\* parseFile succeeds.
Readable == path # 0 /\ Here.doc # Unreadable

NoEdit == [at |-> "none"]
NoRaw  == [at |-> "none"]

-------------------------------------------------------------------------------
(* What the four mutations of write.go make of a document.                     *)

UpsertModel(doc, alias, value) ==
  LET found == {i \in DOMAIN doc.models : doc.models[i].alias = alias}
      entry == [alias |-> alias, value |-> value]
  IN  IF found = {} THEN [doc EXCEPT !.models = Append(@, entry)]
      ELSE [doc EXCEPT !.models[CHOOSE i \in found : \A j \in found : i <= j] = entry]

\* Every entry of that alias goes.
Without(models, alias) ==
  LET kept[i \in 0..Len(models)] ==
        IF i = 0 THEN <<>>
        ELSE IF models[i].alias = alias THEN kept[i - 1] ELSE Append(kept[i - 1], models[i])
  IN  kept[Len(models)]

DeleteModel(doc, alias) == [doc EXCEPT !.models = Without(@, alias)]

UpsertProvider(doc, id, value) ==
  [doc EXCEPT !.providers = [p \in DOMAIN @ \cup {id} |-> IF p = id THEN value ELSE @[p]]]

DeleteProvider(doc, id) ==
  [doc EXCEPT !.providers = [p \in DOMAIN @ \ {id} |-> @[p]]]

Apply(doc, e) ==
  CASE e.kind = "UpsertModel"    -> UpsertModel(doc, e.name, e.value)
    [] e.kind = "DeleteModel"    -> DeleteModel(doc, e.name)
    [] e.kind = "UpsertProvider" -> UpsertProvider(doc, e.name, e.value)
    [] e.kind = "DeleteProvider" -> DeleteProvider(doc, e.name)

-------------------------------------------------------------------------------
(* Files.                                                                      *)

\* The inode n has no name any more: its watch goes with it (IN_DELETE_SELF,
\* on which fsnotify drops the watch and Watch does nothing), at once or when
\* the raw editor closes it.
WatchWithout(n) ==
  watch' = IF watch = n /\ (raw = NoRaw \/ raw.inode # n) THEN 0 ELSE watch

\* A new inode at the path: a rename over it, or a new file.
PutNew(content) ==
  /\ writes < MaxWrites
  /\ writes' = writes + 1
  /\ inodes' = Append(inodes, content)
  /\ path' = Len(inodes) + 1
  /\ WatchWithout(path)
  /\ UNCHANGED events

\* Another identical event at the end of inotify's queue is merged with it.
Notify(n, event) ==
  events' = IF watch = n /\ (events = <<>> \/ events[Len(events)] # event)
            THEN Append(events, event) ELSE events

WriteInPlace(n, content) ==
  /\ writes' = writes + 1
  /\ inodes' = [inodes EXCEPT ![n] = content]
  /\ Notify(n, "write")
  /\ UNCHANGED path

\* Somebody writes the file by hand, while a handler may be editing it.
ByHand == edit' = IF edit.at = "write" THEN [edit EXCEPT !.alone = FALSE] ELSE edit

Init ==
  /\ writes = 1
  /\ inodes = <<[doc |-> FirstDoc, whole |-> TRUE, by |-> "hand", told |-> FALSE, gen |-> 1]>>
  /\ path = 1
  /\ watch = 0
  /\ events = <<>>
  /\ current = inodes[1]
  /\ edit = NoEdit
  /\ raw = NoRaw
  /\ watcher = [at |-> "start"]
  /\ up = TRUE
  /\ crashes = 0

-------------------------------------------------------------------------------
(* UpsertModel, DeleteModel, UpsertProvider and DeleteProvider, under mu.      *)

\* Mutant of ParseForEdit: the edit starts from the configuration in memory.
ParseForEditFromMemory(e) ==
  /\ up
  /\ "dashboard" \in Writers
  /\ edit = NoEdit
  /\ Readable
  /\ edit' = [at |-> "write", request |-> e, base |-> current, alone |-> raw = NoRaw]
  /\ UNCHANGED <<fileVars, current, raw, watcher, up, crashes>>

\* mu.Lock and writableConfig.  A file that cannot be parsed ends the request.
ParseForEdit(e) ==
  /\ up
  /\ "dashboard" \in Writers
  /\ edit = NoEdit
  /\ Readable
  /\ edit' = [at |-> "write", request |-> e, base |-> Here, alone |-> raw = NoRaw]
  /\ UNCHANGED <<fileVars, current, raw, watcher, up, crashes>>

\* The temporary file could not be made, written, closed or renamed.
WriteFails ==
  /\ edit.at = "write"
  /\ edit' = NoEdit
  /\ UNCHANGED <<fileVars, current, raw, watcher, up, crashes>>

\* writeConfig: the temporary file, complete and closed, is renamed to the path.
Rename ==
  /\ edit.at = "write"
  /\ LET content == Content(Apply(edit.base.doc, edit.request), TRUE, "dashboard", FALSE)
     IN  /\ PutNew(content)
         /\ edit' = [at |-> "publish", content |-> content]
  /\ UNCHANGED <<current, raw, watcher, up, crashes>>

\* Mutant of Publish: the watcher is left to pick the new file up.
PublishByWatcher ==
  /\ edit.at = "publish"
  /\ edit' = NoEdit
  /\ UNCHANGED <<fileVars, current, raw, watcher, up, crashes>>

\* m.current = cfg, and mu.Unlock.
Publish ==
  /\ edit.at = "publish"
  /\ current' = edit.content
  /\ edit' = NoEdit
  /\ UNCHANGED <<fileVars, raw, watcher, up, crashes>>

-------------------------------------------------------------------------------
(* handleSetRawConfig: os.WriteFile opens and truncates the file, then writes. *)

OpenTruncate(body) ==
  /\ up
  /\ "raw" \in Writers
  /\ raw = NoRaw
  /\ writes + 1 < MaxWrites
  /\ IF path = 0
     THEN /\ PutNew(Content(EmptyDoc, FALSE, "hand", FALSE))
          /\ raw' = [at |-> "write", inode |-> Len(inodes) + 1, body |-> body]
     ELSE /\ WriteInPlace(path, Content(EmptyDoc, FALSE, "hand", watch = path))
          /\ raw' = [at |-> "write", inode |-> path, body |-> body]
          /\ UNCHANGED watch
  /\ ByHand
  /\ UNCHANGED <<current, watcher, up, crashes>>

\* What closing the file means for an inode that is not at the path any more.
CloseRaw ==
  /\ raw' = NoRaw
  /\ watch' = IF watch = raw.inode /\ raw.inode # path THEN 0 ELSE watch

WriteBody ==
  /\ raw.at = "write"
  /\ WriteInPlace(raw.inode, Content(raw.body, TRUE, "hand", watch = raw.inode))
  /\ CloseRaw
  /\ ByHand
  /\ UNCHANGED <<current, watcher, up, crashes>>

\* A full disk: what was truncated stays so.
WriteBodyFails ==
  /\ raw.at = "write"
  /\ CloseRaw
  /\ UNCHANGED <<inodes, writes, path, events, current, edit, watcher, up, crashes>>

-------------------------------------------------------------------------------
(* A text editor that saves by renaming; one that writes in place does what    *)
(* handleSetRawConfig does.                                                    *)

\* The new text, in another file, is renamed over the old.
EditorReplaces(body) ==
  /\ "replace" \in Writers
  /\ path # 0
  /\ PutNew(Content(body, TRUE, "hand", FALSE))
  /\ ByHand
  /\ UNCHANGED <<current, raw, watcher, up, crashes>>

\* The old file becomes the backup copy (IN_MOVE_SELF: fsnotify reports Rename
\* and drops the watch) ...
EditorMovesAway ==
  /\ "move" \in Writers
  /\ path # 0
  /\ writes < MaxWrites
  /\ path' = 0
  /\ watch' = IF watch = path THEN 0 ELSE watch
  /\ Notify(path, "rename")
  /\ ByHand
  /\ UNCHANGED <<inodes, writes, current, raw, watcher, up, crashes>>

\* ... and the new text is written under its name.
EditorCreates(body) ==
  /\ "move" \in Writers
  /\ path = 0
  /\ PutNew(Content(body, TRUE, "hand", FALSE))
  /\ ByHand
  /\ UNCHANGED <<current, raw, watcher, up, crashes>>

-------------------------------------------------------------------------------
(* Watch and reload.                                                           *)

\* watcher.Add; without a file Watch returns, and nobody calls it again.
AddWatch ==
  /\ up
  /\ watcher.at = "start"
  /\ watch' = path
  /\ watcher' = [at |-> IF path # 0 THEN "select" ELSE "stopped"]
  /\ UNCHANGED <<inodes, writes, path, events, current, edit, raw, up, crashes>>

AfterReload(event) == [at |-> IF event = "rename" THEN "readd" ELSE "select"]

\* Mutant of ParseForReload: the error of parseFile is logged, and reload goes on.
ParseForReloadAnyway ==
  /\ watcher.at = "select"
  /\ events # <<>>
  /\ events' = Tail(events)
  /\ watcher' = IF path # 0 THEN [at |-> "swap", content |-> Here, event |-> Head(events)]
                ELSE AfterReload(Head(events))
  /\ UNCHANGED <<inodes, writes, path, watch, current, edit, raw, up, crashes>>

\* An event is received and the file is parsed, with no lock held.
ParseForReload ==
  /\ watcher.at = "select"
  /\ events # <<>>
  /\ events' = Tail(events)
  /\ watcher' = IF Readable THEN [at |-> "swap", content |-> Here, event |-> Head(events)]
                ELSE AfterReload(Head(events))
  /\ UNCHANGED <<inodes, writes, path, watch, current, edit, raw, up, crashes>>

\* Mutant of Swap: what was queued meanwhile is taken for done.
SwapDrains ==
  /\ watcher.at = "swap"
  /\ edit = NoEdit
  /\ current' = [watcher.content EXCEPT !.by = "reload"]
  /\ watcher' = AfterReload(watcher.event)
  /\ events' = <<>>
  /\ UNCHANGED <<inodes, writes, path, watch, edit, raw, up, crashes>>

\* mu.Lock, m.current = cfg, mu.Unlock.
Swap ==
  /\ watcher.at = "swap"
  /\ edit = NoEdit
  /\ current' = [watcher.content EXCEPT !.by = "reload"]
  /\ watcher' = AfterReload(watcher.event)
  /\ UNCHANGED <<fileVars, edit, raw, up, crashes>>

\* watcher.Add after a rename; its error is dropped.
Readd ==
  /\ watcher.at = "readd"
  /\ watch' = IF path # 0 THEN path ELSE watch
  /\ watcher' = [at |-> "select"]
  /\ UNCHANGED <<inodes, writes, path, events, current, edit, raw, up, crashes>>

-------------------------------------------------------------------------------
(* The process.                                                                *)

Crash ==
  /\ up
  /\ crashes < MaxCrashes
  /\ crashes' = crashes + 1
  /\ up' = FALSE
  /\ watch' = 0
  /\ events' = <<>>
  /\ edit' = NoEdit
  /\ raw' = NoRaw
  /\ watcher' = [at |-> "stopped"]
  /\ UNCHANGED <<inodes, writes, path, current>>

GenerateIfMissing ==
  /\ ~up
  /\ path = 0
  /\ PutNew(Content(EmptyDoc, TRUE, "hand", FALSE))
  /\ UNCHANGED <<current, edit, raw, watcher, up, crashes>>

\* config.Load; main exits when the file cannot be parsed.
Load ==
  /\ ~up
  /\ Readable
  /\ current' = Here
  /\ watcher' = [at |-> "start"]
  /\ up' = TRUE
  /\ UNCHANGED <<fileVars, edit, raw, crashes>>

-------------------------------------------------------------------------------
EditStep    == WriteFails \/ Rename \/ Publish
RawStep     == WriteBody \/ WriteBodyFails
WatcherStep == AddWatch \/ ParseForReload \/ Swap \/ Readd

Next ==
  \/ \E e \in Edits : ParseForEdit(e)
  \/ EditStep
  \/ \E body \in Bodies : OpenTruncate(body) \/ EditorReplaces(body) \/ EditorCreates(body)
  \/ RawStep
  \/ EditorMovesAway
  \/ WatcherStep
  \/ Crash \/ GenerateIfMissing \/ Load

Spec == Init /\ [][Next]_vars

\* The goroutines of the process go on; nothing makes anybody edit.  A waiter
\* gets a sync.RWMutex after those before it, however many come after: Swap is
\* strongly fair.
Fairness ==
  /\ WF_vars(EditStep) /\ WF_vars(RawStep) /\ WF_vars(WatcherStep)
  /\ SF_vars(Swap)

FairSpec == Spec /\ Fairness

-------------------------------------------------------------------------------
Contents == [doc: Docs \cup {Unreadable}, whole: BOOLEAN, by: {"dashboard", "hand", "reload"},
             told: BOOLEAN, gen: Nat \ {0}]

\* Every variable has its type.
TypeOK ==
  /\ inodes \in Seq(Contents)
  /\ writes \in Nat
  /\ path \in 0..Len(inodes)
  /\ watch \in 0..Len(inodes)
  /\ events \in Seq({"write", "rename"})
  /\ current \in Contents /\ current.doc # Unreadable
  /\ edit \in {NoEdit} \cup [at: {"write"}, request: Edits, base: Contents, alone: BOOLEAN]
                       \cup [at: {"publish"}, content: Contents]
  /\ raw \in {NoRaw} \cup [at: {"write"}, inode: 1..Len(inodes), body: Bodies]
  /\ watcher \in [at: {"start", "select", "readd", "stopped"}]
                 \cup [at: {"swap"}, content: Contents, event: {"write", "rename"}]
  /\ up \in BOOLEAN
  /\ crashes \in Nat

-------------------------------------------------------------------------------
\* The value the router finds for an entry: of a model that is listed twice, the
\* first (fallbackChain, router.go:322-327).
Meaning(doc) ==
  LET of(alias) == {i \in DOMAIN doc.models : doc.models[i].alias = alias}
      first(alias) == CHOOSE i \in of(alias) : \A j \in of(alias) : i <= j
      listed == {doc.models[i].alias : i \in DOMAIN doc.models}
  IN  [e \in listed \cup DOMAIN doc.providers |->
         IF e \in listed THEN doc.models[first(e)].value ELSE doc.providers[e]]

MeaningOf(doc) == IF doc = Unreadable THEN Unreadable ELSE Meaning(doc)

\* What is on disk; nothing, while an editor has the file moved away.
Saved == IF path = 0 THEN Unreadable ELSE MeaningOf(Here.doc)

Store == INSTANCE ConfigStore WITH
  Entries <- Aliases \cup ProviderIDs,
  HandWritten <- {MeaningOf(body) : body \in Bodies \cup {Unreadable}},
  Start <- Meaning(FirstDoc),
  saved <- Saved

\* A dashboard edit takes the place of what was written by hand meanwhile.
Overwrites == edit.at = "write" /\ ~edit.alone /\ edit'.at = "publish"

(***************************************************************************)
(* On disk, dashboard edits are atomic and none is lost: each is applied   *)
(* to what was saved last, however late the watcher is, whatever is in     *)
(* memory, whichever write fails and wherever the process dies; except one *)
(* during which the file was written by hand, which takes no lock.         *)
(* write.go:102-104, 126-127.                                              *)
(***************************************************************************)
StoreImplemented == Store!Init /\ [][Overwrites \/ Store!Next]_Saved

(***************************************************************************)
(* A dashboard edit is live when its handler is done, although the rename  *)
(* that saved it took the watch away, unless a reload put something else   *)
(* in its place since.  write.go:32-36, 96-99.                             *)
(***************************************************************************)
DashboardEditIsLive ==
  up /\ edit = NoEdit /\ path # 0 /\ Here.by = "dashboard" =>
    current.gen = Here.gen \/ current.by = "reload"

(***************************************************************************)
(* The last thing that was written in place, and that inotify told the     *)
(* watcher of, goes live, or is unreadable.  config.go:82-90, 100-118.     *)
(***************************************************************************)
NoticedSaveGoesLive ==
  <>[](up /\ Readable /\ Here.told => current.gen = Here.gen)

(***************************************************************************)
(* "fsnotify will pick up the change and hot-reload" (api.go:738); "edit   *)
(* config.toml while the server is running; no restarts needed"            *)
(* (README.md:38): whatever is saved after Watch began goes live.          *)
(***************************************************************************)
SaveGoesLive ==
  [](writes > 1 => watcher.at # "start") => <>[](up /\ Readable => current.gen = Here.gen)

(***************************************************************************)
(* "starts each dashboard mutation from the latest complete on-disk        *)
(* config" (write.go:102-103).                                             *)
(***************************************************************************)
EditsStartFromWholeDocument == edit.at = "write" => edit.base.whole
===============================================================================
