------------------------------ MODULE Settings ------------------------------
(***************************************************************************)
(* The configuration file and the programs around it: the settings window  *)
(* (crates/petweave-settings/src/store.rs and app.rs), `petweave config    *)
(* migrate` (main.rs), editors, and the host that reloads the file, told   *)
(* by the window or by its watcher (platform/config_watcher.rs).           *)
(*                                                                         *)
(* A file is a sequence of [[pets]] tables, or one legacy [pet] table.  Of *)
(* a table's keys these stand for all: id, mode with its old alias         *)
(* move_mode, cat_height of [pets.bongo] for the keys that are removed at  *)
(* their default, and the comment written in it.  Ids are numbers: n for   *)
(* "{kind}-{n}".  A key that is absent is "" (an id 0).                    *)
(***************************************************************************)
EXTENDS Naturals, Sequences, FiniteSets, SequencesExt

CONSTANTS
  Words,       \* values of keys, and comments
  Files,       \* texts that the file starts with and that editors write
  MaxPets,     \* MAX_PETS
  MaxEdits,    \* bound on the edits made in the window
  MaxOutside,  \* bound on the edits made by other programs, and on starts of the host
  Faults       \* what else may happen: "window" (another program writes while
               \* a save is between its check and its rename), "early" (the
               \* file changes between the host's start and its watch),
               \* "cut-migrated" (the power fails after a migration)

\* A table of a file.
Tables == [id : Nat, mode : Words, alias : Words, bongo : Words, note : Words]

ASSUME SettingsAssumption ==
  /\ MaxPets \in Nat \ {0} /\ MaxEdits \in Nat /\ MaxOutside \in Nat
  /\ {"", "fixed", "default", "tall"} \subseteq Words
  /\ \A text \in Files : /\ text \in [legacy : BOOLEAN, tables : Seq(Tables)]
                         /\ text.legacy => Len(text.tables) = 1

VARIABLES
  disk,  \* the file: there, whole, synced, text; an editor's rewrite of it
  app,   \* the settings window: store, draft, save in progress, dialog
  host,  \* the host: the pets it loaded, its watcher and reload requests
  cli,   \* `petweave config migrate --write`
  done   \* edits so far: by the window, from outside

vars == <<disk, app, host, cli, done>>

LegacyId == 99  \* "default"

NoTable == [id |-> 0, mode |-> "", alias |-> "", bongo |-> "", note |-> ""]
EmptyText == [legacy |-> FALSE, tables |-> <<>>]

-----------------------------------------------------------------------------
\* Reading a file.

\* PetInstance with its defaults.
PetOf(t) == [id |-> t.id, mode |-> t.mode, alias |-> t.alias,
             bongo |-> IF t.bongo = "" THEN "default" ELSE t.bongo]

\* from_raw: the legacy table's id is always "default"; without any pet there
\* is the built-in one.
Parse(text) ==
  IF text.legacy THEN <<[PetOf(text.tables[1]) EXCEPT !.id = LegacyId]>>
  ELSE IF text.tables = <<>> THEN <<PetOf(NoTable)>>
  ELSE [i \in DOMAIN text.tables |-> PetOf(text.tables[i])]

\* resolved_id, as normalize() makes it explicit, and the alias it drops.
Normalize(pets) ==
  [i \in DOMAIN pets |->
     [pets[i] EXCEPT !.id = IF @ = 0 THEN i ELSE @,
                     !.alias = IF pets[i].mode # "" THEN "" ELSE @]]

\* validate_pet: the alias may only repeat the mode.
ValidPet(pet) == "" \in {pet.mode, pet.alias} \/ pet.mode = pet.alias

Valid(pets) ==
  /\ Len(pets) \in 1 .. MaxPets
  /\ IsInjective([i \in DOMAIN pets |-> Normalize(pets)[i].id])
  /\ \A i \in DOMAIN pets : ValidPet(pets[i])

\* Config::migrate_text
Migrated(text) ==
  IF ~text.legacy THEN text
  ELSE [legacy |-> FALSE,
        tables |-> <<[text.tables[1] EXCEPT !.id = IF @ = 0 THEN LegacyId ELSE @]>>]

\* Store::load, with what SettingsApp takes from it.
Loaded(a, text) ==
  LET base == Normalize(Parse(Migrated(text)))
  IN  [a EXCEPT !.doc = Migrated(text).tables, !.baseline = base, !.draft = base,
                !.seen = text, !.internal = FALSE]

-----------------------------------------------------------------------------
\* Writing a draft into the document.

\* Keys without a default (sync_opt_*): a value not changed is left as written,
\* none ("") removes the key.
SyncOpt(written, before, after) == IF after = before THEN written ELSE after

\* Mutant: a default is not written, and the old value not removed.
SyncKept(written, known, before, after, default) ==
  IF after = default THEN written ELSE after

\* Keys with a default (sync_bongo_*): the default itself removes the key.
SyncDefaulted(written, known, before, after, default) ==
  IF known /\ before = after THEN written ELSE IF after = default THEN "" ELSE after

SyncBongo(t, known, before, after) ==
  [t EXCEPT !.bongo = SyncDefaulted(@, known, before.bongo, after.bongo, "default")]

\* update_pet_table; the alias goes only when a mode is written.
UpdateTable(t, known, before, after) ==
  LET old == IF known THEN before.mode ELSE ""
  IN  [SyncBongo(t, known, before, after) EXCEPT
         !.id = after.id,
         !.mode = SyncOpt(@, old, after.mode),
         !.alias = IF after.mode \notin {old, ""} THEN "" ELSE @]

\* Mutant: tables are matched by position.
SyncByPosition(doc, baseline, draft) ==
  [n \in DOMAIN draft |->
     UpdateTable(IF n \in DOMAIN doc THEN doc[n] ELSE NoTable, n \in DOMAIN baseline,
                 IF n \in DOMAIN baseline THEN baseline[n] ELSE draft[n], draft[n])]

\* sync_document: every pet keeps the table it had, wherever it moved; of two
\* with one id the last is known by it.
SyncDocument(doc, baseline, draft) ==
  LET At(id)    == {i \in DOMAIN baseline : baseline[i].id = id}
      Newest(S) == CHOOSE i \in S : \A j \in S : j <= i
      updated(pet) ==
        IF At(pet.id) = {} THEN UpdateTable(NoTable, FALSE, pet, pet)
        ELSE LET i == Newest(At(pet.id))
             IN  UpdateTable(IF i \in DOMAIN doc THEN doc[i] ELSE NoTable, TRUE,
                             baseline[i], pet)
  IN  [n \in DOMAIN draft |-> updated(draft[n])]

-----------------------------------------------------------------------------
Saved(text) == [there |-> TRUE, whole |-> TRUE, synced |-> TRUE, text |-> text]

Closed == [open |-> FALSE, doc |-> <<>>, baseline |-> <<>>, draft |-> <<>>, seen |-> EmptyText,
           internal |-> FALSE, stage |-> "idle", text |-> EmptyText, bak |-> EmptyText,
           confirm |-> FALSE, closing |-> FALSE, owed |-> FALSE]

NoHost == [up |-> FALSE, path |-> FALSE, loaded |-> <<>>, watching |-> FALSE,
           stirred |-> FALSE, asked |-> FALSE]

Init ==
  /\ \E text \in Files \cup {EmptyText} :
       /\ disk = [file |-> [Saved(text) EXCEPT !.there = text # EmptyText], busy |-> FALSE]
       /\ app = [Loaded(Closed, text) EXCEPT !.open = TRUE]
  /\ host = NoHost
  /\ cli = [stage |-> "off", text |-> EmptyText]
  /\ done = [edits |-> 0, outside |-> 0]

Text == disk.file.text
Dirty(a) == Normalize(a.draft) # a.baseline

\* Mutant: a second event ends the debounce of the first.
StirredTwice == [host EXCEPT !.stirred = ~@ /\ host.watching]

\* The watcher, once it runs, sees every change that ends in a close or rename.
Stirred == [host EXCEPT !.stirred = @ \/ host.watching]

\* Bounds on when the file may change.
Watched   == host.up /\ host.path => host.watching \/ "early" \in Faults
MayChange == Watched /\ (app.stage # "idle" => "window" \in Faults)

-----------------------------------------------------------------------------
\* The settings window.

\* unique_id
UniqueId == CHOOSE n \in 1 .. MaxPets + 1 :
  /\ \A i \in DOMAIN app.draft : app.draft[i].id # n
  /\ \A m \in 1 .. n - 1 : \E i \in DOMAIN app.draft : app.draft[i].id = m

\* add_pet, copy_selected, delete_selected, move_selected and the form.
Edit ==
  LET d == app.draft
      becomes(pets) == pets # d /\ app' = [app EXCEPT !.draft = pets]
      room == Len(d) < MaxPets
  IN
  /\ app.open /\ app.stage = "idle" /\ done.edits < MaxEdits
  /\ done' = [done EXCEPT !.edits = @ + 1]
  /\ \/ room /\ becomes(Append(d, [PetOf(NoTable) EXCEPT !.id = UniqueId]))
     \/ \E i \in DOMAIN d :
          \/ room /\ becomes(InsertAt(d, i + 1, [d[i] EXCEPT !.id = UniqueId]))
          \/ becomes(RemoveAt(d, i))
          \/ i < Len(d) /\ becomes([d EXCEPT ![i] = d[i + 1], ![i + 1] = d[i]])
          \/ \E mode \in {"", "fixed"} : becomes([d EXCEPT ![i].mode = mode])
          \/ \E tall \in {"default", "tall"} : becomes([d EXCEPT ![i].bongo = tall])
  /\ UNCHANGED <<disk, host, cli>>

\* A refusal or a failed write leaves an error to read and all else as it was.
Refused(a) == [a EXCEPT !.stage = "idle", !.text = EmptyText, !.bak = EmptyText,
                           !.closing = FALSE]

\* Store::save up to the point where it touches the disk.  The last refusal
\* is the one that the code calls an internal error.
Checked ==
  LET draft == Normalize(app.draft)
      text  == [legacy |-> FALSE, tables |-> SyncDocument(app.doc, app.baseline, draft)]
  IN  IF Text # app.seen \/ ~Valid(draft) THEN Refused(app)
      ELSE IF Normalize(Parse(text)) # draft THEN [Refused(app) EXCEPT !.internal = TRUE]
      ELSE [app EXCEPT !.stage = "backup", !.text = text]

\* Mutant: no comparison with what was loaded.
SaveBlindly ==
  /\ app.open /\ app.stage = "idle" /\ Dirty(app) /\ Valid(app.draft)
  /\ app' = [app EXCEPT !.stage = "backup",
       !.text = [legacy |-> FALSE,
                 tables |-> SyncDocument(app.doc, app.baseline, Normalize(app.draft))]]
  /\ UNCHANGED <<disk, host, cli, done>>

\* The top bar's button.
Save ==
  /\ app.open /\ app.stage = "idle" /\ Dirty(app) /\ Valid(app.draft)
  /\ app' = Checked
  /\ UNCHANGED <<disk, host, cli, done>>

\* write_atomic: the copy, then the synced temporary file; either may fail.
\* The .bak matters while this save lasts.
Backup ==
  /\ app.stage = "backup"
  /\ app' \in {[app EXCEPT !.stage = "rename", !.bak = Text], Refused(app)}
  /\ UNCHANGED <<disk, host, cli, done>>

\* SettingsApp::save after a success, and save-and-close.  The host is told if
\* the client is connected (ControlChannel).
Commit(told) ==
  IF app.closing THEN Closed
  ELSE [app EXCEPT !.stage = "idle", !.text = EmptyText, !.bak = EmptyText, !.internal = FALSE,
                   !.doc = app.text.tables, !.seen = app.text, !.owed = ~told,
                   !.baseline = Normalize(app.draft), !.draft = Normalize(app.draft)]

Told(h, told) == [h EXCEPT !.asked = @ \/ told]

\* Mutant: the temporary file is not synced.
RenameUnsynced ==
  /\ Watched /\ app.stage = "rename"
  /\ disk' = [disk EXCEPT !.file = [Saved(app.text) EXCEPT !.synced = FALSE]]
  /\ app' = Commit(host.up) /\ host' = Told(Stirred, host.up)
  /\ UNCHANGED <<cli, done>>

\* The rename, then client.reload() without waiting for the watcher.
Rename ==
  /\ Watched /\ app.stage = "rename"
  /\ \/ /\ disk' = [disk EXCEPT !.file = Saved(app.text)]
        /\ \E told \in {FALSE, host.up} : app' = Commit(told) /\ host' = Told(Stirred, told)
     \/ app' = Refused(app) /\ UNCHANGED <<disk, host>>
  /\ UNCHANGED <<cli, done>>

\* reload_from_disk: the draft is dropped.
ReloadFromDisk ==
  /\ app.open /\ app.stage = "idle"
  /\ app' = Loaded(app, Text)
  /\ \E told \in {FALSE, host.up} : host' = Told(host, told)
  /\ UNCHANGED <<disk, cli, done>>

\* update_frame: a reload that could not be sent.
SendOwed ==
  /\ app.open /\ app.stage = "idle" /\ app.owed /\ host.up
  /\ app' = [app EXCEPT !.owed = FALSE]
  /\ host' = Told(host, TRUE)
  /\ UNCHANGED <<disk, cli, done>>

\* Mutant: a close request is only held back by a draft that could be saved.
CloseUnlessSavable ==
  /\ app.open /\ app.stage = "idle"
  /\ app' = IF Dirty(app) /\ Valid(app.draft) THEN [app EXCEPT !.confirm = TRUE] ELSE Closed
  /\ UNCHANGED <<disk, host, cli, done>>

\* update_frame: the window manager asks to close.
CloseRequested ==
  /\ app.open /\ app.stage = "idle"
  /\ app' = IF Dirty(app) THEN [app EXCEPT !.confirm = TRUE] ELSE Closed
  /\ UNCHANGED <<disk, host, cli, done>>

\* The dialog: save and close, discard, cancel.
Confirm ==
  /\ app.open /\ app.stage = "idle" /\ app.confirm
  /\ \/ app' = IF Checked.stage = "backup" THEN [Checked EXCEPT !.closing = TRUE] ELSE Checked
     \/ app' = Closed
     \/ app' = [app EXCEPT !.confirm = FALSE]
  /\ UNCHANGED <<disk, host, cli, done>>

-----------------------------------------------------------------------------
\* Other writers.

\* An editor replaces the file, or truncates and rewrites it.
EditOutside ==
  /\ MayChange /\ ~disk.busy /\ done.outside < MaxOutside
  /\ \E text \in Files \ {Text} : disk' = [disk EXCEPT !.file = Saved(text)]
  /\ host' = Stirred
  /\ done' = [done EXCEPT !.outside = @ + 1]
  /\ UNCHANGED <<app, cli>>

Truncate ==
  /\ MayChange /\ ~disk.busy /\ done.outside < MaxOutside
  /\ disk' = [disk EXCEPT !.file = Saved(EmptyText), !.busy = TRUE]
  /\ host' = IF disk.file.there THEN host ELSE Stirred
  /\ done' = [done EXCEPT !.outside = @ + 1]
  /\ UNCHANGED <<app, cli>>

Rewrite ==
  /\ MayChange /\ disk.busy
  /\ \E text \in Files : disk' = [disk EXCEPT !.file = Saved(text), !.busy = FALSE]
  /\ host' = Stirred
  /\ UNCHANGED <<app, cli, done>>

\* migrate_config: read and check; then back up (not shown), write without a
\* sync, rename.
MigrateRead ==
  /\ cli.stage = "off" /\ disk.file.there
  /\ Text.legacy /\ Valid(Parse(Migrated(Text)))
  /\ cli' = [stage |-> "write", text |-> Migrated(Text)]
  /\ UNCHANGED <<disk, app, host, done>>

MigrateWrite ==
  /\ MayChange /\ cli.stage = "write"
  /\ disk' = [disk EXCEPT !.file = [Saved(cli.text) EXCEPT !.synced = FALSE]]
  /\ cli' = [cli EXCEPT !.stage = "done"]
  /\ host' = Stirred
  /\ UNCHANGED <<app, done>>

-----------------------------------------------------------------------------
\* The host.

\* Started without a file it has no path: it keeps the defaults.
HostStart ==
  /\ ~host.up /\ Valid(Parse(Text)) /\ done.outside < MaxOutside
  /\ host' = [NoHost EXCEPT !.up = TRUE, !.path = disk.file.there, !.loaded = Parse(Text)]
  /\ done' = [done EXCEPT !.outside = @ + 1]
  /\ UNCHANGED <<disk, app, cli>>

HostStop == host.up /\ host' = NoHost /\ UNCHANGED <<disk, app, cli, done>>

\* watch_loop up to its poll loop; inotify reports nothing from before.
Watch ==
  /\ host.up /\ host.path /\ ~host.watching
  /\ host' = [host EXCEPT !.watching = TRUE]
  /\ UNCHANGED <<disk, app, cli, done>>

\* The debounce ran out.
Debounced ==
  /\ host.stirred
  /\ host' = [host EXCEPT !.stirred = FALSE, !.asked = TRUE]
  /\ UNCHANGED <<disk, app, cli, done>>

\* reload_config: a file that is invalid, or no path, leaves the pets alone.
Reload ==
  /\ host.up /\ host.asked
  /\ host' = [host EXCEPT !.asked = FALSE,
                          !.loaded = IF host.path /\ Valid(Parse(Text)) THEN Parse(Text) ELSE @]
  /\ UNCHANGED <<disk, app, cli, done>>

\* The power fails: what was not synced may be gone.
PowerCut ==
  /\ done.outside < MaxOutside
  /\ cli.stage # "done" \/ disk.file.synced \/ "cut-migrated" \in Faults
  /\ \E whole \in BOOLEAN :
       /\ whole \/ ~disk.file.synced
       /\ disk' = [disk EXCEPT !.file.whole = whole, !.file.synced = TRUE, !.busy = FALSE]
  /\ app' = Closed /\ host' = NoHost
  /\ cli' = [cli EXCEPT !.stage = "done"]
  /\ done' = [done EXCEPT !.outside = @ + 1]

Next ==
  \/ Edit \/ Save \/ Backup \/ Rename \/ ReloadFromDisk \/ SendOwed
  \/ CloseRequested \/ Confirm
  \/ EditOutside \/ Truncate \/ Rewrite
  \/ MigrateRead \/ MigrateWrite
  \/ HostStart \/ HostStop \/ Watch \/ Debounced \/ Reload \/ PowerCut

Spec == Init /\ [][Next]_vars
-----------------------------------------------------------------------------
Renamed == app.stage = "rename" /\ app'.stage # "rename" /\ disk'.file # disk.file

\* A save replaces only the text that the window loaded or wrote last, and
\* keeps that text as .bak, whatever editors and migrations do meanwhile
\* (Store::save's check against last_seen, write_atomic).
OverwritesWhatItSaw ==
  [][Renamed => /\ Text = app.seen
                /\ disk.file.there => app.bak = Text]_vars

\* A pet that was not edited keeps its table word for word, but for its id
\* made explicit, wherever the draft moved it; an edited one keeps its
\* comments (sync_document).
KeepsWhatWasNotEdited ==
  [][Renamed => \A n \in DOMAIN disk'.file.text.tables : \A i \in DOMAIN app.doc :
       LET t == disk'.file.text.tables[n]
           only == \A j \in DOMAIN app.baseline : app.baseline[j].id = t.id => j = i
       IN  app.baseline[i].id = t.id /\ only =>
             /\ t.note = app.doc[i].note
             /\ Normalize(app.draft)[n] = app.baseline[i] => t = [app.doc[i] EXCEPT !.id = t.id]]_vars

\* The text generated for a valid draft always reads back as that draft, and
\* is saved, unless a table of the file uses the old alias move_mode: cleared
\* or copied, the alias is not written (update_pet_table).
RefusalNeedsAlias ==
  app.internal => \E i \in DOMAIN app.doc : app.doc[i].alias # ""

\* The window closes over unsaved edits only from the dialog, or when the
\* power fails (update_frame).
ClosesWithConsent ==
  [][app.open /\ ~app'.open /\ Dirty(app) =>
       app.confirm \/ Renamed \/ done'.outside > done.outside]_vars

\* The file is never left half written (write_atomic; migrate_config's file
\* is excluded by PowerCut).
FileIsWhole == disk.file.whole

Settled == host.up /\ ~host.stirred /\ ~host.asked /\ ~disk.busy

\* With no event and no request outstanding the host runs the file's pets:
\* no change slips between the watcher's debounce, the window's request and
\* the reload (config_watcher.rs, app.rs reload_config).
HostFollowsFile ==
  Settled /\ host.watching /\ Valid(Parse(Text)) => host.loaded = Parse(Text)

\* The same of a host that was started before there was a file ("Changes at
\* run time are reloaded", README.md:300): it has no path and reloads nothing.
FirstSaveIsApplied ==
  Settled /\ (host.path => host.watching) /\ Valid(Parse(Text)) => host.loaded = Parse(Text)
=============================================================================
