------------------------------ MODULE Packages ------------------------------
(***************************************************************************)
(* The package repository (package.rs): `petweave install`, `uninstall`    *)
(* and `package` as processes that share a file system, one system call a  *)
(* step, with calls that fail, processes that are killed, and sources that *)
(* change while they are copied.                                           *)
(*                                                                         *)
(* A directory is an identity (`at` says which one a path names, a rename  *)
(* moves it) with contents: its pet.toml, if any, and its artwork, which   *)
(* stands for every other file.  A manifest is what from_toml makes of the *)
(* text: the name it declares and whether it parses and validates; builds  *)
(* tell versions apart.                                                    *)
(***************************************************************************)
EXTENDS Naturals, FiniteSets

CONSTANTS
  Nothing,     \* no directory
  Names,       \* package names
  Installed,   \* the ones installed at the start
  Sources,     \* [path -> contents]: package directories and archives to install
  Edits,       \* [path -> contents]: what an author may make of a source
  Installers,  \* processes that run `petweave install`
  Removers,    \* processes that run `petweave uninstall`
  Builders,    \* processes that run `petweave package`
  Builds,      \* [folder -> archive]: what they pack, and into which file
  Faults,      \* "io": any call that writes may fail; "kill": a process may be killed;
               \* "skip": a directory of the packed folder cannot be read
  MaxFaults    \* bound on faults and on edits

\* What a directory or an archive may hold: at most one pet.toml, and artwork.
Manifests == [name : Names, build : Nat, ok : BOOLEAN]
Folders == [manifest : SUBSET Manifests, art : SUBSET Nat]

\* Paths of the repository: the packages, and two in each staging directory.
New(p) == <<p, "new">>
Old(p) == <<p, "old">>
Places == Names \cup {New(p) : p \in Installers} \cup {Old(p) : p \in Installers}
Processes == Installers \cup Removers \cup Builders
Directories == Names \cup Installers  \* an installed package's, and an installer's copy

ASSUME PackagesAssumption ==
  /\ Installed \subseteq Names
  /\ Sources \in [DOMAIN Sources -> Folders] /\ Edits \in [DOMAIN Edits -> Folders]
  /\ DOMAIN Edits \subseteq DOMAIN Sources
  /\ \A f \in DOMAIN Builds : f \in DOMAIN Sources /\ Builds[f] \in DOMAIN Sources \ DOMAIN Builds
  /\ Nothing \notin Directories \cup DOMAIN Sources
  /\ Names \cap (Installers \cup DOMAIN Sources) = {}
  /\ \A p \in Installers : New(p) \notin Names /\ Old(p) \notin Names
  /\ Installers \cap Removers = {} /\ Builders \cap (Installers \cup Removers) = {}
  /\ MaxFaults \in Nat

VARIABLES
  at,       \* the directory a path names, or Nothing
  files,    \* the contents of every directory
  sources,  \* the contents of the sources
  job,      \* every process: its stage, what it works on and what it found
  faults

vars == <<at, files, sources, job, faults>>

Empty == [manifest |-> {}, art |-> {}]

\* Reading pet.toml, and what makes a package usable.
ReadManifest(contents) == {m \in contents.manifest : m.ok}
Whole(contents) == ReadManifest(contents) # {} /\ contents.art # {}

Contents(place) == IF at[place] = Nothing THEN Empty ELSE files[at[place]]
\* resolve: an installed package is a directory of that name with a pet.toml.
Resolves(n) == Contents(n).manifest # {}

\* A source is a path of its own, or the installed directory itself.
Origins == DOMAIN Sources \cup Names
Origin(s) == IF s \in DOMAIN Sources THEN sources[s] ELSE Contents(s)

\* Stages of an install: idle, named, copying, checked, moved, restoring,
\* failing, installed, and then kept, done, failed; of an uninstall: idle,
\* looking, open, emptied, and then done, failed; of a build: idle, packing,
\* and then done, failed; of all: killed.
NoJob == [stage |-> "idle", from |-> Nothing, name |-> Nothing, existed |-> FALSE, left |-> {},
          dir |-> Nothing, packed |-> Empty]

Init ==
  /\ at = [p \in Places |-> IF p \in Installed THEN p ELSE Nothing]
  /\ files = [d \in Directories |->
                IF d \in Installed THEN [manifest |-> {[name |-> d, build |-> 0, ok |-> TRUE]}, art |-> {0}]
                ELSE Empty]
  /\ sources = Sources
  /\ job = [p \in Processes |-> NoJob]
  /\ faults = 0

\* A process that goes on forgets what it was copying.
Past(j, stage) == [j EXCEPT !.stage = stage, !.from = Nothing, !.left = {}, !.packed = Empty]
Go(p, stage) == job' = [job EXCEPT ![p] = Past(@, stage)]
At(p, stage) == job[p].stage = stage
\* A call either works or, where faults are modelled, fails.
Fails == "io" \in Faults /\ faults < MaxFaults /\ faults' = faults + 1
Works == faults' = faults

-----------------------------------------------------------------------------
\* Installing (install, install_into).

Begin(p) ==
  /\ At(p, "idle")
  /\ \E s \in Origins : \E m \in ReadManifest(Origin(s)) :
       job' = [job EXCEPT ![p] = [NoJob EXCEPT !.stage = "named", !.from = s, !.name = m.name]]
  /\ UNCHANGED <<at, files, sources, faults>>

\* The staging directory, inside the repository so that renames stay on one
\* file system, the empty directory for the copy, and the list of the
\* source's files.
Stage(p) ==
  /\ At(p, "named")
  /\ \/ /\ Works /\ at' = [at EXCEPT ![New(p)] = p]
        /\ job' = [job EXCEPT ![p].stage = "copying", ![p].left = {f \in {"manifest", "art"} : Origin(job[p].from)[f] # {}}]
     \/ Fails /\ Go(p, "failed") /\ UNCHANGED at
  /\ UNCHANGED <<files, sources>>

\* The files that were listed are copied one by one, in any order, each as
\* its path has it by then; one that is gone fails the copy.
Copy(p) ==
  /\ At(p, "copying")
  /\ \E f \in job[p].left :
       LET found == Origin(job[p].from)[f]
       IN \/ /\ Works /\ found # {}
             /\ files' = [files EXCEPT ![p][f] = found]
             /\ job' = [job EXCEPT ![p].left = @ \ {f}]
          \/ /\ (Works /\ found = {}) \/ (Fails /\ found # {})
             /\ Go(p, "failing") /\ UNCHANGED files
  /\ UNCHANGED <<at, sources>>

\* Mutant: the copy is not read again.
CheckOriginOnly(p) ==
  /\ At(p, "copying") /\ job[p].left = {}
  /\ job' = [job EXCEPT ![p].stage = "checked", ![p].existed = at[job[p].name] # Nothing]
  /\ UNCHANGED <<at, files, sources, faults>>

\* The copy must be a package, whatever the source was; its name is not
\* compared again.
Check(p) ==
  /\ At(p, "copying") /\ job[p].left = {}
  /\ IF ReadManifest(files[p]) = {} THEN Go(p, "failing")
     ELSE job' = [job EXCEPT ![p] = [Past(@, "checked") EXCEPT !.existed = at[job[p].name] # Nothing]]
  /\ UNCHANGED <<at, files, sources, faults>>

\* rename(2) of a directory: it may replace an empty one only.
CanRename(from, to) == at[from] # Nothing /\ (at[to] = Nothing \/ Contents(to) = Empty)
Renamed(from, to) == at' = [at EXCEPT ![to] = at[from], ![from] = Nothing]

MoveAway(p) ==
  /\ At(p, "checked") /\ job[p].existed
  /\ \/ Works /\ CanRename(job[p].name, Old(p)) /\ Renamed(job[p].name, Old(p)) /\ Go(p, "moved")
     \/ Works /\ ~CanRename(job[p].name, Old(p)) /\ Go(p, "failing") /\ UNCHANGED at
     \/ Fails /\ Go(p, "failing") /\ UNCHANGED at
  /\ UNCHANGED <<files, sources>>

MoveIn(p) ==
  /\ At(p, "moved") \/ (At(p, "checked") /\ ~job[p].existed)
  /\ LET failed == IF job[p].existed THEN "restoring" ELSE "failing"
     IN \/ Works /\ CanRename(New(p), job[p].name) /\ Renamed(New(p), job[p].name)
           /\ Go(p, "installed")
        \/ Works /\ ~CanRename(New(p), job[p].name) /\ Go(p, failed) /\ UNCHANGED at
        \/ Fails /\ Go(p, failed) /\ UNCHANGED at
  /\ UNCHANGED <<files, sources>>

\* Mutant: a backup that cannot be put back is not kept.
RestoreOrDrop(p) ==
  /\ At(p, "restoring")
  /\ \/ Works /\ CanRename(Old(p), job[p].name) /\ Renamed(Old(p), job[p].name)
        /\ Go(p, "failing")
     \/ Works /\ ~CanRename(Old(p), job[p].name) /\ Go(p, "failing") /\ UNCHANGED at
     \/ Fails /\ Go(p, "failing") /\ UNCHANGED at
  /\ UNCHANGED <<files, sources>>

\* The new package could not be moved in: the old one is put back, or, if
\* that fails too, its backup is left in the staging directory for ever.
Restore(p) ==
  /\ At(p, "restoring")
  /\ \/ Works /\ CanRename(Old(p), job[p].name) /\ Renamed(Old(p), job[p].name)
        /\ Go(p, "failing")
     \/ Works /\ ~CanRename(Old(p), job[p].name) /\ Go(p, "kept") /\ UNCHANGED at
     \/ Fails /\ Go(p, "kept") /\ UNCHANGED at
  /\ UNCHANGED <<files, sources>>

\* The staging directory is deleted with what is in it, file by file: the
\* copy after a failure, the old package after a success.  That it could not
\* be deleted is not noticed.
Unstage(p) ==
  /\ At(p, "failing") \/ At(p, "installed")
  /\ \E d \in {at[New(p)], at[Old(p)]} \ {Nothing}, f \in {"manifest", "art"} :
       files[d][f] # {} /\ files' = [files EXCEPT ![d][f] = {}]
  /\ UNCHANGED <<at, sources, job, faults>>

DropStaging(p) ==
  /\ At(p, "failing") \/ At(p, "installed")
  /\ \/ /\ Works /\ Contents(New(p)) = Empty /\ Contents(Old(p)) = Empty
        /\ at' = [at EXCEPT ![New(p)] = Nothing, ![Old(p)] = Nothing]
     \/ Fails /\ UNCHANGED at
  /\ Go(p, IF At(p, "installed") THEN "done" ELSE "failed")
  /\ UNCHANGED <<files, sources>>

-----------------------------------------------------------------------------
\* Uninstalling: remove_dir_all opens the directory and deletes through the
\* handle; only the last step goes by the path again.

Look(p) ==
  /\ At(p, "idle")
  /\ \E n \in Names : Resolves(n) /\ job' = [job EXCEPT ![p] = [NoJob EXCEPT !.stage = "looking", !.name = n]]
  /\ UNCHANGED <<at, files, sources, faults>>

OpenDirectory(p) ==
  /\ At(p, "looking")
  /\ job' = [job EXCEPT ![p].dir = at[job[p].name],
                        ![p].stage = IF at[job[p].name] = Nothing THEN "failed" ELSE "open"]
  /\ UNCHANGED <<at, files, sources, faults>>

\* Mutant: the files are deleted by their paths.
UnlinkByPath(p) ==
  /\ At(p, "open") /\ Works
  /\ LET d == at[job[p].name]
     IN IF d = Nothing THEN Go(p, "failed") /\ UNCHANGED files
        ELSE IF files[d] = Empty THEN Go(p, "emptied") /\ UNCHANGED files
        ELSE \E f \in {"manifest", "art"} : files[d][f] # {} /\ files' = [files EXCEPT ![d][f] = {}] /\ UNCHANGED job
  /\ UNCHANGED <<at, sources>>

Unlink(p) ==
  /\ At(p, "open")
  /\ \/ Works /\ files[job[p].dir] = Empty /\ Go(p, "emptied") /\ UNCHANGED files
     \/ Works /\ UNCHANGED job
        /\ \E f \in {"manifest", "art"} : files[job[p].dir][f] # {} /\ files' = [files EXCEPT ![job[p].dir][f] = {}]
     \/ Fails /\ Go(p, "failed") /\ UNCHANGED files
  /\ UNCHANGED <<at, sources>>

RemoveDirectory(p) ==
  /\ At(p, "emptied")
  /\ LET gone == at[job[p].name] # Nothing /\ Contents(job[p].name) = Empty
     IN /\ at' = IF gone THEN [at EXCEPT ![job[p].name] = Nothing] ELSE at
        /\ Go(p, IF gone THEN "done" ELSE "failed")
  /\ UNCHANGED <<files, sources, faults>>

-----------------------------------------------------------------------------
\* Building an archive (build): the file is truncated first and can be opened
\* again only when its directory was written at the end.

StartBuild(p) ==
  /\ At(p, "idle")
  /\ \E f \in DOMAIN Builds :
       /\ ReadManifest(sources[f]) # {}
       /\ job' = [job EXCEPT ![p] = [NoJob EXCEPT !.stage = "packing", !.from = f,
                                       !.left = {g \in {"manifest", "art"} : sources[f][g] # {}}]]
       /\ sources' = [sources EXCEPT ![Builds[f]] = Empty]
  /\ UNCHANGED <<at, files, faults>>

\* A file that cannot be packed ends the build; a directory that cannot be
\* listed is passed over.
Pack(p) ==
  /\ At(p, "packing")
  /\ \E f \in job[p].left :
       \/ Works /\ job' = [job EXCEPT ![p].packed[f] = sources[job[p].from][f], ![p].left = @ \ {f}]
       \/ Fails /\ Go(p, "failed")
       \/ /\ "skip" \in Faults /\ f = "art" /\ Works
          /\ job' = [job EXCEPT ![p].left = @ \ {f}]
  /\ UNCHANGED <<at, files, sources>>

FinishBuild(p) ==
  /\ At(p, "packing") /\ job[p].left = {}
  /\ sources' = [sources EXCEPT ![Builds[job[p].from]] = job[p].packed]
  /\ Go(p, "done")
  /\ UNCHANGED <<at, files, faults>>

-----------------------------------------------------------------------------
Ended == {"idle", "done", "failed", "kept", "killed"}

\* A process is killed, or the machine stops: nothing is cleaned up.
Kill(p) ==
  /\ "kill" \in Faults /\ faults < MaxFaults /\ faults' = faults + 1
  /\ job[p].stage \notin Ended
  /\ Go(p, "killed")
  /\ UNCHANGED <<at, files, sources>>

\* The author of a source rewrites it.
EditSource(s) ==
  /\ faults < MaxFaults /\ faults' = faults + 1
  /\ sources[s] # Edits[s]
  /\ sources' = [sources EXCEPT ![s] = Edits[s]]
  /\ UNCHANGED <<at, files, job>>

Install(p) == Begin(p) \/ Stage(p) \/ Copy(p) \/ Check(p) \/ MoveAway(p) \/ MoveIn(p) \/ Restore(p)
              \/ Unstage(p) \/ DropStaging(p)
Uninstall(p) == Look(p) \/ OpenDirectory(p) \/ Unlink(p) \/ RemoveDirectory(p)

Build(p) == StartBuild(p) \/ Pack(p) \/ FinishBuild(p)

Next ==
  \/ \E p \in Installers : Install(p)
  \/ \E p \in Removers : Uninstall(p)
  \/ \E p \in Builders : Build(p)
  \/ \E p \in Processes : Kill(p)
  \/ \E s \in DOMAIN Edits : EditSource(s)

Spec == Init /\ [][Next]_vars

-----------------------------------------------------------------------------
\* Properties.

Removing(n) == \E p \in Removers : job[p].name = n

\* A package once installed and never uninstalled can be loaded, or it lies
\* complete in the staging directory of an install that stands between its
\* two renames, was killed there, or reported that it could not restore it.
\* No failed copy, archive, call or competing install loses it
\* (install_into; docs/PACKAGES.md:377).
NothingLost ==
  \A n \in Installed :
    \/ Removing(n)
    \/ Resolves(n) /\ Whole(Contents(n))
    \/ \E p \in Installers : /\ job[p].name = n /\ job[p].stage \in {"moved", "restoring", "kept", "killed"}
                             /\ Whole(Contents(Old(p)))

\* What a name resolves to loads: its manifest was read again after the
\* copy, so neither a source edited meanwhile nor a competing install puts
\* half a package under a name (install_into).
InstalledIsValid == \A n \in Names : Resolves(n) /\ ~Removing(n) => Whole(Contents(n))

\* The files of a complete package are deleted only in a staging directory
\* that has no use for it any more (the copy, or the backup once the new
\* package is in its place) or by an uninstall that opened that very
\* directory: never those of the version that replaced it meanwhile
\* (install_into, uninstall).
OnlyUnneededIsDeleted ==
  [][\A d \in Directories :
       Whole(files[d]) /\ files'[d] # files[d] =>
         \/ \E u \in Removers : job[u].dir = d
         \/ \E p \in Installers : at[New(p)] = d
         \/ \E p \in Installers : at[Old(p)] = d /\ job[p].stage = "installed"]_vars

=============================================================================
