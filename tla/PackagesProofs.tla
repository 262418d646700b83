--------------------------- MODULE PackagesProofs ---------------------------
(***************************************************************************)
(* No complete package is deleted that is still needed, and none is lost,  *)
(* for any packages, processes, sources, failures and kills.               *)
(*                                                                         *)
(* Why: a directory has a home, the one package name it can ever stand     *)
(* under, so an uninstall only empties directories of the package it       *)
(* removes; a path names a directory of its own, so a staging directory    *)
(* never holds what another path names; and what is moved under a name was *)
(* read again after the copy and is not written any more.                  *)
(***************************************************************************)
EXTENDS Packages, TLAPS

Stages == {"idle", "named", "copying", "checked", "moved", "restoring", "failing", "installed",
           "kept", "done", "failed", "looking", "open", "emptied", "packing", "killed"}

Jobs == [stage : Stages, from : Origins \cup {Nothing}, name : Names \cup {Nothing},
         existed : BOOLEAN, left : SUBSET {"manifest", "art"},
         dir : Directories \cup {Nothing}, packed : Folders]

Typed ==
  /\ at \in [Places -> Directories \cup {Nothing}]
  /\ files \in [Directories -> Folders]
  /\ sources \in [DOMAIN Sources -> Folders]
  /\ job \in [Processes -> Jobs]

\* No directory has two paths.
Apart == \A q, r \in Places : at[q] = at[r] /\ at[q] # Nothing => q = r

\* What the stage of an install says about its staging directory.
Staged(p) ==
  /\ job[p].stage = "idle" => job[p].name = Nothing
  /\ job[p].stage # "idle" => job[p].name \in Names
  /\ job[p].stage \in {"named", "copying"} => job[p].from \in Origins
  /\ job[p].stage \in {"idle", "named"} => files[p] = Empty /\ \A q \in Places : at[q] # p
  /\ job[p].stage \in {"copying", "checked", "moved", "restoring"} => at[New(p)] = p
  /\ at[New(p)] \in {p, Nothing}
  /\ job[p].stage = "moved" => job[p].existed
  /\ job[p].stage \in {"moved", "restoring"} => at[Old(p)] # Nothing
  /\ at[Old(p)] # Nothing => job[p].stage \in {"moved", "restoring", "kept", "killed", "installed", "done"}
  /\ job[p].stage \in {"installed", "done"} => at[New(p)] = Nothing

\* What the stage of an uninstall and of a build says.
Opened(u) ==
  /\ job[u].stage = "idle" => job[u].name = Nothing /\ job[u].dir = Nothing
  /\ job[u].stage # "idle" => job[u].name \in Names
  /\ job[u].stage = "open" => job[u].dir # Nothing

Packing(b) == job[b].stage = "packing" => job[b].from \in DOMAIN Builds

\* The package a directory belongs to, whatever path names it.
Home(d) == IF d \in Names THEN d ELSE job[d].name

Homes ==
  /\ \A n \in Names : at[n] # Nothing => Home(at[n]) = n
  /\ \A p \in Installers : at[Old(p)] # Nothing => Home(at[Old(p)]) = job[p].name
  /\ \A u \in Removers : job[u].dir # Nothing => Home(job[u].dir) = job[u].name

Base ==
  /\ Typed /\ Apart /\ Homes
  /\ \A p \in Installers : Staged(p)
  /\ \A u \in Removers : Opened(u)
  /\ \A b \in Builders : Packing(b)

\* A directory that stands under its name, waits to be put back there (the
\* copy that would replace it has not left the staging directory), or is about
\* to be put there, of a package nobody uninstalls.
InUse(d) ==
  \/ \E n \in Names : at[n] = d
  \/ \E p \in Installers : at[Old(p)] = d /\ at[New(p)] # Nothing
  \/ d \in Installers /\ job[d].stage \in {"checked", "moved"}
Needed(d) == InUse(d) /\ ~Removing(Home(d))

\* What is needed can be read.
Readable == \A d \in Directories : Needed(d) => ReadManifest(files[d]) # {}

\* An installed package stands under its name or in a staging directory.
Somewhere ==
  \A n \in Installed :
    \/ Removing(n) \/ at[n] # Nothing
    \/ \E p \in Installers : /\ job[p].name = n /\ job[p].stage \in {"moved", "restoring", "kept", "killed"}
                             /\ at[Old(p)] # Nothing /\ at[New(p)] # Nothing

\* The authors keep to a package's name and never leave it without artwork,
\* and what is packed is packed completely.
Steady(owner) ==
  /\ "skip" \notin Faults
  /\ \A s \in DOMAIN Sources : Sources[s].art # {} /\ \A m \in Sources[s].manifest : m.name = owner[s]
  /\ \A s \in DOMAIN Edits : Edits[s].art # {} /\ \A m \in Edits[s].manifest : m.name = owner[s]
  /\ \A f \in DOMAIN Builds : owner[Builds[f]] = owner[f]

\* The sources keep to that, and so does an archive that is being packed.
Stocked(owner) ==
  /\ \A s \in DOMAIN Sources : /\ sources[s] = Empty \/ sources[s].art # {}
                               /\ \A m \in sources[s].manifest : m.name = owner[s]
  /\ \A f \in DOMAIN Builds : sources[f].art # {}
  /\ \A b \in Builders : job[b].stage = "packing" =>
       /\ "art" \in job[b].left \/ job[b].packed.art # {}
       /\ \A m \in job[b].packed.manifest : m.name = owner[job[b].from]

\* Manifests stay at home, and a copy lacks no artwork.
Copied(owner) ==
  /\ \A d \in Directories : \A m \in files[d].manifest : m.name = Home(d)
  /\ \A p \in Installers : job[p].stage \in {"named", "copying"} =>
       job[p].name = IF job[p].from \in Names THEN job[p].from ELSE owner[job[p].from]
  /\ \A p \in Installers : job[p].stage = "copying" /\ ~Removing(job[p].name) =>
       \/ "manifest" \notin job[p].left /\ files[p].manifest = {}
       \/ "art" \in job[p].left \/ files[p].art # {}

Complete == \A d \in Directories : Needed(d) => files[d].art # {}

-----------------------------------------------------------------------------
\* Paths and processes.

LEMMA PathFacts ==
  /\ Names \subseteq Places
  /\ \A p \in Installers : /\ New(p) \in Places /\ Old(p) \in Places
                           /\ New(p) \notin Names /\ Old(p) \notin Names
  /\ \A p, q \in Installers : /\ New(p) # Old(q)
                              /\ New(p) = New(q) => p = q
                              /\ Old(p) = Old(q) => p = q
BY PackagesAssumption DEF Places, New, Old

LEMMA KindFacts ==
  /\ Installers \subseteq Processes /\ Removers \subseteq Processes /\ Builders \subseteq Processes
  /\ Installers \cap Removers = {} /\ Installers \cap Builders = {} /\ Removers \cap Builders = {}
  /\ Installers \cap Names = {} /\ Nothing \notin Directories
  /\ Installers \subseteq Directories /\ Names \subseteq Directories
  /\ Nothing \notin Names /\ Nothing \notin Installers
BY PackagesAssumption DEF Processes, Directories

LEMMA EmptyIsFolder == Empty \in Folders /\ Empty.manifest = {} /\ Empty.art = {}
BY DEF Empty, Folders

LEMMA NoJobIsJob == NoJob \in Jobs
BY EmptyIsFolder DEF NoJob, Jobs, Stages

\* What an install finds at its origin is a folder.
LEMMA OriginIsFolder ==
  ASSUME Typed, NEW s \in Origins
  PROVE  Origin(s) \in Folders
BY PathFacts, EmptyIsFolder DEF Origin, Origins, Contents, Typed

\* rename(2) hands the directory over and leaves every other path alone.
LEMMA RenameMoves ==
  ASSUME Typed, Apart, NEW a \in Places, NEW b \in Places, a # b, at[a] # Nothing, Renamed(a, b)
  PROVE  /\ at' \in [Places -> Directories \cup {Nothing}]
         /\ Apart'
         /\ at'[b] = at[a] /\ at'[a] = Nothing
         /\ \A q \in Places \ {a, b} : at'[q] = at[q]
<1>1. at' = [at EXCEPT ![b] = at[a], ![a] = Nothing]
  BY DEF Renamed
<1>2. at' \in [Places -> Directories \cup {Nothing}]
  BY <1>1 DEF Typed
<1>3. at'[b] = at[a] /\ at'[a] = Nothing /\ \A q \in Places \ {a, b} : at'[q] = at[q]
  BY <1>1 DEF Typed
<1>4. Apart'
  BY <1>3 DEF Apart
<1> QED
  BY <1>2, <1>3, <1>4

LEMMA InitBase ==
  ASSUME Init
  PROVE  Base
<1> USE PackagesAssumption, KindFacts
<1>1. \A d \in Installed : [manifest |-> {[name |-> d, build |-> 0, ok |-> TRUE]}, art |-> {0}] \in Folders
  BY DEF Folders, Manifests
<1>2. Typed
  <2>1. at \in [Places -> Directories \cup {Nothing}]
    BY DEF Init
  <2>2. files \in [Directories -> Folders]
    BY <1>1, EmptyIsFolder DEF Init
  <2>3. sources \in [DOMAIN Sources -> Folders] /\ job \in [Processes -> Jobs]
    BY NoJobIsJob DEF Init
  <2> QED
    BY <2>1, <2>2, <2>3 DEF Typed
<1>3. /\ \A n \in Names : at[n] = IF n \in Installed THEN n ELSE Nothing
      /\ \A q \in Places : at[q] # Nothing => q \in Installed /\ at[q] = q
      /\ \A p \in Installers : at[New(p)] = Nothing /\ at[Old(p)] = Nothing
  BY PathFacts DEF Init
<1>4. \A p \in Processes : job[p] = NoJob /\ NoJob.stage = "idle" /\ NoJob.name = Nothing /\ NoJob.dir = Nothing
  BY DEF Init, NoJob
<1>5. Apart
  BY <1>3 DEF Apart
<1>6. Homes
  BY <1>3, <1>4 DEF Homes, Home
<1>7. ASSUME NEW p \in Installers
      PROVE  Staged(p)
  <2>1. files[p] = Empty
    BY DEF Init
  <2> QED
    BY <1>3, <1>4, <2>1 DEF Staged
<1>8. \A u \in Removers : Opened(u)
  BY <1>4 DEF Opened
<1>9. \A b \in Builders : Packing(b)
  BY <1>4 DEF Packing
<1> QED
  BY <1>2, <1>5, <1>6, <1>7, <1>8, <1>9 DEF Base

-----------------------------------------------------------------------------
\* Every step keeps Base: first the steps of an install.

LEMMA BeginBase ==
  ASSUME Base, NEW p \in Installers, Begin(p)
  PROVE  Base'
<1> USE KindFacts DEF Base
<1>1. PICK s \in Origins : \E m \in ReadManifest(Origin(s)) :
        job' = [job EXCEPT ![p] = [NoJob EXCEPT !.stage = "named", !.from = s, !.name = m.name]]
  BY DEF Begin
<1>2. PICK m \in ReadManifest(Origin(s)) :
        job' = [job EXCEPT ![p] = [NoJob EXCEPT !.stage = "named", !.from = s, !.name = m.name]]
  BY <1>1
<1>3. m.name \in Names
  BY OriginIsFolder DEF Folders, Manifests, ReadManifest
<1> DEFINE j == [NoJob EXCEPT !.stage = "named", !.from = s, !.name = m.name]
<1>4. j \in Jobs /\ j.stage = "named" /\ j.from = s /\ j.name = m.name
  BY <1>3, EmptyIsFolder DEF NoJob, Jobs, Stages
<1> HIDE DEF j
<1>5. job' = [job EXCEPT ![p] = j]
  BY <1>2 DEF j
<1>6. job[p].stage = "idle" /\ UNCHANGED <<at, files, sources>>
  BY DEF Begin, At
<1>7. job'[p] = j /\ \A q \in Processes \ {p} : job'[q] = job[q]
  BY <1>5 DEF Typed
<1>8. Typed'
  BY <1>4, <1>5, <1>6 DEF Typed
<1>9. Apart'
  BY <1>6 DEF Apart
<1>10. Homes'
  <2>1. \A q \in Places : at[q] # p
    BY <1>6 DEF Staged
  <2>2. \A u \in Removers : job[u].dir # Nothing => job[u].name \in Names
    BY DEF Opened
  <2>3. \A u \in Removers : job[u].dir # p
    BY <1>6, <2>2 DEF Homes, Home, Staged
  <2>4. \A d \in Directories \ {p} : Home(d)' = Home(d)
    BY <1>7 DEF Home, Directories
  <2>5. \A n \in Names : (at[n] # Nothing => Home(at[n]) = n)'
    BY <1>6, <2>1, <2>4, PathFacts DEF Homes, Typed
  <2>6. ASSUME NEW q \in Installers
        PROVE  (at[Old(q)] # Nothing => Home(at[Old(q)]) = job[q].name)'
    BY <1>6, <1>7, <2>1, <2>4, PathFacts DEF Homes, Typed, Staged
  <2>7. ASSUME NEW u \in Removers
        PROVE  (job[u].dir # Nothing => Home(job[u].dir) = job[u].name)'
    BY <1>7, <2>3, <2>4 DEF Homes, Typed, Jobs
  <2> QED
    BY <2>5, <2>6, <2>7 DEF Homes
<1>11. \A q \in Installers : Staged(q)'
  BY <1>3, <1>4, <1>6, <1>7 DEF Staged
<1>12. \A u \in Removers : Opened(u)'
  BY <1>7 DEF Opened
<1>13. \A b \in Builders : Packing(b)'
  BY <1>7 DEF Packing
<1> QED
  BY <1>8, <1>9, <1>10, <1>11, <1>12, <1>13

\* A step that only moves a process on, without naming anything anew.
LEMMA HomesStay ==
  ASSUME Base, NEW p \in Processes,
         \A q \in Processes : job'[q].name = job[q].name /\ job'[q].dir = job[q].dir,
         \A q \in Places : at'[q] \in {at[q], Nothing} \/ \E i \in Installers : q = New(i)
  PROVE  Homes'
<1> USE KindFacts, PathFacts DEF Base
<1>1. \A d \in Directories : Home(d)' = Home(d)
  BY DEF Home, Directories
<1>2. \A n \in Names : (at[n] # Nothing => Home(at[n]) = n)'
  BY <1>1 DEF Homes, Typed
<1>3. \A i \in Installers : (at[Old(i)] # Nothing => Home(at[Old(i)]) = job[i].name)'
  BY <1>1 DEF Homes, Typed
<1>4. \A u \in Removers : (job[u].dir # Nothing => Home(job[u].dir) = job[u].name)'
  BY <1>1 DEF Homes, Typed, Jobs
<1> QED
  BY <1>2, <1>3, <1>4 DEF Homes

\* A process that goes on keeps what it works on, and stays one.
LEMMA PastFacts ==
  ASSUME NEW j \in Jobs, NEW stage
  PROVE  LET q == Past(j, stage)
         IN  /\ q.stage = stage /\ q.name = j.name /\ q.dir = j.dir /\ q.existed = j.existed
             /\ stage \in Stages => q \in Jobs
BY DEF Past, Jobs, Folders, Empty

\* A step that changes the stage of a process and what it was copying.
LEMMA GoFacts ==
  ASSUME Typed, NEW p \in Processes, NEW stage \in Stages, Go(p, stage)
  PROVE  /\ job' \in [Processes -> Jobs]
         /\ job'[p].stage = stage /\ job'[p].existed = job[p].existed
         /\ \A q \in Processes : job'[q].name = job[q].name /\ job'[q].dir = job[q].dir
         /\ \A q \in Processes \ {p} : job'[q] = job[q]
BY PastFacts DEF Go, Typed

\* What the second look at the copy decides.
LEMMA CheckFacts ==
  ASSUME Typed, NEW p \in Installers, Check(p)
  PROVE  /\ job' \in [Processes -> Jobs]
         /\ Go(p, "failing") \/ job'[p].stage = "checked"
         /\ job'[p].stage \in {"checked", "failing"}
         /\ \A q \in Processes : job'[q].name = job[q].name /\ job'[q].dir = job[q].dir
         /\ \A q \in Processes \ {p} : job'[q] = job[q]
<1> USE KindFacts
<1>1. CASE Go(p, "failing")
  BY <1>1, GoFacts DEF Stages
<1>2. CASE job' = [job EXCEPT ![p] = [Past(@, "checked") EXCEPT !.existed = at[job[p].name] # Nothing]]
  <2> DEFINE j == Past(job[p], "checked")
             found == at[job[p].name] # Nothing
             k == [j EXCEPT !.existed = found]
  <2>1. /\ j \in Jobs /\ j.stage = "checked" /\ j.name = job[p].name /\ j.dir = job[p].dir
        /\ job' = [job EXCEPT ![p] = k]
    BY <1>2, PastFacts DEF Typed, Stages
  <2>2. found \in BOOLEAN
    OBVIOUS
  <2> HIDE DEF j, found
  <2>3. k \in Jobs /\ k.stage = "checked" /\ k.name = job[p].name /\ k.dir = job[p].dir
    BY <2>1, <2>2 DEF Jobs
  <2> HIDE DEF k
  <2> QED
    BY <2>1, <2>3 DEF Typed
<1> QED
  BY <1>1, <1>2 DEF Check

\* An install that ends, or fails, where nothing but its stage changes.
LEMMA InstallStops ==
  ASSUME Base, NEW p \in Installers, NEW stage \in Stages, Go(p, stage),
         job[p].stage # "idle",
         stage \in {"failing", "failed", "kept", "killed", "restoring"},
         stage = "restoring" => job[p].stage = "moved",
         at[Old(p)] # Nothing => stage \in {"kept", "killed", "restoring"},
         UNCHANGED <<at, files, sources>>
  PROVE  Base'
<1> USE KindFacts, PathFacts DEF Base
<1>1. /\ job' \in [Processes -> Jobs] /\ job'[p].stage = stage
      /\ \A q \in Processes : job'[q].name = job[q].name /\ job'[q].dir = job[q].dir
      /\ \A q \in Processes \ {p} : job'[q] = job[q]
  BY GoFacts
<1>2. Typed'
  BY <1>1 DEF Typed
<1>3. Apart' /\ Homes'
  BY <1>1, HomesStay DEF Apart
<1>4. \A q \in Installers : Staged(q)'
  BY <1>1 DEF Staged
<1>5. \A u \in Removers : Opened(u)'
  BY <1>1 DEF Opened
<1>6. \A b \in Builders : Packing(b)'
  BY <1>1 DEF Packing
<1> QED
  BY <1>2, <1>3, <1>4, <1>5, <1>6

LEMMA StageBase ==
  ASSUME Base, NEW p \in Installers, Stage(p)
  PROVE  Base'
<1> USE KindFacts, PathFacts DEF Base
<1> DEFINE left == {f \in {"manifest", "art"} : Origin(job[p].from)[f] # {}}
<1>1. job[p].stage = "named" /\ UNCHANGED <<files, sources>>
  BY DEF Stage, At
<1>2. CASE at' = [at EXCEPT ![New(p)] = p] /\ job' = [job EXCEPT ![p].stage = "copying", ![p].left = left]
  <2> HIDE DEF left
  <2>1. left \in SUBSET {"manifest", "art"}
    BY DEF left
  <2>2. Typed'
    BY <1>1, <1>2, <2>1 DEF Typed, Jobs, Stages
  <2>3. /\ at'[New(p)] = p /\ \A q \in Places \ {New(p)} : at'[q] = at[q]
        /\ \A q \in Places : at[q] # p
    BY <1>1, <1>2 DEF Typed, Staged
  <2>4. /\ job'[p].stage = "copying"
        /\ \A q \in Processes : /\ job'[q].name = job[q].name /\ job'[q].dir = job[q].dir
                                /\ job'[q].from = job[q].from
        /\ \A q \in Processes \ {p} : job'[q] = job[q]
    BY <1>2 DEF Typed, Jobs
  <2>5. Apart'
    BY <2>3 DEF Apart
  <2>6. Homes'
    BY <2>3, <2>4, HomesStay
  <2>7. \A q \in Installers : Staged(q)'
    BY <1>1, <2>3, <2>4 DEF Staged
  <2>8. \A u \in Removers : Opened(u)'
    BY <2>4 DEF Opened
  <2>9. \A b \in Builders : Packing(b)'
    BY <2>4 DEF Packing
  <2> QED
    BY <2>2, <2>5, <2>6, <2>7, <2>8, <2>9
<1>3. CASE Go(p, "failed") /\ UNCHANGED at
  BY <1>1, <1>3, InstallStops DEF Staged, Stages
<1> QED
  BY <1>2, <1>3 DEF Stage

LEMMA CopyBase ==
  ASSUME Base, NEW p \in Installers, Copy(p)
  PROVE  Base'
<1> USE KindFacts, PathFacts DEF Base
<1>1. job[p].stage = "copying" /\ UNCHANGED <<at, sources>>
  BY DEF Copy, At
<1>2. PICK f \in job[p].left :
        \/ /\ files' = [files EXCEPT ![p][f] = Origin(job[p].from)[f]]
           /\ job' = [job EXCEPT ![p].left = @ \ {f}]
        \/ Go(p, "failing") /\ UNCHANGED files
  BY DEF Copy
<1>3. CASE Go(p, "failing") /\ UNCHANGED files
  BY <1>1, <1>3, InstallStops DEF Staged, Stages
<1>4. CASE /\ files' = [files EXCEPT ![p][f] = Origin(job[p].from)[f]]
           /\ job' = [job EXCEPT ![p].left = @ \ {f}]
  <2>1. Origin(job[p].from) \in Folders /\ f \in {"manifest", "art"} /\ files[p] \in Folders
    BY <1>1, OriginIsFolder DEF Staged, Typed, Jobs
  <2>2. [files[p] EXCEPT ![f] = Origin(job[p].from)[f]] \in Folders
    BY <2>1 DEF Folders
  <2>3. files' \in [Directories -> Folders] /\ \A d \in Directories \ {p} : files'[d] = files[d]
    BY <1>4, <2>2 DEF Typed
  <2>4. /\ job' \in [Processes -> Jobs]
        /\ \A q \in Processes : /\ job'[q].name = job[q].name /\ job'[q].dir = job[q].dir
                                /\ job'[q].from = job[q].from /\ job'[q].stage = job[q].stage
                                /\ job'[q].existed = job[q].existed
    BY <1>4 DEF Typed, Jobs
  <2>5. Typed'
    BY <1>1, <2>3, <2>4 DEF Typed
  <2>6. Apart' /\ Homes'
    BY <1>1, <2>4, HomesStay DEF Apart
  <2>7. \A q \in Installers : Staged(q)'
    BY <1>1, <2>3, <2>4 DEF Staged
  <2>8. \A u \in Removers : Opened(u)'
    BY <2>4 DEF Opened
  <2>9. \A b \in Builders : Packing(b)'
    BY <2>4 DEF Packing
  <2> QED
    BY <2>5, <2>6, <2>7, <2>8, <2>9
<1> QED
  BY <1>2, <1>3, <1>4

LEMMA CheckBase ==
  ASSUME Base, NEW p \in Installers, Check(p)
  PROVE  Base'
<1> USE KindFacts, PathFacts DEF Base
<1>1. job[p].stage = "copying" /\ UNCHANGED <<at, files, sources>>
  BY DEF Check, At
<1>2. CASE Go(p, "failing")
  BY <1>1, <1>2, InstallStops DEF Staged, Stages
<1>3. CASE job'[p].stage = "checked"
  <2>1. /\ job' \in [Processes -> Jobs]
        /\ \A q \in Processes : job'[q].name = job[q].name /\ job'[q].dir = job[q].dir
        /\ \A q \in Processes \ {p} : job'[q] = job[q]
    BY CheckFacts
  <2>2. Typed'
    BY <1>1, <2>1 DEF Typed
  <2>3. Apart' /\ Homes'
    BY <1>1, <2>1, HomesStay DEF Apart
  <2>4. \A q \in Installers : Staged(q)'
    BY <1>1, <1>3, <2>1 DEF Staged
  <2>5. \A u \in Removers : Opened(u)'
    BY <2>1 DEF Opened
  <2>6. \A b \in Builders : Packing(b)'
    BY <2>1 DEF Packing
  <2> QED
    BY <2>2, <2>3, <2>4, <2>5, <2>6
<1> QED
  BY <1>2, <1>3, CheckFacts

\* A rename within what belongs to one package.
LEMMA RenameHomes ==
  ASSUME Base, NEW p \in Installers, NEW a \in Places, NEW b \in Places, a # b,
         at[a] # Nothing, Renamed(a, b),
         b = job[p].name \/ b = Old(p),
         job[p].name \in Names, Home(at[a]) = job[p].name,
         \A q \in Processes : job'[q].name = job[q].name /\ job'[q].dir = job[q].dir
  PROVE  Homes'
<1> USE KindFacts, PathFacts DEF Base
<1>1. \A d \in Directories : Home(d)' = Home(d)
  BY DEF Home, Directories
<1>2. /\ at'[b] = at[a] /\ at'[a] = Nothing /\ \A q \in Places \ {a, b} : at'[q] = at[q]
  BY RenameMoves
<1>3. \A n \in Names : (at[n] # Nothing => Home(at[n]) = n)'
  BY <1>1, <1>2 DEF Homes, Typed
<1>4. \A i \in Installers : (at[Old(i)] # Nothing => Home(at[Old(i)]) = job[i].name)'
  BY <1>1, <1>2 DEF Homes, Typed
<1>5. \A u \in Removers : (job[u].dir # Nothing => Home(job[u].dir) = job[u].name)'
  BY <1>1 DEF Homes, Typed, Jobs
<1> QED
  BY <1>3, <1>4, <1>5 DEF Homes

LEMMA MoveAwayBase ==
  ASSUME Base, NEW p \in Installers, MoveAway(p)
  PROVE  Base'
<1> USE KindFacts, PathFacts DEF Base
<1> DEFINE n == job[p].name
<1>1. job[p].stage = "checked" /\ n \in Names /\ UNCHANGED <<files, sources>>
  BY DEF MoveAway, At, Staged
<1>2. CASE Go(p, "failing") /\ UNCHANGED at
  BY <1>1, <1>2, InstallStops DEF Staged, Stages
<1>3. CASE at[n] # Nothing /\ Renamed(n, Old(p)) /\ Go(p, "moved") /\ job[p].existed
  <2>1. /\ at' \in [Places -> Directories \cup {Nothing}] /\ Apart'
        /\ at'[Old(p)] = at[n] /\ at'[n] = Nothing /\ \A q \in Places \ {n, Old(p)} : at'[q] = at[q]
    BY <1>1, <1>3, RenameMoves
  <2>2. /\ job' \in [Processes -> Jobs] /\ job'[p].stage = "moved" /\ job'[p].existed
        /\ \A q \in Processes : job'[q].name = job[q].name /\ job'[q].dir = job[q].dir
        /\ \A q \in Processes \ {p} : job'[q] = job[q]
    BY <1>3, GoFacts DEF Stages
  <2>3. Typed'
    BY <1>1, <2>1, <2>2 DEF Typed
  <2>4. Homes'
    BY <1>1, <1>3, <2>2, RenameHomes DEF Homes
  <2>5. \A q \in Installers : Staged(q)'
    <3>1. \A d \in Directories : (\A q \in Places : at[q] # d) => \A q \in Places : at'[q] # d
      BY <1>1, <2>1
    <3> QED
      BY <1>1, <1>3, <2>1, <2>2, <3>1 DEF Staged
  <2>6. \A u \in Removers : Opened(u)'
    BY <2>2 DEF Opened
  <2>7. \A b \in Builders : Packing(b)'
    BY <2>2 DEF Packing
  <2> QED
    BY <2>1, <2>3, <2>4, <2>5, <2>6, <2>7
<1> QED
  BY <1>2, <1>3 DEF MoveAway, CanRename

LEMMA MoveInBase ==
  ASSUME Base, NEW p \in Installers, MoveIn(p)
  PROVE  Base'
<1> USE KindFacts, PathFacts DEF Base
<1> DEFINE n == job[p].name
<1>1. /\ job[p].stage \in {"moved", "checked"} /\ n \in Names /\ UNCHANGED <<files, sources>>
      /\ at[New(p)] = p
  BY DEF MoveIn, At, Staged
<1>2. CASE /\ UNCHANGED at
           /\ \/ Go(p, "failing") /\ at[Old(p)] = Nothing
              \/ Go(p, "restoring") /\ job[p].stage = "moved"
  BY <1>1, <1>2, InstallStops DEF Stages
<1>3. CASE Renamed(New(p), n) /\ Go(p, "installed")
  <2>1. /\ at' \in [Places -> Directories \cup {Nothing}] /\ Apart'
        /\ at'[n] = p /\ at'[New(p)] = Nothing /\ \A q \in Places \ {n, New(p)} : at'[q] = at[q]
    BY <1>1, <1>3, RenameMoves
  <2>2. /\ job' \in [Processes -> Jobs] /\ job'[p].stage = "installed"
        /\ \A q \in Processes : job'[q].name = job[q].name /\ job'[q].dir = job[q].dir
        /\ \A q \in Processes \ {p} : job'[q] = job[q]
    BY <1>3, GoFacts DEF Stages
  <2>3. Typed'
    BY <1>1, <2>1, <2>2 DEF Typed
  <2>4. Homes'
    BY <1>1, <1>3, <2>2, RenameHomes DEF Home
  <2>5. \A q \in Installers : Staged(q)'
    <3>1. \A d \in Directories : (\A q \in Places : at[q] # d) => \A q \in Places : at'[q] # d
      BY <1>1, <2>1
    <3> QED
      BY <1>1, <2>1, <2>2, <3>1 DEF Staged
  <2>6. \A u \in Removers : Opened(u)'
    BY <2>2 DEF Opened
  <2>7. \A b \in Builders : Packing(b)'
    BY <2>2 DEF Packing
  <2> QED
    BY <2>1, <2>3, <2>4, <2>5, <2>6, <2>7
<1>4. CASE job[p].existed
  <2>1. job[p].stage = "moved"
    BY <1>4 DEF MoveIn, At
  <2> QED
    BY <1>2, <1>3, <1>4, <2>1 DEF MoveIn
<1>5. CASE ~job[p].existed
  <2>1. at[Old(p)] = Nothing
    BY <1>1, <1>5 DEF Staged
  <2>2. \/ UNCHANGED at /\ Go(p, "failing")
        \/ Renamed(New(p), n) /\ Go(p, "installed")
    BY <1>5 DEF MoveIn
  <2> QED
    BY <1>2, <1>3, <2>1, <2>2
<1> QED
  BY <1>4, <1>5

LEMMA RestoreBase ==
  ASSUME Base, NEW p \in Installers, Restore(p)
  PROVE  Base'
<1> USE KindFacts, PathFacts DEF Base
<1> DEFINE n == job[p].name
<1>1. job[p].stage = "restoring" /\ n \in Names /\ UNCHANGED <<files, sources>>
  BY DEF Restore, At, Staged
<1>2. CASE Go(p, "kept") /\ UNCHANGED at
  BY <1>1, <1>2, InstallStops DEF Stages
<1>3. CASE at[Old(p)] # Nothing /\ Renamed(Old(p), n) /\ Go(p, "failing")
  <2>1. /\ at' \in [Places -> Directories \cup {Nothing}] /\ Apart'
        /\ at'[n] = at[Old(p)] /\ at'[Old(p)] = Nothing /\ \A q \in Places \ {n, Old(p)} : at'[q] = at[q]
    BY <1>1, <1>3, RenameMoves
  <2>2. /\ job' \in [Processes -> Jobs] /\ job'[p].stage = "failing"
        /\ \A q \in Processes : job'[q].name = job[q].name /\ job'[q].dir = job[q].dir
        /\ \A q \in Processes \ {p} : job'[q] = job[q]
    BY <1>3, GoFacts DEF Stages
  <2>3. Typed'
    BY <1>1, <2>1, <2>2 DEF Typed
  <2>4. Homes'
    BY <1>1, <1>3, <2>2, RenameHomes DEF Homes
  <2>5. \A q \in Installers : Staged(q)'
    <3>1. \A d \in Directories : (\A q \in Places : at[q] # d) => \A q \in Places : at'[q] # d
      BY <1>1, <2>1
    <3> QED
      BY <1>1, <2>1, <2>2, <3>1 DEF Staged
  <2>6. \A u \in Removers : Opened(u)'
    BY <2>2 DEF Opened
  <2>7. \A b \in Builders : Packing(b)'
    BY <2>2 DEF Packing
  <2> QED
    BY <2>1, <2>3, <2>4, <2>5, <2>6, <2>7
<1> QED
  BY <1>2, <1>3 DEF Restore, CanRename

\* A file is deleted in a directory that is not empty.
LEMMA UnlinkedBase ==
  ASSUME Base, NEW d \in Directories, NEW f \in {"manifest", "art"}, files[d][f] # {},
         files' = [files EXCEPT ![d][f] = {}], UNCHANGED <<at, sources, job>>
  PROVE  Base'
<1> USE KindFacts, PathFacts DEF Base
<1>1. files[d] \in Folders
  BY DEF Typed
<1>2. [files[d] EXCEPT ![f] = {}] \in Folders
  BY <1>1 DEF Folders
<1>3. files' \in [Directories -> Folders] /\ \A e \in Directories \ {d} : files'[e] = files[e]
  BY <1>2 DEF Typed
<1>4. files[d] # Empty
  BY DEF Empty
<1>5. Typed' /\ Apart'
  BY <1>3 DEF Typed, Apart
<1>6. Homes'
  BY DEF Homes, Home
<1>7. \A q \in Installers : Staged(q)'
  BY <1>3, <1>4 DEF Staged
<1>8. (\A v \in Removers : Opened(v)') /\ \A b \in Builders : Packing(b)'
  BY DEF Opened, Packing
<1> QED
  BY <1>5, <1>6, <1>7, <1>8

LEMMA UnstageBase ==
  ASSUME Base, NEW p \in Installers, Unstage(p)
  PROVE  Base'
<1>1. PICK d \in {at[New(p)], at[Old(p)]} \ {Nothing}, f \in {"manifest", "art"} :
        files[d][f] # {} /\ files' = [files EXCEPT ![d][f] = {}]
  BY DEF Unstage
<1>2. d \in Directories
  BY PathFacts DEF Base, Typed
<1> QED
  BY <1>1, <1>2, UnlinkedBase DEF Unstage

LEMMA DropStagingBase ==
  ASSUME Base, NEW p \in Installers, DropStaging(p)
  PROVE  Base'
<1> USE KindFacts, PathFacts DEF Base
<1>1. job[p].stage \in {"failing", "installed"} /\ UNCHANGED <<files, sources>>
  BY DEF DropStaging, At
<1>2. /\ job' \in [Processes -> Jobs]
      /\ job'[p].stage = IF job[p].stage = "installed" THEN "done" ELSE "failed"
      /\ \A q \in Processes : job'[q].name = job[q].name /\ job'[q].dir = job[q].dir
      /\ \A q \in Processes \ {p} : job'[q] = job[q]
  BY GoFacts DEF DropStaging, Stages, At
<1>3. /\ at' \in [Places -> Directories \cup {Nothing}]
      /\ \/ at'[New(p)] = Nothing /\ at'[Old(p)] = Nothing
         \/ at'[New(p)] = at[New(p)] /\ at'[Old(p)] = at[Old(p)]
      /\ \A q \in Places \ {New(p), Old(p)} : at'[q] = at[q]
  BY DEF DropStaging, Typed
<1>4. Typed'
  BY <1>1, <1>2, <1>3 DEF Typed
<1>5. Apart'
  BY <1>3 DEF Apart
<1>6. Homes'
  BY <1>2, <1>3, HomesStay
<1>7. \A q \in Installers : Staged(q)'
  <2>1. Staged(p)'
    BY <1>1, <1>2, <1>3 DEF Staged
  <2>2. ASSUME NEW q \in Installers \ {p}
        PROVE  Staged(q)'
    <3>1. job'[q] = job[q] /\ at'[New(q)] = at[New(q)] /\ at'[Old(q)] = at[Old(q)]
      BY <1>2, <1>3
    <3>2. (\A r \in Places : at[r] # q) => \A r \in Places : at'[r] # q
      BY <1>3
    <3> QED
      BY <1>1, <3>1, <3>2 DEF Staged
  <2> QED
    BY <2>1, <2>2
<1>8. \A u \in Removers : Opened(u)'
  BY <1>2 DEF Opened
<1>9. \A b \in Builders : Packing(b)'
  BY <1>2 DEF Packing
<1> QED
  BY <1>4, <1>5, <1>6, <1>7, <1>8, <1>9

\* The steps of an uninstall.

LEMMA LookBase ==
  ASSUME Base, NEW u \in Removers, Look(u)
  PROVE  Base'
<1> USE KindFacts, PathFacts DEF Base
<1>1. PICK n \in Names : job' = [job EXCEPT ![u] = [NoJob EXCEPT !.stage = "looking", !.name = n]]
  BY DEF Look
<1> DEFINE j == [NoJob EXCEPT !.stage = "looking", !.name = n]
<1>2. j \in Jobs /\ j.stage = "looking" /\ j.name = n /\ j.dir = Nothing
  BY EmptyIsFolder DEF NoJob, Jobs, Stages
<1> HIDE DEF j
<1>3. UNCHANGED <<at, files, sources>>
  BY DEF Look
<1>4. job'[u] = j /\ \A q \in Processes \ {u} : job'[q] = job[q]
  BY <1>1 DEF Typed, j
<1>5. Typed'
  BY <1>1, <1>2, <1>3 DEF Typed, j
<1>6. Apart'
  BY <1>3 DEF Apart
<1>7. Homes'
  <2>1. \A d \in Directories : Home(d)' = Home(d)
    BY <1>4 DEF Home, Directories
  <2>2. \A m \in Names : (at[m] # Nothing => Home(at[m]) = m)'
    BY <1>3, <2>1 DEF Homes, Typed
  <2>3. \A i \in Installers : (at[Old(i)] # Nothing => Home(at[Old(i)]) = job[i].name)'
    BY <1>3, <1>4, <2>1 DEF Homes, Typed
  <2>4. \A v \in Removers : (job[v].dir # Nothing => Home(job[v].dir) = job[v].name)'
    BY <1>2, <1>4, <2>1 DEF Homes, Typed, Jobs
  <2> QED
    BY <2>2, <2>3, <2>4 DEF Homes
<1>8. \A q \in Installers : Staged(q)'
  BY <1>3, <1>4 DEF Staged
<1>9. \A v \in Removers : Opened(v)'
  BY <1>2, <1>4 DEF Opened
<1>10. \A b \in Builders : Packing(b)'
  BY <1>4 DEF Packing
<1> QED
  BY <1>5, <1>6, <1>7, <1>8, <1>9, <1>10

LEMMA OpenDirectoryBase ==
  ASSUME Base, NEW u \in Removers, OpenDirectory(u)
  PROVE  Base'
<1> USE KindFacts, PathFacts DEF Base
<1> DEFINE dir   == at[job[u].name]
           stage == IF dir = Nothing THEN "failed" ELSE "open"
<1>1. job[u].stage = "looking" /\ job[u].name \in Names /\ UNCHANGED <<at, files, sources>>
  BY DEF OpenDirectory, At, Opened
<1>2. job' = [job EXCEPT ![u].dir = dir, ![u].stage = stage]
  BY DEF OpenDirectory
<1>3. dir \in Directories \cup {Nothing} /\ stage \in Stages /\ (dir # Nothing => Home(dir) = job[u].name)
  BY <1>1 DEF Typed, Stages, Homes
<1>4. stage \in {"failed", "open"} /\ (stage = "open" => dir # Nothing)
  OBVIOUS
<1> HIDE DEF dir, stage
<1>5. /\ job' \in [Processes -> Jobs] /\ job'[u].stage = stage /\ job'[u].dir = dir
      /\ job'[u].name = job[u].name /\ \A q \in Processes \ {u} : job'[q] = job[q]
  BY <1>2, <1>3, SMTT(20) DEF Typed, Jobs
<1>6. Typed'
  BY <1>1, <1>5 DEF Typed
<1>7. Apart'
  BY <1>1 DEF Apart
<1>8. Homes'
  <2>1. \A d \in Directories : Home(d)' = Home(d)
    BY <1>5 DEF Home, Directories
  <2>2. \A m \in Names : (at[m] # Nothing => Home(at[m]) = m)'
    BY <1>1, <2>1 DEF Homes, Typed
  <2>3. \A i \in Installers : (at[Old(i)] # Nothing => Home(at[Old(i)]) = job[i].name)'
    BY <1>1, <1>5, <2>1 DEF Homes, Typed
  <2>4. \A v \in Removers : (job[v].dir # Nothing => Home(job[v].dir) = job[v].name)'
    BY <1>3, <1>5, <2>1 DEF Homes, Typed, Jobs
  <2> QED
    BY <2>2, <2>3, <2>4 DEF Homes
<1>9. \A q \in Installers : Staged(q)'
  BY <1>1, <1>5 DEF Staged
<1>10. \A v \in Removers : Opened(v)'
  BY <1>1, <1>4, <1>5 DEF Opened
<1>11. \A b \in Builders : Packing(b)'
  BY <1>5 DEF Packing
<1> QED
  BY <1>6, <1>7, <1>8, <1>9, <1>10, <1>11

\* An uninstall that only moves on, perhaps after it deleted something.
LEMMA UninstallGoes ==
  ASSUME Base, NEW u \in Removers, NEW stage \in Stages \ {"idle", "open"},
         Go(u, stage), job[u].stage # "idle", UNCHANGED <<files, sources>>,
         at' = at \/ at' = [at EXCEPT ![job[u].name] = Nothing], job[u].name \in Names
  PROVE  Base'
<1> USE KindFacts, PathFacts DEF Base
<1>1. /\ job' \in [Processes -> Jobs] /\ job'[u].stage = stage
      /\ \A q \in Processes : job'[q].name = job[q].name /\ job'[q].dir = job[q].dir
      /\ \A q \in Processes \ {u} : job'[q] = job[q]
  BY GoFacts
<1>2. /\ at' \in [Places -> Directories \cup {Nothing}]
      /\ \A q \in Places : at'[q] \in {at[q], Nothing}
      /\ \A i \in Installers : at'[New(i)] = at[New(i)] /\ at'[Old(i)] = at[Old(i)]
  BY DEF Typed
<1>3. Typed'
  BY <1>1, <1>2 DEF Typed
<1>4. Apart'
  BY <1>2 DEF Apart
<1>5. Homes'
  BY <1>1, <1>2, HomesStay
<1>6. \A q \in Installers : Staged(q)'
  BY <1>1, <1>2 DEF Staged
<1>7. \A v \in Removers : Opened(v)'
  BY <1>1 DEF Opened
<1>8. \A b \in Builders : Packing(b)'
  BY <1>1 DEF Packing
<1> QED
  BY <1>3, <1>4, <1>5, <1>6, <1>7, <1>8

LEMMA UnlinkBase ==
  ASSUME Base, NEW u \in Removers, Unlink(u)
  PROVE  Base'
<1> USE KindFacts, PathFacts DEF Base
<1>1. job[u].stage = "open" /\ UNCHANGED <<at, sources>> /\ job[u].name \in Names
  BY DEF Unlink, At, Opened
<1>2. CASE (Go(u, "emptied") \/ Go(u, "failed")) /\ UNCHANGED files
  BY <1>1, <1>2, UninstallGoes DEF Stages
<1>3. ASSUME NEW f \in {"manifest", "art"}, files[job[u].dir][f] # {},
             files' = [files EXCEPT ![job[u].dir][f] = {}], UNCHANGED job
      PROVE  Base'
  <2>1. job[u].dir \in Directories
    BY <1>1 DEF Opened, Typed, Jobs
  <2> QED
    BY <1>1, <1>3, <2>1, UnlinkedBase
<1> QED
  BY <1>2, <1>3 DEF Unlink

LEMMA RemoveDirectoryBase ==
  ASSUME Base, NEW u \in Removers, RemoveDirectory(u)
  PROVE  Base'
<1> USE DEF Base
<1>1. job[u].stage = "emptied" /\ job[u].name \in Names
  BY DEF RemoveDirectory, At, Opened
<1> QED
  BY <1>1, UninstallGoes DEF RemoveDirectory, Stages

\* The steps of a build, and what is left.

\* Whatever a process that neither installs nor uninstalls does to its job
\* and to the sources.
LEMMA ElsewhereBase ==
  ASSUME Base, NEW b \in Builders, UNCHANGED <<at, files>>,
         sources' \in [DOMAIN Sources -> Folders], job' \in [Processes -> Jobs],
         \A q \in Processes \ {b} : job'[q] = job[q], Packing(b)'
  PROVE  Base'
<1> USE KindFacts, PathFacts DEF Base
<1>1. Typed' /\ Apart'
  BY DEF Typed, Apart
<1>2. Homes'
  <2>1. \A d \in Directories : Home(d)' = Home(d)
    BY DEF Home, Directories
  <2>2. \A m \in Names : (at[m] # Nothing => Home(at[m]) = m)'
    BY <2>1 DEF Homes, Typed
  <2>3. \A i \in Installers : (at[Old(i)] # Nothing => Home(at[Old(i)]) = job[i].name)'
    BY <2>1 DEF Homes, Typed
  <2>4. \A v \in Removers : (job[v].dir # Nothing => Home(job[v].dir) = job[v].name)'
    BY <2>1 DEF Homes, Typed, Jobs
  <2> QED
    BY <2>2, <2>3, <2>4 DEF Homes
<1>3. \A q \in Installers : Staged(q)'
  BY DEF Staged
<1>4. (\A v \in Removers : Opened(v)') /\ \A c \in Builders : Packing(c)'
  BY DEF Opened, Packing
<1> QED
  BY <1>1, <1>2, <1>3, <1>4

LEMMA BuildBase ==
  ASSUME Base, NEW b \in Builders, Build(b)
  PROVE  Base'
<1> USE KindFacts DEF Base
<1>1. CASE StartBuild(b)
  <2>1. PICK f \in DOMAIN Builds :
          /\ job' = [job EXCEPT ![b] = [NoJob EXCEPT !.stage = "packing", !.from = f,
                       !.left = {g \in {"manifest", "art"} : sources[f][g] # {}}]]
          /\ sources' = [sources EXCEPT ![Builds[f]] = Empty]
    BY <1>1 DEF StartBuild
  <2> DEFINE j == [NoJob EXCEPT !.stage = "packing", !.from = f,
                     !.left = {g \in {"manifest", "art"} : sources[f][g] # {}}]
  <2>2. j \in Jobs /\ j.stage = "packing" /\ j.from = f
    BY PackagesAssumption, EmptyIsFolder DEF NoJob, Jobs, Stages, Origins
  <2> HIDE DEF j
  <2>3. job' \in [Processes -> Jobs] /\ job'[b] = j /\ \A q \in Processes \ {b} : job'[q] = job[q]
    BY <2>1, <2>2 DEF Typed, j
  <2>4. sources' \in [DOMAIN Sources -> Folders] /\ UNCHANGED <<at, files>>
    BY <1>1, <2>1, EmptyIsFolder DEF Typed, StartBuild
  <2> QED
    BY <2>2, <2>3, <2>4, ElsewhereBase DEF Packing
<1>2. CASE Pack(b)
  <2>1. PICK f \in job[b].left :
          \/ job' = [job EXCEPT ![b].packed[f] = sources[job[b].from][f], ![b].left = @ \ {f}]
          \/ Go(b, "failed")
          \/ job' = [job EXCEPT ![b].left = @ \ {f}]
    BY <1>2 DEF Pack
  <2>2. job[b].stage = "packing" /\ job[b].from \in DOMAIN Builds /\ UNCHANGED <<at, files, sources>>
    BY <1>2 DEF Pack, At, Packing
  <2>3. sources[job[b].from] \in Folders /\ f \in {"manifest", "art"} /\ job[b] \in Jobs
    BY <2>2, PackagesAssumption DEF Typed, Jobs
  <2>4. CASE job' = [job EXCEPT ![b].packed[f] = sources[job[b].from][f], ![b].left = @ \ {f}]
    <3>1. [job[b].packed EXCEPT ![f] = sources[job[b].from][f]] \in Folders
      BY <2>3 DEF Jobs, Folders
    <3>2. /\ job' \in [Processes -> Jobs] /\ job'[b].from = job[b].from
          /\ \A q \in Processes \ {b} : job'[q] = job[q]
      BY <2>3, <2>4, <3>1 DEF Typed, Jobs
    <3> QED
      BY <2>2, <3>2, ElsewhereBase DEF Packing, Typed
  <2>5. CASE Go(b, "failed")
    <3>1. /\ job' \in [Processes -> Jobs] /\ job'[b].stage = "failed"
          /\ \A q \in Processes \ {b} : job'[q] = job[q]
      BY <2>5, GoFacts DEF Stages
    <3> QED
      BY <2>2, <3>1, ElsewhereBase DEF Packing, Typed
  <2>6. CASE job' = [job EXCEPT ![b].left = @ \ {f}]
    <3>1. /\ job' \in [Processes -> Jobs] /\ job'[b].from = job[b].from
          /\ \A q \in Processes \ {b} : job'[q] = job[q]
      BY <2>3, <2>6 DEF Typed, Jobs
    <3> QED
      BY <2>2, <3>1, ElsewhereBase DEF Packing, Typed
  <2> QED
    BY <2>1, <2>4, <2>5, <2>6
<1>3. CASE FinishBuild(b)
  <2>1. job' \in [Processes -> Jobs] /\ job'[b].stage = "done" /\ \A q \in Processes \ {b} : job'[q] = job[q]
    BY <1>3, GoFacts DEF FinishBuild, Stages
  <2>2. sources' \in [DOMAIN Sources -> Folders] /\ UNCHANGED <<at, files>>
    BY <1>3 DEF FinishBuild, Typed, Jobs
  <2> QED
    BY <2>1, <2>2, ElsewhereBase DEF Packing
<1> QED
  BY <1>1, <1>2, <1>3 DEF Build

LEMMA KillBase ==
  ASSUME Base, NEW p \in Processes, Kill(p)
  PROVE  Base'
<1> USE KindFacts DEF Base
<1>1. Go(p, "killed") /\ job[p].stage # "idle" /\ UNCHANGED <<at, files, sources>>
  BY DEF Kill, Ended
<1>2. CASE p \in Installers
  BY <1>1, <1>2, InstallStops DEF Stages
<1>3. CASE p \in Removers
  BY <1>1, <1>3, UninstallGoes DEF Stages, Opened
<1>4. CASE p \in Builders
  <2>1. /\ job' \in [Processes -> Jobs] /\ job'[p].stage = "killed"
        /\ \A q \in Processes \ {p} : job'[q] = job[q]
    BY <1>1, GoFacts DEF Stages
  <2> QED
    BY <1>1, <1>4, <2>1, ElsewhereBase DEF Packing, Typed
<1> QED
  BY <1>2, <1>3, <1>4 DEF Processes

\* An author rewrites a source, or nothing happens.
LEMMA SourcesBase ==
  ASSUME Base, UNCHANGED <<at, files, job>>, sources' \in [DOMAIN Sources -> Folders]
  PROVE  Base'
BY DEF Base, Typed, Apart, Homes, Home, Staged, Opened, Packing

LEMMA NextBase ==
  ASSUME Base, [Next]_vars
  PROVE  Base'
<1>1. ASSUME NEW p \in Installers, Install(p)
      PROVE  Base'
  BY <1>1, BeginBase, StageBase, CopyBase, CheckBase, MoveAwayBase, MoveInBase, RestoreBase,
     UnstageBase, DropStagingBase DEF Install
<1>2. ASSUME NEW u \in Removers, Uninstall(u)
      PROVE  Base'
  BY <1>2, LookBase, OpenDirectoryBase, UnlinkBase, RemoveDirectoryBase DEF Uninstall
<1>3. ASSUME NEW s \in DOMAIN Edits, EditSource(s)
      PROVE  Base'
  BY <1>3, SourcesBase, PackagesAssumption DEF EditSource, Base, Typed
<1>4. CASE UNCHANGED vars
  BY <1>4, SourcesBase DEF vars, Base, Typed
<1> QED
  BY <1>1, <1>2, <1>3, <1>4, BuildBase, KillBase DEF Next

-----------------------------------------------------------------------------
\* What is needed stays as it is.

\* Who has begun keeps the name it works on, so a package that is being
\* uninstalled stays one, and a directory in use keeps its home.
LEMMA NamesStay ==
  ASSUME Base, [Next]_vars
  PROVE  \A q \in Installers \cup Removers : job[q].stage # "idle" => job'[q].name = job[q].name
<1> USE KindFacts DEF Base
<1>1. ASSUME NEW p \in Processes, NEW stage, Go(p, stage)
      PROVE  \A q \in Processes : job'[q].name = job[q].name
  BY <1>1, PastFacts DEF Go, Typed, Jobs
<1>2. ASSUME NEW p \in Installers, Install(p)
      PROVE  \A q \in Installers \cup Removers : job[q].stage # "idle" => job'[q].name = job[q].name
  <2>1. CASE Begin(p)
    BY <2>1 DEF Begin, At, Typed
  <2>2. CASE Stage(p) \/ Copy(p) \/ Check(p)
    BY <1>1, <2>2, CheckFacts DEF Stage, Copy, Typed, Jobs
  <2>3. CASE MoveAway(p) \/ MoveIn(p) \/ Restore(p) \/ DropStaging(p)
    BY <1>1, <2>3 DEF MoveAway, MoveIn, Restore, DropStaging
  <2>4. CASE Unstage(p)
    BY <2>4 DEF Unstage
  <2> QED
    BY <1>2, <2>1, <2>2, <2>3, <2>4 DEF Install
<1>3. ASSUME NEW u \in Removers, Uninstall(u)
      PROVE  \A q \in Installers \cup Removers : job[q].stage # "idle" => job'[q].name = job[q].name
  <2>1. CASE Look(u)
    BY <2>1 DEF Look, At, Typed
  <2>2. CASE OpenDirectory(u)
    BY <2>2 DEF OpenDirectory, Typed, Jobs
  <2>3. CASE Unlink(u) \/ RemoveDirectory(u)
    BY <1>1, <2>3 DEF Unlink, RemoveDirectory
  <2> QED
    BY <1>3, <2>1, <2>2, <2>3 DEF Uninstall
<1>4. ASSUME NEW b \in Builders, Build(b)
      PROVE  \A q \in Installers \cup Removers : job'[q] = job[q]
  BY <1>4, PastFacts DEF Build, StartBuild, Pack, FinishBuild, Go, Typed
<1>5. ASSUME NEW p \in Processes, Kill(p)
      PROVE  \A q \in Processes : job'[q].name = job[q].name
  BY <1>1, <1>5 DEF Kill
<1>6. CASE (\E s \in DOMAIN Edits : EditSource(s)) \/ UNCHANGED vars
  BY <1>6 DEF EditSource, vars
<1> QED
  BY <1>2, <1>3, <1>4, <1>5, <1>6 DEF Next

LEMMA RemovingStays ==
  ASSUME Base, [Next]_vars, NEW n \in Names, Removing(n)
  PROVE  Removing(n)'
BY NamesStay, KindFacts DEF Removing, Base, Opened

LEMMA UsedIsNamed ==
  ASSUME Base, NEW d \in Directories, InUse(d)
  PROVE  /\ Home(d) \in Names
         /\ d \in Installers => job[d].stage \notin {"idle", "named", "copying"}
<1> USE KindFacts, PathFacts DEF Base
<1>1. ASSUME d \in Installers
      PROVE  job[d].stage \notin {"idle", "named", "copying"}
  BY <1>1 DEF InUse, Staged, Apart
<1> QED
  BY <1>1 DEF Staged, Home, Directories

LEMMA HomeStays ==
  ASSUME Base, [Next]_vars, NEW d \in Directories, InUse(d)
  PROVE  Home(d)' = Home(d)
BY UsedIsNamed, NamesStay, KindFacts DEF Home, Directories

\* A directory comes into use by the check of its copy only; one in use is
\* changed by an uninstall of its package only.
UseStays(d) ==
  \/ InUse(d) /\ files'[d] = files[d]
  \/ InUse(d) /\ Removing(Home(d))
  \/ d \in Installers /\ Check(d)

LEMMA InstallUse ==
  ASSUME Base, NEW p \in Installers, Install(p), NEW d \in Directories, InUse(d)'
  PROVE  UseStays(d)
<1> USE KindFacts, PathFacts DEF Base, UseStays
<1>1. CASE Begin(p)
  <2>1. \A q \in Processes \ {p} : job'[q] = job[q]
    BY <1>1 DEF Begin, Typed
  <2>2. job'[p].stage = "named" /\ UNCHANGED <<at, files>>
    BY <1>1 DEF Begin, Typed, NoJob
  <2> QED
    BY <2>1, <2>2 DEF InUse
<1>2. CASE Stage(p)
  <2>1. /\ \A q \in Processes \ {p} : job'[q] = job[q]
        /\ job'[p].stage \in {"copying", "failed"}
        /\ UNCHANGED files /\ \A q \in Places \ {New(p)} : at'[q] = at[q]
        /\ at[Old(p)] = Nothing
    BY <1>2, PastFacts DEF Stage, At, Staged, Go, Typed, Jobs
  <2> QED
    BY <2>1 DEF InUse
<1>3. CASE Copy(p)
  <2>1. /\ \A q \in Processes \ {p} : job'[q] = job[q]
        /\ job'[p].stage \in {"copying", "failing"}
        /\ UNCHANGED at /\ \A e \in Directories \ {p} : files'[e] = files[e]
        /\ at[New(p)] = p
    BY <1>3, PastFacts DEF Copy, At, Go, Typed, Jobs, Staged
  <2>2. InUse(d) /\ d # p
    BY <2>1 DEF InUse, Apart
  <2> QED
    BY <2>1, <2>2
<1>4. CASE Check(p)
  <2>1. (\A q \in Processes \ {p} : job'[q] = job[q]) /\ UNCHANGED <<at, files>>
    BY <1>4, PastFacts DEF Check, Go, Typed
  <2> QED
    BY <1>4, <2>1 DEF InUse
<1>5. CASE MoveAway(p) \/ MoveIn(p) \/ Restore(p)
  <2>1. /\ \A q \in Processes \ {p} : job'[q] = job[q]
        /\ job'[p].stage \in {"checked", "moved"} => job[p].stage \in {"checked", "moved"}
        /\ UNCHANGED files
    BY <1>5, PastFacts DEF MoveAway, MoveIn, Restore, Go, At, Typed, Jobs
  <2>2. at[New(p)] = p /\ job[p].name \in Names
    BY <1>5 DEF MoveAway, MoveIn, Restore, At, Staged
  <2>3. PICK a \in {New(p), Old(p), job[p].name}, b \in {Old(p), job[p].name} :
          \/ UNCHANGED at
          \/ /\ Renamed(a, b) /\ at[a] # Nothing /\ a # b
             /\ a = New(p) => job[p].stage \in {"checked", "moved"}
    BY <1>5, <2>2 DEF MoveAway, MoveIn, Restore, CanRename, At
  <2>4. CASE UNCHANGED at
    BY <2>1, <2>4 DEF InUse
  <2>5. CASE Renamed(a, b) /\ at[a] # Nothing /\ a # b /\ (a = New(p) => job[p].stage \in {"checked", "moved"})
    <3>1. at'[b] = at[a] /\ at'[a] = Nothing /\ \A q \in Places \ {a, b} : at'[q] = at[q]
      BY <2>2, <2>5, RenameMoves
    <3> QED
      BY <2>1, <2>2, <2>5, <3>1 DEF InUse
  <2> QED
    BY <2>3, <2>4, <2>5
<1>6. CASE Unstage(p)
  <2>1. PICK e \in {at[New(p)], at[Old(p)]} \ {Nothing}, f \in {"manifest", "art"} :
          files' = [files EXCEPT ![e][f] = {}]
    BY <1>6 DEF Unstage
  <2>2. job[p].stage \in {"failing", "installed"} /\ UNCHANGED <<at, job>>
    BY <1>6 DEF Unstage, At
  <2>3. InUse(d)
    BY <2>2 DEF InUse
  <2>4. d # at[New(p)]
    BY <2>2, <2>3 DEF InUse, Apart, Staged
  <2>5. d # at[Old(p)]
    BY <2>2, <2>3 DEF InUse, Apart, Staged
  <2> QED
    BY <2>1, <2>3, <2>4, <2>5 DEF Typed
<1>7. CASE DropStaging(p)
  <2>1. /\ \A q \in Processes \ {p} : job'[q] = job[q]
        /\ job'[p].stage \in {"done", "failed"} /\ UNCHANGED files
        /\ \A q \in Places : at'[q] \in {at[q], Nothing}
    BY <1>7, PastFacts DEF DropStaging, Go, Typed, Jobs
  <2>2. InUse(d)
    BY <2>1 DEF InUse
  <2> QED
    BY <2>1, <2>2
<1> QED
  BY <1>1, <1>2, <1>3, <1>4, <1>5, <1>6, <1>7 DEF Install

LEMMA UninstallUse ==
  ASSUME Base, NEW u \in Removers, Uninstall(u), NEW d \in Directories, InUse(d)'
  PROVE  UseStays(d)
<1> USE KindFacts, PathFacts DEF Base, UseStays
<1>1. \A q \in Installers : job'[q] = job[q]
  BY ZenonT(30), PastFacts DEF Uninstall, Look, OpenDirectory, Unlink, RemoveDirectory, Go, Typed
<1>2. CASE Look(u) \/ OpenDirectory(u) \/ RemoveDirectory(u)
  <2>1. UNCHANGED files
    BY <1>2 DEF Look, OpenDirectory, RemoveDirectory
  <2>2. \A q \in Places : at'[q] \in {at[q], Nothing}
    BY <1>2 DEF Look, OpenDirectory, RemoveDirectory, Typed
  <2> QED
    BY <1>1, <2>1, <2>2 DEF InUse
<1>3. CASE Unlink(u)
  <2>1. InUse(d)
    BY <1>1, <1>3 DEF InUse, Unlink
  <2>2. job[u].dir # Nothing /\ job[u].dir \in Directories
    BY <1>3 DEF Unlink, At, Opened, Typed, Jobs
  <2>3. Removing(Home(job[u].dir))
    BY <2>2 DEF Homes, Removing
  <2>4. \A e \in Directories \ {job[u].dir} : files'[e] = files[e]
    BY <1>3 DEF Unlink, Typed
  <2> QED
    BY <2>1, <2>3, <2>4
<1> QED
  BY <1>2, <1>3 DEF Uninstall

LEMMA NeededStays ==
  ASSUME Base, [Next]_vars, NEW d \in Directories, Needed(d)'
  PROVE  \/ Needed(d) /\ files'[d] = files[d]
         \/ d \in Installers /\ Check(d)
<1> USE KindFacts DEF Base
<1>1. InUse(d)'
  BY DEF Needed
<1>2. UseStays(d)
  <2>1. CASE \E b \in Builders : Build(b)
    <3>1. (\A q \in Installers : job'[q] = job[q]) /\ UNCHANGED <<at, files>>
      BY <2>1, ZenonT(30), PastFacts DEF Build, StartBuild, Pack, FinishBuild, Go, Typed
    <3> QED
      BY <1>1, <3>1 DEF InUse, UseStays
  <2>2. CASE (\E s \in DOMAIN Edits : EditSource(s)) \/ UNCHANGED vars
    <3>1. UNCHANGED <<at, files, job>>
      BY <2>2 DEF EditSource, vars
    <3> QED
      BY <1>1, <3>1 DEF InUse, UseStays
  <2>3. ASSUME NEW p \in Processes, Kill(p)
        PROVE  UseStays(d)
    <3>1. /\ \A q \in Installers : job'[q].stage \in {job[q].stage, "killed"}
          /\ UNCHANGED <<at, files>>
      BY <2>3, PastFacts DEF Kill, Go, Typed, Jobs
    <3> QED
      BY <1>1, <3>1 DEF InUse, UseStays
  <2> QED
    BY <1>1, <2>1, <2>2, <2>3, InstallUse, UninstallUse DEF Next
<1>3. ASSUME InUse(d)
      PROVE  ~Removing(Home(d))
  <2>1. Home(d)' = Home(d) /\ Home(d) \in Names
    BY <1>3, HomeStays, UsedIsNamed
  <2>2. ~Removing(Home(d))'
    BY <2>1 DEF Needed, Removing
  <2> QED
    BY <2>1, <2>2, RemovingStays
<1> QED
  BY <1>2, <1>3 DEF UseStays, Needed

-----------------------------------------------------------------------------
\* What is needed can be read, and what is installed is somewhere.

LEMMA InitReadable ==
  ASSUME Init
  PROVE  Readable /\ Somewhere
<1> USE PackagesAssumption, KindFacts, PathFacts
<1>1. /\ \A q \in Places : at[q] # Nothing => at[q] \in Installed
      /\ \A n \in Installed : at[n] = n
  BY DEF Init
<1>2. \A d \in Directories : InUse(d) => d \in Installed
  BY <1>1, SMTT(20) DEF InUse, Init, NoJob
<1>3. ASSUME NEW d \in Installed
      PROVE  ReadManifest(files[d]) # {}
  <2>1. files[d] = [manifest |-> {[name |-> d, build |-> 0, ok |-> TRUE]}, art |-> {0}]
    BY DEF Init
  <2> DEFINE m == [name |-> d, build |-> 0, ok |-> TRUE]
  <2>2. m.ok /\ m \in files[d].manifest
    BY <2>1
  <2> QED
    BY <2>2 DEF ReadManifest
<1> QED
  BY <1>1, <1>2, <1>3 DEF Readable, Needed, Somewhere

\* A copy that passes its check can be read.
LEMMA CheckedIsRead ==
  ASSUME Base, NEW p \in Installers, Check(p), InUse(p)'
  PROVE  ReadManifest(files[p]) # {} /\ files'[p] = files[p]
<1> USE KindFacts, PathFacts DEF Base
<1>1. at[New(p)] = p /\ UNCHANGED <<at, files>>
  BY DEF Check, At, Staged
<1>2. job'[p].stage \in {"checked", "moved"}
  BY <1>1 DEF InUse, Apart
<1>3. CASE ReadManifest(files[p]) = {}
  BY <1>2, <1>3, PastFacts DEF Check, Go, Typed, Jobs
<1> QED
  BY <1>1, <1>3

LEMMA NextReadable ==
  ASSUME Base, Readable, [Next]_vars
  PROVE  Readable'
<1>1. ASSUME NEW d \in Directories, Needed(d)'
      PROVE  ReadManifest(files'[d]) # {}
  BY <1>1, NeededStays, CheckedIsRead DEF Readable, Needed
<1> QED
  BY <1>1 DEF Readable, ReadManifest

LEMMA NextSomewhere ==
  ASSUME Base, Somewhere, [Next]_vars
  PROVE  Somewhere'
<1> USE KindFacts, PathFacts DEF Base
<1> DEFINE Aside(p, n) == /\ job[p].name = n /\ job[p].stage \in {"moved", "restoring", "kept", "killed"}
                          /\ at[Old(p)] # Nothing /\ at[New(p)] # Nothing
<1>1. SUFFICES ASSUME NEW n \in Installed, ~Removing(n)'
               PROVE  at'[n] # Nothing \/ \E p \in Installers : Aside(p, n)'
  BY DEF Somewhere
<1>2. ~Removing(n) /\ n \in Names
  BY <1>1, RemovingStays, PackagesAssumption
<1>3. ASSUME NEW p \in Installers, MoveAway(p) \/ MoveIn(p) \/ Restore(p) \/ DropStaging(p)
      PROVE  at'[n] # Nothing \/ \E q \in Installers : Aside(q, n)'
  <2>1. /\ \A q \in Processes \ {p} : job'[q] = job[q]
        /\ job'[p].name = job[p].name /\ job[p].name \in Names
    BY <1>3, NamesStay, PastFacts DEF MoveAway, MoveIn, Restore, DropStaging, Go, At, Typed, Jobs, Staged
  <2>2. CASE MoveAway(p)
    <3>1. CASE UNCHANGED at
      BY <1>2, <2>1, <2>2, <3>1 DEF MoveAway, At, Somewhere
    <3>2. CASE at[job[p].name] # Nothing /\ Renamed(job[p].name, Old(p)) /\ Go(p, "moved")
      <4>1. /\ at'[Old(p)] # Nothing /\ job'[p].stage = "moved"
            /\ \A q \in Places \ {job[p].name, Old(p)} : at'[q] = at[q]
            /\ at'[New(p)] # Nothing
        BY <2>1, <2>2, <3>2, RenameMoves, GoFacts DEF Stages, MoveAway, At, Staged
      <4>2. ASSUME NEW q \in Installers \ {p}, Aside(q, n)
            PROVE  Aside(q, n)'
        BY <2>1, <4>1, <4>2
      <4> QED
        BY <1>2, <2>1, <2>2, <4>1, <4>2 DEF MoveAway, At, Somewhere
    <3> QED
      BY <2>2, <3>1, <3>2 DEF MoveAway, CanRename
  <2>3. CASE MoveIn(p) \/ Restore(p)
    <3>1. PICK a \in {New(p), Old(p)} :
            \/ UNCHANGED at /\ (Go(p, "restoring") \/ Go(p, "failing") \/ Go(p, "kept"))
            \/ at[a] # Nothing /\ Renamed(a, job[p].name)
      BY <2>3 DEF MoveIn, Restore, CanRename
    <3>2. CASE at[a] # Nothing /\ Renamed(a, job[p].name)
      <4>1. at'[job[p].name] # Nothing /\ \A q \in Places \ {a, job[p].name} : at'[q] = at[q]
        BY <2>1, <3>2, RenameMoves
      <4>2. CASE job[p].name = n
        BY <4>1, <4>2
      <4>3. CASE job[p].name # n
        BY <1>2, <2>1, <4>1, <4>3 DEF Somewhere
      <4> QED
        BY <4>2, <4>3
    <3>3. CASE UNCHANGED at /\ (Go(p, "restoring") \/ Go(p, "failing") \/ Go(p, "kept"))
      <4>1. at[Old(p)] # Nothing => job'[p].stage \in {"restoring", "kept"}
        <5>1. Base'
          BY NextBase
        <5>2. at'[Old(p)] = at[Old(p)]
          BY <3>3
        <5>3. at'[Old(p)] # Nothing =>
                job'[p].stage \in {"moved", "restoring", "kept", "killed", "installed", "done"}
          BY <5>1 DEF Staged
        <5>4. job'[p].stage \in {"restoring", "failing", "kept"}
          BY <3>3, GoFacts DEF Stages
        <5> QED
          BY <5>2, <5>3, <5>4
      <4> QED
        BY <1>2, <2>1, <3>3, <4>1 DEF Somewhere
    <3> QED
      BY <3>1, <3>2, <3>3
  <2>4. CASE DropStaging(p)
    <3>1. \A q \in Places \ {New(p), Old(p)} : at'[q] = at[q]
      BY <2>4 DEF DropStaging, Typed
    <3>2. job[p].stage \in {"failing", "installed"}
      BY <2>4 DEF DropStaging, At
    <3> QED
      BY <1>2, <2>1, <3>1, <3>2 DEF Somewhere
  <2> QED
    BY <1>3, <2>2, <2>3, <2>4
<1>4. ASSUME NEW p \in Installers, Begin(p) \/ Stage(p) \/ Copy(p) \/ Check(p)
      PROVE  at'[n] # Nothing \/ \E q \in Installers : Aside(q, n)'
  <2>1. /\ job[p].stage \in {"idle", "named", "copying"}
        /\ \A q \in Processes \ {p} : job'[q] = job[q]
        /\ \A q \in Places \ {New(p)} : at'[q] = at[q]
    BY <1>4, ZenonT(30), PastFacts DEF Begin, Stage, Copy, Check, At, Go, Typed
  <2> QED
    BY <1>2, <2>1 DEF Somewhere
<1>5. ASSUME NEW u \in Removers, Uninstall(u)
      PROVE  at'[n] # Nothing \/ \E q \in Installers : Aside(q, n)'
  <2>1. \A q \in Installers : job'[q] = job[q]
    BY <1>5, ZenonT(30), PastFacts DEF Uninstall, Look, OpenDirectory, Unlink, RemoveDirectory, Go, Typed
  <2>2. \A q \in Places : at'[q] = at[q] \/ (RemoveDirectory(u) /\ q = job[u].name)
    BY <1>5, ZenonT(30) DEF Uninstall, Look, OpenDirectory, Unlink, RemoveDirectory, Typed
  <2>3. RemoveDirectory(u) => job[u].name \in Names \ {n}
    BY <1>2 DEF RemoveDirectory, At, Opened, Removing
  <2> QED
    BY <1>2, <2>1, <2>2, <2>3 DEF Somewhere
<1>6. ASSUME NEW p \in Processes, Kill(p)
      PROVE  at'[n] # Nothing \/ \E q \in Installers : Aside(q, n)'
  <2>1. /\ \A q \in Installers : /\ job'[q].stage \in {job[q].stage, "killed"}
                                 /\ job'[q].name = job[q].name
        /\ UNCHANGED at
    BY <1>6, PastFacts DEF Kill, Go, Typed, Jobs
  <2> QED
    BY <1>2, <2>1 DEF Somewhere
<1>7. CASE \/ \E b \in Builders : Build(b)
           \/ \E s \in DOMAIN Edits : EditSource(s)
           \/ \E p \in Installers : Unstage(p)
           \/ UNCHANGED vars
  <2>1. (\A q \in Installers : job'[q] = job[q]) /\ UNCHANGED at
    BY <1>7, ZenonT(30), PastFacts DEF Build, StartBuild, Pack, FinishBuild, EditSource, Unstage, vars, Go, Typed
  <2> QED
    BY <1>2, <2>1 DEF Somewhere
<1> QED
  BY <1>3, <1>4, <1>5, <1>6, <1>7 DEF Next, Install

-----------------------------------------------------------------------------
\* With steady sources, what is needed has its artwork too.

LEMMA InitComplete ==
  ASSUME NEW owner, Steady(owner), Init
  PROVE  Stocked(owner) /\ Copied(owner) /\ Complete
<1> USE PackagesAssumption, KindFacts, PathFacts
<1>1. \A q \in Processes : job[q].stage = "idle"
  BY DEF Init, NoJob
<1>2. Stocked(owner)
  BY <1>1 DEF Stocked, Steady, Init
<1>3. \A d \in Directories : \A m \in files[d].manifest : m.name = Home(d)
  <2>1. ASSUME NEW d \in Directories, NEW m \in files[d].manifest
        PROVE  d \in Installed /\ m = [name |-> d, build |-> 0, ok |-> TRUE]
    BY <2>1 DEF Init, Empty
  <2> QED
    BY <2>1 DEF Home
<1>4. Copied(owner)
  BY <1>1, <1>3 DEF Copied
<1>5. /\ \A q \in Places : at[q] # Nothing => at[q] \in Installed
      /\ \A d \in Installed : files[d].art = {0}
  BY DEF Init
<1>6. Complete
  BY <1>1, <1>5 DEF Complete, Needed, InUse
<1> QED
  BY <1>2, <1>4, <1>6

LEMMA NextStocked ==
  ASSUME NEW owner, Steady(owner), Base, Stocked(owner), [Next]_vars
  PROVE  Stocked(owner)'
<1> USE KindFacts DEF Base
<1>1. ASSUME NEW b \in Builders, Build(b)
      PROVE  Stocked(owner)'
  <2>1. CASE StartBuild(b)
    <3>1. PICK f \in DOMAIN Builds :
            /\ job' = [job EXCEPT ![b] = [NoJob EXCEPT !.stage = "packing", !.from = f,
                         !.left = {g \in {"manifest", "art"} : sources[f][g] # {}}]]
            /\ sources' = [sources EXCEPT ![Builds[f]] = Empty]
      BY <2>1 DEF StartBuild
    <3>2. /\ job'[b].left = {g \in {"manifest", "art"} : sources[f][g] # {}}
          /\ job'[b].packed = Empty /\ \A q \in Processes \ {b} : job'[q] = job[q]
      BY <3>1 DEF Typed, NoJob
    <3>3. "art" \in job'[b].left
      BY <3>2 DEF Stocked
    <3>4. /\ \A s \in DOMAIN Sources : sources'[s] \in {sources[s], Empty}
          /\ \A g \in DOMAIN Builds : sources'[g] = sources[g]
      BY <3>1, PackagesAssumption DEF Typed
    <3> QED
      BY <3>2, <3>3, <3>4, EmptyIsFolder DEF Stocked
  <2>2. CASE Pack(b)
    <3>1. PICK f \in job[b].left :
            \/ job' = [job EXCEPT ![b].packed[f] = sources[job[b].from][f], ![b].left = @ \ {f}]
            \/ Go(b, "failed")
      BY <2>2 DEF Pack, Steady
    <3>2. job[b].stage = "packing" /\ job[b].from \in DOMAIN Builds /\ UNCHANGED sources
      BY <2>2 DEF Pack, At, Packing
    <3>3. f \in {"manifest", "art"} /\ job[b] \in Jobs
      BY DEF Typed, Jobs
    <3>4. CASE Go(b, "failed")
      BY <3>2, <3>4, GoFacts DEF Stocked, Stages
    <3>5. CASE job' = [job EXCEPT ![b].packed[f] = sources[job[b].from][f], ![b].left = @ \ {f}]
      <4>1. /\ job'[b].left = job[b].left \ {f} /\ job'[b].from = job[b].from
            /\ job'[b].packed = [job[b].packed EXCEPT ![f] = sources[job[b].from][f]]
            /\ \A q \in Processes \ {b} : job'[q] = job[q]
        BY <3>3, <3>5 DEF Typed, Jobs
      <4>2. /\ job'[b].packed[f] = sources[job[b].from][f]
            /\ \A g \in {"manifest", "art"} \ {f} : job'[b].packed[g] = job[b].packed[g]
        BY <3>3, <4>1 DEF Jobs, Folders
      <4>3. "art" \in job'[b].left \/ job'[b].packed.art # {}
        BY <3>2, <3>3, <4>1, <4>2 DEF Stocked
      <4>4. job[b].from \in DOMAIN Sources
        BY <3>2, PackagesAssumption
      <4>5. \A m \in job'[b].packed.manifest : m.name = owner[job'[b].from]
        <5>1. CASE f = "manifest"
          <6>1. job'[b].packed.manifest = sources[job[b].from].manifest
            BY <4>2, <5>1
          <6> QED
            BY <4>1, <4>4, <6>1 DEF Stocked
        <5>2. CASE f = "art"
          <6>1. job'[b].packed.manifest = job[b].packed.manifest
            BY <4>2, <5>2
          <6> QED
            BY <3>2, <4>1, <6>1 DEF Stocked
        <5> QED
          BY <3>3, <5>1, <5>2
      <4>6. ASSUME NEW c \in Builders, job'[c].stage = "packing"
            PROVE  /\ "art" \in job'[c].left \/ job'[c].packed.art # {}
                   /\ \A m \in job'[c].packed.manifest : m.name = owner[job'[c].from]
        <5>1. CASE c = b
          BY <4>3, <4>5, <5>1
        <5>2. CASE c # b
          <6>1. job'[c] = job[c]
            BY <4>1, <5>2
          <6> QED
            BY <4>6, <6>1 DEF Stocked
        <5> QED
          BY <5>1, <5>2
      <4> QED
        BY <3>2, <4>6 DEF Stocked
    <3> QED
      BY <3>1, <3>4, <3>5
  <2>3. CASE FinishBuild(b)
    <3>1. job[b].stage = "packing" /\ job[b].left = {} /\ job[b].from \in DOMAIN Builds
      BY <2>3 DEF FinishBuild, At, Packing
    <3>2. job'[b].stage = "done" /\ \A q \in Processes \ {b} : job'[q] = job[q]
      BY <2>3, GoFacts DEF FinishBuild, Stages
    <3>3. /\ \A s \in DOMAIN Sources \ {Builds[job[b].from]} : sources'[s] = sources[s]
          /\ sources'[Builds[job[b].from]] = job[b].packed
      BY <2>3, <3>1, PackagesAssumption DEF FinishBuild, Typed
    <3>4. job[b].packed.art # {} /\ \A m \in job[b].packed.manifest : m.name = owner[Builds[job[b].from]]
      BY <3>1 DEF Stocked, Steady
    <3> QED
      BY <3>2, <3>3, <3>4, PackagesAssumption DEF Stocked
  <2> QED
    BY <1>1, <2>1, <2>2, <2>3 DEF Build
<1>2. ASSUME NEW s \in DOMAIN Edits, EditSource(s)
      PROVE  Stocked(owner)'
  <2>1. sources' = [sources EXCEPT ![s] = Edits[s]] /\ UNCHANGED job
    BY <1>2 DEF EditSource
  <2> QED
    BY <2>1, PackagesAssumption DEF Stocked, Steady, Typed
<1>3. ASSUME NEW p \in Processes, Kill(p)
      PROVE  Stocked(owner)'
  <2>1. job'[p].stage = "killed" /\ (\A q \in Processes \ {p} : job'[q] = job[q]) /\ UNCHANGED sources
    BY <1>3, GoFacts DEF Kill, Stages
  <2> QED
    BY <2>1 DEF Stocked
<1>4. ASSUME \/ \E p \in Installers : Install(p)
             \/ \E u \in Removers : Uninstall(u)
             \/ UNCHANGED vars
      PROVE  Stocked(owner)'
  <2>1. \A b \in Builders : job'[b] = job[b]
    <3>1. ASSUME NEW p \in Installers, Install(p)
          PROVE  \A b \in Builders : job'[b] = job[b]
      BY <3>1, PastFacts DEF Install, Begin, Stage, Copy, Check, MoveAway, MoveIn, Restore, Unstage, DropStaging, Go, Typed
    <3>2. ASSUME NEW u \in Removers, Uninstall(u)
          PROVE  \A b \in Builders : job'[b] = job[b]
      BY <3>2, PastFacts DEF Uninstall, Look, OpenDirectory, Unlink, RemoveDirectory, Go, Typed
    <3> QED
      BY <1>4, <3>1, <3>2 DEF vars
  <2>2. UNCHANGED sources
    BY <1>4 DEF Install, Begin, Stage, Copy, Check, MoveAway, MoveIn, Restore, Unstage, DropStaging,
                Uninstall, Look, OpenDirectory, Unlink, RemoveDirectory, vars
  <2> QED
    BY <2>1, <2>2 DEF Stocked
<1> QED
  BY <1>1, <1>2, <1>3, <1>4 DEF Next

\* Where a manifest comes from: it was there, or it was copied.
LEMMA ManifestsFrom ==
  ASSUME Base, [Next]_vars, NEW d \in Directories, NEW m \in files'[d].manifest
  PROVE  \/ m \in files[d].manifest
         \/ d \in Installers /\ Copy(d) /\ m \in Origin(job[d].from).manifest
<1> USE KindFacts DEF Base
<1>1. CASE UNCHANGED files
  BY <1>1
<1>2. ASSUME NEW p \in Installers, Copy(p)
      PROVE  \/ m \in files[d].manifest
             \/ d \in Installers /\ Copy(d) /\ m \in Origin(job[d].from).manifest
  <2>1. PICK f \in job[p].left : files' = [files EXCEPT ![p][f] = Origin(job[p].from)[f]] \/ UNCHANGED files
    BY <1>2 DEF Copy
  <2>2. f \in {"manifest", "art"} /\ files[p] \in Folders
    BY DEF Typed, Jobs
  <2>3. CASE d = p
    <3>1. CASE files' = [files EXCEPT ![p][f] = Origin(job[p].from)[f]]
      <4>1. files'[p] = [files[p] EXCEPT ![f] = Origin(job[p].from)[f]]
        BY <3>1 DEF Typed
      <4> QED
        BY <1>2, <2>2, <2>3, <4>1 DEF Folders
    <3> QED
      BY <2>1, <3>1
  <2>4. CASE d # p
    BY <2>1, <2>4 DEF Typed
  <2> QED
    BY <2>3, <2>4
<1>3. ASSUME NEW p \in Installers, Unstage(p)
      PROVE  m \in files[d].manifest
  <2>1. PICK e \in {at[New(p)], at[Old(p)]} \ {Nothing}, f \in {"manifest", "art"} :
          files' = [files EXCEPT ![e][f] = {}]
    BY <1>3 DEF Unstage
  <2>2. CASE d = e
    <3>1. files'[d] = [files[d] EXCEPT ![f] = {}] /\ files[d] \in Folders
      BY <2>1, <2>2 DEF Typed
    <3> QED
      BY <3>1 DEF Folders
  <2>3. CASE d # e
    BY <2>1, <2>3 DEF Typed
  <2> QED
    BY <2>2, <2>3
<1>4. ASSUME NEW u \in Removers, Unlink(u)
      PROVE  m \in files[d].manifest
  <2>1. PICK f \in {"manifest", "art"} : files' = [files EXCEPT ![job[u].dir][f] = {}] \/ UNCHANGED files
    BY <1>4 DEF Unlink
  <2>2. CASE d = job[u].dir
    <3>1. CASE files' = [files EXCEPT ![d][f] = {}]
      <4>1. files'[d] = [files[d] EXCEPT ![f] = {}] /\ files[d] \in Folders
        BY <3>1 DEF Typed
      <4> QED
        BY <4>1 DEF Folders
    <3> QED
      BY <2>1, <2>2, <3>1
  <2>3. CASE d # job[u].dir
    BY <2>1, <2>3 DEF Typed
  <2> QED
    BY <2>2, <2>3
<1>5. \/ UNCHANGED files
      \/ \E p \in Installers : Copy(p) \/ Unstage(p)
      \/ \E u \in Removers : Unlink(u)
  BY DEF Next, vars, Install, Begin, Stage, Check, MoveAway, MoveIn, Restore, DropStaging, Uninstall, Look,
         OpenDirectory, RemoveDirectory, Build, StartBuild, Pack, FinishBuild, Kill, EditSource
<1> QED
  BY <1>1, <1>2, <1>3, <1>4, <1>5

LEMMA BeginNames ==
  ASSUME Typed, NEW p \in Installers, Begin(p)
  PROVE  job'[p].stage = "named"
<1>1. PICK s \in Origins : \E m \in ReadManifest(Origin(s)) :
        job' = [job EXCEPT ![p] = [NoJob EXCEPT !.stage = "named", !.from = s, !.name = m.name]]
  BY DEF Begin
<1>2. PICK m \in ReadManifest(Origin(s)) :
        job' = [job EXCEPT ![p] = [NoJob EXCEPT !.stage = "named", !.from = s, !.name = m.name]]
  BY <1>1
<1> QED
  BY <1>2, KindFacts DEF Typed, NoJob

\* Who copies has just begun, copies on, or nobody touches it.
LEMMA NamedStays ==
  ASSUME Base, [Next]_vars, NEW p \in Installers, job'[p].stage \in {"named", "copying"}
  PROVE  \/ Begin(p)
         \/ job[p].stage \in {"named", "copying"} /\ job'[p].name = job[p].name /\ job'[p].from = job[p].from
<1> USE KindFacts DEF Base
<1>1. ASSUME NEW q \in Processes, job'[p] = job[p]
      PROVE  job[p].stage \in {"named", "copying"} /\ job'[p].name = job[p].name /\ job'[p].from = job[p].from
  BY <1>1
<1>2. CASE Stage(p) \/ Copy(p)
  BY <1>2, PastFacts DEF Stage, Copy, At, Go, Typed, Jobs
<1>3. CASE Check(p) \/ MoveAway(p) \/ MoveIn(p) \/ Restore(p) \/ Unstage(p) \/ DropStaging(p) \/ Kill(p)
  BY <1>3, CheckFacts, PastFacts DEF MoveAway, MoveIn, Restore, Unstage, DropStaging, Kill, Go, At, Typed, Jobs
<1>4. ASSUME NEW q \in Processes \ {p}, Install(q) \/ Kill(q)
      PROVE  job'[p] = job[p]
  BY <1>4, PastFacts DEF Install, Begin, Stage, Copy, Check, MoveAway, MoveIn, Restore, Unstage, DropStaging, Kill, Go, Typed
<1>5. ASSUME NEW u \in Removers, Uninstall(u)
      PROVE  job'[p] = job[p]
  BY <1>5, PastFacts DEF Uninstall, Look, OpenDirectory, Unlink, RemoveDirectory, Go, Typed
<1>6. ASSUME NEW b \in Builders, Build(b)
      PROVE  job'[p] = job[p]
  BY <1>6, PastFacts DEF Build, StartBuild, Pack, FinishBuild, Go, Typed
<1>7. CASE (\E s \in DOMAIN Edits : EditSource(s)) \/ UNCHANGED vars
  BY <1>7 DEF EditSource, vars
<1> QED
  BY <1>2, <1>3, <1>4, <1>5, <1>6, <1>7 DEF Next, Install

LEMMA CopyingStays ==
  ASSUME Base, [Next]_vars, NEW p \in Installers, job'[p].stage = "copying", ~Removing(job[p].name)
  PROVE  \/ Stage(p) \/ Copy(p)
         \/ job[p].stage = "copying" /\ job'[p].left = job[p].left /\ files'[p] = files[p]
<1> USE KindFacts, PathFacts DEF Base
<1>1. CASE Begin(p) \/ Check(p) \/ MoveAway(p) \/ MoveIn(p) \/ Restore(p) \/ Unstage(p) \/ DropStaging(p) \/ Kill(p)
  BY <1>1, BeginNames, CheckFacts, PastFacts DEF MoveAway, MoveIn, Restore, Unstage, DropStaging, Kill, Go, At, Typed, Jobs
<1>2. ASSUME NEW q \in Installers \ {p}, Install(q)
      PROVE  job'[p] = job[p] /\ files'[p] = files[p]
  <2>1. job'[p] = job[p]
    BY <1>2, PastFacts DEF Install, Begin, Stage, Copy, Check, MoveAway, MoveIn, Restore, Unstage, DropStaging, Go, Typed
  <2>2. CASE Copy(q)
    BY <2>1, <2>2 DEF Copy, Typed
  <2>3. CASE Unstage(q)
    <3>1. at[New(p)] = p /\ p \in Directories
      BY <2>1 DEF Staged
    <3>2. at[New(q)] # p /\ at[Old(q)] # p
      BY <3>1 DEF Apart, Staged
    <3> QED
      BY <2>1, <2>3, <3>1, <3>2 DEF Unstage, Typed
  <2> QED
    BY <1>2, <2>1, <2>2, <2>3 DEF Install, Begin, Stage, Check, MoveAway, MoveIn, Restore, DropStaging
<1>3. ASSUME NEW u \in Removers, Uninstall(u)
      PROVE  job'[p] = job[p] /\ files'[p] = files[p]
  <2>1. job'[p] = job[p]
    BY <1>3, PastFacts DEF Uninstall, Look, OpenDirectory, Unlink, RemoveDirectory, Go, Typed
  <2>2. CASE Unlink(u)
    <3>1. job[u].dir # Nothing
      BY <2>2 DEF Unlink, At, Opened
    <3>2. Removing(Home(job[u].dir))
      BY <3>1 DEF Homes, Removing
    <3>3. job[u].dir # p
      BY <3>2 DEF Home
    <3> QED
      BY <2>1, <2>2, <3>3 DEF Unlink, Typed
  <2> QED
    BY <1>3, <2>1, <2>2 DEF Uninstall, Look, OpenDirectory, RemoveDirectory
<1>4. ASSUME NEW b \in Builders, Build(b)
      PROVE  job'[p] = job[p] /\ files'[p] = files[p]
  BY <1>4, PastFacts DEF Build, StartBuild, Pack, FinishBuild, Go, Typed
<1>5. ASSUME NEW q \in Processes \ {p}, Kill(q)
      PROVE  job'[p] = job[p] /\ files'[p] = files[p]
  BY <1>5, PastFacts DEF Kill, Go, Typed
<1>6. CASE (\E s \in DOMAIN Edits : EditSource(s)) \/ UNCHANGED vars
  BY <1>6 DEF EditSource, vars
<1> QED
  BY <1>1, <1>2, <1>3, <1>4, <1>5, <1>6 DEF Next, Install

\* What an install finds at its origin stays at home.
LEMMA OriginOwned ==
  ASSUME NEW owner, Base, Stocked(owner), Copied(owner), NEW s \in Origins, NEW m \in Origin(s).manifest
  PROVE  m.name = IF s \in Names THEN s ELSE owner[s]
<1> USE KindFacts, PathFacts DEF Base
<1>1. CASE s \in DOMAIN Sources
  BY <1>1, PackagesAssumption DEF Origin, Stocked
<1>2. CASE s \in Names /\ s \notin DOMAIN Sources
  <2>1. at[s] # Nothing /\ m \in files[at[s]].manifest /\ at[s] \in Directories
    BY <1>2, EmptyIsFolder DEF Origin, Contents, Typed
  <2> QED
    BY <1>2, <2>1 DEF Copied, Homes
<1> QED
  BY <1>1, <1>2 DEF Origins

LEMMA NextCopied ==
  ASSUME NEW owner, Steady(owner), Base, Stocked(owner), Copied(owner), Complete, [Next]_vars
  PROVE  Copied(owner)'
<1> USE KindFacts, PathFacts DEF Base
<1>1. ASSUME NEW d \in Directories, NEW m \in files'[d].manifest
      PROVE  m.name = Home(d)'
  <2>1. CASE m \in files[d].manifest
    <3>1. d \in Installers => job[d].stage # "idle"
      BY <2>1, EmptyIsFolder DEF Staged
    <3>2. Home(d)' = Home(d)
      BY <3>1, NamesStay DEF Home, Directories
    <3> QED
      BY <2>1, <3>2 DEF Copied
  <2>2. CASE d \in Installers /\ Copy(d) /\ m \in Origin(job[d].from).manifest
    <3>1. job[d].stage = "copying" /\ job[d].from \in Origins
      BY <2>2 DEF Copy, At, Staged
    <3>2. m.name = job[d].name
      BY <2>2, <3>1, OriginOwned DEF Copied
    <3>3. job'[d].name = job[d].name
      BY <2>2, <3>1, NamesStay
    <3> QED
      BY <2>2, <3>2, <3>3 DEF Home
  <2> QED
    BY <2>1, <2>2, ManifestsFrom
<1>2. ASSUME NEW p \in Installers, job'[p].stage \in {"named", "copying"}
      PROVE  job'[p].name = IF job'[p].from \in Names THEN job'[p].from ELSE owner[job'[p].from]
  <2>1. CASE Begin(p)
    <3>1. PICK s \in Origins : \E m \in ReadManifest(Origin(s)) :
            job' = [job EXCEPT ![p] = [NoJob EXCEPT !.stage = "named", !.from = s, !.name = m.name]]
      BY <2>1 DEF Begin
    <3>2. PICK m \in ReadManifest(Origin(s)) :
            job' = [job EXCEPT ![p] = [NoJob EXCEPT !.stage = "named", !.from = s, !.name = m.name]]
      BY <3>1
    <3>3. job'[p].from = s /\ job'[p].name = m.name
      BY <3>2 DEF Typed, NoJob
    <3>4. m \in Origin(s).manifest
      BY DEF ReadManifest
    <3> QED
      BY <3>3, <3>4, OriginOwned
  <2> QED
    BY <1>2, <2>1, NamedStays DEF Copied
<1>3. ASSUME NEW p \in Installers, job'[p].stage = "copying", ~Removing(job[p].name)' , job'[p].name = job[p].name,
             job'[p].name \in Names
      PROVE  \/ "manifest" \notin job'[p].left /\ files'[p].manifest = {}
             \/ "art" \in job'[p].left \/ files'[p].art # {}
  <2>1. ~Removing(job[p].name)
    BY <1>3, RemovingStays
  <2>2. CASE Stage(p)
    <3>1. job[p].stage = "named" /\ job[p].from \in Origins /\ files[p] = Empty /\ UNCHANGED files
      BY <2>2 DEF Stage, At, Staged
    <3>2. job'[p].left = {f \in {"manifest", "art"} : Origin(job[p].from)[f] # {}}
      BY <1>3, <2>2, PastFacts DEF Stage, Go, Typed, Jobs
    <3>3. Origin(job[p].from).manifest = {} \/ Origin(job[p].from).art # {}
      <4>1. CASE job[p].from \in DOMAIN Sources
        BY <4>1, EmptyIsFolder DEF Origin, Stocked
      <4>2. CASE job[p].from \in Names /\ job[p].from \notin DOMAIN Sources
        <5>1. CASE at[job[p].from] = Nothing
          BY <4>2, <5>1, EmptyIsFolder DEF Origin, Contents
        <5>2. CASE at[job[p].from] # Nothing
          <6>1. Home(at[job[p].from]) = job[p].name /\ at[job[p].from] \in Directories
            BY <3>1, <4>2, <5>2 DEF Homes, Copied, Typed
          <6>2. Needed(at[job[p].from])
            BY <2>1, <4>2, <6>1 DEF Needed, InUse
          <6> QED
            BY <4>2, <5>2, <6>1, <6>2 DEF Complete, Origin, Contents
        <5> QED
          BY <5>1, <5>2
      <4> QED
        BY <3>1, <4>1, <4>2 DEF Origins
    <3> QED
      BY <3>1, <3>2, <3>3, EmptyIsFolder
  <2>3. CASE Copy(p)
    <3>1. job[p].stage = "copying"
      BY <2>3 DEF Copy, At
    <3>2. PICK f \in job[p].left : /\ files' = [files EXCEPT ![p][f] = Origin(job[p].from)[f]]
                                   /\ job' = [job EXCEPT ![p].left = @ \ {f}]
                                   /\ Origin(job[p].from)[f] # {}
      BY <1>3, <2>3, PastFacts DEF Copy, Go, Typed, Jobs
    <3>3. f \in {"manifest", "art"} /\ files[p] \in Folders
      BY DEF Typed, Jobs
    <3>4. job'[p].left = job[p].left \ {f} /\ files'[p] = [files[p] EXCEPT ![f] = Origin(job[p].from)[f]]
      BY <3>2 DEF Typed, Jobs
    <3>5. files'[p][f] # {} /\ \A g \in {"manifest", "art"} \ {f} : files'[p][g] = files[p][g]
      BY <3>2, <3>3, <3>4 DEF Folders
    <3>6. CASE f = "art"
      BY <3>5, <3>6
    <3>7. CASE f = "manifest"
      <4>1. "art" \in job[p].left \/ files[p].art # {}
        BY <2>1, <3>1, <3>7 DEF Copied
      <4> QED
        BY <3>4, <3>5, <3>7, <4>1
    <3> QED
      BY <3>3, <3>6, <3>7
  <2>4. CASE job[p].stage = "copying" /\ job'[p].left = job[p].left /\ files'[p] = files[p]
    BY <2>1, <2>4 DEF Copied
  <2> QED
    BY <1>3, <2>1, <2>2, <2>3, <2>4, CopyingStays
<1>4. ASSUME NEW p \in Installers, job'[p].stage = "copying", ~Removing(job[p].name)'
      PROVE  \/ "manifest" \notin job'[p].left /\ files'[p].manifest = {}
             \/ "art" \in job'[p].left \/ files'[p].art # {}
  <2>1. ~Begin(p)
    BY <1>4, BeginNames
  <2>2. job'[p].name = job[p].name /\ job[p].stage # "idle"
    BY <1>4, <2>1, NamedStays
  <2> QED
    BY <1>3, <1>4, <2>2 DEF Staged
<1> QED
  BY <1>1, <1>2, <1>4 DEF Copied

LEMMA NextComplete ==
  ASSUME NEW owner, Base, Copied(owner), Complete, [Next]_vars
  PROVE  Complete'
<1> USE KindFacts DEF Base
<1>1. ASSUME NEW d \in Directories, Needed(d)'
      PROVE  files'[d].art # {}
  <2>1. CASE Needed(d) /\ files'[d] = files[d]
    BY <2>1 DEF Complete
  <2>2. CASE d \in Installers /\ Check(d)
    <3>1. ReadManifest(files[d]) # {} /\ files'[d] = files[d]
      BY <1>1, <2>2, CheckedIsRead DEF Needed
    <3>2. job[d].stage = "copying" /\ job[d].left = {} /\ job[d].name \in Names
      BY <2>2 DEF Check, At, Staged
    <3>3. job'[d].name = job[d].name
      BY <2>2, <3>2, NamesStay
    <3>4. ~Removing(job[d].name)
      BY <1>1, <2>2, <3>2, <3>3, RemovingStays DEF Needed, Home, Removing
    <3>5. files[d].manifest # {}
      BY <3>1 DEF ReadManifest
    <3> QED
      BY <2>2, <3>1, <3>2, <3>4, <3>5 DEF Copied
  <2> QED
    BY <1>1, <2>1, <2>2, NeededStays
<1> QED
  BY <1>1 DEF Complete

-----------------------------------------------------------------------------
\* The theorems.

\* The files of a complete package are deleted only in a staging directory
\* that has no use for it any more, or by an uninstall that opened that very
\* directory (install_into, uninstall).
LEMMA DeletingStep ==
  ASSUME Base, [Next]_vars, NEW d \in Directories, Whole(files[d]), files'[d] # files[d]
  PROVE  \/ \E u \in Removers : job[u].dir = d
         \/ \E p \in Installers : at[New(p)] = d
         \/ \E p \in Installers : at[Old(p)] = d /\ job[p].stage = "installed"
<1> USE KindFacts, PathFacts DEF Base
<1>1. ASSUME NEW p \in Installers, Copy(p)
      PROVE  at[New(p)] = d
  <2>1. d = p
    BY <1>1 DEF Copy, Typed
  <2> QED
    BY <1>1, <2>1 DEF Copy, At, Staged
<1>2. ASSUME NEW p \in Installers, Unstage(p)
      PROVE  at[New(p)] = d \/ (at[Old(p)] = d /\ job[p].stage = "installed")
  <2>1. d \in {at[New(p)], at[Old(p)]}
    BY <1>2 DEF Unstage, Typed
  <2> QED
    BY <1>2, <2>1 DEF Unstage, At, Staged
<1>3. ASSUME NEW u \in Removers, Unlink(u)
      PROVE  job[u].dir = d
  BY <1>3 DEF Unlink, Typed
<1>4. \/ \E p \in Installers : Copy(p) \/ Unstage(p)
      \/ \E u \in Removers : Unlink(u)
  BY DEF Next, vars, Install, Begin, Stage, Check, MoveAway, MoveIn, Restore, DropStaging, Uninstall, Look,
         OpenDirectory, RemoveDirectory, Build, StartBuild, Pack, FinishBuild, Kill, EditSource
<1> QED
  BY <1>1, <1>2, <1>3, <1>4

\* No complete package is deleted under a name, or while it waits to be put
\* back, unless an uninstall opened it (install_into, uninstall).
THEOREM OnlyUnneededIsDeletedHolds == Spec => OnlyUnneededIsDeleted
<1>1. Base /\ [Next]_vars =>
        [\A d \in Directories :
           Whole(files[d]) /\ files'[d] # files[d] =>
             \/ \E u \in Removers : job[u].dir = d
             \/ \E p \in Installers : at[New(p)] = d
             \/ \E p \in Installers : at[Old(p)] = d /\ job[p].stage = "installed"]_vars
  BY DeletingStep
<1> QED
  BY <1>1, InitBase, NextBase, PTL DEF Spec, OnlyUnneededIsDeleted

\* Whatever authors do to their sources and whatever fails: a package that
\* nobody uninstalls and that a name resolves to parses and validates, and
\* an installed one is under its name or in the staging directory of an
\* install (install_into).
Loads ==
  /\ \A n \in Names : Resolves(n) /\ ~Removing(n) => ReadManifest(Contents(n)) # {}
  /\ \A n \in Installed :
       \/ Removing(n)
       \/ Resolves(n) /\ ReadManifest(Contents(n)) # {}
       \/ \E p \in Installers : /\ job[p].name = n /\ job[p].stage \in {"moved", "restoring", "kept", "killed"}
                                /\ ReadManifest(Contents(Old(p))) # {}

\* A directory under a name, or the backup of one, is needed unless its
\* package is uninstalled.
LEMMA NamedIsNeeded ==
  ASSUME Base
  PROVE  /\ \A n \in Names : at[n] # Nothing /\ ~Removing(n) =>
              Needed(at[n]) /\ at[n] \in Directories /\ Contents(n) = files[at[n]]
         /\ \A p \in Installers : at[Old(p)] # Nothing /\ at[New(p)] # Nothing /\ ~Removing(job[p].name) =>
              Needed(at[Old(p)]) /\ at[Old(p)] \in Directories /\ Contents(Old(p)) = files[at[Old(p)]]
BY PathFacts DEF Base, Homes, Needed, InUse, Typed, Contents

LEMMA ReadableLoads ==
  ASSUME Base, Readable, Somewhere
  PROVE  Loads
<1>1. \A c : ReadManifest(c) # {} => c.manifest # {}
  BY DEF ReadManifest
<1>2. \A n \in Names : Resolves(n) => at[n] # Nothing
  BY EmptyIsFolder DEF Resolves, Contents
<1>3. \A n \in Names : Resolves(n) /\ ~Removing(n) => ReadManifest(Contents(n)) # {}
  BY <1>2, NamedIsNeeded DEF Readable
<1>4. ASSUME NEW n \in Installed, ~Removing(n)
      PROVE  \/ Resolves(n) /\ ReadManifest(Contents(n)) # {}
             \/ \E p \in Installers : /\ job[p].name = n /\ job[p].stage \in {"moved", "restoring", "kept", "killed"}
                                      /\ ReadManifest(Contents(Old(p))) # {}
  <2>1. n \in Names
    BY PackagesAssumption
  <2>2. CASE at[n] # Nothing
    BY <1>1, <1>4, <2>1, <2>2, NamedIsNeeded DEF Readable, Resolves
  <2>3. CASE \E p \in Installers : /\ job[p].name = n /\ job[p].stage \in {"moved", "restoring", "kept", "killed"}
                                   /\ at[Old(p)] # Nothing /\ at[New(p)] # Nothing
    BY <1>4, <2>3, NamedIsNeeded DEF Readable
  <2> QED
    BY <1>4, <2>2, <2>3 DEF Somewhere
<1> QED
  BY <1>3, <1>4 DEF Loads

\* Whatever authors do to their sources and whatever fails, an installed
\* package nobody uninstalls is not lost and its manifest loads.
THEOREM InstalledLoads == Spec => []Loads
<1>1. Init => Base /\ Readable /\ Somewhere
  BY InitBase, InitReadable
<1>2. Base /\ Readable /\ Somewhere /\ [Next]_vars => (Base /\ Readable /\ Somewhere)'
  BY NextBase, NextReadable, NextSomewhere
<1>3. Base /\ Readable /\ Somewhere => Loads
  BY ReadableLoads
<1> QED
  BY <1>1, <1>2, <1>3, PTL DEF Spec

\* The invariant with the artwork, which needs authors that keep to it.
Kept(owner) ==
  /\ Base /\ Readable /\ Somewhere
  /\ Stocked(owner) /\ Copied(owner) /\ Complete

LEMMA KeptHolds ==
  ASSUME NEW owner, Steady(owner)
  PROVE  Spec => []Kept(owner)
<1>1. Init => Kept(owner)
  BY InitBase, InitReadable, InitComplete DEF Kept
<1>2. Kept(owner) /\ [Next]_vars => Kept(owner)'
  BY NextBase, NextReadable, NextSomewhere, NextStocked, NextCopied, NextComplete DEF Kept
<1> QED
  BY <1>1, <1>2, PTL DEF Spec

\* What a name resolves to is complete, for authors that keep to a
\* package's name and never leave it without artwork.
THEOREM InstalledIsValidHolds ==
  ASSUME NEW owner, Steady(owner)
  PROVE  Spec => []InstalledIsValid
<1>1. Kept(owner) => InstalledIsValid
  <2>1. SUFFICES ASSUME Kept(owner), NEW n \in Names, Resolves(n), ~Removing(n)
                 PROVE  Whole(Contents(n))
    BY DEF InstalledIsValid
  <2>2. at[n] # Nothing
    BY <2>1, EmptyIsFolder DEF Resolves, Contents
  <2> QED
    BY <2>1, <2>2, NamedIsNeeded DEF Kept, Readable, Complete, Whole
<1> QED
  BY <1>1, KeptHolds, PTL

\* An installed package that nobody uninstalls stays complete, under its
\* name or as a backup, for the same authors.
THEOREM NothingLostHolds ==
  ASSUME NEW owner, Steady(owner)
  PROVE  Spec => []NothingLost
<1>1. Kept(owner) => NothingLost
  <2>1. SUFFICES ASSUME Kept(owner), NEW n \in Installed, ~Removing(n)
                 PROVE  \/ Resolves(n) /\ Whole(Contents(n))
                        \/ \E p \in Installers :
                             /\ job[p].name = n /\ job[p].stage \in {"moved", "restoring", "kept", "killed"}
                             /\ Whole(Contents(Old(p)))
    BY DEF NothingLost
  <2>2. n \in Names /\ \A c : ReadManifest(c) # {} => c.manifest # {}
    BY PackagesAssumption DEF ReadManifest
  <2>3. CASE at[n] # Nothing
    BY <2>1, <2>2, <2>3, NamedIsNeeded DEF Kept, Readable, Complete, Whole, Resolves
  <2>4. CASE \E p \in Installers : /\ job[p].name = n /\ job[p].stage \in {"moved", "restoring", "kept", "killed"}
                                   /\ at[Old(p)] # Nothing /\ at[New(p)] # Nothing
    BY <2>1, <2>4, NamedIsNeeded DEF Kept, Readable, Complete, Whole
  <2> QED
    BY <2>1, <2>3, <2>4 DEF Kept, Somewhere
<1> QED
  BY <1>1, KeptHolds, PTL

=============================================================================
