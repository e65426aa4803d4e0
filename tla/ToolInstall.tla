----------------------------- MODULE ToolInstall -----------------------------
(***************************************************************************)
(* How a CLI becomes a tool that runs may use: discovery at startup        *)
(* (runtime.go, resolver.go), installation into a cache that several       *)
(* CLIHarbor processes share (portable.go, provisioner.go), a refresh of   *)
(* the search path, and the publication of the qualified tool to the run   *)
(* manager, the dedicated platform and the task catalog (app.go).          *)
(*                                                                         *)
(* One tool of one pack.  A file is the bytes in it and an identity that   *)
(* no other file ever has (os.SameFile, size, modification time).          *)
(***************************************************************************)
EXTENDS Naturals, FiniteSets

CONSTANTS
    Procs,          \* CLIHarbor processes
    Workers,        \* requests and startup sequences
    ProcOf,         \* the process each belongs to
    PathDirs,       \* directories on PATH
    FallbackDirs,   \* the current user's fallback directories
    AutoSetup,      \* the platform has a reviewed bootstrap for this host
    Zip,            \* the artifact is an archive
    Touched,        \* <<place, bytes>> others may write; they may remove what is there
    NoFile,         \* no such file
    MaxFiles, MaxStarts, MaxOutside   \* bounds of the model

ASSUME ToolAssumption ==
    /\ ProcOf \in [Workers -> Procs]
    /\ AutoSetup \in BOOLEAN /\ Zip \in BOOLEAN
    /\ MaxFiles \in Nat /\ MaxStarts \in Nat /\ MaxOutside \in Nat

VARIABLES
    file,       \* what each place holds
    stage,      \* each worker's staging file
    debris,     \* staging files nobody works on, by place
    saved,      \* managed-install-locations.json names the custom root
    rootOK,     \* the custom root is inside the home directory
    files,      \* files made so far
    starts,     \* processes started so far
    outside,    \* changes made by others
    proc,       \* "down", "starting", "up", "closed" (the run manager is)
    mutex,      \* managedToolInstaller.mu
    tool,       \* what the installer, the manager, the platform and the catalog hold
    work,       \* what each worker is doing
    installed,  \* places an install was answered "ready" for
    owed        \* those known when the process was started

vars == <<file, stage, debris, saved, rootOK, files, starts, outside, proc, mutex, tool,
          work, installed, owed>>

-----------------------------------------------------------------------------
(* Files *)

Managed == {"cache", "custom", "legacy"}   \* portable cache, custom root, ConjurProvisioner
Places == Managed \cup PathDirs \cup FallbackDirs

(* The reviewed bytes; other bytes reporting the reviewed version; bytes    *)
(* that do not run or report an unsupported version.                        *)
Contents == {"pinned", "lookalike", "broken"}

Files == [id : 1..MaxFiles, content : Contents, ours : BOOLEAN]

(* The places of this model are different places, and others leave ordinary *)
(* files in them.                                                           *)
ASSUME FileAssumption ==
    /\ (PathDirs \cup FallbackDirs) \cap Managed = {}
    /\ Touched \subseteq Places \X Contents
    /\ NoFile \notin Files
    /\ "none" \notin Workers

NoStage == [content |-> "none", place |-> "cache", aged |-> FALSE]

(* verifyManagedFile, ConjurProvisioner.verifyFile: size and SHA-256. *)
Verified(l) == file[l] # NoFile /\ file[l].content = "pinned"

(* The managed copies that discovery prefers to the search path: those of   *)
(* the portable provisioner and that of ConjurProvisioner.                  *)
ResolveInstalledAt(l) == Verified(l)
ResolveInstalled(l) == Verified(l)

(* managedInstallLocationStore.Load keeps only roots that are still valid. *)
validateManagedInstallRoot == rootOK
Load == saved /\ validateManagedInstallRoot

Made(content, ours) == [id |-> files + 1, content |-> content, ours |-> ours]

Put(l, content, ours) ==
    /\ files < MaxFiles /\ files' = files + 1
    /\ file' = [file EXCEPT ![l] = Made(content, ours)]

-----------------------------------------------------------------------------
(* Discovery *)

Missing == [status |-> "missing", place |-> "none", file |-> NoFile]
Unready == [Missing EXCEPT !.status = "unready"]   \* ambiguous, probe-failed, ...
Ready(l, f) == [status |-> "ready", place |-> l, file |-> f]

Present(dirs) == {l \in dirs : file[l] # NoFile}

(* pathCandidates, and the fallback directories when PATH has none. *)
Candidates == IF Present(PathDirs) # {} THEN Present(PathDirs) ELSE Present(FallbackDirs)

(* ExecutableIdentity.Matches *)
Matches(w) == file[work[w].place] = work[w].seen

(* The version probe succeeds, the file is still the one whose identity was *)
(* captured and its version satisfies the constraint.                       *)
Healthy(w) == Matches(w) /\ work[w].seen.content # "broken"

(* Mutant: only the version is compared. *)
Qualified_Version(w) == Healthy(w)

(* InstallTool also compares the version and the SHA-256 with the pack's.   *)
Qualified(w) == Healthy(w) /\ (work[w].op = "install" => work[w].seen.content = "pinned")

-----------------------------------------------------------------------------
(* Workers *)

Idle == [pc |-> "idle", op |-> "none", place |-> "cache", seen |-> NoFile]

Goto(w, pc) == work' = [work EXCEPT ![w].pc = pc]

p(w) == ProcOf[w]

(* Every way out of a request: deferred removals of its staging files and   *)
(* the release of the mutex.                                                *)
Answer(w) ==
    /\ work' = [work EXCEPT ![w] = Idle]
    /\ stage' = [stage EXCEPT ![w] = NoStage]
    /\ mutex' = [mutex EXCEPT ![p(w)] = IF @ = w THEN "none" ELSE @]

(* The end of discovery at startup: everything is built from one snapshot.  *)
Boot(w, s) ==
    /\ proc' = [proc EXCEPT ![p(w)] = "up"]
    /\ tool' = [tool EXCEPT ![p(w)] = [installer |-> s, manager |-> s, platform |-> s, catalog |-> s]]
    /\ Answer(w)

(* Discovery or provisioning came to nothing: at startup the process goes   *)
(* on with the state s, a request is answered without enabling a task.      *)
Without(w, s) ==
    IF work[w].op = "start" THEN Boot(w, s)
    ELSE Answer(w) /\ UNCHANGED <<proc, tool>>

FilesStay == UNCHANGED <<file, debris, files, saved>>
WorldStays == UNCHANGED <<rootOK, starts, outside, owed>>

(* A process is launched, or a browser posts an installation (into the      *)
(* cache or into a custom root) or a refresh.                               *)
Begin(w, op, place) ==
    /\ work[w] = Idle
    /\ IF op = "start"
       THEN /\ proc[p(w)] = "down" /\ starts < MaxStarts /\ starts' = starts + 1
            /\ proc' = [proc EXCEPT ![p(w)] = "starting"]
            /\ owed' = [owed EXCEPT ![p(w)] = installed]
       ELSE proc[p(w)] \in {"up", "closed"} /\ UNCHANGED <<proc, starts, owed>>
    /\ work' = [work EXCEPT ![w] = [Idle EXCEPT !.op = op, !.place = place,
                                       !.pc = IF op = "start" THEN "resolve" ELSE "lock"]]
    /\ FilesStay /\ UNCHANGED <<stage, rootOK, outside, mutex, tool, installed>>

(* Only a tool that is missing may be installed or searched for.            *)
Lock(w) ==
    /\ work[w].pc = "lock" /\ mutex[p(w)] = "none"
    /\ IF tool[p(w)].installer.status # "missing" \/ (work[w].place = "custom" /\ ~validateManagedInstallRoot)
       THEN work' = [work EXCEPT ![w] = Idle] /\ UNCHANGED mutex
       ELSE /\ mutex' = [mutex EXCEPT ![p(w)] = w]
            /\ Goto(w, IF work[w].op = "install" THEN "check" ELSE "search")
    /\ FilesStay /\ WorldStays /\ UNCHANGED <<stage, proc, tool, installed>>

(* prepareRuntime: a verified managed copy overrides the search path. *)
Resolve(w) ==
    /\ work[w].pc = "resolve"
    /\ LET at(l) == work' = [work EXCEPT ![w].place = l, ![w].pc = "capture"]
       IN  IF ResolveInstalledAt("cache") THEN at("cache")
           ELSE IF Load /\ ResolveInstalledAt("custom") THEN at("custom")
           ELSE IF ResolveInstalled("legacy") THEN at("legacy")
           ELSE Goto(w, "search")
    /\ FilesStay /\ WorldStays /\ UNCHANGED <<stage, proc, mutex, tool, installed>>

(* resolveTool without an override.  A missing tool is bootstrapped at      *)
(* startup where the platform supports it.                                  *)
Search(w) ==
    /\ work[w].pc = "search"
    /\ CASE Cardinality(Candidates) = 1 ->
              /\ work' = [work EXCEPT ![w].place = CHOOSE l \in Candidates : TRUE, ![w].pc = "capture"]
              /\ UNCHANGED <<stage, proc, mutex, tool>>
         [] Candidates = {} /\ AutoSetup /\ work[w].op = "start" ->
              /\ work' = [work EXCEPT ![w].place = "legacy", ![w].pc = "check"]
              /\ UNCHANGED <<stage, proc, mutex, tool>>
         [] OTHER -> Without(w, IF Candidates = {} THEN Missing ELSE Unready)
    /\ FilesStay /\ WorldStays /\ UNCHANGED installed

-----------------------------------------------------------------------------
(* EnsureAt and ConjurProvisioner.Ensure *)

(* The target is verified before anything is touched. *)
Check(w) ==
    /\ work[w].pc = "check"
    /\ Goto(w, IF Verified(work[w].place) THEN "capture"
               ELSE IF file[work[w].place] = NoFile THEN "stage" ELSE "remove")
    /\ FilesStay /\ WorldStays /\ UNCHANGED <<stage, proc, mutex, tool, installed>>

(* An invalid copy is removed; by now it may be another one. *)
Remove(w) ==
    /\ work[w].pc = "remove"
    /\ \/ /\ file' = [file EXCEPT ![work[w].place] = NoFile]
          /\ Goto(w, "stage")
          /\ UNCHANGED <<stage, proc, mutex, tool>>
       \/ UNCHANGED file /\ Without(w, Missing)
    /\ WorldStays /\ UNCHANGED <<debris, files, saved, installed>>

(* RemoveAbandonedStaging and os.CreateTemp: any staging file of this       *)
(* directory that has not changed for an hour goes.                         *)
Stage(w) ==
    /\ work[w].pc = "stage"
    /\ stage' = [v \in Workers |->
                    IF v = w THEN [NoStage EXCEPT !.content = "partial", !.place = work[w].place]
                    ELSE IF stage[v].aged /\ stage[v].place = work[w].place THEN NoStage
                    ELSE stage[v]]
    /\ debris' = [debris EXCEPT ![work[w].place] = IF @ = "aged" THEN "none" ELSE @]
    /\ Goto(w, "download")
    /\ WorldStays /\ UNCHANGED <<file, files, saved, proc, mutex, tool, installed>>

(* The size and the SHA-256 of what arrived are those of the pack. *)
Accepted(content) == content = "pinned"

(* extractZIPExecutable: so are those of the executable in the archive. *)
Extracted(content) == content = "pinned"

(* The download fails, or what it brought is refused; otherwise what is to  *)
(* be renamed is complete and synced, and its archive removed.              *)
Download(w) ==
    /\ work[w].pc = "download"
    /\ \E content, inner \in {"pinned", "broken"} :
         LET zipped == Zip /\ work[w].op # "start"
             got == IF zipped THEN inner ELSE content
         IN  IF Accepted(content) /\ (zipped => Extracted(inner))
             THEN /\ stage' = [stage EXCEPT ![w] =
                       IF @.content = "none" THEN @ ELSE [@ EXCEPT !.content = got, !.aged = FALSE]]
                  /\ Goto(w, "rename")
                  /\ UNCHANGED <<proc, mutex, tool>>
             ELSE Without(w, Missing)
    /\ FilesStay /\ WorldStays /\ UNCHANGED installed

(* activateManagedFile: when the rename fails an exact copy that is already *)
(* there is accepted, and a bare download then stays behind.                *)
Rename(w) ==
    /\ work[w].pc = "rename"
    /\ LET l == work[w].place
           bare == ~Zip /\ work[w].op # "start" /\ stage[w].content # "none"
       IN  \/ /\ stage[w].content # "none"
              /\ Put(l, stage[w].content, TRUE)
              /\ stage' = [stage EXCEPT ![w] = NoStage]
              /\ Goto(w, "verify")
              /\ UNCHANGED <<debris, proc, mutex, tool>>
           \/ /\ Verified(l)
              /\ debris' = [debris EXCEPT ![l] = IF bare /\ @ = "none" THEN "young" ELSE @]
              /\ stage' = [stage EXCEPT ![w] = NoStage]
              /\ Goto(w, "verify")
              /\ UNCHANGED <<file, files, proc, mutex, tool>>
           \/ ~Verified(l) /\ Without(w, Missing) /\ UNCHANGED <<file, files, debris>>
    /\ WorldStays /\ UNCHANGED <<saved, installed>>

Verify(w) ==
    /\ work[w].pc = "verify"
    /\ IF Verified(work[w].place)
       THEN Goto(w, "capture") /\ UNCHANGED <<stage, proc, mutex, tool>>
       ELSE Without(w, Missing)
    /\ FilesStay /\ WorldStays /\ UNCHANGED installed

-----------------------------------------------------------------------------
(* Qualification and publication *)

(* CaptureExecutableIdentity; an override that is gone is invalid. *)
Capture(w) ==
    /\ work[w].pc = "capture"
    /\ IF file[work[w].place] = NoFile THEN Without(w, Unready)
       ELSE /\ work' = [work EXCEPT ![w].seen = file[work[w].place], ![w].pc = "probe"]
            /\ UNCHANGED <<stage, proc, mutex, tool>>
    /\ FilesStay /\ WorldStays /\ UNCHANGED installed

Probe(w) ==
    /\ work[w].pc = "probe"
    /\ \/ /\ Qualified(w)
          /\ IF work[w].op = "start" THEN Boot(w, Ready(work[w].place, work[w].seen))
             ELSE /\ Goto(w, IF work[w].op = "install" /\ work[w].place = "custom"
                             THEN "save" ELSE "activate")
                  /\ UNCHANGED <<stage, proc, mutex, tool>>
       \/ Without(w, Unready)   \* also when the probe times out
    /\ FilesStay /\ WorldStays /\ UNCHANGED installed

(* Mutant: a location is remembered only once the tool is active. *)
Save_Later(w) ==
    /\ work[w].pc = "save"
    /\ Goto(w, "activate")
    /\ FilesStay /\ WorldStays /\ UNCHANGED <<stage, proc, mutex, tool, installed>>

(* managedInstallLocationStore.Save: the root is validated again and the    *)
(* file is replaced as a whole, or keeps its old contents.                  *)
Save(w) ==
    /\ work[w].pc = "save"
    /\ \/ validateManagedInstallRoot /\ saved' = TRUE /\ Goto(w, "activate") /\ UNCHANGED <<stage, proc, mutex, tool>>
       \/ Without(w, Missing) /\ UNCHANGED saved
    /\ WorldStays /\ UNCHANGED <<file, debris, files, installed>>

(* Mutant: the platform and the catalog learn of the tool first. *)
Activate_CatalogFirst(w) ==
    /\ work[w].pc = "activate"
    /\ LET s == Ready(work[w].place, work[w].seen)
       IN  tool' = [tool EXCEPT ![p(w)].catalog = s, ![p(w)].platform = s]
    /\ IF /\ proc[p(w)] = "up"
          /\ tool[p(w)].manager.status = "missing"
          /\ Matches(w)
       THEN Goto(w, "platform") /\ UNCHANGED <<stage, mutex>>
       ELSE Answer(w)
    /\ FilesStay /\ WorldStays /\ UNCHANGED <<proc, installed>>

(* Manager.ActivateTool *)
Activate(w) ==
    /\ work[w].pc = "activate"
    /\ IF /\ proc[p(w)] = "up"
          /\ tool[p(w)].manager.status = "missing"
          /\ Matches(w)
       THEN /\ tool' = [tool EXCEPT ![p(w)].manager = Ready(work[w].place, work[w].seen)]
            /\ Goto(w, "platform") /\ UNCHANGED <<stage, mutex>>
       ELSE Answer(w) /\ UNCHANGED tool
    /\ FilesStay /\ WorldStays /\ UNCHANGED <<proc, installed>>

(* Set.ActivateTool *)
ActivatePlatform(w) ==
    /\ work[w].pc = "platform"
    /\ tool' = [tool EXCEPT ![p(w)].platform = Ready(work[w].place, work[w].seen)]
    /\ Goto(w, "catalog")
    /\ FilesStay /\ WorldStays /\ UNCHANGED <<stage, proc, mutex, installed>>

(* taskCatalog.refresh, and the installer's own snapshot. *)
RefreshCatalog(w) ==
    /\ work[w].pc = "catalog"
    /\ LET s == Ready(work[w].place, work[w].seen)
       IN  tool' = [tool EXCEPT ![p(w)].catalog = s, ![p(w)].installer = s]
    /\ installed' = installed \cup {work[w].place}
    /\ Answer(w)
    /\ FilesStay /\ WorldStays /\ UNCHANGED proc

-----------------------------------------------------------------------------
(* The world *)

(* The program's context ends: the run manager accepts nothing more. *)
Close(q) ==
    /\ proc[q] = "up"
    /\ proc' = [proc EXCEPT ![q] = "closed"]
    /\ FilesStay /\ WorldStays /\ UNCHANGED <<stage, mutex, tool, work, installed>>

(* The process ends at any moment; its staging files stay. *)
Exit(q) ==
    /\ proc[q] # "down"
    /\ proc' = [proc EXCEPT ![q] = "down"]
    /\ mutex' = [mutex EXCEPT ![q] = "none"]
    /\ tool' = [tool EXCEPT ![q] = [installer |-> Missing, manager |-> Missing,
                                    platform |-> Missing, catalog |-> Missing]]
    /\ debris' = [l \in Places |->
                    IF \E w \in Workers : p(w) = q /\ stage[w].content # "none" /\ stage[w].place = l
                    THEN "young" ELSE debris[l]]
    /\ stage' = [w \in Workers |-> IF p(w) = q THEN NoStage ELSE stage[w]]
    /\ work' = [w \in Workers |-> IF p(w) = q THEN Idle ELSE work[w]]
    /\ WorldStays /\ UNCHANGED <<file, files, saved, installed>>

(* An hour passes over a staging file, of a machine asleep too. *)
Age ==
    /\ \/ \E l \in Places : debris[l] = "young" /\ debris' = [debris EXCEPT ![l] = "aged"]
                                                /\ UNCHANGED stage
       \/ \E w \in Workers : /\ stage[w].content # "none" /\ ~stage[w].aged
                             /\ stage' = [stage EXCEPT ![w].aged = TRUE] /\ UNCHANGED debris
    /\ WorldStays /\ UNCHANGED <<file, files, saved, proc, mutex, tool, work, installed>>

(* External: somebody places, replaces or removes a file, or moves the      *)
(* custom root out of the home directory or back.                           *)
Outside ==
    /\ outside < MaxOutside /\ outside' = outside + 1
    /\ \/ \E t \in Touched : Put(t[1], t[2], FALSE) /\ UNCHANGED rootOK
       \/ \E t \in Touched : /\ file[t[1]] # NoFile
                             /\ file' = [file EXCEPT ![t[1]] = NoFile]
                             /\ UNCHANGED <<files, rootOK>>
       \/ rootOK' = ~rootOK /\ UNCHANGED <<file, files>>
    /\ UNCHANGED <<stage, debris, saved, starts, proc, mutex, tool, work, installed, owed>>

Init ==
    /\ file = [l \in Places |-> NoFile]
    /\ stage = [w \in Workers |-> NoStage]
    /\ debris = [l \in Places |-> "none"]
    /\ saved = FALSE /\ rootOK = TRUE
    /\ files = 0 /\ starts = 0 /\ outside = 0
    /\ proc = [q \in Procs |-> "down"]
    /\ mutex = [q \in Procs |-> "none"]
    /\ tool = [q \in Procs |-> [installer |-> Missing, manager |-> Missing,
                                platform |-> Missing, catalog |-> Missing]]
    /\ work = [w \in Workers |-> Idle]
    /\ installed = {}
    /\ owed = [q \in Procs |-> {}]

(* ConjurProvisioner.Ensure takes at startup the steps EnsureAt takes in a  *)
(* request, in the same order.                                              *)
Ensure(w) ==
    Check(w) \/ Remove(w) \/ Stage(w) \/ Download(w) \/ Rename(w) \/ Verify(w)

(* Resolver.Discover, and the activate function of app.Run. *)
Discover(w) == Resolve(w) \/ Search(w) \/ Capture(w) \/ Probe(w)
Publish(w) == Activate(w) \/ ActivatePlatform(w) \/ RefreshCatalog(w)

(* InstallTool goes through all of them, RefreshTool through Discover and   *)
(* Publish.                                                                 *)
Step(w) == Discover(w) \/ Ensure(w) \/ Save(w) \/ Publish(w)

Next ==
    \/ \E w \in Workers : \/ \E op \in {"start", "install", "refresh"} : Begin(w, op, "cache")
                          \/ Begin(w, "install", "custom")
                          \/ Lock(w) \/ Step(w)
    \/ \E q \in Procs : Close(q) \/ Exit(q)
    \/ Age \/ Outside

Spec == Init /\ [][Next]_vars

-----------------------------------------------------------------------------
(* Properties *)

(* Every variable keeps its type. *)
TypeOK ==
    LET States == [status : {"missing", "unready", "ready"}, place : Places \cup {"none"},
                   file : Files \cup {NoFile}]
    IN  /\ file \in [Places -> Files \cup {NoFile}]
        /\ stage \in [Workers -> [content : {"none", "partial", "pinned"}, place : Managed,
                                  aged : BOOLEAN]]
        /\ debris \in [Places -> {"none", "young", "aged"}]
        /\ saved \in BOOLEAN /\ rootOK \in BOOLEAN
        /\ files \in 0..MaxFiles /\ starts \in 0..MaxStarts /\ outside \in 0..MaxOutside
        /\ proc \in [Procs -> {"down", "starting", "up", "closed"}]
        /\ mutex \in [Procs -> Workers \cup {"none"}]
        /\ \A q \in Procs : \A part \in DOMAIN tool[q] : tool[q][part] \in States
        /\ \A w \in Workers : work[w].place \in Places /\ work[w].seen \in Files \cup {NoFile}
        /\ installed \subseteq Places /\ owed \in [Procs -> SUBSET Places]

(* A tool is published to the run manager, then to its platform, then to    *)
(* the catalog: whatever the browser is offered the manager can plan, and   *)
(* whenever no installation is in progress all of them, and the installer's *)
(* own snapshot, agree, after every failure and cancellation too.  A mutex  *)
(* kept by a request that was answered would refuse every later one.        *)
PublishedTogether ==
    \A q \in Procs :
        /\ tool[q].catalog.status = "ready" =>
              tool[q].catalog = tool[q].platform /\ tool[q].platform = tool[q].manager
        /\ mutex[q] = "none" =>
              Cardinality({tool[q].installer, tool[q].manager, tool[q].platform, tool[q].catalog}) = 1
        /\ mutex[q] # "none" =>
              p(mutex[q]) = q /\ work[mutex[q]].pc \notin {"idle", "lock"}

(* What an installation activates has the bytes the pack pins, although     *)
(* others may replace the file at any moment after it was verified          *)
(* (InstallTool compares the identity that discovery captured).             *)
InstalledIsPinned ==
    \A w \in Workers :
        (work[w].op = "install" /\ work[w].pc \in {"save", "activate", "platform", "catalog"}) =>
            work[w].seen.content = "pinned"

(* No interleaving of installers, crashes and clean-ups puts anything but   *)
(* the reviewed bytes into a managed place (download, extract, rename).     *)
CacheOnlyPinned ==
    \A l \in Places : (file[l] # NoFile /\ file[l].ours) => file[l].content = "pinned"

(* However installers, crashes, clean-ups and other programs interleave,    *)
(* what is in a managed place and what is activated are the bytes the pack  *)
(* pins.                                                                    *)
OnlyPinned == TypeOK /\ InstalledIsPinned /\ CacheOnlyPinned

(* A process started after an installation was answered "ready" does not    *)
(* find the tool missing, if nobody else touched the files: the location is *)
(* on disk before the answer, whatever crashed in between.                  *)
RestartFindsTool ==
    outside = 0 =>
        \A q \in Procs : (proc[q] = "up" /\ owed[q] # {}) => tool[q].manager.status # "missing"
=============================================================================
