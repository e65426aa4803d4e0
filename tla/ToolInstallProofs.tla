------------------------- MODULE ToolInstallProofs -------------------------
(***************************************************************************)
(* Proofs about ToolInstall, for any number of processes, requests, search *)
(* directories and changes made by others.  A request that holds the       *)
(* installer's mutex is the only one of its process that publishes; what it *)
(* publishes was compared with the pack after its identity was captured;   *)
(* and as long as nobody else touches the files, none that was installed   *)
(* is ever removed.                                                        *)
(***************************************************************************)
EXTENDS ToolInstall, FiniteSetTheorems, TLAPS

States == [status : {"missing", "unready", "ready"}, place : Places \cup {"none"},
           file : Files \cup {NoFile}]

Parts == [installer : States, manager : States, platform : States, catalog : States]

Finding   == {"search", "capture", "probe"}
Ensuring  == {"check", "remove", "stage", "download", "rename", "verify"}
Publishing == {"activate", "platform", "catalog"}
Steps == {"idle", "lock", "resolve", "save"} \cup Finding \cup Ensuring \cup Publishing

Jobs == [pc : Steps, op : {"none", "start", "install", "refresh"}, place : Places,
         seen : Files \cup {NoFile}]

Stages == [content : {"none", "partial", "pinned"}, place : Managed, aged : BOOLEAN]

Types ==
    /\ file \in [Places -> Files \cup {NoFile}]
    /\ stage \in [Workers -> Stages]
    /\ debris \in [Places -> {"none", "young", "aged"}]
    /\ saved \in BOOLEAN /\ rootOK \in BOOLEAN
    /\ files \in 0..MaxFiles /\ starts \in 0..MaxStarts /\ outside \in 0..MaxOutside
    /\ proc \in [Procs -> {"down", "starting", "up", "closed"}]
    /\ mutex \in [Procs -> Workers \cup {"none"}]
    /\ tool \in [Procs -> Parts]
    /\ work \in [Workers -> Jobs]
    /\ installed \subseteq Places /\ owed \in [Procs -> SUBSET Places]

(* Which steps a startup, an installation and a refresh go through. *)
JobOK(j) ==
    /\ j.op = "none" => j = Idle
    /\ j.op = "start" => j.pc \in {"resolve"} \cup Finding \cup Ensuring
    /\ j.op = "install" => /\ j.pc \in {"lock", "capture", "probe", "save"} \cup Ensuring \cup Publishing
                           /\ j.place \in {"cache", "custom"}
    /\ j.op = "refresh" => /\ j.pc \in {"lock"} \cup Finding \cup Publishing
                           /\ j.pc \in {"capture", "probe"} \cup Publishing =>
                                j.place \in PathDirs \cup FallbackDirs
    /\ j.pc \in Ensuring => j.place \in Managed

(* What is staged is renamed only when it was accepted, and a request has  *)
(* compared what it activates with the pack.                               *)
StagedOK == \A w \in Workers : work[w].pc = "rename" => stage[w].content \in {"none", "pinned"}

Shape == Types /\ (\A w \in Workers : JobOK(work[w])) /\ StagedOK /\ InstalledIsPinned

(* A request past the mutex. *)
Busy(w) == work[w].op \in {"install", "refresh"} /\ work[w].pc # "lock"

(* Who may work while a process is down, starting or up.                   *)
Holders ==
    /\ \A w \in Workers :
         /\ proc[p(w)] = "down" => work[w] = Idle
         /\ proc[p(w)] = "starting" => work[w].op \in {"none", "start"}
         /\ proc[p(w)] \in {"up", "closed"} => work[w].op # "start"
         /\ Busy(w) => mutex[p(w)] = w
    /\ \A v, w \in Workers :
         work[v].op = "start" /\ work[w].op = "start" /\ p(v) = p(w) => v = w
    /\ \A q \in Procs : mutex[q] # "none" => p(mutex[q]) = q /\ Busy(mutex[q])

(* How far the holder of the mutex has published its tool. *)
Published(t, j) ==
    LET s == Ready(j.place, j.seen)
    IN  /\ t.installer.status = "missing" /\ t.catalog = t.installer
        /\ t.platform = IF j.pc = "catalog" THEN s ELSE t.installer
        /\ t.manager = IF j.pc \in {"platform", "catalog"} THEN s ELSE t.installer

Agreed(t) == t.manager = t.installer /\ t.platform = t.installer /\ t.catalog = t.installer

PartsInv ==
    \A q \in Procs : IF mutex[q] = "none" THEN Agreed(tool[q])
                     ELSE Published(tool[q], work[mutex[q]])

(* What discovery finds in the managed places. *)
Findable == Verified("cache") \/ (saved /\ Verified("custom")) \/ Verified("legacy")

(* Nobody else has touched the files: what was installed is there, and a   *)
(* startup that owes the tool goes straight to it.                         *)
Untouched ==
    /\ rootOK
    /\ \A l \in Places : file[l] # NoFile => file[l].ours /\ l \in Managed
    /\ installed # {} => Findable
    /\ \A q \in Procs : owed[q] # {} => Findable

OnItsWay(j, owes) ==
    /\ j.pc # "remove"
    /\ j.pc \in {"probe", "save"} \cup Publishing => Verified(j.place)
    /\ j.pc \in Publishing /\ j.place = "custom" => saved
    /\ j.op = "start" /\ owes # {} => /\ j.pc \in {"resolve", "capture", "probe"}
                                      /\ j.pc # "resolve" => Verified(j.place)

FindInv ==
    outside = 0 =>
        /\ Untouched
        /\ \A w \in Workers : OnItsWay(work[w], owed[p(w)])
        /\ \A q \in Procs : (proc[q] \in {"up", "closed"} /\ owed[q] # {}) =>
                                tool[q].manager.status # "missing"

(* The inductive invariant. *)
ToolInv == Shape /\ CacheOnlyPinned /\ Holders /\ PartsInv /\ FindInv

-----------------------------------------------------------------------------
(* What a step does to the worker that takes it *)

(* It goes on to another step of the same request ...                       *)
Moves(w) ==
    \E j \in Jobs :
        /\ work' = [work EXCEPT ![w] = j] /\ JobOK(j) /\ j.op = work[w].op
        /\ j.pc \notin {"idle", "lock", "platform", "catalog"}
        /\ j.op = "install" /\ j.pc \in {"save", "activate"} => j.seen.content = "pinned"
        /\ UNCHANGED <<proc, mutex, tool>>

(* ... or ends the request, or the startup. *)
Ends(w) ==
    \/ work[w].op # "start" /\ Answer(w) /\ UNCHANGED <<proc, tool>>
    \/ work[w].op = "start" /\ \E s \in States : Boot(w, s)

(* Discovery, provisioning and the saving of a location do nothing else to *)
(* the workers, the mutexes and the published tools.                       *)
Ordinary(w) == Discover(w) \/ Ensure(w) \/ Save(w)

(* Every member of the type of a worker's state, by field. *)
LEMMA JobTypes ==
    ASSUME Shape, NEW w \in Workers
    PROVE  /\ work[w] \in Jobs /\ JobOK(work[w]) /\ work[w].place \in Places
           /\ work[w].seen \in Files \cup {NoFile} /\ work[w].pc \in Steps
           /\ p(w) \in Procs /\ stage[w] \in Stages
BY ToolAssumption DEF Shape, Types, Jobs, p

(* States that are published. *)
LEMMA StateTypes ==
    /\ Missing \in States /\ Unready \in States
    /\ Missing.status = "missing" /\ Unready.status = "unready"
    /\ \A l \in Places, f \in Files \cup {NoFile} :
          Ready(l, f) \in States /\ Ready(l, f).status = "ready"
BY DEF Missing, Unready, Ready, States

(* A request or a startup without a result. *)
LEMMA WithoutEnds ==
    ASSUME Shape, NEW w \in Workers, NEW s \in States, Without(w, s)
    PROVE  Ends(w)
BY DEF Without, Ends

(* The moves, one step after the other. *)
LEMMA MoveTo ==
    ASSUME Shape, NEW w \in Workers, NEW pc \in Steps \ {"idle", "lock", "platform", "catalog"},
           Goto(w, pc), UNCHANGED <<proc, mutex, tool>>,
           JobOK([work[w] EXCEPT !.pc = pc]),
           work[w].op = "install" /\ pc \in {"save", "activate"} => work[w].seen.content = "pinned"
    PROVE  Moves(w)
<1>1. PICK old : old = work[w]
  OBVIOUS
<1>2. PICK j : j = [old EXCEPT !.pc = pc]
  OBVIOUS
<1>3. old \in Jobs
  BY <1>1, JobTypes
<1>4. j \in Jobs /\ j.op = old.op /\ j.pc = pc /\ j.seen = old.seen
  BY <1>2, <1>3 DEF Jobs
<1>5. work' = [work EXCEPT ![w] = j]
  BY <1>1, <1>2 DEF Goto
<1>6. JobOK(j)
  BY <1>1, <1>2
<1> QED BY <1>1, <1>4, <1>5, <1>6 DEF Moves

(* Provisioning goes on with the same request for the same place. *)
LEMMA EnsureMoves ==
    ASSUME Shape, NEW w \in Workers, work[w].pc \in Ensuring,
           NEW pc \in Ensuring \cup {"capture"},
           Goto(w, pc), UNCHANGED <<proc, mutex, tool>>
    PROVE  Moves(w)
<1>1. PICK old : old = work[w]
  OBVIOUS
<1>2. PICK j : j = [old EXCEPT !.pc = pc]
  OBVIOUS
<1>3. old \in Jobs /\ JobOK(old) /\ old.pc \in Ensuring
  BY <1>1, JobTypes
<1>4. /\ j \in Jobs /\ j.op = old.op /\ j.pc = pc /\ j.seen = old.seen /\ j.place = old.place
      /\ pc \in Steps
  BY <1>2, <1>3 DEF Jobs, Steps, Ensuring, Finding
<1>5. old.op \in {"start", "install"} /\ old.place \in Managed
  BY <1>3 DEF JobOK, Jobs, Idle, Ensuring, Finding, Publishing
<1>6. JobOK(j)
  BY <1>3, <1>4, <1>5 DEF JobOK, Finding
<1>7. pc \notin {"idle", "lock", "platform", "catalog", "save", "activate"}
  BY DEF Ensuring
<1> QED BY <1>1, <1>2, <1>4, <1>6, <1>7, MoveTo

(* The steps of provisioning. *)
LEMMA EnsureKinds ==
    ASSUME Shape, NEW w \in Workers, Ensure(w)
    PROVE  work[w].pc \in Ensuring /\ (Moves(w) \/ Ends(w))
<1>1. work[w].pc \in Ensuring
  BY DEF Ensure, Check, Remove, Stage, Download, Rename, Verify, Ensuring
<1>2. CASE Check(w)
  <2>1. PICK pc : pc = IF Verified(work[w].place) THEN "capture"
                       ELSE IF file[work[w].place] = NoFile THEN "stage" ELSE "remove"
    OBVIOUS
  <2>2. pc \in Ensuring \cup {"capture"}
    BY <2>1 DEF Ensuring
  <2> QED BY <1>1, <1>2, <2>1, <2>2, EnsureMoves DEF Check
<1>3. CASE Remove(w) \/ Download(w) \/ Rename(w) \/ Verify(w)
  <2>1. \/ \E pc \in {"stage", "rename", "verify", "capture"} :
              Goto(w, pc) /\ UNCHANGED <<proc, mutex, tool>>
        \/ Without(w, Missing)
    BY <1>3 DEF Remove, Download, Rename, Verify
  <2> QED BY <1>1, <2>1, EnsureMoves, WithoutEnds, StateTypes DEF Ensuring
<1>4. CASE Stage(w)
  BY <1>1, <1>4, EnsureMoves DEF Stage, Ensuring
<1> QED BY <1>1, <1>2, <1>3, <1>4 DEF Ensure

(* Two fields of one worker's state, replaced at once. *)
LEMMA PlaceAndStep ==
    ASSUME Shape, NEW w \in Workers, NEW old, old = work[w], NEW l, NEW pc
    PROVE  [work EXCEPT ![w].place = l, ![w].pc = pc]
              = [work EXCEPT ![w] = [old EXCEPT !.place = l, !.pc = pc]]
BY DEF Shape, Types

(* Discovery goes on with a place and with what is there. *)
LEMMA FindMoves ==
    ASSUME Shape, NEW w \in Workers, work[w].pc \in {"resolve"} \cup Finding,
           NEW j \in Jobs, work' = [work EXCEPT ![w] = j], UNCHANGED <<proc, mutex, tool>>,
           j.op = work[w].op, JobOK(j), j.pc \in Finding \cup Ensuring
    PROVE  Moves(w)
BY DEF Moves, Finding, Ensuring

(* The steps of discovery, and the saving of a location. *)
LEMMA DiscoverKinds ==
    ASSUME Shape, NEW w \in Workers, Discover(w) \/ Save(w)
    PROVE  /\ work[w].pc \in {"resolve", "save"} \cup Finding
           /\ Moves(w) \/ Ends(w)
<1>1. PICK old : old = work[w]
  OBVIOUS
<1>2. old \in Jobs /\ JobOK(old)
  BY <1>1, JobTypes
<1>3. CASE Resolve(w)
  <2>1. old.pc = "resolve" /\ old.op = "start"
    BY <1>1, <1>2, <1>3 DEF Resolve, JobOK, Jobs, Idle, Ensuring, Finding, Publishing
  <2>2. UNCHANGED <<proc, mutex, tool>>
    BY <1>3 DEF Resolve
  <2>3. \/ \E l \in Managed : work' = [work EXCEPT ![w].place = l, ![w].pc = "capture"]
        \/ work' = [work EXCEPT ![w].pc = "search"]
    BY <1>3 DEF Resolve, Managed, Goto
  <2>4. \E j : /\ work' = [work EXCEPT ![w] = j]
               /\ (\E l \in Managed : j = [old EXCEPT !.place = l, !.pc = "capture"])
                     \/ j = [old EXCEPT !.pc = "search"]
    <3>1. CASE \E l \in Managed : work' = [work EXCEPT ![w].place = l, ![w].pc = "capture"]
      <4>1. PICK l \in Managed : work' = [work EXCEPT ![w].place = l, ![w].pc = "capture"]
        BY <3>1
      <4>2. work' = [work EXCEPT ![w] = [old EXCEPT !.place = l, !.pc = "capture"]]
        BY <1>1, <4>1, PlaceAndStep
      <4> QED BY <4>2
    <3>2. CASE work' = [work EXCEPT ![w].pc = "search"]
      BY <1>1, <3>2
    <3> QED BY <2>3, <3>1, <3>2
  <2>5. PICK j : /\ work' = [work EXCEPT ![w] = j]
                 /\ (\E l \in Managed : j = [old EXCEPT !.place = l, !.pc = "capture"])
                     \/ j = [old EXCEPT !.pc = "search"]
    BY <2>4
  <2>6. j \in Jobs /\ j.op = "start" /\ j.pc \in {"capture", "search"}
    BY <1>2, <2>1, <2>5 DEF Jobs, Steps, Finding, Places
  <2>7. JobOK(j)
    BY <2>6 DEF JobOK, Finding, Ensuring
  <2> QED BY <1>1, <2>1, <2>2, <2>5, <2>6, <2>7, FindMoves DEF Finding
<1>4. CASE Search(w)
  <2>1. old.pc = "search" /\ old.op \in {"start", "refresh"}
    BY <1>1, <1>2, <1>4 DEF Search, JobOK, Jobs, Idle, Ensuring, Finding, Publishing
  <2>2. CASE Without(w, IF Candidates = {} THEN Missing ELSE Unready)
    <3>1. PICK s : s = IF Candidates = {} THEN Missing ELSE Unready
      OBVIOUS
    <3> QED BY <1>1, <2>1, <2>2, <3>1, WithoutEnds, StateTypes DEF Finding
  <2>3. CASE /\ Cardinality(Candidates) = 1
             /\ work' = [work EXCEPT ![w].place = CHOOSE l \in Candidates : TRUE, ![w].pc = "capture"]
             /\ UNCHANGED <<stage, proc, mutex, tool>>
    <3>1. Candidates \subseteq PathDirs \cup FallbackDirs
      BY DEF Candidates, Present
    <3>2. Candidates # {}
      BY <2>3, FS_EmptySet
    <3>3. PICK c : c = CHOOSE l \in Candidates : TRUE
      OBVIOUS
    <3>4. c \in PathDirs \cup FallbackDirs /\ c \in Places
      BY <3>1, <3>2, <3>3 DEF Places
    <3>5. PICK j : j = [old EXCEPT !.place = c, !.pc = "capture"]
      OBVIOUS
    <3>6. work' = [work EXCEPT ![w] = j]
      <4>1. work' = [work EXCEPT ![w].place = c, ![w].pc = "capture"]
        BY <2>3, <3>3
      <4>2. work' = [work EXCEPT ![w] = [old EXCEPT !.place = c, !.pc = "capture"]]
        BY <1>1, <4>1, PlaceAndStep
      <4> QED BY <3>5, <4>2
    <3>7. j \in Jobs /\ j.op = old.op /\ j.pc = "capture" /\ j.place = c
      BY <1>2, <3>4, <3>5 DEF Jobs, Steps, Finding
    <3>8. JobOK(j)
      BY <2>1, <3>4, <3>7 DEF JobOK, Finding, Ensuring
    <3> QED BY <1>1, <2>1, <2>3, <3>6, <3>7, <3>8, FindMoves DEF Finding
  <2>4. CASE /\ work[w].op = "start"
             /\ work' = [work EXCEPT ![w].place = "legacy", ![w].pc = "check"]
             /\ UNCHANGED <<stage, proc, mutex, tool>>
    <3>1. PICK j : j = [old EXCEPT !.place = "legacy", !.pc = "check"]
      OBVIOUS
    <3>2. work' = [work EXCEPT ![w] = j]
      BY <1>1, <2>4, <3>1 DEF Shape, Types
    <3>3. j \in Jobs /\ j.op = "start" /\ j.pc = "check" /\ j.place = "legacy"
      BY <1>1, <1>2, <2>4, <3>1 DEF Jobs, Steps, Ensuring, Places, Managed
    <3>4. JobOK(j)
      BY <3>3 DEF JobOK, Ensuring, Managed
    <3> QED BY <1>1, <2>1, <2>4, <3>2, <3>3, <3>4, FindMoves DEF Finding, Ensuring
  <2> QED BY <1>1, <1>4, <2>1, <2>2, <2>3, <2>4 DEF Search, Finding
<1>5. CASE Capture(w)
  <2>1. old.pc = "capture" /\ old.op \in {"start", "install", "refresh"}
    BY <1>1, <1>2, <1>5 DEF Capture, JobOK, Jobs, Idle
  <2>2. CASE Without(w, Unready)
    BY <1>1, <2>1, <2>2, WithoutEnds, StateTypes DEF Finding
  <2>3. CASE /\ work' = [work EXCEPT ![w].seen = file[work[w].place], ![w].pc = "probe"]
             /\ UNCHANGED <<stage, proc, mutex, tool>>
    <3>1. PICK f : f = file[old.place]
      OBVIOUS
    <3>2. f \in Files \cup {NoFile}
      BY <1>1, <3>1, JobTypes DEF Shape, Types
    <3>3. PICK j : j = [old EXCEPT !.seen = f, !.pc = "probe"]
      OBVIOUS
    <3>4. work' = [work EXCEPT ![w] = j]
      BY <1>1, <2>3, <3>1, <3>3 DEF Shape, Types
    <3>5. j \in Jobs /\ j.op = old.op /\ j.pc = "probe" /\ j.place = old.place
      BY <1>2, <3>2, <3>3 DEF Jobs, Steps, Finding
    <3>6. JobOK(j)
      BY <1>2, <2>1, <3>5 DEF JobOK, Finding, Ensuring, Publishing
    <3> QED BY <1>1, <2>1, <2>3, <3>4, <3>5, <3>6, FindMoves DEF Finding
  <2> QED BY <1>1, <1>5, <2>1, <2>2, <2>3 DEF Capture, Finding
<1>6. CASE Probe(w)
  <2>1. old.pc = "probe" /\ old.op \in {"start", "install", "refresh"}
    BY <1>1, <1>2, <1>6 DEF Probe, JobOK, Jobs, Idle
  <2>2. CASE Without(w, Unready)
    BY <1>1, <2>1, <2>2, WithoutEnds, StateTypes DEF Finding
  <2>3. CASE work[w].op = "start" /\ Boot(w, Ready(work[w].place, work[w].seen))
    <3>1. PICK s : s = Ready(old.place, old.seen)
      OBVIOUS
    <3>2. s \in States
      BY <1>1, <3>1, JobTypes, StateTypes
    <3> QED BY <1>1, <2>1, <2>3, <3>1, <3>2 DEF Ends, Finding
  <2>4. CASE /\ work[w].op # "start" /\ Qualified(w)
             /\ Goto(w, IF work[w].op = "install" /\ work[w].place = "custom"
                        THEN "save" ELSE "activate")
             /\ UNCHANGED <<stage, proc, mutex, tool>>
    <3>1. PICK pc : pc = IF work[w].op = "install" /\ work[w].place = "custom"
                         THEN "save" ELSE "activate"
      OBVIOUS
    <3>2. PICK j : j = [old EXCEPT !.pc = pc]
      OBVIOUS
    <3>3. /\ pc \in {"save", "activate"} /\ old.op \in {"install", "refresh"}
          /\ old.op = "refresh" => pc = "activate"
      BY <1>1, <2>1, <2>4, <3>1
    <3>4. j \in Jobs /\ j.op = old.op /\ j.pc = pc /\ j.place = old.place /\ pc \in Steps
      BY <1>2, <3>2, <3>3 DEF Jobs, Steps, Publishing
    <3>5. JobOK(j)
      BY <1>2, <2>1, <3>3, <3>4 DEF JobOK, Finding, Ensuring, Publishing
    <3>6. old.op = "install" => old.seen.content = "pinned"
      BY <1>1, <2>4 DEF Qualified
    <3> QED BY <1>1, <2>1, <2>4, <3>1, <3>2, <3>3, <3>4, <3>5, <3>6, MoveTo DEF Finding
  <2> QED BY <1>6, <2>2, <2>3, <2>4 DEF Probe
<1>7. CASE Save(w)
  <2>1. old.pc = "save" /\ old.op = "install"
    BY <1>1, <1>2, <1>7 DEF Save, JobOK, Jobs, Idle, Ensuring, Finding, Publishing
  <2>2. CASE Without(w, Missing)
    BY <1>1, <2>1, <2>2, WithoutEnds, StateTypes
  <2>3. CASE Goto(w, "activate") /\ UNCHANGED <<stage, proc, mutex, tool>>
    <3>1. PICK j : j = [old EXCEPT !.pc = "activate"]
      OBVIOUS
    <3>2. j \in Jobs /\ j.op = old.op /\ j.pc = "activate" /\ j.place = old.place
      BY <1>2, <3>1 DEF Jobs, Steps, Publishing
    <3>3. JobOK(j)
      BY <1>2, <2>1, <3>2 DEF JobOK, Finding, Ensuring, Publishing
    <3>4. old.seen.content = "pinned"
      BY <1>1, <2>1 DEF Shape, InstalledIsPinned
    <3> QED BY <1>1, <2>1, <2>3, <3>1, <3>3, <3>4, MoveTo DEF Steps, Publishing
  <2> QED BY <1>7, <2>2, <2>3 DEF Save
<1> QED BY <1>3, <1>4, <1>5, <1>6, <1>7 DEF Discover

-----------------------------------------------------------------------------
(* Types *)

(* The end of a request in the types' terms. *)
LEMMA IdleTypes ==
    /\ Idle \in Jobs /\ JobOK(Idle) /\ Idle.pc = "idle" /\ Idle.op = "none"
    /\ NoStage \in Stages /\ NoStage.content = "none"
BY DEF Idle, Jobs, JobOK, Steps, Places, Managed, NoStage, Stages, Finding, Ensuring, Publishing

(* What an ordinary step leaves of the workers, and of what is published.  *)
LEMMA WorkTypes ==
    ASSUME Shape, NEW w \in Workers, Moves(w) \/ Ends(w)
    PROVE  /\ work' \in [Workers -> Jobs] /\ proc' \in [Procs -> {"down", "starting", "up", "closed"}]
           /\ mutex' \in [Procs -> Workers \cup {"none"}] /\ tool' \in [Procs -> Parts]
           /\ \A u \in Workers : u # w => work'[u] = work[u]
           /\ \A u \in Workers : JobOK(work'[u])
           /\ InstalledIsPinned'
<1>1. /\ work \in [Workers -> Jobs] /\ proc \in [Procs -> {"down", "starting", "up", "closed"}]
      /\ mutex \in [Procs -> Workers \cup {"none"}] /\ tool \in [Procs -> Parts]
      /\ \A u \in Workers : JobOK(work[u])
  BY DEF Shape, Types
<1>2. \A u \in Workers :
        (work[u].op = "install" /\ work[u].pc \in {"save", "activate", "platform", "catalog"}) =>
            work[u].seen.content = "pinned"
  BY DEF Shape, InstalledIsPinned
<1>3. CASE Moves(w)
  <2>1. PICK j \in Jobs :
        /\ work' = [work EXCEPT ![w] = j] /\ JobOK(j) /\ j.op = work[w].op
        /\ j.pc \notin {"idle", "lock", "platform", "catalog"}
        /\ j.op = "install" /\ j.pc \in {"save", "activate"} => j.seen.content = "pinned"
        /\ UNCHANGED <<proc, mutex, tool>>
    BY <1>3 DEF Moves
  <2>2. \A u \in Workers : work'[u] = IF u = w THEN j ELSE work[u]
    BY <1>1, <2>1
  <2>3. \A u \in Workers : JobOK(work'[u])
    BY <1>1, <2>1, <2>2
  <2>4. InstalledIsPinned'
    BY <1>2, <2>1, <2>2 DEF InstalledIsPinned
  <2> QED BY <1>1, <2>1, <2>2, <2>3, <2>4
<1>4. CASE Ends(w)
  <2>1. work' = [work EXCEPT ![w] = Idle]
    BY <1>4 DEF Ends, Boot, Answer
  <2>2. mutex' = [mutex EXCEPT ![p(w)] = IF @ = w THEN "none" ELSE @]
    BY <1>4 DEF Ends, Boot, Answer
  <2>3. mutex' \in [Procs -> Workers \cup {"none"}]
    BY <1>1, <2>2
  <2>4. \A u \in Workers : work'[u] = IF u = w THEN Idle ELSE work[u]
    BY <1>1, <2>1
  <2>5. \A u \in Workers : JobOK(work'[u])
    BY <1>1, <2>4, IdleTypes
  <2>6. InstalledIsPinned'
    BY <1>2, <2>4, IdleTypes DEF InstalledIsPinned
  <2>7. work' \in [Workers -> Jobs]
    BY <1>1, <2>1, IdleTypes
  <2>8. proc' \in [Procs -> {"down", "starting", "up", "closed"}] /\ tool' \in [Procs -> Parts]
    <3>1. CASE UNCHANGED <<proc, tool>>
      BY <1>1, <3>1
    <3>2. CASE \E s \in States : Boot(w, s)
      <4>1. PICK s \in States : Boot(w, s)
        BY <3>2
      <4>2. [installer |-> s, manager |-> s, platform |-> s, catalog |-> s] \in Parts
        BY DEF Parts
      <4> QED BY <1>1, <4>1, <4>2 DEF Boot
    <3> QED BY <1>4, <3>1, <3>2 DEF Ends
  <2> QED BY <2>3, <2>4, <2>5, <2>6, <2>7, <2>8
<1> QED BY <1>3, <1>4

(* What an ordinary step leaves of the staging files. *)
StageStep(w) ==
    /\ stage' \in [Workers -> Stages]
    /\ \A u \in Workers : u # w => stage'[u] \in {stage[u], NoStage}
    /\ work'[w].pc = "rename" => stage'[w].content \in {"none", "pinned"}

(* The staging file goes with the request. *)
LEMMA StageGoes ==
    ASSUME Shape, NEW w \in Workers, work' = [work EXCEPT ![w] = Idle],
           stage' = [stage EXCEPT ![w] = NoStage]
    PROVE  StageStep(w)
<1>1. stage \in [Workers -> Stages] /\ work \in [Workers -> Jobs]
  BY DEF Shape, Types
<1>2. work'[w].pc = "idle"
  BY <1>1, IdleTypes
<1> QED BY <1>1, <1>2, IdleTypes DEF StageStep

(* The staging files stay while discovery works. *)
LEMMA StageStays ==
    ASSUME Shape, NEW w \in Workers, UNCHANGED stage, work'[w].pc # "rename"
    PROVE  StageStep(w)
BY DEF Shape, Types, StageStep

(* Every ordinary step. *)
LEMMA StageKinds ==
    ASSUME Shape, NEW w \in Workers, Ordinary(w) PROVE StageStep(w)
<1>1. stage \in [Workers -> Stages] /\ work \in [Workers -> Jobs]
  BY DEF Shape, Types
<1>2. ASSUME NEW s, Without(w, s) PROVE StageStep(w)
  BY <1>2, StageGoes DEF Without, Boot, Answer
<1>3. ASSUME NEW pc, Goto(w, pc) PROVE work'[w].pc = pc
  <2>1. PICK old : old = work[w]
    OBVIOUS
  <2>2. work' = [work EXCEPT ![w] = [old EXCEPT !.pc = pc]] /\ old \in Jobs
    BY <1>1, <1>3, <2>1 DEF Goto
  <2> QED BY <1>1, <2>2 DEF Jobs
<1>4. ASSUME NEW pc, Goto(w, pc), pc # "rename", UNCHANGED stage PROVE StageStep(w)
  BY <1>3, <1>4, StageStays
<1>5. CASE Resolve(w) \/ Search(w) \/ Capture(w)
  <2>1. CASE \E s : Without(w, s)
    BY <1>2, <2>1
  <2>2. CASE /\ UNCHANGED stage
             /\ \/ Goto(w, "search")
                \/ \E l, pc : pc \in {"capture", "check"}
                                 /\ work' = [work EXCEPT ![w].place = l, ![w].pc = pc]
                \/ \E f : work' = [work EXCEPT ![w].seen = f, ![w].pc = "probe"]
    <3>1. CASE Goto(w, "search")
      BY <1>4, <2>2, <3>1
    <3>2. CASE \E l, pc : pc \in {"capture", "check"}
                             /\ work' = [work EXCEPT ![w].place = l, ![w].pc = pc]
      <4>1. PICK l, pc : pc \in {"capture", "check"}
                            /\ work' = [work EXCEPT ![w].place = l, ![w].pc = pc]
        BY <3>2
      <4>2. PICK old : old = work[w]
        OBVIOUS
      <4>3. work' = [work EXCEPT ![w] = [old EXCEPT !.place = l, !.pc = pc]] /\ old \in Jobs
        BY <1>1, <4>1, <4>2, PlaceAndStep
      <4>4. work'[w].pc = pc
        BY <1>1, <4>3 DEF Jobs
      <4> QED BY <2>2, <4>1, <4>4, StageStays
    <3>3. CASE \E f : work' = [work EXCEPT ![w].seen = f, ![w].pc = "probe"]
      <4>1. PICK f : work' = [work EXCEPT ![w].seen = f, ![w].pc = "probe"]
        BY <3>3
      <4>2. work'[w].pc = "probe"
        BY <1>1, <4>1 DEF Jobs
      <4> QED BY <2>2, <4>2, StageStays
    <3> QED BY <2>2, <3>1, <3>2, <3>3
  <2>3. CASE Resolve(w)
    BY <2>2, <2>3 DEF Resolve
  <2>4. CASE Search(w)
    BY <2>1, <2>2, <2>4 DEF Search
  <2>5. CASE Capture(w)
    BY <2>1, <2>2, <2>5 DEF Capture
  <2> QED BY <1>5, <2>3, <2>4, <2>5
<1>6. CASE Probe(w) \/ Save(w)
  <2>1. CASE Boot(w, Ready(work[w].place, work[w].seen))
    BY <2>1, StageGoes DEF Boot, Answer
  <2>2. CASE \E pc \in {"save", "activate"} : Goto(w, pc) /\ UNCHANGED stage
    BY <1>4, <2>2
  <2>3. CASE \E s : Without(w, s)
    BY <1>2, <2>3
  <2>4. CASE Probe(w)
    BY <2>1, <2>2, <2>3, <2>4 DEF Probe
  <2>5. CASE Save(w)
    BY <2>2, <2>3, <2>5 DEF Save
  <2> QED BY <1>6, <2>4, <2>5
<1>7. CASE Check(w) \/ Remove(w) \/ Verify(w)
  <2>1. \/ \E pc \in {"capture", "stage", "remove"} : Goto(w, pc) /\ UNCHANGED stage
        \/ \E s : Without(w, s)
    BY <1>7 DEF Check, Remove, Verify
  <2> QED BY <1>2, <1>4, <2>1
<1>8. CASE Stage(w)
  <2>1. PICK t : t = [NoStage EXCEPT !.content = "partial", !.place = work[w].place]
    OBVIOUS
  <2>2. work[w].place \in Managed
    BY <1>8, JobTypes DEF JobOK, Ensuring, Stage
  <2>3. t \in Stages
    BY <2>1, <2>2, IdleTypes DEF Stages
  <2>4. \A u \in Workers : stage'[u] = IF u = w THEN t
                                       ELSE IF stage[u].aged /\ stage[u].place = work[w].place
                                            THEN NoStage ELSE stage[u]
    BY <1>8, <2>1 DEF Stage
  <2>5. stage' \in [Workers -> Stages]
    BY <1>1, <1>8, <2>1, <2>3, <2>4, IdleTypes DEF Stage
  <2>6. work'[w].pc = "download"
    BY <1>3, <1>8 DEF Stage
  <2> QED BY <2>4, <2>5, <2>6 DEF StageStep
<1>9. CASE Download(w)
  <2>1. PICK content, inner \in {"pinned", "broken"} :
          LET zipped == Zip /\ work[w].op # "start"
              got == IF zipped THEN inner ELSE content
          IN  IF Accepted(content) /\ (zipped => Extracted(inner))
              THEN /\ stage' = [stage EXCEPT ![w] =
                        IF @.content = "none" THEN @ ELSE [@ EXCEPT !.content = got, !.aged = FALSE]]
                   /\ Goto(w, "rename")
                   /\ UNCHANGED <<proc, mutex, tool>>
              ELSE Without(w, Missing)
    BY <1>9 DEF Download
  <2>2. CASE Without(w, Missing)
    BY <1>2, <2>2
  <2>3. CASE ~Without(w, Missing)
    <3>1. stage' = [stage EXCEPT ![w] =
             IF @.content = "none" THEN @ ELSE [@ EXCEPT !.content = "pinned", !.aged = FALSE]]
      BY <2>1, <2>3 DEF Accepted, Extracted
    <3>2. PICK old, t : old = stage[w] /\ t = (IF old.content = "none" THEN old
                               ELSE [old EXCEPT !.content = "pinned", !.aged = FALSE])
      OBVIOUS
    <3>3. stage' = [stage EXCEPT ![w] = t] /\ old \in Stages
      BY <1>1, <3>1, <3>2
    <3>4. t \in Stages /\ t.content \in {"none", "pinned"}
      BY <3>2, <3>3 DEF Stages
    <3> QED BY <1>1, <3>3, <3>4 DEF StageStep
  <2> QED BY <2>2, <2>3
<1>10. CASE Rename(w)
  <2>1. CASE Without(w, Missing)
    BY <1>2, <2>1
  <2>2. CASE stage' = [stage EXCEPT ![w] = NoStage] /\ Goto(w, "verify")
    <3>1. work'[w].pc = "verify"
      BY <1>3, <2>2
    <3> QED BY <1>1, <2>2, <3>1, IdleTypes DEF StageStep
  <2> QED BY <1>10, <2>1, <2>2 DEF Rename
<1> QED BY <1>5, <1>6, <1>7, <1>8, <1>9, <1>10 DEF Ordinary, Discover, Ensure

(* What an ordinary step does to the files: it renames what was accepted   *)
(* into place, or removes what was not the reviewed copy.                  *)
FileStep(w) ==
    \/ file' = file /\ files' = files
    \/ /\ work[w].pc = "rename" /\ stage[w].content = "pinned" /\ work[w].place \in Managed
       /\ Put(work[w].place, "pinned", TRUE)
    \/ /\ work[w].pc = "remove"
       /\ file' = [file EXCEPT ![work[w].place] = NoFile] /\ files' = files

(* Every ordinary step, apart from the worker that takes it. *)
LEMMA FileKinds ==
    ASSUME Shape, NEW w \in Workers, Ordinary(w)
    PROVE  /\ FileStep(w)
           /\ debris' \in [Places -> {"none", "young", "aged"}] /\ saved' \in BOOLEAN
           /\ saved' = saved \/ saved' = TRUE
           /\ UNCHANGED <<rootOK, starts, outside, owed, installed>>
<1>1. debris \in [Places -> {"none", "young", "aged"}] /\ saved \in BOOLEAN
  BY DEF Shape, Types
<1>2. UNCHANGED <<rootOK, starts, outside, owed, installed>>
  BY DEF Ordinary, Discover, Ensure, Resolve, Search, Capture, Probe, Save, Check, Remove, Stage,
         Download, Rename, Verify, WorldStays
<1>3. CASE Remove(w)
  BY <1>1, <1>2, <1>3 DEF Remove, FileStep
<1>4. CASE Rename(w)
  <2>1. work[w].pc = "rename"
    BY <1>4 DEF Rename
  <2>2. stage[w].content \in {"none", "pinned"}
    BY <2>1 DEF Shape, StagedOK
  <2>3. work[w].place \in Managed
    BY <2>1, JobTypes DEF JobOK, Ensuring
  <2>4. FileStep(w)
    BY <1>4, <2>1, <2>2, <2>3 DEF Rename, FileStep
  <2>5. debris' \in [Places -> {"none", "young", "aged"}] /\ saved' = saved
    BY <1>1, <1>4 DEF Rename
  <2> QED BY <1>1, <1>2, <2>4, <2>5
<1>5. CASE Save(w)
  BY <1>1, <1>2, <1>5 DEF Save, FileStep
<1>6. CASE Stage(w)
  <2>1. file' = file /\ files' = files /\ saved' = saved
    BY <1>6 DEF Stage
  <2>2. debris' \in [Places -> {"none", "young", "aged"}]
    BY <1>1, <1>6 DEF Stage
  <2> QED BY <1>1, <1>2, <2>1, <2>2 DEF FileStep
<1>7. CASE Discover(w) \/ Check(w) \/ Download(w) \/ Verify(w)
  <2>1. FilesStay
    BY <1>7 DEF Discover, Resolve, Search, Capture, Probe, Check, Download, Verify
  <2> QED BY <1>1, <1>2, <2>1 DEF FilesStay, FileStep
<1> QED BY <1>3, <1>4, <1>5, <1>6, <1>7 DEF Ordinary, Ensure

(* A file that is put somewhere. *)
LEMMA PutTypes ==
    ASSUME Shape, NEW l, NEW c \in Contents, NEW o \in BOOLEAN, Put(l, c, o)
    PROVE  /\ file' \in [Places -> Files \cup {NoFile}] /\ files' \in 0..MaxFiles
           /\ \A m \in Places : m # l => file'[m] = file[m]
           /\ l \in Places => /\ file'[l] # NoFile /\ file'[l].content = c /\ file'[l].ours = o
<1>1. PICK f : f = [id |-> files + 1, content |-> c, ours |-> o]
  OBVIOUS
<1>2. files \in Nat /\ files < MaxFiles /\ MaxFiles \in Nat /\ files' = files + 1
  BY ToolAssumption DEF Shape, Types, Put
<1>3. f \in Files /\ f.content = c /\ f.ours = o
  BY <1>1, <1>2 DEF Files
<1>4. f # NoFile
  BY <1>3, FileAssumption
<1>5. file' = [file EXCEPT ![l] = f] /\ file \in [Places -> Files \cup {NoFile}]
  BY <1>1 DEF Put, Made, Shape, Types
<1>6. file' \in [Places -> Files \cup {NoFile}]
  BY <1>3, <1>5
<1>7. files' \in 0..MaxFiles
  BY <1>2
<1>8. \A m \in Places : file'[m] = IF m = l THEN f ELSE file[m]
  BY <1>5
<1> QED BY <1>3, <1>4, <1>6, <1>7, <1>8

(* The reviewed bytes are put into managed places, and nothing else is.    *)
LEMMA FileTypes ==
    ASSUME Shape, CacheOnlyPinned, NEW w \in Workers, FileStep(w)
    PROVE  /\ file' \in [Places -> Files \cup {NoFile}] /\ files' \in 0..MaxFiles
           /\ CacheOnlyPinned'
<1>1. /\ file \in [Places -> Files \cup {NoFile}] /\ files \in 0..MaxFiles
      /\ \A l \in Places : (file[l] # NoFile /\ file[l].ours) => file[l].content = "pinned"
  BY DEF Shape, Types, CacheOnlyPinned
<1>2. CASE file' = file /\ files' = files
  BY <1>1, <1>2 DEF CacheOnlyPinned
<1>3. CASE Put(work[w].place, "pinned", TRUE)
  <2>1. "pinned" \in Contents
    BY DEF Contents
  <2>2. /\ file' \in [Places -> Files \cup {NoFile}] /\ files' \in 0..MaxFiles
        /\ \A m \in Places : m # work[w].place => file'[m] = file[m]
        /\ work[w].place \in Places => file'[work[w].place].content = "pinned"
    BY <1>3, <2>1, PutTypes
  <2>3. CacheOnlyPinned'
    BY <1>1, <2>2 DEF CacheOnlyPinned
  <2> QED BY <2>2, <2>3
<1>4. CASE file' = [file EXCEPT ![work[w].place] = NoFile] /\ files' = files
  BY <1>1, <1>4 DEF CacheOnlyPinned
<1> QED BY <1>2, <1>3, <1>4 DEF FileStep

(* The shape after a step of one worker, from its parts. *)
LEMMA ShapeFrom ==
    ASSUME Shape, Types', \A u \in Workers : JobOK(work'[u]), InstalledIsPinned', StagedOK'
    PROVE  Shape'
<1>1. \A u \in Workers : JobOK(work[u])'
  OBVIOUS
<1> QED BY <1>1 DEF Shape

(* An ordinary step keeps every variable in its type. *)
LEMMA OrdinaryShape ==
    ASSUME Shape, CacheOnlyPinned, NEW w \in Workers, Ordinary(w)
    PROVE  Shape' /\ CacheOnlyPinned'
<1>1. Moves(w) \/ Ends(w)
  BY EnsureKinds, DiscoverKinds DEF Ordinary
<1>2. /\ work' \in [Workers -> Jobs] /\ proc' \in [Procs -> {"down", "starting", "up", "closed"}]
      /\ mutex' \in [Procs -> Workers \cup {"none"}] /\ tool' \in [Procs -> Parts]
      /\ \A u \in Workers : u # w => work'[u] = work[u]
      /\ \A u \in Workers : JobOK(work'[u])
      /\ InstalledIsPinned'
  BY <1>1, WorkTypes
<1>3. StageStep(w)
  BY StageKinds
<1>4. /\ FileStep(w)
      /\ debris' \in [Places -> {"none", "young", "aged"}] /\ saved' \in BOOLEAN
      /\ UNCHANGED <<rootOK, starts, outside, owed, installed>>
  BY FileKinds
<1>5. file' \in [Places -> Files \cup {NoFile}] /\ files' \in 0..MaxFiles /\ CacheOnlyPinned'
  BY <1>4, FileTypes
<1>6. Types'
  BY <1>2, <1>3, <1>4, <1>5 DEF Shape, Types, StageStep
<1>7. StagedOK'
  <2> SUFFICES ASSUME NEW u \in Workers, work'[u].pc = "rename"
               PROVE  stage'[u].content \in {"none", "pinned"}
    BY DEF StagedOK
  <2>1. CASE u = w
    BY <1>3, <2>1 DEF StageStep
  <2>2. CASE u # w
    <3>1. work[u].pc = "rename" /\ stage'[u] \in {stage[u], NoStage}
      BY <1>2, <1>3, <2>2 DEF StageStep
    <3> QED BY <3>1, IdleTypes DEF Shape, StagedOK
  <2> QED BY <2>1, <2>2
<1> QED BY <1>2, <1>5, <1>6, <1>7, ShapeFrom

(* The worker that takes a step to j, everything else of the shape kept.   *)
LEMMA ShapeOfJob ==
    ASSUME Shape, NEW w \in Workers, NEW j \in Jobs, work' = [work EXCEPT ![w] = j], JobOK(j),
           j.pc # "rename",
           j.op = "install" /\ j.pc \in {"save", "activate", "platform", "catalog"} =>
               j.seen.content = "pinned",
           stage' = stage \/ stage' = [stage EXCEPT ![w] = NoStage],
           proc' \in [Procs -> {"down", "starting", "up", "closed"}],
           mutex' \in [Procs -> Workers \cup {"none"}], tool' \in [Procs -> Parts],
           installed' \subseteq Places, owed' \in [Procs -> SUBSET Places],
           starts' \in 0..MaxStarts, UNCHANGED <<file, debris, files, saved, rootOK, outside>>
    PROVE  Shape'
<1>1. /\ stage \in [Workers -> Stages] /\ work \in [Workers -> Jobs] /\ NoStage \in Stages
      /\ NoStage.content = "none" /\ \A u \in Workers : JobOK(work[u])
  BY IdleTypes DEF Shape, Types
<1>2. \A u \in Workers : work'[u] = IF u = w THEN j ELSE work[u]
  BY <1>1
<1>3. work' \in [Workers -> Jobs] /\ stage' \in [Workers -> Stages]
  BY <1>1
<1>4. \A u \in Workers : JobOK(work'[u])
  BY <1>1, <1>2
<1>5. InstalledIsPinned'
  BY <1>2 DEF Shape, InstalledIsPinned
<1>6. \A u \in Workers : stage'[u] \in {stage[u], NoStage}
  BY <1>1
<1>7. StagedOK'
  BY <1>1, <1>2, <1>6 DEF Shape, StagedOK
<1>8. Types'
  BY <1>3 DEF Shape, Types
<1> QED BY <1>4, <1>5, <1>7, <1>8, ShapeFrom

(* A startup begins, or a request. *)
LEMMA BeginShape ==
    ASSUME Shape, NEW w \in Workers, NEW op \in {"start", "install", "refresh"},
           NEW l \in {"cache", "custom"}, Begin(w, op, l)
    PROVE  /\ Shape' /\ work[w] = Idle
           /\ \E j \in Jobs : /\ work' = [work EXCEPT ![w] = j] /\ j.op = op /\ j.place = l
                              /\ j.pc = IF op = "start" THEN "resolve" ELSE "lock"
<1>1. PICK j : j = [Idle EXCEPT !.op = op, !.place = l, !.pc = IF op = "start" THEN "resolve" ELSE "lock"]
  OBVIOUS
<1>2. /\ j \in Jobs /\ j.op = op /\ j.place = l /\ j.pc = (IF op = "start" THEN "resolve" ELSE "lock")
  BY <1>1, IdleTypes DEF Jobs, Steps, Places, Managed
<1>3. JobOK(j)
  BY <1>2 DEF JobOK, Finding, Ensuring, Publishing
<1>4. work' = [work EXCEPT ![w] = j] /\ work[w] = Idle
  BY <1>1 DEF Begin
<1>5. p(w) \in Procs /\ installed \subseteq Places
  BY JobTypes DEF Shape, Types
<1>6. /\ proc' \in [Procs -> {"down", "starting", "up", "closed"}] /\ owed' \in [Procs -> SUBSET Places]
      /\ starts' \in 0..MaxStarts
  BY <1>5, ToolAssumption DEF Begin, Shape, Types
<1>7. /\ UNCHANGED <<stage, mutex, tool, installed, file, debris, files, saved, rootOK, outside>>
  BY DEF Begin, FilesStay
<1>8. Shape'
  BY <1>2, <1>3, <1>4, <1>6, <1>7, ShapeOfJob DEF Shape, Types
<1> QED BY <1>2, <1>4, <1>8

(* The mutex is taken, or the request refused. *)
LEMMA LockShape ==
    ASSUME Shape, NEW w \in Workers, Lock(w)
    PROVE  /\ Shape' /\ work[w].pc = "lock" /\ work[w].op \in {"install", "refresh"}
           /\ mutex[p(w)] = "none"
           /\ UNCHANGED <<file, files, saved, rootOK, outside, owed, installed, proc, tool>>
           /\ \/ work' = [work EXCEPT ![w] = Idle] /\ UNCHANGED mutex
              \/ /\ mutex' = [mutex EXCEPT ![p(w)] = w] /\ tool[p(w)].installer.status = "missing"
                 /\ \E j \in Jobs : /\ work' = [work EXCEPT ![w] = j] /\ j.op = work[w].op
                                    /\ j.pc \in {"check", "search"}
<1>1. PICK old : old = work[w]
  OBVIOUS
<1>2. old \in Jobs /\ JobOK(old) /\ old.pc = "lock"
  BY <1>1, JobTypes DEF Lock
<1>3. old.op \in {"install", "refresh"}
  BY <1>2 DEF JobOK, Jobs, Idle, Finding, Ensuring, Publishing
<1>4. UNCHANGED <<file, files, saved, rootOK, outside, owed, installed, proc, tool, stage, debris, starts>>
  BY DEF Lock, FilesStay, WorldStays
<1>5. CASE work' = [work EXCEPT ![w] = Idle] /\ UNCHANGED mutex
  <2>1. Shape'
    BY <1>4, <1>5, IdleTypes, ShapeOfJob DEF Shape, Types
  <2> QED BY <1>1, <1>2, <1>3, <1>4, <1>5, <2>1 DEF Lock
<1>6. CASE /\ tool[p(w)].installer.status = "missing" /\ mutex' = [mutex EXCEPT ![p(w)] = w]
           /\ Goto(w, IF work[w].op = "install" THEN "check" ELSE "search")
  <2>1. PICK pc : pc = IF old.op = "install" THEN "check" ELSE "search"
    OBVIOUS
  <2>2. PICK j : j = [old EXCEPT !.pc = pc]
    OBVIOUS
  <2>3. j \in Jobs /\ j.op = old.op /\ j.pc = pc /\ j.place = old.place
    BY <1>2, <2>1, <2>2 DEF Jobs, Steps, Finding, Ensuring
  <2>4. JobOK(j)
    BY <1>2, <1>3, <2>1, <2>3 DEF JobOK, Finding, Ensuring, Publishing, Managed
  <2>5. work' = [work EXCEPT ![w] = j]
    BY <1>1, <1>6, <2>1, <2>2 DEF Goto
  <2>6. mutex' \in [Procs -> Workers \cup {"none"}]
    BY <1>6 DEF Shape, Types
  <2>7. Shape'
    BY <1>4, <2>1, <2>3, <2>4, <2>5, <2>6, ShapeOfJob DEF Shape, Types
  <2> QED BY <1>1, <1>2, <1>3, <1>4, <1>6, <2>1, <2>3, <2>5, <2>7 DEF Lock
<1> QED BY <1>5, <1>6 DEF Lock

(* A tool is published to one more of its users. *)
LEMMA PublishShape ==
    ASSUME Shape, NEW w \in Workers, Publish(w)
    PROVE  /\ Shape' /\ work[w].op \in {"install", "refresh"} /\ work[w].pc \in Publishing
           /\ UNCHANGED <<file, files, saved, rootOK, outside, owed, proc>>
           /\ LET s == Ready(work[w].place, work[w].seen)
                  t == tool[p(w)]
              IN  \/ /\ work[w].pc = "activate"
                     /\ Answer(w) /\ UNCHANGED <<tool, installed>>
                  \/ /\ work[w].pc = "activate" /\ UNCHANGED <<mutex, installed>>
                     /\ tool' = [tool EXCEPT ![p(w)] = [t EXCEPT !.manager = s]]
                     /\ work' = [work EXCEPT ![w] = [work[w] EXCEPT !.pc = "platform"]]
                  \/ /\ work[w].pc = "platform" /\ UNCHANGED <<mutex, installed>>
                     /\ tool' = [tool EXCEPT ![p(w)] = [t EXCEPT !.platform = s]]
                     /\ work' = [work EXCEPT ![w] = [work[w] EXCEPT !.pc = "catalog"]]
                  \/ /\ work[w].pc = "catalog" /\ installed' = installed \cup {work[w].place}
                     /\ tool' = [tool EXCEPT ![p(w)] = [t EXCEPT !.catalog = s, !.installer = s]]
                     /\ Answer(w)
<1>1. PICK old : old = work[w]
  OBVIOUS
<1>2. PICK t : t = tool[p(w)]
  OBVIOUS
<1>3. PICK s : s = Ready(old.place, old.seen)
  OBVIOUS
<1>4. /\ old \in Jobs /\ JobOK(old) /\ old.pc \in Publishing /\ old.place \in Places /\ p(w) \in Procs
  BY <1>1, JobTypes DEF Publish, Activate, ActivatePlatform, RefreshCatalog, Publishing
<1>5. old.op \in {"install", "refresh"}
  BY <1>4 DEF JobOK, Jobs, Idle, Finding, Ensuring, Publishing
<1>6. tool \in [Procs -> Parts] /\ t \in Parts /\ s \in States
  BY <1>1, <1>2, <1>3, <1>4, JobTypes, StateTypes DEF Shape, Types
<1>7. UNCHANGED <<file, files, saved, rootOK, outside, owed, proc, debris, starts>>
  BY DEF Publish, Activate, ActivatePlatform, RefreshCatalog, FilesStay, WorldStays
<1>8. /\ [t EXCEPT !.manager = s] \in Parts /\ [t EXCEPT !.platform = s] \in Parts
      /\ [t EXCEPT !.catalog = s, !.installer = s] \in Parts
  BY <1>6 DEF Parts
<1>9. ASSUME Answer(w), tool' \in [Procs -> Parts], installed' \subseteq Places PROVE Shape'
  <2>1. /\ work' = [work EXCEPT ![w] = Idle] /\ stage' = [stage EXCEPT ![w] = NoStage]
        /\ mutex' = [mutex EXCEPT ![p(w)] = IF @ = w THEN "none" ELSE @]
    BY <1>9 DEF Answer
  <2>2. mutex' \in [Procs -> Workers \cup {"none"}]
    BY <2>1 DEF Shape, Types
  <2> QED BY <1>7, <1>9, <2>1, <2>2, IdleTypes, ShapeOfJob DEF Shape, Types
<1>10. ASSUME NEW pc \in {"platform", "catalog"}, Goto(w, pc), tool' \in [Procs -> Parts],
              UNCHANGED <<stage, mutex, installed>>
       PROVE  Shape' /\ work' = [work EXCEPT ![w] = [old EXCEPT !.pc = pc]]
  <2>1. PICK j : j = [old EXCEPT !.pc = pc]
    OBVIOUS
  <2>2. j \in Jobs /\ j.op = old.op /\ j.pc = pc /\ j.place = old.place /\ j.seen = old.seen
    BY <1>4, <2>1 DEF Jobs, Steps, Publishing
  <2>3. JobOK(j)
    BY <1>4, <1>5, <2>2 DEF JobOK, Finding, Ensuring, Publishing
  <2>4. old.op = "install" => old.seen.content = "pinned"
    BY <1>1, <1>4 DEF Shape, InstalledIsPinned, Publishing
  <2>5. work' = [work EXCEPT ![w] = j]
    BY <1>1, <1>10, <2>1 DEF Goto
  <2> QED BY <1>7, <1>10, <2>1, <2>2, <2>3, <2>4, <2>5, ShapeOfJob DEF Shape, Types
<1>11. CASE Activate(w)
  <2>1. old.pc = "activate" /\ UNCHANGED installed
    BY <1>1, <1>11 DEF Activate
  <2>2. CASE Answer(w) /\ UNCHANGED tool
    <3>1. Shape'
      BY <1>9, <2>1, <2>2 DEF Shape, Types
    <3> QED BY <1>1, <1>4, <1>5, <1>7, <2>1, <2>2, <3>1
  <2>3. CASE /\ tool' = [tool EXCEPT ![p(w)].manager = Ready(work[w].place, work[w].seen)]
             /\ Goto(w, "platform") /\ UNCHANGED <<stage, mutex>>
    <3>1. tool' = [tool EXCEPT ![p(w)] = [t EXCEPT !.manager = s]]
      BY <1>1, <1>2, <1>3, <2>3
    <3>2. tool' \in [Procs -> Parts]
      BY <1>6, <1>8, <3>1
    <3>3. Shape' /\ work' = [work EXCEPT ![w] = [old EXCEPT !.pc = "platform"]]
      BY <1>10, <2>1, <2>3, <3>2
    <3> QED BY <1>1, <1>2, <1>3, <1>4, <1>5, <1>7, <2>1, <2>3, <3>1, <3>3
  <2> QED BY <1>11, <2>2, <2>3 DEF Activate
<1>12. CASE ActivatePlatform(w)
  <2>1. /\ old.pc = "platform" /\ UNCHANGED <<installed, stage, mutex>> /\ Goto(w, "catalog")
        /\ tool' = [tool EXCEPT ![p(w)].platform = Ready(work[w].place, work[w].seen)]
    BY <1>1, <1>12 DEF ActivatePlatform
  <2>2. tool' = [tool EXCEPT ![p(w)] = [t EXCEPT !.platform = s]]
    BY <1>1, <1>2, <1>3, <2>1
  <2>3. tool' \in [Procs -> Parts]
    BY <1>6, <1>8, <2>2
  <2>4. Shape' /\ work' = [work EXCEPT ![w] = [old EXCEPT !.pc = "catalog"]]
    BY <1>10, <2>1, <2>3
  <2> QED BY <1>1, <1>2, <1>3, <1>4, <1>5, <1>7, <2>1, <2>2, <2>4
<1>13. CASE RefreshCatalog(w)
  <2>1. /\ old.pc = "catalog" /\ Answer(w) /\ installed' = installed \cup {old.place}
        /\ tool' = [tool EXCEPT ![p(w)].catalog = s, ![p(w)].installer = s]
    BY <1>1, <1>3, <1>13 DEF RefreshCatalog
  <2>2. tool' = [tool EXCEPT ![p(w)] = [t EXCEPT !.catalog = s, !.installer = s]]
    BY <1>2, <1>4, <1>6, <2>1
  <2>3. tool' \in [Procs -> Parts]
    BY <1>6, <1>8, <2>2
  <2>4. installed' \subseteq Places
    BY <1>4, <2>1 DEF Shape, Types
  <2>5. Shape'
    BY <1>9, <2>1, <2>3, <2>4
  <2> QED BY <1>1, <1>2, <1>3, <1>4, <1>5, <1>7, <2>1, <2>2, <2>5
<1> QED BY <1>11, <1>12, <1>13 DEF Publish

(* The program's context ends. *)
LEMMA CloseShape ==
    ASSUME Shape, NEW q \in Procs, Close(q) PROVE Shape'
<1>1. UNCHANGED <<file, debris, files, saved, rootOK, starts, outside, owed, stage, mutex, tool,
                  work, installed>>
  BY DEF Close, FilesStay, WorldStays
<1>2. proc' \in [Procs -> {"down", "starting", "up", "closed"}]
  BY DEF Close, Shape, Types
<1>3. Types'
  BY <1>1, <1>2 DEF Shape, Types
<1> QED BY <1>1, <1>3 DEF Shape, StagedOK, InstalledIsPinned

(* The process ends: its requests and its staging files are nobody's.       *)
LEMMA ExitShape ==
    ASSUME Shape, NEW q \in Procs, Exit(q) PROVE Shape'
<1>1. UNCHANGED <<file, files, saved, rootOK, starts, outside, owed, installed>>
  BY DEF Exit, WorldStays
<1>2. /\ stage \in [Workers -> Stages] /\ work \in [Workers -> Jobs]
      /\ \A u \in Workers : JobOK(work[u])
      /\ debris \in [Places -> {"none", "young", "aged"}]
  BY DEF Shape, Types
<1>3. [installer |-> Missing, manager |-> Missing, platform |-> Missing, catalog |-> Missing] \in Parts
  BY StateTypes DEF Parts
<1>4. /\ proc' \in [Procs -> {"down", "starting", "up", "closed"}]
      /\ mutex' \in [Procs -> Workers \cup {"none"}]
  BY DEF Exit, Shape, Types
<1>5. tool' \in [Procs -> Parts]
  BY <1>3 DEF Exit, Shape, Types
<1>6. debris' \in [Places -> {"none", "young", "aged"}]
  BY <1>2 DEF Exit
<1>7. \A u \in Workers : /\ work'[u] = IF p(u) = q THEN Idle ELSE work[u]
                         /\ stage'[u] = IF p(u) = q THEN NoStage ELSE stage[u]
  BY DEF Exit
<1>8. work' = [u \in Workers |-> work'[u]] /\ stage' = [u \in Workers |-> stage'[u]]
  BY DEF Exit
<1>9. work' \in [Workers -> Jobs] /\ stage' \in [Workers -> Stages]
  BY <1>2, <1>7, <1>8, IdleTypes
<1>10. \A u \in Workers : JobOK(work'[u])
  BY <1>2, <1>7, IdleTypes
<1>11. InstalledIsPinned'
  BY <1>7, IdleTypes DEF Shape, InstalledIsPinned
<1>12. StagedOK'
  BY <1>7, IdleTypes DEF Shape, StagedOK
<1>13. Types'
  BY <1>1, <1>4, <1>5, <1>6, <1>9 DEF Shape, Types
<1> QED BY <1>10, <1>11, <1>12, <1>13, ShapeFrom

(* Time passes over the staging files. *)
LEMMA AgeShape ==
    ASSUME Shape, Age PROVE Shape'
<1>1. UNCHANGED <<file, files, saved, rootOK, starts, outside, owed, proc, mutex, tool, work, installed>>
  BY DEF Age, WorldStays
<1>2. stage \in [Workers -> Stages] /\ debris \in [Places -> {"none", "young", "aged"}]
  BY DEF Shape, Types
<1>3. debris' \in [Places -> {"none", "young", "aged"}]
  BY <1>2 DEF Age
<1>4. stage' \in [Workers -> Stages] /\ \A u \in Workers : stage'[u].content = stage[u].content
  <2>1. CASE stage' = stage
    BY <1>2, <2>1
  <2>2. CASE \E w \in Workers : stage' = [stage EXCEPT ![w].aged = TRUE]
    <3>1. PICK w \in Workers : stage' = [stage EXCEPT ![w].aged = TRUE]
      BY <2>2
    <3>2. PICK t, s : s = stage[w] /\ t = [s EXCEPT !.aged = TRUE]
      OBVIOUS
    <3>3. stage' = [stage EXCEPT ![w] = t] /\ s \in Stages
      BY <1>2, <3>1, <3>2
    <3>4. t \in Stages /\ t.content = s.content
      BY <3>2, <3>3 DEF Stages
    <3> QED BY <1>2, <3>2, <3>3, <3>4
  <2> QED BY <2>1, <2>2 DEF Age
<1>5. Types'
  BY <1>1, <1>3, <1>4 DEF Shape, Types
<1> QED BY <1>1, <1>4, <1>5 DEF Shape, StagedOK, InstalledIsPinned

(* Others change files, and never one that counts as ours. *)
LEMMA OutsideShape ==
    ASSUME Shape, CacheOnlyPinned, Outside
    PROVE  Shape' /\ CacheOnlyPinned' /\ outside' # 0
<1>1. /\ UNCHANGED <<stage, debris, saved, starts, proc, mutex, tool, work, installed, owed>>
      /\ outside' \in 0..MaxOutside /\ outside' # 0
  BY ToolAssumption DEF Outside, Shape, Types
<1>2. /\ file \in [Places -> Files \cup {NoFile}] /\ files \in 0..MaxFiles /\ rootOK \in BOOLEAN
      /\ \A l \in Places : (file[l] # NoFile /\ file[l].ours) => file[l].content = "pinned"
  BY DEF Shape, Types, CacheOnlyPinned
<1>3. /\ file' \in [Places -> Files \cup {NoFile}] /\ files' \in 0..MaxFiles /\ rootOK' \in BOOLEAN
      /\ CacheOnlyPinned'
  <2>1. CASE \E t \in Touched : Put(t[1], t[2], FALSE) /\ UNCHANGED rootOK
    <3>1. PICK t \in Touched : Put(t[1], t[2], FALSE) /\ UNCHANGED rootOK
      BY <2>1
    <3>2. t[1] \in Places /\ t[2] \in Contents
      BY FileAssumption
    <3>3. PICK l, c : l = t[1] /\ c = t[2]
      OBVIOUS
    <3>4. /\ file' \in [Places -> Files \cup {NoFile}] /\ files' \in 0..MaxFiles
          /\ \A m \in Places : m # l => file'[m] = file[m]
          /\ file'[l].ours = FALSE
      BY <3>1, <3>2, <3>3, PutTypes
    <3>5. CacheOnlyPinned'
      BY <1>2, <3>4 DEF CacheOnlyPinned
    <3> QED BY <1>2, <3>1, <3>4, <3>5
  <2>2. CASE \E t \in Touched : /\ file' = [file EXCEPT ![t[1]] = NoFile]
                                /\ UNCHANGED <<files, rootOK>>
    <3>1. PICK t \in Touched : /\ file' = [file EXCEPT ![t[1]] = NoFile]
                               /\ UNCHANGED <<files, rootOK>>
      BY <2>2
    <3> QED BY <1>2, <3>1 DEF CacheOnlyPinned
  <2>3. CASE rootOK' = ~rootOK /\ UNCHANGED <<file, files>>
    BY <1>2, <2>3 DEF CacheOnlyPinned
  <2> QED BY <2>1, <2>2, <2>3 DEF Outside
<1>4. Types'
  BY <1>1, <1>3 DEF Shape, Types
<1> QED BY <1>1, <1>3, <1>4 DEF Shape, StagedOK, InstalledIsPinned

-----------------------------------------------------------------------------
(* The mutex and what is published under it *)

(* What the invariant says of one process and one worker. *)
LEMMA HolderFacts ==
    ASSUME Shape, Holders, NEW w \in Workers
    PROVE  /\ p(w) \in Procs
           /\ Busy(w) => mutex[p(w)] = w /\ mutex[p(w)] # "none" /\ proc[p(w)] \in {"up", "closed"}
           /\ work[w].op = "start" => proc[p(w)] = "starting" /\ mutex[p(w)] = "none"
           /\ mutex[p(w)] = w => Busy(w)
<1>1. p(w) \in Procs /\ w # "none"
  BY JobTypes, FileAssumption
<1>2. proc[p(w)] \in {"down", "starting", "up", "closed"} /\ mutex[p(w)] \in Workers \cup {"none"}
  BY <1>1 DEF Shape, Types
<1>3. Busy(w) => mutex[p(w)] = w /\ proc[p(w)] \in {"up", "closed"}
  BY <1>2, IdleTypes DEF Holders, Busy
<1>4. mutex[p(w)] = w => Busy(w)
  BY <1>1 DEF Holders
<1>5. work[w].op = "start" => proc[p(w)] = "starting" /\ mutex[p(w)] = "none"
  <2> SUFFICES ASSUME work[w].op = "start" PROVE proc[p(w)] = "starting" /\ mutex[p(w)] = "none"
    OBVIOUS
  <2>1. proc[p(w)] = "starting"
    BY <1>2, IdleTypes DEF Holders
  <2>2. ASSUME mutex[p(w)] # "none" PROVE FALSE
    <3>1. PICK v : v = mutex[p(w)]
      OBVIOUS
    <3>2. v \in Workers /\ p(v) = p(w) /\ Busy(v)
      BY <1>1, <1>2, <2>2, <3>1 DEF Holders
    <3> QED BY <2>1, <3>2 DEF Holders, Busy
  <2> QED BY <2>1, <2>2
<1> QED BY <1>1, <1>3, <1>4, <1>5

(* A step inside a request changes neither. *)
LEMMA MovesHold ==
    ASSUME Shape, Holders, PartsInv, NEW w \in Workers, Moves(w),
           work[w].pc \notin {"idle", "lock"} \cup Publishing
    PROVE  Holders' /\ PartsInv'
<1>1. PICK j \in Jobs :
        /\ work' = [work EXCEPT ![w] = j] /\ JobOK(j) /\ j.op = work[w].op
        /\ j.pc \notin {"idle", "lock", "platform", "catalog"}
        /\ UNCHANGED <<proc, mutex, tool>>
  BY DEF Moves
<1>2. \A u \in Workers : work'[u] = IF u = w THEN j ELSE work[u]
  BY <1>1 DEF Shape, Types
<1>3. work[w].op # "none" /\ work[w] # Idle
  BY JobTypes, IdleTypes DEF JobOK
<1>4. \A u \in Workers : work'[u].op = work[u].op /\ (Busy(u)' <=> Busy(u))
  BY <1>1, <1>2 DEF Busy
<1>5. \A u \in Workers : work[u] = Idle => work'[u] = Idle
  BY <1>2, <1>3
<1>6. Holders'
  <2>1. \A q \in Procs : mutex[q] # "none" => p(mutex[q]) = q /\ Busy(mutex[q]) /\ mutex[q] \in Workers
    BY DEF Holders, Shape, Types
  <2>2. \A q \in Procs : mutex'[q] # "none" => p(mutex'[q]) = q /\ Busy(mutex[q])'
    BY <1>1, <1>4, <2>1
  <2> QED BY <1>1, <1>4, <1>5, <2>2 DEF Holders, p
<1>7. PartsInv'
  <2> SUFFICES ASSUME NEW q \in Procs
               PROVE  IF mutex[q] = "none" THEN Agreed(tool[q])
                      ELSE Published(tool[q], work'[mutex[q]])
    BY <1>1 DEF PartsInv
  <2>1. CASE mutex[q] = "none"
    BY <2>1 DEF PartsInv
  <2>2. CASE mutex[q] # "none"
    <3>1. mutex[q] \in Workers /\ Published(tool[q], work[mutex[q]])
      BY <2>2 DEF PartsInv, Shape, Types
    <3>2. CASE mutex[q] # w
      BY <1>2, <2>2, <3>1, <3>2
    <3>3. CASE mutex[q] = w
      <4>1. work'[w].pc \notin {"platform", "catalog"} /\ work[w].pc \notin {"platform", "catalog"}
        BY <1>1, <1>2 DEF Publishing
      <4> QED BY <2>2, <3>1, <3>3, <4>1 DEF Published
    <3> QED BY <3>2, <3>3
  <2> QED BY <2>1, <2>2
<1> QED BY <1>6, <1>7

(* A request is answered: unless it published something, or everything, all *)
(* agree as they did before it.                                            *)
LEMMA AnswerHolds ==
    ASSUME Shape, Holders, PartsInv, NEW w \in Workers, Busy(w), Answer(w), UNCHANGED proc,
           NEW t \in Parts, tool' = [tool EXCEPT ![p(w)] = t], Agreed(t)
    PROVE  Holders' /\ PartsInv'
<1>1. /\ work' = [work EXCEPT ![w] = Idle]
      /\ mutex' = [mutex EXCEPT ![p(w)] = IF @ = w THEN "none" ELSE @]
  BY DEF Answer
<1>2. p(w) \in Procs /\ mutex[p(w)] = w
  BY HolderFacts
<1>3. \A u \in Workers : work'[u] = IF u = w THEN Idle ELSE work[u]
  BY <1>1 DEF Shape, Types
<1>4. \A q \in Procs : /\ mutex'[q] = IF q = p(w) THEN "none" ELSE mutex[q]
                       /\ tool'[q] = IF q = p(w) THEN t ELSE tool[q]
  BY <1>1, <1>2 DEF Shape, Types
<1>5. ASSUME NEW q \in Procs, q # p(w), mutex[q] # "none"
      PROVE  mutex[q] \in Workers /\ mutex[q] # w /\ p(mutex[q]) = q /\ Busy(mutex[q])
  BY <1>5 DEF Holders, Shape, Types
<1>6. \A u \in Workers : Busy(u)' => u # w /\ Busy(u)
  BY <1>3, IdleTypes DEF Busy
<1>7. \A u \in Workers : u # w => (Busy(u)' <=> Busy(u))
  BY <1>3 DEF Busy
<1>8. Holders'
  <2>1. ASSUME NEW u \in Workers, Busy(u)' PROVE mutex'[p(u)] = u
    <3>1. Busy(u) /\ u # w /\ mutex[p(u)] = u /\ p(u) \in Procs
      BY <1>6, <2>1, HolderFacts
    <3>2. p(u) # p(w)
      BY <1>2, <3>1
    <3> QED BY <1>4, <3>1, <3>2
  <2>2. ASSUME NEW q \in Procs, mutex'[q] # "none" PROVE p(mutex'[q]) = q /\ Busy(mutex[q])'
    <3>1. q # p(w) /\ mutex'[q] = mutex[q]
      BY <1>4, <2>2
    <3>2. PICK u : u = mutex[q]
      OBVIOUS
    <3>3. u \in Workers /\ u # w /\ p(u) = q /\ Busy(u)
      BY <1>5, <2>2, <3>1, <3>2
    <3>4. Busy(u)'
      BY <1>7, <3>3
    <3>5. mutex'[q] = u
      BY <3>1, <3>2
    <3> QED BY <3>3, <3>4, <3>5 DEF Busy
  <2>3. \A u \in Workers : /\ proc'[p(u)] = "down" => work'[u] = Idle
                           /\ proc'[p(u)] = "starting" => work'[u].op \in {"none", "start"}
                           /\ proc'[p(u)] \in {"up", "closed"} => work'[u].op # "start"
    BY <1>3, IdleTypes DEF Holders
  <2>4. \A u, v \in Workers :
          work'[v].op = "start" /\ work'[u].op = "start" /\ p(v) = p(u) => v = u
    BY <1>3, IdleTypes DEF Holders
  <2> QED BY <2>1, <2>2, <2>3, <2>4 DEF Holders, p
<1>9. PartsInv'
  <2> SUFFICES ASSUME NEW q \in Procs
               PROVE  IF mutex'[q] = "none" THEN Agreed(tool'[q])
                      ELSE Published(tool'[q], work'[mutex'[q]])
    BY DEF PartsInv
  <2>1. CASE q = p(w)
    BY <1>2, <1>4, <2>1
  <2>2. CASE q # p(w)
    <3>1. mutex'[q] = mutex[q] /\ tool'[q] = tool[q]
      BY <1>4, <2>2
    <3>2. mutex[q] # "none" => work'[mutex[q]] = work[mutex[q]]
      BY <1>3, <1>5, <2>2
    <3> QED BY <3>1, <3>2 DEF PartsInv
  <2> QED BY <2>1, <2>2
<1> QED BY <1>8, <1>9

(* A startup ends: everything is built from one snapshot. *)
LEMMA BootHolds ==
    ASSUME Shape, Holders, PartsInv, NEW w \in Workers, work[w].op = "start",
           NEW s \in States, Boot(w, s)
    PROVE  Holders' /\ PartsInv'
<1>1. /\ work' = [work EXCEPT ![w] = Idle] /\ proc' = [proc EXCEPT ![p(w)] = "up"]
      /\ mutex' = [mutex EXCEPT ![p(w)] = IF @ = w THEN "none" ELSE @]
      /\ tool' = [tool EXCEPT ![p(w)] = [installer |-> s, manager |-> s, platform |-> s, catalog |-> s]]
  BY DEF Boot, Answer
<1>2. p(w) \in Procs /\ mutex[p(w)] = "none" /\ proc[p(w)] = "starting" /\ w # "none"
  BY HolderFacts, FileAssumption
<1>3. mutex' = mutex
  BY <1>1, <1>2 DEF Shape, Types
<1>4. \A u \in Workers : work'[u] = IF u = w THEN Idle ELSE work[u]
  BY <1>1 DEF Shape, Types
<1>5. \A q \in Procs : /\ proc'[q] = IF q = p(w) THEN "up" ELSE proc[q]
                       /\ q # p(w) => tool'[q] = tool[q]
  BY <1>1 DEF Shape, Types
<1>6. Agreed(tool'[p(w)])
  BY <1>1, <1>2 DEF Agreed, Shape, Types
<1>7. \A u \in Workers : (Busy(u)' <=> Busy(u)) /\ (u = w => ~Busy(u))
  BY <1>4, IdleTypes DEF Busy
<1>8. ASSUME NEW q \in Procs, mutex[q] # "none"
      PROVE  mutex[q] \in Workers /\ p(mutex[q]) = q /\ Busy(mutex[q]) /\ mutex[q] # w
  <2>1. mutex[q] \in Workers /\ p(mutex[q]) = q /\ Busy(mutex[q])
    BY <1>8 DEF Holders, Shape, Types
  <2> QED BY <1>7, <2>1
<1>9. Holders'
  <2>1. ASSUME NEW u \in Workers
        PROVE  /\ proc'[p(u)] = "down" => work'[u] = Idle
               /\ proc'[p(u)] = "starting" => work'[u].op \in {"none", "start"}
               /\ proc'[p(u)] \in {"up", "closed"} => work'[u].op # "start"
               /\ Busy(u)' => mutex'[p(u)] = u
    <3>1. p(u) \in Procs
      BY HolderFacts
    <3>2. CASE u = w
      BY <1>2, <1>4, <1>5, <1>7, <3>2, IdleTypes
    <3>3. CASE u # w /\ p(u) = p(w)
      <4>1. work[u].op # "start"
        BY <3>3 DEF Holders
      <4> QED BY <1>3, <1>4, <1>5, <1>7, <3>1, <3>3, <4>1 DEF Holders
    <3>4. CASE p(u) # p(w)
      BY <1>3, <1>4, <1>5, <1>7, <3>1, <3>4 DEF Holders
    <3> QED BY <3>2, <3>3, <3>4
  <2>2. ASSUME NEW q \in Procs, mutex'[q] # "none" PROVE p(mutex'[q]) = q /\ Busy(mutex[q])'
    BY <1>3, <1>7, <1>8, <2>2
  <2>3. \A u, v \in Workers :
          work'[v].op = "start" /\ work'[u].op = "start" /\ p(v) = p(u) => v = u
    BY <1>4, IdleTypes DEF Holders
  <2> QED BY <1>3, <2>1, <2>2, <2>3 DEF Holders, p
<1>10. PartsInv'
  <2> SUFFICES ASSUME NEW q \in Procs
               PROVE  IF mutex[q] = "none" THEN Agreed(tool'[q])
                      ELSE Published(tool'[q], work'[mutex[q]])
    BY <1>3 DEF PartsInv
  <2>1. CASE q = p(w)
    BY <1>2, <1>6, <2>1
  <2>2. CASE q # p(w)
    <3>1. mutex[q] # "none" => work'[mutex[q]] = work[mutex[q]]
      BY <1>4, <1>8
    <3> QED BY <1>5, <2>2, <3>1 DEF PartsInv
  <2> QED BY <2>1, <2>2
<1> QED BY <1>9, <1>10

(* An ordinary step. *)
LEMMA OrdinaryHolds ==
    ASSUME Shape, Holders, PartsInv, NEW w \in Workers, Ordinary(w)
    PROVE  Holders' /\ PartsInv'
<1>1. /\ Moves(w) \/ Ends(w)
      /\ work[w].pc \notin {"idle", "lock"} \cup Publishing
  BY EnsureKinds, DiscoverKinds DEF Ordinary, Ensuring, Finding, Publishing
<1>2. CASE Moves(w)
  BY <1>1, <1>2, MovesHold
<1>3. CASE work[w].op # "start" /\ Answer(w) /\ UNCHANGED <<proc, tool>>
  <2>1. Busy(w)
    BY <1>1, <1>3, JobTypes, IdleTypes DEF JobOK, Jobs, Busy
  <2>2. p(w) \in Procs /\ mutex[p(w)] = w /\ w # "none"
    BY <2>1, HolderFacts, FileAssumption
  <2>3. Published(tool[p(w)], work[w])
    BY <2>2 DEF PartsInv
  <2>4. PICK t : t = tool[p(w)]
    OBVIOUS
  <2>5. t \in Parts /\ tool' = [tool EXCEPT ![p(w)] = t] /\ Agreed(t)
    BY <1>1, <1>3, <2>2, <2>3, <2>4 DEF Shape, Types, Published, Agreed, Publishing
  <2> QED BY <1>3, <2>1, <2>5, AnswerHolds
<1>4. CASE work[w].op = "start" /\ \E s \in States : Boot(w, s)
  BY <1>4, BootHolds
<1> QED BY <1>1, <1>2, <1>3, <1>4 DEF Ends

(* One more user learns of the tool, in the order of the program. *)
LEMMA PublishHolds ==
    ASSUME Shape, Holders, PartsInv, NEW w \in Workers, Publish(w)
    PROVE  Holders' /\ PartsInv'
<1>1. PICK j, t, s : j = work[w] /\ t = tool[p(w)] /\ s = Ready(j.place, j.seen)
  OBVIOUS
<1>2. /\ j.op \in {"install", "refresh"} /\ j.pc \in Publishing /\ proc' = proc
      /\ \/ j.pc = "activate" /\ Answer(w) /\ UNCHANGED tool
         \/ /\ j.pc = "activate" /\ UNCHANGED mutex
            /\ tool' = [tool EXCEPT ![p(w)] = [t EXCEPT !.manager = s]]
            /\ work' = [work EXCEPT ![w] = [j EXCEPT !.pc = "platform"]]
         \/ /\ j.pc = "platform" /\ UNCHANGED mutex
            /\ tool' = [tool EXCEPT ![p(w)] = [t EXCEPT !.platform = s]]
            /\ work' = [work EXCEPT ![w] = [j EXCEPT !.pc = "catalog"]]
         \/ /\ j.pc = "catalog" /\ Answer(w)
            /\ tool' = [tool EXCEPT ![p(w)] = [t EXCEPT !.catalog = s, !.installer = s]]
  BY <1>1, PublishShape
<1>3. Busy(w)
  BY <1>1, <1>2 DEF Busy, Publishing
<1>4. p(w) \in Procs /\ mutex[p(w)] = w /\ w # "none"
  BY <1>3, HolderFacts, FileAssumption
<1>5. Published(t, j)
  BY <1>1, <1>4 DEF PartsInv
<1>6. t \in Parts /\ j \in Jobs /\ s \in States
  BY <1>1, <1>4, JobTypes, StateTypes DEF Shape, Types
<1>7. CASE j.pc = "activate" /\ Answer(w) /\ UNCHANGED tool
  <2>1. Agreed(t) /\ tool' = [tool EXCEPT ![p(w)] = t]
    BY <1>1, <1>5, <1>7 DEF Published, Agreed, Shape, Types
  <2> QED BY <1>2, <1>3, <1>6, <1>7, <2>1, AnswerHolds
<1>8. CASE /\ j.pc = "catalog" /\ Answer(w)
           /\ tool' = [tool EXCEPT ![p(w)] = [t EXCEPT !.catalog = s, !.installer = s]]
  <2>1. PICK x : x = [t EXCEPT !.catalog = s, !.installer = s]
    OBVIOUS
  <2>2. t.platform = s /\ t.manager = s
    BY <1>1, <1>5, <1>8 DEF Published
  <2>3. x \in Parts /\ Agreed(x)
    BY <1>6, <2>1, <2>2 DEF Parts, Agreed
  <2> QED BY <1>2, <1>3, <1>8, <2>1, <2>3, AnswerHolds
<1>9. ASSUME NEW i \in Jobs, NEW x \in Parts, i.op = j.op, i.pc \in Publishing,
             work' = [work EXCEPT ![w] = i], tool' = [tool EXCEPT ![p(w)] = x],
             mutex' = mutex, Published(x, i)
      PROVE  Holders' /\ PartsInv'
  <2>1. \A u \in Workers : work'[u] = IF u = w THEN i ELSE work[u]
    BY <1>9 DEF Shape, Types
  <2>2. \A u \in Workers : work'[u].op = work[u].op /\ (Busy(u)' <=> Busy(u))
    BY <1>1, <1>2, <1>9, <2>1 DEF Busy, Publishing
  <2>3. \A u \in Workers : work[u] = Idle => work'[u] = Idle
    BY <1>1, <1>2, <2>1, IdleTypes
  <2>4. \A q \in Procs : mutex[q] # "none" => p(mutex[q]) = q /\ Busy(mutex[q]) /\ mutex[q] \in Workers
    BY DEF Holders, Shape, Types
  <2>5. \A q \in Procs : mutex'[q] # "none" => p(mutex'[q]) = q /\ Busy(mutex[q])'
    BY <1>9, <2>2, <2>4
  <2>6. Holders'
    BY <1>2, <1>9, <2>2, <2>3, <2>5 DEF Holders, p
  <2>7. PartsInv'
    <3> SUFFICES ASSUME NEW q \in Procs
                 PROVE  IF mutex[q] = "none" THEN Agreed(tool'[q])
                        ELSE Published(tool'[q], work'[mutex[q]])
      BY <1>9 DEF PartsInv
    <3>1. CASE q = p(w)
      <4>1. tool'[q] = x /\ work'[mutex[q]] = i
        BY <1>4, <1>9, <2>1, <3>1 DEF Shape, Types
      <4> QED BY <1>4, <1>9, <3>1, <4>1
    <3>2. CASE q # p(w)
      <4>1. tool'[q] = tool[q]
        BY <1>4, <1>9, <3>2 DEF Shape, Types
      <4>2. mutex[q] # "none" => work'[mutex[q]] = work[mutex[q]]
        BY <2>1, <2>4, <3>2
      <4> QED BY <4>1, <4>2 DEF PartsInv
    <3> QED BY <3>1, <3>2
  <2> QED BY <2>6, <2>7
<1>10. CASE /\ j.pc = "activate" /\ UNCHANGED mutex
            /\ tool' = [tool EXCEPT ![p(w)] = [t EXCEPT !.manager = s]]
            /\ work' = [work EXCEPT ![w] = [j EXCEPT !.pc = "platform"]]
  <2>1. PICK i, x : i = [j EXCEPT !.pc = "platform"] /\ x = [t EXCEPT !.manager = s]
    OBVIOUS
  <2>2. /\ i \in Jobs /\ i.op = j.op /\ i.pc = "platform" /\ i.place = j.place /\ i.seen = j.seen
    BY <1>6, <2>1 DEF Jobs, Steps, Publishing
  <2>3. /\ x \in Parts /\ x.manager = s /\ x.platform = t.platform /\ x.catalog = t.catalog
        /\ x.installer = t.installer
    BY <1>6, <2>1 DEF Parts
  <2>4. Published(x, i)
    BY <1>1, <1>5, <1>10, <2>2, <2>3 DEF Published
  <2> QED BY <1>9, <1>10, <2>1, <2>2, <2>3, <2>4 DEF Publishing
<1>11. CASE /\ j.pc = "platform" /\ UNCHANGED mutex
            /\ tool' = [tool EXCEPT ![p(w)] = [t EXCEPT !.platform = s]]
            /\ work' = [work EXCEPT ![w] = [j EXCEPT !.pc = "catalog"]]
  <2>1. PICK i, x : i = [j EXCEPT !.pc = "catalog"] /\ x = [t EXCEPT !.platform = s]
    OBVIOUS
  <2>2. /\ i \in Jobs /\ i.op = j.op /\ i.pc = "catalog" /\ i.place = j.place /\ i.seen = j.seen
    BY <1>6, <2>1 DEF Jobs, Steps, Publishing
  <2>3. /\ x \in Parts /\ x.manager = t.manager /\ x.platform = s /\ x.catalog = t.catalog
        /\ x.installer = t.installer
    BY <1>6, <2>1 DEF Parts
  <2>4. Published(x, i)
    BY <1>1, <1>5, <1>11, <2>2, <2>3 DEF Published
  <2> QED BY <1>9, <1>11, <2>1, <2>2, <2>3, <2>4 DEF Publishing
<1> QED BY <1>2, <1>7, <1>8, <1>10, <1>11

(* A startup or a request begins. *)
LEMMA BeginHolds ==
    ASSUME Shape, Holders, PartsInv, NEW w \in Workers, NEW op \in {"start", "install", "refresh"},
           NEW l \in {"cache", "custom"}, Begin(w, op, l)
    PROVE  Holders' /\ PartsInv'
<1>1. PICK j \in Jobs : /\ work' = [work EXCEPT ![w] = j] /\ j.op = op /\ work[w] = Idle
                        /\ j.pc = IF op = "start" THEN "resolve" ELSE "lock"
  BY BeginShape
<1>2. \A u \in Workers : work'[u] = IF u = w THEN j ELSE work[u]
  BY <1>1 DEF Shape, Types
<1>3. UNCHANGED <<mutex, tool>> /\ p(w) \in Procs
  BY JobTypes DEF Begin
<1>4. CASE op = "start"
  <2>1. proc[p(w)] = "down" /\ proc' = [proc EXCEPT ![p(w)] = "starting"]
    BY <1>4 DEF Begin
  <2>2. \A q \in Procs : proc'[q] = IF q = p(w) THEN "starting" ELSE proc[q]
    BY <2>1 DEF Shape, Types
  <2>3. \A u \in Workers : p(u) = p(w) => work[u] = Idle /\ ~Busy(u) /\ work[u].op = "none"
    BY <2>1, IdleTypes DEF Holders, Busy
  <2>4. \A u \in Workers : Busy(u)' <=> Busy(u)
    BY <1>1, <1>2, <1>4, <2>3 DEF Busy
  <2>5. \A q \in Procs : mutex[q] # "none" => /\ mutex[q] \in Workers /\ p(mutex[q]) = q
                                              /\ Busy(mutex[q]) /\ mutex[q] # w
    <3> SUFFICES ASSUME NEW q \in Procs, mutex[q] # "none"
                 PROVE  mutex[q] \in Workers /\ p(mutex[q]) = q /\ Busy(mutex[q]) /\ mutex[q] # w
      OBVIOUS
    <3>1. mutex[q] \in Workers /\ p(mutex[q]) = q /\ Busy(mutex[q])
      BY DEF Holders, Shape, Types
    <3> QED BY <2>3, <3>1
  <2>6. ASSUME NEW u \in Workers
        PROVE  /\ proc'[p(u)] = "down" => work'[u] = Idle
               /\ proc'[p(u)] = "starting" => work'[u].op \in {"none", "start"}
               /\ proc'[p(u)] \in {"up", "closed"} => work'[u].op # "start"
               /\ Busy(u)' => mutex'[p(u)] = u
    <3>1. p(u) \in Procs
      BY HolderFacts
    <3>2. CASE p(u) = p(w)
      BY <1>1, <1>2, <1>4, <2>2, <2>3, <2>4, <3>1, <3>2
    <3>3. CASE p(u) # p(w)
      BY <1>2, <1>3, <2>2, <2>4, <3>1, <3>3 DEF Holders
    <3> QED BY <3>2, <3>3
  <2>7. \A u, v \in Workers :
          work'[v].op = "start" /\ work'[u].op = "start" /\ p(v) = p(u) => v = u
    BY <1>2, <2>3 DEF Holders
  <2>8. \A q \in Procs : mutex'[q] # "none" => p(mutex'[q]) = q /\ Busy(mutex[q])'
    BY <1>3, <2>4, <2>5
  <2>9. Holders'
    BY <1>3, <2>6, <2>7, <2>8 DEF Holders, p
  <2>10. PartsInv'
    BY <1>2, <1>3, <2>5 DEF PartsInv
  <2> QED BY <2>9, <2>10
<1>5. CASE op # "start"
  <2>1. proc[p(w)] \in {"up", "closed"} /\ UNCHANGED proc
    BY <1>5 DEF Begin
  <2>2. \A u \in Workers : Busy(u)' <=> Busy(u)
    BY <1>1, <1>2, <1>5, IdleTypes DEF Busy
  <2>3. ~Busy(w)
    BY <1>1, IdleTypes DEF Busy
  <2>4. \A q \in Procs : mutex[q] # "none" => /\ mutex[q] \in Workers /\ p(mutex[q]) = q
                                              /\ Busy(mutex[q]) /\ mutex[q] # w
    <3> SUFFICES ASSUME NEW q \in Procs, mutex[q] # "none"
                 PROVE  mutex[q] \in Workers /\ p(mutex[q]) = q /\ Busy(mutex[q]) /\ mutex[q] # w
      OBVIOUS
    <3>1. mutex[q] \in Workers /\ p(mutex[q]) = q /\ Busy(mutex[q])
      BY DEF Holders, Shape, Types
    <3> QED BY <2>3, <3>1
  <2>5. \A u \in Workers : /\ proc'[p(u)] = "down" => work'[u] = Idle
                           /\ proc'[p(u)] = "starting" => work'[u].op \in {"none", "start"}
                           /\ proc'[p(u)] \in {"up", "closed"} => work'[u].op # "start"
                           /\ Busy(u)' => mutex'[p(u)] = u
    BY <1>1, <1>2, <1>3, <1>5, <2>1, <2>2 DEF Holders
  <2>6. \A u, v \in Workers :
          work'[v].op = "start" /\ work'[u].op = "start" /\ p(v) = p(u) => v = u
    BY <1>1, <1>2, <1>5 DEF Holders
  <2>7. \A q \in Procs : mutex'[q] # "none" => p(mutex'[q]) = q /\ Busy(mutex[q])'
    BY <1>3, <2>2, <2>4
  <2>8. Holders'
    BY <1>3, <2>5, <2>6, <2>7 DEF Holders, p
  <2>9. PartsInv'
    BY <1>2, <1>3, <2>4 DEF PartsInv
  <2> QED BY <2>8, <2>9
<1> QED BY <1>4, <1>5

(* The mutex is taken by one request at a time. *)
LEMMA LockHolds ==
    ASSUME Shape, Holders, PartsInv, NEW w \in Workers, Lock(w)
    PROVE  Holders' /\ PartsInv'
<1>1. /\ work[w].pc = "lock" /\ work[w].op \in {"install", "refresh"} /\ mutex[p(w)] = "none"
      /\ UNCHANGED <<proc, tool>>
      /\ \/ work' = [work EXCEPT ![w] = Idle] /\ UNCHANGED mutex
         \/ /\ mutex' = [mutex EXCEPT ![p(w)] = w] /\ tool[p(w)].installer.status = "missing"
            /\ \E j \in Jobs : /\ work' = [work EXCEPT ![w] = j] /\ j.op = work[w].op
                               /\ j.pc \in {"check", "search"}
  BY LockShape
<1>2. p(w) \in Procs /\ w # "none" /\ ~Busy(w)
  BY <1>1, JobTypes, FileAssumption DEF Busy
<1>3. \A q \in Procs : mutex[q] # "none" => /\ mutex[q] \in Workers /\ p(mutex[q]) = q
                                            /\ Busy(mutex[q]) /\ mutex[q] # w
  <2> SUFFICES ASSUME NEW q \in Procs, mutex[q] # "none"
               PROVE  mutex[q] \in Workers /\ p(mutex[q]) = q /\ Busy(mutex[q]) /\ mutex[q] # w
    OBVIOUS
  <2>1. mutex[q] \in Workers /\ p(mutex[q]) = q /\ Busy(mutex[q])
    BY DEF Holders, Shape, Types
  <2> QED BY <1>2, <2>1
<1>4. CASE work' = [work EXCEPT ![w] = Idle] /\ UNCHANGED mutex
  <2>1. \A u \in Workers : work'[u] = IF u = w THEN Idle ELSE work[u]
    BY <1>4 DEF Shape, Types
  <2>2. \A u \in Workers : Busy(u)' <=> Busy(u)
    BY <1>2, <2>1, IdleTypes DEF Busy
  <2>3. \A u \in Workers : /\ proc'[p(u)] = "down" => work'[u] = Idle
                           /\ proc'[p(u)] = "starting" => work'[u].op \in {"none", "start"}
                           /\ proc'[p(u)] \in {"up", "closed"} => work'[u].op # "start"
                           /\ Busy(u)' => mutex'[p(u)] = u
    BY <1>1, <1>4, <2>1, <2>2, IdleTypes DEF Holders
  <2>4. \A u, v \in Workers :
          work'[v].op = "start" /\ work'[u].op = "start" /\ p(v) = p(u) => v = u
    BY <2>1, IdleTypes DEF Holders
  <2>5. \A q \in Procs : mutex'[q] # "none" => p(mutex'[q]) = q /\ Busy(mutex[q])'
    BY <1>3, <1>4, <2>2
  <2>6. Holders'
    BY <1>4, <2>3, <2>4, <2>5 DEF Holders, p
  <2>7. PartsInv'
    BY <1>1, <1>3, <1>4, <2>1 DEF PartsInv
  <2> QED BY <2>6, <2>7
<1>5. CASE /\ mutex' = [mutex EXCEPT ![p(w)] = w] /\ tool[p(w)].installer.status = "missing"
           /\ \E j \in Jobs : /\ work' = [work EXCEPT ![w] = j] /\ j.op = work[w].op
                              /\ j.pc \in {"check", "search"}
  <2>1. PICK j \in Jobs : /\ work' = [work EXCEPT ![w] = j] /\ j.op = work[w].op
                          /\ j.pc \in {"check", "search"}
    BY <1>5
  <2>2. \A u \in Workers : work'[u] = IF u = w THEN j ELSE work[u]
    BY <2>1 DEF Shape, Types
  <2>3. \A q \in Procs : mutex'[q] = IF q = p(w) THEN w ELSE mutex[q]
    BY <1>5 DEF Shape, Types
  <2>4. \A u \in Workers : /\ work'[u].op = work[u].op
                           /\ Busy(u)' <=> (u = w \/ Busy(u))
    BY <1>1, <2>1, <2>2 DEF Busy
  <2>5. \A u \in Workers : work[u] = Idle => work'[u] = Idle
    BY <1>1, <2>2, IdleTypes
  <2>6. ASSUME NEW u \in Workers, Busy(u)' PROVE mutex'[p(u)] = u
    <3>1. CASE u = w
      BY <1>2, <2>3, <3>1
    <3>2. CASE u # w
      <4>1. Busy(u) /\ mutex[p(u)] = u /\ p(u) \in Procs
        BY <2>4, <2>6, <3>2, HolderFacts
      <4>2. p(u) # p(w)
        BY <1>1, <4>1, FileAssumption
      <4> QED BY <2>3, <4>1, <4>2
    <3> QED BY <3>1, <3>2
  <2>7. \A u \in Workers : /\ proc'[p(u)] = "down" => work'[u] = Idle
                           /\ proc'[p(u)] = "starting" => work'[u].op \in {"none", "start"}
                           /\ proc'[p(u)] \in {"up", "closed"} => work'[u].op # "start"
    BY <1>1, <2>4, <2>5 DEF Holders
  <2>8. \A u, v \in Workers :
          work'[v].op = "start" /\ work'[u].op = "start" /\ p(v) = p(u) => v = u
    BY <2>4 DEF Holders
  <2>9. ASSUME NEW q \in Procs, mutex'[q] # "none" PROVE p(mutex'[q]) = q /\ Busy(mutex[q])'
    <3>1. PICK u : u = mutex'[q]
      OBVIOUS
    <3>2. u \in Workers /\ p(u) = q /\ (u = w \/ Busy(u))
      BY <1>3, <2>3, <2>9, <3>1
    <3>3. Busy(u)'
      BY <2>4, <3>2
    <3> QED BY <3>1, <3>2, <3>3 DEF Busy
  <2>10. Holders'
    BY <2>6, <2>7, <2>8, <2>9 DEF Holders, p
  <2>11. PartsInv'
    <3> SUFFICES ASSUME NEW q \in Procs
                 PROVE  IF mutex'[q] = "none" THEN Agreed(tool[q])
                        ELSE Published(tool[q], work'[mutex'[q]])
      BY <1>1 DEF PartsInv
    <3>1. CASE q = p(w)
      <4>1. Agreed(tool[q]) /\ mutex'[q] = w /\ work'[w] = j
        BY <1>1, <1>2, <2>2, <2>3, <3>1 DEF PartsInv
      <4> QED BY <1>2, <1>5, <2>1, <3>1, <4>1 DEF Agreed, Published
    <3>2. CASE q # p(w)
      <4>1. mutex'[q] = mutex[q]
        BY <2>3, <3>2
      <4>2. mutex[q] # "none" => work'[mutex[q]] = work[mutex[q]]
        BY <1>3, <2>2
      <4> QED BY <4>1, <4>2 DEF PartsInv
    <3> QED BY <3>1, <3>2
  <2> QED BY <2>10, <2>11
<1> QED BY <1>1, <1>4, <1>5

(* The context ends, or the process does. *)
LEMMA CloseExitHold ==
    ASSUME Shape, Holders, PartsInv, NEW q \in Procs, Close(q) \/ Exit(q)
    PROVE  Holders' /\ PartsInv'
<1>1. CASE Close(q)
  <2>1. /\ proc[q] = "up" /\ proc' = [proc EXCEPT ![q] = "closed"]
        /\ work' = work /\ mutex' = mutex /\ tool' = tool
    BY <1>1 DEF Close
  <2>2. \A r \in Procs : proc'[r] = IF r = q THEN "closed" ELSE proc[r]
    BY <2>1 DEF Shape, Types
  <2>3. \A u \in Workers : p(u) \in Procs
    BY JobTypes
  <2>4. \A u \in Workers : /\ proc'[p(u)] = "down" => work'[u] = Idle
                           /\ proc'[p(u)] = "starting" => work'[u].op \in {"none", "start"}
                           /\ proc'[p(u)] \in {"up", "closed"} => work'[u].op # "start"
    BY <2>1, <2>2, <2>3 DEF Holders
  <2> QED BY <2>1, <2>4 DEF Holders, PartsInv, Busy, p
<1>2. CASE Exit(q)
  <2>1. /\ proc' = [proc EXCEPT ![q] = "down"] /\ mutex' = [mutex EXCEPT ![q] = "none"]
        /\ tool' = [tool EXCEPT ![q] = [installer |-> Missing, manager |-> Missing,
                                        platform |-> Missing, catalog |-> Missing]]
        /\ work' = [u \in Workers |-> IF p(u) = q THEN Idle ELSE work[u]]
    BY <1>2 DEF Exit
  <2>2. \A r \in Procs : /\ proc'[r] = IF r = q THEN "down" ELSE proc[r]
                         /\ mutex'[r] = IF r = q THEN "none" ELSE mutex[r]
                         /\ tool'[r] = IF r = q THEN [installer |-> Missing, manager |-> Missing,
                                                      platform |-> Missing, catalog |-> Missing]
                                       ELSE tool[r]
    BY <2>1 DEF Shape, Types
  <2>3. \A u \in Workers : work'[u] = IF p(u) = q THEN Idle ELSE work[u]
    BY <2>1
  <2>4. \A u \in Workers : p(u) \in Procs
    BY JobTypes
  <2>5. \A u \in Workers : Busy(u)' <=> (p(u) # q /\ Busy(u))
    BY <2>3, IdleTypes DEF Busy
  <2>6. \A r \in Procs : mutex'[r] # "none" =>
          /\ r # q /\ mutex'[r] = mutex[r] /\ mutex[r] \in Workers /\ p(mutex[r]) = r /\ Busy(mutex[r])
    BY <2>2 DEF Holders, Shape, Types
  <2>7. \A u \in Workers : /\ proc'[p(u)] = "down" => work'[u] = Idle
                           /\ proc'[p(u)] = "starting" => work'[u].op \in {"none", "start"}
                           /\ proc'[p(u)] \in {"up", "closed"} => work'[u].op # "start"
                           /\ Busy(u)' => mutex'[p(u)] = u
    BY <2>2, <2>3, <2>4, <2>5 DEF Holders
  <2>8. \A u, v \in Workers :
          work'[v].op = "start" /\ work'[u].op = "start" /\ p(v) = p(u) => v = u
    BY <2>3, IdleTypes DEF Holders
  <2>9. ASSUME NEW r \in Procs, mutex'[r] # "none" PROVE p(mutex'[r]) = r /\ Busy(mutex[r])'
    <3>1. PICK u : u = mutex[r]
      OBVIOUS
    <3>2. r # q /\ mutex'[r] = u /\ u \in Workers /\ p(u) = r /\ Busy(u)
      BY <2>6, <2>9, <3>1
    <3>3. Busy(u)'
      BY <2>5, <3>2
    <3> QED BY <3>2, <3>3 DEF Busy
  <2>10. Holders'
    BY <2>7, <2>8, <2>9 DEF Holders, p
  <2>11. PartsInv'
    <3> SUFFICES ASSUME NEW r \in Procs
                 PROVE  IF mutex'[r] = "none" THEN Agreed(tool'[r])
                        ELSE Published(tool'[r], work'[mutex'[r]])
      BY DEF PartsInv
    <3>1. CASE r = q
      BY <2>2, <3>1 DEF Agreed
    <3>2. CASE r # q
      <4>1. mutex'[r] # "none" => work'[mutex[r]] = work[mutex[r]]
        BY <2>3, <2>6
      <4> QED BY <2>2, <2>6, <3>2, <4>1 DEF PartsInv
    <3> QED BY <3>1, <3>2
  <2> QED BY <2>10, <2>11
<1> QED BY <1>1, <1>2

-----------------------------------------------------------------------------
(* What is installed is found again *)

(* As long as nobody else touches the files, whatever is in a managed place *)
(* is the reviewed copy.                                                   *)
LEMMA AllVerified ==
    ASSUME CacheOnlyPinned, Untouched, NEW l \in Places, file[l] # NoFile
    PROVE  Verified(l) /\ l \in Managed
BY DEF CacheOnlyPinned, Untouched, Verified

(* The managed places are places. *)
LEMMA ManagedPlaces ==
    /\ "cache" \in Places /\ "custom" \in Places /\ "legacy" \in Places
    /\ \A l \in PathDirs \cup FallbackDirs : l # "custom" /\ l # "cache" /\ l # "legacy"
BY FileAssumption DEF Places, Managed

(* Nothing that was there is gone, and what is found stays found. *)
Grows ==
    /\ \A l \in Places : Verified(l) => Verified(l)'
    /\ saved => saved'
    /\ Findable => Findable'
    /\ \A l \in Places : file'[l] # NoFile => file'[l].ours /\ l \in Managed

(* An ordinary step only adds to the managed places. *)
LEMMA OrdinaryGrows ==
    ASSUME Shape, CacheOnlyPinned, FindInv, outside = 0, NEW w \in Workers, Ordinary(w)
    PROVE  Grows /\ UNCHANGED <<rootOK, owed, installed, outside>>
<1>1. /\ FileStep(w) /\ (saved' = saved \/ saved' = TRUE)
      /\ UNCHANGED <<rootOK, owed, installed, outside>>
  BY FileKinds
<1>2. Untouched /\ work[w].pc # "remove"
  BY DEF FindInv, OnItsWay
<1>3. \A l \in Places : file[l] # NoFile => file[l].ours /\ l \in Managed
  BY <1>2 DEF Untouched
<1>4. /\ \A l \in Places : Verified(l) => Verified(l)'
      /\ \A l \in Places : file'[l] # NoFile => file'[l].ours /\ l \in Managed
  <2>1. CASE file' = file
    BY <1>3, <2>1 DEF Verified
  <2>2. CASE work[w].place \in Managed /\ Put(work[w].place, "pinned", TRUE)
    <3>1. "pinned" \in Contents
      BY DEF Contents
    <3>2. PICK l : l = work[w].place
      OBVIOUS
    <3>3. /\ \A m \in Places : m # l => file'[m] = file[m]
          /\ l \in Places => /\ file'[l] # NoFile /\ file'[l].content = "pinned"
                             /\ file'[l].ours = TRUE
      BY <2>2, <3>1, <3>2, PutTypes
    <3> QED BY <1>3, <2>2, <3>2, <3>3 DEF Verified
  <2> QED BY <1>1, <1>2, <2>1, <2>2 DEF FileStep
<1>5. Findable => Findable'
  BY <1>1, <1>4, ManagedPlaces DEF Findable
<1> QED BY <1>1, <1>4, <1>5 DEF Grows

(* The worker that takes an ordinary step stays on its way. *)
LEMMA OrdinaryWay ==
    ASSUME Shape, CacheOnlyPinned, FindInv, outside = 0, NEW w \in Workers, Ordinary(w)
    PROVE  OnItsWay(work[w], owed[p(w)])'
<1>1. PICK old, o : old = work[w] /\ o = owed[p(w)]
  OBVIOUS
<1>2. old \in Jobs /\ JobOK(old) /\ OnItsWay(old, o) /\ Untouched /\ old.place \in Places
  BY <1>1, JobTypes DEF FindInv
<1>3. Grows /\ owed' = owed /\ rootOK
  BY <1>2, OrdinaryGrows DEF Untouched
<1>4. p(w)' = p(w) /\ owed'[p(w)] = o
  BY <1>1, <1>3 DEF p
<1>5. o # {} => Findable
  BY <1>1, <1>2, JobTypes DEF Untouched
<1>6. work \in [Workers -> Jobs]
  BY DEF Shape, Types
<1>7. ASSUME NEW j, work'[w] = j,
             /\ j.pc # "remove"
             /\ j.pc \in {"probe", "save"} \cup Publishing => Verified(j.place)'
             /\ j.pc \in Publishing /\ j.place = "custom" => saved'
             /\ j.op = "start" /\ o # {} => /\ j.pc \in {"resolve", "capture", "probe"}
                                            /\ j.pc # "resolve" => Verified(j.place)'
      PROVE  OnItsWay(work[w], owed[p(w)])'
  BY <1>4, <1>7 DEF OnItsWay, Verified
<1>8. ASSUME work' = [work EXCEPT ![w] = Idle] PROVE OnItsWay(work[w], owed[p(w)])'
  <2>1. work'[w] = Idle
    BY <1>6, <1>8
  <2> QED BY <1>7, <2>1, IdleTypes DEF Publishing
<1>9. ASSUME NEW s, Without(w, s) PROVE OnItsWay(work[w], owed[p(w)])'
  BY <1>8, <1>9 DEF Without, Boot, Answer
<1>10. CASE Resolve(w)
  <2>1. old.pc = "resolve"
    BY <1>1, <1>10 DEF Resolve
  <2>2. CASE \E l \in Managed : Verified(l) /\ work' = [work EXCEPT ![w].place = l, ![w].pc = "capture"]
    <3>1. PICK l \in Managed : Verified(l) /\ work' = [work EXCEPT ![w].place = l, ![w].pc = "capture"]
      BY <2>2
    <3>2. PICK j : j = [old EXCEPT !.place = l, !.pc = "capture"]
      OBVIOUS
    <3>3. work' = [work EXCEPT ![w] = j]
      BY <1>1, <3>1, <3>2, PlaceAndStep
    <3>4. work'[w] = j /\ j.pc = "capture" /\ j.place = l
      BY <1>2, <1>6, <3>2, <3>3 DEF Jobs
    <3>5. Verified(l)'
      BY <1>3, <3>1 DEF Grows, Places
    <3> QED BY <1>7, <3>4, <3>5 DEF Publishing
  <2>3. CASE Goto(w, "search") /\ ~Findable
    <3>1. PICK j : j = [old EXCEPT !.pc = "search"]
      OBVIOUS
    <3>2. work'[w] = j /\ j.pc = "search"
      BY <1>1, <1>2, <1>6, <2>3, <3>1 DEF Jobs, Goto
    <3> QED BY <1>5, <1>7, <2>3, <3>2 DEF Publishing
  <2>4. /\ ResolveInstalledAt("cache") <=> Verified("cache")
        /\ (Load /\ ResolveInstalledAt("custom")) <=> (saved /\ Verified("custom"))
        /\ ResolveInstalled("legacy") <=> Verified("legacy")
    BY <1>3 DEF ResolveInstalledAt, ResolveInstalled, Load, validateManagedInstallRoot
  <2> QED BY <1>10, <2>2, <2>3, <2>4 DEF Resolve, Findable, Managed
<1>11. CASE Search(w)
  <2>1. old.pc = "search"
    BY <1>1, <1>11 DEF Search
  <2>2. ~(old.op = "start" /\ o # {})
    BY <1>2, <2>1 DEF OnItsWay
  <2>3. CASE \E s : Without(w, s)
    BY <1>9, <2>3
  <2>4. CASE \E l, pc : pc \in {"capture", "check"}
                           /\ work' = [work EXCEPT ![w].place = l, ![w].pc = pc]
    <3>1. PICK l, pc : pc \in {"capture", "check"}
                          /\ work' = [work EXCEPT ![w].place = l, ![w].pc = pc]
      BY <2>4
    <3>2. PICK j : j = [old EXCEPT !.place = l, !.pc = pc]
      OBVIOUS
    <3>3. work' = [work EXCEPT ![w] = j]
      BY <1>1, <3>1, <3>2, PlaceAndStep
    <3>4. work'[w] = j /\ j.pc = pc /\ j.op = old.op
      BY <1>2, <1>6, <3>2, <3>3 DEF Jobs
    <3> QED BY <1>7, <2>2, <3>1, <3>4 DEF Publishing
  <2> QED BY <1>11, <2>3, <2>4 DEF Search
<1>12. CASE Capture(w)
  <2>1. CASE \E s : Without(w, s)
    BY <1>9, <2>1
  <2>2. CASE /\ file[work[w].place] # NoFile
             /\ work' = [work EXCEPT ![w].seen = file[work[w].place], ![w].pc = "probe"]
    <3>1. Verified(old.place)
      BY <1>1, <1>2, <2>2, AllVerified
    <3>2. Verified(old.place)'
      BY <1>2, <1>3, <3>1 DEF Grows
    <3>3. PICK j, f : f = file[old.place] /\ j = [old EXCEPT !.seen = f, !.pc = "probe"]
      OBVIOUS
    <3>4. work' = [work EXCEPT ![w] = j]
      BY <1>1, <1>6, <2>2, <3>3
    <3>5. work'[w] = j /\ j.pc = "probe" /\ j.place = old.place
      BY <1>2, <1>6, <3>3, <3>4 DEF Jobs
    <3> QED BY <1>7, <3>2, <3>5 DEF Publishing
  <2> QED BY <1>12, <2>1, <2>2 DEF Capture
<1>13. ASSUME NEW pc, Goto(w, pc), pc # "remove", ~(old.op = "start" /\ o # {}),
              pc \in {"probe", "save"} \cup Publishing => Verified(old.place),
              pc \in Publishing /\ old.place = "custom" => saved'
       PROVE  OnItsWay(work[w], owed[p(w)])'
  <2>1. PICK j : j = [old EXCEPT !.pc = pc]
    OBVIOUS
  <2>2. work' = [work EXCEPT ![w] = j]
    BY <1>1, <1>13, <2>1 DEF Goto
  <2>3. work'[w] = j /\ j.pc = pc /\ j.place = old.place /\ j.op = old.op
    BY <1>2, <1>6, <2>1, <2>2 DEF Jobs
  <2>4. Verified(old.place) => Verified(old.place)'
    BY <1>2, <1>3 DEF Grows
  <2> QED BY <1>7, <1>13, <2>3, <2>4
<1>14. CASE Probe(w)
  <2>1. old.pc = "probe" /\ Verified(old.place)
    BY <1>1, <1>2, <1>14 DEF Probe, OnItsWay
  <2>2. CASE \E s : Without(w, s)
    BY <1>9, <2>2
  <2>3. CASE Boot(w, Ready(work[w].place, work[w].seen))
    BY <1>8, <2>3 DEF Boot, Answer
  <2>4. CASE /\ work[w].op # "start"
             /\ Goto(w, IF work[w].op = "install" /\ work[w].place = "custom"
                        THEN "save" ELSE "activate")
    <3>1. PICK pc : pc = IF old.op = "install" /\ old.place = "custom" THEN "save" ELSE "activate"
      OBVIOUS
    <3>2. Goto(w, pc)
      BY <1>1, <2>4, <3>1
    <3>3. old.op \in {"install", "refresh"}
      BY <1>1, <1>2, <2>1, <2>4 DEF JobOK, Jobs, Idle
    <3>4. old.op = "refresh" => old.place # "custom"
      BY <1>2, <2>1, ManagedPlaces DEF JobOK
    <3>5. ~(pc \in Publishing /\ old.place = "custom")
      BY <3>1, <3>3, <3>4 DEF Publishing
    <3> QED BY <1>1, <1>13, <2>1, <2>4, <3>1, <3>2, <3>5
  <2> QED BY <1>14, <2>2, <2>3, <2>4 DEF Probe
<1>15. CASE Save(w)
  <2>1. old.pc = "save" /\ Verified(old.place)
    BY <1>1, <1>2, <1>15 DEF Save, OnItsWay
  <2>2. CASE \E s : Without(w, s)
    BY <1>9, <2>2
  <2>3. CASE saved' = TRUE /\ Goto(w, "activate")
    <3>1. ~(old.op = "start" /\ o # {})
      BY <1>2, <2>1 DEF OnItsWay
    <3> QED BY <1>13, <2>1, <2>3, <3>1
  <2> QED BY <1>15, <2>2, <2>3 DEF Save
<1>16. CASE Ensure(w)
  <2>1. old.pc \in Ensuring
    BY <1>1, <1>16, EnsureKinds
  <2>2. ~(old.op = "start" /\ o # {}) /\ old.pc # "remove"
    BY <1>2, <2>1 DEF OnItsWay, Ensuring
  <2>3. CASE \E s : Without(w, s)
    BY <1>9, <2>3
  <2>4. CASE \E pc \in {"stage", "download", "rename", "verify", "capture"} : Goto(w, pc)
    BY <1>13, <2>2, <2>4 DEF Publishing
  <2>5. CASE Check(w)
    <3>1. Goto(w, IF Verified(work[w].place) THEN "capture"
                  ELSE IF file[work[w].place] = NoFile THEN "stage" ELSE "remove")
      BY <2>5 DEF Check
    <3>2. Verified(work[w].place) \/ file[work[w].place] = NoFile
      BY <1>1, <1>2, AllVerified
    <3> QED BY <2>4, <3>1, <3>2
  <2>6. CASE Stage(w) \/ Download(w) \/ Rename(w) \/ Verify(w)
    BY <2>3, <2>4, <2>6 DEF Stage, Download, Rename, Verify
  <2> QED BY <1>1, <1>16, <2>2, <2>5, <2>6 DEF Ensure, Remove
<1> QED BY <1>10, <1>11, <1>12, <1>14, <1>15, <1>16 DEF Ordinary, Discover

(* A startup that owes the tool does not end without it. *)
LEMMA OrdinaryBoots ==
    ASSUME Shape, FindInv, outside = 0, NEW w \in Workers, Ordinary(w)
    PROVE  \/ UNCHANGED <<proc, tool>>
           \/ /\ work[w].op = "start"
              /\ \E s \in States : Boot(w, s) /\ (owed[p(w)] # {} => s.status # "missing")
<1>1. /\ Moves(w) \/ Ends(w)
      /\ work[w].op = "start" /\ owed[p(w)] # {} => work[w].pc \in {"resolve", "capture", "probe"}
  BY EnsureKinds, DiscoverKinds DEF Ordinary, FindInv, OnItsWay
<1>2. CASE UNCHANGED <<proc, tool>>
  BY <1>2
<1>3. CASE work[w].op = "start" /\ \E s \in States : Boot(w, s)
  <2>1. CASE owed[p(w)] = {}
    BY <1>3, <2>1
  <2>2. CASE owed[p(w)] # {}
    <3>1. work[w].pc \in {"resolve", "capture", "probe"}
      BY <1>1, <1>3, <2>2
    <3>2. Resolve(w) \/ Capture(w) \/ Probe(w)
      BY <3>1 DEF Ordinary, Discover, Ensure, Search, Save, Check, Remove, Stage, Download, Rename, Verify
    <3>3. \/ UNCHANGED <<proc, tool>> \/ Boot(w, Unready)
          \/ Boot(w, Ready(work[w].place, work[w].seen))
      BY <1>3, <3>2 DEF Resolve, Capture, Probe, Without
    <3>4. PICK s : s = Ready(work[w].place, work[w].seen)
      OBVIOUS
    <3>5. s \in States /\ s.status = "ready" /\ Unready \in States /\ Unready.status = "unready"
      BY <3>4, JobTypes, StateTypes
    <3> QED BY <1>3, <3>3, <3>4, <3>5
  <2> QED BY <2>1, <2>2
<1> QED BY <1>1, <1>2, <1>3 DEF Moves, Ends

(* The other workers, when only one of them moved. *)
LEMMA OthersOnTheirWay ==
    ASSUME Shape, FindInv, outside = 0, Grows, NEW u \in Workers, work'[u] = work[u],
           owed'[p(u)] = owed[p(u)]
    PROVE  OnItsWay(work[u], owed[p(u)])'
<1>1. OnItsWay(work[u], owed[p(u)]) /\ work[u].place \in Places
  BY JobTypes DEF FindInv
<1>2. PICK j, o : j = work[u] /\ o = owed[p(u)]
  OBVIOUS
<1>3. OnItsWay(j, o) /\ j.place \in Places
  BY <1>1, <1>2
<1>4. Verified(j.place) => Verified(j.place)'
  BY <1>3 DEF Grows
<1>5. OnItsWay(j, o)'
  BY <1>3, <1>4 DEF OnItsWay, Grows
<1>6. work'[u] = j /\ owed'[p(u)] = o /\ p(u)' = p(u)
  BY <1>2 DEF p
<1> QED BY <1>5, <1>6 DEF OnItsWay, Verified

(* An ordinary step keeps the way to what was installed. *)
LEMMA OrdinaryFinds ==
    ASSUME Shape, CacheOnlyPinned, FindInv, outside = 0, NEW w \in Workers, Ordinary(w)
    PROVE  FindInv'
<1>1. Grows /\ UNCHANGED <<rootOK, owed, installed, outside>>
  BY OrdinaryGrows
<1>2. Untouched /\ \A q \in Procs : (proc[q] \in {"up", "closed"} /\ owed[q] # {}) =>
                                       tool[q].manager.status # "missing"
  BY DEF FindInv
<1>3. Untouched'
  BY <1>1, <1>2 DEF Untouched, Grows
<1>4. \A u \in Workers : u # w => work'[u] = work[u]
  BY EnsureKinds, DiscoverKinds, WorkTypes DEF Ordinary
<1>5. \A u \in Workers : OnItsWay(work[u], owed[p(u)])'
  BY <1>1, <1>4, OrdinaryWay, OthersOnTheirWay
<1>6. ASSUME NEW q \in Procs, proc'[q] \in {"up", "closed"}, owed'[q] # {}
      PROVE  tool'[q].manager.status # "missing"
  <2>1. CASE UNCHANGED <<proc, tool>>
    BY <1>1, <1>2, <1>6, <2>1
  <2>2. CASE \E s \in States : Boot(w, s) /\ (owed[p(w)] # {} => s.status # "missing")
    <3>1. PICK s \in States : Boot(w, s) /\ (owed[p(w)] # {} => s.status # "missing")
      BY <2>2
    <3>2. /\ proc' = [proc EXCEPT ![p(w)] = "up"]
          /\ tool' = [tool EXCEPT ![p(w)] = [installer |-> s, manager |-> s, platform |-> s, catalog |-> s]]
      BY <3>1 DEF Boot
    <3>3. CASE q = p(w)
      <4>1. tool'[q].manager = s
        BY <3>2, <3>3, <1>6 DEF Shape, Types
      <4> QED BY <1>1, <1>6, <3>1, <3>3, <4>1
    <3>4. CASE q # p(w)
      <4>1. tool'[q] = tool[q] /\ proc'[q] = proc[q]
        BY <3>2, <3>4 DEF Shape, Types
      <4> QED BY <1>1, <1>2, <1>6, <4>1
    <3> QED BY <3>3, <3>4
  <2> QED BY <2>1, <2>2, OrdinaryBoots
<1> QED BY <1>1, <1>3, <1>5, <1>6 DEF FindInv

(* Files, the saved location and the custom root stay. *)
LEMMA NothingMoved ==
    ASSUME Shape, FindInv, outside = 0, UNCHANGED <<file, saved, rootOK>>
    PROVE  Grows
BY DEF Grows, Findable, Verified, FindInv, Untouched

(* What is published is what was found, and it was remembered before. *)
LEMMA PublishFinds ==
    ASSUME Shape, CacheOnlyPinned, Holders, FindInv, outside = 0, NEW w \in Workers, Publish(w)
    PROVE  FindInv'
<1>1. PICK j, t, s : j = work[w] /\ t = tool[p(w)] /\ s = Ready(j.place, j.seen)
  OBVIOUS
<1>2. /\ Shape' /\ j.op \in {"install", "refresh"} /\ j.pc \in Publishing
      /\ UNCHANGED <<file, files, saved, rootOK, outside, owed, proc>>
      /\ \/ Answer(w) /\ UNCHANGED <<tool, installed>>
         \/ /\ installed' = installed
            /\ tool' = [tool EXCEPT ![p(w)] = [t EXCEPT !.manager = s]]
            /\ work' = [work EXCEPT ![w] = [j EXCEPT !.pc = "platform"]]
         \/ /\ installed' = installed
            /\ tool' = [tool EXCEPT ![p(w)] = [t EXCEPT !.platform = s]]
            /\ work' = [work EXCEPT ![w] = [j EXCEPT !.pc = "catalog"]]
         \/ /\ installed' = installed \cup {j.place}
            /\ tool' = [tool EXCEPT ![p(w)] = [t EXCEPT !.catalog = s, !.installer = s]]
            /\ Answer(w)
  BY <1>1, PublishShape
<1>3. /\ Grows /\ Untouched /\ OnItsWay(j, owed[p(w)])
      /\ \A q \in Procs : (proc[q] \in {"up", "closed"} /\ owed[q] # {}) =>
                              tool[q].manager.status # "missing"
  BY <1>1, <1>2, NothingMoved DEF FindInv
<1>4. /\ j \in Jobs /\ JobOK(j) /\ j.place \in Places /\ p(w) \in Procs /\ s.status = "ready"
      /\ t \in Parts /\ s \in States /\ tool \in [Procs -> Parts] /\ work \in [Workers -> Jobs]
  BY <1>1, JobTypes, StateTypes DEF Shape, Types
<1>5. Verified(j.place) /\ (j.place = "custom" => saved) /\ j.place \in Managed
  <2>1. Verified(j.place) /\ (j.place = "custom" => saved)
    BY <1>2, <1>3 DEF OnItsWay
  <2> QED BY <1>3, <1>4, <2>1 DEF Untouched, Verified
<1>6. Findable
  BY <1>5 DEF Managed, Findable
<1>7. Untouched'
  BY <1>2, <1>3, <1>6 DEF Untouched, Findable, Verified
<1>8. /\ \A u \in Workers : u # w => work'[u] = work[u]
      /\ \/ work'[w] = Idle
         \/ work'[w] = [j EXCEPT !.pc = "platform"] \/ work'[w] = [j EXCEPT !.pc = "catalog"]
  BY <1>2, <1>4 DEF Answer
<1>9. OnItsWay(work[w], owed[p(w)])'
  <2>1. CASE work'[w] = Idle
    BY <2>1, IdleTypes DEF OnItsWay, Publishing
  <2>2. CASE work'[w] = [j EXCEPT !.pc = "platform"] \/ work'[w] = [j EXCEPT !.pc = "catalog"]
    <3>1. PICK i : i = work'[w]
      OBVIOUS
    <3>2. i.op = j.op /\ i.pc \in {"platform", "catalog"} /\ i.place = j.place
      BY <1>4, <2>2, <3>1 DEF Jobs
    <3>3. Verified(j.place)' /\ (j.place = "custom" => saved')
      BY <1>2, <1>5 DEF Verified
    <3> QED BY <1>2, <3>1, <3>2, <3>3 DEF OnItsWay, Publishing, Verified
  <2> QED BY <1>8, <2>1, <2>2
<1>10. \A u \in Workers : OnItsWay(work[u], owed[p(u)])'
  BY <1>2, <1>3, <1>8, <1>9, OthersOnTheirWay
<1>11. ASSUME NEW q \in Procs, proc'[q] \in {"up", "closed"}, owed'[q] # {}
       PROVE  tool'[q].manager.status # "missing"
  <2>1. tool'[q].manager \in {tool[q].manager, s}
    <3>1. /\ [t EXCEPT !.manager = s].manager = s /\ [t EXCEPT !.platform = s].manager = t.manager
          /\ [t EXCEPT !.catalog = s, !.installer = s].manager = t.manager
      BY <1>4 DEF Parts
    <3>2. tool'[q] \in {tool[q], [t EXCEPT !.manager = s], [t EXCEPT !.platform = s],
                       [t EXCEPT !.catalog = s, !.installer = s]}
      BY <1>2, <1>4
    <3>3. tool'[q] # tool[q] => q = p(w)
      BY <1>2, <1>4
    <3> QED BY <1>1, <3>1, <3>2, <3>3
  <2> QED BY <1>2, <1>3, <1>4, <1>11, <2>1
<1> QED BY <1>2, <1>7, <1>10, <1>11 DEF FindInv

(* A process is started, or a request begins. *)
LEMMA BeginFinds ==
    ASSUME Shape, Holders, FindInv, outside = 0, NEW w \in Workers,
           NEW op \in {"start", "install", "refresh"}, NEW l \in {"cache", "custom"}, Begin(w, op, l)
    PROVE  FindInv'
<1>1. PICK j \in Jobs : /\ work' = [work EXCEPT ![w] = j] /\ j.op = op
                        /\ j.pc = IF op = "start" THEN "resolve" ELSE "lock"
  BY BeginShape
<1>2. UNCHANGED <<file, saved, rootOK, outside, installed, tool>>
  BY DEF Begin, FilesStay
<1>3. /\ Grows /\ Untouched
      /\ \A q \in Procs : (proc[q] \in {"up", "closed"} /\ owed[q] # {}) =>
                              tool[q].manager.status # "missing"
  BY <1>2, NothingMoved DEF FindInv
<1>4. \A u \in Workers : work'[u] = IF u = w THEN j ELSE work[u]
  BY <1>1 DEF Shape, Types
<1>5. \A q \in Procs : \/ owed'[q] = owed[q] /\ proc'[q] = proc[q]
                       \/ owed'[q] = installed /\ proc[q] = "down" /\ proc'[q] = "starting"
  BY DEF Begin, Shape, Types
<1>6. Untouched'
  BY <1>2, <1>3, <1>5 DEF Untouched, Findable, Verified
<1>7. ASSUME NEW u \in Workers PROVE OnItsWay(work[u], owed[p(u)])'
  <2>1. p(u) \in Procs
    BY JobTypes
  <2>2. CASE u = w
    <3>1. work'[u] = j
      BY <1>4, <2>2
    <3> QED BY <1>1, <3>1 DEF OnItsWay, Publishing
  <2>3. CASE u # w /\ owed'[p(u)] = owed[p(u)]
    BY <1>3, <1>4, <2>3, OthersOnTheirWay
  <2>4. CASE u # w /\ proc[p(u)] = "down"
    <3>1. work'[u] = Idle
      BY <1>4, <2>4 DEF Holders
    <3> QED BY <3>1, IdleTypes DEF OnItsWay, Publishing
  <2> QED BY <1>5, <2>1, <2>2, <2>3, <2>4
<1>8. \A q \in Procs : (proc'[q] \in {"up", "closed"} /\ owed'[q] # {}) =>
                           tool'[q].manager.status # "missing"
  BY <1>2, <1>3, <1>5
<1> QED BY <1>2, <1>6, <1>7, <1>8 DEF FindInv

(* The mutex, the end of a context or of a process, and time. *)
LEMMA OtherFinds ==
    ASSUME Shape, FindInv, outside = 0,
           \/ \E w \in Workers : Lock(w)
           \/ \E q \in Procs : Close(q) \/ Exit(q)
           \/ Age
    PROVE  FindInv'
<1>1. UNCHANGED <<file, saved, rootOK, outside, installed, owed>>
  BY DEF Lock, Close, Exit, Age, FilesStay, WorldStays
<1>2. /\ Grows /\ Untouched
      /\ \A q \in Procs : (proc[q] \in {"up", "closed"} /\ owed[q] # {}) =>
                              tool[q].manager.status # "missing"
  BY <1>1, NothingMoved DEF FindInv
<1>3. Untouched'
  BY <1>1, <1>2 DEF Untouched, Findable, Verified
<1>4. \A u \in Workers : \/ work'[u] = work[u] \/ work'[u] = Idle
                         \/ /\ work'[u].pc \in {"check", "search"} /\ work'[u].op # "start"
  <2>1. CASE \E w \in Workers : Lock(w)
    <3>1. PICK w \in Workers : Lock(w)
      BY <2>1
    <3>2. /\ work[w].op \in {"install", "refresh"}
          /\ \/ work' = [work EXCEPT ![w] = Idle]
             \/ \E j \in Jobs : /\ work' = [work EXCEPT ![w] = j] /\ j.op = work[w].op
                                /\ j.pc \in {"check", "search"}
      BY <3>1, LockShape
    <3> QED BY <3>2 DEF Shape, Types
  <2>2. CASE \E q \in Procs : Exit(q)
    BY <2>2 DEF Exit
  <2>3. CASE (\E q \in Procs : Close(q)) \/ Age
    BY <2>3 DEF Close, Age
  <2> QED BY <2>1, <2>2, <2>3
<1>5. ASSUME NEW u \in Workers PROVE OnItsWay(work[u], owed[p(u)])'
  <2>1. CASE work'[u] = work[u]
    BY <1>1, <1>2, <2>1, OthersOnTheirWay
  <2>2. CASE work'[u] = Idle
    BY <2>2, IdleTypes DEF OnItsWay, Publishing
  <2>3. CASE work'[u].pc \in {"check", "search"} /\ work'[u].op # "start"
    BY <2>3 DEF OnItsWay, Publishing
  <2> QED BY <1>4, <2>1, <2>2, <2>3
<1>6. \A q \in Procs : \/ tool'[q] = tool[q] /\ proc'[q] = proc[q]
                       \/ tool'[q] = tool[q] /\ proc[q] = "up"
                       \/ proc'[q] = "down"
  BY DEF Lock, Close, Exit, Age, Shape, Types
<1>7. \A q \in Procs : (proc'[q] \in {"up", "closed"} /\ owed'[q] # {}) =>
                           tool'[q].manager.status # "missing"
  BY <1>1, <1>2, <1>6
<1> QED BY <1>1, <1>3, <1>5, <1>7 DEF FindInv

-----------------------------------------------------------------------------
(* The theorems *)

(* Nothing has been started, installed or touched. *)
LEMMA Initially ==
    ASSUME Init PROVE ToolInv
<1>1. [installer |-> Missing, manager |-> Missing, platform |-> Missing, catalog |-> Missing] \in Parts
  BY StateTypes DEF Parts
<1>2. Types
  <2>1. work \in [Workers -> Jobs] /\ stage \in [Workers -> Stages] /\ tool \in [Procs -> Parts]
    BY <1>1, IdleTypes DEF Init
  <2>2. /\ file \in [Places -> Files \cup {NoFile}]
        /\ debris \in [Places -> {"none", "young", "aged"}]
        /\ saved \in BOOLEAN /\ rootOK \in BOOLEAN
        /\ mutex \in [Procs -> Workers \cup {"none"}]
        /\ proc \in [Procs -> {"down", "starting", "up", "closed"}]
    BY DEF Init
  <2>3. /\ files \in 0..MaxFiles /\ starts \in 0..MaxStarts /\ outside \in 0..MaxOutside
        /\ installed \subseteq Places /\ owed \in [Procs -> SUBSET Places]
    BY ToolAssumption DEF Init
  <2> QED BY <2>1, <2>2, <2>3 DEF Types
<1>3. \A w \in Workers : work[w] = Idle /\ stage[w] = NoStage
  BY DEF Init
<1>4. Shape
  BY <1>2, <1>3, IdleTypes DEF Shape, StagedOK, InstalledIsPinned
<1>5. CacheOnlyPinned
  BY DEF Init, CacheOnlyPinned
<1>6. Holders
  BY <1>3, IdleTypes DEF Init, Holders, Busy
<1>7. PartsInv
  BY DEF Init, PartsInv, Agreed
<1>8. FindInv
  <2>1. Untouched
    BY DEF Init, Untouched
  <2>2. \A w \in Workers : OnItsWay(work[w], owed[p(w)])
    BY <1>3, IdleTypes DEF OnItsWay, Publishing
  <2> QED BY <2>1, <2>2 DEF FindInv, Init
<1> QED BY <1>4, <1>5, <1>6, <1>7, <1>8 DEF ToolInv

(* Every step. *)
LEMMA EveryStep ==
    ASSUME ToolInv, [Next]_vars PROVE ToolInv'
<1>1. Shape /\ CacheOnlyPinned /\ Holders /\ PartsInv /\ FindInv
  BY DEF ToolInv
<1>2. outside \in Nat
  BY <1>1, ToolAssumption DEF Shape, Types
<1>3. CASE UNCHANGED vars
  <2>1. Shape'
    BY <1>1, <1>3 DEF vars, Shape, Types, StagedOK, InstalledIsPinned
  <2>2. CacheOnlyPinned' /\ Holders' /\ PartsInv'
    BY <1>1, <1>3 DEF vars, CacheOnlyPinned, Holders, PartsInv, Busy, p
  <2>3. FindInv'
    BY <1>1, <1>3 DEF vars, FindInv, Untouched, OnItsWay, Findable, Verified, p
  <2> QED BY <2>1, <2>2, <2>3 DEF ToolInv
<1>4. ASSUME NEW w \in Workers, Ordinary(w) PROVE ToolInv'
  <2>1. outside' = outside
    BY <1>1, <1>4, FileKinds
  <2>2. FindInv'
    <3>1. CASE outside = 0
      BY <1>1, <1>4, <3>1, OrdinaryFinds
    <3>2. CASE outside # 0
      BY <2>1, <3>2 DEF FindInv
    <3> QED BY <3>1, <3>2
  <2> QED BY <1>1, <1>4, <2>2, OrdinaryShape, OrdinaryHolds DEF ToolInv
<1>5. ASSUME NEW w \in Workers, Publish(w) PROVE ToolInv'
  <2>1. Shape' /\ file' = file /\ outside' = outside
    BY <1>1, <1>5, PublishShape
  <2>2. CacheOnlyPinned'
    BY <1>1, <2>1 DEF CacheOnlyPinned
  <2>3. FindInv'
    <3>1. CASE outside = 0
      BY <1>1, <1>5, <3>1, PublishFinds
    <3>2. CASE outside # 0
      BY <2>1, <3>2 DEF FindInv
    <3> QED BY <3>1, <3>2
  <2> QED BY <1>1, <1>5, <2>1, <2>2, <2>3, PublishHolds DEF ToolInv
<1>6. ASSUME NEW w \in Workers, NEW op \in {"start", "install", "refresh"},
             NEW l \in {"cache", "custom"}, Begin(w, op, l)
      PROVE  ToolInv'
  <2>1. Shape' /\ file' = file /\ outside' = outside
    BY <1>1, <1>6, BeginShape DEF Begin, FilesStay
  <2>2. CacheOnlyPinned'
    BY <1>1, <2>1 DEF CacheOnlyPinned
  <2>3. FindInv'
    <3>1. CASE outside = 0
      BY <1>1, <1>6, <3>1, BeginFinds
    <3>2. CASE outside # 0
      BY <2>1, <3>2 DEF FindInv
    <3> QED BY <3>1, <3>2
  <2> QED BY <1>1, <1>6, <2>1, <2>2, <2>3, BeginHolds DEF ToolInv
<1>7. CASE (\E w \in Workers : Lock(w)) \/ (\E q \in Procs : Close(q) \/ Exit(q)) \/ Age
  <2>1. Shape'
    BY <1>1, <1>7, LockShape, CloseShape, ExitShape, AgeShape
  <2>2. file' = file /\ outside' = outside
    BY <1>7 DEF Lock, Close, Exit, Age, FilesStay, WorldStays
  <2>3. CacheOnlyPinned'
    BY <1>1, <2>2 DEF CacheOnlyPinned
  <2>4. Holders' /\ PartsInv'
    <3>1. CASE Age
      <4>1. UNCHANGED <<proc, mutex, tool, work>>
        BY <3>1 DEF Age
      <4> QED BY <1>1, <4>1 DEF Holders, PartsInv, Busy, p
    <3> QED BY <1>1, <1>7, <3>1, LockHolds, CloseExitHold
  <2>5. FindInv'
    <3>1. CASE outside = 0
      BY <1>1, <1>7, <3>1, OtherFinds
    <3>2. CASE outside # 0
      BY <2>2, <3>2 DEF FindInv
    <3> QED BY <3>1, <3>2
  <2> QED BY <2>1, <2>3, <2>4, <2>5 DEF ToolInv
<1>8. CASE Outside
  <2>1. Shape' /\ CacheOnlyPinned' /\ outside' # 0
    BY <1>1, <1>8, OutsideShape
  <2>2. UNCHANGED <<proc, mutex, tool, work>>
    BY <1>8 DEF Outside
  <2>3. Holders' /\ PartsInv'
    BY <1>1, <2>2 DEF Holders, PartsInv, Busy, p
  <2> QED BY <2>1, <2>3 DEF ToolInv, FindInv
<1>9. CASE Next
  <2>1. ASSUME NEW w \in Workers,
               \/ \E op \in {"start", "install", "refresh"} : Begin(w, op, "cache")
               \/ Begin(w, "install", "custom") \/ Lock(w) \/ Step(w)
        PROVE  ToolInv'
    BY <2>1, <1>4, <1>5, <1>6, <1>7 DEF Step, Ordinary
  <2> QED BY <1>7, <1>8, <1>9, <2>1 DEF Next
<1> QED BY <1>3, <1>9

(* The invariant holds in every state. *)
THEOREM ToolInvariant == Spec => []ToolInv
<1>1. Init => ToolInv
  BY Initially
<1>2. ToolInv /\ [Next]_vars => ToolInv'
  BY EveryStep
<1> QED BY <1>1, <1>2, PTL DEF Spec

(* The run manager, the platform and the catalog agree about the tool, or  *)
(* learn of it in that order under a mutex that its request gives back     *)
(* (managedToolInstaller, Manager.ActivateTool, Set.ActivateTool).          *)
THEOREM UsersAgree == Spec => []PublishedTogether
<1>1. ToolInv => PublishedTogether
  <2> SUFFICES ASSUME ToolInv, NEW q \in Procs
               PROVE  /\ tool[q].catalog.status = "ready" =>
                           tool[q].catalog = tool[q].platform /\ tool[q].platform = tool[q].manager
                      /\ mutex[q] = "none" =>
                           Cardinality({tool[q].installer, tool[q].manager, tool[q].platform,
                                        tool[q].catalog}) = 1
                      /\ mutex[q] # "none" =>
                           p(mutex[q]) = q /\ work[mutex[q]].pc \notin {"idle", "lock"}
    BY DEF PublishedTogether
  <2>1. Shape /\ Holders /\ PartsInv
    BY DEF ToolInv
  <2>2. CASE mutex[q] = "none"
    <3>1. Agreed(tool[q])
      BY <2>1, <2>2 DEF PartsInv
    <3>2. {tool[q].installer, tool[q].manager, tool[q].platform, tool[q].catalog} = {tool[q].installer}
      BY <3>1 DEF Agreed
    <3> QED BY <2>2, <3>1, <3>2, FS_Singleton DEF Agreed
  <2>3. CASE mutex[q] # "none"
    <3>1. PICK w : w = mutex[q]
      OBVIOUS
    <3>2. w \in Workers /\ p(w) = q /\ Busy(w) /\ Published(tool[q], work[w])
      BY <2>1, <2>3, <3>1 DEF Shape, Types, Holders, PartsInv
    <3>3. work[w].pc \notin {"idle", "lock"}
      BY <2>1, <3>2, JobTypes DEF Busy, JobOK, Finding, Ensuring, Publishing
    <3>4. tool[q].catalog.status = "missing"
      BY <3>2 DEF Published
    <3> QED BY <2>3, <3>1, <3>2, <3>3, <3>4
  <2> QED BY <2>2, <2>3
<1> QED BY <1>1, ToolInvariant, PTL

(* Whatever installers, crashes, clean-ups and other programs do, only the *)
(* reviewed bytes are renamed into a managed place or activated by an      *)
(* installation (verifyManagedFile, InstallTool).                          *)
THEOREM PinnedOnly == Spec => []OnlyPinned
<1>1. ToolInv => OnlyPinned
  <2> SUFFICES ASSUME ToolInv PROVE OnlyPinned
    OBVIOUS
  <2>1. Types /\ InstalledIsPinned /\ CacheOnlyPinned
    BY DEF ToolInv, Shape
  <2>2. \A q \in Procs : \A part \in DOMAIN tool[q] : tool[q][part] \in States
    BY <2>1 DEF Types, Parts
  <2>3. \A w \in Workers : work[w].place \in Places /\ work[w].seen \in Files \cup {NoFile}
    BY <2>1 DEF Types, Jobs
  <2>4. TypeOK
    BY <2>1, <2>2, <2>3 DEF TypeOK, Types, States, Stages
  <2> QED BY <2>1, <2>4 DEF OnlyPinned
<1> QED BY <1>1, ToolInvariant, PTL

(* A process started after an installation was answered does not find the  *)
(* tool missing, unless somebody else changed the files                    *)
(* (managedInstallLocationStore.Save comes before ActivateTool).           *)
THEOREM RestartsFindTheTool == Spec => []RestartFindsTool
<1>1. ToolInv => RestartFindsTool
  BY DEF ToolInv, FindInv, RestartFindsTool
<1> QED BY <1>1, ToolInvariant, PTL
=============================================================================
