---------------------------- MODULE CommandProofs ----------------------------
(***************************************************************************)
(* Theorems about a command on its way from a pack file to a result: the   *)
(* loader, the planner and what is shown (PackPlan), for every set of      *)
(* packs, drafts, requests and outputs and however often the file is       *)
(* edited, and between plan and output the run itself (Executor), for      *)
(* every set of streams, every output limit and every capacity of the      *)
(* pipes.                                                                  *)
(*                                                                         *)
(* PackInv says what the loader has read of which file, what the registry  *)
(* holds and what a plan was made from; RunInv what is left of the process *)
(* at each place of Run, what a kill has done and what the sink has seen.  *)
(***************************************************************************)
EXTENDS PackPlan, Executor, SequenceTheorems, WellFoundedInduction, TLAPS

-----------------------------------------------------------------------------
(* The loader *)

(* The halves somebody wrote, and what an inode may hold. *)
Heads == {d[1] : d \in Packs \cup Drafts}
Tails == {d[2] : d \in Packs \cup Drafts}

Contents == [head : Heads, tail : Tails, stamp : Nat, held : SUBSET (Heads \X Tails)]

Loads == [pc : {"scan", "lstat", "open", "head", "tail", "settle", "register", "done", "failed"},
          before : Nat, opened : Nat, stamp : Nat,
          head : Heads \cup {None}, tail : Tails \cup {None}]

Typed ==
    /\ file \in Seq(Contents) /\ path \in 1 .. Len(file) /\ link \in BOOLEAN
    /\ load \in Loads
    /\ load.before \in 0 .. Len(file) /\ load.opened \in 0 .. Len(file)

(* What a file holds now is among what it has held. *)
HeldInv == \A i \in 1 .. Len(file) : <<file[i].head, file[i].tail>> \in file[i].held

(* As long as the opened file's time stamp stands still, what was read of   *)
(* it is what it holds; what was accepted is something it has held.         *)
ReadInv ==
    /\ load.pc \in {"head", "tail", "settle", "register", "done"} =>
          load.opened \in 1 .. Len(file) /\ load.stamp <= file[load.opened].stamp
    /\ load.pc \in {"tail", "settle"} =>
          /\ load.head \in Heads
          /\ load.stamp = file[load.opened].stamp => load.head = file[load.opened].head
    /\ load.pc = "settle" =>
          /\ load.tail \in Tails
          /\ load.stamp = file[load.opened].stamp => load.tail = file[load.opened].tail
    /\ load.pc \in {"register", "done"} =>
          /\ load.head \in Heads /\ load.tail \in Tails
          /\ <<load.head, load.tail>> \in file[load.opened].held
          /\ Parse(<<load.head, load.tail>>)

(* The registry holds what was loaded, a reserved id with its own content.  *)
RegistryInv ==
    /\ load.pc # "done" => registry = None
    /\ load.pc = "done" =>
          /\ registry = <<load.head, load.tail>>
          /\ registry[1].id = Builtin[1].id => registry = Builtin

(* The plan is one of the pack admitted, and what is shown follows a plan.  *)
PlanInv ==
    /\ registry = None => plan = NoPlan
    /\ plan # NoPlan =>
          \E tool \in {"ready", "missing", "other-version", "unidentified"}, given \in [Names -> Raw] :
              plan = [Build(registry, tool, given) EXCEPT !.tool = tool]
    /\ plan.code # "ok" => shown = NoOutput
    /\ shown # NoOutput => \E doc \in Docs : shown = Rendered(registry, doc)

PackInv == Typed /\ HeldInv /\ ReadInv /\ RegistryInv /\ PlanInv

(* Halves of what somebody wrote. *)
LEMMA Halves ==
  ASSUME PackAssumption, NEW d \in Packs \cup Drafts
  PROVE  d[1] \in Heads /\ d[2] \in Tails /\ d = <<d[1], d[2]>> /\ {d} \in SUBSET (Heads \X Tails)
<1>1. d[1] \in Heads /\ d[2] \in Tails /\ d = <<d[1], d[2]>>
  BY DEF PackAssumption, Heads, Tails
<1>2. <<d[1], d[2]>> \in Heads \X Tails
  BY <1>1
<1> QED BY <1>1, <1>2

(* The loader's steps before anything is admitted. *)
LEMMA LoaderStep ==
  ASSUME PackInv, UNCHANGED <<file, path, link, registry, plan, shown>>,
         load.pc # "done", load'.pc # "done", load' \in Loads,
         load'.before \in 0 .. Len(file), load'.opened \in 0 .. Len(file)
  PROVE  Typed' /\ HeldInv' /\ RegistryInv' /\ PlanInv'
<1>1. Typed'
  BY DEF PackInv, Typed
<1>2. HeldInv'
  BY DEF PackInv, HeldInv
<1>3. RegistryInv'
  BY DEF PackInv, RegistryInv
<1>4. PlanInv'
  BY DEF PackInv, PlanInv
<1> QED BY <1>1, <1>2, <1>3, <1>4

(* A refused file is not looked at again. *)
LEMMA FailKeeps ==
  ASSUME PackInv, Fail, load.pc # "done", UNCHANGED <<file, path, link, registry, plan, shown>>
  PROVE  PackInv'
<1>1. /\ load' \in Loads /\ load'.pc = "failed" /\ load'.before = load.before
      /\ load'.opened = load.opened
  BY DEF Fail, PackInv, Typed, Loads
<1>2. Typed' /\ HeldInv' /\ RegistryInv' /\ PlanInv'
  BY <1>1, LoaderStep DEF PackInv, Typed
<1>3. ReadInv'
  BY <1>1 DEF ReadInv
<1> QED BY <1>2, <1>3 DEF PackInv

(* Looking at the path. *)
LEMMA ScanKeeps ==
  ASSUME PackInv, Scan \/ Lstat \/ Open
  PROVE  PackInv'
<1>1. /\ UNCHANGED <<file, path, link, registry, plan, shown>> /\ load.pc \in {"scan", "lstat", "open"}
      /\ path \in 1 .. Len(file) /\ Len(file) \in Nat /\ file[path] \in Contents
  BY LenProperties, ElementOfSeq DEF Scan, Lstat, Open, PackInv, Typed
<1>n. path \in Nat
  BY <1>1
<1>2. CASE Fail
  BY <1>1, <1>2, FailKeeps
<1>3. CASE \/ load' = [load EXCEPT !.pc = "lstat"]
           \/ load' = [load EXCEPT !.pc = "open", !.before = path]
  <2>1. /\ load' \in Loads /\ load'.pc \in {"lstat", "open"} /\ load'.opened = load.opened
        /\ load'.before \in {load.before, path}
    BY <1>n, <1>3 DEF PackInv, Typed, Loads
  <2>2. load'.before \in 0 .. Len(file)
    BY <1>1, <2>1 DEF PackInv, Typed
  <2>3. Typed' /\ HeldInv' /\ RegistryInv' /\ PlanInv'
    BY <1>1, <2>1, <2>2, LoaderStep DEF PackInv, Typed
  <2>4. ReadInv'
    BY <2>1 DEF ReadInv
  <2> QED BY <2>3, <2>4 DEF PackInv
<1>4. CASE load' = [load EXCEPT !.pc = "head", !.opened = path, !.stamp = file[path].stamp]
  <2>1. file[path].stamp \in Nat /\ path \in 0 .. Len(file)
    BY <1>1 DEF Contents
  <2>2. /\ load' \in Loads /\ load'.pc = "head" /\ load'.opened = path
        /\ load'.before = load.before /\ load'.stamp = file[path].stamp
    BY <1>n, <1>4, <2>1 DEF PackInv, Typed, Loads
  <2>3. Typed' /\ HeldInv' /\ RegistryInv' /\ PlanInv'
    BY <1>1, <2>1, <2>2, LoaderStep DEF PackInv, Typed
  <2>4. ReadInv'
    BY <1>1, <2>1, <2>2 DEF ReadInv
  <2> QED BY <2>3, <2>4 DEF PackInv
<1> QED BY <1>2, <1>3, <1>4 DEF Scan, Lstat, Open

(* Reading the opened file, half by half. *)
LEMMA ReadKeeps ==
  ASSUME PackInv, ReadHead \/ ReadTail
  PROVE  PackInv'
<1>1. /\ UNCHANGED <<file, path, link, registry, plan, shown>> /\ load.pc \in {"head", "tail"}
      /\ load.opened \in 1 .. Len(file)
  BY DEF ReadHead, ReadTail, PackInv, ReadInv
<1>2. file[load.opened] \in Contents
  BY <1>1, ElementOfSeq DEF PackInv, Typed
<1>3. CASE ReadHead
  <2>1. load' = [load EXCEPT !.pc = "tail", !.head = file[load.opened].head] /\ load.pc = "head"
    BY <1>3 DEF ReadHead, Half
  <2>2. /\ load' \in Loads /\ load'.pc = "tail" /\ load'.opened = load.opened
        /\ load'.before = load.before /\ load'.stamp = load.stamp
        /\ load'.head = file[load.opened].head /\ load'.head \in Heads
    BY <1>2, <2>1 DEF PackInv, Typed, Loads, Contents
  <2>3. Typed' /\ HeldInv' /\ RegistryInv' /\ PlanInv'
    BY <1>1, <2>2, LoaderStep DEF PackInv, Typed
  <2>4. ReadInv'
    BY <1>1, <2>2 DEF PackInv, ReadInv
  <2> QED BY <2>3, <2>4 DEF PackInv
<1>4. CASE ReadTail
  <2>1. load' = [load EXCEPT !.pc = "settle", !.tail = file[load.opened].tail] /\ load.pc = "tail"
    BY <1>4 DEF ReadTail, Half
  <2>2. /\ load' \in Loads /\ load'.pc = "settle" /\ load'.opened = load.opened
        /\ load'.before = load.before /\ load'.stamp = load.stamp /\ load'.head = load.head
        /\ load'.tail = file[load.opened].tail /\ load'.tail \in Tails
    BY <1>2, <2>1 DEF PackInv, Typed, Loads, Contents
  <2>3. Typed' /\ HeldInv' /\ RegistryInv' /\ PlanInv'
    BY <1>1, <2>2, LoaderStep DEF PackInv, Typed
  <2>4. ReadInv'
    BY <1>1, <2>1, <2>2 DEF PackInv, ReadInv
  <2> QED BY <2>3, <2>4 DEF PackInv
<1> QED BY <1>3, <1>4

(* What is accepted was read while the file stood still. *)
LEMMA SettleKeeps ==
  ASSUME PackInv, Settle
  PROVE  PackInv'
<1>1. /\ UNCHANGED <<file, path, link, registry, plan, shown>> /\ load.pc = "settle"
      /\ load.opened \in 1 .. Len(file) /\ load.head \in Heads /\ load.tail \in Tails
  BY DEF Settle, PackInv, ReadInv
<1>2. CASE ~ (Settled /\ Parse(<<load.head, load.tail>>))
  <2>1. Fail
    BY <1>2 DEF Settle, Fail
  <2> QED BY <1>1, <2>1, FailKeeps
<1>3. CASE Settled /\ Parse(<<load.head, load.tail>>)
  <2>1. load' = [load EXCEPT !.pc = "register"]
    BY <1>3 DEF Settle
  <2>2. /\ load' \in Loads /\ load'.pc = "register" /\ load'.opened = load.opened
        /\ load'.before = load.before /\ load'.stamp = load.stamp /\ load'.head = load.head
        /\ load'.tail = load.tail
    BY <2>1 DEF PackInv, Typed, Loads
  <2>3. Typed' /\ HeldInv' /\ RegistryInv' /\ PlanInv'
    BY <1>1, <2>2, LoaderStep DEF PackInv, Typed
  <2>4. <<load.head, load.tail>> \in file[load.opened].held
    BY <1>1, <1>3 DEF Settled, PackInv, ReadInv, HeldInv
  <2>5. ReadInv'
    BY <1>1, <1>3, <2>2, <2>4 DEF PackInv, ReadInv
  <2> QED BY <2>3, <2>5 DEF PackInv
<1> QED BY <1>2, <1>3

(* What is admitted. *)
LEMMA RegisterKeeps ==
  ASSUME PackInv, NEW defaults \in BOOLEAN, Register(defaults)
  PROVE  PackInv'
<1>1. UNCHANGED <<file, path, link, plan, shown>> /\ load.pc = "register" /\ registry = None
  BY DEF Register, PackInv, RegistryInv
<1>2. CASE Fail /\ UNCHANGED registry
  BY <1>1, <1>2, FailKeeps
<1>3. CASE /\ Admissible(<<load.head, load.tail>>, defaults)
           /\ registry' = <<load.head, load.tail>> /\ load' = [load EXCEPT !.pc = "done"]
  <2>1. /\ load' \in Loads /\ load'.pc = "done" /\ load'.opened = load.opened
        /\ load'.before = load.before /\ load'.stamp = load.stamp /\ load'.head = load.head
        /\ load'.tail = load.tail
    BY <1>3 DEF PackInv, Typed, Loads
  <2>2. Typed'
    BY <1>1, <2>1 DEF PackInv, Typed
  <2>3. HeldInv'
    BY <1>1 DEF PackInv, HeldInv
  <2>4. ReadInv'
    BY <1>1, <2>1 DEF PackInv, ReadInv
  <2>5. RegistryInv'
    BY <1>3, <2>1 DEF RegistryInv, Admissible
  <2>6. PlanInv'
    <3>1. plan = NoPlan /\ NoPlan.code = "none"
      BY <1>1 DEF PackInv, PlanInv, NoPlan
    <3>2. shown = NoOutput
      BY <3>1 DEF PackInv, PlanInv
    <3> QED BY <1>1, <3>1, <3>2 DEF PlanInv
  <2> QED BY <2>2, <2>3, <2>4, <2>5, <2>6 DEF PackInv
<1> QED BY <1>2, <1>3 DEF Register

(* An edit never touches what an inode has held, and is seen in its stamp.  *)
LEMMA EditKeeps ==
  ASSUME PackInv, UNCHANGED <<load, registry, plan, shown>>,
         load.pc \notin {"register", "done", "failed"},
         file' \in Seq(Contents), path' \in 1 .. Len(file'), link' \in BOOLEAN,
         Len(file) <= Len(file'),
         \A i \in 1 .. Len(file) :
             \/ file'[i] = file[i]
             \/ file'[i].stamp = file[i].stamp + 1,
         \A i \in 1 .. Len(file') : <<file'[i].head, file'[i].tail>> \in file'[i].held
  PROVE  PackInv'
<1>1. Len(file) \in Nat /\ Len(file') \in Nat /\ load.stamp \in Nat
      /\ \A i \in 1 .. Len(file) : file[i].stamp \in Nat
  <2>1. file \in Seq(Contents) /\ load \in Loads
    BY DEF PackInv, Typed
  <2>2. \A i \in 1 .. Len(file) : file[i] \in Contents
    BY <2>1, ElementOfSeq
  <2>3. Len(file) \in Nat /\ Len(file') \in Nat
    BY <2>1, LenProperties
  <2> QED BY <2>1, <2>2, <2>3 DEF Loads, Contents
<1>2. Typed'
  BY <1>1 DEF PackInv, Typed
<1>3. HeldInv'
  BY DEF HeldInv
<1>4. ReadInv'
  <2>1. CASE load.pc \in {"head", "tail", "settle"}
    <3>1. load.opened \in 1 .. Len(file) /\ load.stamp <= file[load.opened].stamp
      BY <2>1 DEF PackInv, ReadInv
    <3>2. load.opened \in 1 .. Len(file') /\ load.stamp <= file'[load.opened].stamp
      BY <1>1, <3>1
    <3>3. load.stamp = file'[load.opened].stamp => file'[load.opened] = file[load.opened]
      BY <1>1, <3>1
    <3> QED BY <2>1, <3>1, <3>2, <3>3 DEF PackInv, ReadInv
  <2>2. CASE load.pc \notin {"head", "tail", "settle"}
    BY <2>2 DEF ReadInv
  <2> QED BY <2>1, <2>2
<1>5. RegistryInv'
  BY DEF PackInv, RegistryInv
<1>6. PlanInv'
  BY DEF PackInv, PlanInv
<1> QED BY <1>2, <1>3, <1>4, <1>5, <1>6 DEF PackInv

(* Overwriting a half leaves a new time stamp. *)
LEMMA OverwriteKeeps ==
  ASSUME PackInv, PackAssumption, NEW d \in Drafts, NEW half \in {"head", "tail"}, Overwrite(d, half)
  PROVE  PackInv'
<1> DEFINE old == file[path]
           f == [old EXCEPT ![half] = IF half = "head" THEN d[1] ELSE d[2], !.stamp = old.stamp + 1]
           new == [f EXCEPT !.held = old.held \cup {<<f.head, f.tail>>}]
<1>1. /\ UNCHANGED <<path, link, load, registry, plan, shown>>
      /\ load.pc \notin {"register", "done", "failed"}
      /\ path \in 1 .. Len(file) /\ file \in Seq(Contents) /\ old \in Contents
  BY ElementOfSeq DEF Overwrite, Editable, PackInv, Typed
<1>2. file' = [file EXCEPT ![path] = new]
  BY DEF Overwrite
<1>3. /\ f.head \in Heads /\ f.tail \in Tails /\ f.stamp = old.stamp + 1 /\ f.stamp \in Nat
      /\ DOMAIN f = DOMAIN old
  BY <1>1, Halves DEF Contents
<1>4. new \in Contents /\ new.head = f.head /\ new.tail = f.tail /\ new.stamp = old.stamp + 1
      /\ <<f.head, f.tail>> \in new.held
  <2>1. old.held \cup {<<f.head, f.tail>>} \in SUBSET (Heads \X Tails)
    BY <1>1, <1>3 DEF Contents
  <2>2. f \in Contents
    BY <1>1, <1>3, Halves DEF Contents
  <2> HIDE DEF f
  <2> QED BY <1>3, <2>1, <2>2 DEF Contents
<1> HIDE DEF new, old
<1>5. /\ file' \in Seq(Contents) /\ Len(file') = Len(file)
      /\ \A i \in 1 .. Len(file) : file'[i] = IF i = path THEN new ELSE file[i]
  BY <1>1, <1>2, <1>4, ExceptSeq
<1>6. Len(file) \in Nat
  BY <1>1, LenProperties
<1>7. \A i \in 1 .. Len(file) : file'[i] = file[i] \/ file'[i].stamp = file[i].stamp + 1
  BY <1>4, <1>5 DEF old
<1>8. \A i \in 1 .. Len(file') : <<file'[i].head, file'[i].tail>> \in file'[i].held
  BY <1>4, <1>5 DEF PackInv, HeldInv
<1>9. path' \in 1 .. Len(file') /\ link' \in BOOLEAN /\ Len(file) <= Len(file')
  BY <1>1, <1>5, <1>6 DEF PackInv, Typed
<1> QED BY <1>1, <1>5, <1>7, <1>8, <1>9, EditKeeps

(* Another file at the path is another inode. *)
LEMMA ReplaceKeeps ==
  ASSUME PackInv, PackAssumption, NEW d \in Drafts, NEW isLink \in BOOLEAN, Replace(d, isLink)
  PROVE  PackInv'
<1> DEFINE new == [head |-> d[1], tail |-> d[2], stamp |-> 0, held |-> {d}]
<1>1. /\ UNCHANGED <<load, registry, plan, shown>> /\ load.pc \notin {"register", "done", "failed"}
      /\ file' = Append(file, new) /\ path' = Len(file) + 1 /\ link' = isLink
      /\ file \in Seq(Contents) /\ Len(file) \in Nat
  BY LenProperties DEF Replace, Editable, PackInv, Typed
<1>2. new \in Contents /\ <<new.head, new.tail>> \in new.held
  BY Halves DEF Contents
<1> HIDE DEF new
<1>3. /\ file' \in Seq(Contents) /\ Len(file') = Len(file) + 1
      /\ \A i \in 1 .. Len(file) : file'[i] = file[i]
      /\ file'[Len(file) + 1] = new
  BY <1>1, <1>2, AppendProperties
<1>4. \A i \in 1 .. Len(file') : <<file'[i].head, file'[i].tail>> \in file'[i].held
  <2>1. TAKE i \in 1 .. Len(file')
  <2>2. CASE i = Len(file) + 1
    BY <1>2, <1>3, <2>2
  <2>3. CASE i # Len(file) + 1
    <3>1. i \in 1 .. Len(file)
      BY <1>1, <1>3, <2>3
    <3> QED BY <1>3, <3>1 DEF PackInv, HeldInv
  <2> QED BY <2>2, <2>3
<1>5. path' \in 1 .. Len(file') /\ link' \in BOOLEAN /\ Len(file) <= Len(file')
  BY <1>1, <1>3
<1>6. \A i \in 1 .. Len(file) : file'[i] = file[i] \/ file'[i].stamp = file[i].stamp + 1
  BY <1>3
<1> QED BY <1>1, <1>3, <1>4, <1>5, <1>6, EditKeeps

(* A plan is made from the pack admitted. *)
LEMMA PlanKeeps ==
  ASSUME PackInv, NEW tool \in {"ready", "missing", "other-version", "unidentified"},
         NEW given \in [Names -> Raw], Plan(tool, given)
  PROVE  PackInv'
<1>1. /\ registry # None /\ plan = NoPlan /\ UNCHANGED <<file, path, link, load, registry, shown>>
      /\ plan' = [Build(registry, tool, given) EXCEPT !.tool = tool]
  BY DEF Plan
<1>2. Typed' /\ HeldInv' /\ ReadInv' /\ RegistryInv'
  BY <1>1 DEF PackInv, Typed, HeldInv, ReadInv, RegistryInv
<1>3. plan.code # "ok"
  BY <1>1 DEF NoPlan
<1>4. PlanInv'
  BY <1>1, <1>3 DEF PackInv, PlanInv
<1> QED BY <1>2, <1>4 DEF PackInv

(* What is shown is what was rendered of an output. *)
LEMMA FinishKeeps ==
  ASSUME PackInv, NEW doc \in Docs, EndCommand(doc)
  PROVE  PackInv'
<1>1. /\ plan.code = "ok" /\ shown' = Rendered(registry, doc)
      /\ UNCHANGED <<file, path, link, load, registry, plan>>
  BY DEF EndCommand
<1>2. Typed' /\ HeldInv' /\ ReadInv' /\ RegistryInv'
  BY <1>1 DEF PackInv, Typed, HeldInv, ReadInv, RegistryInv
<1>3. PlanInv'
  BY <1>1 DEF PackInv, PlanInv
<1> QED BY <1>2, <1>3 DEF PackInv

(* Nothing has been read. *)
LEMMA PackInitially ==
  ASSUME PackInit, PackAssumption
  PROVE  PackInv
<1>1. PICK d \in Packs : file = <<[head |-> d[1], tail |-> d[2], stamp |-> 0, held |-> {d}]>>
  BY DEF PackInit
<1>2. /\ path = 1 /\ link = FALSE /\ load = Idle /\ registry = None /\ plan = NoPlan /\ shown = NoOutput
  BY DEF PackInit
<1>3. /\ [head |-> d[1], tail |-> d[2], stamp |-> 0, held |-> {d}] \in Contents
      /\ <<d[1], d[2]>> \in {d}
  BY Halves DEF Contents
<1>4. file \in Seq(Contents) /\ Len(file) = 1 /\ file[1].held = {d}
      /\ file[1].head = d[1] /\ file[1].tail = d[2]
  BY <1>1, <1>3
<1>5. Typed
  <2>1. load \in Loads /\ load.before = 0 /\ load.opened = 0
    BY <1>2 DEF Loads, Idle
  <2>n. \A n : n = 1 => 1 \in 1 .. n /\ 0 \in 0 .. n
    OBVIOUS
  <2>2. path \in 1 .. Len(file) /\ 0 \in 0 .. Len(file) /\ link \in BOOLEAN
    <3>1. Len(file) = 1
      BY <1>4
    <3>2. path = 1 /\ link \in BOOLEAN
      BY <1>2
    <3> QED BY <3>1, <3>2, <2>n
  <2>3. load.before \in 0 .. Len(file) /\ load.opened \in 0 .. Len(file)
    BY <2>1, <2>2
  <2> QED BY <1>4, <2>1, <2>2, <2>3 DEF Typed
<1>6. HeldInv
  BY <1>3, <1>4 DEF HeldInv
<1>7. load.pc = "scan" /\ plan.code = "none"
  BY <1>2 DEF Idle, NoPlan
<1>8. ReadInv /\ RegistryInv /\ PlanInv
  BY <1>2, <1>7 DEF ReadInv, RegistryInv, PlanInv
<1> QED BY <1>5, <1>6, <1>8 DEF PackInv

(* Every step of the loader, the registry, the planner and the editor. *)
LEMMA StepKeeps ==
  ASSUME PackInv, PackAssumption, [PackNext]_packVars
  PROVE  PackInv'
<1>1. CASE Scan \/ Lstat \/ Open \/ ReadHead \/ ReadTail \/ Settle
  BY <1>1, ScanKeeps, ReadKeeps, SettleKeeps
<1>2. ASSUME NEW defaults \in BOOLEAN, Register(defaults) PROVE PackInv'
  BY <1>2, RegisterKeeps
<1>3. ASSUME NEW tool \in {"ready", "missing", "other-version", "unidentified"},
             NEW given \in [Names -> Raw], Plan(tool, given)
      PROVE  PackInv'
  BY <1>3, PlanKeeps
<1>4. ASSUME NEW doc \in Docs, EndCommand(doc) PROVE PackInv'
  BY <1>4, FinishKeeps
<1>5. ASSUME NEW d \in Drafts, \/ Overwrite(d, "head") \/ Overwrite(d, "tail")
                               \/ Replace(d, FALSE) \/ Replace(d, TRUE)
      PROVE  PackInv'
  <2>1. CASE Overwrite(d, "head") \/ Overwrite(d, "tail")
    BY <2>1, OverwriteKeeps
  <2>2. CASE Replace(d, FALSE) \/ Replace(d, TRUE)
    BY <2>2, ReplaceKeeps
  <2> QED BY <1>5, <2>1, <2>2
<1>6. CASE UNCHANGED packVars
  BY <1>6 DEF packVars, PackInv, Typed, HeldInv, ReadInv, RegistryInv, PlanInv
<1> QED BY <1>1, <1>2, <1>3, <1>4, <1>5, <1>6 DEF PackNext

(* The inductive invariant, in every reachable state. *)
THEOREM PackInvariant == PackSpec => []PackInv
<1>1. PackInit => PackInv
  BY PackInitially, PackAssumption
<1>2. PackInv /\ [PackNext]_packVars => PackInv'
  BY StepKeeps, PackAssumption
<1> QED BY <1>1, <1>2, PTL DEF PackSpec

(* loadLocalFile looks at the opened file again after reading: whatever is   *)
(* overwritten or replaced meanwhile, what the registry admits was, as a     *)
(* whole, the content of one file, and a reserved id has its own content.    *)
THEOREM OneVersion == PackSpec => []LoadedIsOneVersion
<1>1. ASSUME PackInv PROVE LoadedIsOneVersion
  <2>1. DOMAIN file = 1 .. Len(file) /\ Len(file) \in Nat
    BY <1>1, LenProperties DEF PackInv, Typed
  <2>2. NoPlan.code = "none"
    BY DEF NoPlan
  <2>3. PackTypeOK
    BY <1>1, <2>1, <2>2 DEF PackInv, Typed, Loads, RegistryInv, PlanInv, PackTypeOK
  <2>4. registry # None => /\ registry \in file[load.opened].held
                           /\ registry[1].id = Builtin[1].id => registry = Builtin
    BY <1>1 DEF PackInv, RegistryInv, ReadInv
  <2> QED BY <2>3, <2>4 DEF LoadedIsOneVersion
<1>2. PackInv => LoadedIsOneVersion
  BY <1>1
<1> QED BY <1>2, PackInvariant, PTL

-----------------------------------------------------------------------------
(* Lists of lists *)

(* The least of a set of numbers. *)
LEMMA LeastOf ==
  ASSUME NEW S \in SUBSET Nat, S # {}
  PROVE  \E x \in S : \A y \in S : x <= y
<1> DEFINE Less == {p \in Nat \X Nat : p[1] < p[2]}
<1>1. OpToRel(<, Nat) = Less
  BY Zenon DEF OpToRel
<1>2. IsWellFoundedOn(Less, Nat)
  BY <1>1, NatLessThanWellFounded, Zenon
<1>3. PICK x \in S : \A y \in S : ~ (<<y, x>> \in Less)
  <2> HIDE DEF Less
  <2> QED BY <1>2, WFMin, Zenon
<1>4. \A y \in S : ~ (y < x)
  BY <1>3
<1> QED BY <1>3, <1>4

(* The lists joined so far. *)
Joins(f, seqs, n) == f = [i \in 1 .. n |-> IF i = 1 THEN seqs[i] ELSE f[i - 1] \o seqs[i]]

(* The lists joined so far exist for every length: there is no least one     *)
(* for which they do not.                                                    *)
LEMMA JoinsExists ==
  ASSUME NEW seqs, NEW n \in Nat
  PROVE  \E f : Joins(f, seqs, n)
<1> DEFINE Bad == {m \in Nat : ~ \E f : Joins(f, seqs, m)}
<1>1. SUFFICES ASSUME Bad # {} PROVE FALSE
  OBVIOUS
<1>2. PICK m \in Bad : \A k \in Bad : m <= k
  <2>1. Bad \in SUBSET Nat
    OBVIOUS
  <2> HIDE DEF Bad
  <2> QED BY <1>1, <2>1, LeastOf
<1>3. m # 0
  <2>1. SUFFICES ASSUME m = 0 PROVE \E f : Joins(f, seqs, m)
    OBVIOUS
  <2>2. Joins([i \in 1 .. 0 |-> 0], seqs, m)
    BY <2>1 DEF Joins
  <2> QED BY <2>2
<1>4. m \in Nat /\ m - 1 \in Nat /\ m - 1 \notin Bad
  <2>1. m \in Nat /\ m - 1 \in Nat /\ ~ (m <= m - 1)
    BY <1>3
  <2> QED BY <1>2, <2>1
<1>5. PICK g : Joins(g, seqs, m - 1)
  BY <1>4
<1> DEFINE f == [i \in 1 .. m |-> IF i < m THEN g[i] ELSE IF i = 1 THEN seqs[i] ELSE g[i - 1] \o seqs[i]]
<1>6. ASSUME NEW i \in 1 .. m
      PROVE  f[i] = IF i = 1 THEN seqs[i] ELSE f[i - 1] \o seqs[i]
  <2>1. CASE i < m
    <3>1. i \in 1 .. m - 1 /\ f[i] = g[i]
      BY <1>4, <2>1
    <3>2. g[i] = IF i = 1 THEN seqs[i] ELSE g[i - 1] \o seqs[i]
      BY <1>5, <3>1 DEF Joins
    <3>3. i # 1 => f[i - 1] = g[i - 1]
      BY <1>4, <2>1
    <3> QED BY <3>1, <3>2, <3>3
  <2>2. CASE i = m
    <3>1. i # 1 => f[i - 1] = g[i - 1]
      BY <1>4, <2>2
    <3> QED BY <2>2, <3>1
  <2> QED BY <1>4, <2>1, <2>2
<1>7. Joins(f, seqs, m)
  <2>1. f = [i \in 1 .. m |-> f[i]]
    OBVIOUS
  <2> HIDE DEF f
  <2> QED BY <1>6, <2>1 DEF Joins
<1> QED BY <1>7

(* Joining lists of elements yields a list of such elements. *)
LEMMA FlattenDoes ==
  ASSUME NEW S, NEW n \in Nat, NEW seqs, Len(seqs) = n, DOMAIN seqs = 1 .. n,
         seqs = [i \in 1 .. n |-> seqs[i]], \A i \in 1 .. n : seqs[i] \in Seq(S)
  PROVE  FlattenSeq(seqs) \in Seq(S)
<1>1. CASE n = 0
  <2>1. FlattenSeq(seqs) = seqs
    BY <1>1 DEF FlattenSeq
  <2>2. seqs \in [1 .. 0 -> S]
    BY <1>1
  <2>3. seqs \in Seq(S)
    BY <2>2, SeqDef
  <2> QED BY <2>1, <2>3
<1>2. CASE n # 0
  <2> DEFINE f == CHOOSE f : Joins(f, seqs, n)
  <2>1. Joins(f, seqs, n)
    BY JoinsExists
  <2>2. FlattenSeq(seqs) = f[n]
    BY <1>2 DEF FlattenSeq, Joins
  <2> HIDE DEF f
  <2> DEFINE Bad == {m \in 1 .. n : f[m] \notin Seq(S)}
  <2>3. SUFFICES ASSUME Bad # {} PROVE FALSE
    BY <1>2, <2>2
  <2>4. PICK m \in Bad : \A k \in Bad : m <= k
    <3>1. Bad \in SUBSET Nat
      OBVIOUS
    <3> HIDE DEF Bad
    <3> QED BY <2>3, <3>1, LeastOf
  <2>5. f[m] = IF m = 1 THEN seqs[m] ELSE f[m - 1] \o seqs[m]
    BY <2>1 DEF Joins
  <2>6. CASE m = 1
    BY <2>5, <2>6
  <2>7. CASE m # 1
    <3>1. m - 1 \in 1 .. n /\ ~ (m <= m - 1)
      BY <2>7
    <3>2. f[m - 1] \in Seq(S) /\ seqs[m] \in Seq(S)
      BY <2>4, <3>1
    <3> QED BY <2>5, <2>7, <3>2, ConcatProperties
  <2> QED BY <2>6, <2>7
<1> QED BY <1>1, <1>2

-----------------------------------------------------------------------------
(* The planner *)

(* A pack that was loaded: its content passed validation, its lists are     *)
(* lists.                                                                   *)
Accepted(content) ==
    /\ Parse(content)
    /\ DOMAIN content[1].inputs \subseteq Nat
    /\ \A k \in DOMAIN content[1].inputs : content[1].inputs[k].id \in Names
    /\ Len(content[2].argv) \in Nat /\ DOMAIN content[2].argv = 1 .. Len(content[2].argv)

Values(content, given) ==
    [id \in Ids(content[1].inputs) |-> InputValue(InputOf(content[1].inputs, id), given)]

(* What the registry holds has passed validation. *)
LEMMA AdmittedIsAccepted ==
  ASSUME PackInv, PackAssumption, registry # None
  PROVE  Accepted(registry)
<1>1. /\ registry = <<load.head, load.tail>> /\ load.head \in Heads /\ load.tail \in Tails
      /\ Parse(registry)
  BY DEF PackInv, RegistryInv, ReadInv
<1>2. registry[1] \in Heads /\ registry[2] \in Tails
  BY <1>1
<1>3. PICK d \in Packs \cup Drafts : registry[1] = d[1]
  BY <1>2 DEF Heads
<1>4. PICK e \in Packs \cup Drafts : registry[2] = e[2]
  BY <1>2 DEF Tails
<1> QED BY <1>1, <1>3, <1>4 DEF Accepted, PackAssumption

(* An identifier names one input, which is valid. *)
LEMMA Declared ==
  ASSUME NEW content, Accepted(content), NEW id \in Ids(content[1].inputs)
  PROVE  /\ \E k \in DOMAIN content[1].inputs : InputOf(content[1].inputs, id) = content[1].inputs[k]
         /\ InputOf(content[1].inputs, id).id = id
         /\ validateInput(InputOf(content[1].inputs, id))
<1> DEFINE inputs == content[1].inputs
<1>1. \E k \in DOMAIN inputs : inputs[k].id = id
  BY DEF Ids
<1>2. PICK k \in DOMAIN inputs : inputs[k].id = id /\ InputOf(inputs, id) = inputs[k]
  <2> DEFINE c == CHOOSE k \in DOMAIN inputs : inputs[k].id = id
  <2>1. c \in DOMAIN inputs /\ inputs[c].id = id
    BY <1>1
  <2>2. InputOf(inputs, id) = inputs[c]
    BY DEF InputOf
  <2> QED BY <2>1, <2>2
<1>3. validateInput(inputs[k])
  BY <1>2 DEF Accepted, Parse, validateSemantics
<1> QED BY <1>2, <1>3

(* What the planner accepts as a value. *)
LEMMA ValueIs ==
  ASSUME NEW i, NEW given
  PROVE  LET x == InputValue(i, given)
         IN  /\ x.code \in {"ok", "missing_input", "invalid_input"}
             /\ x.code = "ok" /\ i.required => x.present
             /\ x.code = "ok" /\ x.present /\ i.type \in {"string", "enum", "secret"} =>
                   validateString(i, x.text)
<1> DEFINE x == InputValue(i, given)
<1>1. CASE given[i.id].kind = "absent"
  BY <1>1 DEF InputValue, Absent
<1>2. CASE given[i.id].kind # "absent"
  <2> DEFINE raw == given[i.id]
  <2>1. x = parseValue(i, raw)
    BY <1>2 DEF InputValue
  <2>2. CASE i.type \in {"string", "enum", "secret"}
    <3>1. x = IF raw.kind = "string" /\ validateString(i, raw.text) THEN Value(raw.text, FALSE) ELSE Refused
      BY <2>1, <2>2 DEF parseValue
    <3>2. CASE raw.kind = "string" /\ validateString(i, raw.text)
      <4>1. x.code = "ok" /\ x.present /\ x.text = raw.text
        BY <3>1, <3>2 DEF Value
      <4> QED BY <3>2, <4>1
    <3>3. CASE ~ (raw.kind = "string" /\ validateString(i, raw.text))
      BY <3>1, <3>3 DEF Refused, Absent
    <3> QED BY <3>2, <3>3
  <2>3. CASE i.type \notin {"string", "enum", "secret"}
    <3>1. x = Refused \/ \E t, b : x = Value(t, b)
      BY <2>1, <2>3 DEF parseValue
    <3>2. x.code \in {"ok", "invalid_input"} /\ (x.code = "ok" => x.present)
      <4>1. CASE x = Refused
        BY <4>1 DEF Refused, Absent
      <4>2. ASSUME NEW t, NEW b, x = Value(t, b) PROVE x.code = "ok" /\ x.present
        BY <4>2 DEF Value
      <4> QED BY <3>1, <4>1, <4>2
    <3> QED BY <2>3, <3>2
  <2> QED BY <2>2, <2>3
<1> QED BY <1>1, <1>2

(* The same of a declared input's entry among the parsed values. *)
LEMMA ValueOf ==
  ASSUME NEW content, Accepted(content), NEW given, NEW id \in Ids(content[1].inputs)
  PROVE  LET i == InputOf(content[1].inputs, id)
             x == Values(content, given)[id]
         IN  /\ x.code \in {"ok", "missing_input", "invalid_input"}
             /\ x.code = "ok" /\ i.required => x.present
             /\ x.code = "ok" /\ x.present /\ i.type \in {"string", "enum", "secret"} =>
                   validateString(i, x.text)
<1>1. Values(content, given)[id] = InputValue(InputOf(content[1].inputs, id), given)
  BY DEF Values
<1> QED BY <1>1, ValueIs

(* Every value parsed. *)
Parsed(content, v) ==
    /\ DOMAIN v = Ids(content[1].inputs)
    /\ \A id \in Ids(content[1].inputs) :
          LET i == InputOf(content[1].inputs, id)
          IN  /\ i.required => v[id].present
              /\ v[id].present /\ i.type \in {"string", "enum", "secret"} => validateString(i, v[id].text)

(* Words that no user chose, and words of an input that may stand in argv.  *)
Words(content, v) ==
    {Word("literal"), Word("--name"), Word("mapped")}
    \cup {[user |-> TRUE, text |-> v[id].text, from |-> id] :
            id \in {id \in Ids(content[1].inputs) :
                      LET i == InputOf(content[1].inputs, id)
                      IN  i.type # "secret" /\ (Dashed(v[id].text) => i.type = "integer")}}

(* A valid argument has its value and contributes such words. *)
LEMMA ArgumentIs ==
  ASSUME NEW content, Accepted(content), NEW v, Parsed(content, v),
         NEW k \in DOMAIN content[2].argv
  PROVE  /\ ~ Unmapped(content[2].argv[k], v)
         /\ Argument(content[2].argv[k], v) \in Seq(Words(content, v))
<1> DEFINE arg == content[2].argv[k]
           inputs == content[1].inputs
           i == InputOf(inputs, arg.from)
           W == Words(content, v)
<1>1. validateArgument(arg, inputs)
  BY DEF Accepted, Parse, validateSemantics
<1>2. Word("literal") \in W /\ Word("--name") \in W /\ Word("mapped") \in W
  BY DEF Words
<1>s. <<>> \in Seq(W) /\ \A w \in W : <<w>> \in Seq(W)
  OBVIOUS
<1>3. CASE arg.kind = "literal"
  <2>1. ~ Unmapped(arg, v)
    BY <1>3 DEF Unmapped
  <2>2. Argument(arg, v) = <<Word("literal")>>
    BY <1>3 DEF Argument
  <2> QED BY <1>s, <1>2, <2>1, <2>2
<1>4. CASE arg.kind \in {"flag", "positional"}
  <2>1. arg.from \in Ids(inputs) /\ i.type \in {"string", "integer", "enum"} /\ DashFree(i)
    BY <1>1, <1>4 DEF validateArgument, validateValue
  <2>2. ~ Unmapped(arg, v)
    BY <1>4, <2>1 DEF Unmapped, Parsed
  <2> DEFINE w == [user |-> TRUE, text |-> v[arg.from].text, from |-> arg.from]
  <2>3. ASSUME v[arg.from].present PROVE w \in W
    <3>1. i.type \in {"string", "enum"} => validateString(i, v[arg.from].text)
      BY <2>1, <2>3 DEF Parsed
    <3>2. Dashed(v[arg.from].text) => i.type = "integer"
      BY <2>1, <3>1 DEF DashFree, validateString
    <3> QED BY <2>1, <3>2 DEF Words
  <2>4. CASE Argument(arg, v) = <<>>
    BY <2>2, <2>4
  <2>5. CASE Argument(arg, v) # <<>>
    <3>1. /\ v[arg.from].present
          /\ Argument(arg, v) = (IF arg.kind = "flag" THEN <<Word("--name")>> ELSE <<>>) \o <<w>>
      BY <1>4, <2>5 DEF Argument
    <3>2. w \in W
      BY <2>3, <3>1
    <3> HIDE DEF w
    <3>3. <<w>> \in Seq(W) /\ <<Word("--name")>> \in Seq(W) /\ <<>> \in Seq(W)
      BY <1>s, <1>2, <3>2
    <3>4. CASE arg.kind = "flag"
      BY <2>2, <3>1, <3>3, <3>4, ConcatProperties
    <3>5. CASE arg.kind # "flag"
      <4>1. Argument(arg, v) = <<>> \o <<w>>
        BY <3>1, <3>5
      <4> QED BY <2>2, <4>1, <3>3, ConcatProperties
    <3> QED BY <3>4, <3>5
  <2> QED BY <2>4, <2>5
<1>5. CASE arg.kind = "switch"
  <2>1. ~ Unmapped(arg, v)
    BY <1>1, <1>5 DEF Unmapped, validateArgument, Parsed
  <2>2. Argument(arg, v) \in {<<Word("--name")>>, <<>>}
    BY <1>5 DEF Argument
  <2> QED BY <1>s, <1>2, <2>1, <2>2
<1>6. CASE arg.kind = "map"
  <2>1. arg.from \in Ids(inputs) /\ i.type = "enum" /\ i.required /\ arg.values = i.enum
    BY <1>1, <1>6 DEF validateArgument, validateMap
  <2>2. v[arg.from].present /\ validateString(i, v[arg.from].text)
    BY <2>1 DEF Parsed
  <2>3. ~ Unmapped(arg, v)
    BY <1>6, <2>1, <2>2 DEF Unmapped, Parsed, validateString
  <2>4. Argument(arg, v) = <<Word("mapped")>>
    BY <1>6 DEF Argument
  <2> QED BY <1>s, <1>2, <2>3, <2>4
<1> QED BY <1>1, <1>3, <1>4, <1>5, <1>6 DEF validateArgument

(* The whole of argv. *)
LEMMA ArgvIs ==
  ASSUME NEW content, Accepted(content), NEW v, Parsed(content, v)
  PROVE  FlattenSeq([k \in DOMAIN content[2].argv |-> Argument(content[2].argv[k], v)])
            \in Seq(Words(content, v))
<1> DEFINE W == Words(content, v)
           n == Len(content[2].argv)
           seqs == [k \in 1 .. n |-> Argument(content[2].argv[k], v)]
<1>1. n \in Nat /\ DOMAIN content[2].argv = 1 .. n
  BY DEF Accepted
<1>2. \A k \in 1 .. n : seqs[k] \in Seq(W)
  BY <1>1, ArgumentIs
<1> HIDE DEF W, n
<1>3. seqs = [k \in 1 .. n |-> seqs[k]] /\ DOMAIN seqs = 1 .. n
  OBVIOUS
<1>4. Len(seqs) = n
  BY <1>1
<1>5. FlattenSeq(seqs) \in Seq(W)
  <2> HIDE DEF seqs
  <2> QED BY <1>1, <1>2, <1>3, <1>4, FlattenDoes
<1> QED BY <1>1, <1>5 DEF W

(* Stdin of a valid command has its value, and what it may hold. *)
LEMMA StdinIs ==
  ASSUME NEW content, Accepted(content), NEW v, Parsed(content, v)
  PROVE  LET inputs == content[1].inputs
             c == content[2]
             r == renderStdin(c.stdin, v, inputs)
         IN  /\ ~ Unfilled(c.stdin, v)
             /\ r.from # None =>
                   /\ r.sensitive <=> InputOf(inputs, r.from).type = "secret"
                   /\ r.quoted \/ r.sensitive \/ Plain(r.text)
<1> DEFINE inputs == content[1].inputs
           c == content[2]
           i == InputOf(inputs, c.stdin.from)
           r == renderStdin(c.stdin, v, inputs)
<1>1. validateStdin(c, inputs)
  BY DEF Accepted, Parse, validateSemantics
<1>2. CASE c.stdin.kind = "none"
  BY <1>2 DEF Unfilled, renderStdin, NoStdin
<1>3. CASE c.stdin.kind = "input"
  <2>1. c.stdin.from \in Ids(inputs) /\ i.type = "secret"
    BY <1>1, <1>3 DEF validateStdin
  <2>2. i.required
    BY <2>1, Declared DEF validateInput
  <2>3. v[c.stdin.from].present /\ c.stdin.from \in DOMAIN v
    BY <2>1, <2>2 DEF Parsed
  <2>4. r.sensitive /\ r.from = c.stdin.from
    BY <1>3 DEF renderStdin
  <2> QED BY <2>1, <2>3, <2>4 DEF Unfilled
<1>4. CASE c.stdin.kind = "template"
  <2>1. /\ c.stdin.from \in Ids(inputs) /\ i.required
        /\ \/ i.type \in {"string", "integer"}
           \/ i.type = "enum" /\ \A t \in i.enum : Plain(t)
    BY <1>1, <1>4 DEF validateStdin
  <2>2. v[c.stdin.from].present /\ c.stdin.from \in DOMAIN v
    BY <2>1 DEF Parsed
  <2>3. /\ r.from = c.stdin.from /\ r.text = v[c.stdin.from].text
        /\ r.sensitive = FALSE /\ r.quoted = (i.type # "enum")
    BY <1>4 DEF renderStdin
  <2>4. i.type = "enum" => Plain(r.text)
    BY <2>1, <2>2, <2>3 DEF Parsed, validateString
  <2> QED BY <2>1, <2>2, <2>3, <2>4 DEF Unfilled
<1> QED BY <1>1, <1>2, <1>3, <1>4 DEF validateStdin

(* What a mutation acts on has a value of an input that may be shown. *)
LEMMA ImpactIs ==
  ASSUME NEW content, Accepted(content), NEW v, Parsed(content, v)
  PROVE  LET c == content[2]
         IN  /\ c.risk \in {"change", "destructive"} <=> c.impact # None
             /\ c.impact # None =>
                   /\ c.impact \in DOMAIN v /\ v[c.impact].present
                   /\ InputOf(content[1].inputs, c.impact).type # "secret"
<1>1. validateImpact(content[2], content[1].inputs)
  BY DEF Accepted, Parse, validateSemantics
<1> QED BY <1>1 DEF validateImpact, Parsed

Fields == {"code", "at", "args", "stdin", "target", "tool"}

(* A refusal has its code and nothing else. *)
LEMMA ErrorsAre ==
  ASSUME NEW s
  PROVE  /\ DOMAIN Error(s) = Fields /\ Error(s).code = s
         /\ DOMAIN Invalid(s) = Fields /\ Invalid(s).code = "invalid_plan_state" /\ Invalid(s).at = s
BY DEF Error, Invalid, NoPlan, Fields

(* From parsed values Build makes a plan, or refuses a target. *)
LEMMA AssembleIs ==
  ASSUME NEW content, Accepted(content), NEW v, Parsed(content, v)
  PROVE  LET c == content[2]
             p == Assemble(content[1], c, v)
         IN  /\ DOMAIN p = Fields
             /\ p.code \in {"ok", "invalid_input", "invalid_plan_state"}
             /\ p.code = "invalid_plan_state" => p.at = "empty target"
             /\ p.code = "ok" =>
                   /\ p.args = FlattenSeq([k \in DOMAIN c.argv |-> Argument(c.argv[k], v)])
                   /\ p.stdin = renderStdin(c.stdin, v, content[1].inputs)
                   /\ c.impact # None => p.target = v[c.impact].text /\ Display(p.target)
<1> DEFINE c == content[2]
           h == content[1]
           p == Assemble(h, c, v)
           args == FlattenSeq([k \in DOMAIN c.argv |-> Argument(c.argv[k], v)])
           stdin == renderStdin(c.stdin, v, h.inputs)
           target == IF c.impact = None THEN None ELSE v[c.impact].text
           plain == [NoPlan EXCEPT !.code = "ok", !.args = args, !.stdin = stdin, !.target = target]
<1>1. ~ (c.impact # None /\ (c.impact \notin DOMAIN v \/ ~v[c.impact].present))
  BY ImpactIs
<1>2. ~ \E k \in DOMAIN c.argv : Unmapped(c.argv[k], v)
  BY ArgumentIs
<1>3. ~ Unfilled(c.stdin, v)
  BY StdinIs
<1>4. p = IF c.impact # None /\ v[c.impact].text = "" THEN Invalid("empty target")
          ELSE IF c.impact # None /\ ~Display(v[c.impact].text) THEN Error("invalid_input")
          ELSE plain
  BY <1>1, <1>2, <1>3 DEF Assemble
<1>5. CASE p = Invalid("empty target") \/ p = Error("invalid_input")
  BY <1>5, ErrorsAre
<1>6. CASE p = plain /\ (c.impact # None => Display(v[c.impact].text))
  <2> HIDE DEF args, stdin, target
  <2>1. /\ DOMAIN plain = Fields /\ plain.code = "ok" /\ plain.args = args
        /\ plain.stdin = stdin /\ plain.target = target
    BY DEF NoPlan, Fields
  <2>2. c.impact # None => target = v[c.impact].text
    BY DEF target
  <2> HIDE DEF plain
  <2> QED BY <1>6, <2>1, <2>2 DEF args, stdin
<1> QED BY <1>4, <1>5, <1>6

(* Build refuses for a reason, or assembles parsed values. *)
LEMMA BuildIs ==
  ASSUME NEW content, Accepted(content), NEW tool, NEW given
  PROVE  LET c == content[2]
             v == Values(content, given)
             p == Build(content, tool, given)
         IN  \/ \E s \in {"risk_policy_required", "auth_policy_required", "output_policy_required",
                          "tool_unavailable"} :
                   p = Error(s) /\ ~ListTasks(c, tool)
             \/ /\ ListTasks(c, tool)
                /\ \/ \E s \in {"stale_discovery", "unknown_input", "missing_input", "invalid_input"} :
                         p = Error(s)
                   \/ Parsed(content, v) /\ p = Assemble(content[1], c, v)
<1> DEFINE h == content[1]
           c == content[2]
           v == Values(content, given)
           p == Build(content, tool, given)
           bad == {k \in DOMAIN h.inputs : v[h.inputs[k].id].code # "ok"}
           least == CHOOSE k \in bad : \A j \in bad : k <= j
<1>1. ~ (c.risk \in {"change", "destructive"} /\ c.impact = None)
  <2>1. validateImpact(c, h.inputs)
    BY DEF Accepted, Parse, validateSemantics
  <2> QED BY <2>1 DEF validateImpact
<1>2. p = IF c.risk \notin {"read", "change", "destructive"} THEN Error("risk_policy_required")
          ELSE IF c.auth = "unspecified" THEN Error("auth_policy_required")
          ELSE IF c.output.containsSecrets THEN Error("output_policy_required")
          ELSE IF tool = "missing" THEN Error("tool_unavailable")
          ELSE IF tool \in {"other-version", "unidentified"} THEN Error("stale_discovery")
          ELSE IF \E id \in DOMAIN given \ Ids(h.inputs) : given[id].kind # "absent"
               THEN Error("unknown_input")
          ELSE IF bad # {} THEN Error(v[h.inputs[least].id].code)
          ELSE Assemble(h, c, v)
  BY <1>1 DEF Build, Values
<1>3. bad # {} => v[h.inputs[least].id].code \in {"missing_input", "invalid_input"}
  <2>1. SUFFICES ASSUME bad # {} PROVE v[h.inputs[least].id].code \in {"missing_input", "invalid_input"}
    OBVIOUS
  <2>2. bad \in SUBSET Nat
    BY DEF Accepted
  <2>3. least \in bad
    <3> HIDE DEF bad
    <3> QED BY <2>1, <2>2, LeastOf
  <2> HIDE DEF least
  <2>4. h.inputs[least].id \in Ids(h.inputs)
    BY <2>3 DEF Ids
  <2>5. v[h.inputs[least].id].code \in {"ok", "missing_input", "invalid_input"}
    BY <2>4, ValueOf
  <2> QED BY <2>3, <2>5
<1>4. bad = {} => Parsed(content, v)
  <2>1. SUFFICES ASSUME bad = {} PROVE Parsed(content, v)
    OBVIOUS
  <2>2. DOMAIN v = Ids(h.inputs)
    BY DEF Values
  <2>3. \A id \in Ids(h.inputs) : v[id].code = "ok"
    BY <2>1 DEF Ids
  <2> QED BY <2>2, <2>3, ValueOf DEF Parsed
<1> HIDE DEF bad, least, v, p
<1>5. CASE ~ ListTasks(c, tool)
  BY <1>2, <1>5 DEF ListTasks, commandBrowserRunnable, p, v
<1>6. CASE ListTasks(c, tool)
  <2>1. p = IF tool \in {"other-version", "unidentified"} THEN Error("stale_discovery")
            ELSE IF \E id \in DOMAIN given \ Ids(h.inputs) : given[id].kind # "absent"
                 THEN Error("unknown_input")
            ELSE IF bad # {} THEN Error(v[h.inputs[least].id].code)
            ELSE Assemble(h, c, v)
    BY <1>2, <1>6 DEF ListTasks, commandBrowserRunnable
  <2>2. \/ p \in {Error("stale_discovery"), Error("unknown_input")}
        \/ bad # {} /\ p = Error(v[h.inputs[least].id].code)
        \/ bad = {} /\ p = Assemble(h, c, v)
    BY <2>1
  <2> QED BY <1>3, <1>4, <1>6, <2>2 DEF p, v
<1> QED BY <1>5, <1>6

(* The planner's answer, if there is one. *)
LEMMA PlanIs ==
  ASSUME PackInv, PackAssumption, plan.code # "none"
  PROVE  /\ registry # None /\ Accepted(registry)
         /\ \E given \in [Names -> Raw] :
               LET p == Build(registry, plan.tool, given)
               IN  /\ plan.code = p.code /\ plan.at = p.at /\ plan.args = p.args
                   /\ plan.stdin = p.stdin /\ plan.target = p.target
<1>1. plan # NoPlan
  BY DEF NoPlan
<1>2. registry # None
  BY <1>1 DEF PackInv, PlanInv
<1>3. Accepted(registry)
  BY <1>2, AdmittedIsAccepted
<1>4. PICK tool \in {"ready", "missing", "other-version", "unidentified"}, given \in [Names -> Raw] :
         plan = [Build(registry, tool, given) EXCEPT !.tool = tool]
  BY <1>1 DEF PackInv, PlanInv
<1> DEFINE p == Build(registry, tool, given)
<1>5. DOMAIN p = Fields
  <2>1. \/ \E s : p = Error(s)
        \/ Parsed(registry, Values(registry, given))
           /\ p = Assemble(registry[1], registry[2], Values(registry, given))
    BY <1>3, BuildIs
  <2> HIDE DEF p
  <2>2. CASE \E s : p = Error(s)
    BY <2>2, ErrorsAre
  <2>3. CASE /\ Parsed(registry, Values(registry, given))
             /\ p = Assemble(registry[1], registry[2], Values(registry, given))
    BY <1>3, <2>3, AssembleIs
  <2> QED BY <2>1, <2>2, <2>3
<1>6. /\ plan.code = p.code /\ plan.at = p.at /\ plan.args = p.args
      /\ plan.stdin = p.stdin /\ plan.target = p.target /\ plan.tool = tool
  <2> HIDE DEF p
  <2>1. plan = [p EXCEPT !.tool = tool]
    BY <1>4 DEF p
  <2> QED BY <1>5, <2>1 DEF Fields
<1> QED BY <1>2, <1>3, <1>6

(* Build never meets, with any values, a state that validateSemantics should *)
(* have excluded, except the empty text as a target, and it agrees with what *)
(* newTaskCatalog lists.                                                     *)
THEOREM TotalPlans == PackSpec => []PlansAreTotal
<1>1. ASSUME PackInv, plan.code # "none" PROVE PlansAreTotal
  <2>1. Accepted(registry)
    BY <1>1, PlanIs, PackAssumption
  <2>2. PICK given \in [Names -> Raw] :
           LET p == Build(registry, plan.tool, given)
           IN  plan.code = p.code /\ plan.at = p.at
    BY <1>1, PlanIs, PackAssumption
  <2> DEFINE p == Build(registry, plan.tool, given)
             v == Values(registry, given)
  <2>3. CASE /\ ~ListTasks(registry[2], plan.tool)
             /\ \E s \in {"risk_policy_required", "auth_policy_required", "output_policy_required",
                          "tool_unavailable"} : p = Error(s)
    <3>1. p.code \in {"risk_policy_required", "auth_policy_required", "output_policy_required",
                      "tool_unavailable"}
      BY <2>3, ErrorsAre
    <3> QED BY <2>2, <2>3, <3>1 DEF PlansAreTotal
  <2>4. CASE /\ ListTasks(registry[2], plan.tool)
             /\ \E s \in {"stale_discovery", "unknown_input", "missing_input", "invalid_input"} :
                   p = Error(s)
    <3>1. p.code \in {"stale_discovery", "unknown_input", "missing_input", "invalid_input"}
      BY <2>4, ErrorsAre
    <3> QED BY <2>2, <2>4, <3>1 DEF PlansAreTotal
  <2>5. CASE /\ ListTasks(registry[2], plan.tool)
             /\ Parsed(registry, v) /\ p = Assemble(registry[1], registry[2], v)
    <3>1. /\ p.code \in {"ok", "invalid_input", "invalid_plan_state"}
          /\ p.code = "invalid_plan_state" => p.at = "empty target"
      <4> HIDE DEF p, v
      <4> QED BY <2>1, <2>5, AssembleIs
    <3> QED BY <2>2, <2>5, <3>1 DEF PlansAreTotal
  <2> QED BY <2>1, <2>3, <2>4, <2>5, BuildIs
<1>2. PackInv => PlansAreTotal
  BY <1>1 DEF PlansAreTotal
<1> QED BY <1>2, PackInvariant, PTL

(* renderArgv and renderStdin put into argv and stdin of a plan only what the *)
(* pack declares: no secret in argv, a dash from numbers alone, no text      *)
(* unquoted in YAML, and a mutation shows a target that can be read.         *)
THEOREM DeclaredPlans == PackSpec => []PlanIsDeclared
<1>1. ASSUME PackInv, plan.code = "ok" PROVE PlanIsDeclared
  <2>1. registry # None /\ Accepted(registry)
    BY <1>1, PlanIs, PackAssumption
  <2>2. PICK given \in [Names -> Raw] :
           LET p == Build(registry, plan.tool, given)
           IN  /\ plan.code = p.code /\ plan.args = p.args
               /\ plan.stdin = p.stdin /\ plan.target = p.target
    BY <1>1, PlanIs, PackAssumption
  <2> DEFINE p == Build(registry, plan.tool, given)
             v == Values(registry, given)
             c == registry[2]
             inputs == registry[1].inputs
  <2>3. Parsed(registry, v) /\ p = Assemble(registry[1], c, v) /\ ListTasks(c, plan.tool)
    <3>1. ~ \E s \in {"risk_policy_required", "auth_policy_required", "output_policy_required",
                      "tool_unavailable", "stale_discovery", "unknown_input", "missing_input",
                      "invalid_input"} : p = Error(s)
      BY <1>1, <2>2, ErrorsAre
    <3> QED BY <2>1, <3>1, BuildIs
  <2>4. /\ plan.args = FlattenSeq([k \in DOMAIN c.argv |-> Argument(c.argv[k], v)])
        /\ plan.stdin = renderStdin(c.stdin, v, inputs)
        /\ c.impact # None => Display(plan.target)
    <3>1. p.code = "ok"
      BY <1>1, <2>2
    <3> QED BY <2>1, <2>2, <2>3, <3>1, AssembleIs
  <2>5. ASSUME NEW k \in DOMAIN plan.args, plan.args[k].user
        PROVE  /\ InputOf(inputs, plan.args[k].from).type # "secret"
               /\ Dashed(plan.args[k].text) => InputOf(inputs, plan.args[k].from).type = "integer"
    <3>1. plan.args \in Seq(Words(registry, v))
      BY <2>1, <2>3, <2>4, ArgvIs
    <3>2. plan.args[k] \in Words(registry, v)
      BY <2>5, <3>1, ElementOfSeq, LenProperties
    <3>w. \A s : Word(s).user = FALSE
      BY DEF Word
    <3>3. PICK id \in Ids(inputs) :
             /\ plan.args[k] = [user |-> TRUE, text |-> v[id].text, from |-> id]
             /\ InputOf(inputs, id).type # "secret"
             /\ Dashed(v[id].text) => InputOf(inputs, id).type = "integer"
      BY <2>5, <3>2, <3>w DEF Words
    <3> QED BY <3>3
  <2>6. plan.stdin.from # None =>
           /\ plan.stdin.sensitive <=> InputOf(inputs, plan.stdin.from).type = "secret"
           /\ plan.stdin.quoted \/ plan.stdin.sensitive \/ Plain(plan.stdin.text)
    BY <2>1, <2>3, <2>4, StdinIs
  <2>7. c.risk # "read" => Display(plan.target)
    <3>1. c.risk # "read" => c.impact # None
      BY <2>1, <2>3, ImpactIs DEF ListTasks, commandBrowserRunnable
    <3> QED BY <2>4, <3>1
  <2>8. c.impact # None => InputOf(inputs, c.impact).type # "secret"
    BY <2>1, <2>3, ImpactIs
  <2> QED BY <2>5, <2>6, <2>7, <2>8 DEF PlanIsDeclared
<1>2. PackInv => PlanIsDeclared
  BY <1>1 DEF PlanIsDeclared
<1> QED BY <1>2, PackInvariant, PTL

-----------------------------------------------------------------------------
(* Results *)

(* A parsed object: each declared field with the one value printed for it.  *)
LEMMA ParsedResult ==
  ASSUME NEW doc, NEW fields,
         ParseStructured(doc, fields).status = "available",
         1 \in DOMAIN doc.rows, \A k \in DOMAIN doc.rows[1] : doc.rows[1][k] # None,
         \A j, k \in DOMAIN fields : fields[j].key = fields[k].key => j = k,
         NEW k \in DOMAIN ParseStructured(doc, fields).fields
  PROVE  LET shows == ParseStructured(doc, fields)
             printed == {e \in Range(shows.doc.rows[1]) : e.key = fields[k].key}
         IN  /\ k \in DOMAIN fields
             /\ IF shows.fields[k] = None THEN ~fields[k].required /\ printed = {}
                ELSE printed = {shows.fields[k]} /\ shows.fields[k].kind = fields[k].type
<1> DEFINE shows == ParseStructured(doc, fields)
           row == doc.rows[1]
           key == fields[k].key
           listed == [j \in DOMAIN fields |->
                        IF fields[j].key \in Keys(row) THEN Entry(row, fields[j].key) ELSE None]
           printed == {e \in Range(row) : e.key = key}
<1>1. /\ ~Repeats(row)
      /\ \A j \in DOMAIN row : \E m \in DOMAIN fields :
            fields[m].key = row[j].key /\ fields[m].type = row[j].kind
      /\ \A j \in DOMAIN fields : fields[j].required => fields[j].key \in Keys(row)
      /\ shows = [status |-> "available", doc |-> doc, fields |-> listed]
  BY DEF ParseStructured, NoOutput
<1>2. shows.doc = doc /\ shows.fields = listed
  BY <1>1
<1>3. k \in DOMAIN fields
  BY <1>2
<1>4. CASE key \in Keys(row)
  <2> DEFINE n == CHOOSE n \in DOMAIN row : row[n].key = key
  <2>1. n \in DOMAIN row /\ row[n].key = key
    BY <1>4 DEF Keys
  <2>2. shows.fields[k] = row[n]
    BY <1>2, <1>3, <1>4 DEF Entry
  <2> HIDE DEF n
  <2>3. \A j \in DOMAIN row : row[j].key = key => j = n
    BY <1>1, <2>1 DEF Repeats
  <2>4. printed = {row[n]}
    BY <2>1, <2>3 DEF Range
  <2>5. row[n].kind = fields[k].type
    BY <1>1, <1>3, <2>1
  <2> QED BY <1>2, <1>3, <2>1, <2>2, <2>4, <2>5
<1>5. CASE key \notin Keys(row)
  <2>1. shows.fields[k] = None
    BY <1>2, <1>3, <1>5
  <2>2. printed = {}
    BY <1>5 DEF Range, Keys
  <2> QED BY <1>1, <1>2, <1>3, <1>5, <2>1, <2>2
<1> QED BY <1>4, <1>5

(* What structured.Parse lets through is the declared fields, each with the  *)
(* one value printed for it, and a guarded pack shows nothing else.          *)
THEOREM DeclaredResults == PackSpec => []ResultIsDeclared
<1>1. ASSUME PackInv, shown # NoOutput PROVE ResultIsDeclared
  <2>1. PICK doc \in Docs : shown = Rendered(registry, doc)
    BY <1>1 DEF PackInv, PlanInv
  <2>2. Accepted(registry)
    <3>1. plan.code = "ok"
      BY <1>1 DEF PackInv, PlanInv
    <3> QED BY <1>1, <3>1, PlanIs, PackAssumption
  <2> DEFINE fields == registry[2].output.fields
  <2>3. CASE registry[1].id = Builtin[1].id
    <3>1. shown.status \in {"guarded", "withheld"}
      BY <2>1, <2>3 DEF Rendered, NoOutput
    <3> QED BY <3>1 DEF ResultIsDeclared
  <2>4. CASE registry[1].id # Builtin[1].id /\ fields = <<>>
    <3>1. shown.status = "raw"
      BY <2>1, <2>4 DEF Rendered, NoOutput
    <3> QED BY <2>4, <3>1 DEF ResultIsDeclared
  <2>5. CASE registry[1].id # Builtin[1].id /\ fields # <<>>
    <3>1. shown = ParseStructured(doc, fields)
      BY <2>1, <2>5 DEF Rendered
    <3>2. /\ \A j, k \in DOMAIN fields : fields[j].key = fields[k].key => j = k
          /\ \A k \in DOMAIN fields : ~fields[k].sensitive
      BY <2>2, <2>5 DEF Accepted, Parse, validateSemantics, validateOutput
    <3>3. shown.status = "available" => doc.shape = "object"
      BY <3>1 DEF ParseStructured, NoOutput
    <3>4. ASSUME shown.status = "available", NEW k \in DOMAIN shown.fields
          PROVE  LET f == fields[k]
                     printed == {e \in Range(shown.doc.rows[1]) : e.key = f.key}
                 IN  /\ ~f.sensitive
                     /\ IF shown.fields[k] = None THEN ~f.required /\ printed = {}
                        ELSE printed = {shown.fields[k]} /\ shown.fields[k].kind = f.type
      <4>1. 1 \in DOMAIN doc.rows /\ \A j \in DOMAIN doc.rows[1] : doc.rows[1][j] # None
        BY <3>3, <3>4, PackAssumption DEF PackAssumption
      <4> HIDE DEF fields
      <4> QED BY <3>1, <3>2, <3>4, <4>1, ParsedResult
    <3> QED BY <2>5, <3>4 DEF ResultIsDeclared
  <2> QED BY <2>3, <2>4, <2>5
<1>2. PackInv => ResultIsDeclared
  <2>1. shown = NoOutput => shown.status = "none"
    BY DEF NoOutput
  <2> QED BY <1>1, <2>1 DEF ResultIsDeclared
<1> QED BY <1>2, PackInvariant, PTL

-----------------------------------------------------------------------------
(* Running the command *)

(* The process at each place of Run. *)
PlaceInv ==
    /\ pc \in {"ready", "starting"} =>
          /\ proc = "none" /\ child = "none" /\ watch = "off"
          /\ \A s \in Streams : copier[s] = "ended"
    /\ pc \in {"attaching", "announcing", "waiting", "abandoned"} => proc \in {"running", "zombie"}
    /\ pc \in {"joining", "abandoned-joining"} => proc = "reaped"
    /\ pc = "done" => /\ proc \in {"none", "reaped"} /\ child # "alive" /\ watch # "armed"
                      /\ \A s \in Streams : copier[s] = "ended"
    /\ pc \in {"announcing", "waiting", "joining"} => attached

(* A kill reaches the whole group, and only a cancelled or abandoned run is *)
(* killed.                                                                  *)
KillInv ==
    /\ terminated => proc \in {"zombie", "reaped"} /\ child # "alive"
    /\ applied => terminated /\ ctxErr # "nil"
    /\ terminated => applied \/ pc \in {"abandoned", "abandoned-joining", "done"}
    /\ pc \in {"abandoned", "abandoned-joining"} => terminated
    /\ proc \in {"zombie", "reaped"} => exited \/ terminated

(* Nothing reaches the sink before the started event, and nothing at all    *)
(* when attaching failed.                                                   *)
TalkInv ==
    /\ pc \in {"ready", "starting", "attaching", "announcing"} => ~gate /\ events = <<>>
    /\ pc \in {"waiting", "joining"} => events # <<>>
    /\ pc \in {"abandoned", "abandoned-joining"} /\ first = "none" =>
          /\ child = "none"
          /\ \A s \in Streams : unread[s] = 0 /\ copier[s] # "writing"
    /\ pc # "done" => /\ status = "none"
                      /\ \A i \in DOMAIN events : events[i] \notin TerminalEvents

RunInv == PlaceInv /\ KillInv /\ TalkInv

-----------------------------------------------------------------------------
(* The invariant, part by part *)

(* What a kill leaves of the process and its group. *)
LEMMA KillTypes ==
  ASSUME TypeOK, CancelGroup
  PROVE  /\ terminated' \in BOOLEAN /\ proc' \in {"none", "running", "zombie", "reaped"}
         /\ child' \in {"none", "alive", "dead"}
<1>1. CASE Cancellable /\ ~terminated
  BY <1>1 DEF CancelGroup, KillGroup, TypeOK
<1>2. CASE ~(Cancellable /\ ~terminated)
  BY <1>2 DEF CancelGroup, TypeOK
<1> QED
  BY <1>1, <1>2

(* What is delivered of a write stays below the limit. *)
LEMMA KeptTypes ==
  ASSUME TypeOK, NEW s \in Streams
  PROVE  /\ total[s] \in Nat /\ unread[s] \in 0 .. MaxPending /\ MaxPending \in Nat /\ MaxOutput \in Nat
         /\ total[s] + Kept(s) \in Nat
         /\ Kept(s) = IF unread[s] > MaxOutput - total[s] THEN MaxOutput - total[s] ELSE unread[s]
BY ExecutorAssumption DEF TypeOK, Kept, Room

(* Every variable keeps its type. *)
LEMMA TypesStep == TypeOK /\ [Next]_vars => TypeOK'
<1> SUFFICES ASSUME TypeOK, [Next]_vars PROVE TypeOK'
  OBVIOUS
<1> USE DEF TypeOK, ctxVars, procVars, ioVars
<1>1. CASE Prepare
  BY <1>1 DEF Prepare, Return, TerminalEvents
<1>2. CASE StartFails
  BY <1>2 DEF StartFails, Return, StatusForContextError, TerminalEvents
<1>3. CASE StartProcess
  BY <1>3 DEF StartProcess
<1>4. CASE Attach
  BY <1>4 DEF Attach
<1>5. CASE AttachFails
  BY <1>5, KillTypes DEF AttachFails
<1>6. CASE Announce
  BY <1>6 DEF Announce
<1>7. CASE AnnounceFails
  BY <1>7, KillTypes DEF AnnounceFails, CancelExecution
<1>8. CASE Reap
  BY <1>8 DEF Reap
<1>9. CASE Abandon
  BY <1>9 DEF Abandon, Return, Joined, CloseGroup, StatusForContextError, TerminalEvents
<1>10. CASE Finish
  <2>1. Verdict \in TerminalEvents
    BY DEF Verdict, StatusForContextError, TerminalEvents
  <2>2. /\ pc' = "done" /\ status' \in TerminalEvents
        /\ events' = events \/ events' = Append(events, Verdict)
        /\ UNCHANGED <<ctxVars, proc, exited, attached, terminated, applied, watch,
                       gate, copier, unread, total, first, ioError>>
    BY <1>10, <2>1 DEF Finish, Return, TerminalEvents
  <2>3. events' \in Seq({"started", "output"} \cup TerminalEvents)
    <3> DEFINE S == {"started", "output"} \cup TerminalEvents
    <3>1. events \in Seq(S) /\ Verdict \in S
      BY <2>1
    <3> HIDE DEF S
    <3>2. Append(events, Verdict) \in Seq(S)
      BY <3>1, AppendProperties
    <3>3. events' \in Seq(S)
      BY <2>2, <3>1, <3>2
    <3> QED
      BY <3>3 DEF S
  <2>4. child' \in {"none", "alive", "dead"}
    BY <1>10 DEF Finish, CloseGroup
  <2> QED
    BY <2>2, <2>3, <2>4
<1>11. CASE WatchFires
  BY <1>11, KillTypes DEF WatchFires
<1>12. CASE WatchStops
  BY <1>12 DEF WatchStops, Joining
<1>13. CASE WaitDelayExpires
  BY <1>13 DEF WaitDelayExpires, Joining
<1>14. CASE CopyFails
  BY <1>14 DEF CopyFails
<1>15. CASE ProcessExits
  BY <1>15 DEF ProcessExits
<1>16. CASE ProcessForks
  BY <1>16 DEF ProcessForks
<1>17. ASSUME NEW s \in Streams, ProcessWrites(s) PROVE TypeOK'
  BY <1>17, ExecutorAssumption DEF ProcessWrites
<1>18. ASSUME NEW s \in Streams, ReadPipe(s) PROVE TypeOK'
  BY <1>18 DEF ReadPipe, Writing
<1>19. ASSUME NEW s \in Streams, Deliver(s) PROVE TypeOK'
  <2>0. events' \in Seq({"started", "output"} \cup TerminalEvents)
    BY <1>19, AppendProperties DEF Deliver
  <2>1. /\ total' = [total EXCEPT ![s] = total[s] + Kept(s)] /\ unread' = [unread EXCEPT ![s] = 0]
        /\ UNCHANGED <<pc, parent, exited, attached, watch, gate, ioError, status>>
    BY <1>19 DEF Deliver
  <2>2. total' \in [Streams -> Nat] /\ unread' \in [Streams -> 0 .. MaxPending]
    BY <2>1, KeptTypes
  <2>3. CASE CancelExecution /\ first' \in {"sink", "limit"}
    BY <1>19, <2>0, <2>1, <2>2, <2>3, KillTypes DEF Deliver, StopStream, CancelExecution
  <2>4. CASE ~(unread[s] > Room(s))
    BY <1>19, <2>0, <2>1, <2>2, <2>4 DEF Deliver
  <2> QED
    BY <1>19, <2>3, <2>4 DEF Deliver, StopStream
<1>20. ASSUME NEW s \in Streams, SinkFails(s) PROVE TypeOK'
  <2>0. events' \in Seq({"started", "output"} \cup TerminalEvents)
    BY <1>20, AppendProperties DEF SinkFails
  <2>1. /\ total' = [total EXCEPT ![s] = total[s] + Kept(s)] /\ unread' = [unread EXCEPT ![s] = 0]
        /\ UNCHANGED <<pc, parent, exited, attached, watch, gate, ioError, status>>
    BY <1>20 DEF SinkFails
  <2>2. total' \in [Streams -> Nat] /\ unread' \in [Streams -> 0 .. MaxPending]
    BY <2>1, KeptTypes
  <2>3. CASE CancelExecution /\ first' \in {"sink", "limit"}
    BY <1>20, <2>0, <2>1, <2>2, <2>3, KillTypes DEF SinkFails, StopStream, CancelExecution
  <2> QED
    BY <1>20, <2>3 DEF SinkFails, StopStream
<1>21. ASSUME NEW s \in Streams, Discard(s) PROVE TypeOK'
  BY <1>21, KeptTypes DEF Discard
<1>22. CASE ParentCancelled
  BY <1>22 DEF ParentCancelled
<1>23. CASE DeadlineExpires
  BY <1>23 DEF DeadlineExpires
<1>24. CASE UNCHANGED vars
  BY <1>24 DEF vars
<1> QED
  BY <1>1, <1>2, <1>3, <1>4, <1>5, <1>6, <1>7, <1>8, <1>9, <1>10, <1>11, <1>12, <1>13, <1>14, <1>15,
     <1>16, <1>17, <1>18, <1>19, <1>20, <1>21, <1>22, <1>23, <1>24
     DEF Next, RunStep, CopyStep, Returned

(* Only Wait takes the process away, and Run returns after it. *)
LEMMA PlaceStep == TypeOK /\ KillInv /\ PlaceInv /\ [Next]_vars => PlaceInv'
<1> SUFFICES ASSUME TypeOK, KillInv, PlaceInv, [Next]_vars PROVE PlaceInv'
  OBVIOUS
<1> USE DEF PlaceInv, ctxVars, procVars, ioVars
<1>1. CASE Prepare
  BY <1>1 DEF Prepare, Return
<1>2. CASE StartFails
  BY <1>2 DEF StartFails, Return
<1>3. CASE StartProcess
  BY <1>3 DEF StartProcess
<1>4. CASE Attach
  BY <1>4 DEF Attach
<1>5. CASE AttachFails
  BY <1>5 DEF AttachFails, CancelGroup, KillGroup, Cancellable
<1>6. CASE Announce
  BY <1>6 DEF Announce
<1>7. CASE AnnounceFails
  BY <1>7 DEF AnnounceFails, CancelExecution, CancelGroup, KillGroup, Cancellable
<1>8. CASE Reap
  BY <1>8 DEF Reap
<1>9. CASE Abandon
  BY <1>9 DEF Abandon, Return, Joined, CloseGroup, KillInv
<1>10. CASE Finish
  BY <1>10 DEF Finish, Return, Joined, CloseGroup, KillInv
<1>11. CASE WatchFires
  BY <1>11 DEF WatchFires, CancelGroup, KillGroup, Cancellable
<1>12. CASE WatchStops
  BY <1>12 DEF WatchStops, Joining
<1>13. CASE WaitDelayExpires
  BY <1>13 DEF WaitDelayExpires, Joining
<1>14. CASE CopyFails
  BY <1>14 DEF CopyFails
<1>15. CASE ProcessExits
  BY <1>15 DEF ProcessExits
<1>16. CASE ProcessForks
  BY <1>16 DEF ProcessForks
<1>17. ASSUME NEW s \in Streams, ProcessWrites(s) PROVE PlaceInv'
  BY <1>17 DEF ProcessWrites, Writing
<1>18. ASSUME NEW s \in Streams, ReadPipe(s) PROVE PlaceInv'
  BY <1>18 DEF ReadPipe, Writing
<1>19. ASSUME NEW s \in Streams, Deliver(s) PROVE PlaceInv'
  BY <1>19 DEF Deliver, StopStream, CancelExecution, CancelGroup, KillGroup, Cancellable
<1>20. ASSUME NEW s \in Streams, SinkFails(s) PROVE PlaceInv'
  BY <1>20 DEF SinkFails, StopStream, CancelExecution, CancelGroup, KillGroup, Cancellable
<1>21. ASSUME NEW s \in Streams, Discard(s) PROVE PlaceInv'
  BY <1>21 DEF Discard
<1>22. CASE ParentCancelled
  BY <1>22 DEF ParentCancelled
<1>23. CASE DeadlineExpires
  BY <1>23 DEF DeadlineExpires
<1>24. CASE UNCHANGED vars
  BY <1>24 DEF vars
<1> QED
  BY <1>1, <1>2, <1>3, <1>4, <1>5, <1>6, <1>7, <1>8, <1>9, <1>10, <1>11, <1>12, <1>13, <1>14, <1>15,
     <1>16, <1>17, <1>18, <1>19, <1>20, <1>21, <1>22, <1>23, <1>24
     DEF Next, RunStep, CopyStep, Returned

(* SIGKILL reaches the group, and whoever kills says why. *)
LEMMA KillStep == TypeOK /\ PlaceInv /\ KillInv /\ [Next]_vars => KillInv'
<1> SUFFICES ASSUME TypeOK, PlaceInv, KillInv, [Next]_vars PROVE KillInv'
  OBVIOUS
<1> USE DEF PlaceInv, KillInv, ctxVars, procVars, ioVars
<1>1. CASE Prepare
  BY <1>1 DEF Prepare, Return
<1>2. CASE StartFails
  BY <1>2 DEF StartFails, Return
<1>3. CASE StartProcess
  BY <1>3 DEF StartProcess
<1>4. CASE Attach
  BY <1>4 DEF Attach
<1>5. CASE AttachFails
  BY <1>5 DEF AttachFails, CancelGroup, KillGroup, Cancellable
<1>6. CASE Announce
  BY <1>6 DEF Announce
<1>7. CASE AnnounceFails
  BY <1>7 DEF AnnounceFails, CancelExecution, CancelGroup, KillGroup, Cancellable
<1>8. CASE Reap
  BY <1>8 DEF Reap
<1>9. CASE Abandon
  BY <1>9 DEF Abandon, Return, Joined, CloseGroup
<1>10. CASE Finish
  BY <1>10 DEF Finish, Return, Joined, CloseGroup
<1>11. CASE WatchFires
  BY <1>11 DEF WatchFires, CancelGroup, KillGroup, Cancellable
<1>12. CASE WatchStops
  BY <1>12 DEF WatchStops, Joining
<1>13. CASE WaitDelayExpires
  BY <1>13 DEF WaitDelayExpires, Joining
<1>14. CASE CopyFails
  BY <1>14 DEF CopyFails
<1>15. CASE ProcessExits
  BY <1>15 DEF ProcessExits
<1>16. CASE ProcessForks
  BY <1>16 DEF ProcessForks
<1>17. ASSUME NEW s \in Streams, ProcessWrites(s) PROVE KillInv'
  BY <1>17 DEF ProcessWrites, Writing
<1>18. ASSUME NEW s \in Streams, ReadPipe(s) PROVE KillInv'
  BY <1>18 DEF ReadPipe, Writing
<1>19. ASSUME NEW s \in Streams, Deliver(s) PROVE KillInv'
  BY <1>19 DEF Deliver, StopStream, CancelExecution, CancelGroup, KillGroup, Cancellable
<1>20. ASSUME NEW s \in Streams, SinkFails(s) PROVE KillInv'
  BY <1>20 DEF SinkFails, StopStream, CancelExecution, CancelGroup, KillGroup, Cancellable
<1>21. ASSUME NEW s \in Streams, Discard(s) PROVE KillInv'
  BY <1>21 DEF Discard
<1>22. CASE ParentCancelled
  BY <1>22 DEF ParentCancelled
<1>23. CASE DeadlineExpires
  BY <1>23 DEF DeadlineExpires
<1>24. CASE UNCHANGED vars
  BY <1>24 DEF vars
<1> QED
  BY <1>1, <1>2, <1>3, <1>4, <1>5, <1>6, <1>7, <1>8, <1>9, <1>10, <1>11, <1>12, <1>13, <1>14, <1>15,
     <1>16, <1>17, <1>18, <1>19, <1>20, <1>21, <1>22, <1>23, <1>24
     DEF Next, RunStep, CopyStep, Returned

(* The gate opens after the started event, or for writers that have nothing. *)
LEMMA TalkStep == TypeOK /\ PlaceInv /\ KillInv /\ TalkInv /\ [Next]_vars => TalkInv'
<1> SUFFICES ASSUME TypeOK, PlaceInv, KillInv, TalkInv, [Next]_vars PROVE TalkInv'
  OBVIOUS
<1> USE DEF PlaceInv, KillInv, TalkInv, ctxVars, procVars, ioVars
<1>t. /\ pc \in {"ready", "starting", "attaching", "announcing", "waiting", "joining",
                "abandoned", "abandoned-joining", "done"}
      /\ copier \in [Streams -> {"reading", "writing", "ended"}] /\ unread \in [Streams -> 0 .. MaxPending]
      /\ events \in Seq({"started", "output"} \cup TerminalEvents)
  BY DEF TypeOK
<1>1. CASE Prepare
  BY <1>1 DEF Prepare, Return
<1>2. CASE StartFails
  BY <1>2 DEF StartFails, Return
<1>3. CASE StartProcess
  BY <1>3 DEF StartProcess
<1>4. CASE Attach
  BY <1>4 DEF Attach
<1>5. CASE AttachFails
  BY <1>5 DEF AttachFails, CancelGroup, KillGroup, Cancellable
<1>6. CASE Announce
  <2>1. events' = <<"started">>
    BY <1>6 DEF Announce, TypeOK
  <2> QED
    BY <1>6, <2>1 DEF Announce, TerminalEvents
<1>7. CASE AnnounceFails
  BY <1>7 DEF AnnounceFails, CancelExecution, CancelGroup, KillGroup, Cancellable
<1>8. CASE Reap
  BY <1>8 DEF Reap
<1>9. CASE Abandon
  BY <1>9 DEF Abandon, Return, Joined, CloseGroup
<1>10. CASE Finish
  BY <1>10 DEF Finish, Return, Joined, CloseGroup
<1>11. CASE WatchFires
  BY <1>11 DEF WatchFires, CancelGroup, KillGroup, Cancellable
<1>12. CASE WatchStops
  BY <1>12 DEF WatchStops, Joining
<1>13. CASE WaitDelayExpires
  BY <1>13 DEF WaitDelayExpires, Joining
<1>14. CASE CopyFails
  BY <1>14 DEF CopyFails
<1>15. CASE ProcessExits
  BY <1>15 DEF ProcessExits
<1>16. CASE ProcessForks
  BY <1>16 DEF ProcessForks
<1>17. ASSUME NEW s \in Streams, ProcessWrites(s) PROVE TalkInv'
  BY <1>17 DEF ProcessWrites, Writing
<1>18. ASSUME NEW s \in Streams, ReadPipe(s) PROVE TalkInv'
  BY <1>18, <1>t DEF ReadPipe, Writing
<1>19. ASSUME NEW s \in Streams, Deliver(s) PROVE TalkInv'
  <2>1. pc \in {"waiting", "joining"}
    BY <1>19, <1>t DEF Deliver
  <2>2. pc' = pc /\ status' = status /\ (events' = events \/ events' = Append(events, "output"))
    BY <1>19 DEF Deliver
  <2>3. events' # <<>> /\ \A i \in DOMAIN events' : events'[i] \notin TerminalEvents
    <3>1. CASE events' = events
      BY <2>1, <1>19, <3>1 DEF Deliver
    <3>2. CASE events' = Append(events, "output")
      <4>1. Len(events') = Len(events) + 1 /\ Len(events) \in Nat /\ events'[Len(events) + 1] = "output"
            /\ \A i \in 1 .. Len(events) : events'[i] = events[i]
        BY <3>2, <1>t, AppendProperties, LenProperties
      <4>2. DOMAIN events = 1 .. Len(events) /\ DOMAIN events' = 1 .. Len(events')
        BY <3>2, <1>t, AppendProperties, LenProperties
      <4>3. \A i \in DOMAIN events' : events'[i] \notin TerminalEvents
        BY <2>1, <4>1, <4>2 DEF TerminalEvents
      <4>4. events' # <<>>
        BY <4>1, EmptySeq
      <4> QED
        BY <4>3, <4>4
    <3> QED
      BY <2>2, <3>1, <3>2
  <2> QED
    BY <2>1, <2>2, <2>3
<1>20. ASSUME NEW s \in Streams, SinkFails(s) PROVE TalkInv'
  BY <1>20 DEF SinkFails, StopStream, CancelExecution, CancelGroup, KillGroup, Cancellable
<1>21. ASSUME NEW s \in Streams, Discard(s) PROVE TalkInv'
  BY <1>21 DEF Discard
<1>22. CASE ParentCancelled
  BY <1>22 DEF ParentCancelled
<1>23. CASE DeadlineExpires
  BY <1>23 DEF DeadlineExpires
<1>24. CASE UNCHANGED vars
  BY <1>24 DEF vars
<1> QED
  BY <1>1, <1>2, <1>3, <1>4, <1>5, <1>6, <1>7, <1>8, <1>9, <1>10, <1>11, <1>12, <1>13, <1>14, <1>15,
     <1>16, <1>17, <1>18, <1>19, <1>20, <1>21, <1>22, <1>23, <1>24
     DEF Next, RunStep, CopyStep, Returned

(* Announce speaks first, Deliver after it, Finish last. *)
LEMMA EventStep == TypeOK /\ PlaceInv /\ TalkInv /\ EventLog /\ [Next]_vars => EventLog'
<1> SUFFICES ASSUME TypeOK, PlaceInv, TalkInv, EventLog, [Next]_vars PROVE EventLog'
  OBVIOUS
<1> USE DEF PlaceInv, TalkInv, EventLog, ctxVars, procVars, ioVars
<1>t. /\ events \in Seq({"started", "output"} \cup TerminalEvents)
      /\ pc \in {"ready", "starting", "attaching", "announcing", "waiting", "joining",
                "abandoned", "abandoned-joining", "done"}
  BY DEF TypeOK
<1>n. Len(events) \in Nat /\ DOMAIN events = 1 .. Len(events) /\ (events # <<>> => Len(events) > 0)
  BY <1>t, LenProperties, EmptySeq
<1>a. ASSUME UNCHANGED <<events, status>> PROVE EventLog'
  BY <1>a
<1>b. ASSUME UNCHANGED events, pc # "done", status' \in {"failed", "cancelled", "timed-out"} PROVE EventLog'
  BY <1>b
<1>1. CASE Prepare
  <2>1. /\ UNCHANGED events /\ pc # "done"
        /\ status' = status \/ status' \in {"failed", "cancelled", "timed-out"}
    BY <1>1 DEF Prepare, Return
  <2> QED
    BY <1>a, <1>b, <2>1
<1>2. CASE StartFails
  <2>1. UNCHANGED events /\ status' \in {"failed", "cancelled", "timed-out"} /\ pc # "done"
    BY <1>2 DEF StartFails, Return, StatusForContextError
  <2> QED
    BY <1>b, <2>1
<1>3. CASE StartProcess
  BY <1>3, <1>a DEF StartProcess
<1>4. CASE Attach
  BY <1>4, <1>a DEF Attach
<1>5. CASE AttachFails
  BY <1>5, <1>a DEF AttachFails
<1>6. CASE Announce
  <2>1. events' = <<"started">> /\ UNCHANGED status /\ status # "exited"
    BY <1>6, <1>t DEF Announce
  <2> QED
    BY <2>1 DEF TerminalEvents
<1>7. CASE AnnounceFails
  BY <1>7, <1>a DEF AnnounceFails
<1>8. CASE Reap
  BY <1>8, <1>a DEF Reap
<1>9. CASE Abandon
  <2>1. UNCHANGED events /\ status' \in {"failed", "cancelled", "timed-out"} /\ pc # "done"
    BY <1>9 DEF Abandon, Return, StatusForContextError
  <2> QED
    BY <1>b, <2>1
<1>10. CASE Finish
  <2>1. pc # "done" /\ events # <<>> /\ Verdict \in TerminalEvents
    BY <1>10 DEF Finish, Verdict, StatusForContextError, TerminalEvents
  <2>2. CASE events' = Append(events, Verdict) /\ status' = Verdict
    <3>1. PICK v : v = Verdict
      OBVIOUS
    <3>2. v \in {"started", "output"} \cup TerminalEvents
      BY <2>1, <3>1
    <3>3. /\ Len(events') = Len(events) + 1 /\ DOMAIN events' = 1 .. Len(events')
          /\ events'[Len(events) + 1] = v /\ \A i \in 1 .. Len(events) : events'[i] = events[i]
      BY <1>t, <2>2, <3>1, <3>2, AppendProperties, LenProperties
    <3>4. events'[1] = "started"
      BY <1>n, <2>1, <3>3
    <3>5. \A i \in DOMAIN events' : events'[i] \in TerminalEvents => i = Len(events')
      BY <1>n, <2>1, <3>3
    <3>6. events'[Len(events')] = status' /\ events' # <<>>
      BY <1>n, <2>2, <3>1, <3>3, EmptySeq
    <3> QED
      BY <3>4, <3>5, <3>6
  <2>3. CASE events' = events /\ status' \in {"failed", "cancelled", "timed-out"}
    BY <1>b, <2>1, <2>3
  <2> QED
    BY <1>10, <2>2, <2>3 DEF Finish, Return, Verdict, StatusForContextError
<1>11. CASE WatchFires
  BY <1>11, <1>a DEF WatchFires
<1>12. CASE WatchStops
  BY <1>12, <1>a DEF WatchStops
<1>13. CASE WaitDelayExpires
  BY <1>13, <1>a DEF WaitDelayExpires
<1>14. CASE CopyFails
  BY <1>14, <1>a DEF CopyFails
<1>15. CASE ProcessExits
  BY <1>15, <1>a DEF ProcessExits
<1>16. CASE ProcessForks
  BY <1>16, <1>a DEF ProcessForks
<1>17. ASSUME NEW s \in Streams, ProcessWrites(s) PROVE EventLog'
  BY <1>17, <1>a DEF ProcessWrites
<1>18. ASSUME NEW s \in Streams, ReadPipe(s) PROVE EventLog'
  BY <1>18, <1>a DEF ReadPipe
<1>19. ASSUME NEW s \in Streams, Deliver(s) PROVE EventLog'
  <2>1. events # <<>> /\ status = "none" /\ UNCHANGED status
        /\ \A i \in DOMAIN events : events[i] \notin TerminalEvents
    BY <1>19, <1>t DEF Deliver
  <2>2. CASE events' = events
    BY <1>a, <2>1, <2>2
  <2>3. CASE events' = Append(events, "output")
    <3>1. "output" \notin TerminalEvents
      BY DEF TerminalEvents
    <3>2. /\ Len(events') = Len(events) + 1 /\ DOMAIN events' = 1 .. Len(events')
          /\ events'[Len(events) + 1] = "output" /\ \A i \in 1 .. Len(events) : events'[i] = events[i]
      BY <1>t, <2>3, AppendProperties, LenProperties
    <3>3. events'[1] = "started"
      BY <1>n, <2>1, <3>2
    <3>4. \A i \in DOMAIN events' : events'[i] \notin TerminalEvents
      BY <1>n, <2>1, <3>1, <3>2
    <3> QED
      BY <2>1, <3>3, <3>4
  <2> QED
    BY <1>19, <2>2, <2>3 DEF Deliver
<1>20. ASSUME NEW s \in Streams, SinkFails(s) PROVE EventLog'
  BY <1>20, <1>a DEF SinkFails
<1>21. ASSUME NEW s \in Streams, Discard(s) PROVE EventLog'
  BY <1>21, <1>a DEF Discard
<1>22. CASE ParentCancelled
  BY <1>22, <1>a DEF ParentCancelled
<1>23. CASE DeadlineExpires
  BY <1>23, <1>a DEF DeadlineExpires
<1>24. CASE UNCHANGED vars
  BY <1>24 DEF vars
<1> QED
  BY <1>1, <1>2, <1>3, <1>4, <1>5, <1>6, <1>7, <1>8, <1>9, <1>10, <1>11, <1>12, <1>13, <1>14, <1>15,
     <1>16, <1>17, <1>18, <1>19, <1>20, <1>21, <1>22, <1>23, <1>24
     DEF Next, RunStep, CopyStep, Returned

(* What is delivered ends at the limit, and a stream that fails for it is full. *)
LEMMA OutputStep == TypeOK /\ OutputKeptToLimit /\ [Next]_vars => OutputKeptToLimit'
<1> SUFFICES ASSUME TypeOK, OutputKeptToLimit, [Next]_vars PROVE OutputKeptToLimit'
  OBVIOUS
<1> USE DEF OutputKeptToLimit, ctxVars, procVars, ioVars
<1>t. total \in [Streams -> Nat] /\ MaxOutput \in Nat
  BY ExecutorAssumption DEF TypeOK
<1>a. ASSUME UNCHANGED <<total, first>> PROVE OutputKeptToLimit'
  BY <1>a
<1>1. CASE Prepare
  BY <1>1, <1>a DEF Prepare
<1>2. CASE StartFails
  BY <1>2, <1>a DEF StartFails
<1>3. CASE StartProcess
  BY <1>3, <1>a DEF StartProcess
<1>4. CASE Attach
  BY <1>4, <1>a DEF Attach
<1>5. CASE AttachFails
  BY <1>5, <1>a DEF AttachFails
<1>6. CASE Announce
  BY <1>6, <1>a DEF Announce
<1>7. CASE AnnounceFails
  BY <1>7, <1>t DEF AnnounceFails
<1>8. CASE Reap
  BY <1>8, <1>a DEF Reap
<1>9. CASE Abandon
  BY <1>9, <1>a DEF Abandon
<1>10. CASE Finish
  BY <1>10, <1>a DEF Finish
<1>11. CASE WatchFires
  BY <1>11, <1>a DEF WatchFires
<1>12. CASE WatchStops
  BY <1>12, <1>a DEF WatchStops
<1>13. CASE WaitDelayExpires
  BY <1>13, <1>a DEF WaitDelayExpires
<1>14. CASE CopyFails
  BY <1>14, <1>a DEF CopyFails
<1>15. CASE ProcessExits
  BY <1>15, <1>a DEF ProcessExits
<1>16. CASE ProcessForks
  BY <1>16, <1>a DEF ProcessForks
<1>17. ASSUME NEW s \in Streams, ProcessWrites(s) PROVE OutputKeptToLimit'
  BY <1>17, <1>a DEF ProcessWrites
<1>18. ASSUME NEW s \in Streams, ReadPipe(s) PROVE OutputKeptToLimit'
  BY <1>18, <1>a DEF ReadPipe
<1>19. ASSUME NEW s \in Streams, Deliver(s) PROVE OutputKeptToLimit'
  <2>1. total' = [total EXCEPT ![s] = total[s] + Kept(s)]
    BY <1>19 DEF Deliver
  <2>2. /\ \A x \in Streams \ {s} : total'[x] = total[x]
        /\ total'[s] = total[s] + Kept(s)
    BY <1>t, <2>1
  <2>3. total[s] + Kept(s) \in Nat /\ total[s] + Kept(s) <= MaxOutput /\ (total[s] = MaxOutput => Kept(s) = 0)
    BY <1>t, KeptTypes
  <2>4. CASE unread[s] > Room(s)
    <3>1. total'[s] = MaxOutput
      BY <2>2, <2>4, KeptTypes DEF Room
    <3> QED
      BY <2>2, <2>3, <3>1
  <2>5. CASE ~(unread[s] > Room(s))
    <3>1. first' = "none"
      BY <1>19, <2>5 DEF Deliver
    <3> QED
      BY <2>2, <2>3, <3>1
  <2> QED
    BY <2>4, <2>5
<1>20. ASSUME NEW s \in Streams, SinkFails(s) PROVE OutputKeptToLimit'
  <2>1. total' = [total EXCEPT ![s] = total[s] + Kept(s)]
    BY <1>20 DEF SinkFails
  <2>2. /\ \A x \in Streams \ {s} : total'[x] = total[x]
        /\ total'[s] = total[s] + Kept(s)
    BY <1>t, <2>1
  <2>3. total[s] + Kept(s) \in Nat /\ total[s] + Kept(s) <= MaxOutput /\ (total[s] = MaxOutput => Kept(s) = 0)
    BY <1>t, KeptTypes
  <2>4. first' = "sink"
    BY <1>20 DEF SinkFails, StopStream
  <2> QED
    BY <2>2, <2>3, <2>4
<1>21. ASSUME NEW s \in Streams, Discard(s) PROVE OutputKeptToLimit'
  <2>1. total' = [total EXCEPT ![s] = total[s] + Kept(s)]
    BY <1>21 DEF Discard
  <2>2. /\ \A x \in Streams \ {s} : total'[x] = total[x]
        /\ total'[s] = total[s] + Kept(s)
    BY <1>t, <2>1
  <2>3. total[s] + Kept(s) \in Nat /\ total[s] + Kept(s) <= MaxOutput /\ (total[s] = MaxOutput => Kept(s) = 0)
    BY <1>t, KeptTypes
  <2>4. first' = first
    BY <1>21 DEF Discard
  <2> QED
    BY <1>t, <2>2, <2>3, <2>4
<1>22. CASE ParentCancelled
  BY <1>22, <1>a DEF ParentCancelled
<1>23. CASE DeadlineExpires
  BY <1>23, <1>a DEF DeadlineExpires
<1>24. CASE UNCHANGED vars
  BY <1>24 DEF vars
<1> QED
  BY <1>1, <1>2, <1>3, <1>4, <1>5, <1>6, <1>7, <1>8, <1>9, <1>10, <1>11, <1>12, <1>13, <1>14, <1>15,
     <1>16, <1>17, <1>18, <1>19, <1>20, <1>21, <1>22, <1>23, <1>24
     DEF Next, RunStep, CopyStep, Returned

(* The verdict comes from the exit or from a kill, and both are past. *)
LEMMA VerdictStep == TypeOK /\ PlaceInv /\ KillInv /\ TalkInv /\ VerdictTruthful /\ [Next]_vars => VerdictTruthful'
<1> SUFFICES ASSUME TypeOK, PlaceInv, KillInv, TalkInv, VerdictTruthful, [Next]_vars PROVE VerdictTruthful'
  OBVIOUS
<1> USE DEF PlaceInv, KillInv, TalkInv, VerdictTruthful, ctxVars, procVars, ioVars
<1>1. CASE Prepare
  BY <1>1 DEF Prepare, Return
<1>2. CASE StartFails
  BY <1>2 DEF StartFails, Return, StatusForContextError
<1>3. CASE StartProcess
  BY <1>3 DEF StartProcess
<1>4. CASE Attach
  BY <1>4 DEF Attach
<1>5. CASE AttachFails
  BY <1>5 DEF AttachFails, CancelGroup, KillGroup, Cancellable
<1>6. CASE Announce
  BY <1>6 DEF Announce
<1>7. CASE AnnounceFails
  BY <1>7 DEF AnnounceFails, CancelExecution, CancelGroup, KillGroup, Cancellable
<1>8. CASE Reap
  BY <1>8 DEF Reap
<1>9. CASE Abandon
  BY <1>9 DEF Abandon, Return, Joined, CloseGroup, StatusForContextError
<1>10. CASE Finish
  BY <1>10 DEF Finish, Return, Joined, CloseGroup, Verdict, StatusForContextError
<1>11. CASE WatchFires
  BY <1>11 DEF WatchFires, CancelGroup, KillGroup, Cancellable
<1>12. CASE WatchStops
  BY <1>12 DEF WatchStops, Joining
<1>13. CASE WaitDelayExpires
  BY <1>13 DEF WaitDelayExpires, Joining
<1>14. CASE CopyFails
  BY <1>14 DEF CopyFails
<1>15. CASE ProcessExits
  BY <1>15 DEF ProcessExits
<1>16. CASE ProcessForks
  BY <1>16 DEF ProcessForks
<1>17. ASSUME NEW s \in Streams, ProcessWrites(s) PROVE VerdictTruthful'
  BY <1>17 DEF ProcessWrites, Writing
<1>18. ASSUME NEW s \in Streams, ReadPipe(s) PROVE VerdictTruthful'
  BY <1>18 DEF ReadPipe, Writing
<1>19. ASSUME NEW s \in Streams, Deliver(s) PROVE VerdictTruthful'
  BY <1>19 DEF Deliver, StopStream, CancelExecution, CancelGroup, KillGroup, Cancellable
<1>20. ASSUME NEW s \in Streams, SinkFails(s) PROVE VerdictTruthful'
  BY <1>20 DEF SinkFails, StopStream, CancelExecution, CancelGroup, KillGroup, Cancellable
<1>21. ASSUME NEW s \in Streams, Discard(s) PROVE VerdictTruthful'
  BY <1>21 DEF Discard
<1>22. CASE ParentCancelled
  BY <1>22 DEF ParentCancelled
<1>23. CASE DeadlineExpires
  BY <1>23 DEF DeadlineExpires
<1>24. CASE UNCHANGED vars
  BY <1>24 DEF vars
<1> QED
  BY <1>1, <1>2, <1>3, <1>4, <1>5, <1>6, <1>7, <1>8, <1>9, <1>10, <1>11, <1>12, <1>13, <1>14, <1>15,
     <1>16, <1>17, <1>18, <1>19, <1>20, <1>21, <1>22, <1>23, <1>24
     DEF Next, RunStep, CopyStep, Returned

-----------------------------------------------------------------------------
(* The theorems *)

Sound == TypeOK /\ RunInv /\ EventLog /\ OutputKeptToLimit /\ VerdictTruthful

(* Run has not started anything. *)
LEMMA Initially == Init => Sound
<1> SUFFICES ASSUME Init PROVE Sound
  OBVIOUS
<1>1. TypeOK
  <2>1. events \in Seq({"started", "output"} \cup TerminalEvents)
    BY EmptySeq DEF Init
  <2>2. unread \in [Streams -> 0 .. MaxPending] /\ total \in [Streams -> Nat]
    BY ExecutorAssumption DEF Init
  <2> QED
    BY <2>1, <2>2 DEF Init, TypeOK
<1>2. RunInv
  BY EmptySeq DEF Init, RunInv, PlaceInv, KillInv, TalkInv
<1>3. EventLog /\ OutputKeptToLimit /\ VerdictTruthful
  BY ExecutorAssumption, EmptySeq DEF Init, EventLog, OutputKeptToLimit, VerdictTruthful
<1> QED
  BY <1>1, <1>2, <1>3 DEF Sound

(* The inductive invariant, in every reachable state. *)
THEOREM RunInvariant == Spec => []Sound
<1>1. Init => Sound
  BY Initially
<1>2. Sound /\ [Next]_vars => Sound'
  BY TypesStep, PlaceStep, KillStep, TalkStep, EventStep, OutputStep, VerdictStep DEF Sound, RunInv
<1> QED
  BY <1>1, <1>2, PTL DEF Spec

(* Whatever the order of exit, cancellation, deadline, limit and sink       *)
(* failure: the events executor.Run delivers are well formed, its output is *)
(* complete up to the limit, and its verdict is what happened.              *)
THEOREM RunReportsTruth == Spec => []RunIsTruthful
<1>1. Sound => RunIsTruthful
  BY DEF Sound, RunIsTruthful
<1> QED
  BY <1>1, RunInvariant, PTL

(* When Run returns, no process of its group is alive and no writer can     *)
(* call the sink, on every path to a return.                                *)
THEOREM RunLeavesNothing == Spec => []NothingLeftRunning
<1>1. Sound => NothingLeftRunning
  BY DEF Sound, RunInv, PlaceInv, NothingLeftRunning
<1> QED
  BY <1>1, RunInvariant, PTL
=============================================================================
