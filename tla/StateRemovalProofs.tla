------------------------- MODULE StateRemovalProofs -------------------------
(***************************************************************************)
(* What module StateRemoval promises for every number of requests, tokens, *)
(* removals, addresses and writers, proved with TLAPS.                     *)
(***************************************************************************)
EXTENDS StateRemoval, TLAPS

-----------------------------------------------------------------------------
(* The inductive invariants *)

Executing == {"approved", "backed", "running"}
Holding   == {"reading", "backed"}

(* What an execution has on disk, by the phase its request is in. *)
PhaseInv ==
    \A c \in Clients : op[c].phase \in Executing =>
        /\ run[op[c].run].preview \in Previews
        /\ trail[op[c].run] # "none"
        /\ run[op[c].run].outcome = "none"
        /\ op[c].phase # "running" => run[op[c].run].tf = "none"
        /\ op[c].phase = "backed" =>
               run[op[c].run].backup = run[op[c].run].preview.snapshot.content

(* What a removal has behind it, by the phase its Terraform is in. *)
RunInv ==
    \A r \in RunIDs :
        /\ run[r].tf # "none" => run[r].preview \in Previews
        /\ run[r].tf \in {"none", "started"} => run[r].read = None
        /\ run[r].tf \in {"none", "started", "reading"} => run[r].terraformBackup = None
        /\ run[r].tf \in Holding => run[r].read \in Contents /\ lock = r
        /\ run[r].tf = "backed" => run[r].terraformBackup = run[r].read
        /\ run[r].terraformBackup # None => run[r].terraformBackup = run[r].read
        /\ run[r].tf \in {"none", "started"} \cup Holding => ~run[r].wrote
        /\ run[r].outcome # "none" => run[r].tf \in {"none", "clean", "unclean"}

CoreInv == TypeOK /\ SingleFlight /\ PhaseInv /\ RunInv /\ RemovalPrepared

(* A token is in the table, in the hands of one request, or in one removal. *)
TokenInv ==
    /\ \A id \in PreviewIDs : previews[id] # None =>
           id \in minted /\ \A r \in RunIDs : run[r].id # id
    /\ \A c \in Clients : op[c].phase = "consumed" =>
           /\ op[c].id \in minted
           /\ previews[op[c].id] = None
           /\ \A r \in RunIDs : run[r].id # op[c].id
    /\ \A r \in RunIDs : run[r].id # None =>
           run[r].id \in minted /\ previews[run[r].id] = None

(* While only Terraform writes the file its serial tells states apart: what *)
(* was read from it is what it holds now, or has a smaller serial.          *)
Older(content) == content = file.content \/ content.serial < file.content.serial

OlderReads ==
    /\ \A id \in PreviewIDs : previews[id] # None => Older(previews[id].snapshot.content)
    /\ \A c \in Clients :
           /\ op[c].phase = "dry-run"  => Older(op[c].snapshot.content)
           /\ op[c].phase = "consumed" => Older(op[c].preview.snapshot.content)
    /\ \A r \in RunIDs : run[r].preview \in Previews => Older(run[r].preview.snapshot.content)

(* A Terraform that holds the lock works on the file as it is; what it read *)
(* is not older than the preview, and what it wrote is newer.               *)
SerialInv ==
    \A r \in RunIDs :
        /\ run[r].tf \in Holding => run[r].read = file.content
        /\ run[r].read # None =>
               \/ run[r].read = run[r].preview.snapshot.content
               \/ run[r].preview.snapshot.content.serial < run[r].read.serial
        /\ run[r].wrote => run[r].preview.snapshot.content.serial < file.content.serial

HistoryInv == ~edited => OlderReads /\ SerialInv

-----------------------------------------------------------------------------
(* Shapes *)

(* A request in a phase has the fields of that phase. *)
LEMMA OpShape ==
    ASSUME TypeOK, NEW c \in Clients
    PROVE  /\ op[c].phase = "dry-run" =>
                  op[c] \in [phase : {"dry-run"}, snapshot : Snapshots,
                             addrs : (SUBSET Addresses) \ {{}}]
           /\ op[c].phase = "consumed" =>
                  op[c] \in [phase : {"consumed"}, id : PreviewIDs, preview : Previews]
           /\ op[c].phase \in Executing =>
                  op[c] \in [phase : Executing, run : RunIDs]
           /\ op[c].phase = "idle" => op[c] = Idle
           /\ op[c].phase # "idle" => op[c] # Idle
BY DEF TypeOK, Ops, Idle, Executing

(* A working request is the only one. *)
LEMMA OnlyOne ==
    ASSUME TypeOK, SingleFlight, NEW c \in Clients, op[c].phase # "idle"
    PROVE  slot = c /\ \A d \in Clients \ {c} : op[d] = Idle /\ op[d].phase = "idle"
BY DEF SingleFlight, Idle

(* While the slot is free nobody works. *)
LEMMA NobodyWorks ==
    ASSUME TypeOK, SingleFlight, slot = None
    PROVE  \A d \in Clients : op[d] = Idle /\ op[d].phase = "idle"
BY RemovalAssumption DEF SingleFlight, Idle

-----------------------------------------------------------------------------
(* One operation at a time *)

(* Every step keeps "the slot is held by exactly the request that works". *)
LEMMA FlightStep ==
    ASSUME TypeOK, SingleFlight, [Next]_vars
    PROVE  SingleFlight'
<1> USE RemovalAssumption
<1>1. ASSUME NEW c \in Clients, op[c].phase # "idle", Answer(c)
      PROVE  SingleFlight'
  BY <1>1, OnlyOne DEF Answer, SingleFlight, TypeOK, Idle
<1>2. ASSUME NEW c \in Clients, slot = None, slot' = c,
             NEW new, new.phase # "idle", op' = [op EXCEPT ![c] = new]
      PROVE  SingleFlight'
  BY <1>2, NobodyWorks DEF SingleFlight, TypeOK, Idle
<1>3. ASSUME NEW c \in Clients, op[c].phase # "idle", UNCHANGED slot,
             NEW new, new.phase # "idle", op' = [op EXCEPT ![c] = new]
      PROVE  SingleFlight'
  BY <1>3, OnlyOne DEF SingleFlight, TypeOK, Idle
<1>4. ASSUME UNCHANGED <<slot, op>>
      PROVE  SingleFlight'
  BY <1>4 DEF SingleFlight
<1>5. ASSUME NEW c \in Clients, ClientStep(c)
      PROVE  SingleFlight'
  <2>1. ASSUME NEW addrs \in SUBSET Addresses, BeginPreview(c, addrs)
        PROVE  SingleFlight'
    BY <2>1, <1>2 DEF BeginPreview, AcquireRemovalSlot
  <2>2. ASSUME NEW id \in PreviewIDs, BeginExecute(c, id)
        PROVE  SingleFlight'
    BY <2>2, <1>2 DEF BeginExecute, AcquireRemovalSlot
  <2>3. ASSUME NEW id \in PreviewIDs, MintPreview(c, id)
        PROVE  SingleFlight'
    BY <2>3, <1>1 DEF MintPreview
  <2>4. CASE RefusePreview(c)
    BY <2>4, <1>1 DEF RefusePreview
  <2>5. ASSUME NEW r \in RunIDs, ApproveRemoval(c, r)
        PROVE  SingleFlight'
    BY <2>5, <1>3 DEF ApproveRemoval
  <2>6. CASE RefuseExecute(c)
    BY <2>6, <1>1 DEF RefuseExecute
  <2>7. CASE WriteBackup(c) \/ StartTerraform(c)
    <3>1. op[c].phase # "idle" /\ UNCHANGED slot
      BY <2>7 DEF WriteBackup, StartTerraform
    <3>2. PICK ph \in {"backed", "running"} : op' = [op EXCEPT ![c].phase = ph]
      BY <2>7 DEF WriteBackup, StartTerraform
    <3>3. op[c] \in [phase : Executing, run : RunIDs]
      BY <2>7, OpShape DEF WriteBackup, StartTerraform, Executing
    <3>4. [op[c] EXCEPT !.phase = ph].phase # "idle"
      BY <3>2, <3>3
    <3>5. op' = [op EXCEPT ![c] = [op[c] EXCEPT !.phase = ph]]
      BY <3>2
    <3> QED
      BY <3>1, <3>4, <3>5, <1>3
  <2>8. CASE AbandonRemoval(c)
    BY <2>8, <1>1 DEF AbandonRemoval
  <2>9. CASE FinishRemoval(c)
    BY <2>9, <1>1 DEF FinishRemoval
  <2> QED
    BY <1>5, <2>1, <2>2, <2>3, <2>4, <2>5, <2>6, <2>7, <2>8, <2>9 DEF ClientStep, Progress
<1>6. CASE Restart
  BY <1>6 DEF Restart, SingleFlight
<1>7. ASSUME NEW id \in PreviewIDs, RejectExecute(id)
      PROVE  SingleFlight'
  BY <1>7, <1>4 DEF RejectExecute
<1>8. ASSUME NEW r \in RunIDs, TerraformStep(r)
      PROVE  SingleFlight'
  BY <1>8, <1>4 DEF TerraformStep, TerraformReads, TerraformBacksUp, TerraformWrites,
                    TerraformEnds, serviceVars
<1>9. CASE OtherTerraform \/ Edit \/ CloseJournal \/ Tick \/ UNCHANGED vars
  BY <1>9, <1>4 DEF OtherTerraform, Edit, CloseJournal, Tick, vars, serviceVars
<1> QED
  BY <1>5, <1>6, <1>7, <1>8, <1>9 DEF Next, WorldStep


-----------------------------------------------------------------------------
(* Type correctness *)

RunRecords ==
    [id : PreviewIDs \cup {None}, preview : Previews \cup {None},
     backup : Contents \cup {None}, terraformBackup : Contents \cup {None},
     tf : {"none", "started", "reading", "backed", "wrote", "clean", "unclean"},
     read : Contents \cup {None}, wrote : BOOLEAN, seen : Contents \cup {None},
     outcome : {"none", "refused", "removed", "unverified"}]

(* Replacing one record keeps the type of the others. *)
LEMMA RunUpdate ==
    ASSUME TypeOK, NEW r \in RunIDs, NEW new \in RunRecords, run' = [run EXCEPT ![r] = new]
    PROVE  run' \in [RunIDs -> RunRecords]
BY DEF TypeOK, RunRecords

(* A removal has the fields TypeOK gives it. *)
LEMMA RunShape ==
    ASSUME TypeOK, NEW r \in RunIDs
    PROVE  run[r] \in RunRecords
BY DEF TypeOK, RunRecords

(* A request that answers is idle. *)
LEMMA AnswerType ==
    ASSUME TypeOK, NEW c \in Clients, Answer(c)
    PROVE  op' \in [Clients -> Ops] /\ slot' \in Clients \cup {None}
BY DEF Answer, TypeOK, Ops, Idle

(* The journal keeps its type, whether it took the completion or not. *)
LEMMA CompleteType ==
    ASSUME TypeOK, NEW r \in RunIDs, CompleteRemoval(r)
    PROVE  trail' \in [RunIDs -> Sink!TrailStates]
BY DEF CompleteRemoval, Sink!Complete, Sink!TrailStates, TypeOK

(* Consuming a token keeps the type of the table. *)
LEMMA ConsumeType ==
    ASSUME TypeOK, NEW id \in PreviewIDs, ConsumePreview(id)
    PROVE  previews' \in [PreviewIDs -> Previews \cup {None}]
BY DEF ConsumePreview, TypeOK

(* A write keeps the type of the file. *)
LEMMA WriteType ==
    ASSUME TypeOK, NEW content \in Contents, Write(content)
    PROVE  file' \in Snapshots /\ file'.content = content
BY DEF Write, TypeOK, Snapshots

(* The steps of requests keep the types of the variables. *)
LEMMA ClientTypes ==
    ASSUME CoreInv, NEW c \in Clients, ClientStep(c)
    PROVE  TypeOK'
<1> USE RemovalAssumption
<1>0. TypeOK /\ PhaseInv /\ RunInv
  BY DEF CoreInv
<1>1. ASSUME NEW addrs \in SUBSET Addresses, BeginPreview(c, addrs)
      PROVE  TypeOK'
  <2>0. file \in Snapshots /\ addrs \in (SUBSET Addresses) \ {{}}
    BY <1>0, <1>1 DEF BeginPreview, NormalizedAddresses, TypeOK
  <2>1. [phase |-> "dry-run", snapshot |-> file, addrs |-> addrs] \in Ops
    BY <2>0 DEF Ops
  <2>2. op' \in [Clients -> Ops] /\ slot' \in Clients
    BY <1>0, <1>1, <2>1 DEF BeginPreview, AcquireRemovalSlot, TypeOK
  <2> QED
    BY <1>0, <1>1, <2>2 DEF BeginPreview, TypeOK
<1>2. ASSUME NEW id \in PreviewIDs, BeginExecute(c, id)
      PROVE  TypeOK'
  <2>1. [phase |-> "consumed", id |-> id, preview |-> previews[id]] \in Ops
    BY <1>0, <1>2 DEF BeginExecute, Usable, Ops, TypeOK
  <2>2. op' \in [Clients -> Ops] /\ slot' \in Clients
    BY <1>0, <1>2, <2>1 DEF BeginExecute, AcquireRemovalSlot, TypeOK
  <2>3. previews' \in [PreviewIDs -> Previews \cup {None}]
    BY <1>0, <1>2, ConsumeType DEF BeginExecute
  <2> QED
    BY <1>0, <1>2, <2>2, <2>3 DEF BeginExecute, TypeOK
<1>3. ASSUME NEW id \in PreviewIDs, MintPreview(c, id)
      PROVE  TypeOK'
  <2> DEFINE new == [snapshot |-> op[c].snapshot, addrs |-> op[c].addrs,
                     expires |-> clock + PreviewTTL]
  <2>1. new \in Previews
    BY <1>0, <1>3, OpShape DEF MintPreview, Previews, TypeOK
  <2>2. previews' \in [PreviewIDs -> Previews \cup {None}]
    <3> HIDE DEF new
    <3>1. PICK kept : previews' = [x \in PreviewIDs |->
                          IF x = id THEN new ELSE IF x \in kept THEN previews[x] ELSE None]
      BY <1>3 DEF MintPreview, new
    <3> QED
      BY <1>0, <3>1, <2>1 DEF TypeOK
  <2>3. op' \in [Clients -> Ops] /\ slot' \in Clients \cup {None}
    BY <1>0, <1>3, AnswerType DEF MintPreview
  <2> QED
    BY <1>0, <1>3, <2>2, <2>3 DEF MintPreview, TypeOK
<1>4. CASE RefusePreview(c) \/ RefuseExecute(c)
  <2>1. op' \in [Clients -> Ops] /\ slot' \in Clients \cup {None}
    BY <1>0, <1>4, AnswerType DEF RefusePreview, RefuseExecute
  <2> QED
    BY <1>0, <1>4, <2>1 DEF RefusePreview, RefuseExecute, TypeOK
<1>5. ASSUME NEW r \in RunIDs, ApproveRemoval(c, r)
      PROVE  TypeOK'
  <2>1. op[c].id \in PreviewIDs /\ op[c].preview \in Previews
    BY <1>0, <1>5, OpShape DEF ApproveRemoval
  <2>2. run' = [run EXCEPT ![r].id = op[c].id, ![r].preview = op[c].preview]
    BY <1>5 DEF ApproveRemoval
  <2>3. run' = [run EXCEPT ![r] = [run[r] EXCEPT !.id = op[c].id, !.preview = op[c].preview]]
    BY <1>0, <2>2 DEF TypeOK
  <2>4. op' \in [Clients -> Ops]
    BY <1>0, <1>5 DEF ApproveRemoval, TypeOK, Ops
  <2>6. [run[r] EXCEPT !.id = op[c].id, !.preview = op[c].preview] \in RunRecords
    BY <1>0, <2>1, RunShape DEF RunRecords
  <2>7. run' \in [RunIDs -> RunRecords]
    BY <1>0, <2>3, <2>6, RunUpdate
  <2>5. trail' \in [RunIDs -> Sink!TrailStates]
    BY <1>0, <1>5 DEF ApproveRemoval, Sink!Approve, Sink!TrailStates, TypeOK
  <2> QED
    BY <1>0, <1>5, <2>4, <2>5, <2>7 DEF ApproveRemoval, TypeOK, RunRecords
<1>6. CASE WriteBackup(c)
  <2>1. op[c] \in [phase : Executing, run : RunIDs] /\ op[c].phase \in Executing
    BY <1>0, <1>6, OpShape DEF WriteBackup, Executing
  <2>2. run[op[c].run].preview.snapshot.content \in Contents
    BY <1>0, <2>1 DEF PhaseInv, Previews, Snapshots
  <2>3. op' \in [Clients -> Ops]
    BY <1>0, <1>6, <2>1 DEF WriteBackup, TypeOK, Ops
  <2> QED
    BY <1>0, <1>6, <2>1, <2>2, <2>3 DEF WriteBackup, TypeOK
<1>7. CASE StartTerraform(c)
  <2>1. op[c] \in [phase : Executing, run : RunIDs]
    BY <1>0, <1>7, OpShape DEF StartTerraform, Executing
  <2>2. op' \in [Clients -> Ops]
    BY <1>0, <1>7, <2>1 DEF StartTerraform, TypeOK, Ops
  <2> QED
    BY <1>0, <1>7, <2>1, <2>2 DEF StartTerraform, TypeOK
<1>8. CASE AbandonRemoval(c)
  <2>1. op[c].run \in RunIDs
    BY <1>0, <1>8, OpShape DEF AbandonRemoval, Executing
  <2>2. trail' \in [RunIDs -> Sink!TrailStates]
    BY <1>0, <1>8, <2>1, CompleteType DEF AbandonRemoval
  <2>3. op' \in [Clients -> Ops] /\ slot' \in Clients \cup {None}
    BY <1>0, <1>8, AnswerType DEF AbandonRemoval
  <2>4. [run[op[c].run] EXCEPT !.outcome = "refused"] \in RunRecords
    BY <1>0, <2>1, RunShape DEF RunRecords
  <2>5. run' = [run EXCEPT ![op[c].run] = [run[op[c].run] EXCEPT !.outcome = "refused"]]
    BY <1>8 DEF AbandonRemoval
  <2>6. run' \in [RunIDs -> RunRecords]
    BY <1>0, <2>1, <2>4, <2>5, RunUpdate
  <2> QED
    BY <1>0, <1>8, <2>2, <2>3, <2>6 DEF AbandonRemoval, TypeOK, RunRecords
<1>9. CASE FinishRemoval(c)
  <2>1. op[c].run \in RunIDs
    BY <1>0, <1>9, OpShape DEF FinishRemoval, Executing
  <2>2. trail' \in [RunIDs -> Sink!TrailStates]
    BY <1>0, <1>9, <2>1, CompleteType DEF FinishRemoval
  <2>3. op' \in [Clients -> Ops] /\ slot' \in Clients \cup {None}
    BY <1>0, <1>9, AnswerType DEF FinishRemoval
  <2>4. PICK result \in {"refused", "removed", "unverified"} :
            run' = [run EXCEPT ![op[c].run].seen = file.content,
                               ![op[c].run].outcome = result]
    BY <1>9 DEF FinishRemoval, PossibleOutcomes
  <2>5. run' = [run EXCEPT ![op[c].run] =
                   [run[op[c].run] EXCEPT !.seen = file.content, !.outcome = result]]
    BY <1>0, <2>1, <2>4 DEF TypeOK
  <2>6. file.content \in Contents
    BY <1>0 DEF TypeOK, Snapshots
  <2>7. [run[op[c].run] EXCEPT !.seen = file.content, !.outcome = result] \in RunRecords
    BY <1>0, <2>1, <2>6, RunShape DEF RunRecords
  <2>8. run' \in [RunIDs -> RunRecords]
    BY <1>0, <2>1, <2>5, <2>7, RunUpdate
  <2> QED
    BY <1>0, <1>9, <2>2, <2>3, <2>8 DEF FinishRemoval, TypeOK, RunRecords
<1> QED
  BY <1>1, <1>2, <1>3, <1>4, <1>5, <1>6, <1>7, <1>8, <1>9 DEF ClientStep, Progress

(* So do the steps of Terraform and of the rest of the world. *)
LEMMA OtherTypes ==
    ASSUME CoreInv,
           \/ \E id \in PreviewIDs : RejectExecute(id)
           \/ \E r \in RunIDs : TerraformStep(r)
           \/ WorldStep
           \/ UNCHANGED vars
    PROVE  TypeOK'
<1> USE RemovalAssumption
<1>0. TypeOK /\ RunInv /\ file.content \in Contents
  BY DEF CoreInv, TypeOK, Snapshots
<1>1. ASSUME NEW id \in PreviewIDs, RejectExecute(id)
      PROVE  TypeOK'
  BY <1>0, <1>1, ConsumeType DEF RejectExecute, TypeOK
<1>2. ASSUME NEW r \in RunIDs, TerraformReads(r)
      PROVE  TypeOK'
  <2>1. lock' \in RunIDs
    BY <1>2 DEF TerraformReads, StateRemovalArgs
  <2>2. run' = [run EXCEPT ![r] = [run[r] EXCEPT !.tf = "reading", !.read = file.content]]
    BY <1>0, <1>2 DEF TerraformReads, TypeOK
  <2> QED
    BY <1>0, <1>2, <2>1, <2>2 DEF TerraformReads, TypeOK, serviceVars
<1>3. ASSUME NEW r \in RunIDs, TerraformBacksUp(r)
      PROVE  TypeOK'
  <2>1. run' = [run EXCEPT ![r] = [run[r] EXCEPT !.tf = "backed",
                                                 !.terraformBackup = run[r].read]]
    BY <1>0, <1>3 DEF TerraformBacksUp, TypeOK
  <2> QED
    BY <1>0, <1>3, <2>1 DEF TerraformBacksUp, TypeOK, serviceVars
<1>4. ASSUME NEW r \in RunIDs, TerraformWrites(r)
      PROVE  TypeOK'
  <2>1. run[r].read \in Contents
    BY <1>0, <1>4 DEF TerraformWrites, RunInv, Holding
  <2>2. PICK kept \in SUBSET run[r].read.addrs :
            Write([run[r].read EXCEPT !.serial = @ + 1, !.addrs = kept])
    BY <1>4 DEF TerraformWrites
  <2>3. [run[r].read EXCEPT !.serial = @ + 1, !.addrs = kept] \in Contents
    <3>1. kept \in SUBSET Addresses /\ run[r].read.serial + 1 \in Nat
      BY <2>1, <2>2 DEF Contents
    <3> QED
      BY <2>1, <3>1 DEF Contents
  <2>4. file' \in Snapshots
    BY <1>0, <2>2, <2>3, WriteType
  <2>5. run' = [run EXCEPT ![r] = [run[r] EXCEPT !.tf = "wrote", !.wrote = TRUE]]
    BY <1>0, <1>4 DEF TerraformWrites, TypeOK
  <2> QED
    BY <1>0, <1>4, <2>4, <2>5 DEF TerraformWrites, TypeOK, serviceVars
<1>5. ASSUME NEW r \in RunIDs, TerraformEnds(r)
      PROVE  TypeOK'
  <2>1. PICK end \in {"clean", "unclean"} : run' = [run EXCEPT ![r].tf = end]
    BY <1>5 DEF TerraformEnds
  <2> QED
    BY <1>0, <1>5, <2>1 DEF TerraformEnds, TypeOK, serviceVars
<1>6. CASE OtherTerraform
  <2>1. PICK addrs \in SUBSET Addresses :
            Write([file.content EXCEPT !.serial = @ + 1, !.addrs = addrs,
                                       !.attrs = file.stamp + 1])
    BY <1>6 DEF OtherTerraform
  <2>2. [file.content EXCEPT !.serial = @ + 1, !.addrs = addrs,
                             !.attrs = file.stamp + 1] \in Contents
    <3>1. file.content.serial + 1 \in Nat /\ file.stamp + 1 \in Nat
      BY <1>0 DEF Contents, TypeOK, Snapshots
    <3> QED
      BY <1>0, <2>1, <3>1 DEF Contents
  <2>3. file' \in Snapshots
    BY <1>0, <2>1, <2>2, WriteType
  <2> QED
    BY <1>0, <1>6, <2>3 DEF OtherTerraform, TypeOK, serviceVars
<1>7. CASE Edit
  <2>1. PICK lineage \in Lineages, serial \in 0 .. file.content.serial,
             addrs \in SUBSET Addresses :
            Write([lineage |-> lineage, serial |-> serial, addrs |-> addrs,
                   attrs |-> file.stamp + 1])
    BY <1>7 DEF Edit
  <2>2. [lineage |-> lineage, serial |-> serial, addrs |-> addrs,
         attrs |-> file.stamp + 1] \in Contents
    BY <1>0 DEF Contents, TypeOK, Snapshots
  <2>3. file' \in Snapshots
    BY <1>0, <2>1, <2>2, WriteType
  <2> QED
    BY <1>0, <1>7, <2>3 DEF Edit, TypeOK, serviceVars
<1>8. CASE CloseJournal \/ Tick \/ UNCHANGED vars
  <2>1. journalOpen' \in BOOLEAN
    BY <1>0, <1>8, Zenon DEF CloseJournal, Tick, vars, TypeOK
  <2>3. clock' \in Nat
    BY <1>0, <1>8 DEF CloseJournal, Tick, vars, TypeOK
  <2>2. UNCHANGED <<file, lock, previews, minted, slot, op, run, trail, edited>>
    BY <1>8 DEF CloseJournal, Tick, vars, serviceVars
  <2> QED
    BY <1>0, <2>1, <2>2, <2>3 DEF TypeOK
<1>9. CASE Restart
  BY <1>0, <1>9 DEF Restart, TypeOK, Ops
<1> QED
  BY <1>1, <1>2, <1>3, <1>4, <1>5, <1>6, <1>7, <1>8, <1>9 DEF TerraformStep, WorldStep


-----------------------------------------------------------------------------
(* Prepared before Terraform starts *)

PreparedInv == PhaseInv /\ RunInv /\ RemovalPrepared

(* A step that leaves the removals and the journal alone, and brings no    *)
(* request into an executing phase, keeps what the phases promise.         *)
LEMMA PreparedFrame ==
    ASSUME PreparedInv, UNCHANGED <<run, lock, trail>>,
           \A d \in Clients : op'[d].phase \in Executing => op'[d] = op[d]
    PROVE  PreparedInv'
BY DEF PreparedInv, PhaseInv, RunInv, RemovalPrepared

(* The journal never forgets an approval. *)
LEMMA TrailGrows ==
    ASSUME TypeOK, NEW r \in RunIDs, CompleteRemoval(r)
    PROVE  \A s \in RunIDs : trail[s] # "none" => trail'[s] # "none"
BY DEF CompleteRemoval, Sink!Complete, TypeOK

(* The steps of requests keep what the phases promise. *)
LEMMA ClientPrepared ==
    ASSUME CoreInv, NEW c \in Clients, ClientStep(c)
    PROVE  PreparedInv'
<1>0. TypeOK /\ SingleFlight /\ PhaseInv /\ RunInv /\ RemovalPrepared /\ PreparedInv
  BY DEF CoreInv, PreparedInv
<1>1. ASSUME NEW new, op' = [op EXCEPT ![c] = new], new.phase \notin Executing,
             UNCHANGED <<run, lock, trail>>
      PROVE  PreparedInv'
  BY <1>0, <1>1, PreparedFrame DEF TypeOK
<1>2. ASSUME NEW addrs \in SUBSET Addresses, BeginPreview(c, addrs)
      PROVE  PreparedInv'
  BY <1>2, <1>1 DEF BeginPreview, Executing
<1>3. ASSUME NEW id \in PreviewIDs, BeginExecute(c, id)
      PROVE  PreparedInv'
  BY <1>3, <1>1 DEF BeginExecute, Executing
<1>4. ASSUME NEW id \in PreviewIDs, MintPreview(c, id)
      PROVE  PreparedInv'
  BY <1>4, <1>1 DEF MintPreview, Answer, Idle, Executing
<1>5. CASE RefusePreview(c) \/ RefuseExecute(c)
  BY <1>5, <1>1 DEF RefusePreview, RefuseExecute, Answer, Idle, Executing
<1>6. ASSUME NEW r \in RunIDs, ApproveRemoval(c, r)
      PROVE  PreparedInv'
  <2>1. /\ op[c].preview \in Previews
        /\ \A d \in Clients \ {c} : op'[d] = op[d] /\ op[d].phase = "idle"
        /\ op'[c] = [phase |-> "approved", run |-> r]
    BY <1>0, <1>6, OpShape, OnlyOne DEF ApproveRemoval, TypeOK
  <2>2. /\ run[r] = NewRun
        /\ \A s \in RunIDs \ {r} : run'[s] = run[s]
        /\ run'[r] = [NewRun EXCEPT !.id = op[c].id, !.preview = op[c].preview]
    BY <1>0, <1>6 DEF ApproveRemoval, TypeOK
  <2>3. /\ \A s \in RunIDs \ {r} : run'[s] = run[s]
        /\ run'[r].preview = op[c].preview
        /\ run'[r].tf = "none" /\ run'[r].read = None /\ run'[r].terraformBackup = None
        /\ run'[r].wrote = FALSE /\ run'[r].outcome = "none"
    BY <2>2 DEF NewRun
  <2>4. trail'[r] = "approved" /\ \A s \in RunIDs \ {r} : trail'[s] = trail[s]
    BY <1>0, <1>6 DEF ApproveRemoval, Sink!Approve, TypeOK
  <2>8. UNCHANGED lock
    BY <1>6 DEF ApproveRemoval
  <2>5. PhaseInv'
    BY <2>1, <2>3, <2>4 DEF PhaseInv, Executing
  <2>6. RunInv'
    BY <1>0, <2>3, <2>8 DEF RunInv, Holding
  <2>7. RemovalPrepared'
    BY <1>0, <2>3, <2>4 DEF RemovalPrepared
  <2> QED
    BY <2>5, <2>6, <2>7 DEF PreparedInv
<1>7. CASE WriteBackup(c)
  <2> DEFINE r == op[c].run
  <2>1. /\ op[c] \in [phase : Executing, run : RunIDs] /\ r \in RunIDs
        /\ \A d \in Clients \ {c} : op'[d] = op[d] /\ op[d].phase = "idle"
        /\ op'[c].phase = "backed" /\ op'[c].run = r
    BY <1>0, <1>7, OpShape, OnlyOne DEF WriteBackup, TypeOK, Executing
  <2>2. /\ \A s \in RunIDs \ {r} : run'[s] = run[s]
        /\ run'[r] = [run[r] EXCEPT !.backup = run[r].preview.snapshot.content]
    BY <1>0, <1>7, <2>1 DEF WriteBackup, TypeOK
  <2>3. /\ \A s \in RunIDs \ {r} : run'[s] = run[s]
        /\ run'[r].backup = run[r].preview.snapshot.content
        /\ run'[r].preview = run[r].preview /\ run'[r].tf = run[r].tf
        /\ run'[r].read = run[r].read /\ run'[r].terraformBackup = run[r].terraformBackup
        /\ run'[r].wrote = run[r].wrote /\ run'[r].outcome = run[r].outcome
    BY <1>0, <2>1, <2>2, RunShape DEF RunRecords
  <2>4. op[c].phase = "approved" /\ UNCHANGED <<lock, trail>>
    BY <1>7 DEF WriteBackup
  <2> HIDE DEF r
  <2>5. PhaseInv'
    BY <1>0, <2>1, <2>3, <2>4 DEF PhaseInv, Executing, r
  <2>6. RunInv'
    BY <1>0, <2>1, <2>3, <2>4 DEF RunInv
  <2>7. RemovalPrepared'
    BY <1>0, <2>1, <2>3, <2>4 DEF RemovalPrepared
  <2> QED
    BY <2>5, <2>6, <2>7 DEF PreparedInv
<1>8. CASE StartTerraform(c)
  <2> DEFINE r == op[c].run
  <2>1. /\ op[c] \in [phase : Executing, run : RunIDs] /\ r \in RunIDs
        /\ \A d \in Clients \ {c} : op'[d] = op[d] /\ op[d].phase = "idle"
        /\ op'[c].phase = "running" /\ op'[c].run = r
    BY <1>0, <1>8, OpShape, OnlyOne DEF StartTerraform, TypeOK, Executing
  <2>2. /\ \A s \in RunIDs \ {r} : run'[s] = run[s]
        /\ run'[r] = [run[r] EXCEPT !.tf = "started"]
    BY <1>0, <1>8, <2>1 DEF StartTerraform, TypeOK
  <2>3. /\ \A s \in RunIDs \ {r} : run'[s] = run[s]
        /\ run'[r].tf = "started"
        /\ run'[r].backup = run[r].backup /\ run'[r].preview = run[r].preview
        /\ run'[r].read = run[r].read /\ run'[r].terraformBackup = run[r].terraformBackup
        /\ run'[r].wrote = run[r].wrote /\ run'[r].outcome = run[r].outcome
    BY <1>0, <2>1, <2>2, RunShape DEF RunRecords
  <2>4. op[c].phase = "backed" /\ UNCHANGED <<lock, trail>>
    BY <1>8 DEF StartTerraform
  <2>5. /\ run[r].preview \in Previews /\ trail[r] # "none" /\ run[r].outcome = "none"
        /\ run[r].tf = "none" /\ run[r].backup = run[r].preview.snapshot.content
    BY <1>0, <2>1, <2>4 DEF PhaseInv, Executing
  <2> HIDE DEF r
  <2>6. PhaseInv'
    BY <2>1, <2>3, <2>4, <2>5 DEF PhaseInv, Executing
  <2>7. RunInv'
    BY <1>0, <2>1, <2>3, <2>4, <2>5 DEF RunInv, Holding
  <2>8. RemovalPrepared'
    BY <1>0, <2>1, <2>3, <2>4, <2>5 DEF RemovalPrepared
  <2> QED
    BY <2>6, <2>7, <2>8 DEF PreparedInv
<1>9. CASE AbandonRemoval(c) \/ FinishRemoval(c)
  <2> DEFINE r == op[c].run
  <2>1. /\ op[c].phase \in Executing /\ r \in RunIDs
        /\ \A d \in Clients : op'[d].phase = "idle"
    <3>1. op[c].phase \in Executing /\ op[c].phase # "idle" /\ Answer(c)
      BY <1>9 DEF AbandonRemoval, FinishRemoval, Executing
    <3>2. \A d \in Clients \ {c} : op[d].phase = "idle"
      BY <1>0, <3>1, OnlyOne
    <3> QED
      BY <1>0, <3>1, <3>2, OpShape DEF Answer, Idle, TypeOK
  <2>2. run[r].tf \in {"none", "clean", "unclean"}
    BY <1>0, <1>9, <2>1 DEF PhaseInv, AbandonRemoval, FinishRemoval, Executing
  <2>3. /\ \A s \in RunIDs \ {r} : run'[s] = run[s]
        /\ run'[r].tf = run[r].tf
        /\ run'[r].backup = run[r].backup /\ run'[r].preview = run[r].preview
        /\ run'[r].read = run[r].read /\ run'[r].terraformBackup = run[r].terraformBackup
        /\ run'[r].wrote = run[r].wrote
    <3>1. PICK result, was :
              run' = [run EXCEPT ![r] = [run[r] EXCEPT !.seen = was, !.outcome = result]]
      <4>1. CASE AbandonRemoval(c)
        <5>1. run' = [run EXCEPT ![r] = [run[r] EXCEPT !.outcome = "refused"]]
          BY <4>1 DEF AbandonRemoval
        <5>2. [run[r] EXCEPT !.outcome = "refused"]
                  = [run[r] EXCEPT !.seen = run[r].seen, !.outcome = "refused"]
          BY <1>0, <2>1, RunShape DEF RunRecords
        <5> QED
          BY <5>1, <5>2
      <4>2. CASE FinishRemoval(c)
        <5>1. PICK result : run' = [run EXCEPT ![r].seen = file.content, ![r].outcome = result]
          BY <4>2 DEF FinishRemoval
        <5>2. run' = [run EXCEPT ![r] = [run[r] EXCEPT !.seen = file.content,
                                                       !.outcome = result]]
          BY <1>0, <2>1, <5>1 DEF TypeOK
        <5> QED
          BY <5>2
      <4> QED
        BY <1>9, <4>1, <4>2
    <3> QED
      BY <1>0, <2>1, <3>1, RunShape DEF RunRecords, TypeOK
  <2>4. (\A s \in RunIDs : trail[s] # "none" => trail'[s] # "none") /\ UNCHANGED lock
    BY <1>0, <1>9, <2>1, TrailGrows DEF AbandonRemoval, FinishRemoval
  <2> HIDE DEF r
  <2>5. PhaseInv'
    BY <2>1 DEF PhaseInv, Executing
  <2>6. RunInv'
    BY <1>0, <2>1, <2>2, <2>3, <2>4 DEF RunInv
  <2>7. RemovalPrepared'
    BY <1>0, <2>1, <2>3, <2>4 DEF RemovalPrepared
  <2> QED
    BY <2>5, <2>6, <2>7 DEF PreparedInv
<1> QED
  BY <1>2, <1>3, <1>4, <1>5, <1>6, <1>7, <1>8, <1>9 DEF ClientStep, Progress


(* What the phases of Terraform change in their removal. *)
LEMMA ReadsEffect ==
    ASSUME TypeOK, NEW r \in RunIDs, TerraformReads(r)
    PROVE  /\ \A s \in RunIDs \ {r} : run'[s] = run[s]
           /\ run[r].tf = "started" /\ run'[r].tf = "reading"
           /\ run'[r].read = file.content
           /\ run'[r].id = run[r].id /\ run'[r].preview = run[r].preview
           /\ run'[r].backup = run[r].backup
           /\ run'[r].terraformBackup = run[r].terraformBackup
           /\ run'[r].wrote = run[r].wrote /\ run'[r].outcome = run[r].outcome
           /\ lock = None /\ lock' = r
           /\ UNCHANGED <<file, previews, minted, slot, op, trail, edited>>
<1>1. run' = [run EXCEPT ![r] = [run[r] EXCEPT !.tf = "reading", !.read = file.content]]
  BY DEF TerraformReads, TypeOK
<1>2. \A s \in RunIDs \ {r} : run'[s] = run[s]
  BY <1>1 DEF TypeOK
<1>3. run'[r] = [run[r] EXCEPT !.tf = "reading", !.read = file.content]
  BY <1>1 DEF TypeOK
<1>4. run[r] \in RunRecords
  BY RunShape
<1>5. run[r].tf = "started" /\ lock = None /\ lock' = r
  BY DEF TerraformReads, StateRemovalArgs
<1>6. UNCHANGED <<file, previews, minted, slot, op, trail, edited>>
  BY DEF TerraformReads, serviceVars
<1> QED
  BY <1>2, <1>3, <1>4, <1>5, <1>6 DEF RunRecords

(* Terraform has written its backup of what it read. *)
LEMMA BacksUpEffect ==
    ASSUME TypeOK, NEW r \in RunIDs, TerraformBacksUp(r)
    PROVE  /\ \A s \in RunIDs \ {r} : run'[s] = run[s]
           /\ run[r].tf = "reading" /\ run'[r].tf = "backed"
           /\ run'[r].terraformBackup = run[r].read
           /\ run'[r].id = run[r].id /\ run'[r].preview = run[r].preview
           /\ run'[r].backup = run[r].backup /\ run'[r].read = run[r].read
           /\ run'[r].wrote = run[r].wrote /\ run'[r].outcome = run[r].outcome
           /\ UNCHANGED <<lock, file, previews, minted, slot, op, trail, edited>>
<1>1. run' = [run EXCEPT ![r] = [run[r] EXCEPT !.tf = "backed",
                                               !.terraformBackup = run[r].read]]
  BY DEF TerraformBacksUp, TypeOK
<1>2. \A s \in RunIDs \ {r} : run'[s] = run[s]
  BY <1>1 DEF TypeOK
<1>3. run'[r] = [run[r] EXCEPT !.tf = "backed", !.terraformBackup = run[r].read]
  BY <1>1 DEF TypeOK
<1>4. run[r] \in RunRecords
  BY RunShape
<1>5. /\ run[r].tf = "reading"
      /\ UNCHANGED <<lock, file, previews, minted, slot, op, trail, edited>>
  BY DEF TerraformBacksUp, serviceVars
<1> QED
  BY <1>2, <1>3, <1>4, <1>5 DEF RunRecords

(* Terraform has written the file. *)
LEMMA WritesEffect ==
    ASSUME TypeOK, NEW r \in RunIDs, TerraformWrites(r)
    PROVE  /\ \A s \in RunIDs \ {r} : run'[s] = run[s]
           /\ run[r].tf = "backed" /\ run'[r].tf = "wrote" /\ run'[r].wrote = TRUE
           /\ run'[r].id = run[r].id /\ run'[r].preview = run[r].preview
           /\ run'[r].backup = run[r].backup /\ run'[r].read = run[r].read
           /\ run'[r].terraformBackup = run[r].terraformBackup
           /\ run'[r].outcome = run[r].outcome
           /\ UNCHANGED <<lock, previews, minted, slot, op, trail, edited>>
<1>1. run' = [run EXCEPT ![r] = [run[r] EXCEPT !.tf = "wrote", !.wrote = TRUE]]
  BY DEF TerraformWrites, TypeOK
<1>2. \A s \in RunIDs \ {r} : run'[s] = run[s]
  BY <1>1 DEF TypeOK
<1>3. run'[r] = [run[r] EXCEPT !.tf = "wrote", !.wrote = TRUE]
  BY <1>1 DEF TypeOK
<1>4. run[r] \in RunRecords
  BY RunShape
<1>5. /\ run[r].tf = "backed"
      /\ UNCHANGED <<lock, previews, minted, slot, op, trail, edited>>
  BY DEF TerraformWrites, serviceVars
<1> QED
  BY <1>2, <1>3, <1>4, <1>5 DEF RunRecords

(* Terraform has ended and lets go of the lock. *)
LEMMA EndsEffect ==
    ASSUME TypeOK, NEW r \in RunIDs, TerraformEnds(r)
    PROVE  /\ \A s \in RunIDs \ {r} : run'[s] = run[s]
           /\ run[r].tf \in {"started", "reading", "backed", "wrote"}
           /\ run'[r].tf \in {"clean", "unclean"}
           /\ run'[r].id = run[r].id /\ run'[r].preview = run[r].preview
           /\ run'[r].backup = run[r].backup /\ run'[r].read = run[r].read
           /\ run'[r].terraformBackup = run[r].terraformBackup
           /\ run'[r].wrote = run[r].wrote /\ run'[r].outcome = run[r].outcome
           /\ lock' = (IF lock = r THEN None ELSE lock)
           /\ UNCHANGED <<file, previews, minted, slot, op, trail, edited>>
<1>1. PICK end \in {"clean", "unclean"} : run' = [run EXCEPT ![r].tf = end]
  BY DEF TerraformEnds
<1>2. \A s \in RunIDs \ {r} : run'[s] = run[s]
  BY <1>1 DEF TypeOK
<1>3. run'[r] = [run[r] EXCEPT !.tf = end]
  BY <1>1 DEF TypeOK
<1>4. run[r] \in RunRecords
  BY RunShape
<1>5. /\ run[r].tf \in {"started", "reading", "backed", "wrote"}
      /\ lock' = (IF lock = r THEN None ELSE lock)
      /\ UNCHANGED <<file, previews, minted, slot, op, trail, edited>>
  BY DEF TerraformEnds, serviceVars
<1> QED
  BY <1>1, <1>2, <1>3, <1>4, <1>5 DEF RunRecords

(* The steps of Terraform keep what the phases promise: it works only for a *)
(* request that is past its preparations, or for none.                      *)
LEMMA TerraformPrepared ==
    ASSUME CoreInv, NEW r \in RunIDs, TerraformStep(r)
    PROVE  PreparedInv'
<1> USE RemovalAssumption
<1>0. TypeOK /\ PhaseInv /\ RunInv /\ RemovalPrepared
  BY DEF CoreInv
<1>1. /\ \A s \in RunIDs \ {r} : run'[s] = run[s]
      /\ run[r].tf # "none" /\ run'[r].tf # "none"
      /\ run'[r].preview = run[r].preview /\ run'[r].backup = run[r].backup
      /\ run'[r].outcome = run[r].outcome
      /\ UNCHANGED <<op, trail>>
  BY <1>0, ReadsEffect, BacksUpEffect, WritesEffect, EndsEffect DEF TerraformStep
<1>2. \A d \in Clients : op[d].phase \in Executing => op[d].run \in RunIDs
  BY <1>0, OpShape
<1>3. PhaseInv'
  BY <1>0, <1>1, <1>2 DEF PhaseInv, Executing
<1>4. RemovalPrepared'
  BY <1>0, <1>1 DEF RemovalPrepared
<1>5. RunInv'
  <2>1. CASE TerraformReads(r)
    <3>1. file.content \in Contents /\ \A s \in RunIDs : run[s].tf \notin Holding
      BY <1>0, <2>1, ReadsEffect DEF RunInv, TypeOK, Snapshots
    <3> QED
      BY <1>0, <2>1, <3>1, ReadsEffect DEF RunInv, Holding
  <2>2. CASE TerraformBacksUp(r)
    BY <1>0, <2>2, BacksUpEffect DEF RunInv, Holding
  <2>3. CASE TerraformWrites(r)
    <3>1. run'[r].tf = "wrote" /\ run[r].tf = "backed" /\ UNCHANGED lock
      BY <1>0, <2>3, WritesEffect
    <3>2. /\ \A s \in RunIDs \ {r} : run'[s] = run[s]
          /\ run'[r].preview = run[r].preview /\ run'[r].read = run[r].read
          /\ run'[r].terraformBackup = run[r].terraformBackup
          /\ run'[r].outcome = run[r].outcome
      BY <1>0, <2>3, WritesEffect
    <3> QED
      BY <1>0, <3>1, <3>2 DEF RunInv, Holding
  <2>4. CASE TerraformEnds(r)
    BY <1>0, <2>4, EndsEffect DEF RunInv, Holding
  <2> QED
    BY <2>1, <2>2, <2>3, <2>4 DEF TerraformStep
<1> QED
  BY <1>3, <1>4, <1>5 DEF PreparedInv

(* The rest of the world touches neither the removals nor the journal. *)
LEMMA WorldPrepared ==
    ASSUME CoreInv,
           \/ \E id \in PreviewIDs : RejectExecute(id)
           \/ WorldStep
           \/ UNCHANGED vars
    PROVE  PreparedInv'
<1>1. PreparedInv /\ UNCHANGED <<run, lock, trail>>
  BY DEF CoreInv, PreparedInv, RejectExecute, WorldStep, OtherTerraform, Edit,
         CloseJournal, Restart, Tick, vars, serviceVars
<1>2. \A d \in Clients : op'[d] = op[d] \/ op'[d] = Idle
  BY DEF RejectExecute, WorldStep, OtherTerraform, Edit, CloseJournal, Restart, Tick,
         vars, serviceVars
<1> QED
  BY <1>1, <1>2, PreparedFrame DEF Idle, Executing

(* The types, the slot and the preparations are one inductive invariant:   *)
(* the types of what a removal reads rest on its phase, the phase on there *)
(* being one request at a time.                                            *)
THEOREM CoreInvariant == Spec => []CoreInv
<1>1. Init => CoreInv
  <2> SUFFICES ASSUME Init PROVE CoreInv
    OBVIOUS
  <2>1. NewRun \in RunRecords
    BY DEF NewRun, RunRecords
  <2>2. file \in Snapshots
    BY DEF Init, Snapshots, Contents
  <2>3. op \in [Clients -> Ops] /\ trail \in [RunIDs -> Sink!TrailStates]
    BY DEF Init, Ops, Idle, Sink!Init, Sink!TrailStates
  <2>4. TypeOK
    <3>1. journalOpen \in BOOLEAN /\ edited \in BOOLEAN
      BY Zenon DEF Init
    <3>2. run \in [RunIDs -> RunRecords]
      BY <2>1 DEF Init
    <3>3. /\ lock = None /\ minted = {} /\ slot = None /\ clock \in Nat
          /\ previews \in [PreviewIDs -> Previews \cup {None}]
      BY DEF Init
    <3> QED
      BY <2>2, <2>3, <3>1, <3>2, <3>3 DEF TypeOK, RunRecords
  <2>5. SingleFlight /\ PhaseInv
    BY RemovalAssumption DEF Init, SingleFlight, PhaseInv, Executing, Idle
  <2>6. RunInv /\ RemovalPrepared
    BY DEF Init, RunInv, RemovalPrepared, NewRun, Holding
  <2> QED
    BY <2>4, <2>5, <2>6 DEF CoreInv
<1>2. CoreInv /\ [Next]_vars => CoreInv'
  <2> SUFFICES ASSUME CoreInv, [Next]_vars PROVE CoreInv'
    OBVIOUS
  <2>1. SingleFlight'
    BY FlightStep DEF CoreInv
  <2>2. TypeOK'
    BY ClientTypes, OtherTypes DEF Next
  <2>3. PreparedInv'
    BY ClientPrepared, TerraformPrepared, WorldPrepared DEF Next
  <2> QED
    BY <2>1, <2>2, <2>3 DEF CoreInv, PreparedInv
<1> QED
  BY <1>1, <1>2, PTL DEF Spec

(* The variables keep their types; in particular a removal that started    *)
(* Terraform kept the preview it was started from (state_removal.go).      *)
THEOREM RemovalTypes == Spec => []TypeOK
BY CoreInvariant, PTL DEF CoreInv

(* One operation on the state at a time, and the slot is always given back *)
(* (state_removal.go:105-112).                                             *)
THEOREM OneAtATime == Spec => []SingleFlight
BY CoreInvariant, PTL DEF CoreInv

(* Whenever Terraform may touch the file, the approval is in the journal    *)
(* and the previewed state in a backup, even after CLIHarbor has died       *)
(* (state_removal.go:331-364).                                              *)
THEOREM PreparedFirst == Spec => []RemovalPrepared
BY CoreInvariant, PTL DEF CoreInv


-----------------------------------------------------------------------------
(* A token starts at most one removal *)

(* After its approval an execution changes neither the tokens nor what its *)
(* removal was started from, and nothing of what Terraform did.            *)
LEMMA ExecutionEffect ==
    ASSUME CoreInv, NEW c \in Clients,
           WriteBackup(c) \/ StartTerraform(c) \/ AbandonRemoval(c) \/ FinishRemoval(c)
    PROVE  /\ \A s \in RunIDs :
                  /\ run'[s].id = run[s].id /\ run'[s].preview = run[s].preview
                  /\ run'[s].read = run[s].read /\ run'[s].wrote = run[s].wrote
                  /\ run'[s].tf \in Holding => run[s].tf \in Holding
           /\ \A d \in Clients : op'[d].phase \in Executing \cup {"idle"}
           /\ UNCHANGED <<file, previews, minted, edited>>
<1>0. TypeOK /\ SingleFlight
  BY DEF CoreInv
<1>1. op[c].phase \in Executing /\ op[c] \in [phase : Executing, run : RunIDs]
  BY <1>0, OpShape DEF WriteBackup, StartTerraform, AbandonRemoval, FinishRemoval, Executing
<1>2. UNCHANGED <<file, previews, minted, edited>>
  BY DEF WriteBackup, StartTerraform, AbandonRemoval, FinishRemoval
<1>3. \A d \in Clients : op'[d].phase \in Executing \cup {"idle"}
  <2>1. \A d \in Clients \ {c} : op[d].phase = "idle"
    BY <1>0, <1>1, OnlyOne DEF Executing
  <2>2. CASE WriteBackup(c) \/ StartTerraform(c)
    BY <1>0, <1>1, <2>1, <2>2 DEF WriteBackup, StartTerraform, TypeOK, Executing
  <2>3. CASE Answer(c)
    BY <1>0, <2>1, <2>3 DEF Answer, Idle, TypeOK
  <2> QED
    BY <2>2, <2>3 DEF AbandonRemoval, FinishRemoval
<1>4. \A s \in RunIDs : run[s] \in RunRecords
  BY <1>0, RunShape
<1>5. CASE WriteBackup(c) \/ StartTerraform(c) \/ AbandonRemoval(c)
  <2>1. PICK b, t, o :
            /\ run' = [run EXCEPT ![op[c].run] =
                          [run[op[c].run] EXCEPT !.backup = b, !.tf = t, !.outcome = o]]
            /\ t = "started" \/ t = run[op[c].run].tf
    <3> DEFINE old == run[op[c].run]
    <3>1. CASE WriteBackup(c)
      <4>1. [old EXCEPT !.backup = old.preview.snapshot.content]
              = [old EXCEPT !.backup = old.preview.snapshot.content, !.tf = old.tf,
                            !.outcome = old.outcome]
        BY <1>1, <1>4 DEF RunRecords
      <4> QED
        BY <3>1, <4>1 DEF WriteBackup
    <3>2. CASE StartTerraform(c)
      <4>1. [old EXCEPT !.tf = "started"]
              = [old EXCEPT !.backup = old.backup, !.tf = "started", !.outcome = old.outcome]
        BY <1>1, <1>4 DEF RunRecords
      <4> QED
        BY <3>2, <4>1 DEF StartTerraform
    <3>3. CASE AbandonRemoval(c)
      <4>1. [old EXCEPT !.outcome = "refused"]
              = [old EXCEPT !.backup = old.backup, !.tf = old.tf, !.outcome = "refused"]
        BY <1>1, <1>4 DEF RunRecords
      <4> QED
        BY <3>3, <4>1 DEF AbandonRemoval
    <3> QED
      BY <1>5, <3>1, <3>2, <3>3
  <2> QED
    BY <1>0, <1>1, <1>2, <1>3, <1>4, <2>1 DEF RunRecords, TypeOK, Holding
<1>6. CASE FinishRemoval(c)
  <2>1. PICK o : run' = [run EXCEPT ![op[c].run].seen = file.content, ![op[c].run].outcome = o]
    BY <1>6 DEF FinishRemoval
  <2>2. run' = [run EXCEPT ![op[c].run] =
                    [run[op[c].run] EXCEPT !.seen = file.content, !.outcome = o]]
    BY <1>0, <1>1, <2>1 DEF TypeOK
  <2> QED
    BY <1>0, <1>1, <1>2, <1>3, <1>4, <2>2 DEF RunRecords, TypeOK, Holding
<1> QED
  BY <1>5, <1>6

(* A step that mints no token, consumes none and starts no removal. *)
LEMMA TokenFrame ==
    ASSUME TypeOK, TokenInv, PreviewUsedOnce, UNCHANGED minted,
           \A id \in PreviewIDs : previews'[id] \in {previews[id], None},
           \A s \in RunIDs : run'[s].id = run[s].id,
           \A d \in Clients : op'[d].phase = "consumed" => op'[d] = op[d]
    PROVE  TokenInv' /\ PreviewUsedOnce'
<1>1. \A d \in Clients : op[d].phase = "consumed" => op[d].id \in PreviewIDs
  BY OpShape
<1>2. \A s \in RunIDs : run[s].id \in PreviewIDs \cup {None}
  BY RunShape DEF RunRecords
<1> QED
  BY <1>1, <1>2 DEF TokenInv, PreviewUsedOnce

(* Every step keeps a token in one place. *)
LEMMA TokenStep ==
    ASSUME CoreInv, TokenInv, PreviewUsedOnce, [Next]_vars
    PROVE  TokenInv' /\ PreviewUsedOnce'
<1> USE RemovalAssumption
<1>0. TypeOK /\ SingleFlight
  BY DEF CoreInv
<1>a. \A s \in RunIDs : run[s].id \in PreviewIDs \cup {None}
  BY <1>0, RunShape DEF RunRecords
<1>b. \A d \in Clients : op[d].phase = "consumed" => op[d].id \in PreviewIDs
  BY <1>0, OpShape
<1>1. ASSUME NEW c \in Clients, NEW addrs \in SUBSET Addresses, BeginPreview(c, addrs)
      PROVE  TokenInv' /\ PreviewUsedOnce'
  BY <1>0, <1>1, TokenFrame DEF BeginPreview, TypeOK
<1>2. ASSUME NEW c \in Clients, NEW id \in PreviewIDs, BeginExecute(c, id)
      PROVE  TokenInv' /\ PreviewUsedOnce'
  <2>1. \A d \in Clients \ {c} : op'[d] = op[d] /\ op[d].phase = "idle"
    BY <1>0, <1>2, NobodyWorks DEF BeginExecute, AcquireRemovalSlot, TypeOK
  <2>2. op'[c].id = id /\ previews[id] # None /\ UNCHANGED <<run, minted>>
    BY <1>0, <1>2 DEF BeginExecute, Usable, TypeOK
  <2>3. previews'[id] = None /\ \A x \in PreviewIDs : previews'[x] \in {previews[x], None}
    BY <1>0, <1>2 DEF BeginExecute, ConsumePreview, TypeOK
  <2> QED
    BY <1>a, <2>1, <2>2, <2>3 DEF TokenInv, PreviewUsedOnce
<1>3. ASSUME NEW c \in Clients, NEW id \in PreviewIDs, MintPreview(c, id)
      PROVE  TokenInv' /\ PreviewUsedOnce'
  <2>1. \A d \in Clients : op'[d].phase = "idle"
    BY <1>0, <1>3, OnlyOne DEF MintPreview, Answer, Idle, TypeOK
  <2>2. /\ id \notin minted /\ minted' = minted \cup {id} /\ UNCHANGED run
        /\ \A x \in PreviewIDs \ {id} : previews'[x] \in {previews[x], None}
    BY <1>3 DEF MintPreview
  <2> QED
    BY <1>a, <2>1, <2>2 DEF TokenInv, PreviewUsedOnce
<1>4. ASSUME NEW c \in Clients, NEW r \in RunIDs, ApproveRemoval(c, r)
      PROVE  TokenInv' /\ PreviewUsedOnce'
  <2>1. \A d \in Clients : op'[d].phase # "consumed"
    BY <1>0, <1>4, OnlyOne DEF ApproveRemoval, TypeOK
  <2>2. op[c].phase = "consumed" /\ UNCHANGED <<previews, minted>>
    BY <1>4 DEF ApproveRemoval
  <2>3. run'[r].id = op[c].id /\ \A s \in RunIDs \ {r} : run'[s].id = run[s].id
    <3>1. /\ run'[r] = [NewRun EXCEPT !.id = op[c].id, !.preview = op[c].preview]
          /\ \A s \in RunIDs \ {r} : run'[s] = run[s]
      BY <1>0, <1>4 DEF ApproveRemoval, TypeOK
    <3> QED
      BY <3>1 DEF NewRun
  <2>4. op[c].id \in PreviewIDs
    BY <1>b, <2>2
  <2> QED
    BY <1>a, <2>1, <2>2, <2>3, <2>4 DEF TokenInv, PreviewUsedOnce
<1>5. ASSUME NEW c \in Clients, RefusePreview(c) \/ RefuseExecute(c)
      PROVE  TokenInv' /\ PreviewUsedOnce'
  BY <1>0, <1>5, TokenFrame DEF RefusePreview, RefuseExecute, Answer, Idle, TypeOK
<1>6. ASSUME NEW c \in Clients,
             WriteBackup(c) \/ StartTerraform(c) \/ AbandonRemoval(c) \/ FinishRemoval(c)
      PROVE  TokenInv' /\ PreviewUsedOnce'
  BY <1>0, <1>6, ExecutionEffect, TokenFrame DEF Executing
<1>7. ASSUME NEW id \in PreviewIDs, RejectExecute(id)
      PROVE  TokenInv' /\ PreviewUsedOnce'
  BY <1>0, <1>7, TokenFrame DEF RejectExecute, ConsumePreview, TypeOK
<1>8. ASSUME NEW r \in RunIDs, TerraformStep(r)
      PROVE  TokenInv' /\ PreviewUsedOnce'
  <2>1. (\A s \in RunIDs : run'[s].id = run[s].id) /\ UNCHANGED <<op, previews, minted>>
    <3>1. \A s \in RunIDs \ {r} : run'[s] = run[s]
      BY <1>0, <1>8, ReadsEffect, BacksUpEffect, WritesEffect, EndsEffect DEF TerraformStep
    <3>2. run'[r].id = run[r].id /\ UNCHANGED <<op, previews, minted>>
      BY <1>0, <1>8, ReadsEffect, BacksUpEffect, WritesEffect, EndsEffect DEF TerraformStep
    <3> QED
      BY <3>1, <3>2
  <2> QED
    BY <1>0, <2>1, TokenFrame
<1>9. CASE WorldStep \/ UNCHANGED vars
  <2>1. /\ UNCHANGED <<run, minted>>
        /\ \A d \in Clients : op'[d] = op[d] \/ op'[d] = Idle
        /\ \A id \in PreviewIDs : previews'[id] \in {previews[id], None}
    BY <1>9 DEF WorldStep, OtherTerraform, Edit, CloseJournal, Restart, Tick, vars, serviceVars
  <2> QED
    BY <1>0, <2>1, TokenFrame DEF Idle
<1> QED
  BY <1>1, <1>2, <1>3, <1>4, <1>5, <1>6, <1>7, <1>8, <1>9 DEF Next, ClientStep, Progress

(* A token starts at most one removal, however requests, refusals and      *)
(* restarts follow one another (state_removal.go:274-284).                 *)
THEOREM TokenUsedOnce == Spec => []PreviewUsedOnce
<1>1. Init => TokenInv /\ PreviewUsedOnce
  BY RemovalAssumption DEF Init, TokenInv, PreviewUsedOnce, NewRun, Idle
<1>2. CoreInv /\ (TokenInv /\ PreviewUsedOnce) /\ [Next]_vars
          => (TokenInv /\ PreviewUsedOnce)'
  BY TokenStep
<1> QED
  BY <1>1, <1>2, CoreInvariant, PTL DEF Spec


-----------------------------------------------------------------------------
(* What the serial tells *)

(* What was read from the file is typed. *)
LEMMA ReadTypes ==
    ASSUME TypeOK
    PROVE  /\ file.content \in Contents /\ file.content.serial \in Nat
           /\ \A id \in PreviewIDs : previews[id] # None =>
                  previews[id].snapshot.content.serial \in Nat
           /\ \A c \in Clients :
                  /\ op[c].phase = "dry-run" => op[c].snapshot.content.serial \in Nat
                  /\ op[c].phase = "consumed" => op[c].preview.snapshot.content.serial \in Nat
           /\ \A r \in RunIDs : run[r].preview \in Previews =>
                  run[r].preview.snapshot.content.serial \in Nat
<1>1. file.content \in Contents /\ file.content.serial \in Nat
  BY DEF TypeOK, Snapshots, Contents
<1>2. \A id \in PreviewIDs : previews[id] # None =>
          previews[id].snapshot.content.serial \in Nat
  BY DEF TypeOK, Previews, Snapshots, Contents
<1>3. \A c \in Clients :
          /\ op[c].phase = "dry-run" => op[c].snapshot.content.serial \in Nat
          /\ op[c].phase = "consumed" => op[c].preview.snapshot.content.serial \in Nat
  BY OpShape DEF Previews, Snapshots, Contents
<1>4. \A r \in RunIDs : run[r].preview \in Previews =>
          run[r].preview.snapshot.content.serial \in Nat
  BY RunShape DEF RunRecords, Previews, Snapshots, Contents
<1> QED
  BY <1>1, <1>2, <1>3, <1>4

(* A step that leaves the file alone, reads nothing new from it and brings *)
(* no Terraform into its critical phases.                                  *)
LEMMA HistoryFrame ==
    ASSUME HistoryInv, UNCHANGED <<file, edited>>,
           \A id \in PreviewIDs : previews'[id] \in {previews[id], None},
           \A d \in Clients : op'[d].phase \in {"dry-run", "consumed"} => op'[d] = op[d],
           \A s \in RunIDs :
               /\ run'[s].preview = run[s].preview /\ run'[s].read = run[s].read
               /\ run'[s].wrote = run[s].wrote
               /\ run'[s].tf \in Holding => run[s].tf \in Holding
    PROVE  HistoryInv'
<1> SUFFICES ASSUME ~edited PROVE OlderReads' /\ SerialInv'
  BY DEF HistoryInv
<1>1. OlderReads'
  BY DEF HistoryInv, OlderReads, Older
<1>2. SerialInv'
  BY DEF HistoryInv, SerialInv
<1> QED
  BY <1>1, <1>2

(* A write that raises the serial by one, while no Terraform is in its     *)
(* critical phases afterwards.                                             *)
LEMMA HistoryGrows ==
    ASSUME TypeOK, HistoryInv, ~edited,
           UNCHANGED <<previews, op, edited>>,
           file'.content.serial = file.content.serial + 1,
           \A s \in RunIDs :
               /\ run'[s].preview = run[s].preview /\ run'[s].read = run[s].read
               /\ run'[s].tf \notin Holding
               /\ run'[s].wrote => run[s].preview \in Previews
    PROVE  HistoryInv'
<1>0. OlderReads /\ SerialInv
  BY DEF HistoryInv
<1>1. ASSUME NEW content, content.serial \in Nat, Older(content)
      PROVE  content.serial < file'.content.serial
  BY <1>1, ReadTypes DEF Older
<1>2. OlderReads'
  <2>1. \A id \in PreviewIDs : previews[id] # None =>
            previews[id].snapshot.content.serial < file'.content.serial
    BY <1>0, <1>1, ReadTypes DEF OlderReads
  <2>2. \A c \in Clients :
            /\ op[c].phase = "dry-run" => op[c].snapshot.content.serial < file'.content.serial
            /\ op[c].phase = "consumed" =>
                   op[c].preview.snapshot.content.serial < file'.content.serial
    BY <1>0, <1>1, ReadTypes DEF OlderReads
  <2>3. \A r \in RunIDs : run[r].preview \in Previews =>
            run[r].preview.snapshot.content.serial < file'.content.serial
    BY <1>0, <1>1, ReadTypes DEF OlderReads
  <2> QED
    BY <2>1, <2>2, <2>3 DEF OlderReads, Older
<1>3. SerialInv'
  <2> SUFFICES ASSUME NEW r \in RunIDs
               PROVE  /\ run'[r].read # None =>
                             \/ run'[r].read = run'[r].preview.snapshot.content
                             \/ run'[r].preview.snapshot.content.serial < run'[r].read.serial
                      /\ run'[r].wrote =>
                             run'[r].preview.snapshot.content.serial < file'.content.serial
    BY DEF SerialInv
  <2>1. run[r].preview \in Previews =>
            run[r].preview.snapshot.content.serial < file'.content.serial
    BY <1>0, <1>1, ReadTypes DEF OlderReads
  <2> QED
    BY <1>0, <2>1 DEF SerialInv
<1> QED
  BY <1>2, <1>3 DEF HistoryInv


(* As long as only Terraform writes the file, every step keeps the order of *)
(* the serials.                                                             *)
LEMMA HistoryStep ==
    ASSUME CoreInv, HistoryInv, [Next]_vars
    PROVE  HistoryInv'
<1> USE RemovalAssumption
<1>0. TypeOK /\ SingleFlight /\ PhaseInv /\ RunInv
  BY DEF CoreInv
<1>1. ASSUME NEW c \in Clients, NEW addrs \in SUBSET Addresses, BeginPreview(c, addrs)
      PROVE  HistoryInv'
  <2>1. /\ UNCHANGED <<file, previews, run, edited>>
        /\ \A d \in Clients \ {c} : op'[d] = op[d]
        /\ op'[c].phase = "dry-run" /\ op'[c].snapshot = file
    BY <1>0, <1>1 DEF BeginPreview, TypeOK
  <2> QED
    BY <2>1 DEF HistoryInv, OlderReads, Older, SerialInv
<1>2. ASSUME NEW c \in Clients, NEW id \in PreviewIDs, BeginExecute(c, id)
      PROVE  HistoryInv'
  <2>1. /\ UNCHANGED <<file, run, edited>>
        /\ \A d \in Clients \ {c} : op'[d] = op[d]
        /\ op'[c].phase = "consumed" /\ op'[c].preview = previews[id] /\ previews[id] # None
        /\ \A x \in PreviewIDs : previews'[x] \in {previews[x], None}
    BY <1>0, <1>2 DEF BeginExecute, ConsumePreview, Usable, TypeOK
  <2> QED
    BY <2>1 DEF HistoryInv, OlderReads, Older, SerialInv
<1>3. ASSUME NEW c \in Clients, NEW id \in PreviewIDs, MintPreview(c, id)
      PROVE  HistoryInv'
  <2>1. /\ UNCHANGED <<file, run, edited>>
        /\ \A d \in Clients : op'[d] = op[d] \/ op'[d].phase = "idle"
        /\ previews'[id].snapshot = op[c].snapshot /\ op[c].phase = "dry-run"
        /\ \A x \in PreviewIDs \ {id} : previews'[x] \in {previews[x], None}
    BY <1>0, <1>3 DEF MintPreview, Answer, Idle, TypeOK
  <2> QED
    BY <2>1 DEF HistoryInv, OlderReads, Older, SerialInv
<1>4. ASSUME NEW c \in Clients, NEW r \in RunIDs, ApproveRemoval(c, r)
      PROVE  HistoryInv'
  <2>1. /\ UNCHANGED <<file, previews, edited>>
        /\ op[c].phase = "consumed"
        /\ \A d \in Clients : op'[d] = op[d] \/ op'[d].phase = "approved"
        /\ \A s \in RunIDs \ {r} : run'[s] = run[s]
    BY <1>0, <1>4 DEF ApproveRemoval, TypeOK
  <2>2. run'[r] = [NewRun EXCEPT !.id = op[c].id, !.preview = op[c].preview]
    BY <1>0, <1>4 DEF ApproveRemoval, TypeOK
  <2>3. /\ run'[r].preview = op[c].preview /\ run'[r].read = None
        /\ ~run'[r].wrote /\ run'[r].tf = "none"
    BY <2>2 DEF NewRun
  <2>4. "none" \notin Holding
    BY DEF Holding
  <2> SUFFICES ASSUME ~edited PROVE OlderReads' /\ SerialInv'
    BY <2>1 DEF HistoryInv
  <2>5. OlderReads'
    BY <2>1, <2>3 DEF HistoryInv, OlderReads, Older
  <2>6. SerialInv'
    BY <2>1, <2>3, <2>4 DEF HistoryInv, SerialInv
  <2> QED
    BY <2>5, <2>6
<1>5. ASSUME NEW c \in Clients, RefusePreview(c) \/ RefuseExecute(c)
      PROVE  HistoryInv'
  BY <1>0, <1>5, HistoryFrame DEF RefusePreview, RefuseExecute, Answer, Idle, TypeOK
<1>6. ASSUME NEW c \in Clients,
             WriteBackup(c) \/ StartTerraform(c) \/ AbandonRemoval(c) \/ FinishRemoval(c)
      PROVE  HistoryInv'
  BY <1>0, <1>6, ExecutionEffect, HistoryFrame DEF Executing
<1>7. ASSUME NEW id \in PreviewIDs, RejectExecute(id)
      PROVE  HistoryInv'
  BY <1>0, <1>7, HistoryFrame DEF RejectExecute, ConsumePreview, TypeOK
<1>8. ASSUME NEW r \in RunIDs, TerraformReads(r)
      PROVE  HistoryInv'
  <2>1. run[r].preview \in Previews /\ ~run[r].wrote /\ \A s \in RunIDs : run[s].tf \notin Holding
    BY <1>0, <1>8, ReadsEffect DEF RunInv
  <2> SUFFICES ASSUME ~edited PROVE OlderReads' /\ SerialInv'
    BY <1>0, <1>8, ReadsEffect DEF HistoryInv
  <2>2. OlderReads'
    BY <1>0, <1>8, ReadsEffect DEF HistoryInv, OlderReads, Older
  <2>3. SerialInv'
    BY <1>0, <1>8, <2>1, ReadsEffect DEF HistoryInv, OlderReads, Older, SerialInv
  <2> QED
    BY <2>2, <2>3
<1>9. ASSUME NEW r \in RunIDs, TerraformBacksUp(r) \/ TerraformEnds(r)
      PROVE  HistoryInv'
  <2>1. \A s \in RunIDs :
            /\ run'[s].preview = run[s].preview /\ run'[s].read = run[s].read
            /\ run'[s].wrote = run[s].wrote
            /\ run'[s].tf \in Holding => run[s].tf \in Holding
    <3>1. \A s \in RunIDs \ {r} : run'[s] = run[s]
      BY <1>0, <1>9, BacksUpEffect, EndsEffect
    <3>2. /\ run'[r].preview = run[r].preview /\ run'[r].read = run[r].read
          /\ run'[r].wrote = run[r].wrote
      BY <1>0, <1>9, BacksUpEffect, EndsEffect
    <3>3. run'[r].tf \in Holding => run[r].tf \in Holding
      BY <1>0, <1>9, BacksUpEffect, EndsEffect DEF Holding
    <3> QED
      BY <3>1, <3>2, <3>3
  <2>2. UNCHANGED <<file, previews, op, edited>>
    BY <1>0, <1>9, BacksUpEffect, EndsEffect
  <2> QED
    BY <2>1, <2>2, HistoryFrame
<1>10. ASSUME NEW r \in RunIDs, TerraformWrites(r)
       PROVE  HistoryInv'
  <2> SUFFICES ASSUME ~edited PROVE HistoryInv'
    BY <1>0, <1>10, WritesEffect DEF HistoryInv
  <2>1. run[r].read = file.content /\ lock = r /\ run[r].preview \in Previews
    BY <1>0, <1>10, WritesEffect DEF HistoryInv, SerialInv, RunInv, Holding
  <2>2. file'.content.serial = file.content.serial + 1
    <3>1. PICK kept : Write([run[r].read EXCEPT !.serial = @ + 1, !.addrs = kept])
      BY <1>10 DEF TerraformWrites
    <3>2. file.content \in Contents
      BY <1>0, ReadTypes
    <3>3. file'.content = [file.content EXCEPT !.serial = @ + 1, !.addrs = kept]
      BY <3>1, <2>1 DEF Write
    <3> QED
      BY <3>2, <3>3 DEF Contents
  <2>3. \A s \in RunIDs \ {r} : run'[s] = run[s] /\ run[s].tf \notin Holding
    BY <1>0, <1>10, <2>1, WritesEffect DEF RunInv
  <2>4. /\ run'[r].preview = run[r].preview /\ run'[r].read = run[r].read
        /\ run'[r].tf \notin Holding
        /\ UNCHANGED <<previews, op, edited>>
    BY <1>0, <1>10, WritesEffect DEF Holding
  <2>5. \A s \in RunIDs : run'[s].wrote => run[s].preview \in Previews
    <3>1. \A s \in RunIDs \ {r} : run[s].wrote => run[s].tf # "none"
      BY <1>0 DEF RunInv
    <3> QED
      BY <1>0, <2>1, <2>3, <3>1 DEF RunInv
  <2> QED
    BY <1>0, <2>2, <2>3, <2>4, <2>5, HistoryGrows
<1>11. CASE OtherTerraform
  <2> SUFFICES ASSUME ~edited PROVE HistoryInv'
    BY <1>11 DEF OtherTerraform, HistoryInv
  <2>1. lock = None /\ UNCHANGED <<previews, op, run, edited>>
    BY <1>11 DEF OtherTerraform, serviceVars
  <2>2. file'.content.serial = file.content.serial + 1
    <3>1. PICK addrs : Write([file.content EXCEPT !.serial = @ + 1, !.addrs = addrs,
                                                  !.attrs = file.stamp + 1])
      BY <1>11 DEF OtherTerraform
    <3>2. file.content \in Contents
      BY <1>0, ReadTypes
    <3>3. file'.content = [file.content EXCEPT !.serial = @ + 1, !.addrs = addrs,
                                               !.attrs = file.stamp + 1]
      BY <3>1 DEF Write
    <3> QED
      BY <3>2, <3>3 DEF Contents
  <2>3. \A s \in RunIDs : run[s].tf \notin Holding
    BY <1>0, <2>1 DEF RunInv
  <2>4. \A s \in RunIDs : run[s].wrote => run[s].preview \in Previews
    BY <1>0 DEF RunInv
  <2> QED
    BY <1>0, <2>1, <2>2, <2>3, <2>4, HistoryGrows
<1>12. CASE Edit
  BY <1>12 DEF Edit, HistoryInv
<1>13. CASE CloseJournal \/ Restart \/ Tick \/ UNCHANGED vars
  <2>1. /\ UNCHANGED <<run, file, edited>>
        /\ \A d \in Clients : op'[d] = op[d] \/ op'[d] = Idle
        /\ \A id \in PreviewIDs : previews'[id] \in {previews[id], None}
    BY <1>13 DEF CloseJournal, Restart, Tick, vars, serviceVars
  <2> QED
    BY <2>1, HistoryFrame DEF Idle
<1> QED
  BY <1>1, <1>2, <1>3, <1>4, <1>5, <1>6, <1>7, <1>8, <1>9, <1>10, <1>11, <1>12, <1>13
     DEF Next, ClientStep, Progress, TerraformStep, WorldStep


-----------------------------------------------------------------------------
(* What the answers mean *)

AnswersInv == RemovedFromPreviewed /\ RefusedMeansUntouched

(* A step that gives no answer and changes nothing of an answered removal. *)
LEMMA AnswersFrame ==
    ASSUME AnswersInv, ~edited' => ~edited,
           \A s \in RunIDs : run'[s].outcome # "none" =>
               /\ run'[s].outcome = run[s].outcome /\ run'[s].preview = run[s].preview
               /\ run'[s].read = run[s].read /\ run'[s].wrote = run[s].wrote
    PROVE  AnswersInv'
BY DEF AnswersInv, RemovedFromPreviewed, RefusedMeansUntouched

(* The post-check and the refusals before it answer truthfully. *)
LEMMA AnswersStep ==
    ASSUME CoreInv, HistoryInv, AnswersInv, [Next]_vars
    PROVE  AnswersInv'
<1>0. TypeOK /\ SingleFlight /\ PhaseInv /\ RunInv
  BY DEF CoreInv
<1>1. CASE UNCHANGED <<run, edited>>
  BY <1>1, AnswersFrame
<1>2. CASE Edit
  <2>1. edited' /\ UNCHANGED run
    BY <1>2 DEF Edit
  <2> QED
    BY <2>1 DEF AnswersInv, RemovedFromPreviewed, RefusedMeansUntouched
<1>3. ASSUME NEW c \in Clients, NEW r \in RunIDs, ApproveRemoval(c, r)
      PROVE  AnswersInv'
  <2>1. /\ \A s \in RunIDs \ {r} : run'[s] = run[s]
        /\ run'[r] = [NewRun EXCEPT !.id = op[c].id, !.preview = op[c].preview]
        /\ UNCHANGED edited
    BY <1>0, <1>3 DEF ApproveRemoval, TypeOK
  <2>2. run'[r].outcome = "none"
    BY <2>1 DEF NewRun
  <2> QED
    BY <2>1, <2>2, AnswersFrame
<1>4. ASSUME NEW c \in Clients, WriteBackup(c) \/ StartTerraform(c)
      PROVE  AnswersInv'
  <2>1. \A s \in RunIDs : /\ run'[s].preview = run[s].preview /\ run'[s].read = run[s].read
                          /\ run'[s].wrote = run[s].wrote
    BY <1>4, ExecutionEffect
  <2>2. \A s \in RunIDs : run'[s].outcome = run[s].outcome
    <3>1. op[c].run \in RunIDs
      BY <1>0, <1>4, OpShape DEF WriteBackup, StartTerraform, Executing
    <3> QED
      BY <1>0, <1>4, <3>1, RunShape DEF WriteBackup, StartTerraform, TypeOK, RunRecords
  <2>3. UNCHANGED edited
    BY <1>4 DEF WriteBackup, StartTerraform
  <2> QED
    BY <2>1, <2>2, <2>3, AnswersFrame
<1>5. ASSUME NEW c \in Clients, AbandonRemoval(c)
      PROVE  AnswersInv'
  <2> DEFINE r == op[c].run
  <2>1. r \in RunIDs /\ run[r].tf = "none"
    BY <1>0, <1>5, OpShape DEF AbandonRemoval, Executing, PhaseInv
  <2>2. /\ \A s \in RunIDs \ {r} : run'[s] = run[s]
        /\ run'[r].outcome = "refused"
    BY <1>0, <1>5, <2>1, RunShape DEF AbandonRemoval, TypeOK, RunRecords
  <2>3. ~run'[r].wrote /\ UNCHANGED edited
    BY <1>0, <1>5, <2>1, ExecutionEffect DEF RunInv
  <2> HIDE DEF r
  <2> QED
    BY <2>2, <2>3 DEF AnswersInv, RemovedFromPreviewed, RefusedMeansUntouched
<1>6. ASSUME NEW c \in Clients, FinishRemoval(c)
      PROVE  AnswersInv'
  <2> DEFINE r      == op[c].run
             before == run[r].preview.snapshot.content
  <2>1. r \in RunIDs /\ run[r].preview \in Previews /\ before.serial \in Nat
    BY <1>0, <1>6, OpShape DEF FinishRemoval, Executing, PhaseInv, Previews, Snapshots, Contents
  <2>2. PICK result \in PossibleOutcomes(r) :
            run' = [run EXCEPT ![r].seen = file.content, ![r].outcome = result]
    BY <1>6 DEF FinishRemoval
  <2>3. /\ \A s \in RunIDs \ {r} : run'[s] = run[s]
        /\ run'[r].outcome = result
    BY <1>0, <2>1, <2>2, RunShape DEF TypeOK, RunRecords
  <2>4. /\ run'[r].preview = run[r].preview /\ run'[r].read = run[r].read
        /\ run'[r].wrote = run[r].wrote /\ UNCHANGED edited
    BY <1>6, <2>1, ExecutionEffect
  <2>5. ASSUME result = "removed", ~edited
        PROVE  run[r].read = before
    <3>1. /\ run[r].terraformBackup # None
          /\ run[r].terraformBackup.serial = before.serial
      BY <2>2, <2>5 DEF PossibleOutcomes, VerifyRemoval
    <3>2. run[r].terraformBackup = run[r].read
      BY <1>0, <2>1, <3>1 DEF RunInv
    <3>3. run[r].read = before \/ before.serial < run[r].read.serial
      BY <2>1, <2>5, <3>1, <3>2 DEF HistoryInv, SerialInv
    <3> QED
      BY <2>1, <3>1, <3>2, <3>3
  <2>6. ASSUME result = "refused", ~edited
        PROVE  ~run[r].wrote
    <3>1. file.content = before
      BY <2>2, <2>6 DEF PossibleOutcomes
    <3>2. run[r].wrote => before.serial < file.content.serial
      BY <2>1, <2>6 DEF HistoryInv, SerialInv
    <3> QED
      BY <2>1, <3>1, <3>2
  <2> HIDE DEF r
  <2> QED
    BY <2>1, <2>3, <2>4, <2>5, <2>6 DEF AnswersInv, RemovedFromPreviewed, RefusedMeansUntouched
<1>7. ASSUME NEW r \in RunIDs, TerraformStep(r)
      PROVE  AnswersInv'
  <2>1. UNCHANGED edited /\ \A s \in RunIDs \ {r} : run'[s] = run[s]
    BY <1>0, <1>7, ReadsEffect, BacksUpEffect, WritesEffect, EndsEffect DEF TerraformStep
  <2>2. run'[r].outcome = run[r].outcome
    BY <1>0, <1>7, ReadsEffect, BacksUpEffect, WritesEffect, EndsEffect DEF TerraformStep
  <2>3. run[r].tf \in {"started", "reading", "backed", "wrote"}
    BY <1>0, <1>7, ReadsEffect, BacksUpEffect, WritesEffect, EndsEffect DEF TerraformStep
  <2>4. run[r].outcome = "none"
    BY <1>0, <2>3 DEF RunInv
  <2> QED
    BY <2>1, <2>2, <2>4, AnswersFrame
<1>8. ASSUME NEW c \in Clients,
             \/ \E addrs \in SUBSET Addresses : BeginPreview(c, addrs)
             \/ \E id \in PreviewIDs : BeginExecute(c, id) \/ MintPreview(c, id)
             \/ RefusePreview(c) \/ RefuseExecute(c)
      PROVE  AnswersInv'
  BY <1>1, <1>8 DEF BeginPreview, BeginExecute, MintPreview, RefusePreview, RefuseExecute
<1>9. ASSUME \/ \E id \in PreviewIDs : RejectExecute(id)
             \/ OtherTerraform \/ CloseJournal \/ Restart \/ Tick \/ UNCHANGED vars
      PROVE  AnswersInv'
  BY <1>1, <1>9 DEF RejectExecute, OtherTerraform, CloseJournal, Restart, Tick, vars
<1> QED
  BY <1>2, <1>3, <1>4, <1>5, <1>6, <1>7, <1>8, <1>9
     DEF Next, ClientStep, Progress, WorldStep

(* The order of the serials and the meaning of the answers, together. *)
THEOREM HistoryInvariant == Spec => [](CoreInv /\ HistoryInv /\ AnswersInv)
<1>1. Init => HistoryInv /\ AnswersInv
  <2> SUFFICES ASSUME Init PROVE HistoryInv /\ AnswersInv
    OBVIOUS
  <2>1. \A r \in RunIDs :
            /\ run[r].preview = None /\ run[r].read = None /\ ~run[r].wrote
            /\ run[r].tf = "none" /\ run[r].outcome = "none"
    BY DEF Init, NewRun
  <2>2. \A c \in Clients : op[c].phase = "idle"
    BY DEF Init, Idle
  <2> QED
    BY <2>1, <2>2, NonePreviewAssumption
       DEF Init, HistoryInv, OlderReads, SerialInv, Holding, AnswersInv,
           RemovedFromPreviewed, RefusedMeansUntouched
<1>2. CoreInv /\ (HistoryInv /\ AnswersInv) /\ [Next]_vars => (HistoryInv /\ AnswersInv)'
  BY HistoryStep, AnswersStep
<1> QED
  BY <1>1, <1>2, CoreInvariant, PTL DEF Spec


(* If only Terraform writes the file, the answer "removed" proves that      *)
(* Terraform worked on the previewed state: its backup has the previewed    *)
(* serial, and a serial stands for one state (state_removal.go:423-476).    *)
THEOREM RemovedIsTruthful == Spec => []RemovedFromPreviewed
BY HistoryInvariant, PTL DEF AnswersInv

(* If only Terraform writes the file, a refusal means that our Terraform    *)
(* wrote nothing, even one that failed or was killed                        *)
(* (state_removal.go:381-397).                                              *)
THEOREM RefusalIsHarmless == Spec => []RefusedMeansUntouched
BY HistoryInvariant, PTL DEF AnswersInv

(* What our Terraform is about to overwrite is what its backup holds: this  *)
(* is what -lock and -backup give (state_removal.go:128-137).               *)
THEOREM OverwrittenSaved == Spec => []OverwrittenIsSaved
<1>1. CoreInv /\ HistoryInv => OverwrittenIsSaved
  BY DEF CoreInv, RunInv, HistoryInv, SerialInv, OverwrittenIsSaved, Holding
<1> QED
  BY <1>1, HistoryInvariant, PTL

-----------------------------------------------------------------------------
(* What the run checks, from the theorems above *)

(* Approval, backup and Terraform's own backup are there before the state  *)
(* is overwritten, whatever dies meanwhile (state_removal.go:331-364).     *)
THEOREM RemovalIsSafe == Spec => []RemovalSafe
BY RemovalTypes, PreparedFirst, OverwrittenSaved, PTL DEF RemovalSafe

(* "removed" and "refused" are both true of the file as long as only       *)
(* Terraform processes write it (state_removal.go:381-476).                *)
THEOREM OutcomesTruthful == Spec => []OutcomeTruthful
BY RemovedIsTruthful, RefusalIsHarmless, PTL DEF OutcomeTruthful

(* Operations are serialised by the slot and a token serves once           *)
(* (state_removal.go:105-112, 274-294).                                    *)
THEOREM RequestsAreExclusive == Spec => []RequestsExclusive
BY OneAtATime, TokenUsedOnce, PTL DEF RequestsExclusive
=============================================================================
