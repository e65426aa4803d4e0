---------------------------- MODULE StateRemoval ----------------------------
(***************************************************************************)
(* Guarded removal of addresses from a local Terraform state               *)
(* (internal/platforms/terraform/state_removal.go).                        *)
(*                                                                         *)
(* A preview reads the state file, has Terraform do a dry run and mints a  *)
(* one-use token bound to that snapshot.  An execution consumes the token, *)
(* journals an approval, writes a backup, looks at the file once more and  *)
(* starts `terraform state rm'; afterwards it reads the file again and     *)
(* compares it, and Terraform's own backup, with the snapshot.  Other      *)
(* Terraform processes and editors may write the file at any moment, the   *)
(* journal may close and CLIHarbor may die at any step; a Terraform it had *)
(* started then goes on by itself (it runs in a process group of its own). *)
(***************************************************************************)
EXTENDS Integers, FiniteSets

CONSTANTS
    Clients,        \* concurrent HTTP requests
    PreviewIDs,     \* 256-bit random tokens
    RunIDs,         \* random run identifiers of the journal
    Addresses,      \* resource instance addresses
    Lineages,       \* values of the lineage of a state
    MaxPending,     \* maxPendingRemovals
    PreviewTTL,     \* removalPreviewTTL
    MaxTime,        \* bound of the clock in the model checker's instances
    MaxWrites,      \* bound of the writes of the state file there
    None

ASSUME RemovalAssumption ==
    /\ MaxPending \in Nat \ {0}
    /\ PreviewTTL \in Nat \ {0}
    /\ None \notin Clients \cup PreviewIDs \cup RunIDs

VARIABLES
    file,           \* the state file: what it says and its identity (size, mtime)
    lock,           \* holder of Terraform's lock on it
    previews,       \* Platform.previews
    minted,         \* tokens handed out so far (history)
    slot,           \* Platform.removalSlot
    op,             \* progress of each request
    run,            \* what each execution left on disk, and its Terraform
    trail,          \* the journal, see AuditSink
    journalOpen,    \* the audit sink takes entries
    clock,          \* Platform.now
    edited          \* a writer other than Terraform touched the file (history)

serviceVars == <<previews, minted, slot, op>>
vars == <<file, lock, serviceVars, run, trail, journalOpen, clock, edited>>

(* What parseInventory distinguishes in a state, and the rest of it. *)
Contents == [lineage : Lineages, serial : Nat, addrs : SUBSET Addresses, attrs : Nat]
Snapshots == [content : Contents, stamp : Nat]

Previews == [snapshot : Snapshots, addrs : (SUBSET Addresses) \ {{}}, expires : Nat]

ASSUME NonePreviewAssumption == None \notin Previews

Idle == [phase |-> "idle"]

Ops ==
    {Idle}
    \cup [phase : {"dry-run"}, snapshot : Snapshots, addrs : (SUBSET Addresses) \ {{}}]
    \cup [phase : {"consumed"}, id : PreviewIDs, preview : Previews]
    \cup [phase : {"approved", "backed", "running"}, run : RunIDs]

NewRun ==
    [id |-> None, preview |-> None, backup |-> None, terraformBackup |-> None,
     tf |-> "none", read |-> None, wrote |-> FALSE, seen |-> None, outcome |-> "none"]

Sink == INSTANCE AuditSink

Pending == {id \in PreviewIDs : previews[id] # None}

-----------------------------------------------------------------------------
(* Operations of the service *)

(* acquireRemovalSlot: one operation at a time, others are told "busy". *)
AcquireRemovalSlot(c) == slot = None /\ slot' = c

(* Every return releases the slot. *)
Answer(c) ==
    /\ op' = [op EXCEPT ![c] = Idle]
    /\ slot' = None

(* normalizedAddresses: at least one address, as a set. *)
NormalizedAddresses(addrs) == addrs # {}

(* The snapshot is read and holds every requested address. *)
BeginPreview(c, addrs) ==
    /\ op[c] = Idle
    /\ NormalizedAddresses(addrs)
    /\ addrs \subseteq file.content.addrs
    /\ AcquireRemovalSlot(c)
    /\ op' = [op EXCEPT ![c] = [phase |-> "dry-run", snapshot |-> file, addrs |-> addrs]]
    /\ UNCHANGED <<file, lock, previews, minted, run, trail, journalOpen, clock, edited>>

(* The previews that stay once the expired ones and, from a full table, the *)
(* ones that expire first have gone.                                        *)
Unexpired == {id \in Pending : clock < previews[id].expires}

KeptPreviews ==
    {kept \in SUBSET Unexpired :
        /\ Cardinality(kept) = IF Cardinality(Unexpired) < MaxPending
                               THEN Cardinality(Unexpired) ELSE MaxPending - 1
        /\ \A id \in kept, gone \in Unexpired \ kept :
               previews[gone].expires <= previews[id].expires}

(* The dry run listed exactly the addresses and left the file alone. *)
MintPreview(c, id) ==
    /\ op[c].phase = "dry-run"
    /\ file = op[c].snapshot
    /\ id \notin minted
    /\ \E kept \in KeptPreviews :
           previews' = [x \in PreviewIDs |->
               IF x = id THEN [snapshot |-> op[c].snapshot, addrs |-> op[c].addrs,
                               expires |-> clock + PreviewTTL]
               ELSE IF x \in kept THEN previews[x] ELSE None]
    /\ minted' = minted \cup {id}
    /\ Answer(c)
    /\ UNCHANGED <<file, lock, run, trail, journalOpen, clock, edited>>

(* Any other end: a refused dry run, a changed file, an executable or a    *)
(* directory that is no longer the approved one, an I/O error.             *)
RefusePreview(c) ==
    /\ op[c].phase = "dry-run"
    /\ Answer(c)
    /\ UNCHANGED <<file, lock, previews, minted, run, trail, journalOpen, clock, edited>>

(* Mutant: the token stays valid. *)
ConsumePreview_Kept(id) == UNCHANGED previews

(* consumePreview: the token is gone before anything is checked. *)
ConsumePreview(id) == previews' = [previews EXCEPT ![id] = None]

Usable(id) == previews[id] # None /\ clock < previews[id].expires

(* An unknown or expired token, or a wrong confirmation. *)
RejectExecute(id) ==
    /\ slot = None
    /\ ConsumePreview(id)
    /\ UNCHANGED <<file, lock, minted, slot, op, run, trail, journalOpen, clock, edited>>

BeginExecute(c, id) ==
    /\ op[c] = Idle
    /\ AcquireRemovalSlot(c)
    /\ Usable(id)
    /\ ConsumePreview(id)
    /\ op' = [op EXCEPT ![c] = [phase |-> "consumed", id |-> id, preview |-> previews[id]]]
    /\ UNCHANGED <<file, lock, minted, run, trail, journalOpen, clock, edited>>

(* The file is the previewed one, byte for byte; the approval is journaled. *)
ApproveRemoval(c, r) ==
    /\ op[c].phase = "consumed"
    /\ file = op[c].preview.snapshot
    /\ run[r] = NewRun
    /\ journalOpen
    /\ Sink!Approve(r)
    /\ run' = [run EXCEPT ![r].id = op[c].id, ![r].preview = op[c].preview]
    /\ op' = [op EXCEPT ![c] = [phase |-> "approved", run |-> r]]
    /\ UNCHANGED <<file, lock, previews, minted, slot, journalOpen, clock, edited>>

(* Stale file, changed executable, directory or journal: nothing is left. *)
RefuseExecute(c) ==
    /\ op[c].phase = "consumed"
    /\ Answer(c)
    /\ UNCHANGED <<file, lock, previews, minted, run, trail, journalOpen, clock, edited>>

(* The closure `complete': its error is ignored. *)
CompleteRemoval(r) ==
    \/ journalOpen /\ Sink!Complete(r)
    \/ ~journalOpen /\ UNCHANGED trail

(* writeVerifiedBackup *)
WriteBackup(c) ==
    /\ op[c].phase = "approved"
    /\ run' = [run EXCEPT ![op[c].run].backup = run[op[c].run].preview.snapshot.content]
    /\ op' = [op EXCEPT ![c].phase = "backed"]
    /\ UNCHANGED <<file, lock, previews, minted, slot, trail, journalOpen, clock, edited>>

(* The backup failed, or the last look at the file or the executable did. *)
AbandonRemoval(c) ==
    /\ op[c].phase \in {"approved", "backed"}
    /\ run' = [run EXCEPT ![op[c].run].outcome = "refused"]
    /\ CompleteRemoval(op[c].run)
    /\ Answer(c)
    /\ UNCHANGED <<file, lock, previews, minted, journalOpen, clock, edited>>

(* Mutant: the last look at the file comes before the backup. *)
StartTerraform_BeforeBackup(c) ==
    /\ op[c].phase \in {"approved", "backed"}
    /\ file.stamp = run[op[c].run].preview.snapshot.stamp
    /\ run' = [run EXCEPT ![op[c].run].tf = "started"]
    /\ op' = [op EXCEPT ![c].phase = "running"]
    /\ UNCHANGED <<file, lock, previews, minted, slot, trail, journalOpen, clock, edited>>

(* The file still has the identity it had; Terraform is started. *)
StartTerraform(c) ==
    /\ op[c].phase = "backed"
    /\ file.stamp = run[op[c].run].preview.snapshot.stamp
    /\ run' = [run EXCEPT ![op[c].run].tf = "started"]
    /\ op' = [op EXCEPT ![c].phase = "running"]
    /\ UNCHANGED <<file, lock, previews, minted, slot, trail, journalOpen, clock, edited>>

(* verifyRemoval: the new state is the old one without the addresses, and  *)
(* Terraform's backup describes the state that was previewed.              *)
VerifyRemoval(before, addrs, after, backup) ==
    /\ after.lineage = before.lineage
    /\ after.serial > before.serial
    /\ after.addrs = before.addrs \ addrs
    /\ backup # None
    /\ backup.lineage = before.lineage
    /\ backup.serial = before.serial
    /\ backup.addrs = before.addrs

(* Mutant: a Terraform that failed is taken to have changed nothing. *)
PossibleOutcomes_Trusting(r) ==
    LET made == run[r].preview
    IN  IF run[r].tf = "unclean" THEN {"refused"}
        ELSE IF VerifyRemoval(made.snapshot.content, made.addrs, file.content,
                              run[r].terraformBackup)
             THEN {"removed", "unverified"} ELSE {"unverified"}

(* What the post-check may answer: a failed Terraform that left the bytes  *)
(* alone is a refusal; a read error or a moved directory is "unverified".  *)
PossibleOutcomes(r) ==
    LET made == run[r].preview
    IN  IF run[r].tf = "unclean"
        THEN IF file.content = made.snapshot.content THEN {"refused", "unverified"}
                                                     ELSE {"unverified"}
        ELSE IF VerifyRemoval(made.snapshot.content, made.addrs, file.content,
                              run[r].terraformBackup)
             THEN {"removed", "unverified"} ELSE {"unverified"}

(* Terraform has ended: read the file, journal the completion, compare. *)
FinishRemoval(c) ==
    LET r == op[c].run
    IN  /\ op[c].phase = "running"
        /\ run[r].tf \in {"clean", "unclean"}
        /\ \E result \in PossibleOutcomes(r) :
               run' = [run EXCEPT ![r].seen = file.content, ![r].outcome = result]
        /\ CompleteRemoval(r)
        /\ Answer(c)
        /\ UNCHANGED <<file, lock, previews, minted, journalOpen, clock, edited>>

-----------------------------------------------------------------------------
(* Terraform, as stateRemovalArgs asks for it *)

Write(content) ==
    /\ file.stamp < MaxWrites
    /\ file' = [content |-> content, stamp |-> file.stamp + 1]

(* -lock=true -lock-timeout=0s -backup=... *)
StateRemovalArgs == [lock |-> TRUE, backup |-> TRUE]

TerraformReads(r) ==
    /\ run[r].tf = "started"
    /\ run[r].preview.addrs \subseteq file.content.addrs
    /\ IF StateRemovalArgs.lock THEN lock = None /\ lock' = r ELSE UNCHANGED lock
    /\ run' = [run EXCEPT ![r].tf = "reading", ![r].read = file.content]
    /\ UNCHANGED <<file, serviceVars, trail, journalOpen, clock, edited>>

TerraformBacksUp(r) ==
    /\ run[r].tf = "reading"
    /\ StateRemovalArgs.backup
    /\ run' = [run EXCEPT ![r].tf = "backed", ![r].terraformBackup = run[r].read]
    /\ UNCHANGED <<file, lock, serviceVars, trail, journalOpen, clock, edited>>

(* It may remove more or less than it was asked to. *)
TerraformWrites(r) ==
    /\ run[r].tf = "backed"
    /\ \E kept \in SUBSET run[r].read.addrs :
           Write([run[r].read EXCEPT !.serial = @ + 1, !.addrs = kept])
    /\ run' = [run EXCEPT ![r].tf = "wrote", ![r].wrote = TRUE]
    /\ UNCHANGED <<lock, serviceVars, trail, journalOpen, clock, edited>>

(* It ends well only after the write; it fails, finds the file locked, or  *)
(* is killed by the timeout, in any phase.                                 *)
TerraformEnds(r) ==
    /\ run[r].tf \in {"started", "reading", "backed", "wrote"}
    /\ \E end \in {"unclean"} \cup (IF run[r].tf = "wrote" THEN {"clean"} ELSE {}) :
           run' = [run EXCEPT ![r].tf = end]
    /\ lock' = IF lock = r THEN None ELSE lock
    /\ UNCHANGED <<file, serviceVars, trail, journalOpen, clock, edited>>

-----------------------------------------------------------------------------
(* The rest of the world *)

(* Another Terraform: it takes the lock and raises the serial. *)
OtherTerraform ==
    /\ lock = None
    /\ \E addrs \in SUBSET Addresses :
           Write([file.content EXCEPT !.serial = @ + 1, !.addrs = addrs,
                                      !.attrs = file.stamp + 1])
    /\ UNCHANGED <<lock, serviceVars, run, trail, journalOpen, clock, edited>>

(* An editor, a script or a copy: any state, no lock, any serial so far.   *)
Edit ==
    /\ \E lineage \in Lineages, serial \in 0 .. file.content.serial,
          addrs \in SUBSET Addresses :
           Write([lineage |-> lineage, serial |-> serial, addrs |-> addrs,
                  attrs |-> file.stamp + 1])
    /\ edited' = TRUE
    /\ UNCHANGED <<lock, serviceVars, run, trail, journalOpen, clock>>

(* Shutdown, or a failed write, closes the journal. *)
CloseJournal ==
    /\ journalOpen
    /\ journalOpen' = FALSE
    /\ UNCHANGED <<file, lock, serviceVars, run, trail, clock, edited>>

(* CLIHarbor dies and is started again; its tables are empty. *)
Restart ==
    /\ op' = [c \in Clients |-> Idle]
    /\ slot' = None
    /\ previews' = [id \in PreviewIDs |-> None]
    /\ journalOpen' = TRUE
    /\ UNCHANGED <<file, lock, minted, run, trail, clock, edited>>

Tick ==
    /\ clock < MaxTime
    /\ clock' = clock + 1
    /\ UNCHANGED <<file, lock, serviceVars, run, trail, journalOpen, edited>>

-----------------------------------------------------------------------------
Init ==
    /\ file \in [content : [lineage : Lineages, serial : {0}, addrs : {Addresses}, attrs : {0}],
                 stamp : {0}]
    /\ lock = None
    /\ previews = [id \in PreviewIDs |-> None]
    /\ minted = {}
    /\ slot = None
    /\ op = [c \in Clients |-> Idle]
    /\ run = [r \in RunIDs |-> NewRun]
    /\ Sink!Init
    /\ journalOpen = TRUE
    /\ clock = 0
    /\ edited = FALSE

(* A request that has the slot goes on to its answer. *)
Progress(c) ==
    \/ \E id \in PreviewIDs : MintPreview(c, id)
    \/ RefusePreview(c)
    \/ \E r \in RunIDs : ApproveRemoval(c, r)
    \/ RefuseExecute(c)
    \/ WriteBackup(c)
    \/ AbandonRemoval(c)
    \/ StartTerraform(c)
    \/ FinishRemoval(c)

ClientStep(c) ==
    \/ \E addrs \in SUBSET Addresses : BeginPreview(c, addrs)
    \/ \E id \in PreviewIDs : BeginExecute(c, id)
    \/ Progress(c)

TerraformStep(r) ==
    TerraformReads(r) \/ TerraformBacksUp(r) \/ TerraformWrites(r) \/ TerraformEnds(r)

WorldStep ==
    OtherTerraform \/ Edit \/ CloseJournal \/ Restart \/ Tick

Next ==
    \/ \E c \in Clients : ClientStep(c)
    \/ \E id \in PreviewIDs : RejectExecute(id)
    \/ \E r \in RunIDs : TerraformStep(r)
    \/ WorldStep

Spec == Init /\ [][Next]_vars

-----------------------------------------------------------------------------
(* Properties *)

(* Every variable has its type; an execution that has begun keeps the      *)
(* preview it was started from.                                            *)
TypeOK ==
    /\ file \in Snapshots
    /\ lock \in RunIDs \cup {None}
    /\ previews \in [PreviewIDs -> Previews \cup {None}]
    /\ minted \subseteq PreviewIDs
    /\ slot \in Clients \cup {None}
    /\ op \in [Clients -> Ops]
    /\ run \in [RunIDs -> [id : PreviewIDs \cup {None},
                           preview : Previews \cup {None},
                           backup : Contents \cup {None},
                           terraformBackup : Contents \cup {None},
                           tf : {"none", "started", "reading", "backed", "wrote",
                                 "clean", "unclean"},
                           read : Contents \cup {None},
                           wrote : BOOLEAN,
                           seen : Contents \cup {None},
                           outcome : {"none", "refused", "removed", "unverified"}]]
    /\ trail \in [RunIDs -> Sink!TrailStates]
    /\ journalOpen \in BOOLEAN
    /\ clock \in Nat
    /\ edited \in BOOLEAN

(* The slot is held by exactly the request that works on the state: no dry *)
(* run and no removal of this process overlaps another one, and no way out *)
(* of an operation keeps the slot, a crash included                        *)
(* (state_removal.go:105-112, 186-190, 290-294).                           *)
SingleFlight == \A c \in Clients : op[c] # Idle <=> slot = c

(* Before Terraform may touch the file the approval is in the journal and  *)
(* the previewed bytes are in a backup, and both are still there whatever  *)
(* happens to the process afterwards (state_removal.go:331-364).           *)
RemovalPrepared ==
    \A r \in RunIDs :
        run[r].tf # "none" => /\ trail[r] # "none"
                              /\ run[r].backup = run[r].preview.snapshot.content

(* A token starts at most one removal (state_removal.go:274-284). *)
PreviewUsedOnce ==
    \A r, s \in RunIDs : run[r].id # None /\ run[r].id = run[s].id => r = s

(* Outcome "removed" proves that Terraform worked on the very state that   *)
(* was previewed, unless something other than Terraform wrote the file     *)
(* (state_removal.go:423-476).                                             *)
RemovedFromPreviewed ==
    \A r \in RunIDs :
        run[r].outcome = "removed" /\ ~edited =>
            run[r].read = run[r].preview.snapshot.content

(* A refusal means that the removal changed nothing, as long as only       *)
(* Terraform writes the file (state_removal.go:381-397).                   *)
RefusedMeansUntouched ==
    \A r \in RunIDs : run[r].outcome = "refused" /\ ~edited => ~run[r].wrote

(* Whatever a removal overwrites is in a backup: the state in the file     *)
(* when Terraform is about to write is the one its backup holds.  This is  *)
(* what -lock and -backup are for (state_removal.go:128-137).              *)
OverwrittenIsSaved ==
    \A r \in RunIDs :
        run[r].tf = "backed" /\ ~edited => run[r].terraformBackup = file.content

(* Whatever Terraform overwrites can be restored and is on record: approval, *)
(* CLIHarbor's backup and Terraform's own one are there before the write.    *)
RemovalSafe == TypeOK /\ RemovalPrepared /\ OverwrittenIsSaved

(* Both definite answers are true of the file, although the file is only    *)
(* looked at before and after Terraform's run: "removed" is about the       *)
(* previewed state, "refused" means that nothing was written.               *)
OutcomeTruthful == RemovedFromPreviewed /\ RefusedMeansUntouched

(* Requests that race are serialised by the slot and a token serves once. *)
RequestsExclusive == SingleFlight /\ PreviewUsedOnce
=============================================================================
