----------------------------- MODULE RunManager -----------------------------
(***************************************************************************)
(* The run manager of CLIHarbor (internal/runs/manager.go, approval.go).   *)
(*                                                                         *)
(* Browser requests call Preview and Start.  Each of them reads the        *)
(* manager under its mutex, releases it to build a plan and to resolve the *)
(* vendor's execution context, and takes the mutex again to commit: the    *)
(* `request' variable holds what a request read before it let go.  An      *)
(* accepted run is executed by a goroutine of its own, which ends in       *)
(* Complete; Cancel, ActivateTool and Shutdown run at any moment.  The     *)
(* audit journal is the contract AuditSink; app.Run's shutdown sequence    *)
(* (Shutdown with a deadline, then audit.Close, then exit) closes it.      *)
(***************************************************************************)
EXTENDS Integers, FiniteSets

CONSTANTS
    Clients,        \* concurrent HTTP requests
    RunIDs,         \* values of NewRunID (128 random bits)
    ApprovalIDs,    \* values of NewApprovalID
    Commands,       \* plans a request can ask for (command and input values)
    Tools,          \* discovered tools
    Contexts,       \* execution contexts a platform can report
    Risk,           \* [Commands -> Risks]
    Scope,          \* [Commands -> Scopes]
    ToolOf,         \* [Commands -> Tools]
    MaxActive, MaxRetained, MaxApprovals, ApprovalTTL,
    MaxTime,        \* bound of the clock in the model checker's instances
    None            \* no record, no identifier, no context

Risks  == {"read", "change", "destructive"}
Scopes == {"single", "multiple"}

(* NewManager refuses MaxRetained < MaxActive and replaces bounds <= 0. *)
ASSUME ConfigAssumption ==
    /\ MaxActive \in Nat \ {0}
    /\ MaxRetained \in Nat
    /\ MaxRetained >= MaxActive
    /\ MaxApprovals \in Nat \ {0}
    /\ ApprovalTTL \in Nat \ {0}

ASSUME PlanAssumption ==
    /\ Risk \in [Commands -> Risks]
    /\ Scope \in [Commands -> Scopes]
    /\ ToolOf \in [Commands -> Tools]

ASSUME IdentifierAssumption ==
    /\ IsFiniteSet(RunIDs)
    /\ IsFiniteSet(ApprovalIDs)
    /\ None \notin RunIDs \cup ApprovalIDs \cup Commands \cup Contexts

VARIABLES
    discovery,      \* Manager.discovery: status of every tool
    context,        \* what ResolveExecutionContext would report now (external)
    clock,          \* config.Now
    approvals,      \* Manager.approvals
    minted,         \* approval identifiers handed out so far (history)
    request,        \* what each request holds while the mutex is released
    status,         \* record.status of the retained runs, "absent" otherwise
    command,        \* the plan a run was accepted with
    born,           \* position of a run in Manager.order, 0 before it exists
    active,         \* Manager.active
    cancelled,      \* runs whose context was cancelled by Cancel
    launched,       \* runs whose vendor process was started
    auditFailed,    \* Manager.auditFailed
    audit,          \* the journal, see AuditSink
    auditOpen,      \* Store.file # nil
    closed,         \* Manager.closed
    ctxDone,        \* Manager.ctx.Err() # nil
    shutdown,       \* progress of app.Run's shutdown sequence
    grant           \* the approval an accepted run consumed (history)

runVars      == <<status, command, born, active, cancelled, launched, grant>>
approvalVars == <<approvals, minted>>
auditVars    == <<auditFailed, audit, auditOpen>>
lifeVars     == <<closed, ctxDone, shutdown>>
envVars      == <<discovery, context, clock>>
vars == <<envVars, approvalVars, request, runVars, auditVars, lifeVars>>

-----------------------------------------------------------------------------
(* Plans and approvals *)

Terminal == {"exited", "cancelled", "timed-out", "failed"}
Statuses == {"absent", "running"} \cup Terminal

RequiresApproval(cmd) == Risk[cmd] \in {"change", "destructive"}

ApprovalMode(cmd) ==
    IF Scope[cmd] = "multiple" \/ Risk[cmd] = "destructive" THEN "typed" ELSE "explicit"

(* The confirmation that a challenge demands; a command stands for the text *)
(* naming its target, None for the empty confirmation of explicit mode.    *)
RequiredText(cmd) == IF ApprovalMode(cmd) = "typed" THEN cmd ELSE None

(* sha256 over the plan and the execution context. *)
ApprovalFingerprint(cmd, ctx) == <<cmd, ctx>>

ApprovalRecords ==
    [fingerprint : Commands \X Contexts, issuedAt : Nat, expiresAt : Nat,
     requiredText : Commands \cup {None}]

Outstanding(table) == {id \in ApprovalIDs : table[id] # None}

(* pruneApprovalsLocked: a record is gone from the instant it expires. *)
PruneApprovals(table, now) ==
    [id \in ApprovalIDs |->
        IF table[id] # None /\ now >= table[id].expiresAt THEN None ELSE table[id]]

(* evictOldestApprovalLocked: ties are broken by the random identifiers. *)
OldestApprovals(table) ==
    {id \in Outstanding(table) :
        \A other \in Outstanding(table) : table[id].issuedAt <= table[other].issuedAt}

ApprovalTableFull(table) == Cardinality(Outstanding(table)) >= MaxApprovals

IdleRequest == [op |-> "idle"]

Requests ==
    {IdleRequest}
    \cup [op : {"preview"}, cmd : Commands, ctx : Contexts, at : Nat]
    \cup [op : {"start"}, cmd : Commands, ctx : Contexts \cup {None},
          id : ApprovalIDs \cup {None}, text : Commands \cup {None}]

Grants == [id : ApprovalIDs, fingerprint : Commands \X Contexts,
           issuedAt : Nat, at : Nat]

(* The zero value is none of the records. *)
ASSUME NoneAssumption == None \notin ApprovalRecords /\ None \notin Grants

Answer(c) == request' = [request EXCEPT ![c] = IdleRequest]

Stopped == closed \/ ctxDone

(* The tool of the plan is usable and, for a mutation, a context resolves. *)
Plannable(cmd) ==
    /\ discovery[ToolOf[cmd]] = "ready"
    /\ RequiresApproval(cmd) => context # None

-----------------------------------------------------------------------------
(* Retention *)

Retained == {r \in RunIDs : status[r] # "absent"}
Running  == {r \in RunIDs : status[r] = "running"}
Finished == Retained \ Running

Full == Cardinality(Retained) >= MaxRetained

(* Mutant: the oldest run is dropped, executing or not. *)
Evicted_Running ==
    IF Full THEN {r \in Retained : \A other \in Retained : born[r] <= born[other]}
            ELSE {}

(* makeRetentionRoomLocked drops the oldest finished run.  Its loop runs at *)
(* most once because |runs| never exceeds MaxRetained (CapacityRespected).  *)
Evicted ==
    IF Full THEN {r \in Finished : \A other \in Finished : born[r] <= born[other]}
            ELSE {}

RoomAvailable == Full => Finished # {}

(* NewRunID: random, so never the identifier of an earlier run. *)
FreshRunIDs == {r \in RunIDs : born[r] = 0}
NextBirth   == Cardinality(RunIDs \ FreshRunIDs) + 1

Sink == INSTANCE AuditSink WITH trail <- audit

-----------------------------------------------------------------------------
(* Preview: plan, resolve the context, read the clock; then, under the     *)
(* mutex, store the approval.  Previews of read commands change nothing.   *)

BeginPreview(c, cmd) ==
    /\ request[c] = IdleRequest
    /\ ~Stopped
    /\ Plannable(cmd)
    /\ RequiresApproval(cmd)
    /\ request' = [request EXCEPT ![c] =
                       [op |-> "preview", cmd |-> cmd, ctx |-> context, at |-> clock]]
    /\ UNCHANGED <<envVars, approvalVars, runVars, auditVars, lifeVars>>

(* issueApproval prunes with the clock value read before the mutex. *)
IssueApproval(c, id) ==
    LET req    == request[c]
        pruned == PruneApprovals(approvals, req.at)
        record == [fingerprint  |-> ApprovalFingerprint(req.cmd, req.ctx),
                   issuedAt     |-> req.at,
                   expiresAt    |-> req.at + ApprovalTTL,
                   requiredText |-> RequiredText(req.cmd)]
    IN  /\ req.op = "preview"
        /\ ~Stopped
        /\ id \notin minted
        /\ \E victim \in IF ApprovalTableFull(pruned) THEN OldestApprovals(pruned)
                                                      ELSE {None} :
               approvals' = [x \in ApprovalIDs |->
                                 IF x = id THEN record
                                 ELSE IF x = victim THEN None ELSE pruned[x]]
        /\ minted' = minted \cup {id}
        /\ Answer(c)
        /\ UNCHANGED <<envVars, runVars, auditVars, lifeVars>>

RefusePreview(c) ==
    /\ request[c].op = "preview"
    /\ Stopped
    /\ Answer(c)
    /\ UNCHANGED <<envVars, approvalVars, runVars, auditVars, lifeVars>>

-----------------------------------------------------------------------------
(* Start: check, plan and fingerprint; then, under the mutex, check again, *)
(* consume the approval, journal it, make room and create the record.      *)

(* A refused Start answers at once; the submission of a read is ignored. *)
BeginStart(c, cmd, id, text) ==
    /\ request[c] = IdleRequest
    /\ ~Stopped
    /\ active < MaxActive
    /\ Plannable(cmd)
    /\ ~RequiresApproval(cmd) => id = None /\ text = None
    /\ request' = [request EXCEPT ![c] =
                       [op   |-> "start", cmd |-> cmd, id |-> id, text |-> text,
                        ctx  |-> IF RequiresApproval(cmd) THEN context ELSE None]]
    /\ UNCHANGED <<envVars, approvalVars, runVars, auditVars, lifeVars>>

(* Mutant: the slots are not counted again under the mutex. *)
Admissible_NoRecount == ~Stopped

(* The second check under the mutex: others may have started meanwhile. *)
Admissible == ~Stopped /\ active < MaxActive

RefuseStart(c) ==
    /\ request[c].op = "start"
    /\ \/ ~Admissible
       \/ RequiresApproval(request[c].cmd) /\ auditFailed
    /\ Answer(c)
    /\ UNCHANGED <<envVars, approvalVars, runVars, auditVars, lifeVars>>

(* consumeApprovalLocked, on the table it has just pruned. *)
Matches(table, req) ==
    /\ req.id # None
    /\ table[req.id] # None
    /\ table[req.id].fingerprint = ApprovalFingerprint(req.cmd, req.ctx)

Consumable(table, req) == Matches(table, req) /\ table[req.id].requiredText = req.text

(* Mutant: the approval stays in the table. *)
ConsumeApproval_Kept(req) == approvals' = PruneApprovals(approvals, clock)

ConsumeApproval(req) ==
    LET pruned == PruneApprovals(approvals, clock)
    IN  approvals' = [x \in ApprovalIDs |-> IF x = req.id THEN None ELSE pruned[x]]

(* A fingerprint mismatch destroys the approval; a wrong confirmation does *)
(* not, so that the operator can type it again.                            *)
RefuseApproval(c) ==
    LET req    == request[c]
        pruned == PruneApprovals(approvals, clock)
    IN  /\ req.op = "start"
        /\ RequiresApproval(req.cmd)
        /\ Admissible
        /\ ~auditFailed
        /\ ~Consumable(pruned, req)
        /\ IF Matches(pruned, req) THEN approvals' = pruned ELSE ConsumeApproval(req)
        /\ Answer(c)
        /\ UNCHANGED <<envVars, minted, runVars, auditVars, lifeVars>>

(* Mutant: an earlier journal failure is not looked at. *)
ApprovalSatisfied_Unblocked(c) ==
    /\ request[c].op = "start"
    /\ RequiresApproval(request[c].cmd)
    /\ Admissible
    /\ Consumable(PruneApprovals(approvals, clock), request[c])

ApprovalSatisfied(c) ==
    /\ request[c].op = "start"
    /\ RequiresApproval(request[c].cmd)
    /\ Admissible
    /\ ~auditFailed
    /\ Consumable(PruneApprovals(approvals, clock), request[c])

(* Room is made last: evict, then record the run as running. *)
Admit(r, cmd, approval) ==
    /\ status' = [x \in RunIDs |->
                     IF x = r /\ RoomAvailable THEN "running"
                     ELSE IF x \in Evicted THEN "absent" ELSE status[x]]
    /\ command' = [command EXCEPT ![r] = cmd]
    /\ born' = [born EXCEPT ![r] = NextBirth]
    /\ active' = IF RoomAvailable THEN active + 1 ELSE active
    /\ grant' = [grant EXCEPT ![r] = approval]
    /\ UNCHANGED <<cancelled, launched>>

(* The approval a run was accepted under. *)
GrantOf(req) == [id          |-> req.id,
                 fingerprint |-> ApprovalFingerprint(req.cmd, req.ctx),
                 issuedAt    |-> approvals[req.id].issuedAt,
                 at          |-> clock]

(* Audit.Append of the approval fails: the approval stays consumed, the run *)
(* is refused and every later mutation is blocked.                         *)
AuditRefusesStart(c) ==
    /\ ApprovalSatisfied(c)
    /\ ConsumeApproval(request[c])
    /\ auditFailed' = TRUE
    /\ Answer(c)
    /\ UNCHANGED <<envVars, minted, runVars, audit, auditOpen, lifeVars>>

AcceptRead(c, r) ==
    /\ request[c].op = "start"
    /\ ~RequiresApproval(request[c].cmd)
    /\ Admissible
    /\ r \in FreshRunIDs
    /\ Admit(r, request[c].cmd, None)
    /\ Answer(c)
    /\ UNCHANGED <<envVars, approvalVars, auditVars, lifeVars>>

AcceptMutation(c, r) ==
    LET req == request[c]
    IN  /\ ApprovalSatisfied(c)
        /\ r \in FreshRunIDs
        /\ auditOpen
        /\ ConsumeApproval(req)
        /\ Sink!Approve(r)
        /\ Admit(r, req.cmd, GrantOf(req))
        /\ Answer(c)
        /\ UNCHANGED <<envVars, minted, auditFailed, auditOpen, lifeVars>>

-----------------------------------------------------------------------------
(* Execution of an accepted run *)

(* executor.Run starts the process unless the run's context has ended. *)
Launch(r) ==
    /\ status[r] = "running"
    /\ r \notin launched \cup cancelled
    /\ ~ctxDone
    /\ launched' = launched \cup {r}
    /\ UNCHANGED <<envVars, approvalVars, request, status, command, born, active,
                   cancelled, grant, auditVars, lifeVars>>

(* Mutant: only a process that was started can end. *)
PossibleOutcome_Launched(r, outcome) == outcome \in Terminal /\ r \in launched

(* What executor.Run can report: see module Executor. *)
PossibleOutcome(r, outcome) ==
    /\ outcome \in Terminal
    /\ outcome = "exited" => r \in launched
    /\ outcome = "cancelled" => r \in cancelled \/ ctxDone

(* The last critical section of execute: free the slot, publish the status *)
(* and journal the outcome.  A failed append blocks later mutations.       *)
Complete(r, outcome) ==
    /\ status[r] = "running"
    /\ PossibleOutcome(r, outcome)
    /\ active' = active - 1
    /\ status' = [status EXCEPT ![r] = outcome]
    /\ IF RequiresApproval(command[r])
       THEN \/ auditOpen /\ Sink!Complete(r) /\ UNCHANGED auditFailed
            \/ auditFailed' = TRUE /\ UNCHANGED audit
       ELSE UNCHANGED <<auditFailed, audit>>
    /\ UNCHANGED <<envVars, approvalVars, request, command, born, cancelled,
                   launched, grant, auditOpen, lifeVars>>

(* Mutant: the slot is freed by the cancellation and again by the run's end. *)
Cancel_FreesSlot(r) ==
    /\ status[r] = "running" /\ r \notin cancelled
    /\ cancelled' = cancelled \cup {r}
    /\ active' = active - 1
    /\ UNCHANGED <<envVars, approvalVars, request, status, command, born,
                   launched, grant, auditVars, lifeVars>>

(* Cancel of a finished run is a no-op. *)
Cancel(r) ==
    /\ status[r] = "running"
    /\ cancelled' = cancelled \cup {r}
    /\ UNCHANGED <<envVars, approvalVars, request, status, command, born, active,
                   launched, grant, auditVars, lifeVars>>

-----------------------------------------------------------------------------
(* Tools, lifecycle and environment *)

ActivateTool(t) ==
    /\ ~Stopped
    /\ discovery[t] = "missing"
    /\ discovery' = [discovery EXCEPT ![t] = "ready"]
    /\ UNCHANGED <<context, clock, approvalVars, request, runVars, auditVars, lifeVars>>

(* The signal context of the process, parent of Manager.ctx, is cancelled. *)
CancelParent ==
    /\ ~ctxDone
    /\ ctxDone' = TRUE
    /\ UNCHANGED <<envVars, approvalVars, request, runVars, auditVars, closed, shutdown>>

Shutdown ==
    /\ shutdown = "serving"
    /\ closed' = TRUE
    /\ ctxDone' = TRUE
    /\ shutdown' = "waiting"
    /\ approvals' = [id \in ApprovalIDs |-> None]
    /\ UNCHANGED <<envVars, minted, request, runVars, auditVars>>

(* waitGroup.Wait returns, or the five second deadline of app.Run passes. *)
ShutdownDrained ==
    /\ shutdown = "waiting"
    /\ Running = {}
    /\ shutdown' = "drained"
    /\ UNCHANGED <<envVars, approvalVars, request, runVars, auditVars, closed, ctxDone>>

ShutdownTimedOut ==
    /\ shutdown = "waiting"
    /\ Running # {}
    /\ shutdown' = "timed-out"
    /\ UNCHANGED <<envVars, approvalVars, request, runVars, auditVars, closed, ctxDone>>

(* The deferred audit.Close of app.Run, after which the process exits. *)
CloseAudit ==
    /\ shutdown \in {"drained", "timed-out"}
    /\ auditOpen
    /\ auditOpen' = FALSE
    /\ UNCHANGED <<envVars, approvalVars, request, runVars, auditFailed, audit, lifeVars>>

ChangeContext ==
    /\ \E ctx \in Contexts \cup {None} : context' = ctx /\ ctx # context
    /\ UNCHANGED <<discovery, clock, approvalVars, request, runVars, auditVars, lifeVars>>

Tick ==
    /\ clock < MaxTime
    /\ clock' = clock + 1
    /\ UNCHANGED <<discovery, context, approvalVars, request, runVars, auditVars, lifeVars>>

(* Nothing is left to do: the process is gone. *)
Exited ==
    /\ ~auditOpen
    /\ UNCHANGED vars

-----------------------------------------------------------------------------
Init ==
    /\ discovery \in [Tools -> {"missing", "ready"}]
    /\ context \in Contexts \cup {None}
    /\ clock = 0
    /\ approvals = [id \in ApprovalIDs |-> None]
    /\ minted = {}
    /\ request = [c \in Clients |-> IdleRequest]
    /\ status = [r \in RunIDs |-> "absent"]
    /\ command \in [RunIDs -> {None}]
    /\ born = [r \in RunIDs |-> 0]
    /\ active = 0
    /\ cancelled = {}
    /\ launched = {}
    /\ auditFailed = FALSE
    /\ Sink!Init
    /\ auditOpen = TRUE
    /\ closed = FALSE
    /\ ctxDone = FALSE
    /\ shutdown = "serving"
    /\ grant = [r \in RunIDs |-> None]

(* The confirmations that matter for a command: the right one and another. *)
Confirmations(cmd) ==
    {RequiredText(cmd)} \cup (IF RequiredText(cmd) = None THEN {cmd} ELSE {None})

ClientStep(c) ==
    \/ \E cmd \in Commands : BeginPreview(c, cmd)
    \/ \E id \in ApprovalIDs : IssueApproval(c, id)
    \/ RefusePreview(c)
    \/ \E cmd \in Commands, id \in ApprovalIDs \cup {None} :
           \E text \in Confirmations(cmd) : BeginStart(c, cmd, id, text)
    \/ RefuseStart(c)
    \/ RefuseApproval(c)
    \/ AuditRefusesStart(c)
    \/ \E r \in RunIDs : AcceptRead(c, r)
    \/ \E r \in RunIDs : AcceptMutation(c, r)

RunStep(r) ==
    \/ Launch(r)
    \/ \E outcome \in Terminal : Complete(r, outcome)
    \/ Cancel(r)

LifeStep ==
    \/ \E t \in Tools : ActivateTool(t)
    \/ CancelParent
    \/ Shutdown
    \/ ShutdownDrained
    \/ ShutdownTimedOut
    \/ CloseAudit
    \/ ChangeContext
    \/ Tick
    \/ Exited

Next ==
    \/ \E c \in Clients : ClientStep(c)
    \/ \E r \in RunIDs : RunStep(r)
    \/ LifeStep

(* The executor ends every run: its own deadline, and after a cancellation *)
(* the WaitDelay, bound the life of the process.  app.Run goes on with its *)
(* shutdown once it has begun.                                             *)
Fairness ==
    /\ \A r \in RunIDs : WF_vars(\E outcome \in Terminal : Complete(r, outcome))
    /\ WF_vars(ShutdownDrained \/ ShutdownTimedOut)

Spec == Init /\ [][Next]_vars
FairSpec == Spec /\ Fairness

-----------------------------------------------------------------------------
(* Invariants *)

(* Every variable keeps its type. *)
TypeOK ==
    /\ discovery \in [Tools -> {"missing", "ready"}]
    /\ context \in Contexts \cup {None}
    /\ clock \in Nat
    /\ approvals \in [ApprovalIDs -> ApprovalRecords \cup {None}]
    /\ minted \subseteq ApprovalIDs
    /\ request \in [Clients -> Requests]
    /\ status \in [RunIDs -> Statuses]
    /\ command \in [RunIDs -> Commands \cup {None}]
    /\ born \in [RunIDs -> Nat]
    /\ active \in Int
    /\ cancelled \subseteq RunIDs
    /\ launched \subseteq RunIDs
    /\ auditFailed \in BOOLEAN
    /\ audit \in [RunIDs -> Sink!TrailStates]
    /\ auditOpen \in BOOLEAN
    /\ closed \in BOOLEAN
    /\ ctxDone \in BOOLEAN
    /\ shutdown \in {"serving", "waiting", "drained", "timed-out"}
    /\ grant \in [RunIDs -> Grants \cup {None}]

(* Whatever requests were admitted between the two critical sections of    *)
(* Start, the counter agrees with the records, no more than MaxActive runs *)
(* execute and no more than MaxRetained are kept.                          *)
CapacityRespected ==
    /\ active = Cardinality(Running)
    /\ active <= MaxActive
    /\ Cardinality(Retained) <= MaxRetained

(* issueApproval keeps the table of outstanding approvals bounded, although *)
(* it prunes with a clock value older than the table.                      *)
ApprovalsBounded == Cardinality(Outstanding(approvals)) <= MaxApprovals

(* A journaled approval belongs to a run that is executing, or mutations    *)
(* are blocked: no approved mutation is forgotten because room could not be *)
(* made for it (manager.go:442-448), and a completion that could not be     *)
(* journaled is never followed by another mutation (manager.go:767-770).    *)
NoForgottenApproval ==
    \A r \in RunIDs : audit[r] = "approved" => status[r] = "running" \/ auditFailed

(* The vendor process of a mutation is only ever started after its approval *)
(* was journaled (docs/SECURITY.md: "fsynced before the vendor process can *)
(* execute"), also when the append fails and when the run is later evicted. *)
LaunchedIsJournaled ==
    \A r \in launched : Risk[command[r]] # "read" => audit[r] # "none"

(* The manager never asks the journal for what it must refuse: the run that *)
(* is about to be approved is unknown to it, and an executing mutation is  *)
(* pending in it, so that its completion is accepted whatever was evicted. *)
JournalAgrees ==
    /\ \A r \in FreshRunIDs : audit[r] = "none"
    /\ \A r \in Running : Risk[command[r]] # "read" => audit[r] = "approved"

(* One approval authorises at most one run, however requests that submit it *)
(* interleave, and a consumed approval is never outstanding again.         *)
ApprovalSingleUse ==
    \A r \in RunIDs : grant[r] # None =>
        /\ approvals[grant[r].id] = None
        /\ \A other \in RunIDs : grant[other] # None /\ grant[other].id = grant[r].id
                                    => other = r

(* A mutation runs under an approval of this very command, whose lifetime  *)
(* was not over when Start consumed it.                                    *)
ApprovalCoversRun ==
    \A r \in RunIDs : status[r] # "absent" /\ Risk[command[r]] # "read" =>
        /\ grant[r] # None
        /\ grant[r].fingerprint[1] = command[r]
        /\ grant[r].at < grant[r].issuedAt + ApprovalTTL

(* Shutdown clears the approvals for good: a Preview that planned before    *)
(* Shutdown cannot store one after it.                                     *)
NoApprovalAfterShutdown == closed => Outstanding(approvals) = {}

(* Every mutation the journal knows of can be answered for: it executes and *)
(* its completion will be accepted, or it is over, or everything later is   *)
(* blocked; and nothing was executed that the journal does not know of,     *)
(* wherever the journal fails between the two critical sections of Start.   *)
MutationsAnswered == NoForgottenApproval /\ JournalAgrees /\ LaunchedIsJournaled

(* An approval is worth one run of the very command that was previewed,    *)
(* within its lifetime, and nothing after Shutdown (approval.go:200-268).  *)
ApprovalsSound == ApprovalSingleUse /\ ApprovalCoversRun /\ NoApprovalAfterShutdown

(* When Shutdown reports success no run is left that could still write to  *)
(* the journal app.Run is about to close.                                  *)
DrainedMeansIdle == shutdown = "drained" => Running = {} /\ active = 0

-----------------------------------------------------------------------------
(* Action properties *)

(* Retained evidence is dropped only to admit a run, only when the manager *)
(* is full, never while a run executes, and oldest first.                  *)
EvictionMakesRoom ==
    [][\A r \in Retained : status'[r] = "absent" =>
           /\ status[r] # "running"
           /\ Cardinality(Retained) = MaxRetained
           /\ \A other \in Finished : born[r] <= born[other]
           /\ \E fresh \in RunIDs : status[fresh] = "absent" /\ status'[fresh] = "running"]_vars

(* A run reaches one outcome and keeps it until it is evicted; no run      *)
(* starts once the manager is closed or its context has ended.             *)
OneOutcome ==
    [][\A r \in RunIDs :
           /\ status[r] \in Terminal => status'[r] \in {status[r], "absent"}
           /\ status[r] = "absent" /\ status'[r] # "absent" => ~Stopped /\ born[r] = 0]_vars

(* The record of a run is final once it has an outcome, and is dropped only *)
(* as the oldest finished one of a full table that admits another run.      *)
RetentionOrdered == EvictionMakesRoom /\ OneOutcome

(* After a journal failure no mutation is accepted for the rest of the     *)
(* session, and the failure is never forgotten.                            *)
AuditFailureBlocks ==
    [][auditFailed => /\ auditFailed'
                      /\ \A r \in RunIDs : audit[r] = "none" => audit'[r] = "none"]_vars

-----------------------------------------------------------------------------
(* Liveness, under FairSpec *)

(* Once the manager is closed its runs end and none ever runs again, also  *)
(* the ones that were cancelled before their process was started and those *)
(* whose Start was between its critical sections when Shutdown came.       *)
ShutdownQuiesces == closed ~> [](Running = {} /\ active = 0)

(* A cancelled run ends, whether or not its process had been started. *)
CancelEndsRun == \A r \in RunIDs : (r \in cancelled) ~> (status[r] # "running")

(* Whoever asks for the end, Cancel or Shutdown, gets it. *)
RunsEnd == ShutdownQuiesces /\ CancelEndsRun

=============================================================================
