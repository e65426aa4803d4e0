-------------------------- MODULE RunManagerProofs --------------------------
(***************************************************************************)
(* What module RunManager promises for every number of clients, runs,      *)
(* approvals and commands and for every bound, proved with TLAPS.          *)
(***************************************************************************)
EXTENDS RunManager, FiniteSetTheorems, WellFoundedInduction, TLAPS

-----------------------------------------------------------------------------
(* The operators the actions are built from *)

(* Pruning keeps some of the records of a table and changes none. *)
LEMMA PruneKeeps ==
    ASSUME NEW table, NEW now
    PROVE  /\ PruneApprovals(table, now) = [id \in ApprovalIDs |-> PruneApprovals(table, now)[id]]
           /\ \A id \in ApprovalIDs : PruneApprovals(table, now)[id] \in {table[id], None}
BY DEF PruneApprovals

(* NewRunID and the order of runs: a new run comes after 0. *)
LEMMA BirthType == NextBirth \in Nat \ {0}
<1>1. IsFiniteSet(RunIDs \ FreshRunIDs)
  BY FS_Subset, IdentifierAssumption
<1> QED
  BY <1>1, FS_CardinalityType DEF NextBirth

(* Consuming an approval keeps the table's type. *)
LEMMA ConsumeType ==
    ASSUME TypeOK, NEW req, ConsumeApproval(req)
    PROVE  approvals' \in [ApprovalIDs -> ApprovalRecords \cup {None}]
BY DEF ConsumeApproval, PruneApprovals, TypeOK

(* An accepted approval is a grant: it was in the table, for this plan. *)
LEMMA GrantType ==
    ASSUME TypeOK, NEW c \in Clients, ApprovalSatisfied(c)
    PROVE  /\ request[c].cmd \in Commands
           /\ request[c].id \in ApprovalIDs
           /\ approvals[request[c].id] \in ApprovalRecords
           /\ approvals[request[c].id].fingerprint
                  = ApprovalFingerprint(request[c].cmd, request[c].ctx)
           /\ clock < approvals[request[c].id].expiresAt
           /\ GrantOf(request[c]) \in Grants
<1> DEFINE req == request[c]
<1>1. req \in [op : {"start"}, cmd : Commands, ctx : Contexts \cup {None},
              id : ApprovalIDs \cup {None}, text : Commands \cup {None}]
  BY DEF ApprovalSatisfied, TypeOK, Requests, IdleRequest
<1>2. /\ req.id # None
      /\ PruneApprovals(approvals, clock)[req.id] # None
      /\ PruneApprovals(approvals, clock)[req.id].fingerprint
             = ApprovalFingerprint(req.cmd, req.ctx)
  BY DEF ApprovalSatisfied, Consumable, Matches
<1>3. req.id \in ApprovalIDs
  BY <1>1, <1>2
<1>4. /\ PruneApprovals(approvals, clock)[req.id] = approvals[req.id]
      /\ ~(clock >= approvals[req.id].expiresAt)
  BY <1>2, <1>3 DEF PruneApprovals
<1>5. approvals[req.id] \in ApprovalRecords
  BY <1>2, <1>3, <1>4 DEF TypeOK
<1>6. clock \in Nat /\ approvals[req.id].expiresAt \in Nat
  BY <1>5 DEF TypeOK, ApprovalRecords
<1>7. GrantOf(req) \in Grants
  BY <1>2, <1>3, <1>4, <1>5, <1>6 DEF GrantOf, Grants, ApprovalRecords
<1> QED
  BY <1>1, <1>2, <1>3, <1>4, <1>5, <1>6, <1>7

(* Admitting a run keeps the types of the records. *)
LEMMA AdmitType ==
    ASSUME TypeOK, NEW r \in RunIDs, NEW cmd \in Commands,
           NEW approval \in Grants \cup {None}, Admit(r, cmd, approval)
    PROVE  /\ status' \in [RunIDs -> Statuses]
           /\ command' \in [RunIDs -> Commands \cup {None}]
           /\ born' \in [RunIDs -> Nat]
           /\ active' \in Int
           /\ grant' \in [RunIDs -> Grants \cup {None}]
           /\ UNCHANGED <<cancelled, launched>>
BY BirthType DEF Admit, TypeOK, Statuses

-----------------------------------------------------------------------------
(* Type correctness *)

(* The steps of requests keep the types of the variables. *)
LEMMA ClientTypes ==
    ASSUME TypeOK, NEW c \in Clients, ClientStep(c)
    PROVE  TypeOK'
<1> USE PlanAssumption, IdentifierAssumption, ConfigAssumption
<1>1. ASSUME NEW cmd \in Commands, BeginPreview(c, cmd)
      PROVE  TypeOK'
  <2>1. context \in Contexts /\ clock \in Nat
    BY <1>1 DEF BeginPreview, Plannable, TypeOK
  <2>2. [op |-> "preview", cmd |-> cmd, ctx |-> context, at |-> clock] \in Requests
    BY <2>1 DEF Requests
  <2>3. request' \in [Clients -> Requests]
    BY <1>1, <2>2 DEF BeginPreview, TypeOK
  <2> QED
    BY <1>1, <2>3 DEF BeginPreview, TypeOK, envVars, approvalVars, runVars, auditVars, lifeVars
<1>2. ASSUME NEW id \in ApprovalIDs, IssueApproval(c, id)
      PROVE  TypeOK'
  <2> DEFINE req    == request[c]
             pruned == PruneApprovals(approvals, req.at)
             record == [fingerprint  |-> ApprovalFingerprint(req.cmd, req.ctx),
                        issuedAt     |-> req.at,
                        expiresAt    |-> req.at + ApprovalTTL,
                        requiredText |-> RequiredText(req.cmd)]
  <2>1. req \in [op : {"preview"}, cmd : Commands, ctx : Contexts, at : Nat]
    BY <1>2 DEF IssueApproval, TypeOK, Requests, IdleRequest
  <2>2. record \in ApprovalRecords
    BY <2>1 DEF ApprovalRecords, ApprovalFingerprint, RequiredText
  <2>3. pruned \in [ApprovalIDs -> ApprovalRecords \cup {None}]
    BY DEF PruneApprovals, TypeOK
  <2>4. approvals' \in [ApprovalIDs -> ApprovalRecords \cup {None}]
    <3> HIDE DEF record, pruned
    <3>1. PICK victim : approvals' = [x \in ApprovalIDs |->
                                 IF x = id THEN record
                                 ELSE IF x = victim THEN None ELSE pruned[x]]
      BY <1>2 DEF IssueApproval, record, pruned
    <3> QED
      BY <3>1, <2>2, <2>3
  <2>5. request' \in [Clients -> Requests]
    BY <1>2 DEF IssueApproval, Answer, TypeOK, Requests
  <2>6. minted' \subseteq ApprovalIDs
    BY <1>2 DEF IssueApproval, TypeOK
  <2> QED
    BY <1>2, <2>4, <2>5, <2>6 DEF IssueApproval, TypeOK, envVars, runVars, auditVars, lifeVars
<1>3. CASE RefusePreview(c)
  BY <1>3 DEF RefusePreview, Answer, TypeOK, Requests, envVars, approvalVars, runVars,
              auditVars, lifeVars
<1>4. ASSUME NEW cmd \in Commands, NEW id \in ApprovalIDs \cup {None},
             NEW text \in Confirmations(cmd), BeginStart(c, cmd, id, text)
      PROVE  TypeOK'
  <2>1. text \in Commands \cup {None}
    BY DEF Confirmations, RequiredText
  <2>2. [op  |-> "start", cmd |-> cmd, id |-> id, text |-> text,
         ctx |-> IF RequiresApproval(cmd) THEN context ELSE None] \in Requests
    BY <2>1 DEF Requests, TypeOK
  <2>3. request' \in [Clients -> Requests]
    BY <1>4, <2>2 DEF BeginStart, TypeOK
  <2> QED
    BY <1>4, <2>3 DEF BeginStart, TypeOK, envVars, approvalVars, runVars, auditVars, lifeVars
<1>5. CASE RefuseStart(c)
  BY <1>5 DEF RefuseStart, Answer, TypeOK, Requests, envVars, approvalVars, runVars,
              auditVars, lifeVars
<1>6. CASE RefuseApproval(c)
  <2>1. approvals' \in [ApprovalIDs -> ApprovalRecords \cup {None}]
    BY <1>6, ConsumeType DEF RefuseApproval, PruneApprovals, TypeOK
  <2>2. request' \in [Clients -> Requests]
    BY <1>6 DEF RefuseApproval, Answer, TypeOK, Requests
  <2> QED
    BY <1>6, <2>1, <2>2 DEF RefuseApproval, TypeOK, envVars, runVars, auditVars, lifeVars
<1>7. CASE AuditRefusesStart(c)
  <2>1. approvals' \in [ApprovalIDs -> ApprovalRecords \cup {None}]
    BY <1>7, ConsumeType DEF AuditRefusesStart
  <2>2. request' \in [Clients -> Requests]
    BY <1>7 DEF AuditRefusesStart, Answer, TypeOK, Requests
  <2> QED
    BY <1>7, <2>1, <2>2 DEF AuditRefusesStart, TypeOK, envVars, runVars, lifeVars
<1>8. ASSUME NEW r \in RunIDs, AcceptRead(c, r)
      PROVE  TypeOK'
  <2>1. request[c].cmd \in Commands
    BY <1>8 DEF AcceptRead, TypeOK, Requests, IdleRequest
  <2>2. Admit(r, request[c].cmd, None)
    BY <1>8 DEF AcceptRead
  <2>3. request' \in [Clients -> Requests]
    BY <1>8 DEF AcceptRead, Answer, TypeOK, Requests
  <2> QED
    BY <1>8, <2>1, <2>2, <2>3, AdmitType
    DEF AcceptRead, TypeOK, envVars, approvalVars, auditVars, lifeVars
<1>9. ASSUME NEW r \in RunIDs, AcceptMutation(c, r)
      PROVE  TypeOK'
  <2>1. request[c].cmd \in Commands /\ GrantOf(request[c]) \in Grants
    BY <1>9, GrantType DEF AcceptMutation
  <2>2. Admit(r, request[c].cmd, GrantOf(request[c])) /\ ConsumeApproval(request[c])
    BY <1>9 DEF AcceptMutation
  <2>3. request' \in [Clients -> Requests]
    BY <1>9 DEF AcceptMutation, Answer, TypeOK, Requests
  <2>4. audit' \in [RunIDs -> Sink!TrailStates]
    BY <1>9 DEF AcceptMutation, Sink!Approve, Sink!TrailStates, TypeOK
  <2>5. approvals' \in [ApprovalIDs -> ApprovalRecords \cup {None}]
    BY <2>2, ConsumeType
  <2> QED
    BY <1>9, <2>1, <2>2, <2>3, <2>4, <2>5, AdmitType
    DEF AcceptMutation, TypeOK, envVars, lifeVars
<1> QED
  BY <1>1, <1>2, <1>3, <1>4, <1>5, <1>6, <1>7, <1>8, <1>9 DEF ClientStep

(* So do the steps of the runs, of the lifecycle and of the environment. *)
LEMMA OtherTypes ==
    ASSUME TypeOK, (\E r \in RunIDs : RunStep(r)) \/ LifeStep
    PROVE  TypeOK'
<1>1. ASSUME NEW r \in RunIDs, RunStep(r)
      PROVE  TypeOK'
  <2>1. CASE Launch(r)
    BY <2>1 DEF Launch, TypeOK, envVars, approvalVars, auditVars, lifeVars
  <2>2. ASSUME NEW outcome \in Terminal, Complete(r, outcome)
        PROVE  TypeOK'
    <3>1. status' \in [RunIDs -> Statuses] /\ active' \in Int
      BY <2>2 DEF Complete, TypeOK, Statuses
    <3>2. audit' \in [RunIDs -> Sink!TrailStates] /\ auditFailed' \in BOOLEAN
      BY <2>2 DEF Complete, Sink!Complete, Sink!TrailStates, TypeOK
    <3> QED
      BY <2>2, <3>1, <3>2 DEF Complete, TypeOK, envVars, approvalVars, lifeVars
  <2>3. CASE Cancel(r)
    BY <2>3 DEF Cancel, TypeOK, envVars, approvalVars, auditVars, lifeVars
  <2> QED
    BY <1>1, <2>1, <2>2, <2>3 DEF RunStep
<1>2. CASE LifeStep
  <2> USE DEF TypeOK, envVars, approvalVars, runVars, auditVars, lifeVars
  <2>1. ASSUME NEW t \in Tools, ActivateTool(t)
        PROVE  TypeOK'
    BY <2>1 DEF ActivateTool
  <2>2. CASE CancelParent
    BY <2>2 DEF CancelParent
  <2>3. CASE Shutdown
    BY <2>3 DEF Shutdown
  <2>4. CASE ShutdownDrained \/ ShutdownTimedOut
    BY <2>4 DEF ShutdownDrained, ShutdownTimedOut
  <2>5. CASE CloseAudit
    BY <2>5 DEF CloseAudit
  <2>6. CASE ChangeContext
    BY <2>6 DEF ChangeContext
  <2>7. CASE Tick
    BY <2>7 DEF Tick
  <2>8. CASE Exited
    BY <2>8 DEF Exited, vars
  <2> QED
    BY <1>2, <2>1, <2>2, <2>3, <2>4, <2>5, <2>6, <2>7, <2>8 DEF LifeStep
<1> QED
  BY <1>1, <1>2

(* Every step of the manager and a stuttering step keep the types. *)
LEMMA NextTypes == TypeOK /\ [Next]_vars => TypeOK'
<1> SUFFICES ASSUME TypeOK, [Next]_vars PROVE TypeOK'
  OBVIOUS
<1>1. CASE Next
  BY <1>1, ClientTypes, OtherTypes DEF Next
<1>2. CASE UNCHANGED vars
  BY <1>2 DEF TypeOK, vars, envVars, approvalVars, runVars, auditVars, lifeVars
<1> QED
  BY <1>1, <1>2

(* The manager starts well typed. *)
LEMMA InitTypes == Init => TypeOK
<1> SUFFICES ASSUME Init PROVE TypeOK
  OBVIOUS
<1>1. /\ discovery \in [Tools -> {"missing", "ready"}]
      /\ context \in Contexts \cup {None}
      /\ clock \in Nat
      /\ approvals \in [ApprovalIDs -> ApprovalRecords \cup {None}]
      /\ minted \subseteq ApprovalIDs
      /\ request \in [Clients -> Requests]
  BY DEF Init, Requests
<1>2. /\ status \in [RunIDs -> Statuses]
      /\ command \in [RunIDs -> Commands \cup {None}]
      /\ born \in [RunIDs -> Nat]
      /\ active \in Int
      /\ cancelled \subseteq RunIDs
      /\ launched \subseteq RunIDs
      /\ grant \in [RunIDs -> Grants \cup {None}]
  BY DEF Init, Statuses
<1>3. audit \in [RunIDs -> Sink!TrailStates]
  BY DEF Init, Sink!Init, Sink!TrailStates
<1>4. /\ {auditFailed, auditOpen, closed, ctxDone} \subseteq BOOLEAN
      /\ shutdown \in {"serving", "waiting", "drained", "timed-out"}
  BY DEF Init
<1> QED
  BY <1>1, <1>2, <1>3, <1>4 DEF TypeOK

(* Every variable of the run manager keeps its type, for every number of   *)
(* requests, runs and approvals: in particular an approval that is         *)
(* consumed was issued for a resolved context (approval.go:222-243).       *)
THEOREM TypeCorrect == Spec => []TypeOK
<1>1. QED
  BY InitTypes, NextTypes, PTL DEF Spec

-----------------------------------------------------------------------------
(* The records of the runs *)

(* The steps that touch a record, the journal or the counter; every other  *)
(* step leaves them alone, and may at most block later mutations.          *)
LEMMA RecordSteps ==
    ASSUME [Next]_vars
    PROVE  \/ /\ UNCHANGED <<status, command, born, active, launched, grant, audit>>
              /\ (auditFailed => auditFailed')
           \/ \E c \in Clients, r \in RunIDs : AcceptRead(c, r)
           \/ \E c \in Clients, r \in RunIDs : AcceptMutation(c, r)
           \/ \E r \in RunIDs : Launch(r)
           \/ \E r \in RunIDs, outcome \in Terminal : Complete(r, outcome)
<1> USE DEF runVars, auditVars
<1>1. ASSUME NEW c \in Clients, ClientStep(c)
      PROVE  \/ UNCHANGED runVars /\ audit' = audit /\ (auditFailed => auditFailed')
             \/ \E r \in RunIDs : AcceptRead(c, r) \/ AcceptMutation(c, r)
  BY <1>1 DEF ClientStep, BeginPreview, IssueApproval, RefusePreview, BeginStart,
              RefuseStart, RefuseApproval, AuditRefusesStart
<1>2. ASSUME NEW r \in RunIDs, Cancel(r)
      PROVE  UNCHANGED <<status, command, born, active, launched, grant, audit, auditFailed>>
  BY <1>2 DEF Cancel
<1>3. CASE LifeStep
  BY <1>3 DEF LifeStep, ActivateTool, CancelParent, Shutdown, ShutdownDrained,
              ShutdownTimedOut, CloseAudit, ChangeContext, Tick, Exited, vars
<1>4. CASE UNCHANGED vars
  BY <1>4 DEF vars
<1> QED
  BY <1>1, <1>2, <1>3, <1>4 DEF Next, RunStep

(* A run that does not exist yet left no trace, and one that does keeps    *)
(* the plan it was accepted with.                                          *)
BornRecords ==
    \A r \in RunIDs :
        /\ born[r] = 0 => /\ status[r] = "absent"
                          /\ audit[r] = "none"
                          /\ grant[r] = None
                          /\ r \notin launched
        /\ born[r] # 0 => command[r] \in Commands

(* Both ways of accepting a run admit a fresh one for a known plan. *)
LEMMA AcceptAdmits ==
    ASSUME TypeOK, NEW c \in Clients, NEW r \in RunIDs,
           AcceptRead(c, r) \/ AcceptMutation(c, r)
    PROVE  /\ r \in FreshRunIDs
           /\ Admissible
           /\ request[c].cmd \in Commands
           /\ \E approval \in Grants \cup {None} : Admit(r, request[c].cmd, approval)
           /\ UNCHANGED <<cancelled, launched, auditFailed>>
<1>1. CASE AcceptRead(c, r)
  <2>1. request[c].cmd \in Commands
    BY <1>1 DEF AcceptRead, TypeOK, Requests, IdleRequest
  <2>2. Admit(r, request[c].cmd, None)
    BY <1>1 DEF AcceptRead
  <2>3. UNCHANGED <<cancelled, launched>>
    BY <2>2 DEF Admit
  <2> QED
    BY <1>1, <2>1, <2>2, <2>3 DEF AcceptRead, auditVars
<1>2. CASE AcceptMutation(c, r)
  BY <1>2, GrantType DEF AcceptMutation, ApprovalSatisfied, Admit
<1> QED
  BY <1>1, <1>2

(* Every step keeps retained runs born and numbered apart. *)
LEMMA BornRecordsNext ==
    ASSUME TypeOK, BornRecords, [Next]_vars
    PROVE  BornRecords'
<1>1. CASE UNCHANGED <<status, command, born, active, launched, grant, audit>>
  BY <1>1 DEF BornRecords
<1>2. ASSUME NEW c \in Clients, NEW r \in RunIDs, AcceptRead(c, r) \/ AcceptMutation(c, r)
      PROVE  BornRecords'
  <2>1. PICK approval \in Grants \cup {None} : Admit(r, request[c].cmd, approval)
    BY <1>2, AcceptAdmits
  <2>2. request[c].cmd \in Commands /\ launched' = launched
    BY <1>2, AcceptAdmits
  <2>3. born'[r] # 0 /\ command'[r] = request[c].cmd
    BY <2>1, BirthType DEF Admit, TypeOK
  <2>4. ASSUME NEW x \in RunIDs, x # r
        PROVE  /\ born'[x] = born[x] /\ command'[x] = command[x] /\ grant'[x] = grant[x]
               /\ status'[x] \in {status[x], "absent"}
    BY <2>1, <2>4 DEF Admit, TypeOK
  <2>5. ASSUME NEW x \in RunIDs, x # r
        PROVE  audit'[x] = audit[x]
    BY <1>2, <2>5 DEF AcceptRead, AcceptMutation, auditVars, Sink!Approve, TypeOK
  <2> QED
    BY <2>2, <2>3, <2>4, <2>5 DEF BornRecords
<1>3. ASSUME NEW r \in RunIDs, Launch(r)
      PROVE  BornRecords'
  BY <1>3 DEF Launch, BornRecords, auditVars
<1>4. ASSUME NEW r \in RunIDs, NEW outcome \in Terminal, Complete(r, outcome)
      PROVE  BornRecords'
  <2>1. born[r] # 0 /\ UNCHANGED <<born, command, grant, launched>>
    BY <1>4 DEF Complete, BornRecords
  <2>2. \A x \in RunIDs \ {r} : status'[x] = status[x] /\ audit'[x] = audit[x]
    BY <1>4 DEF Complete, Sink!Complete, TypeOK
  <2> QED
    BY <2>1, <2>2 DEF BornRecords
<1> QED
  BY <1>1, <1>2, <1>3, <1>4, RecordSteps

(* Reachable states are well typed and their records are consistent. *)
LEMMA Records == Spec => [](TypeOK /\ BornRecords)
<1>1. Init => BornRecords
  BY DEF Init, BornRecords, Sink!Init
<1> QED
  BY <1>1, InitTypes, NextTypes, BornRecordsNext, PTL DEF Spec

-----------------------------------------------------------------------------
(* Capacity *)

(* Among finitely many runs one is the oldest.  The sets of runs not       *)
(* younger than a given one are finite, so one of them is minimal.         *)
LEMMA OldestExists ==
    ASSUME NEW S, IsFiniteSet(S), S # {}, NEW age \in [S -> Nat]
    PROVE  \E x \in S : \A y \in S : age[x] <= age[y]
<1> DEFINE Elders(x) == {y \in S : age[y] <= age[x]}
           Family    == {Elders(x) : x \in S}
<1>1. Family \subseteq FiniteSubsetsOf(S)
  BY FS_Subset DEF FiniteSubsetsOf
<1>2. Family # {}
  <2>1. PICK x : x \in S
    OBVIOUS
  <2>2. Elders(x) \in Family
    BY <2>1
  <2> QED
    BY <2>2
<1>3. PICK T \in Family : \A U \in Family : ~(<<U, T>> \in StrictSubsetOrdering(S))
  BY <1>1, <1>2, WFMin, FS_StrictSubsetOrderingWellFounded, Zenon
<1>4. PICK x \in S : T = Elders(x)
  BY <1>3
<1>5. ASSUME NEW y \in S, ~(age[x] <= age[y])
      PROVE  FALSE
  <2>1. age[x] \in Nat /\ age[y] \in Nat
    OBVIOUS
  <2>2. age[y] < age[x]
    BY <1>5, <2>1
  <2>3. Elders(y) \subseteq Elders(x) /\ x \in Elders(x) /\ x \notin Elders(y)
    BY <2>1, <2>2
  <2>4. Elders(y) \in Family
    OBVIOUS
  <2>5. Elders(y) \subseteq T /\ Elders(y) # T
    BY <1>4, <2>3
  <2>6. Elders(y) \in SUBSET S /\ T \in SUBSET S
    BY <1>4
  <2> HIDE DEF Elders, Family
  <2>7. <<Elders(y), T>> \in StrictSubsetOrdering(S)
    BY <2>5, <2>6 DEF StrictSubsetOrdering
  <2> QED
    BY <1>3, <2>4, <2>7
<1> QED
  BY <1>5

(* The sets of runs are finite. *)
LEMMA RunSetsFinite ==
    /\ IsFiniteSet(Retained) /\ Cardinality(Retained) \in Nat
    /\ IsFiniteSet(Running) /\ Cardinality(Running) \in Nat
    /\ IsFiniteSet(Finished)
    /\ Running \subseteq Retained
<1>1. Retained \subseteq RunIDs /\ Running \subseteq Retained /\ Finished \subseteq RunIDs
  BY DEF Retained, Running, Finished
<1>2. IsFiniteSet(RunIDs)
  BY IdentifierAssumption
<1>3. IsFiniteSet(Retained) /\ IsFiniteSet(Running) /\ IsFiniteSet(Finished)
  BY <1>1, <1>2, FS_Subset
<1> QED
  BY <1>1, <1>3, FS_CardinalityType

(* Whoever may start finds room: fewer than MaxActive runs execute, so a    *)
(* full table holds a finished run.                                        *)
LEMMA RoomForStart ==
    ASSUME CapacityRespected, Admissible
    PROVE  RoomAvailable
<1>1. SUFFICES ASSUME Full, Finished = {} PROVE FALSE
  BY DEF RoomAvailable
<1>2. Retained = Running
  BY <1>1, RunSetsFinite DEF Finished
<1> QED
  BY <1>1, <1>2, RunSetsFinite, ConfigAssumption DEF Full, CapacityRespected, Admissible

(* An admitted run replaces at least one finished run of a full table. *)
LEMMA AdmitRespectsCapacity ==
    ASSUME TypeOK, BornRecords, CapacityRespected, Admissible,
           NEW r \in FreshRunIDs, NEW cmd, NEW approval, Admit(r, cmd, approval)
    PROVE  CapacityRespected'
<1>1. RoomAvailable
  BY RoomForStart
<1>2. r \in RunIDs /\ status[r] = "absent" /\ r \notin Retained /\ r \notin Running
  BY DEF FreshRunIDs, BornRecords, Retained, Running
<1>3. \A x \in RunIDs : status'[x] = IF x = r THEN "running"
                                     ELSE IF x \in Evicted THEN "absent" ELSE status[x]
  BY <1>1 DEF Admit
<1>4. Evicted \subseteq Retained /\ Evicted \cap Running = {}
  BY DEF Evicted, Finished, Running
<1>5. Running' = Running \cup {r}
  BY <1>2, <1>3, <1>4 DEF Running
<1>6. Retained' = (Retained \ Evicted) \cup {r}
  BY <1>2, <1>3 DEF Retained
<1>7. active' = Cardinality(Running') /\ active' <= MaxActive
  <2>1. Cardinality(Running') = Cardinality(Running) + 1
    BY <1>2, <1>5, RunSetsFinite, FS_AddElement
  <2>2. active' = active + 1
    BY <1>1 DEF Admit
  <2> QED
    BY <2>1, <2>2, RunSetsFinite, ConfigAssumption DEF CapacityRespected, Admissible
<1>8. Cardinality(Retained') <= MaxRetained
  <2>1. CASE ~Full
    <3>1. Retained' = Retained \cup {r}
      BY <1>6, <2>1 DEF Evicted
    <3>2. Cardinality(Retained') = Cardinality(Retained) + 1
      BY <1>2, <3>1, RunSetsFinite, FS_AddElement
    <3> QED
      BY <2>1, <3>2, RunSetsFinite, ConfigAssumption DEF Full
  <2>2. CASE Full
    <3>1. Finished # {} /\ Finished \subseteq RunIDs
      BY <1>1, <2>2 DEF RoomAvailable, Finished, Retained
    <3> DEFINE age == [x \in Finished |-> born[x]]
    <3>2. age \in [Finished -> Nat]
      BY <3>1 DEF TypeOK
    <3>3. PICK x \in Finished : \A y \in Finished : age[x] <= age[y]
      <4> HIDE DEF age
      <4> QED
        BY <3>1, <3>2, RunSetsFinite, OldestExists
    <3>4. x \in Evicted
      BY <2>2, <3>3 DEF Evicted
    <3> DEFINE Rest == Retained \ {x}
    <3>5. IsFiniteSet(Rest) /\ Cardinality(Rest) = Cardinality(Retained) - 1
      BY <1>4, <3>4, RunSetsFinite, FS_RemoveElement
    <3>6. IsFiniteSet(Rest \cup {r}) /\ Cardinality(Rest \cup {r}) = Cardinality(Retained)
      <4>1. r \notin Rest
        BY <1>2
      <4> HIDE DEF Rest
      <4> QED
        BY <3>5, <4>1, RunSetsFinite, FS_AddElement
    <3>7. Retained' \subseteq Rest \cup {r}
      BY <1>6, <3>4
    <3>8. Cardinality(Retained') <= Cardinality(Retained) /\ Cardinality(Retained') \in Nat
      <4> HIDE DEF Rest
      <4> QED
        BY <3>6, <3>7, FS_Subset, FS_CardinalityType
    <3> QED
      BY <3>8, RunSetsFinite, ConfigAssumption DEF CapacityRespected
  <2> QED
    BY <2>1, <2>2
<1> QED
  BY <1>7, <1>8 DEF CapacityRespected

(* Every step respects the bounds and keeps the counter of active runs exact. *)
LEMMA CapacityNext ==
    ASSUME TypeOK, BornRecords, CapacityRespected, [Next]_vars
    PROVE  CapacityRespected'
<1>1. CASE UNCHANGED <<status, command, born, active, launched, grant, audit>>
  BY <1>1 DEF CapacityRespected, Running, Retained
<1>2. ASSUME NEW c \in Clients, NEW r \in RunIDs, AcceptRead(c, r) \/ AcceptMutation(c, r)
      PROVE  CapacityRespected'
  <2>1. r \in FreshRunIDs /\ Admissible
    BY <1>2, AcceptAdmits
  <2>2. PICK approval \in Grants \cup {None} : Admit(r, request[c].cmd, approval)
    BY <1>2, AcceptAdmits
  <2> QED
    BY <2>1, <2>2, AdmitRespectsCapacity
<1>3. ASSUME NEW r \in RunIDs, Launch(r)
      PROVE  CapacityRespected'
  BY <1>3 DEF Launch, CapacityRespected, Running, Retained
<1>4. ASSUME NEW r \in RunIDs, NEW outcome \in Terminal, Complete(r, outcome)
      PROVE  CapacityRespected'
  <2>1. status[r] = "running" /\ status' = [status EXCEPT ![r] = outcome]
    BY <1>4 DEF Complete
  <2>2. outcome \notin {"running", "absent"}
    BY DEF Terminal
  <2>3. Running' = Running \ {r} /\ Retained' = Retained
    BY <2>1, <2>2 DEF Running, Retained, TypeOK
  <2>4. Cardinality(Running') = Cardinality(Running) - 1
    <3>1. r \in Running
      BY <2>1 DEF Running
    <3> QED
      BY <2>3, <3>1, RunSetsFinite, FS_RemoveElement
  <2> QED
    BY <1>4, <2>3, <2>4, RunSetsFinite, ConfigAssumption DEF Complete, CapacityRespected
<1> QED
  BY <1>1, <1>2, <1>3, <1>4, RecordSteps

(* No interleaving of the two critical sections of Start exceeds MaxActive *)
(* executing or MaxRetained retained runs, and the counter always agrees   *)
(* with the records (manager.go:404-448, 826-843).                         *)
THEOREM Capacity == Spec => []CapacityRespected
<1>1. Init => CapacityRespected
  BY FS_EmptySet, ConfigAssumption DEF Init, CapacityRespected, Running, Retained
<1>2. TypeOK /\ BornRecords /\ CapacityRespected /\ [Next]_vars => CapacityRespected'
  BY CapacityNext
<1> QED
  BY <1>1, <1>2, Records, PTL DEF Spec

-----------------------------------------------------------------------------
(* The journal *)

(* A plan needs an approval unless it is a read. *)
LEMMA RiskKinds ==
    ASSUME NEW cmd \in Commands
    PROVE  RequiresApproval(cmd) <=> Risk[cmd] # "read"
BY PlanAssumption DEF RequiresApproval, Risks

(* Reads are not journaled. *)
ReadsUnjournaled == \A r \in RunIDs : audit[r] # "none" => Risk[command[r]] # "read"

(* The invariants that relate the journal to the runs support each other:  *)
(* a completion finds its approval, a launch its journal entry.            *)
JournalInv ==
    NoForgottenApproval /\ JournalAgrees /\ LaunchedIsJournaled /\ ReadsUnjournaled

(* Every step keeps the journal and the runs in agreement. *)
LEMMA JournalNext ==
    ASSUME TypeOK, BornRecords, CapacityRespected, JournalInv, [Next]_vars, BornRecords'
    PROVE  JournalInv'
<1> USE DEF JournalInv
<1>1. CASE /\ UNCHANGED <<status, command, born, active, launched, grant, audit>>
           /\ (auditFailed => auditFailed')
  BY <1>1 DEF NoForgottenApproval, JournalAgrees, LaunchedIsJournaled, ReadsUnjournaled,
              Running, FreshRunIDs
<1>2. ASSUME NEW c \in Clients, NEW r \in RunIDs, AcceptRead(c, r) \/ AcceptMutation(c, r)
      PROVE  JournalInv'
  <2>1. PICK approval \in Grants \cup {None} : Admit(r, request[c].cmd, approval)
    BY <1>2, AcceptAdmits
  <2>2. r \in FreshRunIDs /\ request[c].cmd \in Commands /\ RoomAvailable
        /\ launched' = launched /\ auditFailed' = auditFailed
    BY <1>2, AcceptAdmits, RoomForStart
  <2>3. status'[r] = "running" /\ command'[r] = request[c].cmd /\ born'[r] # 0
    BY <2>1, <2>2, BirthType DEF Admit, TypeOK
  <2>4. ASSUME NEW x \in RunIDs, x # r
        PROVE  /\ born'[x] = born[x] /\ command'[x] = command[x]
               /\ status'[x] = status[x] \/ (x \in Evicted /\ status'[x] = "absent")
    BY <2>1, <2>4 DEF Admit, TypeOK
  <2>5. ASSUME NEW x \in RunIDs, x # r
        PROVE  audit'[x] = audit[x]
    BY <1>2, <2>5 DEF AcceptRead, AcceptMutation, auditVars, Sink!Approve, TypeOK
  <2>6. audit'[r] = IF Risk[request[c].cmd] # "read" THEN "approved" ELSE "none"
    <3>1. audit[r] = "none"
      BY <2>2 DEF BornRecords, FreshRunIDs
    <3>2. CASE AcceptRead(c, r)
      BY <2>2, <3>1, <3>2, RiskKinds DEF AcceptRead, auditVars
    <3>3. CASE AcceptMutation(c, r)
      BY <2>2, <3>3, RiskKinds DEF AcceptMutation, ApprovalSatisfied, Sink!Approve, TypeOK
    <3> QED
      BY <1>2, <3>2, <3>3
  <2>7. \A x \in Evicted : status[x] # "running"
    BY DEF Evicted, Finished, Running, Retained
  <2>8. r \notin launched /\ launched \subseteq RunIDs
    BY <2>2 DEF BornRecords, FreshRunIDs, TypeOK
  <2>9. NoForgottenApproval'
    BY <2>2, <2>3, <2>4, <2>5, <2>6, <2>7 DEF NoForgottenApproval
  <2>10. JournalAgrees'
    BY <2>2, <2>3, <2>4, <2>5, <2>6 DEF JournalAgrees, Running, FreshRunIDs
  <2>11. LaunchedIsJournaled'
    BY <2>2, <2>4, <2>5, <2>8 DEF LaunchedIsJournaled
  <2>12. ReadsUnjournaled'
    BY <2>3, <2>4, <2>5, <2>6 DEF ReadsUnjournaled
  <2> QED
    BY <2>9, <2>10, <2>11, <2>12
<1>3. ASSUME NEW r \in RunIDs, Launch(r)
      PROVE  JournalInv'
  <2>1. r \in Running /\ launched' = launched \cup {r}
        /\ UNCHANGED <<status, command, born, audit, auditFailed>>
    BY <1>3 DEF Launch, auditVars, Running
  <2> QED
    BY <2>1 DEF NoForgottenApproval, JournalAgrees, LaunchedIsJournaled, ReadsUnjournaled,
               Running, FreshRunIDs
<1>4. ASSUME NEW r \in RunIDs, NEW outcome \in Terminal, Complete(r, outcome)
      PROVE  JournalInv'
  <2>1. /\ r \in Running
        /\ UNCHANGED <<born, command, launched>>
        /\ status' = [status EXCEPT ![r] = outcome]
    BY <1>4 DEF Complete, Running
  <2>2. command[r] \in Commands
    BY <2>1 DEF BornRecords, Running
  <2>3. /\ \A x \in RunIDs \ {r} : audit'[x] = audit[x]
        /\ audit'[r] \in {audit[r], "completed"}
        /\ (auditFailed => auditFailed')
    BY <1>4 DEF Complete, Sink!Complete, TypeOK
  <2>4. audit[r] = "approved" /\ audit'[r] = "approved" => auditFailed'
    <3>1. CASE RequiresApproval(command[r])
      BY <1>4, <3>1 DEF Complete, Sink!Complete, TypeOK
    <3>2. CASE ~RequiresApproval(command[r])
      <4>1. Risk[command[r]] = "read"
        BY <2>2, <3>2, RiskKinds
      <4> QED
        BY <4>1 DEF ReadsUnjournaled
    <3> QED
      BY <3>1, <3>2
  <2>5. outcome \notin {"running", "absent"}
    BY DEF Terminal
  <2>6. NoForgottenApproval'
    BY <2>1, <2>3, <2>4 DEF NoForgottenApproval, TypeOK, Running
  <2>7. JournalAgrees'
    <3>1. r \notin FreshRunIDs
      BY <2>1 DEF BornRecords, FreshRunIDs, Running
    <3> QED
      BY <2>1, <2>3, <2>5, <3>1 DEF JournalAgrees, TypeOK, Running, FreshRunIDs
  <2>8. LaunchedIsJournaled'
    BY <2>1, <2>3 DEF LaunchedIsJournaled, TypeOK
  <2>9. ReadsUnjournaled'
    <3>1. audit[r] = "none" => audit'[r] = "none"
      BY <1>4 DEF Complete, Sink!Complete, Sink!CanComplete, TypeOK
    <3> QED
      BY <2>1, <2>3, <3>1 DEF ReadsUnjournaled
  <2> QED
    BY <2>6, <2>7, <2>8, <2>9
<1> QED
  BY <1>1, <1>2, <1>3, <1>4, RecordSteps

(* The journal and the runs agree in every reachable state. *)
LEMMA JournalInvariant == Spec => []JournalInv
<1>1. Init => JournalInv
  BY DEF Init, JournalInv, NoForgottenApproval, JournalAgrees, LaunchedIsJournaled,
         ReadsUnjournaled, Running, FreshRunIDs, Sink!Init
<1>2. /\ TypeOK /\ BornRecords /\ CapacityRespected /\ JournalInv /\ [Next]_vars
      /\ BornRecords'
      => JournalInv'
  BY JournalNext
<1> QED
  BY <1>1, <1>2, Records, Capacity, PTL DEF Spec

(* The vendor process of a mutation is started only after its approval was *)
(* journaled, and the journal keeps it (manager.go:418-440, 624-640).      *)
THEOREM LaunchesJournaled == Spec => []LaunchedIsJournaled
<1>1. JournalInv => LaunchedIsJournaled
  BY DEF JournalInv
<1> QED
  BY <1>1, JournalInvariant, PTL

(* A journaled approval is never forgotten: room for its run is always     *)
(* found, and a completion that cannot be journaled blocks mutations       *)
(* (manager.go:442-448, 767-770).                                          *)
THEOREM ApprovalsRemembered == Spec => []NoForgottenApproval
<1>1. JournalInv => NoForgottenApproval
  BY DEF JournalInv
<1> QED
  BY <1>1, JournalInvariant, PTL

(* The journal never has a reason of its own to refuse what the manager    *)
(* asks of it (store.go:237-246).                                          *)
THEOREM JournalAgreement == Spec => []JournalAgrees
<1>1. JournalInv => JournalAgrees
  BY DEF JournalInv
<1> QED
  BY <1>1, JournalInvariant, PTL

(* A journal failure blocks every later mutation and is never forgotten    *)
(* (manager.go:413-416).                                                   *)
THEOREM FailureBlocks == Spec => AuditFailureBlocks
<1> DEFINE Blocks == auditFailed => /\ auditFailed'
                                    /\ \A r \in RunIDs : audit[r] = "none" => audit'[r] = "none"
<1>1. TypeOK /\ [Next]_vars => Blocks
  <2> SUFFICES ASSUME TypeOK, [Next]_vars, auditFailed
               PROVE  auditFailed' /\ \A r \in RunIDs : audit[r] = "none" => audit'[r] = "none"
    OBVIOUS
  <2>1. ASSUME NEW c \in Clients, NEW r \in RunIDs, AcceptMutation(c, r)
        PROVE  FALSE
    BY <2>1 DEF AcceptMutation, ApprovalSatisfied
  <2>2. ASSUME NEW c \in Clients, NEW r \in RunIDs, AcceptRead(c, r)
        PROVE  UNCHANGED <<auditFailed, audit>>
    BY <2>2 DEF AcceptRead, auditVars
  <2>3. ASSUME NEW r \in RunIDs, Launch(r)
        PROVE  UNCHANGED <<auditFailed, audit>>
    BY <2>3 DEF Launch, auditVars
  <2>4. ASSUME NEW r \in RunIDs, NEW outcome \in Terminal, Complete(r, outcome)
        PROVE  auditFailed' /\ \A x \in RunIDs : audit[x] = "none" => audit'[x] = "none"
    BY <2>4 DEF Complete, Sink!Complete, Sink!CanComplete, TypeOK
  <2> QED
    BY <2>1, <2>2, <2>3, <2>4, RecordSteps
<1>2. TypeOK /\ [Next]_vars => [Blocks]_vars
  BY <1>1
<1> QED
  BY <1>2, TypeCorrect, PTL DEF Spec, AuditFailureBlocks

-----------------------------------------------------------------------------
(* Approvals *)

(* The steps that touch the approvals, and what the others do to them. *)
LEMMA ApprovalSteps ==
    ASSUME TypeOK, [Next]_vars
    PROVE  \/ /\ \A id \in ApprovalIDs : approvals'[id] \in {approvals[id], None}
              /\ UNCHANGED <<minted, grant, closed>>
           \/ Shutdown
           \/ \E c \in Clients, id \in ApprovalIDs : IssueApproval(c, id)
           \/ \E c \in Clients, r \in RunIDs : AcceptRead(c, r)
           \/ \E c \in Clients, r \in RunIDs : AcceptMutation(c, r)
<1> USE DEF approvalVars, runVars, lifeVars
<1>1. ASSUME NEW c \in Clients, RefuseApproval(c) \/ AuditRefusesStart(c)
      PROVE  /\ \A id \in ApprovalIDs : approvals'[id] \in {approvals[id], None}
             /\ UNCHANGED <<minted, grant, closed>>
  BY <1>1 DEF RefuseApproval, AuditRefusesStart, ConsumeApproval, PruneApprovals
<1>2. ASSUME NEW c \in Clients,
             \/ \E cmd \in Commands : BeginPreview(c, cmd)
             \/ RefusePreview(c)
             \/ \E cmd \in Commands, id \in ApprovalIDs \cup {None} :
                    \E text \in Confirmations(cmd) : BeginStart(c, cmd, id, text)
             \/ RefuseStart(c)
      PROVE  UNCHANGED <<approvals, minted, grant, closed>>
  BY <1>2 DEF BeginPreview, RefusePreview, BeginStart, RefuseStart
<1>3. ASSUME NEW r \in RunIDs, RunStep(r)
      PROVE  UNCHANGED <<approvals, minted, grant, closed>>
  BY <1>3 DEF RunStep, Launch, Complete, Cancel
<1>4. CASE LifeStep /\ ~Shutdown
  BY <1>4 DEF LifeStep, ActivateTool, CancelParent, ShutdownDrained,
              ShutdownTimedOut, CloseAudit, ChangeContext, Tick, Exited, vars
<1>5. CASE UNCHANGED vars
  BY <1>5 DEF vars
<1> QED
  BY <1>1, <1>2, <1>3, <1>4, <1>5 DEF Next, ClientStep

(* Every approval, outstanding or consumed, was minted once, and lives     *)
(* ApprovalTTL from the moment it was issued.                              *)
MintedOnce ==
    /\ \A id \in ApprovalIDs : approvals[id] # None =>
           /\ id \in minted
           /\ approvals[id].expiresAt = approvals[id].issuedAt + ApprovalTTL
    /\ \A r \in RunIDs : grant[r] # None => grant[r].id \in minted

(* What can be said of the table of approvals, which supports itself. *)
ApprovalInv ==
    MintedOnce /\ ApprovalSingleUse /\ ApprovalsBounded /\ NoApprovalAfterShutdown

(* Removing approvals keeps the invariant. *)
LEMMA ShrinkKeeps ==
    ASSUME TypeOK, ApprovalInv,
           \A id \in ApprovalIDs : approvals'[id] \in {approvals[id], None},
           UNCHANGED <<minted, grant, closed>>
    PROVE  ApprovalInv'
<1>1. Outstanding(approvals') \subseteq Outstanding(approvals)
  BY DEF Outstanding
<1>2. IsFiniteSet(Outstanding(approvals)) /\ Cardinality(Outstanding(approvals)) \in Nat
  BY FS_Subset, FS_CardinalityType, IdentifierAssumption DEF Outstanding
<1>3. /\ Cardinality(Outstanding(approvals')) \in Nat
      /\ Cardinality(Outstanding(approvals')) <= Cardinality(Outstanding(approvals))
  BY <1>1, <1>2, FS_Subset, FS_CardinalityType
<1>4. ApprovalsBounded'
  BY <1>2, <1>3, ConfigAssumption DEF ApprovalInv, ApprovalsBounded
<1>5. NoApprovalAfterShutdown'
  BY <1>1 DEF ApprovalInv, NoApprovalAfterShutdown
<1>6. MintedOnce'
  BY DEF ApprovalInv, MintedOnce
<1>7. ApprovalSingleUse'
  BY DEF ApprovalInv, ApprovalSingleUse, TypeOK, Grants
<1> QED
  BY <1>4, <1>5, <1>6, <1>7 DEF ApprovalInv

(* issueApproval keeps it: the new identifier was never used, and room was *)
(* made for the record if the pruned table was full.                       *)
LEMMA IssueKeeps ==
    ASSUME TypeOK, ApprovalInv, NEW c \in Clients, NEW id \in ApprovalIDs,
           IssueApproval(c, id)
    PROVE  ApprovalInv'
<1> DEFINE req    == request[c]
           pruned == PruneApprovals(approvals, req.at)
           record == [fingerprint  |-> ApprovalFingerprint(req.cmd, req.ctx),
                      issuedAt     |-> req.at,
                      expiresAt    |-> req.at + ApprovalTTL,
                      requiredText |-> RequiredText(req.cmd)]
           Old    == Outstanding(pruned)
<1>1. /\ ~closed /\ closed' = closed
      /\ id \notin minted /\ minted' = minted \cup {id}
      /\ grant' = grant
  BY DEF IssueApproval, Stopped, runVars, lifeVars
<1>2. PICK victim \in IF ApprovalTableFull(pruned) THEN OldestApprovals(pruned) ELSE {None} :
          approvals' = [x \in ApprovalIDs |->
                            IF x = id THEN record
                            ELSE IF x = victim THEN None ELSE pruned[x]]
  BY DEF IssueApproval
<1>3. \A x \in ApprovalIDs : pruned[x] \in {approvals[x], None}
  BY PruneKeeps
<1>4. record.expiresAt = record.issuedAt + ApprovalTTL
  OBVIOUS
<1> HIDE DEF record, pruned
<1>5. \A x \in ApprovalIDs \ {id} : approvals'[x] \in {approvals[x], None}
  BY <1>2, <1>3
<1>6. approvals'[id] = record
  BY <1>2
<1>7. MintedOnce'
  BY <1>1, <1>4, <1>5, <1>6 DEF ApprovalInv, MintedOnce
<1>8. ApprovalSingleUse'
  <2>1. \A r \in RunIDs : grant[r] # None => grant[r].id \in ApprovalIDs \ {id}
    BY <1>1 DEF ApprovalInv, MintedOnce, TypeOK, Grants
  <2> QED
    BY <1>1, <1>5, <2>1 DEF ApprovalInv, ApprovalSingleUse
<1>9. ApprovalsBounded'
  <2>1. IsFiniteSet(Old) /\ Cardinality(Old) \in Nat
    BY FS_Subset, FS_CardinalityType, IdentifierAssumption DEF Outstanding
  <2>2. Cardinality(Old) <= MaxApprovals
    <3>1. Old \subseteq Outstanding(approvals)
      BY <1>3 DEF Outstanding
    <3>2. IsFiniteSet(Outstanding(approvals)) /\ Cardinality(Outstanding(approvals)) \in Nat
      BY FS_Subset, FS_CardinalityType, IdentifierAssumption DEF Outstanding
    <3>3. Cardinality(Old) <= Cardinality(Outstanding(approvals))
      BY <3>1, <3>2, FS_Subset
    <3> QED
      BY <2>1, <3>2, <3>3, ConfigAssumption DEF ApprovalInv, ApprovalsBounded
  <2>3. Outstanding(approvals') \subseteq (Old \ {victim}) \cup {id}
    BY <1>2 DEF Outstanding
  <2> HIDE DEF Old
  <2>4. IsFiniteSet(Old \ {victim}) /\ Cardinality(Old \ {victim}) \in Nat
        /\ Cardinality(Old \ {victim}) < MaxApprovals
    <3>1. CASE ApprovalTableFull(pruned)
      <4>1. victim \in Old
        BY <1>2, <3>1 DEF OldestApprovals, Old
      <4>2. IsFiniteSet(Old \ {victim}) /\ Cardinality(Old \ {victim}) = Cardinality(Old) - 1
        BY <2>1, <4>1, FS_RemoveElement
      <4>3. Cardinality(Old \ {victim}) \in Nat
        BY <4>2, FS_CardinalityType
      <4> QED
        BY <2>1, <2>2, <4>2, <4>3, ConfigAssumption
    <3>2. CASE ~ApprovalTableFull(pruned)
      <4>1. Cardinality(Old) < MaxApprovals
        BY <2>1, <3>2, ConfigAssumption DEF ApprovalTableFull, Old
      <4>2. Old \ {victim} \in SUBSET Old
        OBVIOUS
      <4>3. IsFiniteSet(Old \ {victim}) /\ Cardinality(Old \ {victim}) <= Cardinality(Old)
        BY <2>1, <4>2, FS_Subset
      <4>4. Cardinality(Old \ {victim}) \in Nat
        BY <4>3, FS_CardinalityType
      <4> QED
        BY <2>1, <4>1, <4>3, <4>4, ConfigAssumption
    <3> QED
      BY <3>1, <3>2
  <2> DEFINE Kept == Old \ {victim}
  <2> HIDE DEF Kept
  <2>5. IsFiniteSet(Kept \cup {id}) /\ Cardinality(Kept \cup {id}) <= MaxApprovals
        /\ Cardinality(Kept \cup {id}) \in Nat
    <3>1. IsFiniteSet(Kept) /\ Cardinality(Kept) \in Nat /\ Cardinality(Kept) < MaxApprovals
      BY <2>4 DEF Kept
    <3>2. /\ IsFiniteSet(Kept \cup {id})
          /\ Cardinality(Kept \cup {id}) \in {Cardinality(Kept), Cardinality(Kept) + 1}
      BY <3>1, FS_AddElement
    <3> QED
      BY <3>1, <3>2, ConfigAssumption
  <2>6. Outstanding(approvals') \in SUBSET (Kept \cup {id})
    BY <2>3 DEF Kept
  <2>7. /\ Cardinality(Outstanding(approvals')) <= Cardinality(Kept \cup {id})
        /\ Cardinality(Outstanding(approvals')) \in Nat
    BY <2>5, <2>6, FS_Subset, FS_CardinalityType
  <2> QED
    BY <2>5, <2>7, ConfigAssumption DEF ApprovalsBounded
<1>10. NoApprovalAfterShutdown'
  BY <1>1 DEF NoApprovalAfterShutdown
<1> QED
  BY <1>7, <1>8, <1>9, <1>10 DEF ApprovalInv

(* An accepted mutation moves its approval from the table to its grant. *)
LEMMA AcceptMutationKeeps ==
    ASSUME TypeOK, BornRecords, ApprovalInv, NEW c \in Clients, NEW r \in RunIDs,
           AcceptMutation(c, r)
    PROVE  ApprovalInv'
<1> DEFINE req == request[c]
<1>1. /\ req.id \in ApprovalIDs
      /\ approvals[req.id] # None
      /\ GrantOf(req).id = req.id
  BY GrantType, NoneAssumption DEF AcceptMutation, GrantOf
<1>2. /\ \A x \in ApprovalIDs : approvals'[x] \in {approvals[x], None}
      /\ approvals'[req.id] = None
  BY <1>1 DEF AcceptMutation, ConsumeApproval, PruneApprovals
<1>3. minted' = minted /\ closed' = closed
  BY DEF AcceptMutation, lifeVars
<1>4. /\ grant'[r] = GrantOf(req)
      /\ \A x \in RunIDs \ {r} : grant'[x] = grant[x]
  BY DEF AcceptMutation, Admit, TypeOK
<1>5. \A x \in RunIDs : grant[x] # None => grant[x].id \in ApprovalIDs /\ grant[x].id # req.id
  BY <1>1 DEF ApprovalInv, ApprovalSingleUse, TypeOK, Grants
<1>6. ApprovalSingleUse'
  <2>1. \A x \in RunIDs \ {r} : grant'[x] # None =>
            approvals'[grant'[x].id] = None /\ grant'[x].id # req.id
    BY <1>2, <1>4, <1>5 DEF ApprovalInv, ApprovalSingleUse
  <2>2. grant'[r].id = req.id /\ approvals'[grant'[r].id] = None
    BY <1>1, <1>2, <1>4
  <2>3. \A x, y \in RunIDs \ {r} :
            grant'[x] # None /\ grant'[y] # None /\ grant'[x].id = grant'[y].id => x = y
    BY <1>4 DEF ApprovalInv, ApprovalSingleUse
  <2> QED
    BY <2>1, <2>2, <2>3 DEF ApprovalSingleUse
<1>7. MintedOnce'
  BY <1>1, <1>2, <1>3, <1>4 DEF ApprovalInv, MintedOnce
<1>8. Outstanding(approvals') \in SUBSET Outstanding(approvals)
  BY <1>2 DEF Outstanding
<1>9. NoApprovalAfterShutdown'
  BY <1>3, <1>8 DEF ApprovalInv, NoApprovalAfterShutdown
<1>10. ApprovalsBounded'
  <2>1. IsFiniteSet(Outstanding(approvals)) /\ Cardinality(Outstanding(approvals)) \in Nat
    BY FS_Subset, FS_CardinalityType, IdentifierAssumption DEF Outstanding
  <2>2. /\ Cardinality(Outstanding(approvals')) \in Nat
        /\ Cardinality(Outstanding(approvals')) <= Cardinality(Outstanding(approvals))
    BY <1>8, <2>1, FS_Subset, FS_CardinalityType
  <2> QED
    BY <2>1, <2>2, ConfigAssumption DEF ApprovalInv, ApprovalsBounded
<1> QED
  BY <1>6, <1>7, <1>9, <1>10 DEF ApprovalInv

(* Every step keeps the table of approvals sound. *)
LEMMA ApprovalNext ==
    ASSUME TypeOK, BornRecords, ApprovalInv, [Next]_vars
    PROVE  ApprovalInv'
<1>1. CASE /\ \A id \in ApprovalIDs : approvals'[id] \in {approvals[id], None}
           /\ UNCHANGED <<minted, grant, closed>>
  BY <1>1, ShrinkKeeps
<1>2. CASE Shutdown
  <2>1. Outstanding(approvals') = {} /\ \A id \in ApprovalIDs : approvals'[id] = None
    BY <1>2 DEF Shutdown, Outstanding
  <2>2. UNCHANGED <<minted, grant>>
    BY <1>2 DEF Shutdown, runVars
  <2>3. ApprovalsBounded' /\ NoApprovalAfterShutdown'
    BY <2>1, FS_EmptySet, ConfigAssumption DEF ApprovalsBounded, NoApprovalAfterShutdown
  <2>4. MintedOnce'
    BY <2>1, <2>2 DEF ApprovalInv, MintedOnce
  <2>5. ApprovalSingleUse'
    BY <2>1, <2>2 DEF ApprovalInv, ApprovalSingleUse, TypeOK, Grants
  <2> QED
    BY <2>3, <2>4, <2>5 DEF ApprovalInv
<1>3. ASSUME NEW c \in Clients, NEW id \in ApprovalIDs, IssueApproval(c, id)
      PROVE  ApprovalInv'
  BY <1>3, IssueKeeps
<1>4. ASSUME NEW c \in Clients, NEW r \in RunIDs, AcceptRead(c, r)
      PROVE  ApprovalInv'
  <2>1. grant' = grant
    BY <1>4 DEF AcceptRead, Admit, FreshRunIDs, BornRecords, TypeOK
  <2> QED
    BY <1>4, <2>1, ShrinkKeeps DEF AcceptRead, approvalVars, lifeVars
<1>5. ASSUME NEW c \in Clients, NEW r \in RunIDs, AcceptMutation(c, r)
      PROVE  ApprovalInv'
  BY <1>5, AcceptMutationKeeps
<1> QED
  BY <1>1, <1>2, <1>3, <1>4, <1>5, ApprovalSteps

(* The table of approvals is sound in every reachable state. *)
LEMMA ApprovalInvariant == Spec => []ApprovalInv
<1>1. Init => ApprovalInv
  <2> SUFFICES ASSUME Init PROVE ApprovalInv
    OBVIOUS
  <2>1. Outstanding(approvals) = {}
    BY DEF Init, Outstanding
  <2>2. ApprovalsBounded /\ NoApprovalAfterShutdown
    BY <2>1, FS_EmptySet, ConfigAssumption DEF ApprovalsBounded, NoApprovalAfterShutdown
  <2>3. MintedOnce /\ ApprovalSingleUse
    BY DEF Init, MintedOnce, ApprovalSingleUse
  <2> QED
    BY <2>2, <2>3 DEF ApprovalInv
<1>2. TypeOK /\ BornRecords /\ ApprovalInv /\ [Next]_vars => ApprovalInv'
  BY ApprovalNext
<1> QED
  BY <1>1, <1>2, Records, PTL DEF Spec

(* One approval authorises at most one run, however many requests submit   *)
(* it between the critical sections of Start (approval.go:222-243).        *)
THEOREM SingleUse == Spec => []ApprovalSingleUse
<1>1. ApprovalInv => ApprovalSingleUse
  BY DEF ApprovalInv
<1> QED
  BY <1>1, ApprovalInvariant, PTL

(* The table never outgrows MaxApprovals, although issueApproval prunes    *)
(* with a clock value read before it took the mutex (approval.go:182-220). *)
THEOREM TableBounded == Spec => []ApprovalsBounded
<1>1. ApprovalInv => ApprovalsBounded
  BY DEF ApprovalInv
<1> QED
  BY <1>1, ApprovalInvariant, PTL

(* No approval outlives Shutdown: a Preview that was planning when the     *)
(* manager closed cannot store one (approval.go:200-202).                  *)
THEOREM ShutdownClears == Spec => []NoApprovalAfterShutdown
<1>1. ApprovalInv => NoApprovalAfterShutdown
  BY DEF ApprovalInv
<1> QED
  BY <1>1, ApprovalInvariant, PTL

(* Every step keeps each accepted mutation covered by the approval it used. *)
LEMMA CoversNext ==
    ASSUME TypeOK, BornRecords, MintedOnce, ApprovalCoversRun, [Next]_vars
    PROVE  ApprovalCoversRun'
<1>1. CASE UNCHANGED <<status, command, born, active, launched, grant, audit>>
  BY <1>1 DEF ApprovalCoversRun
<1>2. ASSUME NEW c \in Clients, NEW r \in RunIDs, AcceptRead(c, r) \/ AcceptMutation(c, r)
      PROVE  ApprovalCoversRun'
  <2>1. PICK approval \in Grants \cup {None} : Admit(r, request[c].cmd, approval)
    BY <1>2, AcceptAdmits
  <2>2. request[c].cmd \in Commands
    BY <1>2, AcceptAdmits
  <2>3. ASSUME NEW x \in RunIDs, x # r
        PROVE  /\ command'[x] = command[x] /\ grant'[x] = grant[x]
               /\ status'[x] \in {status[x], "absent"}
    BY <2>1, <2>3 DEF Admit, TypeOK
  <2>4. command'[r] = request[c].cmd
    BY <2>1 DEF Admit, TypeOK
  <2>5. CASE AcceptRead(c, r)
    <3>1. Risk[command'[r]] = "read"
      BY <2>2, <2>4, <2>5, RiskKinds DEF AcceptRead
    <3> QED
      BY <2>3, <3>1 DEF ApprovalCoversRun
  <2>6. CASE AcceptMutation(c, r)
    <3> DEFINE req == request[c]
    <3>1. /\ GrantOf(req) \in Grants
          /\ req.id \in ApprovalIDs
          /\ approvals[req.id] \in ApprovalRecords
          /\ clock < approvals[req.id].expiresAt
      BY <2>6, GrantType DEF AcceptMutation
    <3>2. approvals[req.id].expiresAt = approvals[req.id].issuedAt + ApprovalTTL
      BY <3>1, NoneAssumption DEF MintedOnce
    <3>3. grant'[r] = GrantOf(req)
      BY <2>6 DEF AcceptMutation, Admit, TypeOK
    <3>4. /\ grant'[r] # None
          /\ grant'[r].fingerprint[1] = command'[r]
          /\ grant'[r].at < grant'[r].issuedAt + ApprovalTTL
      BY <2>4, <3>1, <3>2, <3>3, NoneAssumption DEF GrantOf, ApprovalFingerprint
    <3> QED
      BY <2>3, <3>4 DEF ApprovalCoversRun
  <2> QED
    BY <1>2, <2>5, <2>6
<1>3. ASSUME NEW r \in RunIDs, Launch(r)
      PROVE  ApprovalCoversRun'
  BY <1>3 DEF Launch, ApprovalCoversRun
<1>4. ASSUME NEW r \in RunIDs, NEW outcome \in Terminal, Complete(r, outcome)
      PROVE  ApprovalCoversRun'
  BY <1>4 DEF Complete, ApprovalCoversRun, TypeOK
<1> QED
  BY <1>1, <1>2, <1>3, <1>4, RecordSteps

(* Every retained mutation was accepted under an approval of its own       *)
(* command that had not expired when Start consumed it (approval.go:222-   *)
(* 251), whatever time passed between the two critical sections.           *)
THEOREM ApprovalCovers == Spec => []ApprovalCoversRun
<1>1. Init => ApprovalCoversRun
  BY DEF Init, ApprovalCoversRun
<1>2. ApprovalInv => MintedOnce
  BY DEF ApprovalInv
<1>3. TypeOK /\ BornRecords /\ MintedOnce /\ ApprovalCoversRun /\ [Next]_vars
      => ApprovalCoversRun'
  BY CoversNext
<1> QED
  BY <1>1, <1>2, <1>3, Records, ApprovalInvariant, PTL DEF Spec

-----------------------------------------------------------------------------
(* Lifecycle *)

(* Shutdown begins by closing the manager. *)
ClosedFirst == shutdown # "serving" => closed

(* Every step keeps the order of the shutdown sequence. *)
LEMMA LifeNext ==
    ASSUME TypeOK, ClosedFirst, CapacityRespected, DrainedMeansIdle, [Next]_vars,
           CapacityRespected'
    PROVE  ClosedFirst' /\ DrainedMeansIdle'
<1> USE DEF lifeVars, runVars
<1>1. ASSUME Running = {} PROVE active = 0
  BY <1>1, FS_EmptySet DEF CapacityRespected
<1>2. ASSUME NEW c \in Clients, NEW r \in RunIDs, AcceptRead(c, r) \/ AcceptMutation(c, r)
      PROVE  ClosedFirst' /\ DrainedMeansIdle'
  <2>1. ~closed
    BY <1>2, AcceptAdmits DEF Admissible, Stopped
  <2>2. shutdown' = shutdown /\ closed' = closed
    BY <1>2 DEF AcceptRead, AcceptMutation
  <2> QED
    BY <2>1, <2>2 DEF ClosedFirst, DrainedMeansIdle
<1>3. ASSUME NEW r \in RunIDs, RunStep(r)
      PROVE  ClosedFirst' /\ DrainedMeansIdle'
  <2>1. UNCHANGED <<shutdown, closed>> /\ r \in Running
    BY <1>3 DEF RunStep, Launch, Complete, Cancel, Running
  <2> QED
    BY <2>1 DEF ClosedFirst, DrainedMeansIdle
<1>4. ASSUME NEW c \in Clients, ClientStep(c),
             \A r \in RunIDs : ~AcceptRead(c, r) /\ ~AcceptMutation(c, r)
      PROVE  UNCHANGED <<shutdown, closed, status, active>>
  BY <1>4 DEF ClientStep, BeginPreview, IssueApproval, RefusePreview, BeginStart,
              RefuseStart, RefuseApproval, AuditRefusesStart
<1>5. CASE LifeStep
  <2>1. UNCHANGED <<status, active>>
    BY <1>5 DEF LifeStep, ActivateTool, CancelParent, Shutdown, ShutdownDrained,
                ShutdownTimedOut, CloseAudit, ChangeContext, Tick, Exited, vars
  <2>2. CASE Shutdown
    BY <2>2 DEF Shutdown, ClosedFirst, DrainedMeansIdle
  <2>3. CASE ShutdownDrained
    BY <1>1, <2>1, <2>3 DEF ShutdownDrained, ClosedFirst, DrainedMeansIdle, Running
  <2>4. CASE ShutdownTimedOut
    BY <2>4 DEF ShutdownTimedOut, ClosedFirst, DrainedMeansIdle
  <2>5. CASE UNCHANGED <<shutdown, closed>>
    BY <2>1, <2>5 DEF ClosedFirst, DrainedMeansIdle, Running
  <2> QED
    BY <1>5, <2>2, <2>3, <2>4, <2>5
    DEF LifeStep, ActivateTool, CancelParent, CloseAudit, ChangeContext, Tick, Exited, vars
<1>6. CASE UNCHANGED <<shutdown, closed, status, active>>
  BY <1>6 DEF ClosedFirst, DrainedMeansIdle, Running
<1> QED
  BY <1>2, <1>3, <1>4, <1>5, <1>6 DEF Next, vars

(* When Shutdown reports success no run executes, and none will: the       *)
(* journal app.Run closes next has no writer left (manager.go:598-622,     *)
(* app.go:159-170).                                                        *)
THEOREM Drained == Spec => []DrainedMeansIdle
<1>1. Init => ClosedFirst /\ DrainedMeansIdle
  BY DEF Init, ClosedFirst, DrainedMeansIdle
<1>2. /\ TypeOK /\ ClosedFirst /\ CapacityRespected /\ DrainedMeansIdle /\ [Next]_vars
      /\ CapacityRespected'
      => ClosedFirst' /\ DrainedMeansIdle'
  BY LifeNext
<1> QED
  BY <1>1, <1>2, TypeCorrect, Capacity, PTL DEF Spec

-----------------------------------------------------------------------------
(* What a step never does to a retained run *)

(* An outcome is final until the run is evicted, and a run appears only    *)
(* while the manager is open, once per identifier (manager.go:404-412,     *)
(* 733-780).                                                               *)
THEOREM OutcomesFinal == Spec => OneOutcome
<1> DEFINE Final == \A r \in RunIDs :
               /\ status[r] \in Terminal => status'[r] \in {status[r], "absent"}
               /\ status[r] = "absent" /\ status'[r] # "absent" => ~Stopped /\ born[r] = 0
<1>1. TypeOK /\ BornRecords /\ [Next]_vars => Final
  <2> SUFFICES ASSUME TypeOK, BornRecords, [Next]_vars PROVE Final
    OBVIOUS
  <2>1. ASSUME NEW c \in Clients, NEW r \in RunIDs, AcceptRead(c, r) \/ AcceptMutation(c, r)
        PROVE  Final
    <3>1. r \in FreshRunIDs /\ ~Stopped /\ status[r] = "absent"
      BY <2>1, AcceptAdmits DEF Admissible, FreshRunIDs, BornRecords
    <3>2. PICK approval \in Grants \cup {None} : Admit(r, request[c].cmd, approval)
      BY <2>1, AcceptAdmits
    <3>3. \A x \in RunIDs \ {r} : status'[x] \in {status[x], "absent"}
      BY <3>2 DEF Admit
    <3> QED
      BY <2>1, <3>1, <3>3 DEF FreshRunIDs, Terminal
  <2>2. ASSUME NEW r \in RunIDs, NEW outcome \in Terminal, Complete(r, outcome)
        PROVE  Final
    BY <2>2 DEF Complete, Terminal, TypeOK
  <2>3. ASSUME status' = status
        PROVE  Final
    BY <2>3
  <2> QED
    BY <2>1, <2>2, <2>3, RecordSteps DEF Launch
<1> QED
  BY <1>1, Records, PTL DEF Spec, OneOutcome

(* Retained evidence is dropped only to admit a run to a full table, never *)
(* while it executes, and oldest first (manager.go:826-843).               *)
THEOREM EvictionOldest == Spec => EvictionMakesRoom
<1> DEFINE MakesRoom == \A r \in Retained : status'[r] = "absent" =>
               /\ status[r] # "running"
               /\ Cardinality(Retained) = MaxRetained
               /\ \A other \in Finished : born[r] <= born[other]
               /\ \E fresh \in RunIDs : status[fresh] = "absent" /\ status'[fresh] = "running"
<1>1. TypeOK /\ BornRecords /\ CapacityRespected /\ [Next]_vars => MakesRoom
  <2> SUFFICES ASSUME TypeOK, BornRecords, CapacityRespected, [Next]_vars,
                      NEW x \in Retained, status'[x] = "absent"
               PROVE  /\ status[x] # "running"
                      /\ Cardinality(Retained) = MaxRetained
                      /\ \A other \in Finished : born[x] <= born[other]
                      /\ \E fresh \in RunIDs : status[fresh] = "absent"
                                              /\ status'[fresh] = "running"
    OBVIOUS
  <2>1. x \in RunIDs /\ status[x] # "absent"
    BY DEF Retained
  <2>2. PICK c \in Clients, r \in RunIDs : AcceptRead(c, r) \/ AcceptMutation(c, r)
    <3>1. ASSUME NEW r \in RunIDs, NEW outcome \in Terminal, Complete(r, outcome)
          PROVE  FALSE
      BY <2>1, <3>1 DEF Complete, Terminal, TypeOK
    <3> QED
      BY <2>1, <3>1, RecordSteps DEF Launch
  <2>3. r \in FreshRunIDs /\ Admissible
    BY <2>2, AcceptAdmits
  <2>4. status[r] = "absent" /\ RoomAvailable
    BY <2>3, RoomForStart DEF FreshRunIDs, BornRecords
  <2>5. PICK approval \in Grants \cup {None} : Admit(r, request[c].cmd, approval)
    BY <2>2, AcceptAdmits
  <2>6. x \in Evicted /\ status'[r] = "running"
    BY <2>1, <2>4, <2>5 DEF Admit
  <2>7. Full /\ x \in Finished /\ \A other \in Finished : born[x] <= born[other]
    BY <2>6 DEF Evicted
  <2>8. Cardinality(Retained) = MaxRetained
    BY <2>7, RunSetsFinite, ConfigAssumption DEF Full, CapacityRespected
  <2> QED
    BY <2>1, <2>4, <2>6, <2>7, <2>8 DEF Finished, Running
<1> QED
  BY <1>1, Records, Capacity, PTL DEF Spec, EvictionMakesRoom

-----------------------------------------------------------------------------
(* What the runs check, from the theorems above *)

(* Whatever the journal refuses and wherever requests stand between their  *)
(* critical sections, every journaled mutation can be answered for and     *)
(* nothing else was executed (manager.go:404-470, 735-790).                *)
THEOREM MutationsAnsweredFor == Spec => []MutationsAnswered
BY ApprovalsRemembered, JournalAgreement, LaunchesJournaled, PTL DEF MutationsAnswered

(* An approval is worth one run of its command within its lifetime and     *)
(* nothing after Shutdown (approval.go:200-268).                           *)
THEOREM ApprovalsAreSound == Spec => []ApprovalsSound
BY SingleUse, ApprovalCovers, ShutdownClears, PTL DEF ApprovalsSound

(* Outcomes are final and records are dropped oldest first, only to make   *)
(* room (manager.go:735-790, 827-850).                                     *)
THEOREM RetentionIsOrdered == Spec => RetentionOrdered
BY OutcomesFinal, EvictionOldest DEF RetentionOrdered
=============================================================================
