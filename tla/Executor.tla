------------------------------ MODULE Executor ------------------------------
(***************************************************************************)
(* One call of executor.Run (internal/executor/executor.go) with the       *)
(* process controller (internal/processcontrol) and os/exec around it.     *)
(*                                                                         *)
(* Five parties race: the goroutine of Run, the goroutine of os/exec that  *)
(* watches the context, one copying goroutine per output stream, the       *)
(* vendor process with a descendant that may outlive it, and the caller    *)
(* and the clock, which end the context.  The module decides which status  *)
(* a run gets, which events its sink has seen, and what is left running.   *)
(***************************************************************************)
EXTENDS Integers, Sequences

CONSTANTS
    Streams,        \* stdout, stderr
    MaxOutput,      \* MaxOutputBytesPerStream, in blocks
    MaxPending      \* bound of what a pipe holds unread

ASSUME ExecutorAssumption == MaxOutput \in Nat \ {0} /\ MaxPending \in Nat \ {0}

VARIABLES
    pc,             \* where Run is
    parent,         \* the caller's context was cancelled
    ctxErr,         \* runCtx.Err(): the first cause wins
    proc,           \* the root process: none, running, zombie, reaped
    exited,         \* the root ended by itself, with a code of its own
    child,          \* a descendant in the same group, holding the pipes
    watch,          \* os/exec's context goroutine: off, armed, fired
    attached,       \* groupController.pid # 0
    terminated,     \* groupController.terminated
    applied,        \* cancellationApplied
    gate,           \* startedGate is closed: writers may deliver
    copier,         \* copying goroutines: reading, writing, ended
    unread,         \* output in each pipe, in blocks
    total,          \* eventWriter.total
    first,          \* streamState.first: none, sink, limit
    ioError,        \* another copying error that Wait reports
    events,         \* what the sink accepted, in order
    status          \* Result.Status, "none" until Run returns

ctxVars  == <<parent, ctxErr>>
procVars == <<proc, exited, child, attached, terminated, applied, watch>>
ioVars   == <<gate, copier, unread, total, first, ioError, events>>
vars == <<pc, ctxVars, procVars, ioVars, status>>

TerminalEvents == {"exited", "cancelled", "timed-out", "failed"}

StatusForContextError(err) == IF err = "deadline" THEN "timed-out" ELSE "cancelled"

-----------------------------------------------------------------------------
(* The process controller *)

(* Mutant: a signal that the process may ignore. *)
KillGroup_Polite ==
    /\ terminated' = TRUE
    /\ UNCHANGED <<proc, child>>

(* SIGKILL to the process group. *)
KillGroup ==
    /\ terminated' = TRUE
    /\ proc' = "zombie"
    /\ child' = IF child = "alive" THEN "dead" ELSE child

(* Cancel succeeds unless the root was reaped; signal 0 still reaches a     *)
(* root that has exited and was not waited for.                            *)
Cancellable == proc \in {"running", "zombie"}

CancelGroup ==
    IF Cancellable /\ ~terminated THEN KillGroup ELSE UNCHANGED <<terminated, proc, child>>

(* Mutant: descendants are left alone when the root ended by itself. *)
CloseGroup_KeepsChild == UNCHANGED child

(* Close ends the descendants of a group that was not killed yet. *)
CloseGroup ==
    child' = IF attached /\ ~terminated /\ child = "alive" THEN "dead" ELSE child

-----------------------------------------------------------------------------
(* Run, up to the start of the process *)

Return(result) == pc' = "done" /\ status' = result

(* Validation and revalidation of the executable may fail; a context that  *)
(* has already ended needs no process.                                     *)
Prepare ==
    /\ pc = "ready"
    /\ \/ Return("failed")
       \/ parent /\ Return("cancelled")
       \/ ~parent /\ pc' = "starting" /\ UNCHANGED status
    /\ UNCHANGED <<ctxVars, procVars, ioVars>>

StartFails ==
    /\ pc = "starting"
    /\ Return(IF ctxErr # "nil" THEN StatusForContextError(ctxErr) ELSE "failed")
    /\ UNCHANGED <<ctxVars, procVars, ioVars>>

(* cmd.Start refuses a context that has ended; otherwise it starts the      *)
(* process and the goroutine that watches the context.                     *)
StartProcess ==
    /\ pc = "starting"
    /\ ctxErr = "nil"
    /\ pc' = "attaching"
    /\ proc' = "running"
    /\ watch' = "armed"
    /\ copier' = [s \in Streams |-> "reading"]
    /\ UNCHANGED <<ctxVars, exited, child, attached, terminated, applied, gate,
                   unread, total, first, ioError, events, status>>

Attach ==
    /\ pc = "attaching"
    /\ pc' = "announcing"
    /\ attached' = TRUE
    /\ UNCHANGED <<ctxVars, proc, exited, child, terminated, applied, watch, ioVars, status>>

(* afterStart fails on Windows only, where the process was created suspended *)
(* and has done nothing yet.                                               *)
AttachFails ==
    /\ pc = "attaching"
    /\ ~exited /\ child = "none" /\ \A s \in Streams : unread[s] = 0
    /\ \A s \in Streams : copier[s] = "reading"
    /\ pc' = "abandoned"
    /\ gate' = TRUE
    /\ CancelGroup
    /\ UNCHANGED <<ctxVars, exited, attached, applied, watch, copier, unread, total,
                   first, ioError, events, status>>

Announce ==
    /\ pc = "announcing"
    /\ first = "none"
    /\ events' = Append(events, "started")
    /\ gate' = TRUE
    /\ pc' = "waiting"
    /\ UNCHANGED <<ctxVars, procVars, copier, unread, total, first, ioError, status>>

(* cancelExecution: cancel the context and kill the group. *)
CancelExecution ==
    /\ ctxErr' = IF ctxErr = "nil" THEN "canceled" ELSE ctxErr
    /\ applied' = (applied \/ Cancellable \/ terminated)
    /\ CancelGroup

(* The gate is opened all the same, or Wait would wait for blocked writers. *)
AnnounceFails ==
    /\ pc = "announcing"
    /\ first' = "sink"
    /\ CancelExecution
    /\ gate' = TRUE
    /\ pc' = "abandoned"
    /\ UNCHANGED <<parent, exited, attached, watch, copier, unread, total, ioError,
                   events, status>>

-----------------------------------------------------------------------------
(* os/exec and the vendor process (external) *)

(* The context goroutine calls cmd.Cancel once the context has ended. *)
WatchFires ==
    /\ watch = "armed"
    /\ ctxErr # "nil"
    /\ watch' = "fired"
    /\ CancelGroup
    /\ applied' = (applied \/ Cancellable \/ terminated)
    /\ UNCHANGED <<pc, ctxVars, exited, attached, ioVars, status>>

ProcessExits ==
    /\ proc = "running"
    /\ proc' = "zombie"
    /\ exited' = TRUE
    /\ UNCHANGED <<pc, ctxVars, child, attached, terminated, applied, watch, ioVars, status>>

ProcessForks ==
    /\ proc = "running"
    /\ child = "none"
    /\ child' = "alive"
    /\ UNCHANGED <<pc, ctxVars, proc, exited, attached, terminated, applied, watch,
                   ioVars, status>>

Writing == proc = "running" \/ child = "alive"

ProcessWrites(s) ==
    /\ Writing
    /\ unread[s] < MaxPending
    /\ total[s] + unread[s] <= MaxOutput
    /\ unread' = [unread EXCEPT ![s] = @ + 1]
    /\ UNCHANGED <<pc, ctxVars, procVars, gate, copier, total, first, ioError, events, status>>

(* Process.Wait returns. *)
Reap ==
    /\ pc \in {"waiting", "abandoned"}
    /\ proc = "zombie"
    /\ proc' = "reaped"
    /\ pc' = IF pc = "waiting" THEN "joining" ELSE "abandoned-joining"
    /\ UNCHANGED <<ctxVars, exited, child, attached, terminated, applied, watch,
                   ioVars, status>>

Joining == pc \in {"joining", "abandoned-joining"}

(* Wait tells an idle context goroutine to stop. *)
WatchStops ==
    /\ Joining
    /\ watch = "armed"
    /\ watch' = "off"
    /\ UNCHANGED <<pc, ctxVars, proc, exited, child, attached, terminated, applied,
                   ioVars, status>>

(* WaitDelay has passed: the pipes are closed under the readers. *)
WaitDelayExpires ==
    /\ Joining
    /\ watch # "armed"
    /\ \E s \in Streams : copier[s] = "reading"
    /\ copier' = [s \in Streams |-> IF copier[s] = "reading" THEN "ended" ELSE copier[s]]
    /\ UNCHANGED <<pc, ctxVars, procVars, gate, unread, total, first, ioError, events, status>>

(* Copying the standard input failed and the process exited with code 0:   *)
(* only then does Wait report the copying error.                           *)
CopyFails ==
    /\ pc = "joining"
    /\ exited
    /\ ~ioError
    /\ ioError' = TRUE
    /\ UNCHANGED <<pc, ctxVars, procVars, gate, copier, unread, total, first, events, status>>

-----------------------------------------------------------------------------
(* The copying goroutines: eventWriter.Write and streamState *)

ReadPipe(s) ==
    /\ copier[s] = "reading"
    /\ \/ unread[s] > 0 /\ copier' = [copier EXCEPT ![s] = "writing"]
       \/ unread[s] = 0 /\ ~Writing /\ copier' = [copier EXCEPT ![s] = "ended"]
    /\ UNCHANGED <<pc, ctxVars, procVars, gate, unread, total, first, ioError, events, status>>

Room(s) == MaxOutput - total[s]

(* How much of a write is delivered: up to the limit. *)
Kept(s) == IF unread[s] > Room(s) THEN Room(s) ELSE unread[s]

(* The first failure is kept, ends the stream and cancels the execution. *)
StopStream(s, reason) ==
    /\ first' = reason
    /\ copier' = [copier EXCEPT ![s] = "ended"]
    /\ CancelExecution

Deliver(s) ==
    /\ copier[s] = "writing"
    /\ gate
    /\ first = "none"
    /\ total' = [total EXCEPT ![s] = @ + Kept(s)]
    /\ events' = IF Kept(s) > 0 THEN Append(events, "output") ELSE events
    /\ unread' = [unread EXCEPT ![s] = 0]
    /\ IF unread[s] > Room(s)
       THEN StopStream(s, "limit")
       ELSE /\ copier' = [copier EXCEPT ![s] = "reading"]
            /\ UNCHANGED <<first, ctxErr, applied, terminated, proc, child>>
    /\ UNCHANGED <<pc, parent, exited, attached, watch, gate, ioError, status>>

SinkFails(s) ==
    /\ copier[s] = "writing"
    /\ gate
    /\ first = "none"
    /\ Kept(s) > 0
    /\ total' = [total EXCEPT ![s] = @ + Kept(s)]
    /\ unread' = [unread EXCEPT ![s] = 0]
    /\ StopStream(s, "sink")
    /\ UNCHANGED <<pc, parent, exited, attached, watch, gate, ioError, events, status>>

(* After a failure nothing more is delivered. *)
Discard(s) ==
    /\ copier[s] = "writing"
    /\ gate
    /\ first # "none"
    /\ total' = [total EXCEPT ![s] = @ + Kept(s)]
    /\ unread' = [unread EXCEPT ![s] = 0]
    /\ copier' = [copier EXCEPT ![s] = "ended"]
    /\ UNCHANGED <<pc, ctxVars, procVars, gate, first, ioError, events, status>>

-----------------------------------------------------------------------------
(* Run, after Wait *)

Joined == watch # "armed" /\ \A s \in Streams : copier[s] = "ended"

(* attach or the started event had failed *)
Abandon ==
    /\ pc = "abandoned-joining"
    /\ Joined
    /\ CloseGroup
    /\ Return(IF first = "none" /\ ctxErr # "nil" THEN StatusForContextError(ctxErr)
                                                  ELSE "failed")
    /\ UNCHANGED <<ctxVars, proc, exited, attached, terminated, applied, watch, ioVars>>

(* Mutant: a context that ended late beats the exit of the process. *)
Verdict_ContextFirst ==
    IF first # "none" THEN "failed"
    ELSE IF ctxErr # "nil" THEN StatusForContextError(ctxErr)
    ELSE IF ioError THEN "failed" ELSE "exited"

(* Stream failures come first, then an applied cancellation, then the exit. *)
Verdict ==
    IF first # "none" THEN "failed"
    ELSE IF applied THEN StatusForContextError(ctxErr)
    ELSE IF ioError THEN "failed" ELSE "exited"

(* The terminal event is not delivered after a stream failure.  The sink    *)
(* may refuse it, which fails the run only if the process had exited.      *)
Finish ==
    /\ pc = "joining"
    /\ Joined
    /\ CloseGroup
    /\ \/ /\ Return(Verdict)
          /\ events' = IF first = "none" THEN Append(events, Verdict) ELSE events
       \/ /\ first = "none"
          /\ Return(IF Verdict = "exited" THEN "failed" ELSE Verdict)
          /\ UNCHANGED events
    /\ UNCHANGED <<ctxVars, proc, exited, attached, terminated, applied, watch,
                   gate, copier, unread, total, first, ioError>>

-----------------------------------------------------------------------------
(* The caller and the clock *)

ParentCancelled ==
    /\ ~parent
    /\ pc # "done"
    /\ parent' = TRUE
    /\ ctxErr' = IF pc # "ready" /\ ctxErr = "nil" THEN "canceled" ELSE ctxErr
    /\ UNCHANGED <<pc, procVars, ioVars, status>>

DeadlineExpires ==
    /\ pc \notin {"ready", "done"}
    /\ ctxErr = "nil"
    /\ ctxErr' = "deadline"
    /\ UNCHANGED <<pc, parent, procVars, ioVars, status>>

Returned ==
    /\ pc = "done"
    /\ UNCHANGED vars

Init ==
    /\ pc = "ready"
    /\ parent \in BOOLEAN
    /\ ctxErr = "nil"
    /\ proc = "none"
    /\ exited = FALSE
    /\ child = "none"
    /\ watch = "off"
    /\ attached = FALSE
    /\ terminated = FALSE
    /\ applied = FALSE
    /\ gate = FALSE
    /\ copier = [s \in Streams |-> "ended"]
    /\ unread = [s \in Streams |-> 0]
    /\ total = [s \in Streams |-> 0]
    /\ first = "none"
    /\ ioError = FALSE
    /\ events = <<>>
    /\ status = "none"

RunStep ==
    \/ Prepare \/ StartFails \/ StartProcess \/ Attach \/ AttachFails
    \/ Announce \/ AnnounceFails \/ Reap \/ Abandon \/ Finish

CopyStep(s) == ReadPipe(s) \/ Deliver(s) \/ SinkFails(s) \/ Discard(s)

Next ==
    \/ RunStep
    \/ WatchFires \/ WatchStops \/ WaitDelayExpires \/ CopyFails
    \/ ProcessExits \/ ProcessForks
    \/ \E s \in Streams : ProcessWrites(s) \/ CopyStep(s)
    \/ ParentCancelled \/ DeadlineExpires
    \/ Returned

(* Go schedules its goroutines, timers fire, SIGKILL is delivered.  The     *)
(* process itself owes nothing: it may hang, fork and write for ever.      *)
Fairness ==
    /\ WF_vars(RunStep)
    /\ WF_vars(WatchFires)
    /\ WF_vars(WatchStops)
    /\ WF_vars(WaitDelayExpires)
    /\ WF_vars(DeadlineExpires)
    /\ \A s \in Streams : WF_vars(CopyStep(s))

Spec == Init /\ [][Next]_vars
FairSpec == Spec /\ Fairness

-----------------------------------------------------------------------------
(* Properties *)

(* Every variable keeps its type. *)
TypeOK ==
    /\ pc \in {"ready", "starting", "attaching", "announcing", "waiting", "joining",
              "abandoned", "abandoned-joining", "done"}
    /\ parent \in BOOLEAN
    /\ ctxErr \in {"nil", "canceled", "deadline"}
    /\ proc \in {"none", "running", "zombie", "reaped"}
    /\ exited \in BOOLEAN
    /\ child \in {"none", "alive", "dead"}
    /\ watch \in {"off", "armed", "fired"}
    /\ attached \in BOOLEAN /\ terminated \in BOOLEAN /\ applied \in BOOLEAN
    /\ gate \in BOOLEAN
    /\ copier \in [Streams -> {"reading", "writing", "ended"}]
    /\ unread \in [Streams -> 0 .. MaxPending]
    /\ total \in [Streams -> Nat]
    /\ first \in {"none", "sink", "limit"}
    /\ ioError \in BOOLEAN
    /\ events \in Seq({"started", "output"} \cup TerminalEvents)
    /\ status \in {"none"} \cup TerminalEvents

(* A reader of the events sees the started event before any output, nothing *)
(* after a terminal event, and the terminal event only if it is the status *)
(* that Run returns; a clean exit is always announced.                     *)
EventLog ==
    /\ events # <<>> => events[1] = "started"
    /\ \A i \in DOMAIN events : events[i] \in TerminalEvents
           => i = Len(events) /\ status = events[i]
    /\ status = "exited" => events # <<>> /\ events[Len(events)] = "exited"

(* Each stream delivers at most MaxOutput, and when a run fails for its    *)
(* output everything up to the limit has been delivered.                   *)
OutputKeptToLimit ==
    /\ \A s \in Streams : total[s] <= MaxOutput
    /\ first = "limit" => \E s \in Streams : total[s] = MaxOutput

(* A run is reported as exited only if the process ended by itself, and as *)
(* cancelled or timed out only if it was really killed or never started: a *)
(* deadline that passes while Wait collects a finished process changes     *)
(* nothing.                                                                *)
VerdictTruthful ==
    /\ status = "exited" => exited
    /\ status \in {"cancelled", "timed-out"} => terminated \/ proc = "none"
    /\ status = "timed-out" => ctxErr = "deadline"

(* What a run reports is what happened: its events are well formed, its     *)
(* output is complete up to the limit, its verdict is the process's own     *)
(* unless the process was really killed.                                    *)
RunIsTruthful == TypeOK /\ EventLog /\ OutputKeptToLimit /\ VerdictTruthful

(* When Run returns, neither the process nor a descendant of its group is  *)
(* alive, and no writer can call the sink any more.                        *)
NothingLeftRunning ==
    pc = "done" => /\ proc \in {"none", "reaped"}
                   /\ child # "alive"
                   /\ \A s \in Streams : copier[s] = "ended"

(* Run returns, whatever the process does: hang, fork, hold its pipes open *)
(* or flood them, and wherever the sink fails.                             *)
RunReturns == <>(pc = "done")
=============================================================================
