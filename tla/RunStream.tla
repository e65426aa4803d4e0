----------------------------- MODULE RunStream ------------------------------
(***************************************************************************)
(* How a browser page follows one run: the event log of the run manager    *)
(* (recordEvent, WaitEvents), the server-sent events handler of            *)
(* internal/server/run_api.go, and the client of web/src/api/runs.ts and   *)
(* web/src/App.tsx with its reconnects, its snapshot reconciliation and    *)
(* its retry budget.                                                       *)
(*                                                                         *)
(* An event is its sequence number.  A connection may drop at any moment,  *)
(* answers to GET and cancel requests may overtake or lag the stream, and  *)
(* a finished run may be evicted while somebody still reads it.            *)
(***************************************************************************)
EXTENDS Integers, Sequences, FiniteSets

CONSTANTS
    Viewers,            \* pages that show the run
    MaxEvents,          \* bound of the event log
    MaxStreams,         \* maxEventStreams
    MaxStreamFailures,  \* maxStreamFailures of runs.ts
    Outcomes            \* the terminal statuses a run can end with

ASSUME StreamAssumption ==
    /\ MaxEvents \in Nat /\ MaxStreams \in Nat \ {0}
    /\ MaxStreamFailures \in Nat \ {0}
    /\ "running" \notin Outcomes

VARIABLES
    log,        \* record.nextSeq: events 1 .. log are retained
    gen,        \* identity of record.changed: replaced by every signal
    status,     \* record.status
    retained,   \* the record is still in Manager.runs
    conn,       \* the handler of each viewer and what it has sent
    slots,      \* occupied entries of runStreamSlots
    stale,      \* handlers whose client is gone but that hold their slot
    page        \* the state of each page

runVars == <<log, gen, status, retained>>
vars == <<runVars, conn, slots, stale, page>>

NoConn == [state |-> "none", cursor |-> 0, gen |-> 0, batch |-> <<>>,
           opened |-> FALSE, wire |-> <<>>]

(* A request of the page and its answer; only an answer carries a snapshot. *)
Reply(state) == [state |-> state, status |-> "running", count |-> 0]

Replies == [state : {"none", "asked", "snapshot", "not-found", "answered"},
            status : Outcomes \cup {"running"}, count : 0 .. MaxEvents]

(* A page right after createRun: it has subscribed and seen nothing. *)
NewPage == [status |-> "running", events |-> <<>>, last |-> 0, retained |-> TRUE,
            stream |-> "connecting", source |-> "connecting", subLast |-> 0,
            lastId |-> 0, failures |-> 0, fetch |-> Reply("none"),
            cancel |-> Reply("none")]

Frames == [kind : {"open", "eof"}] \cup [kind : {"event"}, seq : 1 .. MaxEvents]
          \cup [kind : {"complete"}, seq : 0 .. MaxEvents, status : Outcomes]

-----------------------------------------------------------------------------
(* The manager's side *)

(* recordEvent: only while the run is active; every event wakes the waiters. *)
RecordEvent ==
    /\ status = "running"
    /\ log < MaxEvents
    /\ log' = log + 1
    /\ gen' = gen + 1
    /\ UNCHANGED <<status, retained, conn, slots, stale, page>>

(* Mutant: the outcome is published without waking the waiters. *)
FinishRun_Silent ==
    /\ status = "running"
    /\ status' \in Outcomes
    /\ UNCHANGED <<log, gen, retained, conn, slots, stale, page>>

(* The last critical section of execute. *)
FinishRun ==
    /\ status = "running"
    /\ status' \in Outcomes
    /\ gen' = gen + 1
    /\ UNCHANGED <<log, retained, conn, slots, stale, page>>

(* makeRetentionRoomLocked, for another run. *)
EvictRun ==
    /\ status # "running"
    /\ retained
    /\ retained' = FALSE
    /\ UNCHANGED <<log, gen, status, conn, slots, stale, page>>

-----------------------------------------------------------------------------
(* handleRunEvents *)

Handlers == {v \in Viewers : conn[v].state # "none"}

SlotFree == slots < MaxStreams

(* The browser (re)connects with Last-Event-ID; the handler takes a slot. *)
Accept(v) ==
    /\ page[v].source = "connecting"
    /\ conn[v].state = "none" /\ conn[v].wire = <<>>
    /\ SlotFree
    /\ slots' = slots + 1
    /\ conn' = [conn EXCEPT ![v] = [NoConn EXCEPT !.state = "reading",
                                                  !.cursor = page[v].lastId]]
    /\ UNCHANGED <<runVars, stale, page>>

EventFrame(n) == [kind |-> "event", seq |-> n]

(* Mutant: the batch of a finished run carries the completion alone. *)
Batch_CompletionOnly(cursor) ==
    IF status # "running" THEN <<[kind |-> "complete", seq |-> cursor, status |-> status]>>
    ELSE [i \in 1 .. log - cursor |-> EventFrame(cursor + i)]

(* The batch that WaitEvents returns for a cursor, as frames. *)
Batch(cursor) ==
    [i \in 1 .. log - cursor |-> EventFrame(cursor + i)] \o
    (IF status = "running" THEN <<>>
     ELSE <<[kind |-> "complete", seq |-> log, status |-> status]>>)

(* The first frame of a response tells the client that it is open. *)
Opening(c) == IF c.opened THEN <<>> ELSE <<[kind |-> "open"]>>

(* WaitEvents under the mutex: answer, or remember the channel to wait on. *)
ReadRecord(v) ==
    LET c == conn[v] IN
    /\ c.state = "reading"
    /\ retained
    /\ conn' = [conn EXCEPT ![v] =
           IF Batch(c.cursor) # <<>>
           THEN [c EXCEPT !.state = "writing", !.batch = Batch(c.cursor),
                          !.opened = TRUE, !.wire = @ \o Opening(c)]
           ELSE [c EXCEPT !.state = "waiting", !.gen = gen]]
    /\ UNCHANGED <<runVars, slots, stale, page>>

(* The channel was closed by a signal. *)
Wake(v) ==
    /\ conn[v].state = "waiting"
    /\ conn[v].gen # gen
    /\ conn' = [conn EXCEPT ![v].state = "reading"]
    /\ UNCHANGED <<runVars, slots, stale, page>>

(* The heartbeat interval ends a wait; the handler waits again. *)
Heartbeat(v) ==
    LET c == conn[v] IN
    /\ c.state = "waiting"
    /\ conn' = [conn EXCEPT ![v] = [c EXCEPT !.state = "reading", !.opened = TRUE,
                                             !.wire = @ \o Opening(c)]]
    /\ UNCHANGED <<runVars, slots, stale, page>>

(* writeSSEBatch, frame by frame; the completion ends the response. *)
WriteFrame(v) ==
    LET c     == conn[v]
        frame == Head(c.batch)
        rest  == Tail(c.batch)
    IN  /\ c.state = "writing"
        /\ conn' = [conn EXCEPT ![v] =
               IF frame.kind = "complete"
               THEN [NoConn EXCEPT !.wire = c.wire \o <<frame, [kind |-> "eof"]>>]
               ELSE [c EXCEPT !.state = IF rest = <<>> THEN "reading" ELSE "writing",
                              !.batch = rest, !.cursor = frame.seq,
                              !.wire = Append(@, frame)]]
        /\ slots' = IF frame.kind = "complete" THEN slots - 1 ELSE slots
        /\ UNCHANGED <<runVars, stale, page>>

(* The record is gone: an open response just ends. *)
RecordGone(v) ==
    /\ conn[v].state = "reading"
    /\ ~retained
    /\ conn[v].opened
    /\ conn' = [conn EXCEPT ![v] = [NoConn EXCEPT !.wire = Append(conn[v].wire, [kind |-> "eof"])]]
    /\ slots' = slots - 1
    /\ UNCHANGED <<runVars, stale, page>>

(* A handler whose client went away gives its slot back. *)
StaleEnds ==
    /\ stale > 0
    /\ stale' = stale - 1
    /\ slots' = slots - 1
    /\ UNCHANGED <<runVars, conn, page>>

-----------------------------------------------------------------------------
(* The page: subscribeRunEvents and the run view *)

(* The effect is cleaned up: the stream is closed, a fetch is aborted. *)
Unsubscribed(p) == [p EXCEPT !.source = "closed", !.fetch = Reply("none")]

Hangup(v) ==
    /\ conn' = [conn EXCEPT ![v] = NoConn]
    /\ stale' = IF conn[v].state = "none" THEN stale ELSE stale + 1

(* onError of the subscription: stop, and ask for an authoritative snapshot. *)
StreamError(p) == [p EXCEPT !.source = "closed", !.stream = "stopped",
                                !.fetch = Reply("asked")]

(* source.onerror: reconnect while the budget lasts. *)
Disconnected(p) ==
    IF p.failures + 1 < MaxStreamFailures
    THEN [p EXCEPT !.failures = @ + 1, !.source = "connecting"]
    ELSE StreamError(p)

AppendRunEvent(p, n) ==
    IF n <= p.last THEN p ELSE [p EXCEPT !.events = Append(@, n), !.last = n]

(* handleEvent: the subscription accepts the next number only. *)
HandleEvent(p, n) ==
    LET q == [p EXCEPT !.lastId = n]
    IN  IF n <= p.subLast THEN q
        ELSE IF n # p.subLast + 1 THEN StreamError(q)
        ELSE AppendRunEvent([q EXCEPT !.subLast = n, !.failures = 0], n)

(* handleComplete and completeRun. *)
HandleComplete(p, frame) ==
    IF frame.seq # p.subLast THEN StreamError(p)
    ELSE Unsubscribed([p EXCEPT !.status = frame.status, !.stream = "idle",
                                !.last = IF frame.seq > @ THEN frame.seq ELSE @])

(* Mutant: an open connection counts as progress. *)
HandleOpen_Resets(p) == [p EXCEPT !.stream = "connected", !.failures = 0]

HandleOpen(p) == [p EXCEPT !.stream = "connected"]

Handle(p, frame) ==
    CASE frame.kind = "open"     -> HandleOpen(p)
      [] frame.kind = "event"    -> HandleEvent(p, frame.seq)
      [] frame.kind = "complete" -> HandleComplete(p, frame)
      [] frame.kind = "eof"      -> Disconnected(p)

(* A page that closes its source hangs up: the rest of the wire is lost. *)
Receive(v) ==
    LET p == Handle(page[v], Head(conn[v].wire)) IN
    /\ page[v].source = "connecting"
    /\ conn[v].wire # <<>>
    /\ page' = [page EXCEPT ![v] = p]
    /\ IF p.source = "closed" THEN Hangup(v)
       ELSE conn' = [conn EXCEPT ![v].wire = Tail(@)] /\ UNCHANGED stale
    /\ UNCHANGED <<runVars, slots>>

(* The connection breaks. *)
Drop(v) ==
    /\ page[v].source = "connecting"
    /\ conn[v] # NoConn
    /\ Hangup(v)
    /\ page' = [page EXCEPT ![v] = Disconnected(page[v])]
    /\ UNCHANGED <<runVars, slots>>

(* 429 without a slot, 404 for an evicted run: an EventSource that gets an *)
(* error status is closed for good.                                        *)
Reject(v) ==
    /\ page[v].source = "connecting"
    /\ \/ conn[v] = NoConn /\ ~SlotFree /\ UNCHANGED slots
       \/ conn[v].state = "reading" /\ ~retained /\ ~conn[v].opened /\ slots' = slots - 1
    /\ conn' = [conn EXCEPT ![v] = NoConn]
    /\ page' = [page EXCEPT ![v] = StreamError(page[v])]
    /\ UNCHANGED <<runVars, stale>>

(* GET of the run, and Get after Cancel, answer with the current snapshot. *)
Answer == IF retained THEN [state |-> "snapshot", status |-> status, count |-> log]
          ELSE Reply("not-found")

ServeFetch(v) ==
    /\ page[v].fetch.state = "asked"
    /\ page' = [page EXCEPT ![v].fetch = Answer]
    /\ UNCHANGED <<runVars, conn, slots, stale>>

(* Any other failure of the request: the view stays stopped. *)
FetchFails(v) ==
    /\ page[v].fetch.state = "asked"
    /\ page' = [page EXCEPT ![v].fetch = Reply("none")]
    /\ UNCHANGED <<runVars, conn, slots, stale>>

(* Mutants: a late answer is believed. *)
Reconcile_Reopens(p, snap) ==
    IF ~p.retained \/ (snap.status = "running" /\ snap.count < p.last) THEN p
    ELSE [p EXCEPT !.status = snap.status, !.events = [i \in 1 .. snap.count |-> i],
                   !.last = IF snap.count > @ THEN snap.count ELSE @]

(* reconcileRunSnapshot: a snapshot never undoes what the page has seen. *)
Reconcile(p, snap) ==
    IF \/ ~p.retained
       \/ p.status # "running" /\ snap.status # p.status
       \/ snap.status = "running" /\ snap.count < p.last
    THEN p
    ELSE [p EXCEPT !.status = snap.status, !.events = [i \in 1 .. snap.count |-> i],
                   !.last = IF snap.count > @ THEN snap.count ELSE @,
                   !.stream = IF snap.status = "running" THEN @ ELSE "idle"]

(* run_not_found: the page keeps what it has and stops following the run. *)
Answered(p, reply) ==
    IF reply.state = "not-found" THEN [p EXCEPT !.retained = FALSE, !.stream = "stopped"]
    ELSE Reconcile(p, reply)

(* A page that ends its subscription in reaction to an answer hangs up. *)
Settle(v, p) ==
    IF p.source # "closed" /\ (p.status # "running" \/ ~p.retained)
    THEN page' = [page EXCEPT ![v] = Unsubscribed(p)] /\ Hangup(v)
    ELSE page' = [page EXCEPT ![v] = p] /\ UNCHANGED <<conn, stale>>

ReceiveFetch(v) ==
    LET p == [page[v] EXCEPT !.fetch = Reply("none")] IN
    /\ page[v].fetch.state \in {"snapshot", "not-found"}
    /\ Settle(v, Answered(p, page[v].fetch))
    /\ UNCHANGED <<runVars, slots>>

(* cancelActiveRun *)
AskCancel(v) ==
    /\ page[v].cancel.state = "none"
    /\ page[v].retained
    /\ page[v].status = "running"
    /\ page' = [page EXCEPT ![v].cancel = Reply("asked")]
    /\ UNCHANGED <<runVars, conn, slots, stale>>

ServeCancel(v) ==
    /\ page[v].cancel.state = "asked"
    /\ page' = [page EXCEPT ![v].cancel = Answer]
    /\ UNCHANGED <<runVars, conn, slots, stale>>

(* Any other failure of the request: the operator may ask again. *)
CancelFails(v) ==
    /\ page[v].cancel.state = "asked"
    /\ page' = [page EXCEPT ![v].cancel = Reply("none")]
    /\ UNCHANGED <<runVars, conn, slots, stale>>

(* cancelRequested stays set when the answer is a running snapshot. *)
ReceiveCancel(v) ==
    LET p == [page[v] EXCEPT !.cancel = Reply("answered")] IN
    /\ page[v].cancel.state \in {"snapshot", "not-found"}
    /\ Settle(v, Answered(p, page[v].cancel))
    /\ UNCHANGED <<runVars, slots>>

(* retryLiveStream: a new subscription, which replays from the start. *)
RetryStream(v) ==
    /\ page[v].stream = "stopped"
    /\ page[v].retained
    /\ page[v].status = "running"
    /\ conn[v] = NoConn
    /\ page' = [page EXCEPT ![v] = [@ EXCEPT !.stream = "connecting", !.source = "connecting",
                                             !.subLast = 0, !.lastId = 0, !.failures = 0,
                                             !.fetch = Reply("none")]]
    /\ UNCHANGED <<runVars, conn, slots, stale>>

-----------------------------------------------------------------------------
Init ==
    /\ log = 0
    /\ gen = 0
    /\ status = "running"
    /\ retained = TRUE
    /\ conn = [v \in Viewers |-> NoConn]
    /\ slots = 0
    /\ stale = 0
    /\ page = [v \in Viewers |-> NewPage]

ServerStep(v) ==
    \/ Accept(v) \/ ReadRecord(v) \/ Wake(v) \/ WriteFrame(v) \/ RecordGone(v)

ClientStep(v) ==
    \/ Receive(v) \/ Reject(v) \/ ServeFetch(v) \/ ReceiveFetch(v)
    \/ ServeCancel(v) \/ ReceiveCancel(v)

Next ==
    \/ RecordEvent \/ FinishRun \/ EvictRun \/ StaleEnds
    \/ \E v \in Viewers :
           \/ ServerStep(v) \/ ClientStep(v)
           \/ Heartbeat(v) \/ Drop(v) \/ FetchFails(v) \/ CancelFails(v)
           \/ AskCancel(v) \/ RetryStream(v)

(* Handlers and pages keep working; the network, the operator, the run and *)
(* the retention of other runs owe nothing.                                *)
Fairness ==
    /\ WF_vars(StaleEnds)
    /\ \A v \in Viewers :
           /\ WF_vars(ServerStep(v))
           /\ WF_vars(ClientStep(v))

Spec == Init /\ [][Next]_vars
FairSpec == Spec /\ Fairness

-----------------------------------------------------------------------------
(* Properties *)

(* Every variable keeps its type. *)
TypeOK ==
    /\ log \in 0 .. MaxEvents
    /\ gen \in Nat
    /\ status \in Outcomes \cup {"running"}
    /\ retained \in BOOLEAN
    /\ slots \in 0 .. MaxStreams
    /\ stale \in 0 .. MaxStreams
    /\ conn \in [Viewers -> [state : {"none", "reading", "waiting", "writing"},
                             cursor : 0 .. MaxEvents, gen : Nat, batch : Seq(Frames),
                             opened : BOOLEAN, wire : Seq(Frames)]]
    /\ page \in [Viewers -> [status : Outcomes \cup {"running"}, events : Seq(1 .. MaxEvents),
                             last : 0 .. MaxEvents, retained : BOOLEAN,
                             stream : {"connecting", "connected", "stopped", "idle"},
                             source : {"connecting", "closed"}, subLast : 0 .. MaxEvents,
                             lastId : 0 .. MaxEvents, failures : 0 .. MaxStreamFailures - 1,
                             fetch : Replies, cancel : Replies]]

(* A page always shows a prefix of the log without gap or duplicate, through *)
(* reconnects, replays, and snapshots that overtake or lag the stream.     *)
ViewIsPrefix ==
    \A v \in Viewers :
        /\ page[v].events = [i \in 1 .. page[v].last |-> i]
        /\ page[v].last <= log

(* A page that says a run is over shows its real outcome and all its output. *)
FinishedViewIsComplete ==
    \A v \in Viewers : page[v].status # "running"
        => page[v].status = status /\ page[v].last = log

(* What a page shows is true at every moment, and complete once it says    *)
(* that the run is over.                                                   *)
ViewFaithful == TypeOK /\ ViewIsPrefix /\ FinishedViewIsComplete

(* A handler that waits on the current channel has sent all there is: no    *)
(* event or completion is missed between reading the log and waiting.      *)
NoMissedWakeup ==
    \A v \in Viewers : conn[v].state = "waiting" /\ conn[v].gen = gen
        => conn[v].cursor = log /\ status = "running"

(* Every occupied slot belongs to a handler that still runs, whichever way *)
(* the others ended: no return path of handleRunEvents leaks one.          *)
SlotsAccounted == slots = Cardinality(Handlers) + stale

(* No viewer is starved: a waiting handler is woken by whatever comes next, *)
(* and a handler that ended gave its slot back.                             *)
StreamServed == NoMissedWakeup /\ SlotsAccounted

(* What a page has shown as final is never taken back by a late answer. *)
FinishedViewStays ==
    [][\A v \in Viewers : page[v].status # "running"
           => page'[v].status = page[v].status /\ page'[v].last = page[v].last]_vars

(* Once the run is over every page learns of it or tells the operator that *)
(* it lost the stream, although connections may drop for ever.             *)
PageSettles ==
    \A v \in Viewers : (status # "running")
        ~> (page[v].status # "running" \/ page[v].stream = "stopped")
=============================================================================
