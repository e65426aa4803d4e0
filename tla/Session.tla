------------------------------- MODULE Session -------------------------------
(***************************************************************************)
(* The life of the program (app.go) around its loopback server and the one *)
(* browser session it grants (server.go, recover.go): startup and every    *)
(* way it can fail, the exchange of the one-time link for a cookie, the    *)
(* boundary each request passes, handlers that panic, and a shutdown that  *)
(* drains handlers and runs before the mutation journal is closed.         *)
(*                                                                         *)
(* Tokens are modelled by the start that generated them: a cookie or CSRF  *)
(* token of an earlier start is sent to a later one, which listens on the  *)
(* same address.                                                           *)
(***************************************************************************)
EXTENDS Naturals, FiniteSets

CONSTANTS
    Pages,          \* pages that send requests, one at a time each
    BrowserOf,      \* the browser a page is open in
    Own,            \* pages of CLIHarbor's own origin
    TTL,            \* bootstrapExpires
    MaxTime, MaxStarts, MaxRuns     \* bounds of the model

ASSUME SessionAssumption ==
    /\ BrowserOf \in [Pages -> {BrowserOf[c] : c \in Pages}] /\ Own \subseteq Pages
    /\ TTL \in Nat /\ MaxTime \in Nat /\ MaxStarts \in Nat \ {0} /\ MaxRuns \in Nat

Browsers == {BrowserOf[c] : c \in Pages}

VARIABLES
    pc,         \* where app.Run is
    start,      \* the number of this start
    ctx,        \* "live" or "done": the signal context
    clock,      \* time since the link was made
    consumed,   \* bootstrapConsumed
    manager,    \* the run manager: "none", "open", "closed"
    journal,    \* the mutation journal: "none", "open", "closed"
    listener,   \* "none", "bound", "serving", "closed"
    runs,       \* runs that were approved in the journal and have no outcome there
    link,       \* the start whose link a browser has, by browser
    jar,        \* the start whose session cookie it has
    csrf,       \* the start whose CSRF token a page has read
    req,        \* each page's request
    forced,     \* a deadline passed at shutdown, or Serve failed
    lost,       \* an outcome met a closed journal
    grants      \* cookies set by this start: browser and time

vars == <<pc, start, ctx, clock, consumed, manager, journal, listener, runs, link, jar, csrf,
          req, forced, lost, grants>>
world == <<clock, link, jar, csrf, grants, consumed>>
life == <<pc, start, ctx, manager, journal, listener, forced>>

RequestStates == [pc : {"idle", "boundary", "exchange", "handler", "removing"},
                  kind : {"none", "bootstrap", "status", "run", "removal"},
                  answer : {"none", "redirect"}]

Idle == [pc |-> "idle", kind |-> "none", answer |-> "none"]

-----------------------------------------------------------------------------
(* app.Run *)

Goto(s) == pc' = s

(* Startup stops with an error.  Deferred: the journal is closed. *)
Fail == /\ Goto("returned")
        /\ journal' = IF journal = "open" THEN "closed" ELSE journal

(* prepareRuntime, then audittrail.Open; a cancelled context ends the first. *)
Prepare ==
    /\ pc = "prepare"
    /\ \/ ctx = "live" /\ journal' = "open" /\ Goto("manager")
       \/ Fail
    /\ UNCHANGED <<start, ctx, manager, listener, runs, req, forced, lost, world>>

(* The platforms and runs.NewManager. *)
NewManager ==
    /\ pc = "manager"
    /\ \/ manager' = "open" /\ Goto("listen") /\ UNCHANGED journal
       \/ Fail /\ UNCHANGED manager
    /\ UNCHANGED <<start, ctx, listener, runs, req, forced, lost, world>>

(* frontendHandler and server.New: tokens, then the listener.  An error     *)
(* goes through shutdownRuns.                                               *)
Listen ==
    /\ pc = "listen"
    /\ \/ listener' = "bound" /\ Goto("launch")
       \/ UNCHANGED listener /\ Goto("stop")
    /\ UNCHANGED <<start, ctx, manager, journal, runs, req, forced, lost, world>>

(* OpenBootstrap, or the printed URL, brings the link to a browser; when    *)
(* the status cannot be written the server is closed again.                 *)
Launch(b) ==
    /\ pc = "launch"
    /\ link' = [link EXCEPT ![b] = start]
    /\ \/ Goto("serve") /\ listener' = "serving"
       \/ Goto("stop") /\ listener' = "closed"
    /\ UNCHANGED <<start, ctx, clock, consumed, manager, journal, runs, jar, csrf, req, forced, lost, grants>>

Handling == {c \in Pages : req[c].pc # "idle"}

(* Server.Run: the context ends, event streams are cancelled and the server *)
(* accepts nothing more; or Serve fails and Run returns at once.            *)
StopServing ==
    /\ pc = "serve"
    /\ \/ ctx = "done" /\ Goto("drain") /\ UNCHANGED forced
       \/ Goto("stop") /\ forced' = TRUE
    /\ listener' = "closed"
    /\ UNCHANGED <<start, ctx, manager, journal, runs, req, lost, world>>

Drained == pc = "drain" /\ Handling = {}

(* Mutant: nobody waits for the handlers. *)
Drain_Skipped ==
    /\ pc = "drain"
    /\ Goto("stop")
    /\ UNCHANGED <<start, ctx, manager, journal, listener, runs, req, forced, lost, world>>

(* http.Server.Shutdown waits for the handlers. *)
Drain ==
    /\ Drained
    /\ Goto("stop")
    /\ UNCHANGED <<start, ctx, manager, journal, listener, runs, req, forced, lost, world>>

(* Mutant: the graceful shutdown has no deadline. *)
DrainTimeout_Never ==
    /\ pc = "drain" /\ FALSE
    /\ UNCHANGED vars

(* The deadline passes: connections are closed, handlers go on. *)
DrainTimeout ==
    /\ pc = "drain" /\ Handling # {}
    /\ Goto("stop") /\ forced' = TRUE
    /\ UNCHANGED <<start, ctx, manager, journal, listener, runs, req, lost, world>>

(* shutdownRuns *)
StopRuns ==
    /\ pc = "stop"
    /\ manager' = "closed" /\ Goto("wait")
    /\ UNCHANGED <<start, ctx, journal, listener, runs, req, forced, lost, world>>

RunsStopped ==
    /\ pc = "wait"
    /\ \/ runs = 0 /\ UNCHANGED forced
       \/ runs # 0 /\ forced' = TRUE    \* Manager.Shutdown's deadline
    /\ journal' = "closed" /\ Goto("returned")
    /\ UNCHANGED <<start, ctx, manager, listener, runs, req, lost, world>>

(* The process ends, its handlers and runs with it, and is started again.   *)
Restart ==
    /\ pc = "returned" /\ start < MaxStarts
    /\ pc' = "prepare" /\ start' = start + 1 /\ ctx' = "live" /\ clock' = 0
    /\ manager' = "none" /\ journal' = "none" /\ listener' = "none" /\ runs' = 0
    /\ consumed' = FALSE /\ forced' = FALSE /\ lost' = FALSE /\ grants' = {}
    /\ req' = [c \in Pages |-> Idle]
    /\ UNCHANGED <<link, jar, csrf>>

-----------------------------------------------------------------------------
(* Requests *)

Set(c, s) == req' = [req EXCEPT ![c] = s]
(* Of the answers only the redirect to the workspace is told apart. *)
Answer(c, a) == Set(c, [Idle EXCEPT !.answer = a])

(* External: a page sends a request, as long as the server accepts. *)
Send(c, kind) ==
    /\ req[c].pc = "idle" /\ listener = "serving" /\ pc = "serve"
    /\ Set(c, [Idle EXCEPT !.pc = "boundary", !.kind = kind])
    /\ UNCHANGED <<life, runs, lost, world>>

Changing(kind) == kind \in {"run", "removal"}

(* Mutant: a foreign page passes with the browser's cookie. *)
BoundaryOK_Cookie(c) == TRUE

(* validateRequestBoundary: the page's own origin and the CSRF token that   *)
(* GET /status returns.                                                     *)
BoundaryOK(c) == Changing(req[c].kind) => c \in Own /\ csrf[c] = start

(* requireSession: the cookie a browser sends along with every request. *)
SessionOK(c) == jar[BrowserOf[c]] = start

Boundary(c) ==
    /\ req[c].pc = "boundary"
    /\ IF ~BoundaryOK(c) THEN Answer(c, "none")
       ELSE IF req[c].kind = "bootstrap" THEN Set(c, [req[c] EXCEPT !.pc = "exchange"])
       ELSE IF SessionOK(c) THEN Set(c, [req[c] EXCEPT !.pc = "handler"])
       ELSE Answer(c, "none")
    /\ UNCHANGED <<life, runs, lost, world>>

(* Mutant: the link stays good until it expires. *)
MayExchange_Again(c) == clock < TTL /\ link[BrowserOf[c]] = start

MayExchange(c) == ~consumed /\ clock < TTL /\ link[BrowserOf[c]] = start

(* handleBootstrap, under the server's mutex. *)
handleBootstrap(c) ==
    /\ req[c].pc = "exchange"
    /\ IF MayExchange(c)
       THEN /\ consumed' = TRUE
            /\ jar' = [jar EXCEPT ![BrowserOf[c]] = start]
            /\ grants' = grants \cup {<<BrowserOf[c], clock>>}
            /\ Answer(c, "redirect")
       ELSE /\ Answer(c, IF consumed /\ SessionOK(c) THEN "redirect" ELSE "none")
            /\ UNCHANGED <<consumed, jar, grants>>
    /\ UNCHANGED <<life, runs, lost, clock, link, csrf>>

(* handleStatus, and every other GET, event streams too (cancelled with     *)
(* streamCtx): nothing changes, and only a page of the origin can read it.  *)
HandleRead(c) ==
    /\ req[c].pc = "handler" /\ req[c].kind = "status"
    /\ csrf' = IF c \in Own THEN [csrf EXCEPT ![c] = start] ELSE csrf
    /\ Answer(c, "none")
    /\ UNCHANGED <<life, runs, lost, clock, link, jar, grants, consumed>>

(* Manager.Start: journaled as approved, then executed in the background.   *)
StartRun(c) ==
    /\ req[c].pc = "handler" /\ req[c].kind = "run"
    /\ \/ manager = "open" /\ runs < MaxRuns /\ runs' = runs + 1 /\ Answer(c, "none")
       \/ Answer(c, "none") /\ UNCHANGED runs
    /\ UNCHANGED <<life, lost, world>>

(* A Terraform state removal journals its approval, works in the handler    *)
(* and journals its outcome there.                                          *)
BeginRemoval(c) ==
    /\ req[c].pc = "handler" /\ req[c].kind = "removal"
    /\ \/ journal = "open" /\ Set(c, [req[c] EXCEPT !.pc = "removing"])
       \/ Answer(c, "none")
    /\ UNCHANGED <<life, runs, lost, world>>

EndRemoval(c) ==
    /\ req[c].pc = "removing"
    /\ lost' = (lost \/ journal # "open")
    /\ Answer(c, "none")
    /\ UNCHANGED <<life, runs, world>>

(* A run ends and its outcome is journaled. *)
EndRun ==
    /\ runs > 0
    /\ runs' = runs - 1 /\ lost' = (lost \/ journal # "open")
    /\ UNCHANGED <<life, req, world>>

(* recoverPanics: a 500, or an aborted connection once the response has     *)
(* begun; the server goes on either way.                                    *)
Panic(c) ==
    /\ req[c].pc = "handler"
    /\ Answer(c, "none")
    /\ UNCHANGED <<life, runs, lost, world>>

-----------------------------------------------------------------------------
(* External: time, the signal, and a user who opens the link elsewhere. *)
Tick ==
    /\ pc = "serve" /\ clock < MaxTime /\ clock' = clock + 1
    /\ UNCHANGED <<life, runs, req, lost, link, jar, csrf, grants, consumed>>

Signal ==
    /\ pc # "returned" /\ ctx = "live"
    /\ ctx' = "done"
    /\ UNCHANGED <<pc, start, manager, journal, listener, runs, req, forced, lost, world>>

Share(b) ==
    /\ pc = "serve" /\ link[b] # start
    /\ link' = [link EXCEPT ![b] = start]
    /\ UNCHANGED <<life, runs, req, lost, clock, jar, csrf, grants, consumed>>

Init ==
    /\ pc = "prepare" /\ start = 1 /\ ctx = "live" /\ clock = 0 /\ consumed = FALSE
    /\ manager = "none" /\ journal = "none" /\ listener = "none" /\ runs = 0
    /\ link = [b \in Browsers |-> 0] /\ jar = [b \in Browsers |-> 0]
    /\ csrf = [c \in Pages |-> 0] /\ req = [c \in Pages |-> Idle]
    /\ forced = FALSE /\ lost = FALSE /\ grants = {}

Life ==
    \/ Prepare \/ NewManager \/ Listen \/ (\E b \in Browsers : Launch(b)) \/ StopServing
    \/ Drain \/ DrainTimeout \/ StopRuns \/ RunsStopped

Requests(c) ==
    \/ \E kind \in {"bootstrap", "status", "run", "removal"} : Send(c, kind)
    \/ Boundary(c) \/ handleBootstrap(c) \/ HandleRead(c)
    \/ StartRun(c) \/ BeginRemoval(c) \/ EndRemoval(c) \/ Panic(c)

Next ==
    \/ Life \/ Restart
    \/ \E c \in Pages : Requests(c)
    \/ EndRun \/ Tick \/ Signal
    \/ \E b \in Browsers : Share(b)

Spec == Init /\ [][Next]_vars

(* Program steps are taken; nothing is assumed of handlers and runs, which  *)
(* may hang.                                                                *)
FairSpec ==
    /\ Spec
    /\ WF_vars(Prepare) /\ WF_vars(NewManager) /\ WF_vars(Listen)
    /\ WF_vars(\E b \in Browsers : Launch(b))
    /\ WF_vars(pc = "serve" /\ ctx = "done" /\ StopServing)
    /\ WF_vars(Drain) /\ WF_vars(DrainTimeout) /\ WF_vars(StopRuns) /\ WF_vars(RunsStopped)

-----------------------------------------------------------------------------
(* Properties *)

(* Every variable keeps its type. *)
TypeOK ==
    /\ pc \in {"prepare", "manager", "listen", "launch", "serve", "drain", "stop", "wait", "returned"}
    /\ start \in 1..MaxStarts /\ clock \in 0..MaxTime /\ runs \in 0..MaxRuns
    /\ ctx \in {"live", "done"} /\ consumed \in BOOLEAN
    /\ forced \in BOOLEAN /\ lost \in BOOLEAN
    /\ manager \in {"none", "open", "closed"} /\ journal \in {"none", "open", "closed"}
    /\ listener \in {"none", "bound", "serving", "closed"}
    /\ link \in [Browsers -> 0..start] /\ jar \in [Browsers -> 0..start]
    /\ csrf \in [Pages -> 0..start]
    /\ req \in [Pages -> RequestStates]
    /\ grants \subseteq Browsers \X (0..MaxTime)

(* However requests, restarts and the clock interleave, a start hands its   *)
(* session to one browser, through its own link and before the link         *)
(* expires; a page is sent on to the workspace only in that browser.        *)
OneSession ==
    /\ TypeOK
    /\ Cardinality(grants) <= 1
    /\ \A g \in grants : g[2] < TTL
    /\ \A b \in Browsers : jar[b] = start => \E g \in grants : g[1] = b
    /\ \A c \in Pages : req[c].answer = "redirect" => \E g \in grants : g[1] = BrowserOf[c]

(* A handler that changes something runs only for a page of CLIHarbor in    *)
(* the browser that was given this start's session: neither a cookie or     *)
(* token of an earlier start nor another page of that browser gets there.   *)
ChangesAreOwn ==
    \A c \in Pages :
        (req[c].pc \in {"handler", "removing"} /\ Changing(req[c].kind)) =>
            c \in Own /\ \E g \in grants : g[1] = BrowserOf[c]

(* Whichever step startup fails at and whenever the signal comes, Run       *)
(* returns with the listener, the run manager and the journal closed, and   *)
(* unless a deadline passed or Serve failed, after the last handler and the *)
(* last run have put their outcome into the journal.                        *)
ShutdownOrdered ==
    /\ pc = "returned" =>
          /\ listener \in {"none", "closed"}
          /\ manager \in {"none", "closed"} /\ journal \in {"none", "closed"}
          /\ forced \/ (Handling = {} /\ runs = 0)
    /\ lost => forced

(* After the signal the program ends, although handlers and runs may hang.  *)
StopEnds == \A n \in 1..MaxStarts : (start = n /\ ctx = "done") ~> (start # n \/ pc = "returned")
=============================================================================
