---------------------------- MODULE SessionProofs ----------------------------
(***************************************************************************)
(* Theorems about Session, for every set of pages and browsers and any     *)
(* number of starts, runs and clock ticks.                                 *)
(*                                                                         *)
(* GrantInv says who may hold what a start has given out; LifeInv says     *)
(* what app.Run has opened and closed at each of its steps.  Together with *)
(* the types each is inductive.                                            *)
(***************************************************************************)
EXTENDS Session, FiniteSetTheorems, TLAPS

Granted(b) == \E g \in grants : g[1] = b

(* The first exchange is the only one, and whoever got further in this     *)
(* start was given its cookie.                                             *)
GrantInv ==
    /\ \A g, h \in grants : g = h
    /\ \A g \in grants : g[2] < TTL
    /\ grants # {} => consumed
    /\ \A b \in Browsers : jar[b] = start => Granted(b)
    /\ \A c \in Pages : req[c].answer = "redirect" => Granted(BrowserOf[c])

Quiet == \A c \in Pages : req[c].pc = "idle"

(* What is open, and who may still be at work, at each step of app.Run.    *)
LifeInv ==
    /\ pc \in {"prepare", "manager", "listen", "launch"} => Quiet /\ runs = 0 /\ ~lost
    /\ pc = "prepare" => journal = "none" /\ manager = "none"
    /\ pc = "manager" => journal = "open" /\ manager = "none"
    /\ pc \in {"listen", "launch", "serve", "drain", "stop"} => journal = "open" /\ manager = "open"
    /\ pc = "wait" => journal = "open" /\ manager = "closed"
    /\ pc = "returned" => journal # "open" /\ manager # "open"
    /\ pc \in {"prepare", "manager", "listen"} => listener = "none"
    /\ pc \in {"drain", "stop", "wait", "returned"} => listener \in {"none", "closed"}
    /\ pc \in {"stop", "wait", "returned"} => forced \/ Quiet
    /\ pc = "returned" => forced \/ runs = 0
    /\ lost => forced

-----------------------------------------------------------------------------
(* The steps *)

(* The types hold from step to step. *)
LEMMA TypesStep == TypeOK /\ [Next]_vars => TypeOK'
<1> SUFFICES ASSUME TypeOK, [Next]_vars PROVE TypeOK'
  OBVIOUS
<1> USE SessionAssumption DEF TypeOK, RequestStates
<1>1. CASE Prepare
  BY <1>1 DEF Prepare, Fail, Goto, Idle, world, life
<1>2. CASE NewManager
  BY <1>2 DEF NewManager, Fail, Goto, Idle, world, life
<1>3. CASE Listen
  BY <1>3 DEF Listen, Goto, Idle, world, life
<1>4. ASSUME NEW b \in Browsers, Launch(b) PROVE TypeOK'
  BY <1>4 DEF Launch, Goto, Idle, world, life
<1>5. CASE StopServing
  BY <1>5 DEF StopServing, Goto, Idle, world, life
<1>6. CASE Drain
  BY <1>6 DEF Drain, Drained, Goto, Handling, Idle, world, life
<1>7. CASE DrainTimeout
  BY <1>7 DEF DrainTimeout, Goto, Handling, Idle, world, life
<1>8. CASE StopRuns
  BY <1>8 DEF StopRuns, Goto, Idle, world, life
<1>9. CASE RunsStopped
  BY <1>9 DEF RunsStopped, Goto, Idle, world, life
<1>10. CASE Restart
  <2>1. start' \in 1..MaxStarts /\ 0..start \subseteq 0..start'
    BY <1>10 DEF Restart
  <2>2. /\ link' \in [Browsers -> 0..start'] /\ jar' \in [Browsers -> 0..start']
        /\ csrf' \in [Pages -> 0..start']
    BY <1>10, <2>1 DEF Restart
  <2>3. req' \in [Pages -> RequestStates] /\ grants' \subseteq Browsers \X (0..MaxTime)
    BY <1>10 DEF Restart, Idle
  <2>4. clock' \in 0..MaxTime /\ runs' \in 0..MaxRuns
    BY <1>10 DEF Restart
  <2> QED
    BY <1>10, <2>1, <2>2, <2>3, <2>4 DEF Restart
<1>11. ASSUME NEW c \in Pages, NEW kind \in {"bootstrap", "status", "run", "removal"}, Send(c, kind)
      PROVE  TypeOK'
  BY <1>11 DEF Send, Set, Idle, world, life
<1>12. ASSUME NEW c \in Pages, Boundary(c) PROVE TypeOK'
  <2>1. PICK r \in RequestStates : req' = [req EXCEPT ![c] = r]
    <3>1. /\ [Idle EXCEPT !.answer = "none"] \in RequestStates
          /\ [req[c] EXCEPT !.pc = "exchange"] \in RequestStates
          /\ [req[c] EXCEPT !.pc = "handler"] \in RequestStates
      BY DEF Idle
    <3> HIDE DEF TypeOK, RequestStates
    <3> QED
      BY <1>12, <3>1 DEF Boundary, Answer, Set
  <2>2. req' \in [Pages -> RequestStates]
    BY <2>1
  <2> QED
    BY <1>12, <2>2 DEF Boundary, world, life
<1>13. ASSUME NEW c \in Pages, handleBootstrap(c) PROVE TypeOK'
  <2>1. BrowserOf[c] \in Browsers /\ start \in 0..start
    BY DEF Browsers
  <2>2. consumed' \in BOOLEAN /\ jar' \in [Browsers -> 0..start]
    BY <1>13, <2>1 DEF handleBootstrap
  <2>3. grants' \subseteq Browsers \X (0..MaxTime)
    <3>1. <<BrowserOf[c], clock>> \in Browsers \X (0..MaxTime)
      BY <2>1
    <3> HIDE DEF RequestStates
    <3> QED
      BY <1>13, <3>1 DEF handleBootstrap
  <2>4. req' \in [Pages -> RequestStates]
    <3>1. \A a \in {"none", "redirect"} : [Idle EXCEPT !.answer = a] \in RequestStates
      BY DEF Idle
    <3>2. PICK a \in {"none", "redirect"} : Answer(c, a)
      BY <1>13 DEF handleBootstrap
    <3> QED
      BY <3>1, <3>2 DEF Answer, Set
  <2> QED
    BY <1>13, <2>2, <2>3, <2>4 DEF handleBootstrap, life
<1>14. ASSUME NEW c \in Pages, HandleRead(c) PROVE TypeOK'
  BY <1>14 DEF HandleRead, Answer, Set, Idle, world, life
<1>15. ASSUME NEW c \in Pages, StartRun(c) PROVE TypeOK'
  BY <1>15 DEF StartRun, Answer, Set, Idle, world, life
<1>16. ASSUME NEW c \in Pages, BeginRemoval(c) PROVE TypeOK'
  <2>1. /\ [Idle EXCEPT !.answer = "none"] \in RequestStates
        /\ [req[c] EXCEPT !.pc = "removing"] \in RequestStates
    BY DEF Idle
  <2>2. req' \in [Pages -> RequestStates]
    BY <1>16, <2>1 DEF BeginRemoval, Answer, Set
  <2> QED
    BY <1>16, <2>2 DEF BeginRemoval, world, life
<1>17. ASSUME NEW c \in Pages, EndRemoval(c) PROVE TypeOK'
  BY <1>17 DEF EndRemoval, Answer, Set, Idle, world, life
<1>18. ASSUME NEW c \in Pages, Panic(c) PROVE TypeOK'
  BY <1>18 DEF Panic, Answer, Set, Idle, world, life
<1>19. CASE EndRun
  BY <1>19 DEF EndRun, Idle, world, life
<1>20. CASE Tick
  BY <1>20 DEF Tick, Idle, world, life
<1>21. CASE Signal
  BY <1>21 DEF Signal, Idle, world, life
<1>22. ASSUME NEW b \in Browsers, Share(b) PROVE TypeOK'
  BY <1>22 DEF Share, Idle, world, life
<1>99. CASE UNCHANGED vars
  BY <1>99 DEF vars
<1> QED
  BY <1>1, <1>2, <1>3, <1>4, <1>5, <1>6, <1>7, <1>8, <1>9, <1>10, <1>11,
     <1>12, <1>13, <1>14, <1>15, <1>16, <1>17, <1>18, <1>19, <1>20, <1>21, <1>22, <1>99
     DEF Next, Life, Requests

(* Only handleBootstrap gives a session out, and only to the first.         *)
LEMMA GrantStep == TypeOK /\ GrantInv /\ [Next]_vars => GrantInv'
<1> SUFFICES ASSUME TypeOK /\ GrantInv, [Next]_vars PROVE GrantInv'
  OBVIOUS
<1> USE SessionAssumption DEF TypeOK, GrantInv, Granted, Browsers
<1>1. CASE Prepare
  BY <1>1 DEF Prepare, Fail, Goto, Idle, world, life
<1>2. CASE NewManager
  BY <1>2 DEF NewManager, Fail, Goto, Idle, world, life
<1>3. CASE Listen
  BY <1>3 DEF Listen, Goto, Idle, world, life
<1>4. ASSUME NEW b \in Browsers, Launch(b) PROVE GrantInv'
  BY <1>4 DEF Launch, Goto, Idle, world, life
<1>5. CASE StopServing
  BY <1>5 DEF StopServing, Goto, Idle, world, life
<1>6. CASE Drain
  BY <1>6 DEF Drain, Drained, Goto, Handling, Idle, world, life
<1>7. CASE DrainTimeout
  BY <1>7 DEF DrainTimeout, Goto, Handling, Idle, world, life
<1>8. CASE StopRuns
  BY <1>8 DEF StopRuns, Goto, Idle, world, life
<1>9. CASE RunsStopped
  BY <1>9 DEF RunsStopped, Goto, Idle, world, life
<1>10. CASE Restart
  <2>1. \A b \in Browsers : jar'[b] # start'
    BY <1>10 DEF Restart
  <2>2. grants' = {} /\ \A c \in Pages : req'[c].answer = "none"
    BY <1>10 DEF Restart, Idle
  <2> QED
    BY <2>1, <2>2
<1>11. ASSUME NEW c \in Pages, NEW kind \in {"bootstrap", "status", "run", "removal"}, Send(c, kind)
      PROVE  GrantInv'
  BY <1>11 DEF Send, Set, Idle, world, life
<1>12. ASSUME NEW c \in Pages, Boundary(c) PROVE GrantInv'
  <2>1. \A d \in Pages : req'[d].answer \in {"none", req[d].answer}
    <3>1. /\ req[c] \in RequestStates
          /\ [req[c] EXCEPT !.pc = "exchange"].answer = req[c].answer
          /\ [req[c] EXCEPT !.pc = "handler"].answer = req[c].answer
          /\ [Idle EXCEPT !.answer = "none"].answer = "none"
      BY DEF RequestStates, Idle
    <3>2. PICK r : req' = [req EXCEPT ![c] = r] /\ r.answer \in {"none", req[c].answer}
      <4> HIDE DEF TypeOK, GrantInv
      <4> QED
        BY <1>12, <3>1 DEF Boundary, Answer, Set
    <3> QED
      BY <3>2
  <2>2. UNCHANGED <<start, world>>
    BY <1>12 DEF Boundary, life
  <2> QED
    BY <2>1, <2>2 DEF world
<1>13. ASSUME NEW c \in Pages, handleBootstrap(c) PROVE GrantInv'
  <2>1. PICK a \in {"none", "redirect"} : Answer(c, a)
    BY <1>13 DEF handleBootstrap
  <2>2. \A d \in Pages \ {c} : req'[d] = req[d]
    BY <2>1 DEF Answer, Set
  <2>3. BrowserOf[c] \in Browsers /\ start' = start
    BY <1>13 DEF handleBootstrap, life
  <2>4. CASE MayExchange(c)
    <3>1. grants = {} /\ clock < TTL
      BY <2>4 DEF MayExchange
    <3>2. /\ consumed' /\ grants' = {<<BrowserOf[c], clock>>}
          /\ jar' = [jar EXCEPT ![BrowserOf[c]] = start]
      BY <1>13, <2>4, <3>1 DEF handleBootstrap
    <3>3. \A d \in Pages \ {c} : req'[d].answer # "redirect"
      BY <2>2, <3>1
    <3>4. \A b \in Browsers \ {BrowserOf[c]} : jar'[b] # start'
      BY <2>3, <3>1, <3>2
    <3>5. <<BrowserOf[c], clock>>[1] = BrowserOf[c] /\ <<BrowserOf[c], clock>>[2] = clock
      OBVIOUS
    <3>6. \A g \in grants' : g = <<BrowserOf[c], clock>>
      BY <3>2
    <3>7. Granted(BrowserOf[c])'
      <4>1. <<BrowserOf[c], clock>> \in grants'
        BY <3>2
      <4> HIDE DEF TypeOK, GrantInv
      <4> QED
        BY <4>1, <3>5
    <3>8. \A g \in grants' : g[2] < TTL
      <4> HIDE DEF TypeOK, GrantInv, Granted
      <4> QED
        BY <3>1, <3>5, <3>6
    <3>9. \A b \in Browsers : jar'[b] = start' => Granted(b)'
      <4> HIDE DEF TypeOK, GrantInv, Granted, Browsers
      <4> QED
        BY <3>4, <3>7
    <3>10. \A d \in Pages : req'[d].answer = "redirect" => Granted(BrowserOf[d])'
      <4> HIDE DEF TypeOK, GrantInv, Granted, Browsers
      <4> QED
        BY <3>3, <3>7
    <3>11. (\A g, h \in grants' : g = h) /\ consumed'
      <4> HIDE DEF TypeOK, GrantInv, Granted, Browsers
      <4> QED
        BY <3>2, <3>6
    <3> HIDE DEF TypeOK, Granted, Browsers
    <3> QED
      BY <3>8, <3>9, <3>10, <3>11
  <2>5. CASE ~MayExchange(c)
    <3>1. UNCHANGED <<consumed, jar, grants>>
      BY <1>13, <2>5 DEF handleBootstrap
    <3>2. req'[c].answer = "redirect" => SessionOK(c)
      BY <1>13, <2>5 DEF handleBootstrap, Answer, Set, Idle
    <3> QED
      BY <2>2, <2>3, <3>1, <3>2 DEF SessionOK
  <2> QED
    BY <2>4, <2>5
<1>14. ASSUME NEW c \in Pages, HandleRead(c) PROVE GrantInv'
  BY <1>14 DEF HandleRead, Answer, Set, Idle, world, life
<1>15. ASSUME NEW c \in Pages, StartRun(c) PROVE GrantInv'
  BY <1>15 DEF StartRun, Answer, Set, Idle, world, life
<1>16. ASSUME NEW c \in Pages, BeginRemoval(c) PROVE GrantInv'
  <2>1. \A d \in Pages : req'[d].answer \in {"none", req[d].answer}
    <3>1. /\ [req[c] EXCEPT !.pc = "removing"].answer = req[c].answer
          /\ [Idle EXCEPT !.answer = "none"].answer = "none"
      BY DEF RequestStates, Idle
    <3>2. PICK r : req' = [req EXCEPT ![c] = r] /\ r.answer \in {"none", req[c].answer}
      <4> HIDE DEF TypeOK, GrantInv
      <4> QED
        BY <1>16, <3>1 DEF BeginRemoval, Answer, Set
    <3> QED
      BY <3>2
  <2>2. UNCHANGED <<start, world>>
    BY <1>16 DEF BeginRemoval, life
  <2> QED
    BY <2>1, <2>2 DEF world
<1>17. ASSUME NEW c \in Pages, EndRemoval(c) PROVE GrantInv'
  BY <1>17 DEF EndRemoval, Answer, Set, Idle, world, life
<1>18. ASSUME NEW c \in Pages, Panic(c) PROVE GrantInv'
  BY <1>18 DEF Panic, Answer, Set, Idle, world, life
<1>19. CASE EndRun
  BY <1>19 DEF EndRun, Idle, world, life
<1>20. CASE Tick
  BY <1>20 DEF Tick, Idle, world, life
<1>21. CASE Signal
  BY <1>21 DEF Signal, Idle, world, life
<1>22. ASSUME NEW b \in Browsers, Share(b) PROVE GrantInv'
  BY <1>22 DEF Share, Idle, world, life
<1>99. CASE UNCHANGED vars
  BY <1>99 DEF vars
<1> QED
  BY <1>1, <1>2, <1>3, <1>4, <1>5, <1>6, <1>7, <1>8, <1>9, <1>10, <1>11,
     <1>12, <1>13, <1>14, <1>15, <1>16, <1>17, <1>18, <1>19, <1>20, <1>21, <1>22, <1>99
     DEF Next, Life, Requests

(* app.Run opens and closes in order; handlers begin while it serves only.  *)
LEMMA LifeInvStep == TypeOK /\ LifeInv /\ [Next]_vars => LifeInv'
<1> SUFFICES ASSUME TypeOK /\ LifeInv, [Next]_vars PROVE LifeInv'
  OBVIOUS
<1> USE SessionAssumption DEF TypeOK, LifeInv, Quiet
<1>1. CASE Prepare
  BY <1>1 DEF Prepare, Fail, Goto, Idle, world, life
<1>2. CASE NewManager
  BY <1>2 DEF NewManager, Fail, Goto, Idle, world, life
<1>3. CASE Listen
  BY <1>3 DEF Listen, Goto, Idle, world, life
<1>4. ASSUME NEW b \in Browsers, Launch(b) PROVE LifeInv'
  BY <1>4 DEF Launch, Goto, Idle, world, life
<1>5. CASE StopServing
  BY <1>5 DEF StopServing, Goto, Idle, world, life
<1>6. CASE Drain
  BY <1>6 DEF Drain, Drained, Goto, Handling, Idle, world, life
<1>7. CASE DrainTimeout
  BY <1>7 DEF DrainTimeout, Goto, Handling, Idle, world, life
<1>8. CASE StopRuns
  BY <1>8 DEF StopRuns, Goto, Idle, world, life
<1>9. CASE RunsStopped
  BY <1>9 DEF RunsStopped, Goto, Idle, world, life
<1>10. CASE Restart
  BY <1>10 DEF Restart, Idle, world, life
<1>11. ASSUME NEW c \in Pages, NEW kind \in {"bootstrap", "status", "run", "removal"}, Send(c, kind)
      PROVE  LifeInv'
  BY <1>11 DEF Send, Set, Idle, world, life
<1>12. ASSUME NEW c \in Pages, Boundary(c) PROVE LifeInv'
  BY <1>12 DEF Boundary, Answer, Set, BoundaryOK, SessionOK, Changing, Idle, world, life
<1>13. ASSUME NEW c \in Pages, handleBootstrap(c) PROVE LifeInv'
  BY <1>13 DEF handleBootstrap, Answer, Set, MayExchange, SessionOK, Idle, world, life
<1>14. ASSUME NEW c \in Pages, HandleRead(c) PROVE LifeInv'
  BY <1>14 DEF HandleRead, Answer, Set, Idle, world, life
<1>15. ASSUME NEW c \in Pages, StartRun(c) PROVE LifeInv'
  BY <1>15 DEF StartRun, Answer, Set, Idle, world, life
<1>16. ASSUME NEW c \in Pages, BeginRemoval(c) PROVE LifeInv'
  BY <1>16 DEF BeginRemoval, Answer, Set, Idle, world, life
<1>17. ASSUME NEW c \in Pages, EndRemoval(c) PROVE LifeInv'
  BY <1>17 DEF EndRemoval, Answer, Set, Idle, world, life
<1>18. ASSUME NEW c \in Pages, Panic(c) PROVE LifeInv'
  BY <1>18 DEF Panic, Answer, Set, Idle, world, life
<1>19. CASE EndRun
  BY <1>19 DEF EndRun, Idle, world, life
<1>20. CASE Tick
  BY <1>20 DEF Tick, Idle, world, life
<1>21. CASE Signal
  BY <1>21 DEF Signal, Idle, world, life
<1>22. ASSUME NEW b \in Browsers, Share(b) PROVE LifeInv'
  BY <1>22 DEF Share, Idle, world, life
<1>99. CASE UNCHANGED vars
  BY <1>99 DEF vars
<1> QED
  BY <1>1, <1>2, <1>3, <1>4, <1>5, <1>6, <1>7, <1>8, <1>9, <1>10, <1>11,
     <1>12, <1>13, <1>14, <1>15, <1>16, <1>17, <1>18, <1>19, <1>20, <1>21, <1>22, <1>99
     DEF Next, Life, Requests

(* A set of sessions with one member at most. *)
LEMMA OneGrant == TypeOK /\ GrantInv => Cardinality(grants) <= 1
<1>1. CASE grants = {}
  BY <1>1, FS_EmptySet
<1>2. ASSUME NEW g \in grants, GrantInv PROVE Cardinality(grants) <= 1
  <2>1. grants = {g}
    BY <1>2 DEF GrantInv
  <2>2. Cardinality(grants) = 1
    BY <2>1, FS_Singleton
  <2> QED
    BY <2>2
<1> QED
  BY <1>1, <1>2

(* What a step may do to the requests and to the grants of a start.         *)
Moved(c) ==
    /\ req'[c].pc \in {"handler", "removing"} => req[c].pc \in {"handler", "removing"}
    /\ req'[c].pc \in {"handler", "removing"} => req'[c].kind = req[c].kind

(* A page in a handler that changes something passed the boundary with the  *)
(* cookie of this start; nobody is in a handler when the program starts.    *)
LEMMA OwnStep == TypeOK /\ GrantInv /\ ChangesAreOwn /\ [Next]_vars => ChangesAreOwn'
<1> SUFFICES ASSUME TypeOK, GrantInv, ChangesAreOwn, [Next]_vars PROVE ChangesAreOwn'
  OBVIOUS
<1>a. ASSUME grants \subseteq grants', \A c \in Pages : Moved(c) PROVE ChangesAreOwn'
  BY <1>a DEF ChangesAreOwn, Moved, Changing
<1>b. ASSUME NEW c \in Pages, NEW r, req' = [req EXCEPT ![c] = r], grants \subseteq grants',
             r.pc \in {"handler", "removing"} =>
                 req[c].pc \in {"handler", "removing"} /\ r.kind = req[c].kind
      PROVE  ChangesAreOwn'
  <2>1. req \in [Pages -> RequestStates]
    BY DEF TypeOK
  <2>2. \A d \in Pages : Moved(d)
    BY <1>b, <2>1 DEF Moved
  <2> QED
    BY <2>2, <1>a, <1>b
<1>c. ASSUME NEW c \in Pages, NEW a, Answer(c, a), grants \subseteq grants' PROVE ChangesAreOwn'
  <2>1. req' = [req EXCEPT ![c] = [Idle EXCEPT !.answer = a]]
    BY <1>c DEF Answer, Set
  <2>2. [Idle EXCEPT !.answer = a].pc \notin {"handler", "removing"}
    BY DEF Idle
  <2> QED
    BY <1>b, <1>c, <2>1, <2>2
<1>d. ASSUME UNCHANGED <<req, grants>> PROVE ChangesAreOwn'
  BY <1>d DEF ChangesAreOwn
<1>1. CASE Life \/ EndRun \/ Tick \/ Signal \/ UNCHANGED vars \/ \E b \in Browsers : Share(b)
  <2>1. UNCHANGED <<req, grants>>
    BY <1>1 DEF Life, Prepare, NewManager, Listen, Launch, StopServing, Drain, DrainTimeout,
                StopRuns, RunsStopped, EndRun, Tick, Signal, Share, vars, world
  <2> QED
    BY <2>1, <1>d
<1>2. CASE Restart
  BY <1>2 DEF Restart, ChangesAreOwn, Idle
<1>3. ASSUME NEW c \in Pages, NEW kind \in {"bootstrap", "status", "run", "removal"}, Send(c, kind)
      PROVE  ChangesAreOwn'
  <2>1. [Idle EXCEPT !.pc = "boundary", !.kind = kind].pc = "boundary"
    BY DEF Idle
  <2> QED
    BY <1>3, <2>1, <1>b DEF Send, Set, world
<1>4. ASSUME NEW c \in Pages, Boundary(c) PROVE ChangesAreOwn'
  <2>0. grants' = grants
    BY <1>4 DEF Boundary, world
  <2>1. CASE Answer(c, "none")
    BY <2>0, <2>1, <1>c
  <2>2. CASE Set(c, [req[c] EXCEPT !.pc = "exchange"])
    <3>1. req[c] \in RequestStates
      BY DEF TypeOK
    <3>2. [req[c] EXCEPT !.pc = "exchange"].pc = "exchange"
      BY <3>1 DEF RequestStates
    <3> QED
      BY <2>0, <2>2, <3>2, <1>b DEF Set
  <2>3. CASE BoundaryOK(c) /\ SessionOK(c) /\ Set(c, [req[c] EXCEPT !.pc = "handler"])
    <3>1. req \in [Pages -> RequestStates]
      BY DEF TypeOK
    <3>2. /\ req'[c].kind = req[c].kind
          /\ \A d \in Pages \ {c} : req'[d] = req[d]
      BY <2>3, <3>1 DEF Set, RequestStates
    <3>3. BrowserOf[c] \in Browsers
      BY DEF Browsers
    <3>4. Changing(req[c].kind) => c \in Own /\ Granted(BrowserOf[c])
      BY <2>3, <3>3 DEF BoundaryOK, SessionOK, GrantInv
    <3> QED
      BY <2>0, <3>2, <3>4 DEF ChangesAreOwn, Granted, Changing
  <2> QED
    BY <1>4, <2>1, <2>2, <2>3 DEF Boundary
<1>5. ASSUME NEW c \in Pages, handleBootstrap(c) PROVE ChangesAreOwn'
  BY <1>5, <1>c DEF handleBootstrap
<1>6. ASSUME NEW c \in Pages, HandleRead(c) PROVE ChangesAreOwn'
  BY <1>6, <1>c DEF HandleRead
<1>7. ASSUME NEW c \in Pages, StartRun(c) PROVE ChangesAreOwn'
  BY <1>7, <1>c DEF StartRun, world
<1>8. ASSUME NEW c \in Pages, BeginRemoval(c) PROVE ChangesAreOwn'
  <2>1. [req[c] EXCEPT !.pc = "removing"].kind = req[c].kind
    BY DEF TypeOK, RequestStates
  <2>2. CASE Answer(c, "none")
    BY <1>8, <2>2, <1>c DEF BeginRemoval, world
  <2>3. CASE Set(c, [req[c] EXCEPT !.pc = "removing"])
    BY <1>8, <2>1, <2>3, <1>b DEF BeginRemoval, Set, world
  <2> QED
    BY <1>8, <2>2, <2>3 DEF BeginRemoval
<1>9. ASSUME NEW c \in Pages, EndRemoval(c) PROVE ChangesAreOwn'
  BY <1>9, <1>c DEF EndRemoval, world
<1>10. ASSUME NEW c \in Pages, Panic(c) PROVE ChangesAreOwn'
  BY <1>10, <1>c DEF Panic, world
<1> QED
  BY <1>1, <1>2, <1>3, <1>4, <1>5, <1>6, <1>7, <1>8, <1>9, <1>10 DEF Next, Requests

-----------------------------------------------------------------------------
(* The theorems *)

(* The program starts with nothing granted, nothing open and nobody in.     *)
LEMMA Initially == Init => TypeOK /\ GrantInv /\ LifeInv /\ ChangesAreOwn
<1> SUFFICES ASSUME Init PROVE TypeOK /\ GrantInv /\ LifeInv /\ ChangesAreOwn
  OBVIOUS
<1>1. \A c \in Pages : req[c] = Idle
  BY DEF Init
<1>2. Idle \in RequestStates /\ Idle.pc = "idle" /\ Idle.answer = "none"
  BY DEF Idle, RequestStates
<1>3. TypeOK
  <2>1. start = 1 /\ clock = 0 /\ runs = 0 /\ start \in 1..MaxStarts
    BY SessionAssumption DEF Init
  <2>2. link \in [Browsers -> 0..start] /\ jar \in [Browsers -> 0..start] /\ csrf \in [Pages -> 0..start]
    BY <2>1 DEF Init
  <2>3. req \in [Pages -> RequestStates] /\ grants \subseteq Browsers \X (0..MaxTime)
    BY <1>2 DEF Init
  <2>4. clock \in 0..MaxTime /\ runs \in 0..MaxRuns
    BY <2>1, SessionAssumption
  <2>5. /\ pc = "prepare" /\ ctx = "live" /\ consumed = FALSE /\ forced = FALSE /\ lost = FALSE
        /\ manager = "none" /\ journal = "none" /\ listener = "none"
    BY DEF Init
  <2> QED
    BY <2>1, <2>2, <2>3, <2>4, <2>5 DEF TypeOK
<1>4. GrantInv
  BY <1>1, <1>2 DEF Init, GrantInv
<1>5. LifeInv
  BY <1>1, <1>2 DEF Init, LifeInv, Quiet
<1>6. ChangesAreOwn
  BY <1>1, <1>2 DEF ChangesAreOwn
<1> QED
  BY <1>3, <1>4, <1>5, <1>6

(* Every variable of the program, its browsers and pages keeps its type.    *)
THEOREM SessionTypes == Spec => []TypeOK
<1>1. Init => TypeOK
  BY Initially
<1> QED
  BY <1>1, TypesStep, PTL DEF Spec

(* What a start gives out, it gives to one browser, before the link expires.*)
THEOREM GrantsHold == Spec => []GrantInv
<1>1. Init => GrantInv
  BY Initially
<1> QED
  BY <1>1, SessionTypes, GrantStep, PTL DEF Spec

(* app.Run's resources are open exactly where its order says.               *)
THEOREM LifeHolds == Spec => []LifeInv
<1>1. Init => LifeInv
  BY Initially
<1> QED
  BY <1>1, SessionTypes, LifeInvStep, PTL DEF Spec

(* A start hands its session to one browser through its own link, however   *)
(* many pages race for it in handleBootstrap.                               *)
THEOREM OneSessionPerStart == Spec => []OneSession
<1>1. TypeOK /\ GrantInv => OneSession
  BY OneGrant DEF GrantInv, Granted, OneSession
<1> QED
  BY <1>1, SessionTypes, GrantsHold, PTL

(* No handler that changes something runs for a page that is not            *)
(* CLIHarbor's own in the browser of this start's session.                  *)
THEOREM ChangesAreTheSessions == Spec => []ChangesAreOwn
<1>1. Init => ChangesAreOwn
  BY Initially
<1> QED
  BY <1>1, SessionTypes, GrantsHold, OwnStep, PTL DEF Spec

(* Run returns with everything closed and, unless forced, after the last    *)
(* handler and run.                                                         *)
THEOREM ShutdownIsOrdered == Spec => []ShutdownOrdered
<1>1. TypeOK /\ LifeInv => ShutdownOrdered
  BY DEF TypeOK, LifeInv, Quiet, ShutdownOrdered, Handling
<1> QED
  BY <1>1, SessionTypes, LifeHolds, PTL
=============================================================================
