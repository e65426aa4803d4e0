-------------------------- MODULE RunStreamProofs --------------------------
(***************************************************************************)
(* Proofs about RunStream, for any number of pages, any length of the      *)
(* event log and any number of event streams.  Everything the server has   *)
(* put on a wire, in a batch or in an answer stays true of the run (what   *)
(* it says of the past is a prefix, what it says of the end is final), and *)
(* so does what a page makes of it, in whatever order it arrives.          *)
(***************************************************************************)
EXTENDS RunStream, FiniteSetTheorems, SequenceTheorems, TLAPS

(* The types of a page and of a connection, as TypeOK has them. *)
Pages == [status : Outcomes \cup {"running"}, events : Seq(1 .. MaxEvents),
          last : 0 .. MaxEvents, retained : BOOLEAN,
          stream : {"connecting", "connected", "stopped", "idle"},
          source : {"connecting", "closed"}, subLast : 0 .. MaxEvents,
          lastId : 0 .. MaxEvents, failures : 0 .. MaxStreamFailures - 1,
          fetch : Replies, cancel : Replies]

Conns == [state : {"none", "reading", "waiting", "writing"},
          cursor : 0 .. MaxEvents, gen : Nat, batch : Seq(Frames),
          opened : BOOLEAN, wire : Seq(Frames)]

(* A frame on its way is about an event that happened, or about the end.   *)
TrueFrame(f) ==
    /\ f.kind = "event" => f.seq <= log
    /\ f.kind = "complete" => f.seq = log /\ f.status = status

TrueFrames(s) == \A i \in 1 .. Len(s) : TrueFrame(s[i])

(* Only events and the completion come out of the log. *)
Payload(s) == \A i \in 1 .. Len(s) : s[i].kind \in {"event", "complete"}

(* An answer on its way may be late about a run in progress, not about a   *)
(* finished one.                                                           *)
TrueReply(r) ==
    /\ r.count <= log
    /\ r.status # "running" => r.status = status /\ r.count = log

(* The subscription of a page is never ahead of the page. *)
TruePage(p) ==
    /\ p.events = [i \in 1 .. p.last |-> i]
    /\ p.subLast <= p.last /\ p.last <= log /\ p.lastId <= log
    /\ p.status # "running" => p.status = status /\ p.last = log
    /\ TrueReply(p.fetch) /\ TrueReply(p.cancel)

TrueConn(c) ==
    /\ TrueFrames(c.batch) /\ Payload(c.batch) /\ TrueFrames(c.wire)
    /\ c.state = "writing" => c.batch # <<>>
    /\ c.cursor <= log /\ c.gen <= gen
    /\ c.state = "waiting" /\ c.gen = gen => c.cursor = log /\ status = "running"

(* The inductive invariant. *)
StreamInv ==
    /\ TypeOK
    /\ \A v \in Viewers : TruePage(page[v]) /\ TrueConn(conn[v])
    /\ SlotsAccounted /\ IsFiniteSet(Handlers)

RunOK ==
    /\ log \in 0 .. MaxEvents /\ gen \in Nat
    /\ status \in Outcomes \cup {"running"} /\ retained \in BOOLEAN

GoodPage(p) == p \in Pages /\ TruePage(p)
GoodConn(c) == c \in Conns /\ TrueConn(c)

(* What a page says of a finished run it goes on saying. *)
Keeps(p, q) == p.status # "running" => q.status = p.status /\ q.last = p.last

-----------------------------------------------------------------------------
(* Sequences of frames *)

(* The numbers from one to n, one after the other. *)
LEMMA Iota ==
    ASSUME NEW n \in Nat
    PROVE  /\ [i \in 1 .. n |-> i] \in Seq(1 .. n)
           /\ Append([i \in 1 .. n |-> i], n + 1) = [i \in 1 .. n + 1 |-> i]
<1>1. [i \in 1 .. n |-> i] \in Seq(1 .. n)
  OBVIOUS
<1>2. Append([i \in 1 .. n |-> i], n + 1) = [i \in 1 .. n + 1 |-> i]
  OBVIOUS
<1> QED BY <1>1, <1>2

(* A frame added at the end of true frames. *)
LEMMA AppendTrue ==
    ASSUME NEW s \in Seq(Frames), NEW f \in Frames, TrueFrames(s), TrueFrame(f)
    PROVE  Append(s, f) \in Seq(Frames) /\ TrueFrames(Append(s, f)) /\ Append(s, f) # <<>>
<1>1. PICK t : t = Append(s, f)
  OBVIOUS
<1>2. t \in Seq(Frames) /\ Len(t) = Len(s) + 1 /\ Len(s) \in Nat
  BY <1>1
<1>3. (\A i \in 1 .. Len(s) : t[i] = s[i]) /\ t[Len(s) + 1] = f
  BY <1>1
<1>4. TrueFrames(t)
  BY <1>2, <1>3 DEF TrueFrames
<1>5. t # <<>>
  BY <1>2
<1> QED BY <1>1, <1>2, <1>4, <1>5

(* True frames behind true frames. *)
LEMMA ConcatTrue ==
    ASSUME NEW s \in Seq(Frames), NEW t \in Seq(Frames), TrueFrames(s), TrueFrames(t)
    PROVE  s \o t \in Seq(Frames) /\ TrueFrames(s \o t)
BY DEF TrueFrames

(* The first of true frames, and what is left of them. *)
LEMMA HeadTailTrue ==
    ASSUME NEW s \in Seq(Frames), s # <<>>, TrueFrames(s)
    PROVE  /\ Head(s) \in Frames /\ TrueFrame(Head(s))
           /\ Tail(s) \in Seq(Frames) /\ TrueFrames(Tail(s))
           /\ Payload(s) => Head(s).kind \in {"event", "complete"} /\ Payload(Tail(s))
<1>1. Len(s) \in Nat /\ Len(s) > 0 /\ Head(s) = s[1] /\ s[1] \in Frames
  OBVIOUS
<1>2. Tail(s) \in Seq(Frames) /\ Len(Tail(s)) = Len(s) - 1
  OBVIOUS
<1>3. \A i \in 1 .. Len(Tail(s)) : Tail(s)[i] = s[i + 1]
  OBVIOUS
<1> QED BY <1>1, <1>2, <1>3 DEF TrueFrames, Payload

(* The frame that opens a response and the one that ends it say nothing of *)
(* the run.                                                                *)
LEMMA PlainFrames ==
    /\ [kind |-> "open"] \in Frames /\ TrueFrame([kind |-> "open"])
    /\ [kind |-> "eof"] \in Frames /\ TrueFrame([kind |-> "eof"])
    /\ <<>> \in Seq(Frames) /\ TrueFrames(<<>>) /\ Payload(<<>>)
BY DEF Frames, TrueFrame, TrueFrames, Payload

(* What a frame on the wire can be. *)
LEMMA FrameKinds ==
    ASSUME NEW f \in Frames
    PROVE  /\ f.kind \in {"open", "eof", "event", "complete"}
           /\ f.kind = "event" => f.seq \in 1 .. MaxEvents
           /\ f.kind = "complete" => f.seq \in 0 .. MaxEvents /\ f.status \in Outcomes
BY DEF Frames

(* WaitEvents answers with frames that are true of the run, and with none  *)
(* only when the cursor has reached the end of a run in progress.          *)
LEMMA BatchTrue ==
    ASSUME RunOK, StreamAssumption, NEW k \in 0 .. MaxEvents, k <= log
    PROVE  /\ Batch(k) \in Seq(Frames) /\ TrueFrames(Batch(k)) /\ Payload(Batch(k))
           /\ Batch(k) = <<>> => k = log /\ status = "running"
<1> DEFINE ev == [i \in 1 .. log - k |-> EventFrame(k + i)]
           fin == IF status = "running" THEN <<>>
                  ELSE <<[kind |-> "complete", seq |-> log, status |-> status]>>
<1>1. log - k \in Nat /\ log \in Nat /\ k \in Nat
  BY DEF RunOK, StreamAssumption
<1>2. \A i \in 1 .. log - k : EventFrame(k + i) \in Frames /\ TrueFrame(EventFrame(k + i))
  BY <1>1 DEF EventFrame, Frames, TrueFrame, RunOK, StreamAssumption
<1>3. ev \in Seq(Frames) /\ Len(ev) = log - k /\ TrueFrames(ev)
  BY <1>1, <1>2 DEF TrueFrames
<1>3a. Payload(ev)
  BY <1>1 DEF Payload, EventFrame
<1>4. status # "running" => [kind |-> "complete", seq |-> log, status |-> status] \in Frames
  BY DEF Frames, RunOK
<1>5. fin \in Seq(Frames) /\ TrueFrames(fin) /\ (fin = <<>> => status = "running")
  BY <1>4 DEF TrueFrames, TrueFrame
<1>5a. Payload(fin)
  BY DEF Payload
<1>6. Batch(k) = ev \o fin
  BY DEF Batch
<1> HIDE DEF ev, fin
<1>7. ev \o fin = <<>> => ev = <<>> /\ fin = <<>>
  BY <1>3, <1>5
<1>8. ev = <<>> => log - k = 0
  BY <1>3
<1>9. Payload(ev \o fin)
  BY <1>3, <1>3a, <1>5, <1>5a DEF Payload
<1> QED BY <1>1, <1>3, <1>5, <1>6, <1>7, <1>8, <1>9, ConcatTrue

-----------------------------------------------------------------------------
(* What a page makes of what it receives *)

(* A request that has just been made or answered without a snapshot. *)
LEMMA ReplyTrue ==
    ASSUME RunOK, StreamAssumption,
           NEW s \in {"none", "asked", "snapshot", "not-found", "answered"}
    PROVE  Reply(s) \in Replies /\ TrueReply(Reply(s))
BY DEF Reply, Replies, TrueReply, RunOK, StreamAssumption

(* Unsubscribing, and giving up on the stream, change nothing of the view. *)
LEMMA ClosingIsTrue ==
    ASSUME RunOK, StreamAssumption, NEW q, GoodPage(q)
    PROVE  /\ GoodPage(Unsubscribed(q)) /\ Keeps(q, Unsubscribed(q))
           /\ GoodPage(StreamError(q)) /\ Keeps(q, StreamError(q))
<1>1. PICK n : n = Reply("none")
  OBVIOUS
<1>2. PICK a : a = Reply("asked")
  OBVIOUS
<1>3. n \in Replies /\ TrueReply(n) /\ a \in Replies /\ TrueReply(a)
  BY <1>1, <1>2, ReplyTrue
<1>4. /\ Unsubscribed(q) = [q EXCEPT !.source = "closed", !.fetch = n]
      /\ StreamError(q) = [q EXCEPT !.source = "closed", !.stream = "stopped", !.fetch = a]
  BY <1>1, <1>2 DEF Unsubscribed, StreamError
<1>5. Unsubscribed(q) \in Pages /\ StreamError(q) \in Pages
  BY <1>3, <1>4 DEF GoodPage, Pages
<1>6. TruePage(Unsubscribed(q)) /\ TruePage(StreamError(q))
  BY <1>3, <1>4 DEF GoodPage, Pages, TruePage
<1> QED BY <1>4, <1>5, <1>6 DEF GoodPage, Keeps, Pages

(* A disconnected page keeps its view and stays within its retry budget. *)
LEMMA DisconnectedIsTrue ==
    ASSUME RunOK, StreamAssumption, NEW q, GoodPage(q)
    PROVE  GoodPage(Disconnected(q)) /\ Keeps(q, Disconnected(q))
<1>1. CASE q.failures + 1 < MaxStreamFailures
  <2>1. Disconnected(q) = [q EXCEPT !.failures = q.failures + 1, !.source = "connecting"]
    BY <1>1 DEF Disconnected
  <2>2. q.failures + 1 \in 0 .. MaxStreamFailures - 1
    BY <1>1 DEF GoodPage, Pages, StreamAssumption
  <2>3. Disconnected(q) \in Pages
    BY <2>1, <2>2 DEF GoodPage, Pages
  <2> QED BY <2>1, <2>3 DEF GoodPage, Pages, TruePage, Keeps
<1>2. CASE ~(q.failures + 1 < MaxStreamFailures)
  BY <1>2, ClosingIsTrue DEF Disconnected
<1> QED BY <1>1, <1>2

(* An event that happened extends the view by the next number, or nothing. *)
LEMMA EventIsTrue ==
    ASSUME RunOK, StreamAssumption, NEW q, GoodPage(q), NEW n \in 1 .. MaxEvents, n <= log
    PROVE  GoodPage(HandleEvent(q, n)) /\ Keeps(q, HandleEvent(q, n))
<1>1. PICK r : r = [q EXCEPT !.lastId = n]
  OBVIOUS
<1>2. r \in Pages
  BY <1>1 DEF GoodPage, Pages
<1>3. GoodPage(r) /\ Keeps(q, r)
  BY <1>1, <1>2 DEF GoodPage, Pages, TruePage, Keeps
<1>4. CASE n <= q.subLast
  BY <1>1, <1>3, <1>4 DEF HandleEvent
<1>5. CASE ~(n <= q.subLast) /\ n # q.subLast + 1
  <2>1. HandleEvent(q, n) = StreamError(r)
    BY <1>1, <1>5 DEF HandleEvent
  <2> QED BY <2>1, <1>3, ClosingIsTrue DEF Keeps
<1>6. CASE n = q.subLast + 1
  <2>1. PICK t : t = [r EXCEPT !.subLast = n, !.failures = 0]
    OBVIOUS
  <2>2. /\ q.subLast \in Nat /\ q.last \in 0 .. MaxEvents /\ q.subLast <= q.last /\ log \in Nat
        /\ q.last <= log
    <3> q.subLast \in 0 .. MaxEvents /\ q.last \in 0 .. MaxEvents
      BY DEF GoodPage, Pages
    <3> q.subLast <= q.last /\ q.last <= log
      BY DEF GoodPage, TruePage
    <3> QED BY DEF RunOK, StreamAssumption
  <2>3. HandleEvent(q, n) = AppendRunEvent(t, n)
    <3>1. r.subLast = q.subLast
      BY <1>1 DEF GoodPage, Pages
    <3>2. ~(n <= q.subLast)
      BY <1>6, <2>2
    <3> QED BY <1>1, <1>6, <2>1, <3>1, <3>2 DEF HandleEvent
  <2>4. t \in Pages
    <3>1. n \in 0 .. MaxEvents /\ 0 \in 0 .. MaxStreamFailures - 1
      BY DEF StreamAssumption
    <3> QED BY <1>2, <2>1, <3>1 DEF Pages
  <2>5. t.last = q.last /\ t.events = q.events /\ t.status = q.status /\ t.subLast = n /\ t.lastId = n
    BY <1>1, <1>2, <2>1 DEF GoodPage, Pages
  <2>6. t.fetch = q.fetch /\ t.cancel = q.cancel
    BY <1>1, <1>2, <2>1 DEF GoodPage, Pages
  <2>7. CASE n <= q.last
    <3>1. HandleEvent(q, n) = t
      BY <2>3, <2>5, <2>7 DEF AppendRunEvent
    <3> QED BY <3>1, <2>4, <2>5, <2>6, <2>7 DEF GoodPage, TruePage, Keeps
  <2>8. CASE ~(n <= q.last)
    <3>1. n = q.last + 1
      BY <1>6, <2>2, <2>8
    <3>2. HandleEvent(q, n) = [t EXCEPT !.events = Append(q.events, n), !.last = n]
      BY <2>3, <2>5, <2>8 DEF AppendRunEvent
    <3>3. q.events = [i \in 1 .. q.last |-> i]
      BY DEF GoodPage, TruePage
    <3>4. /\ Append(q.events, n) = [i \in 1 .. n |-> i]
          /\ [i \in 1 .. n |-> i] \in Seq(1 .. n)
      BY <3>1, <3>3, <2>2, Iota
    <3>5. Append(q.events, n) \in Seq(1 .. MaxEvents)
      BY <3>4 DEF GoodPage, Pages
    <3>6. PICK es : es = Append(q.events, n)
      OBVIOUS
    <3>7. HandleEvent(q, n) = [t EXCEPT !.events = es, !.last = n]
      BY <3>2, <3>6
    <3>8. HandleEvent(q, n) \in Pages
      <4>1. PICK x : x = HandleEvent(q, n)
        OBVIOUS
      <4>2. x = [t EXCEPT !.events = es, !.last = n] /\ n \in 0 .. MaxEvents
        BY <4>1, <3>7 DEF StreamAssumption
      <4>3. es \in Seq(1 .. MaxEvents)
        BY <3>5, <3>6
      <4>4. x \in Pages
        BY <2>4, <4>2, <4>3 DEF Pages
      <4> QED BY <4>1, <4>4
    <3>9. q.status = "running"
      BY <3>1, <2>2 DEF GoodPage, TruePage
    <3>10. es = [i \in 1 .. n |-> i]
      BY <3>4, <3>6
    <3> HIDE DEF HandleEvent
    <3>11. /\ HandleEvent(q, n).events = es /\ HandleEvent(q, n).last = n
           /\ HandleEvent(q, n).status = q.status /\ HandleEvent(q, n).subLast = n
           /\ HandleEvent(q, n).lastId = n /\ HandleEvent(q, n).fetch = q.fetch
           /\ HandleEvent(q, n).cancel = q.cancel
      BY <2>4, <2>5, <2>6, <3>7 DEF Pages
    <3>12. TrueReply(q.fetch) /\ TrueReply(q.cancel)
      BY DEF GoodPage, TruePage
    <3> QED BY <3>8, <3>9, <3>10, <3>11, <3>12 DEF GoodPage, TruePage, Keeps
  <2> QED BY <2>7, <2>8
<1> QED BY <1>4, <1>5, <1>6

(* A completion that a page accepts finds all the output in its view. *)
LEMMA CompletionIsTrue ==
    ASSUME RunOK, StreamAssumption, NEW q, GoodPage(q),
           NEW f, f.seq = log, f.status = status, f.status \in Outcomes
    PROVE  GoodPage(HandleComplete(q, f)) /\ Keeps(q, HandleComplete(q, f))
<1>1. CASE f.seq # q.subLast
  BY <1>1, ClosingIsTrue DEF HandleComplete
<1>2. CASE f.seq = q.subLast
  <2>1. q.last = log /\ log \in 0 .. MaxEvents /\ q.subLast = log
    BY <1>2 DEF GoodPage, Pages, TruePage, RunOK
  <2>2. PICK r : r = [q EXCEPT !.status = f.status, !.stream = "idle", !.last = log]
    OBVIOUS
  <2>3. HandleComplete(q, f) = Unsubscribed(r)
    BY <1>2, <2>1, <2>2 DEF HandleComplete
  <2>4. r \in Pages
    BY <2>1, <2>2 DEF GoodPage, Pages
  <2>5. TruePage(r) /\ Keeps(q, r)
    BY <2>1, <2>2 DEF GoodPage, Pages, TruePage, Keeps
  <2> QED BY <2>3, <2>4, <2>5, ClosingIsTrue DEF GoodPage, Keeps
<1> QED BY <1>1, <1>2

(* Whatever frame the page handles. *)
LEMMA HandleIsTrue ==
    ASSUME RunOK, StreamAssumption, NEW q, GoodPage(q), NEW f \in Frames, TrueFrame(f)
    PROVE  GoodPage(Handle(q, f)) /\ Keeps(q, Handle(q, f))
<1>1. CASE f.kind = "open"
  <2>1. Handle(q, f) = [q EXCEPT !.stream = "connected"]
    BY <1>1, FrameKinds DEF Handle, HandleOpen
  <2> QED BY <2>1 DEF GoodPage, Pages, TruePage, Keeps
<1>2. CASE f.kind = "event"
  <2>1. Handle(q, f) = HandleEvent(q, f.seq)
    BY <1>2 DEF Handle
  <2> QED BY <1>2, <2>1, FrameKinds, EventIsTrue DEF TrueFrame
<1>3. CASE f.kind = "complete"
  <2>1. Handle(q, f) = HandleComplete(q, f)
    BY <1>3 DEF Handle
  <2> QED BY <1>3, <2>1, FrameKinds, CompletionIsTrue DEF TrueFrame
<1>4. CASE f.kind = "eof"
  <2>1. Handle(q, f) = Disconnected(q)
    BY <1>4 DEF Handle
  <2> QED BY <2>1, DisconnectedIsTrue
<1> QED BY <1>1, <1>2, <1>3, <1>4, FrameKinds

(* A snapshot is believed only where it cannot undo what the page shows.   *)
LEMMA ReconcileIsTrue ==
    ASSUME RunOK, StreamAssumption, NEW q, GoodPage(q), NEW r \in Replies, TrueReply(r)
    PROVE  GoodPage(Reconcile(q, r)) /\ Keeps(q, Reconcile(q, r))
<1> DEFINE refused == \/ ~q.retained
                      \/ q.status # "running" /\ r.status # q.status
                      \/ r.status = "running" /\ r.count < q.last
<1>1. CASE refused
  BY <1>1 DEF Reconcile, Keeps
<1>2. CASE ~refused
  <2>1. /\ r.count \in 0 .. MaxEvents /\ r.status \in Outcomes \cup {"running"}
        /\ q.last \in 0 .. MaxEvents /\ log \in Nat
    BY DEF Replies, GoodPage, Pages, RunOK, StreamAssumption
  <2>2. r.count <= log /\ (r.status # "running" => r.status = status /\ r.count = log)
    BY DEF TrueReply
  <2>3. q.last <= log /\ q.subLast <= q.last /\ q.lastId <= log
        /\ (q.status # "running" => q.status = status /\ q.last = log)
    BY DEF GoodPage, TruePage
  <2>4. q.last <= r.count
    BY <1>2, <2>1, <2>2, <2>3
  <2>5. PICK es : es = [i \in 1 .. r.count |-> i]
    OBVIOUS
  <2>6. es \in Seq(1 .. MaxEvents)
    BY <2>1, <2>5, Iota
  <2>7. PICK st : st = IF r.status = "running" THEN q.stream ELSE "idle"
    OBVIOUS
  <2>8. PICK x : x = Reconcile(q, r)
    OBVIOUS
  <2>9. (IF r.count > q.last THEN r.count ELSE q.last) = r.count
    BY <2>1, <2>4
  <2>10. x = [q EXCEPT !.status = r.status, !.events = es, !.last = r.count, !.stream = st]
    BY <1>2, <2>5, <2>7, <2>8, <2>9 DEF Reconcile
  <2>11. x \in Pages
    BY <2>1, <2>6, <2>7, <2>10 DEF GoodPage, Pages
  <2>12. /\ x.status = r.status /\ x.events = es /\ x.last = r.count /\ x.subLast = q.subLast
         /\ x.lastId = q.lastId /\ x.fetch = q.fetch /\ x.cancel = q.cancel
    BY <2>10 DEF GoodPage, Pages
  <2>13. q.subLast \in Nat
    BY DEF GoodPage, Pages
  <2>14. TruePage(x)
    BY <2>1, <2>2, <2>3, <2>4, <2>5, <2>12, <2>13 DEF TruePage, GoodPage
  <2>15. Keeps(q, x)
    BY <1>2, <2>2, <2>3, <2>12 DEF Keeps
  <2> QED BY <2>8, <2>11, <2>14, <2>15 DEF GoodPage
<1> QED BY <1>1, <1>2

(* Whatever answer the page receives. *)
LEMMA AnsweredIsTrue ==
    ASSUME RunOK, StreamAssumption, NEW q, GoodPage(q), NEW r \in Replies, TrueReply(r)
    PROVE  GoodPage(Answered(q, r)) /\ Keeps(q, Answered(q, r))
<1>1. CASE r.state = "not-found"
  <2>1. Answered(q, r) = [q EXCEPT !.retained = FALSE, !.stream = "stopped"]
    BY <1>1 DEF Answered
  <2> QED BY <2>1 DEF GoodPage, Pages, TruePage, Keeps
<1>2. CASE r.state # "not-found"
  BY <1>2, ReconcileIsTrue DEF Answered
<1> QED BY <1>1, <1>2

-----------------------------------------------------------------------------
(* Steps: one page, its connection and the slots *)

(* The invariant, part by part. *)
LEMMA StreamParts ==
    ASSUME StreamInv
    PROVE  /\ RunOK /\ slots \in 0 .. MaxStreams /\ stale \in 0 .. MaxStreams
           /\ conn \in [Viewers -> Conns] /\ page \in [Viewers -> Pages]
           /\ \A v \in Viewers : GoodPage(page[v]) /\ GoodConn(conn[v])
           /\ SlotsAccounted /\ IsFiniteSet(Handlers)
<1>1. conn \in [Viewers -> Conns] /\ page \in [Viewers -> Pages]
  BY DEF StreamInv, TypeOK, Conns, Pages
<1>2. \A v \in Viewers : GoodPage(page[v]) /\ GoodConn(conn[v])
  BY <1>1 DEF StreamInv, GoodPage, GoodConn
<1> QED BY <1>1, <1>2 DEF StreamInv, TypeOK, RunOK

(* The three things that happen to the slot of a page: nothing, its handler *)
(* takes it, its handler gives it up or keeps it without a client.         *)
SlotMove(v, c) ==
    \/ /\ (c.state = "none") <=> (conn[v].state = "none")
       /\ slots' = slots /\ stale' = stale
    \/ /\ conn[v].state = "none" /\ c.state # "none" /\ SlotFree
       /\ slots' = slots + 1 /\ stale' = stale
    \/ /\ conn[v].state # "none" /\ c.state = "none"
       /\ \/ slots' = slots - 1 /\ stale' = stale
          \/ slots' = slots /\ stale' = stale + 1

(* No way through the handlers leaks a slot. *)
LEMMA SlotsStep ==
    ASSUME StreamInv, StreamAssumption, NEW v \in Viewers, NEW c,
           conn' = [conn EXCEPT ![v] = c], SlotMove(v, c)
    PROVE  /\ SlotsAccounted' /\ IsFiniteSet(Handlers')
           /\ slots' \in 0 .. MaxStreams /\ stale' \in 0 .. MaxStreams
<1>1. /\ slots \in 0 .. MaxStreams /\ stale \in 0 .. MaxStreams /\ conn \in [Viewers -> Conns]
      /\ slots = Cardinality(Handlers) + stale /\ IsFiniteSet(Handlers) /\ MaxStreams \in Nat
  BY StreamParts DEF SlotsAccounted, StreamAssumption
<1>2. \A u \in Viewers : conn'[u] = IF u = v THEN c ELSE conn[u]
  BY <1>1
<1>3. Cardinality(Handlers) \in Nat
  BY <1>1, FS_CardinalityType
<1>4. CASE /\ (c.state = "none") <=> (conn[v].state = "none")
           /\ slots' = slots /\ stale' = stale
  <2>1. Handlers' = Handlers
    BY <1>2, <1>4 DEF Handlers
  <2> QED BY <1>1, <1>4, <2>1 DEF SlotsAccounted
<1>5. CASE /\ conn[v].state = "none" /\ c.state # "none" /\ SlotFree
           /\ slots' = slots + 1 /\ stale' = stale
  <2>1. Handlers' = Handlers \cup {v} /\ v \notin Handlers
    BY <1>2, <1>5 DEF Handlers
  <2>2. IsFiniteSet(Handlers') /\ Cardinality(Handlers') = Cardinality(Handlers) + 1
    BY <1>1, <2>1, FS_AddElement
  <2> QED BY <1>1, <1>3, <1>5, <2>2 DEF SlotsAccounted, SlotFree
<1>6. CASE /\ conn[v].state # "none" /\ c.state = "none"
           /\ \/ slots' = slots - 1 /\ stale' = stale
              \/ slots' = slots /\ stale' = stale + 1
  <2>1. Handlers' = Handlers \ {v} /\ v \in Handlers
    BY <1>2, <1>6 DEF Handlers
  <2>2. IsFiniteSet(Handlers') /\ Cardinality(Handlers') = Cardinality(Handlers) - 1
    BY <1>1, <2>1, FS_RemoveElement
  <2>3. Cardinality(Handlers') \in Nat
    BY <2>2, FS_CardinalityType
  <2> QED BY <1>1, <1>3, <1>6, <2>2, <2>3 DEF SlotsAccounted
<1> QED BY <1>4, <1>5, <1>6 DEF SlotMove

(* A step of one page or of its handler keeps the invariant when what it   *)
(* leaves of both is true, and nothing final is taken back.                *)
LEMMA PageStep ==
    ASSUME StreamInv, StreamAssumption, UNCHANGED runVars,
           NEW v \in Viewers, NEW q, NEW c,
           GoodPage(q), Keeps(page[v], q), page' = [page EXCEPT ![v] = q],
           GoodConn(c), conn' = [conn EXCEPT ![v] = c], SlotMove(v, c)
    PROVE  StreamInv' /\ \A u \in Viewers : Keeps(page[u], page'[u])
<1>1. /\ RunOK /\ conn \in [Viewers -> Conns] /\ page \in [Viewers -> Pages]
      /\ \A u \in Viewers : GoodPage(page[u]) /\ GoodConn(conn[u])
  BY StreamParts
<1>2. /\ SlotsAccounted' /\ IsFiniteSet(Handlers')
      /\ slots' \in 0 .. MaxStreams /\ stale' \in 0 .. MaxStreams
  BY SlotsStep
<1>3. \A u \in Viewers : /\ page'[u] = IF u = v THEN q ELSE page[u]
                         /\ conn'[u] = IF u = v THEN c ELSE conn[u]
  BY <1>1
<1>4. \A u \in Viewers : GoodPage(page'[u]) /\ GoodConn(conn'[u]) /\ Keeps(page[u], page'[u])
  BY <1>1, <1>3 DEF Keeps
<1>5. log' = log /\ gen' = gen /\ status' = status /\ retained' = retained
  BY DEF runVars
<1>6. \A u \in Viewers : TruePage(page[u])' /\ TrueConn(conn[u])'
  BY <1>4, <1>5 DEF GoodPage, GoodConn, TruePage, TrueConn, TrueReply, TrueFrames, TrueFrame
<1>7. conn' \in [Viewers -> Conns] /\ page' \in [Viewers -> Pages]
  BY <1>1, <1>4 DEF GoodPage, GoodConn
<1>8. TypeOK'
  BY <1>1, <1>2, <1>5, <1>7 DEF TypeOK, Conns, Pages, RunOK
<1> QED BY <1>2, <1>4, <1>6, <1>8 DEF StreamInv

(* A connection that is not there. *)
LEMMA NoConnGood ==
    ASSUME RunOK, StreamAssumption PROVE GoodConn(NoConn) /\ NoConn.state = "none"
BY PlainFrames DEF NoConn, GoodConn, Conns, TrueConn, RunOK

(* A page whose connection stays as it is, and one that hangs up.          *)
LEMMA PageAlone ==
    ASSUME StreamInv, StreamAssumption, UNCHANGED <<runVars, slots>>,
           NEW v \in Viewers, NEW q, GoodPage(q), Keeps(page[v], q),
           page' = [page EXCEPT ![v] = q],
           UNCHANGED <<conn, stale>> \/ Hangup(v)
    PROVE  StreamInv' /\ \A u \in Viewers : Keeps(page[u], page'[u])
<1>1. conn \in [Viewers -> Conns] /\ GoodConn(conn[v]) /\ RunOK
  BY StreamParts
<1>2. CASE UNCHANGED <<conn, stale>>
  <2>1. PICK c : c = conn[v]
    OBVIOUS
  <2>2. conn' = [conn EXCEPT ![v] = c] /\ GoodConn(c) /\ SlotMove(v, c)
    BY <1>1, <1>2, <2>1 DEF SlotMove
  <2> QED BY <2>2, PageStep
<1>3. CASE Hangup(v)
  <2>1. PICK c : c = NoConn
    OBVIOUS
  <2>2. conn' = [conn EXCEPT ![v] = c] /\ GoodConn(c) /\ SlotMove(v, c)
    BY <1>1, <1>3, <2>1, NoConnGood DEF SlotMove, Hangup
  <2> QED BY <2>2, PageStep
<1> QED BY <1>2, <1>3

(* A handler whose page does not notice.                                   *)
LEMMA ConnAlone ==
    ASSUME StreamInv, StreamAssumption, UNCHANGED <<runVars, page>>,
           NEW v \in Viewers, NEW c, GoodConn(c),
           conn' = [conn EXCEPT ![v] = c], SlotMove(v, c)
    PROVE  StreamInv' /\ \A u \in Viewers : Keeps(page[u], page'[u])
<1>1. page \in [Viewers -> Pages] /\ GoodPage(page[v])
  BY StreamParts
<1>2. PICK q : q = page[v]
  OBVIOUS
<1>3. page' = [page EXCEPT ![v] = q] /\ GoodPage(q) /\ Keeps(page[v], q)
  BY <1>1, <1>2 DEF Keeps
<1> QED BY <1>3, PageStep

-----------------------------------------------------------------------------
(* The server's steps *)

(* An event is recorded: whoever waits is woken, nobody's view is affected. *)
LEMMA RecordEventKeeps ==
    ASSUME StreamInv, StreamAssumption, RecordEvent
    PROVE  StreamInv' /\ \A u \in Viewers : Keeps(page[u], page'[u])
<1>1. /\ RunOK /\ slots \in 0 .. MaxStreams /\ stale \in 0 .. MaxStreams
      /\ conn \in [Viewers -> Conns] /\ page \in [Viewers -> Pages]
      /\ \A v \in Viewers : GoodPage(page[v]) /\ GoodConn(conn[v])
      /\ SlotsAccounted /\ IsFiniteSet(Handlers)
  BY StreamParts
<1>2. /\ status = "running" /\ log' = log + 1 /\ gen' = gen + 1 /\ log' \in 0 .. MaxEvents
      /\ log \in Nat /\ gen \in Nat /\ status' = status /\ retained' = retained
      /\ conn' = conn /\ page' = page /\ slots' = slots /\ stale' = stale
  BY <1>1 DEF RecordEvent, RunOK, StreamAssumption
<1>3. \A f \in Frames : TrueFrame(f) => TrueFrame(f)'
  <2> SUFFICES ASSUME NEW f \in Frames, TrueFrame(f) PROVE TrueFrame(f)'
    OBVIOUS
  <2>1. f.kind # "complete"
    BY <1>2, FrameKinds DEF TrueFrame, StreamAssumption
  <2>2. f.kind = "event" => f.seq \in Nat /\ f.seq <= log
    BY FrameKinds DEF TrueFrame
  <2> QED BY <1>2, <2>1, <2>2 DEF TrueFrame
<1>4. \A s \in Seq(Frames) : TrueFrames(s) => TrueFrames(s)'
  BY <1>3 DEF TrueFrames
<1>5. ASSUME NEW v \in Viewers PROVE TruePage(page[v])'
  <2>1. page[v] \in Pages /\ TruePage(page[v])
    BY <1>1 DEF GoodPage
  <2>2. /\ page[v].last \in Nat /\ page[v].lastId \in Nat
        /\ page[v].fetch.count \in Nat /\ page[v].cancel.count \in Nat
    BY <2>1 DEF Pages, Replies
  <2> QED BY <1>2, <2>1, <2>2 DEF TruePage, TrueReply
<1>6. ASSUME NEW v \in Viewers PROVE TrueConn(conn[v])'
  <2>1. conn[v] \in Conns /\ TrueConn(conn[v])
    BY <1>1 DEF GoodConn
  <2>2. /\ conn[v].cursor \in Nat /\ conn[v].gen \in Nat
        /\ conn[v].batch \in Seq(Frames) /\ conn[v].wire \in Seq(Frames)
    BY <2>1 DEF Conns
  <2>3. TrueFrames(conn[v].batch)' /\ TrueFrames(conn[v].wire)'
    <3>1. PICK b, w : b = conn[v].batch /\ w = conn[v].wire
      OBVIOUS
    <3>2. TrueFrames(b)' /\ TrueFrames(w)'
      BY <1>4, <2>1, <2>2, <3>1 DEF TrueConn
    <3> QED BY <1>2, <3>1, <3>2
  <2> QED BY <1>2, <2>1, <2>2, <2>3 DEF TrueConn
<1>7. TypeOK'
  BY <1>1, <1>2 DEF TypeOK, Conns, Pages, RunOK
<1>8. SlotsAccounted' /\ IsFiniteSet(Handlers')
  BY <1>1, <1>2 DEF SlotsAccounted, Handlers
<1> QED BY <1>2, <1>5, <1>6, <1>7, <1>8 DEF StreamInv, Keeps

(* The run ends: nothing that was said before claimed that it had.          *)
LEMMA FinishRunKeeps ==
    ASSUME StreamInv, StreamAssumption, FinishRun
    PROVE  StreamInv' /\ \A u \in Viewers : Keeps(page[u], page'[u])
<1>1. /\ RunOK /\ slots \in 0 .. MaxStreams /\ stale \in 0 .. MaxStreams
      /\ conn \in [Viewers -> Conns] /\ page \in [Viewers -> Pages]
      /\ \A v \in Viewers : GoodPage(page[v]) /\ GoodConn(conn[v])
      /\ SlotsAccounted /\ IsFiniteSet(Handlers)
  BY StreamParts
<1>2. /\ status = "running" /\ status' \in Outcomes /\ gen' = gen + 1 /\ gen \in Nat
      /\ log' = log /\ retained' = retained
      /\ conn' = conn /\ page' = page /\ slots' = slots /\ stale' = stale
  BY <1>1 DEF FinishRun, RunOK, StreamAssumption
<1>3. \A f \in Frames : TrueFrame(f) => TrueFrame(f)'
  <2> SUFFICES ASSUME NEW f \in Frames, TrueFrame(f) PROVE TrueFrame(f)'
    OBVIOUS
  <2>1. f.kind # "complete"
    BY <1>2, FrameKinds DEF TrueFrame, StreamAssumption
  <2> QED BY <1>2, <2>1 DEF TrueFrame
<1>4. \A s \in Seq(Frames) : TrueFrames(s) => TrueFrames(s)'
  BY <1>3 DEF TrueFrames
<1>5. ASSUME NEW v \in Viewers PROVE TruePage(page[v])'
  <2>1. page[v] \in Pages /\ TruePage(page[v])
    BY <1>1 DEF GoodPage
  <2>2. page[v].status = "running"
    BY <1>2, <2>1 DEF TruePage
  <2>3. page[v].fetch.status = "running" /\ page[v].cancel.status = "running"
    BY <1>2, <2>1 DEF TruePage, TrueReply
  <2> QED BY <1>2, <2>1, <2>2, <2>3 DEF TruePage, TrueReply
<1>6. ASSUME NEW v \in Viewers PROVE TrueConn(conn[v])'
  <2>1. conn[v] \in Conns /\ TrueConn(conn[v])
    BY <1>1 DEF GoodConn
  <2>2. /\ conn[v].cursor \in Nat /\ conn[v].gen \in Nat
        /\ conn[v].batch \in Seq(Frames) /\ conn[v].wire \in Seq(Frames)
    BY <2>1 DEF Conns
  <2>3. TrueFrames(conn[v].batch)' /\ TrueFrames(conn[v].wire)'
    <3>1. PICK b, w : b = conn[v].batch /\ w = conn[v].wire
      OBVIOUS
    <3>2. TrueFrames(b)' /\ TrueFrames(w)'
      BY <1>4, <2>1, <2>2, <3>1 DEF TrueConn
    <3> QED BY <1>2, <3>1, <3>2
  <2> QED BY <1>2, <2>1, <2>2, <2>3 DEF TrueConn
<1>7. TypeOK'
  BY <1>1, <1>2 DEF TypeOK, Conns, Pages, RunOK
<1>8. SlotsAccounted' /\ IsFiniteSet(Handlers')
  BY <1>1, <1>2 DEF SlotsAccounted, Handlers
<1> QED BY <1>2, <1>5, <1>6, <1>7, <1>8 DEF StreamInv, Keeps

(* The run is evicted, or a handler without a client gives its slot back.   *)
LEMMA OtherServerKeeps ==
    ASSUME StreamInv, StreamAssumption, EvictRun \/ StaleEnds
    PROVE  StreamInv' /\ \A u \in Viewers : Keeps(page[u], page'[u])
<1>1. /\ RunOK /\ slots \in 0 .. MaxStreams /\ stale \in 0 .. MaxStreams
      /\ conn \in [Viewers -> Conns] /\ page \in [Viewers -> Pages]
      /\ \A v \in Viewers : GoodPage(page[v]) /\ GoodConn(conn[v])
      /\ SlotsAccounted /\ IsFiniteSet(Handlers)
  BY StreamParts
<1>2. /\ log' = log /\ gen' = gen /\ status' = status /\ conn' = conn /\ page' = page
      /\ retained' \in BOOLEAN
  BY <1>1 DEF EvictRun, StaleEnds, runVars, RunOK
<1>3. Cardinality(Handlers) \in Nat /\ MaxStreams \in Nat
  BY <1>1, FS_CardinalityType DEF StreamAssumption
<1>4. /\ slots' \in 0 .. MaxStreams /\ stale' \in 0 .. MaxStreams
      /\ slots' - stale' = slots - stale
  BY <1>1, <1>3 DEF EvictRun, StaleEnds, SlotsAccounted
<1>5. SlotsAccounted' /\ IsFiniteSet(Handlers')
  BY <1>1, <1>2, <1>3, <1>4 DEF SlotsAccounted, Handlers
<1>6. \A v \in Viewers : TruePage(page[v])' /\ TrueConn(conn[v])'
  BY <1>1, <1>2 DEF GoodPage, GoodConn, TruePage, TrueConn, TrueReply, TrueFrames, TrueFrame
<1>7. TypeOK'
  BY <1>1, <1>2, <1>4 DEF TypeOK, Conns, Pages, RunOK
<1> QED BY <1>2, <1>5, <1>6, <1>7 DEF StreamInv, Keeps

(* A handler starts where the page says it is, reads and waits. *)
LEMMA HandlerReads ==
    ASSUME StreamInv, StreamAssumption, NEW v \in Viewers,
           Accept(v) \/ ReadRecord(v) \/ Wake(v) \/ Heartbeat(v)
    PROVE  StreamInv' /\ \A u \in Viewers : Keeps(page[u], page'[u])
<1>1. /\ RunOK /\ conn \in [Viewers -> Conns] /\ conn[v] \in Conns /\ TrueConn(conn[v])
      /\ page[v] \in Pages /\ TruePage(page[v])
  BY StreamParts DEF GoodPage, GoodConn
<1>2. PICK old : old = conn[v]
  OBVIOUS
<1>3. old \in Conns /\ TrueConn(old)
  BY <1>1, <1>2
<1>4. Opening(old) \in Seq(Frames) /\ TrueFrames(Opening(old))
  <2>1. <<[kind |-> "open"]>> \in Seq(Frames)
    BY PlainFrames
  <2>2. TrueFrames(<<[kind |-> "open"]>>)
    BY PlainFrames DEF TrueFrames
  <2> QED BY <2>1, <2>2, PlainFrames DEF Opening
<1>5. PICK w : w = old.wire \o Opening(old)
  OBVIOUS
<1>6. w \in Seq(Frames) /\ TrueFrames(w)
  <2>1. old.wire \in Seq(Frames) /\ TrueFrames(old.wire)
    BY <1>3 DEF Conns, TrueConn
  <2> QED BY <1>4, <1>5, <2>1, ConcatTrue
<1>7. CASE Accept(v)
  <2>1. PICK c : c = [NoConn EXCEPT !.state = "reading", !.cursor = page[v].lastId]
    OBVIOUS
  <2>2. page[v].lastId \in 0 .. MaxEvents /\ page[v].lastId <= log
    BY <1>1 DEF Pages, TruePage
  <2>3. GoodConn(c) /\ c.state = "reading"
    <3>1. PICK n : n = NoConn
      OBVIOUS
    <3>2. n \in Conns /\ n.batch = <<>> /\ n.wire = <<>> /\ n.gen = 0
      BY <1>1, <3>1, NoConnGood DEF GoodConn, NoConn
    <3>3. /\ c.state = "reading" /\ c.cursor = page[v].lastId
          /\ c.batch = <<>> /\ c.wire = <<>> /\ c.gen = 0 /\ c \in Conns
      BY <2>1, <2>2, <3>1, <3>2 DEF Conns
    <3> QED BY <1>1, <2>2, <3>3, PlainFrames DEF GoodConn, TrueConn, RunOK
  <2>4. /\ conn' = [conn EXCEPT ![v] = c] /\ UNCHANGED <<runVars, page>>
        /\ SlotMove(v, c)
    BY <1>7, <2>1, <2>3 DEF Accept, SlotMove
  <2> QED BY <2>3, <2>4, ConnAlone
<1>8. CASE ReadRecord(v)
  <2>1. PICK b : b = Batch(old.cursor)
    OBVIOUS
  <2>2. old.cursor \in 0 .. MaxEvents /\ old.cursor <= log
    BY <1>3 DEF Conns, TrueConn
  <2>3. b \in Seq(Frames) /\ TrueFrames(b) /\ Payload(b) /\ (b = <<>> => old.cursor = log /\ status = "running")
    BY <1>1, <2>1, <2>2, BatchTrue
  <2>4. PICK c : c = IF b # <<>>
                     THEN [old EXCEPT !.state = "writing", !.batch = b, !.opened = TRUE, !.wire = w]
                     ELSE [old EXCEPT !.state = "waiting", !.gen = gen]
    OBVIOUS
  <2>5. /\ old.state = "reading" /\ conn' = [conn EXCEPT ![v] = c]
        /\ UNCHANGED <<runVars, slots, stale, page>>
    <3>1. [old EXCEPT !.state = "writing", !.batch = Batch(old.cursor),
                      !.opened = TRUE, !.wire = @ \o Opening(old)]
             = [old EXCEPT !.state = "writing", !.batch = b, !.opened = TRUE, !.wire = w]
      BY <1>5, <2>1
    <3> QED BY <1>2, <1>8, <2>1, <2>4, <3>1 DEF ReadRecord
  <2>6. GoodConn(c) /\ c.state # "none"
    <3>1. CASE b # <<>>
      <4>1. c \in Conns /\ c.state = "writing" /\ c.batch = b /\ c.wire = w
            /\ c.cursor = old.cursor /\ c.gen = old.gen
        BY <3>1, <1>3, <1>6, <2>3, <2>4 DEF Conns
      <4> QED BY <4>1, <3>1, <1>3, <1>6, <2>3 DEF GoodConn, TrueConn
    <3>2. CASE b = <<>>
      <4>1. c \in Conns /\ c.state = "waiting" /\ c.batch = old.batch /\ c.wire = old.wire
            /\ c.cursor = old.cursor /\ c.gen = gen
        BY <3>2, <1>1, <1>3, <2>4 DEF Conns, RunOK
      <4> QED BY <4>1, <3>2, <1>1, <1>3, <2>2, <2>3 DEF GoodConn, TrueConn, RunOK
    <3> QED BY <3>1, <3>2
  <2>7. SlotMove(v, c)
    BY <1>2, <2>5, <2>6 DEF SlotMove
  <2> QED BY <2>5, <2>6, <2>7, ConnAlone
<1>9. CASE Wake(v)
  <2>1. PICK c : c = [old EXCEPT !.state = "reading"]
    OBVIOUS
  <2>2. GoodConn(c) /\ c.state = "reading"
    BY <1>3, <2>1 DEF GoodConn, Conns, TrueConn
  <2>3. conn' = [conn EXCEPT ![v] = c] /\ UNCHANGED <<runVars, page>> /\ SlotMove(v, c)
    BY <1>1, <1>2, <1>9, <2>1, <2>2 DEF Wake, SlotMove
  <2> QED BY <2>2, <2>3, ConnAlone
<1>10. CASE Heartbeat(v)
  <2>1. PICK c : c = [old EXCEPT !.state = "reading", !.opened = TRUE, !.wire = w]
    OBVIOUS
  <2>2. c \in Conns /\ c.state = "reading" /\ c.batch = old.batch /\ c.wire = w
        /\ c.cursor = old.cursor /\ c.gen = old.gen
    BY <1>3, <1>6, <2>1 DEF Conns
  <2>3. GoodConn(c)
    BY <1>3, <1>6, <2>2 DEF GoodConn, TrueConn
  <2>4. /\ old.state = "waiting" /\ conn' = [conn EXCEPT ![v] = c]
        /\ UNCHANGED <<runVars, slots, stale, page>>
    BY <1>2, <1>5, <1>10, <2>1 DEF Heartbeat
  <2>5. SlotMove(v, c)
    BY <1>2, <2>2, <2>4 DEF SlotMove
  <2> QED BY <2>3, <2>4, <2>5, ConnAlone
<1> QED BY <1>7, <1>8, <1>9, <1>10

(* A handler writes what it read, or finds that the record is gone. *)
LEMMA HandlerWrites ==
    ASSUME StreamInv, StreamAssumption, NEW v \in Viewers, WriteFrame(v) \/ RecordGone(v)
    PROVE  StreamInv' /\ \A u \in Viewers : Keeps(page[u], page'[u])
<1>1. RunOK /\ conn \in [Viewers -> Conns] /\ conn[v] \in Conns /\ TrueConn(conn[v])
  BY StreamParts DEF GoodConn
<1>2. PICK old : old = conn[v]
  OBVIOUS
<1>3. old \in Conns /\ TrueConn(old)
  BY <1>1, <1>2
<1>4. /\ old.wire \in Seq(Frames) /\ TrueFrames(old.wire)
      /\ old.batch \in Seq(Frames) /\ TrueFrames(old.batch) /\ Payload(old.batch)
  BY <1>3 DEF Conns, TrueConn
<1>5. PICK eof : eof = [kind |-> "eof"]
  OBVIOUS
<1>6. eof \in Frames /\ TrueFrame(eof)
  BY <1>5, PlainFrames
<1>7. ASSUME NEW w \in Seq(Frames), TrueFrames(w), NEW c, c = [NoConn EXCEPT !.wire = w]
      PROVE  GoodConn(c) /\ c.state = "none"
  <2>1. PICK n : n = NoConn
    OBVIOUS
  <2>2. n \in Conns /\ n.batch = <<>> /\ n.state = "none" /\ n.cursor = 0 /\ n.gen = 0
    BY <1>1, <2>1, NoConnGood DEF GoodConn, NoConn
  <2>3. /\ c.state = "none" /\ c.cursor = 0
        /\ c.batch = <<>> /\ c.wire = w /\ c.gen = 0 /\ c \in Conns
    BY <1>7, <2>1, <2>2 DEF Conns
  <2> QED BY <1>1, <1>7, <2>3, PlainFrames DEF GoodConn, TrueConn, RunOK
<1>8. CASE RecordGone(v)
  <2>1. PICK w : w = Append(old.wire, eof)
    OBVIOUS
  <2>2. w \in Seq(Frames) /\ TrueFrames(w)
    BY <1>4, <1>6, <2>1, AppendTrue
  <2>3. PICK c : c = [NoConn EXCEPT !.wire = w]
    OBVIOUS
  <2>4. GoodConn(c) /\ c.state = "none"
    BY <1>7, <2>2, <2>3
  <2>5. /\ old.state = "reading" /\ conn' = [conn EXCEPT ![v] = c]
        /\ slots' = slots - 1 /\ UNCHANGED <<runVars, stale, page>>
    BY <1>2, <1>5, <1>8, <2>1, <2>3 DEF RecordGone
  <2>6. SlotMove(v, c)
    BY <1>2, <2>4, <2>5 DEF SlotMove
  <2> QED BY <2>4, <2>5, <2>6, ConnAlone
<1>9. CASE WriteFrame(v)
  <2>1. old.state = "writing" /\ old.batch # <<>>
    BY <1>2, <1>3, <1>9 DEF WriteFrame, TrueConn
  <2>2. PICK f, rest : f = Head(old.batch) /\ rest = Tail(old.batch)
    OBVIOUS
  <2>3. f \in Frames /\ TrueFrame(f) /\ rest \in Seq(Frames) /\ TrueFrames(rest)
        /\ f.kind \in {"event", "complete"} /\ Payload(rest)
    BY <1>4, <2>1, <2>2, HeadTailTrue
  <2>4. PICK w : w = Append(old.wire, f)
    OBVIOUS
  <2>5. w \in Seq(Frames) /\ TrueFrames(w)
    BY <1>4, <2>3, <2>4, AppendTrue
  <2>6. CASE f.kind = "complete"
    <3>1. PICK x : x = Append(w, eof)
      OBVIOUS
    <3>2. x \in Seq(Frames) /\ TrueFrames(x)
      BY <1>6, <2>5, <3>1, AppendTrue
    <3>3. old.wire \o <<f, eof>> = x
      <4>1. old.wire \o <<f, eof>> = Append(Append(old.wire, f), eof)
        BY <1>4, <1>6, <2>3
      <4> QED BY <2>4, <3>1, <4>1
    <3>4. PICK c : c = [NoConn EXCEPT !.wire = x]
      OBVIOUS
    <3>5. GoodConn(c) /\ c.state = "none"
      BY <1>7, <3>2, <3>4
    <3>6. /\ conn' = [conn EXCEPT ![v] = c]
          /\ slots' = slots - 1 /\ UNCHANGED <<runVars, stale, page>>
      BY <1>2, <1>5, <1>9, <2>2, <2>6, <3>3, <3>4 DEF WriteFrame
    <3>7. SlotMove(v, c)
      BY <1>2, <2>1, <3>5, <3>6 DEF SlotMove
    <3> QED BY <3>5, <3>6, <3>7, ConnAlone
  <2>7. CASE f.kind # "complete"
    <3>1. f.kind = "event" /\ f.seq \in 0 .. MaxEvents /\ f.seq <= log
      BY <2>3, <2>7, FrameKinds DEF TrueFrame, StreamAssumption
    <3>2. PICK st : st = IF rest = <<>> THEN "reading" ELSE "writing"
      OBVIOUS
    <3>3. PICK c : c = [old EXCEPT !.state = st, !.batch = rest, !.cursor = f.seq, !.wire = w]
      OBVIOUS
    <3>4. c \in Conns
      BY <1>3, <2>3, <2>5, <3>1, <3>2, <3>3 DEF Conns
    <3>5. /\ c.state = st /\ c.batch = rest /\ c.wire = w /\ c.cursor = f.seq /\ c.gen = old.gen
      BY <1>3, <3>3 DEF Conns
    <3>6. old.gen <= gen
      BY <1>3 DEF TrueConn
    <3>7. GoodConn(c) /\ c.state # "none"
      BY <2>3, <2>5, <3>1, <3>2, <3>4, <3>5, <3>6 DEF GoodConn, TrueConn
    <3>8. /\ conn' = [conn EXCEPT ![v] = c]
          /\ UNCHANGED <<runVars, slots, stale, page>>
      BY <1>2, <1>9, <2>2, <2>4, <2>7, <3>2, <3>3 DEF WriteFrame
    <3>9. SlotMove(v, c)
      BY <1>2, <2>1, <3>7, <3>8 DEF SlotMove
    <3> QED BY <3>7, <3>8, <3>9, ConnAlone
  <2> QED BY <2>6, <2>7
<1> QED BY <1>8, <1>9

-----------------------------------------------------------------------------
(* The page's steps *)

(* A page that ends its subscription in reaction to an answer. *)
LEMMA SettleKeeps ==
    ASSUME StreamInv, StreamAssumption, UNCHANGED <<runVars, slots>>,
           NEW v \in Viewers, NEW q, GoodPage(q), Keeps(page[v], q), Settle(v, q)
    PROVE  StreamInv' /\ \A u \in Viewers : Keeps(page[u], page'[u])
<1>1. RunOK
  BY StreamParts
<1>2. CASE q.source # "closed" /\ (q.status # "running" \/ ~q.retained)
  <2>1. PICK r : r = Unsubscribed(q)
    OBVIOUS
  <2>2. GoodPage(r) /\ Keeps(page[v], r)
    BY <1>1, <2>1, ClosingIsTrue DEF Keeps
  <2>3. page' = [page EXCEPT ![v] = r] /\ Hangup(v)
    BY <1>2, <2>1 DEF Settle
  <2> QED BY <2>2, <2>3, PageAlone
<1>3. CASE ~(q.source # "closed" /\ (q.status # "running" \/ ~q.retained))
  BY <1>3, PageAlone DEF Settle
<1> QED BY <1>2, <1>3

(* A page reads its stream. *)
LEMMA ReceiveKeeps ==
    ASSUME StreamInv, StreamAssumption, NEW v \in Viewers, Receive(v)
    PROVE  StreamInv' /\ \A u \in Viewers : Keeps(page[u], page'[u])
<1>1. RunOK /\ conn \in [Viewers -> Conns] /\ GoodConn(conn[v]) /\ GoodPage(page[v])
  BY StreamParts
<1>2. PICK old : old = conn[v]
  OBVIOUS
<1>3. old \in Conns /\ TrueConn(old) /\ old.wire \in Seq(Frames) /\ TrueFrames(old.wire)
  BY <1>1, <1>2 DEF GoodConn, Conns, TrueConn
<1>4. old.wire # <<>>
  BY <1>2 DEF Receive
<1>5. PICK f, w : f = Head(old.wire) /\ w = Tail(old.wire)
  OBVIOUS
<1>6. f \in Frames /\ TrueFrame(f) /\ w \in Seq(Frames) /\ TrueFrames(w)
  BY <1>3, <1>4, <1>5, HeadTailTrue
<1>7. PICK was : was = page[v]
  OBVIOUS
<1>8. PICK q : q = Handle(was, f)
  OBVIOUS
<1>9. GoodPage(q) /\ Keeps(page[v], q)
  BY <1>1, <1>6, <1>7, <1>8, HandleIsTrue
<1>10. page' = [page EXCEPT ![v] = q] /\ UNCHANGED <<runVars, slots>>
  BY <1>2, <1>5, <1>7, <1>8 DEF Receive
<1>11. CASE q.source = "closed"
  <2>1. Hangup(v)
    BY <1>2, <1>5, <1>7, <1>8, <1>11 DEF Receive
  <2> QED BY <1>9, <1>10, <2>1, PageAlone
<1>12. CASE q.source # "closed"
  <2>1. PICK c : c = [old EXCEPT !.wire = w]
    OBVIOUS
  <2>2. conn' = [conn EXCEPT ![v] = c] /\ stale' = stale
    <3>1. conn' = [conn EXCEPT ![v].wire = Tail(@)] /\ stale' = stale
      BY <1>2, <1>5, <1>7, <1>8, <1>12 DEF Receive
    <3> QED BY <1>1, <1>2, <1>5, <2>1, <3>1
  <2>3. c \in Conns /\ c.state = old.state /\ c.batch = old.batch /\ c.wire = w
        /\ c.cursor = old.cursor /\ c.gen = old.gen
    BY <1>3, <1>6, <2>1 DEF Conns
  <2>4. GoodConn(c)
    BY <1>3, <1>6, <2>3 DEF GoodConn, TrueConn
  <2>5. SlotMove(v, c)
    BY <1>2, <1>10, <2>2, <2>3 DEF SlotMove
  <2> QED BY <1>9, <1>10, <2>2, <2>4, <2>5, PageStep
<1> QED BY <1>11, <1>12

(* A connection breaks, or is refused. *)
LEMMA StreamLost ==
    ASSUME StreamInv, StreamAssumption, NEW v \in Viewers, Drop(v) \/ Reject(v)
    PROVE  StreamInv' /\ \A u \in Viewers : Keeps(page[u], page'[u])
<1>1. RunOK /\ conn \in [Viewers -> Conns] /\ GoodConn(conn[v]) /\ GoodPage(page[v])
  BY StreamParts
<1>2. PICK was : was = page[v]
  OBVIOUS
<1>3. CASE Drop(v)
  <2>1. PICK q : q = Disconnected(was)
    OBVIOUS
  <2>2. GoodPage(q) /\ Keeps(page[v], q)
    BY <1>1, <1>2, <2>1, DisconnectedIsTrue
  <2> QED BY <1>2, <1>3, <2>1, <2>2, PageAlone DEF Drop
<1>4. CASE Reject(v)
  <2>1. PICK q : q = StreamError(was)
    OBVIOUS
  <2>2. GoodPage(q) /\ Keeps(page[v], q)
    BY <1>1, <1>2, <2>1, ClosingIsTrue
  <2>3. PICK c : c = NoConn
    OBVIOUS
  <2>4. GoodConn(c) /\ c.state = "none"
    BY <1>1, <2>3, NoConnGood
  <2>5. /\ conn' = [conn EXCEPT ![v] = c] /\ page' = [page EXCEPT ![v] = q]
        /\ UNCHANGED <<runVars, stale>>
    BY <1>2, <1>4, <2>1, <2>3 DEF Reject
  <2>6. SlotMove(v, c)
    <3>1. CASE conn[v] = NoConn /\ slots' = slots
      BY <2>3, <2>4, <2>5, <3>1 DEF SlotMove
    <3>2. CASE conn[v].state = "reading" /\ slots' = slots - 1
      BY <2>4, <2>5, <3>2 DEF SlotMove
    <3> QED BY <1>4, <3>1, <3>2 DEF Reject
  <2> QED BY <2>2, <2>4, <2>5, <2>6, PageStep
<1> QED BY <1>3, <1>4

(* GET and Get answer with what is true at that moment. *)
LEMMA AnswerTrue ==
    ASSUME RunOK, StreamAssumption
    PROVE  Answer \in Replies /\ TrueReply(Answer)
<1>1. CASE retained
  BY <1>1 DEF Answer, Replies, TrueReply, RunOK, StreamAssumption
<1>2. CASE ~retained
  BY <1>2, ReplyTrue DEF Answer
<1> QED BY <1>1, <1>2

(* Requests are made, answered or fail: the view does not move. *)
LEMMA RequestKeeps ==
    ASSUME StreamInv, StreamAssumption, NEW v \in Viewers,
           \/ ServeFetch(v) \/ FetchFails(v) \/ AskCancel(v) \/ ServeCancel(v) \/ CancelFails(v)
    PROVE  StreamInv' /\ \A u \in Viewers : Keeps(page[u], page'[u])
<1>1. RunOK /\ page \in [Viewers -> Pages] /\ GoodPage(page[v])
  BY StreamParts
<1>2. PICK was : was = page[v]
  OBVIOUS
<1>3. ASSUME NEW r \in Replies, TrueReply(r), UNCHANGED <<runVars, conn, slots, stale>>,
             \/ page' = [page EXCEPT ![v].fetch = r]
             \/ page' = [page EXCEPT ![v].cancel = r]
      PROVE  StreamInv' /\ \A u \in Viewers : Keeps(page[u], page'[u])
  <2>1. PICK q : /\ page' = [page EXCEPT ![v] = q]
                 /\ q = [was EXCEPT !.fetch = r] \/ q = [was EXCEPT !.cancel = r]
    <3>1. CASE page' = [page EXCEPT ![v].fetch = r]
      BY <1>1, <1>2, <3>1
    <3>2. CASE page' = [page EXCEPT ![v].cancel = r]
      BY <1>1, <1>2, <3>2
    <3> QED BY <1>3, <3>1, <3>2
  <2>2. q \in Pages /\ was \in Pages /\ TruePage(was)
    BY <1>1, <1>2, <1>3, <2>1 DEF GoodPage, Pages
  <2>3. /\ q.status = was.status /\ q.events = was.events /\ q.last = was.last
        /\ q.subLast = was.subLast /\ q.lastId = was.lastId
        /\ q.fetch \in {r, was.fetch} /\ q.cancel \in {r, was.cancel}
    BY <2>1, <2>2 DEF Pages
  <2>4. TruePage(q) /\ Keeps(was, q)
    BY <1>3, <2>2, <2>3 DEF TruePage, Keeps
  <2> QED BY <1>2, <1>3, <2>1, <2>2, <2>4, PageAlone DEF GoodPage
<1>4. CASE ServeFetch(v) \/ ServeCancel(v)
  <2>1. PICK r : r = Answer
    OBVIOUS
  <2> QED BY <1>1, <1>3, <1>4, <2>1, AnswerTrue DEF ServeFetch, ServeCancel
<1>5. CASE FetchFails(v) \/ CancelFails(v)
  <2>1. PICK r : r = Reply("none")
    OBVIOUS
  <2> QED BY <1>1, <1>3, <1>5, <2>1, ReplyTrue DEF FetchFails, CancelFails
<1>6. CASE AskCancel(v)
  <2>1. PICK r : r = Reply("asked")
    OBVIOUS
  <2> QED BY <1>1, <1>3, <1>6, <2>1, ReplyTrue DEF AskCancel
<1> QED BY <1>4, <1>5, <1>6

(* Answers reach the page, however late. *)
LEMMA AnswerArrives ==
    ASSUME StreamInv, StreamAssumption, NEW v \in Viewers, ReceiveFetch(v) \/ ReceiveCancel(v)
    PROVE  StreamInv' /\ \A u \in Viewers : Keeps(page[u], page'[u])
<1>1. RunOK /\ GoodPage(page[v])
  BY StreamParts
<1>2. PICK was : was = page[v]
  OBVIOUS
<1>3. ASSUME NEW q, NEW r, NEW n \in Replies, TrueReply(n), r \in {was.fetch, was.cancel},
             q = [was EXCEPT !.fetch = n] \/ q = [was EXCEPT !.cancel = n]
      PROVE  GoodPage(Answered(q, r)) /\ Keeps(was, Answered(q, r))
  <2>1. q \in Pages /\ was \in Pages /\ TruePage(was)
    BY <1>1, <1>2, <1>3 DEF GoodPage, Pages
  <2>2. /\ q.status = was.status /\ q.events = was.events /\ q.last = was.last
        /\ q.subLast = was.subLast /\ q.lastId = was.lastId
        /\ q.fetch \in {n, was.fetch} /\ q.cancel \in {n, was.cancel}
    BY <1>3, <2>1 DEF Pages
  <2>3. TruePage(q) /\ Keeps(was, q)
    BY <1>3, <2>1, <2>2 DEF TruePage, Keeps
  <2>4. r \in Replies /\ TrueReply(r)
    BY <1>3, <2>1 DEF Pages, TruePage
  <2>5. GoodPage(Answered(q, r)) /\ Keeps(q, Answered(q, r))
    BY <1>1, <2>1, <2>3, <2>4, AnsweredIsTrue DEF GoodPage
  <2> QED BY <2>2, <2>5 DEF Keeps
<1>4. CASE ReceiveFetch(v)
  <2>1. PICK n : n = Reply("none")
    OBVIOUS
  <2>2. PICK q, r : q = [was EXCEPT !.fetch = n] /\ r = was.fetch
    OBVIOUS
  <2>3. PICK x : x = Answered(q, r)
    OBVIOUS
  <2>4. GoodPage(x) /\ Keeps(was, x)
    BY <1>1, <1>3, <2>1, <2>2, <2>3, ReplyTrue
  <2>5. Settle(v, x) /\ UNCHANGED <<runVars, slots>>
    BY <1>2, <1>4, <2>1, <2>2, <2>3 DEF ReceiveFetch
  <2> QED BY <1>2, <2>4, <2>5, SettleKeeps
<1>5. CASE ReceiveCancel(v)
  <2>1. PICK n : n = Reply("answered")
    OBVIOUS
  <2>2. PICK q, r : q = [was EXCEPT !.cancel = n] /\ r = was.cancel
    OBVIOUS
  <2>3. PICK x : x = Answered(q, r)
    OBVIOUS
  <2>4. GoodPage(x) /\ Keeps(was, x)
    BY <1>1, <1>3, <2>1, <2>2, <2>3, ReplyTrue
  <2>5. Settle(v, x) /\ UNCHANGED <<runVars, slots>>
    BY <1>2, <1>5, <2>1, <2>2, <2>3 DEF ReceiveCancel
  <2> QED BY <1>2, <2>4, <2>5, SettleKeeps
<1> QED BY <1>4, <1>5

(* A new subscription replays from the start what the page already shows.  *)
LEMMA RetryKeeps ==
    ASSUME StreamInv, StreamAssumption, NEW v \in Viewers, RetryStream(v)
    PROVE  StreamInv' /\ \A u \in Viewers : Keeps(page[u], page'[u])
<1>1. RunOK /\ page \in [Viewers -> Pages] /\ GoodPage(page[v])
  BY StreamParts
<1>2. PICK was, n : was = page[v] /\ n = Reply("none")
  OBVIOUS
<1>3. n \in Replies /\ TrueReply(n)
  BY <1>1, <1>2, ReplyTrue
<1>4. PICK q : q = [was EXCEPT !.stream = "connecting", !.source = "connecting",
                               !.subLast = 0, !.lastId = 0, !.failures = 0, !.fetch = n]
  OBVIOUS
<1>5. 0 \in 0 .. MaxEvents /\ 0 \in 0 .. MaxStreamFailures - 1
  BY DEF StreamAssumption
<1>6. was \in Pages /\ TruePage(was) /\ q \in Pages
  BY <1>1, <1>2, <1>3, <1>4, <1>5 DEF GoodPage, Pages
<1>7. /\ q.status = was.status /\ q.events = was.events /\ q.last = was.last
      /\ q.subLast = 0 /\ q.lastId = 0 /\ q.fetch = n /\ q.cancel = was.cancel
      /\ was.last \in Nat
  BY <1>4, <1>6 DEF Pages
<1>8. TruePage(q) /\ Keeps(was, q)
  BY <1>1, <1>3, <1>6, <1>7 DEF TruePage, Keeps, RunOK
<1>9. page' = [page EXCEPT ![v] = q] /\ UNCHANGED <<runVars, conn, slots, stale>>
  BY <1>2, <1>4 DEF RetryStream
<1> QED BY <1>2, <1>6, <1>8, <1>9, PageAlone DEF GoodPage

-----------------------------------------------------------------------------
(* The theorems *)

(* A page right after createRun. *)
LEMMA Initially ==
    ASSUME StreamAssumption, Init PROVE StreamInv
<1>1. RunOK /\ slots = 0 /\ stale = 0 /\ MaxStreams \in Nat
  BY DEF Init, RunOK, StreamAssumption
<1>2. GoodConn(NoConn) /\ NoConn.state = "none"
  BY <1>1, NoConnGood
<1>3. GoodPage(NewPage)
  <2>1. PICK n : n = Reply("none")
    OBVIOUS
  <2>2. n \in Replies /\ TrueReply(n)
    BY <1>1, <2>1, ReplyTrue
  <2>3. NewPage = [status |-> "running", events |-> <<>>, last |-> 0, retained |-> TRUE,
                   stream |-> "connecting", source |-> "connecting", subLast |-> 0,
                   lastId |-> 0, failures |-> 0, fetch |-> n, cancel |-> n]
    BY <2>1 DEF NewPage
  <2>4. <<>> = [i \in 1 .. 0 |-> i] /\ <<>> \in Seq(1 .. MaxEvents)
    OBVIOUS
  <2>5. 0 \in 0 .. MaxEvents /\ 0 \in 0 .. MaxStreamFailures - 1 /\ 0 <= log
    BY <1>1 DEF StreamAssumption, RunOK
  <2> QED BY <2>2, <2>3, <2>4, <2>5 DEF GoodPage, Pages, TruePage
<1>4. \A v \in Viewers : conn[v] = NoConn /\ page[v] = NewPage
  BY DEF Init
<1>5. conn \in [Viewers -> Conns] /\ page \in [Viewers -> Pages]
  BY <1>2, <1>3 DEF Init, GoodConn, GoodPage
<1>6. Handlers = {}
  BY <1>2, <1>4 DEF Handlers
<1>7. SlotsAccounted /\ IsFiniteSet(Handlers)
  BY <1>1, <1>6, FS_EmptySet DEF SlotsAccounted
<1>8. TypeOK
  BY <1>1, <1>5 DEF TypeOK, Conns, Pages, RunOK
<1> QED BY <1>2, <1>3, <1>4, <1>7, <1>8 DEF StreamInv, GoodConn, GoodPage

(* Every step. *)
LEMMA EveryStep ==
    ASSUME StreamInv, StreamAssumption, [Next]_vars
    PROVE  StreamInv' /\ \A u \in Viewers : Keeps(page[u], page'[u])
<1>1. CASE UNCHANGED vars
  BY <1>1 DEF vars, runVars, StreamInv, TypeOK, TruePage, TrueConn, TrueReply, TrueFrames, TrueFrame,
              Payload, SlotsAccounted, Handlers, Keeps
<1>2. CASE RecordEvent \/ FinishRun \/ EvictRun \/ StaleEnds
  BY <1>2, RecordEventKeeps, FinishRunKeeps, OtherServerKeeps
<1>3. ASSUME NEW v \in Viewers,
             \/ ServerStep(v) \/ ClientStep(v) \/ Heartbeat(v) \/ Drop(v) \/ FetchFails(v)
             \/ CancelFails(v) \/ AskCancel(v) \/ RetryStream(v)
      PROVE  StreamInv' /\ \A u \in Viewers : Keeps(page[u], page'[u])
  BY <1>3, HandlerReads, HandlerWrites, ReceiveKeeps, StreamLost, RequestKeeps, AnswerArrives,
     RetryKeeps DEF ServerStep, ClientStep
<1> QED BY <1>1, <1>2, <1>3 DEF Next

(* The invariant holds in every state. *)
THEOREM StreamInvariant == Spec => []StreamInv
<1>1. Init => StreamInv
  BY StreamAssumption, Initially
<1>2. StreamInv /\ [Next]_vars => StreamInv'
  BY StreamAssumption, EveryStep
<1> QED BY <1>1, <1>2, PTL DEF Spec

(* What a page shows is a prefix of the log at every moment, and all of it *)
(* with the real outcome once it says that the run is over, through every   *)
(* reconnect, replay and late answer (applySnapshot, handleEvent).          *)
THEOREM ViewIsFaithful == Spec => []ViewFaithful
<1>1. StreamInv => ViewFaithful
  BY DEF StreamInv, ViewFaithful, ViewIsPrefix, FinishedViewIsComplete, TruePage
<1> QED BY <1>1, StreamInvariant, PTL

(* A handler that waits has sent everything, and every occupied slot has a  *)
(* handler that will give it back (WaitEvents, handleRunEvents).            *)
THEOREM NobodyIsStarved == Spec => []StreamServed
<1>1. StreamInv => StreamServed
  BY DEF StreamInv, StreamServed, NoMissedWakeup, TrueConn
<1> QED BY <1>1, StreamInvariant, PTL

(* No late answer and no replay takes back what a page has shown as final.  *)
THEOREM FinalViewStays == Spec => FinishedViewStays
<1> DEFINE A == \A v \in Viewers : page[v].status # "running"
                   => page'[v].status = page[v].status /\ page'[v].last = page[v].last
<1>1. StreamInv /\ [Next]_vars => [A]_vars
  BY StreamAssumption, EveryStep DEF Keeps
<1> HIDE DEF A
<1>2. Spec => [][A]_vars
  BY <1>1, StreamInvariant, PTL DEF Spec
<1> QED BY <1>2, PTL DEF A, FinishedViewStays
=============================================================================
