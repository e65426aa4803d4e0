---------------------------- MODULE SecretAudit -----------------------------
(***************************************************************************)
(* The Conjur secret audit (secret_audit.go) and its HTTP handler: one     *)
(* background scan at a time lists the variables, reads them in batches,   *)
(* classifies what it read, lists again and publishes, while browsers      *)
(* start, cancel and look, the vendor's inventory changes and somebody     *)
(* points the vendor CLI at another server.                                *)
(*                                                                         *)
(* A variable is its position in the server's order.  A secret value is    *)
(* the shape classifySecretValue sees in it.                               *)
(***************************************************************************)
EXTENDS Naturals, FiniteSets, SequencesExt

CONSTANTS
    Browsers,       \* browsers
    Vars,           \* the variables that may exist (naturals)
    Inventories,    \* the sets of them that may be visible at a time
    Comma,          \* those whose identifier holds a comma
    Shape,          \* what each variable's value looks like
    NameMatches,    \* those whose identifier matches the pattern of an id-regex scan
    Targets,        \* servers the vendor CLI may be configured for
    NoTarget,       \* the vendor CLI is not configured
    Audits,         \* the requests a browser may post
    PageSize, BatchSize, MaxVariables,   \* secretAuditListPageSize, ...
    MaxScans, MaxChanges                 \* bounds of the model

ASSUME AuditAssumption ==
    /\ Vars \subseteq Nat /\ Inventories \subseteq SUBSET Vars /\ Comma \subseteq Vars
    /\ \A I \in Inventories : IsFiniteSet(I)
    /\ PageSize \in Nat \ {0} /\ BatchSize \in Nat \ {0} /\ MaxVariables \in Nat
    /\ MaxScans \in Nat /\ MaxChanges \in Nat

VARIABLES
    current,    \* the server the vendor's configuration names
    inventory,  \* the variables visible there
    changes,    \* changes of either made so far
    snap,       \* s.snap
    scan,       \* the goroutine of run and what it has in memory
    asked,      \* scans some client asked to cancel
    stopped,    \* s.parent is done
    view        \* each browser's open request, the copy of s.snap it took, and the
                \* scan whose cancel function an open DELETE holds (0: none)

auditVars == <<current, inventory, changes, snap, scan, asked, stopped, view>>

-----------------------------------------------------------------------------
(* Only the first test that applies to a value decides. *)
classifySecretValue(v) ==
    CASE v \in {"known-id", "known-path", "known-dotted-field", "reference-uri"} -> "high"
      [] v \in {"known-dotted", "dotted-field", "path-field", "deep-path"} -> "medium"
      [] OTHER -> "none"  \* blanks, documents, keys, addresses, versions, tokens, text

Reported(v, min) == \/ classifySecretValue(Shape[v]) = "high"
                    \/ classifySecretValue(Shape[v]) = "medium" /\ min = "medium"

(* The elements of a set in the server's order, which is that of sort.Slice *)
(* over a listing as well: a listing with a repeated identifier is refused. *)
Sorted(S) == CHOOSE s \in [1 .. Cardinality(S) -> S] : \A j, k \in DOMAIN s : j < k => s[j] < s[k]

Least(a, b) == IF a < b THEN a ELSE b

(* nextSecretAuditBatch: an identifier with a comma travels alone; the      *)
(* length of the query is bounded along with the number of identifiers.     *)
nextSecretAuditBatch(ids, start) ==
    IF ids[start + 1] \in Comma THEN start + 1
    ELSE CHOOSE e \in start + 1 .. Least(start + BatchSize, Len(ids)) :
            /\ \A k \in start + 1 .. e : ids[k] \notin Comma
            /\ \/ e = Least(start + BatchSize, Len(ids))
               \/ ids[e + 1] \in Comma

NoScan == [gen |-> 0, pc |-> "none", req |-> [mode |-> "none", url |-> NoTarget, min |-> "high"],
           ids |-> <<>>, second |-> FALSE, list |-> <<>>, count |-> 0, at |-> 0, end |-> 0,
           held |-> {}, lost |-> {}, found |-> {}, failed |-> {}, readAny |-> FALSE,
           err |-> "", cancelled |-> FALSE, verified |-> {}, steady |-> FALSE]

(* The progress counters and the phase a snapshot also carries are left out. *)
NoReport == [state |-> "idle", target |-> NoTarget, code |-> "", findings |-> {}, failures |-> {}]

NoView == [pc |-> "idle", gen |-> 0, copy |-> NoReport]

Go(pc) == scan' = [scan EXCEPT !.pc = pc]

(* audit returns an error; the caller zeroes what the batch still held. *)
Abort(code) == scan' = [scan EXCEPT !.pc = "ending", !.err = code, !.held = {}]

Cancelled == scan.cancelled \/ stopped

-----------------------------------------------------------------------------
(* The service as browsers use it *)

Copy(c, s) == view' = [view EXCEPT ![c].pc = "copied", ![c].copy = s]

(* handleSecretAudit POST: an invalid request and a scan that is running    *)
(* already change nothing.                                                  *)
Start(c, r) ==
    /\ view[c].pc = "idle"
    /\ IF snap.state = "running"
       THEN Copy(c, snap) /\ UNCHANGED <<snap, scan>>
       ELSE /\ scan.gen < MaxScans
            /\ LET s == [NoReport EXCEPT !.state = "running"]
               IN  snap' = s /\ Copy(c, s)
            /\ scan' = [NoScan EXCEPT !.gen = scan.gen + 1, !.pc = "connect", !.req = r]
    /\ UNCHANGED <<current, inventory, changes, asked, stopped>>

(* handleSecretAudit GET *)
Look(c) ==
    /\ view[c].pc = "idle"
    /\ Copy(c, snap)
    /\ UNCHANGED <<current, inventory, changes, snap, scan, asked, stopped>>

(* handleSecretAudit DELETE: the cancel function is read under the lock and *)
(* called without it, while other requests of the same browser go on.       *)
CancelBegin(c) ==
    /\ view[c].gen = 0 /\ scan.gen > 0
    /\ view' = [view EXCEPT ![c].gen = scan.gen]
    /\ asked' = asked \cup {scan.gen}
    /\ UNCHANGED <<current, inventory, changes, snap, scan, stopped>>

(* Mutant: the cancel function is looked up when it is called. *)
Cancels_Latest(c) == TRUE

Cancels(c) == view[c].gen = scan.gen

Cancel(c) ==
    /\ view[c].pc = "idle" /\ view[c].gen > 0
    /\ scan' = [scan EXCEPT !.cancelled = @ \/ Cancels(c)]
    /\ view' = [view EXCEPT ![c] = [pc |-> "copied", gen |-> 0, copy |-> snap]]
    /\ UNCHANGED <<current, inventory, changes, snap, asked, stopped>>

(* Mutant: results are shown against whatever server is configured now. *)
withCurrentTarget_Kept(s) == s

(* A running scan keeps its target; other results are dropped once the      *)
(* configured server is not theirs.                                         *)
withCurrentTarget(s) ==
    IF s.state = "running" /\ s.target # NoTarget THEN s
    ELSE IF s.state # "running" /\ s.target # NoTarget /\ s.target # current
    THEN [NoReport EXCEPT !.target = current]
    ELSE [s EXCEPT !.target = current]

(* The configuration is loaded outside the lock, and the browser is shown   *)
(* withCurrentTarget of the copy.                                           *)
Show(c) ==
    /\ view[c].pc = "copied"
    /\ view' = [view EXCEPT ![c] = [NoView EXCEPT !.gen = view[c].gen]]
    /\ UNCHANGED <<current, inventory, changes, snap, scan, asked, stopped>>

-----------------------------------------------------------------------------
(* The scan *)

Quiet == UNCHANGED <<current, inventory, changes, asked, stopped, view>>

Connect ==
    /\ scan.pc = "connect"
    /\ \/ current = NoTarget /\ Abort("not_configured") /\ UNCHANGED snap
       \/ /\ current # NoTarget /\ scan.req.url \notin {NoTarget, current}
          /\ Abort("backend_mismatch") /\ UNCHANGED snap
       \/ /\ current # NoTarget /\ scan.req.url \in {NoTarget, current}
          /\ Go("count") \/ Abort("session_required")
          /\ snap' = [snap EXCEPT !.target = current]
    /\ Quiet

(* listSecretAuditVariables: the count first, then page after page. *)
Count ==
    /\ scan.pc = "count"
    /\ IF Cardinality(inventory) > MaxVariables THEN Abort("too_many_variables")
       ELSE scan' = [scan EXCEPT !.pc = "page", !.count = Cardinality(inventory), !.list = <<>>,
                                 !.verified = inventory, !.steady = TRUE]
    /\ UNCHANGED snap /\ Quiet

(* Mutant: an empty page is asked for again. *)
Page_Again ==
    /\ scan.pc = "page" /\ Len(scan.list) < scan.count
    /\ LET from == Len(scan.list) + 1
           page == SubSeq(Sorted(inventory), from,
                          Least(Cardinality(inventory), Least(scan.count, from + PageSize - 1)))
       IN  IF Cancelled THEN Abort("cancelled")
           ELSE IF \E k \in 1 .. Len(page) : Contains(scan.list, page[k])
           THEN Abort("inventory_changed")
           ELSE scan' = [scan EXCEPT !.list = @ \o page]
    /\ UNCHANGED snap /\ Quiet

Page ==
    /\ scan.pc = "page" /\ Len(scan.list) < scan.count
    /\ LET from == Len(scan.list) + 1
           page == SubSeq(Sorted(inventory), from,
                          Least(Cardinality(inventory), Least(scan.count, from + PageSize - 1)))
       IN  IF Cancelled THEN Abort("cancelled")
           ELSE IF page = <<>> \/ \E k \in 1 .. Len(page) : Contains(scan.list, page[k])
           THEN Abort("inventory_changed")
           ELSE scan' = [scan EXCEPT !.list = @ \o page]
    /\ UNCHANGED snap /\ Quiet

(* The first listing: identifiers are sorted and, for an id-regex scan,     *)
(* matched without reading a value.                                         *)
Listed ==
    /\ scan.pc = "page" /\ Len(scan.list) = scan.count /\ ~scan.second
    /\ LET ids == Sorted(Range(scan.list))
       IN  IF scan.req.mode = "id-regex" /\ Cancelled /\ ids # <<>>
           THEN Abort("cancelled")
           ELSE IF scan.req.mode = "id-regex"
           THEN scan' = [scan EXCEPT !.pc = "verify", !.ids = ids, !.at = Len(ids),
                                     !.found = Range(ids) \cap NameMatches]
           ELSE scan' = [scan EXCEPT !.pc = "read", !.ids = ids]
    /\ UNCHANGED snap /\ Quiet

(* The head of the batch loop and RetrieveBatchSecretsSafe: the batch comes *)
(* whole or is read one by one; values beyond the size limit are dropped.   *)
ReadBatch ==
    /\ scan.pc = "read" /\ scan.at < Len(scan.ids)
    /\ LET end == nextSecretAuditBatch(scan.ids, scan.at)
           batch == {scan.ids[k] : k \in scan.at + 1 .. end}
           next == [scan EXCEPT !.end = end, !.lost = {}]
       IN  IF Cancelled THEN Abort("cancelled")
           ELSE \/ /\ end > scan.at + 1
                   /\ \E large \in SUBSET batch :
                        scan' = [next EXCEPT !.pc = "classify", !.held = batch \ large,
                                             !.lost = large, !.readAny = TRUE]
                \/ scan' = [next EXCEPT !.pc = "single", !.count = scan.at]
    /\ UNCHANGED snap /\ Quiet

(* RetrieveSecret of the next variable: a value, a failure of this variable *)
(* alone, or the end of the session.                                        *)
ReadOne ==
    /\ scan.pc = "single"
    /\ IF scan.count = scan.end THEN Go("classify")
       ELSE IF Cancelled THEN Abort("cancelled")
       ELSE LET v == scan.ids[scan.count + 1]
                next == [scan EXCEPT !.count = @ + 1]
            IN  \/ scan' = [next EXCEPT !.held = @ \cup {v}, !.readAny = TRUE]
                \/ scan' = [next EXCEPT !.lost = @ \cup {v}]
                \/ \E code \in {"session_required", "unavailable"} : Abort(code)
    /\ UNCHANGED snap /\ Quiet

(* Mutant: the buffers are kept for the next batch. *)
Zeroed_Kept == scan.held

Zeroed == {}

(* The loop over the batch: values that are not UTF-8 count as failures. *)
Classify ==
    /\ scan.pc = "classify"
    /\ \E odd \in SUBSET scan.held :
         scan' = [scan EXCEPT !.pc = "read", !.at = scan.end, !.held = Zeroed,
                    !.failed = @ \cup scan.lost \cup odd,
                    !.found = @ \cup {v \in scan.held \ odd : Reported(v, scan.req.min)}]
    /\ UNCHANGED snap /\ Quiet

(* verifyInventory begins once everything was read. *)
Verify ==
    /\ \/ scan.pc = "verify"
       \/ scan.pc = "read" /\ scan.at = Len(scan.ids)
    /\ scan' = [scan EXCEPT !.pc = "count", !.second = TRUE]
    /\ UNCHANGED snap /\ Quiet

(* Mutant: only the number of variables is compared. *)
SameInventory_Count == Len(scan.list) = Len(scan.ids)

SameInventory == /\ Len(scan.list) = Len(scan.ids)
                 /\ Range(scan.list) \subseteq Range(scan.ids)

Publish ==
    /\ scan.pc = "page" /\ Len(scan.list) = scan.count /\ scan.second
    /\ IF SameInventory
       THEN /\ snap' = [snap EXCEPT !.findings = scan.found, !.failures = scan.failed]
            /\ Go("ending")
       ELSE Abort("inventory_changed") /\ UNCHANGED snap
    /\ Quiet

(* Any call of the vendor's interface may fail. *)
CallFails ==
    /\ scan.pc \in {"count", "page"}
    /\ scan.pc = "page" => Len(scan.list) < scan.count
    /\ \/ \E code \in {"session_required", "unavailable"} : Abort(code)
       \/ scan.pc = "page" /\ Abort("invalid_inventory")
    /\ UNCHANGED snap /\ Quiet

(* The last update of run. *)
Finish ==
    /\ scan.pc = "ending"
    /\ LET state == IF scan.err = "" THEN "completed"
                    ELSE IF Cancelled THEN "cancelled" ELSE "failed"
           kept(S) == IF state = "completed" THEN S ELSE {}
       IN  snap' = [snap EXCEPT !.state = state,
                      !.code = IF state = "failed" THEN scan.err ELSE "",
                      !.findings = kept(@), !.failures = kept(@)]
    /\ scan' = [NoScan EXCEPT !.gen = scan.gen]
    /\ Quiet

-----------------------------------------------------------------------------
(* The program's context ends: app.Run gave the platform its own. *)
Stop ==
    /\ ~stopped /\ stopped' = TRUE
    /\ UNCHANGED <<current, inventory, changes, snap, scan, asked, view>>

(* External: the inventory or the configured server changes. *)
ServerChanges ==
    /\ changes < MaxChanges
    /\ changes' = changes + 1
    /\ \/ /\ inventory' \in Inventories \ {inventory}
          /\ scan' = [scan EXCEPT !.steady = FALSE]
          /\ UNCHANGED current
       \/ current' \in (Targets \cup {NoTarget}) \ {current} /\ UNCHANGED <<inventory, scan>>
    /\ UNCHANGED <<snap, asked, stopped, view>>

AuditInit ==
    /\ current \in Targets
    /\ inventory \in Inventories
    /\ changes = 0
    /\ snap = NoReport
    /\ scan = NoScan
    /\ asked = {}
    /\ stopped = FALSE
    /\ view = [c \in Browsers |-> NoView]

ScanStep == \/ Connect \/ Count \/ Page \/ Listed \/ ReadBatch \/ ReadOne
            \/ Classify \/ Verify \/ Publish \/ Finish

AuditNext ==
    \/ \E c \in Browsers : \/ \E r \in Audits : Start(c, r)
                           \/ Look(c) \/ CancelBegin(c) \/ Cancel(c) \/ Show(c)
    \/ ScanStep \/ CallFails \/ Stop \/ ServerChanges

AuditSpec == AuditInit /\ [][AuditNext]_auditVars

(* The goroutine runs and every vendor call has a deadline (30 s); no call  *)
(* is bound to fail.                                                        *)
AuditFairSpec == AuditSpec /\ WF_auditVars(ScanStep)

-----------------------------------------------------------------------------
(* Properties *)

Codes == {"", "not_configured", "backend_mismatch", "session_required", "too_many_variables",
          "cancelled", "inventory_changed", "unavailable", "invalid_inventory"}

Reports == [state : {"idle", "running", "completed", "cancelled", "failed"},
            target : Targets \cup {NoTarget}, code : Codes,
            findings : SUBSET Vars, failures : SUBSET Vars]

Scans == [gen : 0..MaxScans,
          pc : {"none", "connect", "count", "page", "read", "single", "classify", "verify", "ending"},
          req : Audits \cup {NoScan.req}, ids : Seq(Vars), second : BOOLEAN, list : Seq(Vars),
          count : Nat, at : Nat, end : Nat,
          held : SUBSET Vars, lost : SUBSET Vars, found : SUBSET Vars, failed : SUBSET Vars,
          readAny : BOOLEAN, err : Codes, cancelled : BOOLEAN,
          verified : Inventories \cup {{}}, steady : BOOLEAN]

Views == [pc : {"idle", "copied"}, gen : 0..MaxScans, copy : Reports]

(* Every variable keeps its type. *)
AuditTypeOK ==
    /\ current \in Targets \cup {NoTarget} /\ inventory \in Inventories
    /\ changes \in 0..MaxChanges /\ stopped \in BOOLEAN /\ asked \subseteq 1..MaxScans
    /\ snap \in Reports /\ scan \in Scans /\ view \in [Browsers -> Views]
    /\ {scan.at, scan.end} \subseteq 0..Len(scan.ids)

(* Secret values are in memory only between a read and the classification   *)
(* of its batch, on every path out of the scan, and a scan of identifiers   *)
(* never asks for a value (zeroSecretValues, audit).                        *)
ValuesDropped ==
    /\ AuditTypeOK
    /\ scan.pc \notin {"single", "classify"} => scan.held = {}
    /\ scan.req.mode = "id-regex" => ~scan.readAny

(* A completed report is about the whole inventory: every variable listed   *)
(* was inspected or is named as a failure, and if the inventory stood still *)
(* while it was verified these are the variables that exist                 *)
(* (verifyInventory: "the same visible set was present at scan completion").*)
ReportIsWhole ==
    (scan.pc = "ending" /\ scan.err = "") =>
        /\ scan.at = Len(scan.ids)
        /\ snap.findings \cup snap.failures \subseteq Range(scan.ids)
        /\ scan.req.mode # "id-regex" =>
              \A v \in Range(scan.ids) \ scan.failed :
                  Reported(v, scan.req.min) <=> v \in snap.findings
        /\ scan.steady => Range(scan.ids) = scan.verified

(* No browser is shown findings that no finished verification stands        *)
(* behind, nor findings of another server than the one configured when the  *)
(* answer was made (withCurrentTarget, run).                                *)
ShownIsCurrent ==
    \A c \in Browsers :
        LET s == withCurrentTarget(view[c].copy)
        IN  (view[c].pc = "copied" /\ s.findings \cup s.failures # {}) =>
            /\ s.state \in {"completed", "running"}
            /\ s.state = "completed" => s.target = current

(* A cancellation stops the scan it was asked for and no later one: a scan  *)
(* ends cancelled only when somebody asked to cancel that scan or the       *)
(* program stopped (Cancel reads s.cancel before it calls it).              *)
CancelHitsItsScan == snap.state = "cancelled" => scan.gen \in asked \/ stopped

(* Every scan ends, cancelled or not, and leaves "running" for good. *)
ScanEnds == snap.state = "running" ~> snap.state # "running"
=============================================================================
