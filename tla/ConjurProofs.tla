---------------------------- MODULE ConjurProofs -----------------------------
(***************************************************************************)
(* Theorems about the two services of the Conjur platform: the audit of    *)
(* secret variables (SecretAudit), for every inventory, page and batch     *)
(* size and number of scans, and below it signing in (CredentialLogin),    *)
(* for every set of browser requests, every content of the vendor's file   *)
(* and every edit made from outside.                                       *)
(*                                                                         *)
(* AuditInv says, pc by pc, what a scan has inspected, what its buffers    *)
(* hold and what its report may show; LoginInv who has the gate and what   *)
(* the request inside knows of the vendor's file and of the stored         *)
(* session.  Both are inductive.                                           *)
(***************************************************************************)
EXTENDS SecretAudit, CredentialLogin, FiniteSetTheorems, SequenceTheorems,
        WellFoundedInduction, TLAPS

-----------------------------------------------------------------------------
(* Sorting and batches *)

(* A set of naturals that is not empty has a least element. *)
LEMMA LeastOf ==
  ASSUME NEW S \in SUBSET Nat, S # {}
  PROVE  \E x \in S : \A y \in S : x <= y
<1> DEFINE Less == {p \in Nat \X Nat : p[1] < p[2]}
<1>1. OpToRel(<, Nat) = Less
  BY Zenon DEF OpToRel
<1>2. IsWellFoundedOn(Less, Nat)
  BY <1>1, NatLessThanWellFounded, Zenon
<1>3. PICK x \in S : \A y \in S : ~ (<<y, x>> \in Less)
  <2> HIDE DEF Less
  <2> QED BY <1>2, WFMin, Zenon
<1>4. \A y \in S : ~ (y < x)
  BY <1>3
<1> QED BY <1>3, <1>4

Increasing(s, S) ==
    s \in [1 .. Cardinality(S) -> S] /\ \A j, k \in DOMAIN s : j < k => s[j] < s[k]

(* Every finite set of naturals has a listing in order: the least element   *)
(* first, then a listing of the rest.                                       *)
LEMMA ListingExists ==
  ASSUME NEW S \in SUBSET Nat, IsFiniteSet(S)
  PROVE  \E s : Increasing(s, S)
<1> DEFINE Bad == {n \in Nat : \E U \in SUBSET Nat : /\ IsFiniteSet(U) /\ Cardinality(U) = n
                                                     /\ ~ \E s : Increasing(s, U)}
<1>1. SUFFICES ASSUME Bad # {} PROVE FALSE
  BY FS_CardinalityType
<1>2. PICK n \in Bad : \A m \in Bad : n <= m
  <2>1. Bad \in SUBSET Nat
    OBVIOUS
  <2> HIDE DEF Bad
  <2> QED BY <1>1, <2>1, LeastOf
<1>3. PICK U \in SUBSET Nat : IsFiniteSet(U) /\ Cardinality(U) = n /\ ~ \E s : Increasing(s, U)
  OBVIOUS
<1>4. U # {}
  <2>1. SUFFICES ASSUME U = {} PROVE FALSE
    OBVIOUS
  <2>2. Cardinality(U) = 0
    BY <2>1, FS_EmptySet
  <2>3. Increasing([i \in 1 .. 0 |-> 0], U)
    BY <2>1, <2>2 DEF Increasing
  <2> QED BY <1>3, <2>3
<1>5. PICK x \in U : \A y \in U : x <= y
  BY <1>4, LeastOf
<1>6. IsFiniteSet(U \ {x}) /\ Cardinality(U \ {x}) = n - 1 /\ n \in Nat /\ n # 0
  BY <1>3, <1>5, FS_RemoveElement, FS_EmptySet
<1>7. PICK t : Increasing(t, U \ {x})
  BY <1>2, <1>6
<1>8. t \in [1 .. n - 1 -> U \ {x}] /\ \A j, k \in 1 .. n - 1 : j < k => t[j] < t[k]
  BY <1>6, <1>7 DEF Increasing
<1> DEFINE s == [i \in 1 .. n |-> IF i = 1 THEN x ELSE t[i - 1]]
<1>9. \A i \in 1 .. n : i # 1 => i - 1 \in 1 .. n - 1
  BY <1>6
<1>10. \A i \in 1 .. n : s[i] \in U /\ (i # 1 => s[i] = t[i - 1] /\ x < s[i])
  <2>1. TAKE i \in 1 .. n
  <2>2. CASE i = 1
    BY <1>5, <2>2
  <2>3. CASE i # 1
    <3>1. s[i] = t[i - 1] /\ t[i - 1] \in U \ {x}
      BY <1>8, <1>9, <2>3
    <3>2. x <= t[i - 1] /\ x # t[i - 1] /\ x \in Nat /\ t[i - 1] \in Nat
      BY <1>5, <3>1
    <3> QED BY <3>1, <3>2
  <2> QED BY <2>2, <2>3
<1>11. \A j, k \in 1 .. n : j < k => s[j] < s[k]
  <2>1. TAKE j, k \in 1 .. n
  <2>2. HAVE j < k
  <2>3. k # 1
    BY <2>2, <1>6
  <2>4. CASE j = 1
    BY <2>3, <2>4, <1>10
  <2>5. CASE j # 1
    <3>1. j - 1 \in 1 .. n - 1 /\ k - 1 \in 1 .. n - 1 /\ j - 1 < k - 1
      BY <2>2, <2>3, <2>5, <1>9, <1>6
    <3> QED BY <3>1, <2>3, <2>5, <1>8, <1>10
  <2> QED BY <2>4, <2>5
<1>12. Increasing(s, U)
  <2>1. s \in [1 .. n -> U]
    BY <1>10
  <2> HIDE DEF s
  <2> QED BY <1>3, <1>11, <2>1 DEF Increasing
<1> QED BY <1>3, <1>12

(* A list without repetitions that is as long as a finite set it stays in   *)
(* has all of it.                                                           *)
LEMMA FullListing ==
  ASSUME NEW S, IsFiniteSet(S), NEW n \in Nat, NEW f \in [1 .. n -> S],
         \A j, k \in 1 .. n : f[j] = f[k] => j = k, n = Cardinality(S)
  PROVE  Range(f) = S
<1>1. f \in Injection(1 .. n, S)
  BY DEF Injection, IsInjective
<1>2. Cardinality(1 .. n) = n
  BY FS_Interval
<1>3. f \in Surjection(1 .. n, S)
  BY <1>1, <1>2, FS_Injection
<1> QED BY <1>3 DEF Surjection, Range

(* A list has finitely many elements. *)
LEMMA RangeFinite ==
  ASSUME NEW S, NEW list \in Seq(S)
  PROVE  IsFiniteSet(Range(list))
<1>1. list \in Surjection(1 .. Len(list), Range(list)) /\ Len(list) \in Nat
  BY LenProperties DEF Surjection, Range
<1> QED BY <1>1, FS_Interval, FS_Surjection

Injective(s) == \A j, k \in DOMAIN s : s[j] = s[k] => j = k

(* What Sorted yields. *)
LEMMA SortedDoes ==
  ASSUME NEW S \in SUBSET Nat, IsFiniteSet(S)
  PROVE  /\ Sorted(S) \in [1 .. Cardinality(S) -> S] /\ Injective(Sorted(S))
         /\ Cardinality(S) \in Nat /\ Range(Sorted(S)) = S
<1> DEFINE s == Sorted(S)
<1>1. s \in [1 .. Cardinality(S) -> S] /\ \A j, k \in DOMAIN s : j < k => s[j] < s[k]
  BY ListingExists DEF Sorted, Increasing
<1> HIDE DEF s
<1>2. Cardinality(S) \in Nat
  BY FS_CardinalityType
<1>3. Injective(s)
  <2>1. SUFFICES ASSUME NEW j \in 1 .. Cardinality(S), NEW k \in 1 .. Cardinality(S),
                        s[j] = s[k], j # k
                 PROVE  FALSE
    BY <1>1 DEF Injective
  <2>2. s[j] \in Nat /\ s[k] \in Nat /\ (j < k => s[j] < s[k]) /\ (k < j => s[k] < s[j])
    BY <1>1
  <2>3. j < k \/ k < j
    BY <1>2, <2>1
  <2> QED BY <2>1, <2>2, <2>3
<1>4. Range(s) = S
  BY <1>1, <1>2, <1>3, FullListing DEF Injective
<1> QED BY <1>1, <1>2, <1>3, <1>4 DEF s

(* A batch is not empty and ends within the list. *)
LEMMA BatchDoes ==
  ASSUME NEW S, NEW ids \in Seq(S), NEW at \in 0 .. Len(ids), at < Len(ids),
         BatchSize \in Nat \ {0}
  PROVE  nextSecretAuditBatch(ids, at) \in at + 1 .. Len(ids)
<1>0. Len(ids) \in Nat
  BY LenProperties
<1>1. CASE ids[at + 1] \in Comma
  BY <1>0, <1>1 DEF nextSecretAuditBatch
<1>2. CASE ids[at + 1] \notin Comma
  <2> DEFINE last == Least(at + BatchSize, Len(ids))
             Ends(e) == e = last \/ ids[e + 1] \in Comma
             Good == {e \in at + 1 .. last : Ends(e)}
  <2>1. last \in at + 1 .. Len(ids)
    BY <1>0 DEF Least
  <2> HIDE DEF last
  <2>2. last \in Good /\ Good \in SUBSET Nat
    BY <1>0, <2>1
  <2>3. PICK e \in Good : \A g \in Good : e <= g
    <3> HIDE DEF Good
    <3> QED BY <2>2, LeastOf
  <2>4. \A k \in at + 1 .. e : ids[k] \notin Comma
    <3>1. TAKE k \in at + 1 .. e
    <3>2. CASE k = at + 1
      BY <1>2, <3>2
    <3>3. CASE k # at + 1
      <4>1. k - 1 \in at + 1 .. last /\ k - 1 < e /\ k - 1 + 1 = k
        BY <1>0, <2>1, <2>3, <3>3
      <4>2. k - 1 \notin Good
        <5>1. SUFFICES ASSUME k - 1 \in Good PROVE FALSE
          OBVIOUS
        <5>2. e <= k - 1 /\ e \in Nat /\ k \in Nat
          BY <2>2, <2>3, <5>1, <1>0
        <5> QED BY <4>1, <5>2
      <4>3. ~ Ends(k - 1)
        BY <4>1, <4>2
      <4> QED BY <4>1, <4>3
    <3> QED BY <3>2, <3>3
  <2>5. nextSecretAuditBatch(ids, at) = CHOOSE g \in at + 1 .. last :
                                          /\ \A k \in at + 1 .. g : ids[k] \notin Comma
                                          /\ Ends(g)
    BY <1>2 DEF nextSecretAuditBatch, last
  <2>6. nextSecretAuditBatch(ids, at) \in at + 1 .. last
    BY <2>3, <2>4, <2>5
  <2> QED BY <1>0, <2>1, <2>6
<1> QED BY <1>1, <1>2

-----------------------------------------------------------------------------
(* The invariant *)

Part(ids, i, j) == {ids[k] : k \in i .. j}

(* What was inspected so far. *)
Inspected == Part(scan.ids, 1, scan.at)

First == ~scan.second /\ scan.pc \in {"connect", "count", "page"}

(* Nothing was read before the first listing ended; identifiers are         *)
(* inspected in their order, whole batches at a time; the second listing    *)
(* begins when all were.                                                    *)
OrderInv ==
    /\ First => scan.ids = <<>> /\ scan.at = 0 /\ scan.found = {} /\ scan.failed = {}
    /\ scan.pc \in {"read", "single", "classify", "verify"} => ~scan.second
    /\ scan.pc # "ending" => scan.err = ""
    /\ (scan.second \/ scan.pc = "verify") => scan.at = Len(scan.ids)
    /\ scan.pc = "ending" /\ scan.err = "" => scan.second
    /\ Injective(scan.ids)

(* The buffers hold values of the current batch only.                       *)
BatchInv ==
    /\ scan.pc \in {"single", "classify"} => scan.at <= scan.end
    /\ scan.pc = "single" => scan.count \in scan.at .. scan.end
    /\ scan.pc = "single" =>
          scan.held \cup scan.lost = Part(scan.ids, scan.at + 1, scan.count)
    /\ scan.pc = "classify" =>
          scan.held \cup scan.lost = Part(scan.ids, scan.at + 1, scan.end)
    /\ scan.pc \notin {"single", "classify"} => scan.held = {}
    /\ scan.req.mode = "id-regex" => ~scan.readAny /\ scan.pc \notin {"read", "single", "classify"}

(* The findings are those of what was inspected. *)
FoundInv ==
    /\ scan.found \cup scan.failed \subseteq Inspected
    /\ scan.req.mode # "id-regex" =>
          \A v \in Inspected \ scan.failed : Reported(v, scan.req.min) <=> v \in scan.found

(* A listing has no identifier twice, and while the inventory stands still  *)
(* it is a part of it.                                                      *)
ListInv ==
    /\ Injective(scan.list)
    /\ scan.pc = "page" /\ scan.steady =>
          /\ scan.verified = inventory /\ Range(scan.list) \subseteq inventory
          /\ scan.count = Cardinality(inventory)
    /\ scan.pc = "ending" /\ scan.err = "" /\ scan.steady => Range(scan.ids) = scan.verified

(* A report says "running" while a scan is at work and has findings only    *)
(* after its verification; so has every copy of it.                         *)
Vouched(s) == s.findings # {} \/ s.failures # {} => s.state \in {"completed", "running"}

ReportInv ==
    /\ snap.state = "running" <=> scan.pc # "none"
    /\ scan.pc = "ending" /\ scan.err = "" =>
          snap.findings = scan.found /\ snap.failures = scan.failed
    /\ scan.pc # "none" /\ ~(scan.pc = "ending" /\ scan.err = "") =>
          snap.findings = {} /\ snap.failures = {}
    /\ Vouched(snap) /\ \A c \in Browsers : Vouched(view[c].copy)

(* A cancel function that was called, or is about to be, was asked for.     *)
CancelInv ==
    /\ scan.cancelled => scan.gen \in asked
    /\ \A c \in Browsers : view[c].gen \in asked \cup {0}
    /\ scan.pc # "none" => scan.gen > 0
    /\ snap.state = "cancelled" => scan.gen \in asked \/ stopped

AuditInv == AuditTypeOK /\ OrderInv /\ BatchInv /\ FoundInv /\ ListInv /\ ReportInv /\ CancelInv

-----------------------------------------------------------------------------
(* The steps *)

World == <<current, inventory, changes, asked, stopped, view>>

(* Giving up drops the values and publishes nothing. *)
LEMMA AbortKeeps ==
  ASSUME AuditInv, NEW code \in Codes \ {""}, Abort(code), UNCHANGED World,
         snap' \in Reports, scan.pc \notin {"none", "ending"},
         snap' = snap \/ snap' = [snap EXCEPT !.target = current]
  PROVE  AuditInv'
<1>1. /\ scan' \in Scans /\ scan'.pc = "ending" /\ scan'.err = code /\ scan'.held = {}
      /\ scan'.gen = scan.gen /\ scan'.req = scan.req /\ scan'.ids = scan.ids
      /\ scan'.second = scan.second /\ scan'.list = scan.list /\ scan'.at = scan.at
      /\ scan'.end = scan.end /\ scan'.found = scan.found /\ scan'.failed = scan.failed
      /\ scan'.readAny = scan.readAny /\ scan'.cancelled = scan.cancelled
  BY DEF AuditInv, AuditTypeOK, Abort, Scans
<1>2. /\ snap'.state = snap.state /\ snap'.findings = snap.findings
      /\ snap'.failures = snap.failures
  BY DEF AuditInv, AuditTypeOK, Reports
<1>3. AuditTypeOK'
  BY <1>1 DEF AuditInv, AuditTypeOK, World
<1>4. OrderInv'
  BY <1>1 DEF AuditInv, OrderInv, First
<1>5. BatchInv'
  BY <1>1 DEF AuditInv, BatchInv
<1>6. FoundInv'
  <2>1. Inspected' = Inspected
    BY <1>1 DEF Inspected
  <2> QED BY <1>1, <2>1 DEF AuditInv, FoundInv, Reported
<1>7. ListInv'
  BY <1>1 DEF AuditInv, ListInv
<1>8. ReportInv'
  BY <1>1, <1>2 DEF AuditInv, ReportInv, Vouched, World
<1>9. CancelInv'
  BY <1>1, <1>2 DEF AuditInv, CancelInv, World
<1> QED BY <1>3, <1>4, <1>5, <1>6, <1>7, <1>8, <1>9 DEF AuditInv

(* A browser that looks, is refused a second scan, reads the cancel         *)
(* function or is answered, and the end of the program, leave the scan      *)
(* alone.                                                                   *)
LEMMA ScanStays ==
  ASSUME AuditInv, UNCHANGED <<inventory, snap, scan>>,
         view' \in [Browsers -> Views], stopped' \in BOOLEAN, asked' \in SUBSET (1 .. MaxScans),
         current' \in Targets \cup {NoTarget}, changes' \in 0 .. MaxChanges,
         asked \subseteq asked', stopped => stopped',
         \A c \in Browsers : /\ view'[c].copy \in {view[c].copy, snap, NoReport}
                             /\ view'[c].gen \in asked' \cup {0}
  PROVE  AuditInv'
<1>1. AuditTypeOK'
  BY DEF AuditInv, AuditTypeOK
<1>2. OrderInv'
  BY DEF AuditInv, OrderInv, First
<1>3. BatchInv'
  BY DEF AuditInv, BatchInv
<1>4. FoundInv'
  BY DEF AuditInv, FoundInv, Inspected, Reported
<1>5. ListInv'
  BY DEF AuditInv, ListInv
<1>6. ReportInv'
  <2>1. Vouched(NoReport) /\ Vouched(snap) /\ \A c \in Browsers : Vouched(view[c].copy)
    BY DEF AuditInv, ReportInv, Vouched, NoReport
  <2>2. \A c \in Browsers : Vouched(view'[c].copy)
    BY <2>1
  <2> QED BY <2>1, <2>2 DEF AuditInv, ReportInv, Vouched
<1>7. CancelInv'
  BY DEF AuditInv, CancelInv
<1> QED BY <1>1, <1>2, <1>3, <1>4, <1>5, <1>6, <1>7 DEF AuditInv

(* What browsers do to a scan at work, which is nothing.                    *)
LEMMA BrowserKeeps ==
  ASSUME AuditInv, NEW c \in Browsers,
         \/ Look(c) \/ CancelBegin(c) \/ Show(c)
         \/ snap.state = "running" /\ \E r \in Audits : Start(c, r)
  PROVE  AuditInv'
<1>1. NoReport \in Reports /\ NoScan.gen = 0
  BY DEF Reports, NoReport, Codes, NoScan
<1>2. scan.gen \in 0 .. MaxScans /\ snap \in Reports /\ view \in [Browsers -> Views]
  BY DEF AuditInv, AuditTypeOK, Scans
<1>3. \A d \in Browsers : view[d].gen \in asked \cup {0}
  BY DEF AuditInv, CancelInv
<1>4. CASE Look(c) \/ (snap.state = "running" /\ \E r \in Audits : Start(c, r))
  <2>1. /\ view' = [view EXCEPT ![c].pc = "copied", ![c].copy = snap]
        /\ UNCHANGED <<current, inventory, changes, snap, scan, asked, stopped>>
    BY <1>4 DEF Look, Start, Copy
  <2>2. view' \in [Browsers -> Views]
    BY <1>2, <2>1 DEF Views
  <2>3. \A d \in Browsers : /\ view'[d].copy \in {view[d].copy, snap, NoReport}
                            /\ view'[d].gen = view[d].gen
    BY <1>2, <2>1 DEF Views
  <2> QED BY <1>3, <2>1, <2>2, <2>3, ScanStays DEF AuditInv, AuditTypeOK
<1>5. CASE CancelBegin(c)
  <2>1. /\ view' = [view EXCEPT ![c].gen = scan.gen] /\ asked' = asked \cup {scan.gen}
        /\ scan.gen > 0 /\ UNCHANGED <<current, inventory, changes, snap, scan, stopped>>
    BY <1>5 DEF CancelBegin
  <2>2. view' \in [Browsers -> Views]
    BY <1>2, <2>1 DEF Views
  <2>3. \A d \in Browsers : /\ view'[d].copy \in {view[d].copy, snap, NoReport}
                            /\ view'[d].gen \in {view[d].gen, scan.gen}
    BY <1>2, <2>1 DEF Views
  <2>4. asked' \in SUBSET (1 .. MaxScans)
    BY <1>2, <2>1 DEF AuditInv, AuditTypeOK
  <2>5. \A d \in Browsers : view'[d].gen \in asked' \cup {0}
    BY <1>3, <2>1, <2>3
  <2> QED BY <2>1, <2>2, <2>3, <2>4, <2>5, ScanStays DEF AuditInv, AuditTypeOK
<1>6. CASE Show(c)
  <2>1. /\ view' = [view EXCEPT ![c] = [NoView EXCEPT !.gen = view[c].gen]]
        /\ UNCHANGED <<current, inventory, changes, snap, scan, asked, stopped>>
    BY <1>6 DEF Show
  <2>2. view' \in [Browsers -> Views]
    BY <1>1, <1>2, <2>1 DEF Views, NoView
  <2>3. \A d \in Browsers : /\ view'[d].copy \in {view[d].copy, snap, NoReport}
                            /\ view'[d].gen = view[d].gen
    BY <1>2, <2>1 DEF Views, NoView
  <2> QED BY <1>3, <2>1, <2>2, <2>3, ScanStays DEF AuditInv, AuditTypeOK
<1> QED BY <1>4, <1>5, <1>6

(* The end of the program is seen by the scan, not imposed on it.           *)
LEMMA StopKeeps ==
  ASSUME AuditInv, Stop
  PROVE  AuditInv'
<1>1. view' = view /\ asked' = asked /\ stopped' = TRUE /\ UNCHANGED <<current, inventory, changes, snap, scan>>
  BY DEF Stop
<1>2. \A c \in Browsers : view[c].gen \in asked \cup {0}
  BY DEF AuditInv, CancelInv
<1> QED BY <1>1, <1>2, ScanStays DEF AuditInv, AuditTypeOK

(* The empty list.                                                          *)
LEMMA Empties ==
  /\ Len(<<>>) = 0 /\ Injective(<<>>) /\ \A ids : Part(ids, 1, 0) = {}
<1>1. Len(<<>>) = 0 /\ DOMAIN <<>> = {}
  OBVIOUS
<1>2. \A ids : Part(ids, 1, 0) = {}
  BY DEF Part
<1> QED BY <1>1, <1>2 DEF Injective

(* What is in memory between two scans.                                     *)
LEMMA NoScanType ==
  ASSUME AuditAssumption
  PROVE  NoScan \in Scans
<1>1. /\ NoScan.gen \in 0 .. MaxScans /\ <<>> \in Seq(Vars) /\ 0 \in Nat
      /\ {} \in SUBSET Vars /\ {} \in Inventories \cup {{}} /\ "" \in Codes
      /\ NoScan.req = [mode |-> "none", url |-> NoTarget, min |-> "high"]
  BY DEF NoScan, Codes, AuditAssumption
<1>2. [mode |-> "none", url |-> NoTarget, min |-> "high"] \in Audits \cup {NoScan.req}
  BY <1>1
<1> QED BY <1>1, <1>2 DEF NoScan, Scans

(* A new scan starts with nothing. *)
LEMMA StartKeeps ==
  ASSUME AuditInv, AuditAssumption, NEW c \in Browsers, NEW r \in Audits, Start(c, r),
         snap.state # "running"
  PROVE  AuditInv'
<1>0. scan.gen + 1 \in 0 .. MaxScans /\ scan.gen + 1 > 0
  <2>1. scan.gen \in 0 .. MaxScans /\ scan.gen < MaxScans /\ MaxScans \in Nat
    BY DEF Start, AuditInv, AuditTypeOK, Scans, AuditAssumption
  <2> QED BY <2>1
<1>1. /\ scan' = [NoScan EXCEPT !.gen = scan.gen + 1, !.pc = "connect", !.req = r]
      /\ snap' = [NoReport EXCEPT !.state = "running"] /\ scan.gen < MaxScans
      /\ view' = [view EXCEPT ![c].pc = "copied", ![c].copy = snap']
      /\ UNCHANGED <<current, inventory, changes, asked, stopped>>
  BY DEF Start, Copy
<1>2. /\ scan'.gen = scan.gen + 1 /\ scan'.pc = "connect" /\ scan'.req = r /\ scan'.ids = <<>>
      /\ ~scan'.second /\ scan'.list = <<>> /\ scan'.at = 0 /\ scan'.end = 0 /\ scan'.held = {}
      /\ scan'.found = {} /\ scan'.failed = {} /\ ~scan'.readAny /\ scan'.err = ""
      /\ ~scan'.cancelled
  BY <1>1 DEF NoScan, AuditInv, AuditTypeOK, Scans, AuditAssumption
<1>3. scan' \in Scans
  <2>1. NoScan \in Scans
    BY NoScanType
  <2>2. scan.gen + 1 \in 0 .. MaxScans
    BY <1>0
  <2>3. scan' = [NoScan EXCEPT !.gen = scan.gen + 1, !.pc = "connect", !.req = r]
    BY <1>1
  <2> QED BY <2>1, <2>2, <2>3 DEF Scans
<1>4. /\ snap' \in Reports /\ snap'.state = "running" /\ snap'.findings = {} /\ snap'.failures = {}
  BY <1>1 DEF Reports, NoReport, Codes
<1>5. view' \in [Browsers -> Views] /\ \A d \in Browsers : /\ view'[d].gen = view[d].gen
                                                           /\ view'[d].copy \in {view[d].copy, snap'}
  BY <1>1, <1>4 DEF AuditInv, AuditTypeOK, Views
<1>6. AuditTypeOK'
  <2>1. {scan'.at, scan'.end} \subseteq 0 .. Len(scan'.ids)
    <3>1. scan'.at = 0 /\ scan'.end = 0 /\ Len(scan'.ids) = 0
      BY <1>2, Empties
    <3> QED BY <3>1
  <2> QED BY <1>1, <1>3, <1>4, <1>5, <2>1 DEF AuditInv, AuditTypeOK
<1>7. OrderInv'
  <2>1. Injective(scan'.ids) /\ scan'.at = Len(scan'.ids)
    BY <1>2, Empties
  <2> QED BY <1>2, <2>1 DEF OrderInv, First
<1>8. BatchInv'
  BY <1>2 DEF BatchInv
<1>9. FoundInv'
  <2>1. Inspected' = {}
    BY <1>2, Empties DEF Inspected
  <2> QED BY <1>2, <2>1 DEF FoundInv
<1>10. ListInv'
  <2>1. Injective(scan'.list)
    BY <1>2, Empties
  <2> QED BY <1>2, <2>1 DEF ListInv
<1>11. ReportInv'
  <2>1. Vouched(snap') /\ \A d \in Browsers : Vouched(view'[d].copy)
    BY <1>4, <1>5 DEF AuditInv, ReportInv, Vouched
  <2> QED BY <1>2, <1>4, <2>1 DEF ReportInv, Vouched
<1>12. CancelInv'
  <2>1. \A d \in Browsers : view'[d].gen \in asked' \cup {0}
    BY <1>1, <1>5 DEF AuditInv, CancelInv
  <2>2. scan'.gen > 0
    BY <1>0, <1>2
  <2> QED BY <1>1, <1>2, <1>4, <2>1, <2>2 DEF CancelInv
<1> QED BY <1>6, <1>7, <1>8, <1>9, <1>10, <1>11, <1>12 DEF AuditInv

(* Cancelling marks the scan it was asked for. *)
LEMMA CancelKeeps ==
  ASSUME AuditInv, AuditAssumption, NEW c \in Browsers, Cancel(c)
  PROVE  AuditInv'
<1>1. /\ scan' = [scan EXCEPT !.cancelled = scan.cancelled \/ Cancels(c)]
      /\ view' = [view EXCEPT ![c] = [pc |-> "copied", gen |-> 0, copy |-> snap]]
      /\ UNCHANGED <<current, inventory, changes, snap, asked, stopped>> /\ view[c].gen > 0
  BY DEF Cancel
<1>2. /\ scan' \in Scans /\ scan'.pc = scan.pc /\ scan'.err = scan.err /\ scan'.held = scan.held
      /\ scan'.gen = scan.gen /\ scan'.req = scan.req /\ scan'.ids = scan.ids
      /\ scan'.second = scan.second /\ scan'.list = scan.list /\ scan'.at = scan.at
      /\ scan'.end = scan.end /\ scan'.found = scan.found /\ scan'.failed = scan.failed
      /\ scan'.readAny = scan.readAny /\ scan'.lost = scan.lost /\ scan'.count = scan.count
      /\ scan'.verified = scan.verified /\ scan'.steady = scan.steady
      /\ (scan'.cancelled => scan.cancelled \/ Cancels(c))
  BY <1>1 DEF AuditInv, AuditTypeOK, Scans, Cancels
<1>3. view' \in [Browsers -> Views] /\ \A d \in Browsers : /\ view'[d].gen \in {view[d].gen, 0}
                                                           /\ view'[d].copy \in {view[d].copy, snap}
  BY <1>1 DEF AuditInv, AuditTypeOK, Views, AuditAssumption
<1>4. AuditTypeOK'
  BY <1>1, <1>2, <1>3 DEF AuditInv, AuditTypeOK
<1>5. OrderInv'
  BY <1>2 DEF AuditInv, OrderInv, First
<1>6. BatchInv'
  BY <1>2 DEF AuditInv, BatchInv
<1>7. FoundInv'
  <2>1. Inspected' = Inspected
    BY <1>2, Empties DEF Inspected
  <2> QED BY <1>2, <2>1 DEF AuditInv, FoundInv, Reported
<1>8. ListInv'
  BY <1>1, <1>2 DEF AuditInv, ListInv
<1>9. ReportInv'
  <2>1. \A d \in Browsers : Vouched(view'[d].copy)
    BY <1>3 DEF AuditInv, ReportInv, Vouched
  <2> QED BY <1>1, <1>2, <2>1 DEF AuditInv, ReportInv, Vouched
<1>10. CancelInv'
  BY <1>1, <1>2, <1>3 DEF AuditInv, CancelInv, Cancels
<1> QED BY <1>4, <1>5, <1>6, <1>7, <1>8, <1>9, <1>10 DEF AuditInv

(* The vendor's inventory or the configured server changes. *)
LEMMA OutsideKeeps ==
  ASSUME AuditInv, AuditAssumption, ServerChanges
  PROVE  AuditInv'
<1>1. UNCHANGED <<snap, asked, stopped, view>> /\ changes' \in 0 .. MaxChanges
  BY DEF ServerChanges, AuditInv, AuditTypeOK, AuditAssumption
<1>2. CASE current' \in (Targets \cup {NoTarget}) \ {current} /\ UNCHANGED <<inventory, scan>>
  <2>1. \A c \in Browsers : view[c].gen \in asked \cup {0}
    BY DEF AuditInv, CancelInv
  <2> QED BY <1>1, <1>2, <2>1, ScanStays DEF AuditInv, AuditTypeOK
<1>3. CASE /\ inventory' \in Inventories \ {inventory}
           /\ scan' = [scan EXCEPT !.steady = FALSE] /\ UNCHANGED current
  <2>1. /\ scan' \in Scans /\ scan'.pc = scan.pc /\ scan'.err = scan.err /\ scan'.held = scan.held
        /\ scan'.gen = scan.gen /\ scan'.req = scan.req /\ scan'.ids = scan.ids
        /\ scan'.second = scan.second /\ scan'.list = scan.list /\ scan'.at = scan.at
        /\ scan'.end = scan.end /\ scan'.found = scan.found /\ scan'.failed = scan.failed
        /\ scan'.readAny = scan.readAny /\ scan'.lost = scan.lost /\ scan'.count = scan.count
        /\ scan'.steady = FALSE /\ scan'.cancelled = scan.cancelled
    BY <1>3 DEF AuditInv, AuditTypeOK, Scans
  <2>2. AuditTypeOK'
    BY <1>1, <1>3, <2>1 DEF AuditInv, AuditTypeOK
  <2>3. OrderInv'
    BY <2>1 DEF AuditInv, OrderInv, First
  <2>4. BatchInv'
    BY <2>1 DEF AuditInv, BatchInv
  <2>5. FoundInv'
    <3>1. Inspected' = Inspected
      BY <2>1 DEF Inspected
    <3> QED BY <2>1, <3>1 DEF AuditInv, FoundInv, Reported
  <2>6. ListInv'
    BY <2>1 DEF AuditInv, ListInv
  <2>7. ReportInv'
    BY <1>1, <2>1 DEF AuditInv, ReportInv, Vouched
  <2>8. CancelInv'
    BY <1>1, <2>1 DEF AuditInv, CancelInv
  <2> QED BY <2>2, <2>3, <2>4, <2>5, <2>6, <2>7, <2>8 DEF AuditInv
<1> QED BY <1>2, <1>3 DEF ServerChanges

(* What a step of the scan that neither ends it nor reports leaves to show. *)
LEMMA Working ==
  ASSUME AuditInv, UNCHANGED World, snap' \in Reports, snap'.state = snap.state,
         snap'.findings = snap.findings, snap'.failures = snap.failures, scan' \in Scans,
         scan'.gen = scan.gen, scan'.cancelled = scan.cancelled,
         scan.pc \notin {"none", "ending"}, scan'.pc \notin {"none", "ending"},
         {scan'.at, scan'.end} \subseteq 0 .. Len(scan'.ids)
  PROVE  AuditTypeOK' /\ ReportInv' /\ CancelInv'
<1>1. AuditTypeOK'
  BY DEF AuditInv, AuditTypeOK, World
<1>2. ReportInv'
  BY DEF AuditInv, ReportInv, Vouched, World
<1>3. CancelInv'
  BY DEF AuditInv, CancelInv, World
<1> QED BY <1>1, <1>2, <1>3

(* A scan that finds its server goes on to count.                           *)
LEMMA ConnectKeeps ==
  ASSUME AuditInv, AuditAssumption, Connect
  PROVE  AuditInv'
<1>1. snap' \in Reports /\ (snap' = snap \/ snap' = [snap EXCEPT !.target = current])
  BY DEF Connect, AuditInv, AuditTypeOK, Reports
<1>2. CASE \E code \in Codes \ {""} : Abort(code)
  BY <1>1, <1>2, AbortKeeps DEF Connect, Quiet, World
<1>3. CASE Go("count")
  <2>1. /\ scan' \in Scans /\ scan'.pc = "count" /\ scan'.err = scan.err /\ scan'.held = scan.held
        /\ scan'.gen = scan.gen /\ scan'.req = scan.req /\ scan'.ids = scan.ids
        /\ scan'.second = scan.second /\ scan'.list = scan.list /\ scan'.at = scan.at
        /\ scan'.end = scan.end /\ scan'.found = scan.found /\ scan'.failed = scan.failed
        /\ scan'.readAny = scan.readAny /\ scan'.cancelled = scan.cancelled
    BY <1>3 DEF Go, AuditInv, AuditTypeOK, Scans
  <2>2. scan.pc = "connect"
    BY DEF Connect
  <2>3. snap'.state = snap.state /\ snap'.findings = snap.findings /\ snap'.failures = snap.failures
    BY <1>1 DEF AuditInv, AuditTypeOK, Reports
  <2>4. AuditTypeOK' /\ ReportInv' /\ CancelInv'
    BY <1>1, <2>1, <2>2, <2>3, Working DEF Connect, Quiet, World, AuditInv, AuditTypeOK
  <2>5. OrderInv'
    BY <2>1, <2>2 DEF AuditInv, OrderInv, First
  <2>6. BatchInv'
    BY <2>1, <2>2 DEF AuditInv, BatchInv
  <2>7. FoundInv'
    <3>1. Inspected' = Inspected
      BY <2>1 DEF Inspected
    <3> QED BY <2>1, <3>1 DEF AuditInv, FoundInv, Reported
  <2>8. ListInv'
    BY <2>1 DEF AuditInv, ListInv
  <2> QED BY <2>4, <2>5, <2>6, <2>7, <2>8 DEF AuditInv
<1> QED BY <1>2, <1>3 DEF Connect, Codes

(* A listing starts over, and notes the inventory it is a listing of.       *)
LEMMA CountKeeps ==
  ASSUME AuditInv, AuditAssumption, Count
  PROVE  AuditInv'
<1>1. snap' = snap /\ UNCHANGED World /\ scan.pc = "count"
  BY DEF Count, Quiet, World
<1>2. CASE Abort("too_many_variables")
  BY <1>1, <1>2, AbortKeeps DEF Codes, AuditInv, AuditTypeOK
<1>3. CASE scan' = [scan EXCEPT !.pc = "page", !.count = Cardinality(inventory), !.list = <<>>,
                                !.verified = inventory, !.steady = TRUE]
  <2>1. Cardinality(inventory) \in Nat /\ <<>> \in Seq(Vars)
    BY FS_CardinalityType DEF AuditInv, AuditTypeOK, AuditAssumption
  <2>2. /\ scan' \in Scans /\ scan'.pc = "page" /\ scan'.err = scan.err /\ scan'.held = scan.held
        /\ scan'.gen = scan.gen /\ scan'.req = scan.req /\ scan'.ids = scan.ids
        /\ scan'.second = scan.second /\ scan'.list = <<>> /\ scan'.at = scan.at
        /\ scan'.end = scan.end /\ scan'.found = scan.found /\ scan'.failed = scan.failed
        /\ scan'.readAny = scan.readAny /\ scan'.cancelled = scan.cancelled
        /\ scan'.verified = inventory /\ scan'.count = Cardinality(inventory)
    BY <1>3, <2>1 DEF AuditInv, AuditTypeOK, Scans
  <2>4. AuditTypeOK' /\ ReportInv' /\ CancelInv'
    BY <1>1, <2>2, Working DEF AuditInv, AuditTypeOK
  <2>5. OrderInv'
    BY <1>1, <2>2 DEF AuditInv, OrderInv, First
  <2>6. BatchInv'
    BY <1>1, <2>2 DEF AuditInv, BatchInv
  <2>7. FoundInv'
    <3>1. Inspected' = Inspected
      BY <2>2 DEF Inspected
    <3> QED BY <2>2, <3>1 DEF AuditInv, FoundInv, Reported
  <2>8. ListInv'
    <3>1. Injective(scan'.list) /\ Range(scan'.list) = {}
      BY <2>2, Empties DEF Range
    <3>2. inventory' = inventory
      BY <1>1 DEF World
    <3> QED BY <2>2, <3>1, <3>2 DEF ListInv
  <2> QED BY <2>4, <2>5, <2>6, <2>7, <2>8 DEF AuditInv
<1> QED BY <1>2, <1>3 DEF Count

(* Once everything was inspected the inventory is listed again.             *)
LEMMA VerifyKeeps ==
  ASSUME AuditInv, AuditAssumption, Verify
  PROVE  AuditInv'
<1>1. /\ snap' = snap /\ UNCHANGED World
      /\ scan.pc = "verify" \/ (scan.pc = "read" /\ scan.at = Len(scan.ids))
      /\ scan' = [scan EXCEPT !.pc = "count", !.second = TRUE]
  BY DEF Verify, Quiet, World
<1>2. /\ scan' \in Scans /\ scan'.pc = "count" /\ scan'.err = scan.err /\ scan'.held = scan.held
      /\ scan'.gen = scan.gen /\ scan'.req = scan.req /\ scan'.ids = scan.ids
      /\ scan'.second = TRUE /\ scan'.list = scan.list /\ scan'.at = scan.at
      /\ scan'.end = scan.end /\ scan'.found = scan.found /\ scan'.failed = scan.failed
      /\ scan'.readAny = scan.readAny /\ scan'.cancelled = scan.cancelled
  BY <1>1 DEF AuditInv, AuditTypeOK, Scans
<1>3. AuditTypeOK' /\ ReportInv' /\ CancelInv'
  BY <1>1, <1>2, Working DEF AuditInv, AuditTypeOK
<1>4. OrderInv'
  BY <1>1, <1>2 DEF AuditInv, OrderInv, First
<1>5. BatchInv'
  BY <1>1, <1>2 DEF AuditInv, BatchInv
<1>6. FoundInv'
  <2>1. Inspected' = Inspected
    BY <1>2 DEF Inspected
  <2> QED BY <1>2, <2>1 DEF AuditInv, FoundInv, Reported
<1>7. ListInv'
  BY <1>2 DEF AuditInv, ListInv
<1> QED BY <1>3, <1>4, <1>5, <1>6, <1>7 DEF AuditInv

(* A failed call of the vendor ends the scan.                               *)
LEMMA CallFailsKeeps ==
  ASSUME AuditInv, CallFails
  PROVE  AuditInv'
<1>1. snap' = snap /\ UNCHANGED World /\ scan.pc \in {"count", "page"}
  BY DEF CallFails, Quiet, World
<1>2. \E code \in Codes \ {""} : Abort(code)
  BY DEF CallFails, Codes
<1> QED BY <1>1, <1>2, AbortKeeps DEF AuditInv, AuditTypeOK

(* A page that repeats nothing keeps the listing free of repetitions. *)
LEMMA PageAppends ==
  ASSUME NEW S, NEW list \in Seq(S), NEW page \in Seq(S), Injective(list), Injective(page),
         \A k \in 1 .. Len(page) : ~ Contains(list, page[k])
  PROVE  /\ list \o page \in Seq(S) /\ Injective(list \o page)
         /\ \A I : Range(list) \subseteq I /\ Range(page) \subseteq I => Range(list \o page) \subseteq I
<1> DEFINE both == list \o page
<1>1. /\ Len(list) \in Nat /\ Len(page) \in Nat /\ DOMAIN list = 1 .. Len(list)
      /\ DOMAIN page = 1 .. Len(page)
  BY LenProperties
<1>2. both \in Seq(S) /\ Len(both) = Len(list) + Len(page)
  BY ConcatProperties
<1>3. DOMAIN both = 1 .. Len(list) + Len(page)
  BY <1>2, LenProperties
<1>4. \A i \in 1 .. Len(list) + Len(page) :
          both[i] = IF i <= Len(list) THEN list[i] ELSE page[i - Len(list)]
  BY ConcatProperties
<1> HIDE DEF both
<1>5. \A i \in 1 .. Len(list) + Len(page) :
          i > Len(list) => i - Len(list) \in 1 .. Len(page)
  BY <1>1
<1>6. \A i \in 1 .. Len(list), k \in 1 .. Len(page) : list[i] # page[k]
  BY DEF Contains
<1>7. Injective(both)
  <2>1. SUFFICES ASSUME NEW i \in 1 .. Len(list) + Len(page), NEW k \in 1 .. Len(list) + Len(page),
                        both[i] = both[k]
                 PROVE  i = k
    BY <1>3 DEF Injective
  <2>2. CASE i <= Len(list) /\ k <= Len(list)
    <3>1. i \in DOMAIN list /\ k \in DOMAIN list /\ list[i] = list[k]
      BY <1>1, <1>4, <2>1, <2>2
    <3> QED BY <3>1 DEF Injective
  <2>3. CASE i > Len(list) /\ k > Len(list)
    <3>1. i - Len(list) \in DOMAIN page /\ k - Len(list) \in DOMAIN page
      BY <1>1, <1>5, <2>3
    <3>2. page[i - Len(list)] = page[k - Len(list)]
      BY <1>1, <1>4, <2>1, <2>3
    <3>3. i - Len(list) = k - Len(list)
      BY <3>1, <3>2 DEF Injective
    <3> QED BY <1>1, <3>3
  <2>4. CASE i <= Len(list) /\ k > Len(list)
    <3>1. i \in 1 .. Len(list) /\ k - Len(list) \in 1 .. Len(page) /\ list[i] = page[k - Len(list)]
      BY <1>1, <1>4, <1>5, <2>1, <2>4
    <3> QED BY <1>6, <3>1
  <2>5. CASE i > Len(list) /\ k <= Len(list)
    <3>1. k \in 1 .. Len(list) /\ i - Len(list) \in 1 .. Len(page) /\ list[k] = page[i - Len(list)]
      BY <1>1, <1>4, <1>5, <2>1, <2>5
    <3> QED BY <1>6, <3>1
  <2> QED BY <1>1, <2>2, <2>3, <2>4, <2>5
<1>8. ASSUME NEW I, Range(list) \subseteq I, Range(page) \subseteq I
      PROVE  Range(both) \subseteq I
  <2>1. SUFFICES ASSUME NEW i \in 1 .. Len(list) + Len(page) PROVE both[i] \in I
    BY <1>3 DEF Range
  <2>2. CASE i <= Len(list)
    BY <1>1, <1>4, <1>8, <2>2 DEF Range
  <2>3. CASE i > Len(list)
    <3>1. i - Len(list) \in DOMAIN page /\ both[i] = page[i - Len(list)]
      BY <1>1, <1>4, <1>5, <2>3
    <3> QED BY <1>8, <3>1 DEF Range
  <2> QED BY <1>1, <2>2, <2>3
<1> QED BY <1>2, <1>7, <1>8 DEF both

(* A page of a set in order. *)
LEMMA PageDoes ==
  ASSUME NEW I \in SUBSET Nat, IsFiniteSet(I), NEW from \in Nat \ {0}, NEW to \in Nat,
         to <= Cardinality(I)
  PROVE  LET page == SubSeq(Sorted(I), from, to)
         IN  page \in Seq(I) /\ Injective(page) /\ Range(page) \subseteq I
<1> DEFINE s == Sorted(I)
           page == SubSeq(s, from, to)
<1>1. s \in [1 .. Cardinality(I) -> I] /\ Injective(s) /\ Cardinality(I) \in Nat
  BY SortedDoes
<1> HIDE DEF s
<1>2. \A i \in from .. to : s[i] \in I /\ i \in DOMAIN s
  BY <1>1
<1>3. /\ page \in Seq(I) /\ Len(page) = IF from <= to THEN to - from + 1 ELSE 0
      /\ \A i \in 1 .. to - from + 1 : page[i] = s[from + i - 1]
  BY <1>2, SubSeqProperties
<1> HIDE DEF page
<1>4. DOMAIN page = 1 .. to - from + 1
  BY <1>3, LenProperties
<1>5. \A i \in 1 .. to - from + 1 : from + i - 1 \in from .. to
  OBVIOUS
<1>6. Injective(page)
  <2>1. SUFFICES ASSUME NEW j \in 1 .. to - from + 1, NEW k \in 1 .. to - from + 1, page[j] = page[k]
                 PROVE  j = k
    BY <1>4 DEF Injective
  <2>2. s[from + j - 1] = s[from + k - 1]
    BY <1>3, <2>1
  <2>3. from + j - 1 = from + k - 1
    BY <1>1, <1>2, <1>5, <2>2 DEF Injective
  <2> QED BY <2>3
<1>7. Range(page) \subseteq I
  BY <1>2, <1>3, <1>4, <1>5 DEF Range
<1> QED BY <1>3, <1>6, <1>7 DEF page, s

(* A page of a listing.                                                     *)
LEMMA PageKeeps ==
  ASSUME AuditInv, AuditAssumption, Page
  PROVE  AuditInv'
<1> DEFINE from == Len(scan.list) + 1
           to == Least(Cardinality(inventory), Least(scan.count, from + PageSize - 1))
           page == SubSeq(Sorted(inventory), from, to)
<1>1. snap' = snap /\ UNCHANGED World /\ scan.pc = "page"
  BY DEF Page, Quiet, World
<1>2. inventory \in SUBSET Nat /\ inventory \in SUBSET Vars /\ IsFiniteSet(inventory)
  BY DEF AuditInv, AuditTypeOK, AuditAssumption
<1>3. scan.list \in Seq(Vars) /\ Len(scan.list) \in Nat /\ scan.count \in Nat
  BY LenProperties DEF AuditInv, AuditTypeOK, Scans
<1>4. from \in Nat \ {0} /\ to \in Nat /\ to <= Cardinality(inventory)
  <2>1. Cardinality(inventory) \in Nat /\ PageSize \in Nat \ {0}
    BY <1>2, FS_CardinalityType DEF AuditAssumption
  <2> QED BY <1>3, <2>1 DEF Least
<1> HIDE DEF from, to
<1>5. page \in Seq(inventory) /\ Injective(page) /\ Range(page) \subseteq inventory
  BY <1>2, <1>4, PageDoes
<1>6. CASE \E code \in Codes \ {""} : Abort(code)
  BY <1>1, <1>6, AbortKeeps DEF AuditInv, AuditTypeOK
<1>7. CASE /\ scan' = [scan EXCEPT !.list = scan.list \o page]
           /\ \A k \in 1 .. Len(page) : ~ Contains(scan.list, page[k])
  <2> HIDE DEF page
  <2>1. page \in Seq(Vars) /\ Injective(scan.list)
    <3>1. page \in Seq(Vars)
      BY <1>2, <1>5, SeqMonotonic
    <3> QED BY <3>1 DEF AuditInv, ListInv
  <2>2. /\ scan.list \o page \in Seq(Vars) /\ Injective(scan.list \o page)
        /\ Range(scan.list) \subseteq inventory => Range(scan.list \o page) \subseteq inventory
    BY <1>3, <1>5, <1>7, <2>1, PageAppends
  <2>3. /\ scan' \in Scans /\ scan'.pc = "page" /\ scan'.err = scan.err /\ scan'.held = scan.held
        /\ scan'.gen = scan.gen /\ scan'.req = scan.req /\ scan'.ids = scan.ids
        /\ scan'.second = scan.second /\ scan'.list = scan.list \o page /\ scan'.at = scan.at
        /\ scan'.end = scan.end /\ scan'.found = scan.found /\ scan'.failed = scan.failed
        /\ scan'.readAny = scan.readAny /\ scan'.cancelled = scan.cancelled
        /\ scan'.verified = scan.verified /\ scan'.count = scan.count /\ scan'.steady = scan.steady
    BY <1>1, <1>7, <2>2 DEF AuditInv, AuditTypeOK, Scans
  <2>4. AuditTypeOK' /\ ReportInv' /\ CancelInv'
    BY <1>1, <2>3, Working DEF AuditInv, AuditTypeOK
  <2>5. OrderInv'
    BY <1>1, <2>3 DEF AuditInv, OrderInv, First
  <2>6. BatchInv'
    BY <1>1, <2>3 DEF AuditInv, BatchInv
  <2>7. FoundInv'
    <3>1. Inspected' = Inspected
      BY <2>3 DEF Inspected
    <3> QED BY <2>3, <3>1 DEF AuditInv, FoundInv, Reported
  <2>8. ListInv'
    <3>1. inventory' = inventory
      BY <1>1 DEF World
    <3> QED BY <1>1, <2>2, <2>3, <3>1 DEF AuditInv, ListInv
  <2> QED BY <2>4, <2>5, <2>6, <2>7, <2>8 DEF AuditInv
<1> QED BY <1>6, <1>7 DEF Page, Codes, from, to

(* The whole of a list.                                                     *)
LEMMA PartOfAll ==
  ASSUME NEW ids, DOMAIN ids = 1 .. Len(ids)
  PROVE  Part(ids, 1, Len(ids)) = Range(ids)
BY DEF Part, Range

(* The first listing is sorted, and matched by name if that is the request. *)
LEMMA ListedKeeps ==
  ASSUME AuditInv, AuditAssumption, Listed
  PROVE  AuditInv'
<1> DEFINE ids == Sorted(Range(scan.list))
<1>1. /\ snap' = snap /\ UNCHANGED World /\ scan.pc = "page" /\ ~scan.second
      /\ scan.list \in Seq(Vars)
  BY DEF Listed, Quiet, World, AuditInv, AuditTypeOK, Scans
<1>2. ids \in Seq(Vars) /\ Injective(ids) /\ DOMAIN ids = 1 .. Len(ids) /\ Len(ids) \in Nat
  <2> DEFINE S == Range(scan.list)
  <2>1. S \in SUBSET Vars /\ S \in SUBSET Nat /\ IsFiniteSet(S)
    <3>1. S \in SUBSET Vars
      BY <1>1, LenProperties DEF Range
    <3>2. IsFiniteSet(S)
      BY <1>1, RangeFinite
    <3> QED BY <3>1, <3>2 DEF AuditAssumption
  <2> HIDE DEF S
  <2>2. Sorted(S) \in [1 .. Cardinality(S) -> S] /\ Injective(Sorted(S)) /\ Cardinality(S) \in Nat
    BY <2>1, SortedDoes
  <2>3. Sorted(S) \in Seq(S)
    BY <2>2, SeqDef
  <2>4. Sorted(S) \in Seq(Vars)
    BY <2>1, <2>3, SeqMonotonic
  <2> QED BY <2>2, <2>4, LenProperties DEF S
<1> HIDE DEF ids
<1>3. /\ scan.ids = <<>> /\ scan.at = 0 /\ scan.found = {} /\ scan.failed = {} /\ scan.held = {}
      /\ scan.err = ""
  BY <1>1 DEF AuditInv, OrderInv, First, BatchInv
<1>4. CASE Abort("cancelled")
  BY <1>1, <1>4, AbortKeeps DEF Codes, AuditInv, AuditTypeOK
<1>5. CASE /\ scan.req.mode = "id-regex"
           /\ scan' = [scan EXCEPT !.pc = "verify", !.ids = ids, !.at = Len(ids),
                                   !.found = Range(ids) \cap NameMatches]
  <2>1. Range(ids) \in SUBSET Vars
    BY <1>2, LenProperties DEF Range
  <2>2. /\ scan' \in Scans /\ scan'.pc = "verify" /\ scan'.err = "" /\ scan'.held = {}
        /\ scan'.gen = scan.gen /\ scan'.req = scan.req /\ scan'.ids = ids
        /\ ~scan'.second /\ scan'.list = scan.list /\ scan'.at = Len(ids)
        /\ scan'.end = scan.end /\ scan'.found = Range(ids) \cap NameMatches /\ scan'.failed = {}
        /\ scan'.readAny = scan.readAny /\ scan'.cancelled = scan.cancelled
    BY <1>1, <1>2, <1>3, <1>5, <2>1 DEF AuditInv, AuditTypeOK, Scans
  <2>3. {scan'.at, scan'.end} \subseteq 0 .. Len(scan'.ids)
    <3>1. scan.end \in 0 .. Len(scan.ids) /\ Len(scan.ids) = 0
      BY <1>3, Empties DEF AuditInv, AuditTypeOK
    <3>2. scan.end = 0
      BY <3>1
    <3>3. scan'.end = 0 /\ scan'.at \in {0, Len(ids)} /\ Len(scan'.ids) = Len(ids)
      BY <2>2, <3>2
    <3> QED BY <1>2, <3>3
  <2>4. AuditTypeOK' /\ ReportInv' /\ CancelInv'
    BY <1>1, <2>2, <2>3, Working DEF AuditInv, AuditTypeOK
  <2>5. OrderInv'
    BY <1>2, <2>2 DEF OrderInv, First
  <2>6. BatchInv'
    BY <1>5, <2>2 DEF AuditInv, BatchInv
  <2>7. FoundInv'
    <3>1. Inspected' = Range(ids)
      BY <1>2, <2>2, PartOfAll DEF Inspected
    <3> QED BY <1>5, <2>2, <3>1 DEF FoundInv
  <2>8. ListInv'
    BY <2>2 DEF AuditInv, ListInv
  <2> QED BY <2>4, <2>5, <2>6, <2>7, <2>8 DEF AuditInv
<1>6. CASE scan.req.mode # "id-regex" /\ scan' = [scan EXCEPT !.pc = "read", !.ids = ids]
  <2>2. /\ scan' \in Scans /\ scan'.pc = "read" /\ scan'.err = "" /\ scan'.held = {}
        /\ scan'.gen = scan.gen /\ scan'.req = scan.req /\ scan'.ids = ids
        /\ ~scan'.second /\ scan'.list = scan.list /\ scan'.at = 0
        /\ scan'.end = scan.end /\ scan'.found = {} /\ scan'.failed = {}
        /\ scan'.readAny = scan.readAny /\ scan'.cancelled = scan.cancelled
    BY <1>1, <1>2, <1>3, <1>6 DEF AuditInv, AuditTypeOK, Scans
  <2>3. {scan'.at, scan'.end} \subseteq 0 .. Len(scan'.ids)
    <3>1. scan.end \in 0 .. Len(scan.ids) /\ Len(scan.ids) = 0
      BY <1>3, Empties DEF AuditInv, AuditTypeOK
    <3>2. scan.end = 0
      BY <3>1
    <3>3. scan'.end = 0 /\ scan'.at \in {0, Len(ids)} /\ Len(scan'.ids) = Len(ids)
      BY <2>2, <3>2
    <3> QED BY <1>2, <3>3
  <2>4. AuditTypeOK' /\ ReportInv' /\ CancelInv'
    BY <1>1, <2>2, <2>3, Working DEF AuditInv, AuditTypeOK
  <2>5. OrderInv'
    BY <1>2, <2>2 DEF OrderInv, First
  <2>6. BatchInv'
    BY <1>6, <2>2 DEF AuditInv, BatchInv
  <2>7. FoundInv'
    <3>1. Inspected' = {}
      BY <2>2, Empties DEF Inspected
    <3> QED BY <2>2, <3>1 DEF FoundInv
  <2>8. ListInv'
    BY <2>2 DEF AuditInv, ListInv
  <2> QED BY <2>4, <2>5, <2>6, <2>7, <2>8 DEF AuditInv
<1> QED BY <1>4, <1>5, <1>6 DEF Listed, ids

(* One more element of a list.                                              *)
LEMMA PartGrows ==
  ASSUME NEW ids, NEW i \in Nat, NEW j \in Nat, i <= j
  PROVE  Part(ids, i, j + 1) = Part(ids, i, j) \cup {ids[j + 1]}
<1>1. i .. j + 1 = (i .. j) \cup {j + 1}
  OBVIOUS
<1> QED BY <1>1 DEF Part

(* The parts of a list. *)
LEMMA Parts ==
  ASSUME NEW S, NEW ids \in Seq(S)
  PROVE  /\ \A i, j \in Nat : i >= 1 /\ j <= Len(ids) => Part(ids, i, j) \in SUBSET S
         /\ \A i \in Nat : Part(ids, i + 1, i) = {}
         /\ \A i \in Nat : Part(ids, i + 1, i + 1) = {ids[i + 1]}
         /\ \A i, j \in Nat : i <= j => Part(ids, 1, j) = Part(ids, 1, i) \cup Part(ids, i + 1, j)
<1>0. Len(ids) \in Nat
  BY LenProperties
<1>1. ASSUME NEW i \in Nat, NEW j \in Nat, i >= 1, j <= Len(ids)
      PROVE  Part(ids, i, j) \in SUBSET S
  <2>1. \A k \in i .. j : ids[k] \in S
    BY <1>0, <1>1, ElementOfSeq
  <2> QED BY <2>1 DEF Part
<1>2. ASSUME NEW i \in Nat
      PROVE  Part(ids, i + 1, i) = {} /\ Part(ids, i + 1, i + 1) = {ids[i + 1]}
  BY DEF Part
<1>3. ASSUME NEW i \in Nat, NEW j \in Nat, i <= j
      PROVE  Part(ids, 1, j) = Part(ids, 1, i) \cup Part(ids, i + 1, j)
  <2>1. 1 .. j = (1 .. i) \cup (i + 1 .. j)
    BY <1>3
  <2> QED BY <2>1 DEF Part
<1> QED BY <1>1, <1>2, <1>3

(* A batch is read at once, or is about to be read one by one.              *)
LEMMA ReadBatchKeeps ==
  ASSUME AuditInv, AuditAssumption, ReadBatch
  PROVE  AuditInv'
<1> DEFINE end == nextSecretAuditBatch(scan.ids, scan.at)
           batch == {scan.ids[k] : k \in scan.at + 1 .. end}
<1>1. /\ snap' = snap /\ UNCHANGED World /\ scan.pc = "read" /\ scan.at < Len(scan.ids)
      /\ scan.ids \in Seq(Vars) /\ scan.at \in 0 .. Len(scan.ids)
  BY DEF ReadBatch, Quiet, World, AuditInv, AuditTypeOK, Scans
<1>2. end \in scan.at + 1 .. Len(scan.ids) /\ scan.at \in Nat /\ Len(scan.ids) \in Nat
  BY <1>1, BatchDoes, LenProperties DEF AuditAssumption
<1> HIDE DEF end
<1>3. batch = Part(scan.ids, scan.at + 1, end) /\ batch \in SUBSET Vars
  <2>1. Part(scan.ids, scan.at + 1, end) \in SUBSET Vars
    <3>1. scan.at + 1 \in Nat /\ end \in Nat /\ scan.at + 1 >= 1 /\ end <= Len(scan.ids)
      BY <1>2
    <3> QED BY <1>1, <3>1, Parts
  <2> QED BY <2>1 DEF Part
<1> HIDE DEF batch
<1>4. ~scan.second /\ scan.req.mode # "id-regex" /\ scan.err = ""
  BY <1>1 DEF AuditInv, OrderInv, BatchInv
<1>5. CASE Abort("cancelled")
  BY <1>1, <1>5, AbortKeeps DEF Codes, AuditInv, AuditTypeOK
<1>6. ASSUME NEW large \in SUBSET batch,
             scan' = [[scan EXCEPT !.end = end, !.lost = {}] EXCEPT !.pc = "classify",
                        !.held = batch \ large, !.lost = large, !.readAny = TRUE]
      PROVE  AuditInv'
  <2>1. batch \ large \in SUBSET Vars /\ large \in SUBSET Vars /\ (batch \ large) \cup large = batch
        /\ end \in Nat
    <3>1. end \in Nat
      BY <1>2
    <3>2. (batch \ large) \cup large = batch
      OBVIOUS
    <3> QED BY <1>3, <3>1, <3>2
  <2>2. /\ scan' \in Scans /\ scan'.pc = "classify" /\ scan'.err = scan.err
        /\ scan'.held = batch \ large /\ scan'.lost = large /\ scan'.end = end
        /\ scan'.gen = scan.gen /\ scan'.req = scan.req /\ scan'.ids = scan.ids
        /\ scan'.second = scan.second /\ scan'.list = scan.list /\ scan'.at = scan.at
        /\ scan'.found = scan.found /\ scan'.failed = scan.failed
        /\ scan'.cancelled = scan.cancelled
    BY <1>6, <2>1 DEF AuditInv, AuditTypeOK, Scans
  <2>3. {scan'.at, scan'.end} \subseteq 0 .. Len(scan'.ids)
    <3>1. end \in 0 .. Len(scan.ids)
      BY <1>2
    <3> QED BY <1>1, <2>2, <3>1
  <2>4. AuditTypeOK' /\ ReportInv' /\ CancelInv'
    BY <1>1, <2>2, <2>3, Working DEF AuditInv, AuditTypeOK
  <2>5. OrderInv'
    BY <1>1, <1>4, <2>2 DEF AuditInv, OrderInv, First
  <2>6. BatchInv'
    <3>1. scan.at <= end
      BY <1>2
    <3> QED BY <1>3, <1>4, <2>1, <2>2, <3>1 DEF BatchInv
  <2>7. FoundInv'
    <3>1. Inspected' = Inspected
      BY <2>2 DEF Inspected
    <3> QED BY <2>2, <3>1 DEF AuditInv, FoundInv, Reported
  <2>8. ListInv'
    BY <2>2 DEF AuditInv, ListInv
  <2> QED BY <2>4, <2>5, <2>6, <2>7, <2>8 DEF AuditInv
<1>7. CASE scan' = [[scan EXCEPT !.end = end, !.lost = {}] EXCEPT !.pc = "single",
                      !.count = scan.at]
  <2>1. end \in Nat /\ {} \in SUBSET Vars
    BY <1>2
  <2>2. /\ scan' \in Scans /\ scan'.pc = "single" /\ scan'.err = scan.err
        /\ scan'.held = scan.held /\ scan'.lost = {} /\ scan'.end = end /\ scan'.count = scan.at
        /\ scan'.gen = scan.gen /\ scan'.req = scan.req /\ scan'.ids = scan.ids
        /\ scan'.second = scan.second /\ scan'.list = scan.list /\ scan'.at = scan.at
        /\ scan'.found = scan.found /\ scan'.failed = scan.failed
        /\ scan'.cancelled = scan.cancelled
    BY <1>2, <1>7, <2>1 DEF AuditInv, AuditTypeOK, Scans
  <2>3. {scan'.at, scan'.end} \subseteq 0 .. Len(scan'.ids)
    <3>1. end \in 0 .. Len(scan.ids)
      BY <1>2
    <3> QED BY <1>1, <2>2, <3>1
  <2>4. AuditTypeOK' /\ ReportInv' /\ CancelInv'
    BY <1>1, <2>2, <2>3, Working DEF AuditInv, AuditTypeOK
  <2>5. OrderInv'
    BY <1>1, <1>4, <2>2 DEF AuditInv, OrderInv, First
  <2>6. BatchInv'
    <3>1. scan.at <= end /\ scan.at \in scan.at .. end
      BY <1>2
    <3>2. scan.held = {} /\ Part(scan.ids, scan.at + 1, scan.at) = {}
      <4>1. scan.held = {}
        BY <1>1 DEF AuditInv, BatchInv
      <4> QED BY <1>1, <1>2, <4>1, Parts
    <3> QED BY <1>4, <2>2, <3>1, <3>2 DEF BatchInv
  <2>7. FoundInv'
    <3>1. Inspected' = Inspected
      BY <2>2 DEF Inspected
    <3> QED BY <2>2, <3>1 DEF AuditInv, FoundInv, Reported
  <2>8. ListInv'
    BY <2>2 DEF AuditInv, ListInv
  <2> QED BY <2>4, <2>5, <2>6, <2>7, <2>8 DEF AuditInv
<1> QED BY <1>5, <1>6, <1>7 DEF ReadBatch, end, batch

(* One variable of a batch is read, or has failed.                          *)
LEMMA ReadOneKeeps ==
  ASSUME AuditInv, AuditAssumption, ReadOne
  PROVE  AuditInv'
<1>1. /\ snap' = snap /\ UNCHANGED World /\ scan.pc = "single" /\ scan.ids \in Seq(Vars)
      /\ scan.at \in 0 .. Len(scan.ids) /\ scan.end \in 0 .. Len(scan.ids)
      /\ scan.count \in scan.at .. scan.end
      /\ scan.held \cup scan.lost = Part(scan.ids, scan.at + 1, scan.count)
  BY DEF ReadOne, Quiet, World, AuditInv, AuditTypeOK, BatchInv, Scans
<1>2. Len(scan.ids) \in Nat /\ scan.at \in Nat /\ scan.end \in Nat /\ scan.count \in Nat
      /\ scan.at <= scan.count /\ scan.count <= scan.end /\ scan.end <= Len(scan.ids)
  <2>1. Len(scan.ids) \in Nat
    BY <1>1, LenProperties
  <2> QED BY <1>1, <2>1
<1>3. ~scan.second /\ scan.req.mode # "id-regex" /\ scan.err = ""
  BY <1>1 DEF AuditInv, OrderInv, BatchInv
<1>4. CASE \E code \in Codes \ {""} : Abort(code)
  BY <1>1, <1>4, AbortKeeps DEF AuditInv, AuditTypeOK
<1>5. CASE scan.count = scan.end /\ Go("classify")
  <2>2. /\ scan' \in Scans /\ scan'.pc = "classify" /\ scan'.err = scan.err
        /\ scan'.held = scan.held /\ scan'.lost = scan.lost /\ scan'.end = scan.end
        /\ scan'.gen = scan.gen /\ scan'.req = scan.req /\ scan'.ids = scan.ids
        /\ scan'.second = scan.second /\ scan'.list = scan.list /\ scan'.at = scan.at
        /\ scan'.found = scan.found /\ scan'.failed = scan.failed
        /\ scan'.cancelled = scan.cancelled
    BY <1>5 DEF Go, AuditInv, AuditTypeOK, Scans
  <2>4. AuditTypeOK' /\ ReportInv' /\ CancelInv'
    BY <1>1, <2>2, Working DEF AuditInv, AuditTypeOK
  <2>5. OrderInv'
    BY <1>1, <1>3, <2>2 DEF AuditInv, OrderInv, First
  <2>6. BatchInv'
    BY <1>1, <1>2, <1>3, <1>5, <2>2 DEF BatchInv
  <2>7. FoundInv'
    <3>1. Inspected' = Inspected
      BY <2>2 DEF Inspected
    <3> QED BY <2>2, <3>1 DEF AuditInv, FoundInv, Reported
  <2>8. ListInv'
    BY <2>2 DEF AuditInv, ListInv
  <2> QED BY <2>4, <2>5, <2>6, <2>7, <2>8 DEF AuditInv
<1> DEFINE v == scan.ids[scan.count + 1]
           next == [scan EXCEPT !.count = scan.count + 1]
<1>6. ASSUME scan.count # scan.end,
             \/ scan' = [next EXCEPT !.held = scan.held \cup {v}, !.readAny = TRUE]
             \/ scan' = [next EXCEPT !.lost = scan.lost \cup {v}]
      PROVE  AuditInv'
  <2>1. scan.count + 1 \in scan.at .. scan.end /\ scan.count + 1 \in 1 .. Len(scan.ids)
    BY <1>2, <1>6
  <2>2. v \in Vars /\ scan.count + 1 \in Nat
    BY <1>1, <2>1, <1>2, ElementOfSeq
  <2>3. Part(scan.ids, scan.at + 1, scan.count + 1) = (scan.held \cup scan.lost) \cup {v}
    <3>1. CASE scan.count = scan.at
      BY <1>1, <1>2, <3>1, Parts
    <3>2. CASE scan.count # scan.at
      <4>1. scan.at + 1 \in Nat /\ scan.at + 1 <= scan.count
        BY <1>2, <3>2
      <4>3. Part(scan.ids, scan.at + 1, scan.count + 1) = Part(scan.ids, scan.at + 1, scan.count) \cup {v}
        BY <1>2, <4>1, PartGrows
      <4> QED BY <1>1, <4>3
    <3> QED BY <3>1, <3>2
  <2> HIDE DEF v
  <2>4. scan.held \cup {v} \in SUBSET Vars /\ scan.lost \cup {v} \in SUBSET Vars
    BY <2>2 DEF AuditInv, AuditTypeOK, Scans
  <2>5. /\ scan' \in Scans /\ scan'.pc = "single" /\ scan'.err = scan.err /\ scan'.end = scan.end
        /\ \/ scan'.held = scan.held \cup {v} /\ scan'.lost = scan.lost
           \/ scan'.held = scan.held /\ scan'.lost = scan.lost \cup {v}
        /\ scan'.count = scan.count + 1
        /\ scan'.gen = scan.gen /\ scan'.req = scan.req /\ scan'.ids = scan.ids
        /\ scan'.second = scan.second /\ scan'.list = scan.list /\ scan'.at = scan.at
        /\ scan'.found = scan.found /\ scan'.failed = scan.failed
        /\ scan'.cancelled = scan.cancelled
    <3>1. CASE scan' = [next EXCEPT !.held = scan.held \cup {v}, !.readAny = TRUE]
      BY <1>1, <2>2, <2>4, <3>1 DEF AuditInv, AuditTypeOK, Scans
    <3>2. CASE scan' = [next EXCEPT !.lost = scan.lost \cup {v}]
      BY <1>1, <2>2, <2>4, <3>2 DEF AuditInv, AuditTypeOK, Scans
    <3> QED BY <1>6, <3>1, <3>2
  <2>6. AuditTypeOK' /\ ReportInv' /\ CancelInv'
    BY <1>1, <2>5, Working DEF AuditInv, AuditTypeOK
  <2>7. OrderInv'
    BY <1>1, <1>3, <2>5 DEF AuditInv, OrderInv, First
  <2>8. BatchInv'
    <3>1. scan'.held \cup scan'.lost = (scan.held \cup scan.lost) \cup {v}
      <4>1. CASE scan'.held = scan.held \cup {v} /\ scan'.lost = scan.lost
        BY <4>1
      <4>2. CASE scan'.held = scan.held /\ scan'.lost = scan.lost \cup {v}
        BY <4>2
      <4> QED BY <2>5, <4>1, <4>2
    <3>2. scan.at <= scan.end
      BY <1>2
    <3> QED BY <1>3, <2>1, <2>3, <2>5, <3>1, <3>2 DEF BatchInv
  <2>9. FoundInv'
    <3>1. Inspected' = Inspected
      BY <2>5 DEF Inspected
    <3> QED BY <2>5, <3>1 DEF AuditInv, FoundInv, Reported
  <2>10. ListInv'
    BY <2>5 DEF AuditInv, ListInv
  <2> QED BY <2>6, <2>7, <2>8, <2>9, <2>10 DEF AuditInv
<1> QED BY <1>4, <1>5, <1>6 DEF ReadOne, Codes

(* A batch is classified: what it held is reported or not, or has failed. *)
LEMMA ClassifyKeeps ==
  ASSUME AuditInv, AuditAssumption, Classify
  PROVE  AuditInv'
<1>1. /\ snap' = snap /\ UNCHANGED World /\ scan.pc = "classify" /\ scan.ids \in Seq(Vars)
      /\ scan.at \in 0 .. Len(scan.ids) /\ scan.end \in 0 .. Len(scan.ids)
      /\ scan.at <= scan.end
      /\ scan.held \cup scan.lost = Part(scan.ids, scan.at + 1, scan.end)
  BY DEF Classify, Quiet, World, AuditInv, AuditTypeOK, BatchInv, Scans
<1>2. PICK odd \in SUBSET scan.held :
        scan' = [scan EXCEPT !.pc = "read", !.at = scan.end, !.held = Zeroed,
                   !.failed = scan.failed \cup scan.lost \cup odd,
                   !.found = scan.found \cup {v \in scan.held \ odd : Reported(v, scan.req.min)}]
  BY DEF Classify
<1> DEFINE good == {v \in scan.held \ odd : Reported(v, scan.req.min)}
<1>3. /\ scan.failed \cup scan.lost \cup odd \in SUBSET Vars /\ scan.found \cup good \in SUBSET Vars
      /\ {} \in SUBSET Vars
  BY DEF AuditInv, AuditTypeOK, Scans
<1>4. \A v \in good : v \in scan.held \ odd /\ Reported(v, scan.req.min)
  OBVIOUS
<1>5. \A v \in scan.held \ odd : Reported(v, scan.req.min) => v \in good
  OBVIOUS
<1>6. scan' = [scan EXCEPT !.pc = "read", !.at = scan.end, !.held = Zeroed,
                   !.failed = scan.failed \cup scan.lost \cup odd, !.found = scan.found \cup good]
  BY <1>2
<1> HIDE DEF good
<1>7. /\ scan' \in Scans /\ scan'.pc = "read" /\ scan'.err = scan.err /\ scan'.end = scan.end
      /\ scan'.held = {} /\ scan'.gen = scan.gen /\ scan'.req = scan.req /\ scan'.ids = scan.ids
      /\ scan'.second = scan.second /\ scan'.list = scan.list /\ scan'.at = scan.end
      /\ scan'.found = scan.found \cup good /\ scan'.failed = scan.failed \cup scan.lost \cup odd
      /\ scan'.cancelled = scan.cancelled
  BY <1>3, <1>6 DEF AuditInv, AuditTypeOK, Scans, Zeroed
<1>8. ~scan.second /\ scan.req.mode # "id-regex" /\ scan.err = ""
  BY <1>1 DEF AuditInv, OrderInv, BatchInv
<1>9. AuditTypeOK' /\ ReportInv' /\ CancelInv'
  BY <1>1, <1>7, Working DEF AuditInv, AuditTypeOK
<1>10. OrderInv'
  BY <1>1, <1>7, <1>8 DEF AuditInv, OrderInv, First
<1>11. BatchInv'
  BY <1>7, <1>8 DEF BatchInv
<1>12. FoundInv'
  <2>1. Inspected' = Inspected \cup (scan.held \cup scan.lost)
    <3>1. Len(scan.ids) \in Nat
      BY <1>1, LenProperties
    <3>2. scan.at \in Nat /\ scan.end \in Nat
      BY <1>1, <3>1
    <3>3. Part(scan.ids, 1, scan.end) = Part(scan.ids, 1, scan.at) \cup Part(scan.ids, scan.at + 1, scan.end)
      BY <1>1, <3>2, Parts
    <3> QED BY <1>1, <1>7, <3>3 DEF Inspected
  <2>2. scan.found \cup scan.failed \subseteq Inspected
    BY DEF AuditInv, FoundInv
  <2>3. \A v \in Inspected \ scan.failed : Reported(v, scan.req.min) <=> v \in scan.found
    BY <1>8 DEF AuditInv, FoundInv
  <2>4. scan'.found \cup scan'.failed \subseteq Inspected'
    BY <1>4, <1>7, <2>1, <2>2
  <2>5. ASSUME NEW v \in Inspected' \ scan'.failed
        PROVE  Reported(v, scan.req.min) <=> v \in scan'.found
    <3>1. CASE v \in Inspected
      BY <1>4, <1>7, <2>2, <2>3, <2>5, <3>1
    <3>2. CASE v \notin Inspected
      <4>1. v \in scan.held \ odd /\ v \notin scan.found
        BY <1>7, <2>1, <2>2, <2>5, <3>2
      <4> QED BY <1>4, <1>5, <1>7, <4>1
    <3> QED BY <3>1, <3>2
  <2>6. \A v \in Inspected' \ scan'.failed : Reported(v, scan'.req.min) <=> v \in scan'.found
    BY <1>7, <2>5
  <2> QED BY <2>4, <2>6 DEF FoundInv, Reported
<1>13. ListInv'
  BY <1>7 DEF AuditInv, ListInv
<1> QED BY <1>9, <1>10, <1>11, <1>12, <1>13 DEF AuditInv

(* A listing as long as the first one that stays in it has all of it; one   *)
(* as long as an inventory it stays in has all of that.                     *)
LEMMA SameElements ==
  ASSUME NEW S, NEW list \in Seq(S), Injective(list), NEW T, IsFiniteSet(T),
         Range(list) \subseteq T, Len(list) = Cardinality(T)
  PROVE  Range(list) = T
<1>1. Len(list) \in Nat /\ DOMAIN list = 1 .. Len(list) /\ list \in [1 .. Len(list) -> S]
  BY LenProperties
<1>2. list \in [1 .. Len(list) -> T]
  BY <1>1 DEF Range
<1> QED BY <1>1, <1>2, FullListing DEF Injective

(* How many elements a listing has.                                         *)
LEMMA Elements ==
  ASSUME NEW S, NEW list \in Seq(S), Injective(list)
  PROVE  IsFiniteSet(Range(list)) /\ Cardinality(Range(list)) = Len(list)
<1> DEFINE n == Len(list)
           Places == 1 .. n
<1>1. list \in Bijection(Places, Range(list)) /\ n \in Nat
  BY LenProperties DEF Bijection, Injection, IsInjective, Surjection, Range, Injective
<1>2. IsFiniteSet(Places) /\ Cardinality(Places) = n
  <2> HIDE DEF n
  <2> QED BY <1>1, FS_Interval
<1> HIDE DEF Places, n
<1>3. IsFiniteSet(Range(list)) /\ Cardinality(Range(list)) = Cardinality(Places)
  BY <1>1, <1>2, FS_Bijection, Zenon DEF ExistsBijection
<1> QED BY <1>2, <1>3 DEF n

(* The second listing is compared with the first, and the findings shown.   *)
LEMMA PublishKeeps ==
  ASSUME AuditInv, AuditAssumption, Publish
  PROVE  AuditInv'
<1>1. /\ UNCHANGED World /\ scan.pc = "page" /\ scan.second /\ Len(scan.list) = scan.count
      /\ scan.list \in Seq(Vars) /\ scan.ids \in Seq(Vars) /\ scan.err = ""
  BY DEF Publish, Quiet, World, AuditInv, AuditTypeOK, Scans, OrderInv
<1>2. CASE Abort("inventory_changed") /\ snap' = snap
  BY <1>1, <1>2, AbortKeeps DEF Codes, AuditInv, AuditTypeOK
<1>3. CASE /\ SameInventory
           /\ snap' = [snap EXCEPT !.findings = scan.found, !.failures = scan.failed]
           /\ Go("ending")
  <2>1. /\ snap' \in Reports /\ snap'.state = snap.state /\ snap'.findings = scan.found
        /\ snap'.failures = scan.failed
    BY <1>3 DEF AuditInv, AuditTypeOK, Reports, Scans
  <2>2. /\ scan' \in Scans /\ scan'.pc = "ending" /\ scan'.err = "" /\ scan'.end = scan.end
        /\ scan'.held = scan.held /\ scan'.gen = scan.gen /\ scan'.req = scan.req
        /\ scan'.ids = scan.ids /\ scan'.second = scan.second /\ scan'.list = scan.list
        /\ scan'.at = scan.at /\ scan'.found = scan.found /\ scan'.failed = scan.failed
        /\ scan'.readAny = scan.readAny /\ scan'.cancelled = scan.cancelled
        /\ scan'.verified = scan.verified /\ scan'.steady = scan.steady
    BY <1>1, <1>3 DEF Go, AuditInv, AuditTypeOK, Scans
  <2>3. AuditTypeOK'
    BY <1>1, <2>1, <2>2 DEF AuditInv, AuditTypeOK, World
  <2>4. OrderInv'
    BY <1>1, <2>2 DEF AuditInv, OrderInv, First
  <2>5. BatchInv'
    BY <1>1, <2>2 DEF AuditInv, BatchInv
  <2>6. FoundInv'
    <3>1. Inspected' = Inspected
      BY <2>2 DEF Inspected
    <3> QED BY <2>2, <3>1 DEF AuditInv, FoundInv, Reported
  <2>7. ListInv'
    <3>1. Injective(scan.list) /\ Injective(scan.ids)
      BY DEF AuditInv, ListInv, OrderInv
    <3>2. Range(scan.list) = Range(scan.ids)
      <4>1. /\ Range(scan.list) \subseteq Range(scan.ids) /\ Len(scan.list) = Len(scan.ids)
        BY <1>3 DEF SameInventory
      <4>2. IsFiniteSet(Range(scan.ids)) /\ Cardinality(Range(scan.ids)) = Len(scan.ids)
        BY <1>1, <3>1, Elements
      <4>3. Len(scan.list) = Cardinality(Range(scan.ids))
        BY <4>1, <4>2
      <4>4. scan.list \in Seq(Vars)
        BY <1>1
      <4> DEFINE list == scan.list
                 T == Range(scan.ids)
      <4>5. Injective(list) /\ Range(list) \subseteq T /\ IsFiniteSet(T) /\ list \in Seq(Vars)
            /\ Len(list) = Cardinality(T)
        BY <3>1, <4>1, <4>2, <4>3, <4>4
      <4> HIDE DEF list, T
      <4>6. Range(list) = T
        BY <4>5, SameElements
      <4> QED BY <4>6 DEF list, T
    <3>3. scan.steady => Range(scan.list) = scan.verified
      <4>1. SUFFICES ASSUME scan.steady PROVE Range(scan.list) = scan.verified
        OBVIOUS
      <4>2. /\ scan.verified = inventory /\ Range(scan.list) \subseteq inventory
            /\ Len(scan.list) = Cardinality(inventory)
        BY <1>1, <4>1 DEF AuditInv, ListInv
      <4>3. IsFiniteSet(inventory)
        BY DEF AuditInv, AuditTypeOK, AuditAssumption
      <4> QED BY <1>1, <3>1, <4>2, <4>3, SameElements
    <3> QED BY <2>2, <3>1, <3>2, <3>3 DEF ListInv
  <2>8. ReportInv'
    <3>1. snap.state = "running"
      BY <1>1 DEF AuditInv, ReportInv
    <3>2. Vouched(snap') /\ \A c \in Browsers : Vouched(view'[c].copy)
      BY <1>1, <2>1, <3>1 DEF AuditInv, ReportInv, Vouched, World
    <3> QED BY <2>1, <2>2, <3>1, <3>2 DEF ReportInv, Vouched
  <2>9. CancelInv'
    BY <1>1, <2>1, <2>2 DEF AuditInv, CancelInv, World
  <2> QED BY <2>3, <2>4, <2>5, <2>6, <2>7, <2>8, <2>9 DEF AuditInv
<1> QED BY <1>2, <1>3 DEF Publish

(* The scan's last report. *)
LEMMA FinishKeeps ==
  ASSUME AuditInv, AuditAssumption, Finish
  PROVE  AuditInv'
<1> DEFINE state == IF scan.err = "" THEN "completed"
                    ELSE IF Cancelled THEN "cancelled" ELSE "failed"
           kept(S) == IF state = "completed" THEN S ELSE {}
<1>1. /\ UNCHANGED World /\ scan.pc = "ending"
      /\ snap' = [snap EXCEPT !.state = state, !.code = IF state = "failed" THEN scan.err ELSE "",
                    !.findings = kept(snap.findings), !.failures = kept(snap.failures)]
      /\ scan' = [NoScan EXCEPT !.gen = scan.gen]
  BY DEF Finish, Quiet, World
<1>2. /\ scan'.gen = scan.gen /\ scan'.pc = "none" /\ scan'.req = NoScan.req /\ scan'.ids = <<>>
      /\ ~scan'.second /\ scan'.list = <<>> /\ scan'.at = 0 /\ scan'.end = 0 /\ scan'.held = {}
      /\ scan'.found = {} /\ scan'.failed = {} /\ ~scan'.readAny /\ scan'.err = ""
      /\ ~scan'.cancelled /\ NoScan.req.mode = "none"
  BY <1>1 DEF NoScan
<1>3. scan' \in Scans
  <2>1. NoScan \in Scans /\ scan.gen \in 0 .. MaxScans
    BY NoScanType DEF AuditInv, AuditTypeOK, Scans
  <2> QED BY <1>1, <2>1 DEF Scans
<1>4. /\ snap' \in Reports /\ snap'.state = state /\ snap'.findings = kept(snap.findings)
      /\ snap'.failures = kept(snap.failures)
  BY <1>1 DEF AuditInv, AuditTypeOK, Reports, Scans, Codes
<1>5. AuditTypeOK'
  <2>1. {scan'.at, scan'.end} \subseteq 0 .. Len(scan'.ids)
    <3>1. scan'.at = 0 /\ scan'.end = 0 /\ Len(scan'.ids) = 0
      BY <1>2, Empties
    <3> QED BY <3>1
  <2> QED BY <1>1, <1>3, <1>4, <2>1 DEF AuditInv, AuditTypeOK, World
<1>6. OrderInv'
  <2>1. Injective(scan'.ids) /\ scan'.at = Len(scan'.ids)
    BY <1>2, Empties
  <2> QED BY <1>2, <2>1 DEF OrderInv, First
<1>7. BatchInv'
  BY <1>2 DEF BatchInv
<1>8. FoundInv'
  <2>1. Inspected' = {}
    BY <1>2, Empties DEF Inspected
  <2> QED BY <1>2, <2>1 DEF FoundInv
<1>9. ListInv'
  <2>1. Injective(scan'.list)
    BY <1>2, Empties
  <2> QED BY <1>2, <2>1 DEF ListInv
<1>10. ReportInv'
  <2>1. Vouched(snap')
    BY <1>4 DEF Vouched
  <2>2. \A c \in Browsers : Vouched(view'[c].copy)
    BY <1>1 DEF AuditInv, ReportInv, Vouched, World
  <2>3. snap'.state # "running"
    BY <1>4
  <2> QED BY <1>2, <2>1, <2>2, <2>3 DEF ReportInv, Vouched
<1>11. CancelInv'
  <2>1. snap'.state = "cancelled" => scan.cancelled \/ stopped
    BY <1>4 DEF Cancelled
  <2>2. scan.cancelled => scan.gen \in asked
    BY DEF AuditInv, CancelInv
  <2>3. /\ \A c \in Browsers : view'[c].gen \in asked' \cup {0}
        /\ asked' = asked /\ stopped' = stopped
    BY <1>1 DEF AuditInv, CancelInv, World
  <2>4. snap'.state = "cancelled" => scan'.gen \in asked' \/ stopped'
    BY <1>2, <2>1, <2>2, <2>3
  <2> QED BY <1>2, <2>3, <2>4 DEF CancelInv
<1> QED BY <1>5, <1>6, <1>7, <1>8, <1>9, <1>10, <1>11 DEF AuditInv

(* Before the first scan.                                                   *)
LEMMA Initially ==
  ASSUME AuditInit, AuditAssumption
  PROVE  AuditInv
<1>1. /\ scan = NoScan /\ snap = NoReport /\ asked = {} /\ stopped = FALSE /\ changes = 0
      /\ view = [c \in Browsers |-> NoView] /\ current \in Targets /\ inventory \in Inventories
  BY DEF AuditInit
<1>2. /\ scan.gen = 0 /\ scan.pc = "none" /\ scan.ids = <<>>
      /\ ~scan.second /\ scan.list = <<>> /\ scan.at = 0 /\ scan.end = 0 /\ scan.held = {}
      /\ scan.found = {} /\ scan.failed = {} /\ ~scan.readAny /\ scan.err = ""
      /\ ~scan.cancelled /\ scan.req.mode = "none"
  BY <1>1 DEF NoScan
<1>3. snap \in Reports /\ snap.state = "idle" /\ snap.findings = {} /\ snap.failures = {}
  BY <1>1 DEF Reports, NoReport, Codes
<1>4. \A c \in Browsers : view[c] \in Views /\ view[c].gen = 0 /\ view[c].copy = snap
  BY <1>1, <1>3 DEF NoView, Views, AuditAssumption
<1>5. AuditTypeOK
  <2>1. {scan.at, scan.end} \subseteq 0 .. Len(scan.ids)
    <3>1. scan.at = 0 /\ scan.end = 0 /\ Len(scan.ids) = 0
      BY <1>2, Empties
    <3> QED BY <3>1
  <2>2. view \in [Browsers -> Views]
    BY <1>1, <1>4
  <2>3. changes \in 0 .. MaxChanges
    BY <1>1 DEF AuditAssumption
  <2> QED BY <1>1, <1>3, <2>1, <2>2, <2>3, NoScanType DEF AuditTypeOK
<1>6. OrderInv
  <2>1. Injective(scan.ids) /\ scan.at = Len(scan.ids)
    BY <1>2, Empties
  <2> QED BY <1>2, <2>1 DEF OrderInv, First
<1>7. BatchInv
  BY <1>2 DEF BatchInv
<1>8. FoundInv
  <2>1. Inspected = {}
    BY <1>2, Empties DEF Inspected
  <2> QED BY <1>2, <2>1 DEF FoundInv
<1>9. ListInv
  <2>1. Injective(scan.list)
    BY <1>2, Empties
  <2> QED BY <1>2, <2>1 DEF ListInv
<1>10. ReportInv
  BY <1>2, <1>3, <1>4 DEF ReportInv, Vouched
<1>11. CancelInv
  BY <1>1, <1>2, <1>3, <1>4 DEF CancelInv
<1> QED BY <1>5, <1>6, <1>7, <1>8, <1>9, <1>10, <1>11 DEF AuditInv

(* A step that changes nothing.                                             *)
LEMMA StillKeeps ==
  ASSUME AuditInv, UNCHANGED auditVars
  PROVE  AuditInv'
<1>1. \A c \in Browsers : view[c].gen \in asked \cup {0}
  BY DEF AuditInv, CancelInv
<1> QED BY <1>1, ScanStays DEF auditVars, AuditInv, AuditTypeOK

(* Every step of the audit, of browsers and of the world outside.           *)
LEMMA StepKeeps ==
  ASSUME AuditInv, AuditAssumption, [AuditNext]_auditVars
  PROVE  AuditInv'
<1>1. ASSUME NEW c \in Browsers, NEW r \in Audits, Start(c, r) PROVE AuditInv'
  BY <1>1, BrowserKeeps, StartKeeps
<1>2. ASSUME NEW c \in Browsers, Look(c) \/ CancelBegin(c) \/ Show(c) PROVE AuditInv'
  BY <1>2, BrowserKeeps
<1>3. ASSUME NEW c \in Browsers, Cancel(c) PROVE AuditInv'
  BY <1>3, CancelKeeps
<1>4. CASE ScanStep
  BY <1>4, ConnectKeeps, CountKeeps, PageKeeps, ListedKeeps, ReadBatchKeeps, ReadOneKeeps,
     ClassifyKeeps, VerifyKeeps, PublishKeeps, FinishKeeps DEF ScanStep
<1>5. CASE CallFails \/ Stop \/ ServerChanges
  BY <1>5, CallFailsKeeps, StopKeeps, OutsideKeeps
<1>6. CASE UNCHANGED auditVars
  BY <1>6, StillKeeps
<1> QED BY <1>1, <1>2, <1>3, <1>4, <1>5, <1>6 DEF AuditNext

(* The whole invariant of an audit. *)
THEOREM AuditInvariant == AuditSpec => []AuditInv
<1>1. AuditInit => AuditInv
  BY Initially, AuditAssumption
<1>2. AuditInv /\ [AuditNext]_auditVars => AuditInv'
  BY StepKeeps, AuditAssumption
<1> QED BY <1>1, <1>2, PTL DEF AuditSpec

(* No path out of a scan leaves a secret value in its buffers, and a scan of *)
(* identifiers never asks for one (zeroSecretValues, audit).                *)
THEOREM NoValueStays == AuditSpec => []ValuesDropped
<1>1. AuditInv => ValuesDropped
  BY DEF AuditInv, BatchInv, ValuesDropped
<1> QED BY <1>1, AuditInvariant, PTL

(* A report that says completed is about every variable of the inventory it *)
(* was verified against, each inspected or named as a failure               *)
(* (verifyInventory).                                                       *)
THEOREM ReportsAreWhole == AuditSpec => []ReportIsWhole
<1>1. ASSUME AuditInv, scan.pc = "ending", scan.err = ""
      PROVE  /\ scan.at = Len(scan.ids)
             /\ snap.findings \cup snap.failures \subseteq Range(scan.ids)
             /\ scan.req.mode # "id-regex" =>
                   \A v \in Range(scan.ids) \ scan.failed :
                       Reported(v, scan.req.min) <=> v \in snap.findings
             /\ scan.steady => Range(scan.ids) = scan.verified
  <2>1. scan.at = Len(scan.ids)
    BY <1>1 DEF AuditInv, OrderInv
  <2>2. Inspected = Range(scan.ids)
    <3>1. DOMAIN scan.ids = 1 .. Len(scan.ids)
      BY <1>1, LenProperties DEF AuditInv, AuditTypeOK, Scans
    <3> QED BY <2>1, <3>1, PartOfAll DEF Inspected
  <2>3. snap.findings = scan.found /\ snap.failures = scan.failed
    BY <1>1 DEF AuditInv, ReportInv
  <2> QED BY <1>1, <2>1, <2>2, <2>3 DEF AuditInv, FoundInv, ListInv
<1>2. AuditInv => ReportIsWhole
  BY <1>1 DEF ReportIsWhole
<1> QED BY <1>2, AuditInvariant, PTL

(* Findings are shown only after a verification that succeeded, and next to *)
(* the server they were found on (withCurrentTarget, run).                  *)
THEOREM OnlyVouchedFindingsAreShown == AuditSpec => []ShownIsCurrent
<1>1. ASSUME AuditInv, NEW c \in Browsers, view[c].pc = "copied",
             LET s == withCurrentTarget(view[c].copy) IN s.findings \cup s.failures # {}
      PROVE  LET s == withCurrentTarget(view[c].copy)
             IN  s.state \in {"completed", "running"} /\ (s.state = "completed" => s.target = current)
  <2> DEFINE copy == view[c].copy
             s == withCurrentTarget(copy)
  <2>1. copy \in Reports /\ Vouched(copy)
    BY <1>1 DEF AuditInv, AuditTypeOK, ReportInv, Views
  <2> HIDE DEF copy
  <2>2. CASE copy.state = "running" /\ copy.target # NoTarget
    <3>1. s = copy
      BY <2>2 DEF withCurrentTarget
    <3>2. s.state = "running"
      BY <2>2, <3>1
    <3> HIDE DEF s
    <3>3. s.state \in {"completed", "running"} /\ (s.state = "completed" => s.target = current)
      BY <3>2
    <3> QED BY <3>3 DEF s, copy
  <2>3. CASE /\ ~(copy.state = "running" /\ copy.target # NoTarget)
             /\ copy.state # "running" /\ copy.target # NoTarget /\ copy.target # current
    <3>1. s = [NoReport EXCEPT !.target = current]
      BY <2>3 DEF withCurrentTarget
    <3>2. s.findings = {} /\ s.failures = {}
      BY <3>1 DEF NoReport
    <3> QED BY <1>1, <3>2 DEF copy
  <2>4. CASE /\ ~(copy.state = "running" /\ copy.target # NoTarget)
             /\ ~(copy.state # "running" /\ copy.target # NoTarget /\ copy.target # current)
    <3>1. s = [copy EXCEPT !.target = current]
      BY <2>4 DEF withCurrentTarget
    <3>2. /\ s.state = copy.state /\ s.findings = copy.findings /\ s.failures = copy.failures
          /\ s.target = current
      BY <2>1, <3>1 DEF Reports
    <3>3. copy.findings # {} \/ copy.failures # {}
      BY <1>1, <3>2 DEF copy
    <3> QED BY <2>1, <3>2, <3>3 DEF Vouched, copy
  <2> QED BY <2>2, <2>3, <2>4 DEF copy
<1>2. AuditInv => ShownIsCurrent
  BY <1>1 DEF ShownIsCurrent
<1> QED BY <1>2, AuditInvariant, PTL

(* A cancel function called late never ends a scan that nobody asked to     *)
(* cancel (Cancel, Start).                                                  *)
THEOREM CancellationsHit == AuditSpec => []CancelHitsItsScan
<1>1. AuditInv => CancelHitsItsScan
  BY DEF AuditInv, CancelInv, CancelHitsItsScan
<1> QED BY <1>1, AuditInvariant, PTL

-----------------------------------------------------------------------------
(* Signing in *)

Fields == {"op", "pc", "req", "seen", "edited", "gone", "answer"}

(* Each client has a request record. *)
CallShape ==
    /\ DOMAIN call = Clients
    /\ \A c \in Clients : DOMAIN call[c] = Fields

(* The gate holds who is inside, and that is one request at most. *)
GateInv ==
    /\ gate = {c \in Clients : Running(c)}
    /\ \A c, d \in Clients : Running(c) /\ Running(d) => c = d

(* What is behind each stage of a configuration and of a login. *)
Judged(c) ==
    /\ call[c].pc \in {"init", "half", "written", "exited"} => call[c].op = "configure"
    /\ call[c].pc \in {"exchange", "stored"} => call[c].op = "login"
    /\ call[c].pc = "init" =>
          /\ ConfigureVerdict(call[c].seen, call[c].req) = "init"
          /\ ~call[c].edited => config = call[c].seen
    /\ call[c].pc = "stored" => session = call[c].seen

JudgeInv == \A c \in Clients : Judged(c)

-----------------------------------------------------------------------------
(* How a step changes the requests *)

(* An answered request is the idle one, but for its answer. *)
LEMMA AnswerDoes ==
  ASSUME CallShape, NEW c \in Clients, NEW a, Answer(c, a)
  PROVE  /\ CallShape' /\ gate' = gate \ {c}
         /\ \A d \in Clients \ {c} : call'[d] = call[d]
         /\ call'[c].op = "none" /\ call'[c].pc = "idle" /\ call'[c].req = NoRequest
         /\ call'[c].seen = Blank /\ call'[c].edited = FALSE /\ call'[c].gone = FALSE
         /\ call'[c].answer = a
BY DEF CallShape, Answer, Idle, Fields

(* A request that goes on keeps all but its place. *)
LEMMA GotoDoes ==
  ASSUME CallShape, NEW c \in Clients, NEW w, Goto(c, w)
  PROVE  /\ CallShape' /\ gate' = gate
         /\ \A d \in Clients \ {c} : call'[d] = call[d]
         /\ call'[c].pc = w /\ call'[c].op = call[c].op /\ call'[c].req = call[c].req
         /\ call'[c].seen = call[c].seen /\ call'[c].edited = call[c].edited
         /\ call'[c].gone = call[c].gone
BY DEF CallShape, Goto, Fields

(* A request that has judged the file remembers what it saw. *)
LEMMA SeesDoes ==
  ASSUME CallShape, NEW c \in Clients, NEW w, call' = [call EXCEPT ![c].pc = w, ![c].seen = config]
  PROVE  /\ CallShape'
         /\ \A d \in Clients \ {c} : call'[d] = call[d]
         /\ call'[c].pc = w /\ call'[c].op = call[c].op /\ call'[c].req = call[c].req
         /\ call'[c].seen = config /\ call'[c].edited = call[c].edited
         /\ call'[c].gone = call[c].gone
BY DEF CallShape, Fields

(* A request that gets the gate, and one that is refused at the door. *)
LEMMA BeginDoes ==
  ASSUME CallShape, NEW c \in Clients, NEW op \in Ops, NEW r \in Requests \cup {NoRequest}, Begin(c, op, r)
  PROVE  /\ CallShape' /\ \A d \in Clients \ {c} : call'[d] = call[d]
         /\ call'[c].seen = Blank /\ call'[c].edited = FALSE /\ call'[c].gone = FALSE
         /\ \/ /\ call'[c].pc = "idle" /\ call'[c].op = "none" /\ call'[c].req = NoRequest
               /\ gate' = gate
            \/ /\ call'[c].pc = "held" /\ call'[c].op = op /\ call'[c].req = r
               /\ gate = {} /\ gate' = {c}
<1> DEFINE refused == CASE op = "capability" -> Capability
                        [] op = "configure" /\ ~Decodable(r) -> "invalid"
                        [] OTHER -> IF ~Admitted(op, r) THEN "unsupported"
                                    ELSE IF ~acquireAuthGate THEN "busy" ELSE "none"
<1>1. CASE refused # "none"
  <2>1. call' = [call EXCEPT ![c] = [Idle EXCEPT !.answer = refused]] /\ UNCHANGED gate
    BY <1>1 DEF Begin
  <2> HIDE DEF refused
  <2> QED
    BY <2>1 DEF CallShape, Idle, Fields
<1>2. CASE refused = "none"
  <2>1. /\ call' = [call EXCEPT ![c] = [Idle EXCEPT !.op = op, !.pc = "held", !.req = r]]
        /\ gate' = gate \cup {c}
    BY <1>2 DEF Begin
  <2>2. CASE op = "capability"
    <3>1. refused = Capability
      BY <2>2
    <3>2. Capability # "none"
      BY DEF Capability
    <3> QED
      BY <1>2, <3>1, <3>2
  <2>3. CASE op # "capability"
    <3>1. acquireAuthGate
      BY <1>2, <2>3
    <3> QED
      BY <2>1, <3>1 DEF CallShape, Idle, Fields, acquireAuthGate
  <2> QED
    BY <2>2, <2>3
<1> QED
  BY <1>1, <1>2

-----------------------------------------------------------------------------
(* The invariant, part by part *)

Typed(c) ==
    /\ call[c].op \in Ops \cup {"none"} /\ call[c].pc \in Inside \cup {"idle"}
    /\ call[c].req \in Requests \cup {NoRequest}
    /\ call[c].seen # Unreadable
    /\ {call[c].edited, call[c].gone} \subseteq BOOLEAN

(* A client's step keeps types and shape, and leaves the other requests as  *)
(* they are.                                                                *)
LEMMA ClientStep ==
  ASSUME TypeOK, CallShape, NEW c \in Clients, Step(c) \/ InitWrites(c) \/ Disconnect(c)
  PROVE  /\ CallShape' /\ \A d \in Clients \ {c} : call'[d] = call[d]
         /\ Typed(c)' /\ gate' \subseteq Clients
         /\ UNCHANGED <<disk, tool, writer, edits>>
<1>t. Typed(c) /\ gate \subseteq Clients
  BY DEF TypeOK, Typed
<1> DEFINE Goal == /\ CallShape' /\ \A d \in Clients \ {c} : call'[d] = call[d]
                   /\ Typed(c)' /\ gate' \subseteq Clients
<1>a. ASSUME NEW a, Answer(c, a) PROVE Goal
  BY <1>a, <1>t, AnswerDoes, FileAssumption DEF Typed
<1>g. ASSUME NEW w \in Inside, Goto(c, w) PROVE Goal
  BY <1>g, <1>t, GotoDoes DEF Typed
<1>s. ASSUME NEW w \in Inside, call' = [call EXCEPT ![c].pc = w, ![c].seen = config], UNCHANGED gate,
             config # Unreadable
      PROVE  Goal
  <2>1. /\ CallShape' /\ \A d \in Clients \ {c} : call'[d] = call[d]
        /\ call'[c].pc = w /\ call'[c].op = call[c].op /\ call'[c].req = call[c].req
        /\ call'[c].seen = config /\ call'[c].edited = call[c].edited /\ call'[c].gone = call[c].gone
    BY <1>s, SeesDoes
  <2> QED
    BY <1>s, <1>t, <2>1 DEF Typed
<1>i. \A w \in {"held", "init", "half", "written", "exited", "exchange", "stored"} : w \in Inside
  BY DEF Inside
<1>u. ASSUME Goal, UNCHANGED <<disk, tool, writer, edits>>
      PROVE  /\ CallShape' /\ \A d \in Clients \ {c} : call'[d] = call[d]
             /\ Typed(c)' /\ gate' \subseteq Clients
             /\ UNCHANGED <<disk, tool, writer, edits>>
  BY <1>u
<1> HIDE DEF Goal
<1>1. CASE Refuse(c)
  BY <1>1, <1>a, <1>u DEF Refuse
<1>2. CASE ReadConnection(c)
  BY <1>2, <1>a, <1>u DEF ReadConnection, Loaded
<1>3. CASE Configure(c)
  BY <1>3, <1>a, <1>s, <1>i, <1>u DEF Configure, Loaded
<1>4. CASE Login(c)
  BY <1>4, <1>a, <1>s, <1>i, <1>u DEF Login, Loaded
<1>5. CASE LaunchInteractive(c)
  BY <1>5, <1>a, <1>u DEF LaunchInteractive, Loaded
<1>6. CASE InitEnds(c)
  BY <1>6, <1>g, <1>i, <1>u DEF InitEnds
<1>7. CASE Reconcile(c)
  BY <1>7, <1>a, <1>u DEF Reconcile
<1>8. CASE Exchange(c)
  BY <1>8, <1>a, <1>g, <1>i, <1>u DEF Exchange
<1>9. CASE VerifyLogin(c)
  BY <1>9, <1>a, <1>u DEF VerifyLogin
<1>10. CASE InitWrites(c)
  BY <1>10, <1>g, <1>i, <1>u DEF InitWrites
<1>11. CASE Disconnect(c)
  <2>1. /\ CallShape' /\ \A d \in Clients \ {c} : call'[d] = call[d]
        /\ call'[c].pc = call[c].pc /\ call'[c].op = call[c].op /\ call'[c].req = call[c].req
        /\ call'[c].seen = call[c].seen /\ call'[c].edited = call[c].edited /\ call'[c].gone = TRUE
    BY <1>11 DEF Disconnect, CallShape, Fields
  <2> QED
    BY <1>11, <1>t, <1>u, <2>1 DEF Disconnect, Typed, Goal
<1> QED
  BY <1>1, <1>2, <1>3, <1>4, <1>5, <1>6, <1>7, <1>8, <1>9, <1>10, <1>11 DEF Step

(* An edit from outside marks the requests inside and changes nothing else  *)
(* of them.                                                                 *)
LEMMA OutsideDoes ==
  ASSUME CallShape, Outside
  PROVE  /\ CallShape' /\ UNCHANGED <<session, tool, writer, gate>>
         /\ \A c \in Clients :
               /\ call'[c].pc = call[c].pc /\ call'[c].op = call[c].op /\ call'[c].req = call[c].req
               /\ call'[c].seen = call[c].seen /\ call'[c].gone = call[c].gone
               /\ \/ config' = config /\ call'[c].edited = call[c].edited
                  \/ call'[c].edited = Running(c)
<1>1. CASE call' = [c \in Clients |-> [call[c] EXCEPT !.edited = Running(c)]]
  BY <1>1 DEF Outside, CallShape, Fields
<1>2. CASE UNCHANGED <<config, call>>
  BY <1>2 DEF Outside, CallShape
<1> QED
  BY <1>1, <1>2 DEF Outside

(* Every variable keeps its type. *)
LEMMA TypesStep == TypeOK /\ CallShape /\ [Next]_vars => TypeOK' /\ CallShape'
<1> SUFFICES ASSUME TypeOK, CallShape, [Next]_vars PROVE TypeOK' /\ CallShape'
  OBVIOUS
<1>t. TypeOK <=> /\ disk \in Binaries /\ tool \in [enabled : BOOLEAN, id : Binaries]
                 /\ writer \in BOOLEAN /\ gate \subseteq Clients /\ edits \in 0 .. MaxEdits
                 /\ \A c \in Clients : Typed(c)
  BY DEF TypeOK, Typed
<1>u. TypeOK' <=> /\ disk' \in Binaries /\ tool' \in [enabled : BOOLEAN, id : Binaries]
                  /\ writer' \in BOOLEAN /\ gate' \subseteq Clients /\ edits' \in 0 .. MaxEdits
                  /\ \A c \in Clients : Typed(c)'
  BY DEF TypeOK, Typed
<1>1. ASSUME NEW c \in Clients, NEW op \in Ops, NEW r \in Requests \cup {NoRequest}, Begin(c, op, r)
      PROVE  TypeOK' /\ CallShape'
  <2>0. /\ \A d \in Clients \ {c} : call'[d] = call[d]
        /\ call'[c].seen = Blank /\ call'[c].edited = FALSE /\ call'[c].gone = FALSE
        /\ \/ call'[c].pc = "idle" /\ call'[c].op = "none" /\ call'[c].req = NoRequest
           \/ call'[c].pc = "held" /\ call'[c].op = op /\ call'[c].req = r
    BY <1>1, BeginDoes
  <2>1. Typed(c)' /\ \A d \in Clients \ {c} : Typed(d)'
    BY <1>t, <2>0, FileAssumption DEF Typed, Inside
  <2> QED
    BY <1>1, <1>t, <1>u, <2>1, BeginDoes DEF Begin
<1>2. ASSUME NEW c \in Clients, Step(c) \/ InitWrites(c) \/ Disconnect(c) PROVE TypeOK' /\ CallShape'
  <2>1. \A d \in Clients \ {c} : Typed(d)'
    BY <1>2, <1>t, ClientStep DEF Typed
  <2> QED
    BY <1>2, <1>t, <1>u, <2>1, ClientStep
<1>3. CASE ActivateBegin
  BY <1>3, <1>t, <1>u DEF ActivateBegin, Typed, CallShape
<1>4. CASE activateTool
  BY <1>4, <1>t, <1>u DEF activateTool, Typed, CallShape
<1>5. CASE Outside
  <2>1. ASSUME NEW c \in Clients PROVE Typed(c)'
    <3>1. call'[c].edited \in BOOLEAN
      <4>1. Running(c) \in BOOLEAN
        BY DEF Running
      <4>2. call[c].edited \in BOOLEAN
        BY <1>t DEF Typed
      <4>3. call'[c].edited = call[c].edited \/ call'[c].edited = Running(c)
        BY <1>5, OutsideDoes
      <4> QED
        BY <4>1, <4>2, <4>3
    <3> QED
      BY <1>5, <1>t, <3>1, OutsideDoes DEF Typed
  <2>2. disk' \in Binaries /\ edits' \in 0 .. MaxEdits
    BY <1>5, <1>t, LoginAssumption DEF Outside
  <2> QED
    BY <1>5, <1>t, <1>u, <2>1, <2>2, OutsideDoes
<1>6. CASE UNCHANGED vars
  BY <1>6, <1>t, <1>u DEF vars, Typed, CallShape
<1> QED
  BY <1>1, <1>2, <1>3, <1>4, <1>5, <1>6 DEF Next

(* Only who finds the gate empty gets in, and who leaves takes itself out. *)
LEMMA GateStep == TypeOK /\ CallShape /\ GateInv /\ [Next]_vars => GateInv'
<1> SUFFICES ASSUME TypeOK, CallShape, GateInv, [Next]_vars PROVE GateInv'
  OBVIOUS
<1>a. ASSUME NEW c \in Clients, \A d \in Clients \ {c} : call'[d] = call[d],
             call'[c].pc = "idle", gate' = gate \ {c}
      PROVE  GateInv'
  BY <1>a DEF GateInv, Running, Inside
<1>k. ASSUME UNCHANGED gate, \A c \in Clients : Running(c)' <=> Running(c) PROVE GateInv'
  BY <1>k DEF GateInv
<1>g. ASSUME NEW c \in Clients, Running(c), call'[c].pc \in Inside, UNCHANGED gate,
             \A d \in Clients \ {c} : call'[d] = call[d]
      PROVE  GateInv'
  BY <1>g, <1>k DEF Running
<1>1. ASSUME NEW c \in Clients, NEW op \in Ops, NEW r \in Requests \cup {NoRequest}, Begin(c, op, r)
      PROVE  GateInv'
  <2>0. \A d \in Clients \ {c} : call'[d] = call[d]
    BY <1>1, BeginDoes
  <2>1. CASE call'[c].pc = "idle" /\ gate' = gate
    <3>1. \A d \in Clients : Running(d)' <=> Running(d)
      BY <1>1, <2>0, <2>1 DEF Begin, Running, Inside
    <3> QED
      BY <1>k, <2>1, <3>1
  <2>2. CASE call'[c].pc = "held" /\ gate = {} /\ gate' = {c}
    BY <2>0, <2>2 DEF GateInv, Running, Inside
  <2> QED
    BY <1>1, <2>1, <2>2, BeginDoes
<1>2. ASSUME NEW c \in Clients, NEW a, Answer(c, a) PROVE GateInv'
  BY <1>2, <1>a, AnswerDoes
<1>3. ASSUME NEW c \in Clients, NEW w \in Inside, Running(c), Goto(c, w) PROVE GateInv'
  BY <1>3, <1>g, GotoDoes
<1>4. ASSUME NEW c \in Clients, NEW w \in Inside, Running(c), UNCHANGED gate,
             call' = [call EXCEPT ![c].pc = w, ![c].seen = config]
      PROVE  GateInv'
  BY <1>4, <1>g, SeesDoes
<1>5. ASSUME NEW c \in Clients, Refuse(c) \/ ReadConnection(c) \/ LaunchInteractive(c)
                                \/ Reconcile(c) \/ VerifyLogin(c)
      PROVE  GateInv'
  BY <1>5, <1>2 DEF Refuse, ReadConnection, LaunchInteractive, Reconcile, VerifyLogin, Loaded
<1>6. ASSUME NEW c \in Clients, Configure(c) \/ Login(c) PROVE GateInv'
  BY <1>6, <1>2, <1>4 DEF Configure, Login, Loaded, Running, Inside
<1>7. ASSUME NEW c \in Clients, InitEnds(c) \/ InitWrites(c) \/ Exchange(c) PROVE GateInv'
  BY <1>7, <1>2, <1>3 DEF InitEnds, InitWrites, Exchange, Running, Inside
<1>8. ASSUME NEW c \in Clients, Disconnect(c) PROVE GateInv'
  <2>1. \A d \in Clients : Running(d)' <=> Running(d)
    BY <1>8 DEF Disconnect, Running, CallShape, Fields
  <2> QED
    BY <1>8, <1>k, <2>1 DEF Disconnect
<1>9. CASE Outside
  BY <1>9, <1>k, OutsideDoes DEF Running
<1>10. CASE ActivateBegin \/ activateTool \/ UNCHANGED vars
  BY <1>10, <1>k DEF ActivateBegin, activateTool, vars, Running
<1> QED
  BY <1>1, <1>5, <1>6, <1>7, <1>8, <1>9, <1>10 DEF Next, Step

(* The verdict of a configuration stands until its init writes, for nobody  *)
(* of ours is inside with it and an edit from outside is noted.             *)
LEMMA JudgeStep == TypeOK /\ CallShape /\ GateInv /\ JudgeInv /\ [Next]_vars => JudgeInv'
<1> SUFFICES ASSUME TypeOK, CallShape, GateInv, JudgeInv, [Next]_vars, NEW d \in Clients PROVE Judged(d)'
  BY DEF JudgeInv
<1>d. Judged(d)
  BY DEF JudgeInv
<1>k. ASSUME call'[d] = call[d], UNCHANGED <<config, session>> PROVE Judged(d)'
  BY <1>d, <1>k DEF Judged
<1>z. ASSUME call'[d].pc \in {"idle", "held"} PROVE Judged(d)'
  BY <1>z DEF Judged
<1>o. ASSUME NEW c \in Clients \ {d}, Running(c), call'[d] = call[d] PROVE Judged(d)'
  <2>1. ~Running(d)
    BY <1>o DEF GateInv
  <2> QED
    BY <1>o, <2>1 DEF Judged, Running, Inside
<1>1. ASSUME NEW c \in Clients, NEW op \in Ops, NEW r \in Requests \cup {NoRequest}, Begin(c, op, r)
      PROVE  Judged(d)'
  BY <1>1, <1>k, <1>z, BeginDoes DEF Begin
<1>2. ASSUME NEW c \in Clients \ {d}, Step(c) \/ InitWrites(c) \/ Disconnect(c) PROVE Judged(d)'
  <2>1. Running(c)
    BY <1>2 DEF Step, InitWrites, Disconnect, Refuse, ReadConnection, Configure, Login, LaunchInteractive,
                InitEnds, Reconcile, Exchange, VerifyLogin, Loaded, Goto, Running, Inside
  <2> QED
    BY <1>2, <1>o, <2>1, ClientStep
<1>3. CASE Refuse(d) \/ ReadConnection(d) \/ LaunchInteractive(d) \/ Reconcile(d) \/ VerifyLogin(d)
  BY <1>3, <1>z, AnswerDoes DEF Refuse, ReadConnection, LaunchInteractive, Reconcile, VerifyLogin, Loaded
<1>4. CASE Configure(d)
  <2>1. CASE ConfigureVerdict(config, call[d].req) = "init"
    <3>1. /\ call' = [call EXCEPT ![d].pc = "init", ![d].seen = config] /\ UNCHANGED config
          /\ call[d].op = "configure"
      BY <1>4, <2>1 DEF Configure, Loaded
    <3>2. /\ call'[d].pc = "init" /\ call'[d].op = "configure" /\ call'[d].req = call[d].req
          /\ call'[d].seen = config
      BY <3>1, SeesDoes
    <3>3. ConfigureVerdict(call'[d].seen, call'[d].req) = "init"
      BY <2>1, <3>2
    <3> QED
      BY <3>1, <3>2, <3>3 DEF Judged
  <2>2. CASE ConfigureVerdict(config, call[d].req) # "init"
    BY <1>4, <2>2, <1>z, AnswerDoes DEF Configure
  <2> QED
    BY <2>1, <2>2
<1>5. CASE Login(d)
  <2>1. CASE call' = [call EXCEPT ![d].pc = "exchange", ![d].seen = config]
    <3>1. call'[d].pc = "exchange" /\ call'[d].op = "login"
      BY <1>5, <2>1, SeesDoes DEF Login, Loaded
    <3> QED
      BY <3>1 DEF Judged
  <2>2. ASSUME NEW a, Answer(d, a) PROVE Judged(d)'
    BY <2>2, <1>z, AnswerDoes
  <2> QED
    BY <1>5, <2>1, <2>2 DEF Login
<1>6. CASE InitWrites(d) \/ InitEnds(d)
  <2>1. PICK w \in {"half", "written", "exited"} : Goto(d, w)
    BY <1>6 DEF InitWrites, InitEnds
  <2>2. call[d].op = "configure"
    BY <1>6, <1>d DEF InitWrites, InitEnds, Judged
  <2>3. call'[d].pc = w /\ call'[d].op = "configure"
    BY <2>1, <2>2, GotoDoes
  <2> QED
    BY <2>1, <2>3 DEF Judged
<1>7. CASE Exchange(d)
  <2>1. CASE session' = call[d].seen /\ Goto(d, "stored")
    <3>1. call'[d].pc = "stored" /\ call'[d].op = "login" /\ session' = call'[d].seen
      BY <1>7, <1>d, <2>1, GotoDoes DEF Exchange, Judged
    <3> QED
      BY <3>1 DEF Judged
  <2>2. ASSUME NEW a, Answer(d, a) PROVE Judged(d)'
    BY <2>2, <1>z, AnswerDoes
  <2> QED
    BY <1>7, <2>1, <2>2 DEF Exchange
<1>8. CASE Disconnect(d)
  <2>1. /\ call'[d].pc = call[d].pc /\ call'[d].op = call[d].op /\ call'[d].req = call[d].req
        /\ call'[d].seen = call[d].seen /\ call'[d].edited = call[d].edited
        /\ UNCHANGED <<config, session>>
    BY <1>8 DEF Disconnect, CallShape, Fields
  <2> QED
    BY <1>d, <2>1 DEF Judged
<1>9. CASE Outside
  <2>1. /\ call'[d].pc = call[d].pc /\ call'[d].op = call[d].op /\ call'[d].req = call[d].req
        /\ call'[d].seen = call[d].seen /\ UNCHANGED session
        /\ \/ config' = config /\ call'[d].edited = call[d].edited
           \/ call'[d].edited = Running(d)
    BY <1>9, OutsideDoes
  <2>2. call[d].pc = "init" => Running(d)
    BY DEF Running, Inside
  <2>3. ConfigureVerdict(call'[d].seen, call'[d].req) = ConfigureVerdict(call[d].seen, call[d].req)
    BY <2>1
  <2> QED
    BY <1>d, <2>1, <2>2, <2>3 DEF Judged
<1>10. CASE ActivateBegin \/ activateTool \/ UNCHANGED vars
  BY <1>10, <1>k DEF ActivateBegin, activateTool, vars
<1> QED
  BY <1>1, <1>2, <1>3, <1>4, <1>5, <1>6, <1>7, <1>8, <1>9, <1>10 DEF Next, Step

-----------------------------------------------------------------------------
(* What the verdicts mean *)

(* configureSaaS and the self-hosted case only start an init over a file    *)
(* that has no working connection, or whose tenant the request names.       *)
LEMMA InitIsNamed ==
  ASSUME NEW c, NEW r, ConfigureVerdict(c, r) = "init",
         supportsConjurPasswordLogin(c) \/ conjurSaaSMatches(c, c.url)
  PROVE  r.expected = c.url
<1>n. ASSUME c.url = NoURL PROVE ~validConjurHTTPSURL(c.url)
  <2>1. NoURL[1] = ""
    BY DEF NoURL
  <2> QED
    BY <1>n, <2>1 DEF validConjurHTTPSURL
<1>1. CASE r.env = "saas"
  <2>1. SaaSVerdict(c, r) = "init"
    BY <1>1 DEF ConfigureVerdict
  <2>2. IF IsSaaS(c) THEN r.expected = c.url ELSE conjurBlankConfig(c)
    BY <2>1 DEF SaaSVerdict
  <2>3. conjurBlankConfig(c) => c.url = NoURL
    BY DEF conjurBlankConfig
  <2>4. conjurBlankConfig(c) => ~supportsConjurPasswordLogin(c)
    BY <1>n, <2>3 DEF supportsConjurPasswordLogin
  <2> QED
    BY <2>2, <2>4 DEF conjurSaaSMatches
<1>2. CASE r.env # "saas"
  <2>1. conjurConnectionSetupRequired(c)
    BY <1>2 DEF ConfigureVerdict
  <2>2. ~supportsConjurPasswordLogin(c)
    <3>1. ~validConjurConfigScalar("")
      BY DEF validConjurConfigScalar
    <3>2. CASE c.url = NoURL
      BY <1>n, <3>2 DEF supportsConjurPasswordLogin
    <3>3. CASE c.account = ""
      BY <3>1, <3>3 DEF supportsConjurPasswordLogin
    <3>4. CASE c.authn = "ldap" /\ c.service = ""
      BY <3>1, <3>4 DEF supportsConjurPasswordLogin
    <3> QED
      BY <2>1, <3>2, <3>3, <3>4 DEF conjurConnectionSetupRequired
  <2> QED
    BY <2>1, <2>2 DEF conjurConnectionSetupRequired, conjurSaaSMatches
<1> QED
  BY <1>1, <1>2

(* A configuration needs no init only when the file already says it. *)
LEMMA OkIsConfigured ==
  ASSUME NEW c, NEW r, ConfigureVerdict(c, r) = "ok"
  PROVE  Configured(c, r)
<1>1. CASE r.env = "saas"
  <2>1. SaaSVerdict(c, r) = "ok"
    BY <1>1 DEF ConfigureVerdict
  <2>2. conjurSaaSMatches(c, canonicalConjurSaaSURL(r.url))
    BY <2>1 DEF SaaSVerdict
  <2> QED
    BY <1>1, <2>2 DEF Configured
<1>2. CASE r.env # "saas"
  BY <1>2 DEF ConfigureVerdict, Configured
<1> QED
  BY <1>1, <1>2

-----------------------------------------------------------------------------
(* The theorems *)

LoginInv == TypeOK /\ CallShape /\ GateInv /\ JudgeInv

(* The inductive invariant, in every reachable state. *)
THEOREM LoginInvariant == Spec => []LoginInv
<1>1. Init => LoginInv
  <2> SUFFICES ASSUME Init PROVE LoginInv
    OBVIOUS
  <2>1. /\ DOMAIN call = Clients
        /\ \A c \in Clients : /\ call[c] = Idle /\ call[c].pc = "idle" /\ call[c].op = "none"
                              /\ call[c].req = NoRequest /\ call[c].seen = Blank
                              /\ call[c].edited = FALSE /\ call[c].gone = FALSE
                              /\ DOMAIN call[c] = Fields
    BY DEF Init, Idle, Fields
  <2>2. TypeOK
    <3>1. /\ disk \in Binaries /\ tool \in [enabled : BOOLEAN, id : Binaries] /\ writer \in BOOLEAN
          /\ gate \subseteq Clients
      BY DEF Init
    <3>2. edits \in 0 .. MaxEdits
      BY LoginAssumption DEF Init
    <3> QED
      BY <2>1, <3>1, <3>2, FileAssumption DEF TypeOK
  <2>3. CallShape /\ GateInv /\ JudgeInv
    BY <2>1 DEF Init, CallShape, GateInv, JudgeInv, Judged, Running, Inside
  <2> QED
    BY <2>2, <2>3 DEF LoginInv
<1>2. LoginInv /\ [Next]_vars => LoginInv'
  BY TypesStep, GateStep, JudgeStep DEF LoginInv
<1> QED
  BY <1>1, <1>2, PTL DEF Spec

(* No path through the handlers leaks the gate or lets two requests inside. *)
THEOREM OneInside == Spec => []GateExclusive
<1>1. LoginInv => GateExclusive
  <2> SUFFICES ASSUME LoginInv PROVE GateExclusive
    OBVIOUS
  <2>1. gate = {c \in Clients : Running(c)} /\ TypeOK
    BY DEF LoginInv, GateInv
  <2>2. gate = {} \/ \E c \in Clients : gate = {c}
    BY <2>1 DEF LoginInv, GateInv
  <2>3. Cardinality(gate) = 0 \/ Cardinality(gate) = 1
    BY <2>2, FS_EmptySet, FS_Singleton
  <2>4. Cardinality(gate) <= 1
    BY <2>3
  <2> QED
    BY <2>1, <2>4 DEF GateExclusive
<1> QED
  BY <1>1, LoginInvariant, PTL

(* An init of conjur starts on the file its request judged, and a working   *)
(* connection is only replaced by a request that names it.                  *)
THEOREM NamedOverwrite == Spec => NoBlindOverwrite
<1> DEFINE A == \A c \in Clients :
                   (/\ call[c].pc = "init" /\ call'[c].pc = "half" /\ ~call[c].edited) =>
                   /\ config = call[c].seen
                   /\ (supportsConjurPasswordLogin(config) \/ conjurSaaSMatches(config, config.url))
                         => call[c].req.expected = config.url
<1>1. LoginInv => A
  <2> SUFFICES ASSUME LoginInv, NEW c \in Clients, call[c].pc = "init", ~call[c].edited
               PROVE  /\ config = call[c].seen
                      /\ (supportsConjurPasswordLogin(config) \/ conjurSaaSMatches(config, config.url))
                            => call[c].req.expected = config.url
    OBVIOUS
  <2>1. config = call[c].seen /\ ConfigureVerdict(config, call[c].req) = "init"
    BY DEF LoginInv, JudgeInv, Judged
  <2> QED
    BY <2>1, InitIsNamed
<1> HIDE DEF A
<1>2. Spec => [][A]_vars
  BY <1>1, LoginInvariant, PTL DEF Spec
<1> QED
  BY <1>2, PTL DEF A, NoBlindOverwrite

(* A success that is reported is one: the configuration is in the file, and *)
(* the session is for the connection in the file.                           *)
THEOREM SuccessIsTrueThm == Spec => SuccessIsTrue
<1> DEFINE A == \A c \in Clients :
                   (Running(c) /\ call'[c].pc = "idle" /\ call'[c].answer = "ok") =>
                   /\ call[c].op = "configure" => Configured(config, call[c].req)
                   /\ call[c].op = "login" =>
                         [session EXCEPT !.jwt = FALSE] = [config EXCEPT !.jwt = FALSE]
<1>1. ASSUME LoginInv, [Next]_vars PROVE A
  <2> SUFFICES ASSUME NEW c \in Clients, Running(c), call'[c].pc = "idle", call'[c].answer = "ok"
               PROVE  /\ call[c].op = "configure" => Configured(config, call[c].req)
                      /\ call[c].op = "login" =>
                            [session EXCEPT !.jwt = FALSE] = [config EXCEPT !.jwt = FALSE]
    OBVIOUS
  <2>t. TypeOK /\ CallShape /\ GateInv /\ Judged(c) /\ call[c].pc # "idle"
    BY <1>1 DEF LoginInv, JudgeInv, Running, Inside
  <2>1. ASSUME NEW d \in Clients, NEW op \in Ops, NEW r \in Requests \cup {NoRequest}, Begin(d, op, r)
        PROVE  FALSE
    BY <2>1, <2>t, BeginDoes DEF Begin
  <2>2. ASSUME NEW d \in Clients \ {c}, Step(d) \/ InitWrites(d) \/ Disconnect(d) PROVE FALSE
    BY <2>2, <2>t, ClientStep
  <2>3. ASSUME NEW a, Answer(c, a) PROVE a = "ok"
    BY <2>3, <2>t, AnswerDoes
  <2>4. ASSUME NEW w \in Inside, Goto(c, w) PROVE FALSE
    BY <2>4, <2>t, GotoDoes DEF Inside
  <2>5. ASSUME NEW w \in Inside, call' = [call EXCEPT ![c].pc = w, ![c].seen = config] PROVE FALSE
    BY <2>5, <2>t, SeesDoes DEF Inside
  <2>6. ~Refuse(c)
    BY <2>3 DEF Refuse
  <2>7. ~ReadConnection(c)
    BY <2>3 DEF ReadConnection
  <2>8. CASE Configure(c)
    <3>1. ConfigureVerdict(config, call[c].req) = "ok"
      BY <2>8, <2>3, <2>5 DEF Configure, Inside
    <3>2. call[c].op = "configure"
      BY <2>8 DEF Configure, Loaded
    <3> QED
      BY <3>1, <3>2, OkIsConfigured
  <2>9. ~Login(c)
    BY <2>3, <2>5 DEF Login, Inside
  <2>10. CASE LaunchInteractive(c)
    BY <2>10 DEF LaunchInteractive, Loaded
  <2>11. ~InitEnds(c) /\ ~InitWrites(c) /\ ~Exchange(c)
    BY <2>3, <2>4 DEF InitEnds, InitWrites, Exchange, Inside
  <2>12. CASE Reconcile(c)
    <3>1. Configured(config, call[c].req)
      BY <2>12, <2>3 DEF Reconcile
    <3>2. call[c].op = "configure"
      BY <2>12, <2>t DEF Reconcile, Judged
    <3> QED
      BY <3>1, <3>2
  <2>13. CASE VerifyLogin(c)
    <3>1. sameConjurPasswordAuthContext(call[c].seen, config)
      BY <2>13, <2>3 DEF VerifyLogin
    <3>2. session = call[c].seen /\ call[c].op = "login"
      BY <2>13, <2>t DEF VerifyLogin, Judged
    <3> QED
      BY <3>1, <3>2 DEF sameConjurPasswordAuthContext
  <2>14. ~Disconnect(c)
    BY <2>t DEF Disconnect, CallShape, Fields
  <2>15. ~Outside
    BY <2>t, OutsideDoes
  <2>16. ~ActivateBegin /\ ~activateTool /\ ~UNCHANGED vars
    BY <2>t DEF ActivateBegin, activateTool, vars
  <2> QED
    BY <1>1, <2>1, <2>2, <2>6, <2>7, <2>8, <2>9, <2>10, <2>11, <2>12, <2>13, <2>14, <2>15, <2>16 DEF Next, Step
<1>2. LoginInv /\ [Next]_vars => [A]_vars
  BY <1>1
<1> HIDE DEF A
<1>3. Spec => [][A]_vars
  BY <1>2, LoginInvariant, PTL DEF Spec
<1> QED
  BY <1>3, PTL DEF A, SuccessIsTrue
=============================================================================
