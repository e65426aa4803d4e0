----------------------------- MODULE AuditTrail -----------------------------
(***************************************************************************)
(* The mutation journal of CLIHarbor (internal/audittrail): a file of      *)
(* chained records with a permanent sibling lock file, shared by the       *)
(* instances of the program and by `cliharbor audit quarantine'.           *)
(*                                                                         *)
(* An instance takes the lock (acquireAuditLock), reads and verifies the   *)
(* journal (Open), appends for its run manager (Append: write, then sync)  *)
(* and closes.  A write may be cut short, a sync may fail, a process may   *)
(* die between any two steps, and the machine may lose what was not synced.*)
(***************************************************************************)
EXTENDS Integers, Sequences, FiniteSets

CONSTANTS
    Procs,          \* operating system processes
    RunIDs,         \* run identifiers (random, never used twice)
    Names,          \* quarantine file names, one per second of the clock
    MaxEntries,     \* maxEntries; stands for maxBytes as well
    None

ASSUME JournalAssumption == MaxEntries \in Nat /\ None \notin Procs

(* A line that was written in part: no newline at its end. *)
Torn == [torn |-> TRUE]

VARIABLES
    journal,        \* lines of mutation-trail.jsonl as processes see them
    synced,         \* how many of them survive a power loss
    preserved,      \* quarantined files; None for a name not in use
    lockFile,       \* content of the lock file: absent, empty, partial, marker
    lockOwner,      \* holder of the OS lock on it
    pc,             \* where each process is
    name,           \* the quarantine name a process has reserved
    entries,        \* Store.entries
    failed,         \* Store.failed
    pending,        \* the entry between its write and its sync
    running,        \* runs whose completion the manager still has to report
    used,           \* run identifiers generated so far (history)
    acked,          \* entries Append returned nil for (history)
    faults          \* I/O errors and power losses so far (history)

fileVars  == <<journal, synced, preserved>>
lockVars  == <<lockFile, lockOwner>>
storeVars == <<entries, failed, pending>>
histVars  == <<used, acked, faults>>
vars == <<fileVars, lockVars, pc, name, storeVars, running, histVars>>

-----------------------------------------------------------------------------
(* Records and verification *)

Actions == {"approved", "completed"}

(* calculateHash: it covers the sequence number and the content. *)
Hash(e) == <<e.seq, e.run, e.act>>

(* The chain starts from a fixed genesis value. *)
HashBefore(lines, i) == IF i = 1 THEN <<>> ELSE Hash(lines[i - 1])

EntriesOf(lines) == {lines[i] : i \in DOMAIN lines} \ {Torn}

(* The `seen' map that Open and readEntries rebuild from the lines. *)
Seen(lines, r) ==
    IF      \E e \in EntriesOf(lines) : e.run = r /\ e.act = "completed" THEN "completed"
    ELSE IF \E e \in EntriesOf(lines) : e.run = r /\ e.act = "approved"  THEN "approved"
    ELSE "none"

(* An approval of a run not seen before, or the completion of a pending one. *)
Follows(lines, r, act) ==
    Seen(lines, r) = IF act = "approved" THEN "none" ELSE "approved"

(* readEntries: line by line, whole, in sequence, chained and consistent. *)
Verified(lines) ==
    /\ Len(lines) <= MaxEntries
    /\ \A i \in DOMAIN lines :
           /\ lines[i] # Torn
           /\ lines[i].seq = i
           /\ lines[i].prev = HashBefore(lines, i)
           /\ Follows(SubSeq(lines, 1, i - 1), lines[i].run, lines[i].act)

-----------------------------------------------------------------------------
(* acquireAuditLock *)

Release(p) == lockOwner' = IF lockOwner = p THEN None ELSE lockOwner

Become(p, where) == pc' = [pc EXCEPT ![p] = where]

(* O_CREATE|O_EXCL creates an empty file, or the existing one is opened. *)
OpenLockFile(p) ==
    /\ pc[p] = "idle"
    /\ IF lockFile = "absent" THEN lockFile' = "empty" /\ Become(p, "created")
                              ELSE Become(p, "opened") /\ UNCHANGED lockFile
    /\ UNCHANGED <<fileVars, lockOwner, name, storeVars, running, histVars>>

(* lockAuditFile does not block: a second process is refused. *)
LockFile(p) ==
    /\ pc[p] \in {"created", "opened"}
    /\ IF lockOwner = None
       THEN /\ lockOwner' = p
            /\ Become(p, IF pc[p] = "created" THEN "initializing" ELSE "checking")
       ELSE Become(p, "idle") /\ UNCHANGED lockOwner
    /\ UNCHANGED <<fileVars, lockFile, name, storeVars, running, histVars>>

(* The creator writes and syncs the marker; either may fail. *)
WriteMarker(p) ==
    /\ pc[p] = "initializing"
    /\ \/ /\ lockFile' = "marker"
          /\ Become(p, "holding")
          /\ UNCHANGED <<lockOwner, faults>>
       \/ /\ lockFile' \in {"empty", "partial", "marker"}
          /\ faults' = TRUE
          /\ Release(p)
          /\ Become(p, "idle")
    /\ UNCHANGED <<fileVars, name, storeVars, running, used, acked>>

(* Others accept the marker only: an empty file may belong to a legacy      *)
(* instance, anything else is unknown.                                     *)
CheckMarker(p) ==
    /\ pc[p] = "checking"
    /\ IF lockFile = "marker" THEN Become(p, "holding") /\ UNCHANGED lockOwner
                              ELSE Become(p, "idle") /\ Release(p)
    /\ UNCHANGED <<fileVars, lockFile, name, storeVars, running, histVars>>

-----------------------------------------------------------------------------
(* Open, Append, Close *)

(* Open verifies the journal before it serves. *)
OpenStore(p) ==
    /\ pc[p] = "holding"
    /\ IF Verified(journal)
       THEN /\ Become(p, "open")
            /\ entries' = [entries EXCEPT ![p] = journal]
            /\ failed' = [failed EXCEPT ![p] = FALSE]
            /\ UNCHANGED lockOwner
       ELSE Become(p, "idle") /\ Release(p) /\ UNCHANGED <<entries, failed>>
    /\ UNCHANGED <<fileVars, lockFile, name, pending, running, histVars>>

(* The calls of the run manager: an approval of a new run, the completion  *)
(* of a run approved by this process.                                      *)
Call(p, r, act) ==
    /\ pc[p] = "open"
    /\ act \in Actions
    /\ IF act = "approved" THEN r \notin used ELSE r \in running[p]

(* Mutant: capacity is noticed one entry too late. *)
Appendable_OffByOne(p, r, act) ==
    /\ ~failed[p]
    /\ Len(entries[p]) <= MaxEntries
    /\ Follows(entries[p], r, act)

Appendable(p, r, act) ==
    /\ ~failed[p]
    /\ Len(entries[p]) < MaxEntries
    /\ Follows(entries[p], r, act)

(* What the caller knows of its runs once Append was called for one. *)
Called(p, r, act) ==
    /\ used' = used \cup {r}
    /\ running' = [running EXCEPT ![p] = @ \ {r}]

(* Not appendable, or metadata that validEntry or the line limit rejects. *)
RefuseAppend(p, r, act) ==
    /\ Call(p, r, act)
    /\ Called(p, r, act)
    /\ UNCHANGED <<fileVars, lockVars, pc, name, storeVars, acked, faults>>

NewEntry(p, r, act) ==
    [seq  |-> Len(entries[p]) + 1,
     prev |-> HashBefore(entries[p], Len(entries[p]) + 1),
     run  |-> r, act |-> act]

WriteEntry(p, r, act) ==
    /\ Call(p, r, act)
    /\ Appendable(p, r, act)
    /\ Called(p, r, act)
    /\ journal' = Append(journal, NewEntry(p, r, act))
    /\ pending' = [pending EXCEPT ![p] = NewEntry(p, r, act)]
    /\ Become(p, "written")
    /\ UNCHANGED <<synced, preserved, lockVars, name, entries, failed, acked, faults>>

(* Nothing, or only a part of the line, is written: the store is failed. *)
WriteFails(p, r, act) ==
    /\ Call(p, r, act)
    /\ Appendable(p, r, act)
    /\ Called(p, r, act)
    /\ journal' \in {journal, Append(journal, Torn)}
    /\ failed' = [failed EXCEPT ![p] = TRUE]
    /\ faults' = TRUE
    /\ UNCHANGED <<synced, preserved, lockVars, pc, name, entries, pending, acked>>

(* Mutant: Append answers before the entry is on disk. *)
SyncEntry_Lazy(p) ==
    /\ pc[p] = "written"
    /\ entries' = [entries EXCEPT ![p] = Append(@, pending[p])]
    /\ acked' = acked \cup {pending[p]}
    /\ running' = [running EXCEPT ![p] =
                       IF pending[p].act = "approved" THEN @ \cup {pending[p].run} ELSE @]
    /\ pending' = [pending EXCEPT ![p] = None]
    /\ Become(p, "open")
    /\ UNCHANGED <<fileVars, lockVars, name, failed, used, faults>>

SyncEntry(p) ==
    /\ pc[p] = "written"
    /\ synced' = Len(journal)
    /\ entries' = [entries EXCEPT ![p] = Append(@, pending[p])]
    /\ acked' = acked \cup {pending[p]}
    /\ running' = [running EXCEPT ![p] =
                       IF pending[p].act = "approved" THEN @ \cup {pending[p].run} ELSE @]
    /\ pending' = [pending EXCEPT ![p] = None]
    /\ Become(p, "open")
    /\ UNCHANGED <<journal, preserved, lockVars, name, failed, used, faults>>

SyncFails(p) ==
    /\ pc[p] = "written"
    /\ failed' = [failed EXCEPT ![p] = TRUE]
    /\ faults' = TRUE
    /\ pending' = [pending EXCEPT ![p] = None]
    /\ Become(p, "open")
    /\ UNCHANGED <<fileVars, lockVars, name, entries, running, used, acked>>

(* What a process leaves behind when it ends. *)
Gone(p) ==
    /\ Become(p, "idle")
    /\ Release(p)
    /\ entries' = [entries EXCEPT ![p] = <<>>]
    /\ failed' = [failed EXCEPT ![p] = FALSE]
    /\ pending' = [pending EXCEPT ![p] = None]
    /\ running' = [running EXCEPT ![p] = {}]
    /\ name' = [name EXCEPT ![p] = None]

CloseStore(p) ==
    /\ pc[p] = "open"
    /\ Gone(p)
    /\ UNCHANGED <<fileVars, lockFile, histVars>>

(* The process dies; the kernel drops its lock, the files stay. *)
Crash(p) ==
    /\ pc[p] # "idle"
    /\ Gone(p)
    /\ UNCHANGED <<fileVars, lockFile, histVars>>

-----------------------------------------------------------------------------
(* Quarantine, run with the lock held *)

(* Mutant: the journal is moved without being verified. *)
Unusable_Unchecked == TRUE

Unusable == ~Verified(journal)

RefuseQuarantine(p) ==
    /\ pc[p] = "holding"
    /\ \/ ~Unusable
       \/ \E n \in Names : preserved[n] # None
    /\ Become(p, "idle")
    /\ Release(p)
    /\ UNCHANGED <<fileVars, lockFile, name, storeVars, running, histVars>>

(* O_EXCL creates an empty placeholder under a name that was free. *)
ReserveName(p, n) ==
    /\ pc[p] = "holding"
    /\ Unusable
    /\ preserved[n] = None
    /\ preserved' = [preserved EXCEPT ![n] = [lines |-> <<>>, synced |-> 0]]
    /\ name' = [name EXCEPT ![p] = n]
    /\ Become(p, "reserved")
    /\ UNCHANGED <<journal, synced, lockVars, storeVars, running, histVars>>

(* os.Rename, or, when it fails, the removal of the placeholder. *)
MoveAside(p) ==
    /\ pc[p] = "reserved"
    /\ \/ /\ preserved' = [preserved EXCEPT ![name[p]] =
                               [lines |-> journal, synced |-> synced]]
          /\ journal' = <<>>
          /\ synced' = 0
          /\ UNCHANGED faults
       \/ /\ preserved' = [preserved EXCEPT ![name[p]] = None]
          /\ faults' = TRUE
          /\ UNCHANGED <<journal, synced>>
    /\ name' = [name EXCEPT ![p] = None]
    /\ Become(p, "idle")
    /\ Release(p)
    /\ UNCHANGED <<lockFile, storeVars, running, used, acked>>

-----------------------------------------------------------------------------
(* The machine goes down: of the lines not synced a prefix survives, and   *)
(* perhaps a part of the next one; a lock file just created may vanish.    *)
PowerLoss ==
    /\ \E k \in synced .. Len(journal) :
           /\ journal' \in {SubSeq(journal, 1, k)} \cup
                  (IF k < Len(journal) THEN {Append(SubSeq(journal, 1, k), Torn)} ELSE {})
           /\ synced' = Len(journal')
    /\ pc' = [p \in Procs |-> "idle"]
    /\ lockOwner' = None
    /\ entries' = [p \in Procs |-> <<>>]
    /\ failed' = [p \in Procs |-> FALSE]
    /\ pending' = [p \in Procs |-> None]
    /\ running' = [p \in Procs |-> {}]
    /\ name' = [p \in Procs |-> None]
    /\ lockFile' \in {lockFile} \cup (IF lockFile = "empty" THEN {"absent"} ELSE {})
    /\ faults' = TRUE
    /\ UNCHANGED <<preserved, used, acked>>

Init ==
    /\ journal = <<>>
    /\ synced = 0
    /\ preserved = [n \in Names |-> None]
    /\ lockFile = "absent"
    /\ lockOwner = None
    /\ pc = [p \in Procs |-> "idle"]
    /\ name = [p \in Procs |-> None]
    /\ entries = [p \in Procs |-> <<>>]
    /\ failed = [p \in Procs |-> FALSE]
    /\ pending = [p \in Procs |-> None]
    /\ running = [p \in Procs |-> {}]
    /\ used = {}
    /\ acked = {}
    /\ faults = FALSE

LockStep(p) == OpenLockFile(p) \/ LockFile(p) \/ WriteMarker(p) \/ CheckMarker(p)

AppendStep(p, r, act) ==
    RefuseAppend(p, r, act) \/ WriteEntry(p, r, act) \/ WriteFails(p, r, act)

StoreStep(p) ==
    \/ OpenStore(p)
    \/ \E r \in RunIDs, act \in Actions : AppendStep(p, r, act)
    \/ SyncEntry(p)
    \/ SyncFails(p)
    \/ CloseStore(p)

QuarantineStep(p) ==
    \/ RefuseQuarantine(p)
    \/ \E n \in Names : ReserveName(p, n)
    \/ MoveAside(p)

Next ==
    \/ \E p \in Procs : LockStep(p) \/ StoreStep(p) \/ QuarantineStep(p) \/ Crash(p)
    \/ PowerLoss

Spec == Init /\ [][Next]_vars

-----------------------------------------------------------------------------
(* Properties *)

Entries == [seq : Nat, run : RunIDs, act : Actions,
            prev : {<<>>} \cup (Nat \X RunIDs \X Actions)]
Lines   == Entries \cup {Torn}
Files   == [lines : Seq(Lines), synced : Nat]

(* A file or an entry that is not there is none of those that are. *)
ASSUME NoneAssumption == None \notin Files \cup Entries

(* Every variable keeps its type. *)
TypeOK ==
    /\ journal \in Seq(Lines)
    /\ synced \in 0 .. Len(journal)
    /\ preserved \in [Names -> Files \cup {None}]
    /\ lockFile \in {"absent", "empty", "partial", "marker"}
    /\ lockOwner \in Procs \cup {None}
    /\ pc \in [Procs -> {"idle", "created", "opened", "initializing", "checking",
                         "holding", "open", "written", "reserved"}]
    /\ name \in [Procs -> Names \cup {None}]
    /\ entries \in [Procs -> Seq(Entries)]
    /\ failed \in [Procs -> BOOLEAN]
    /\ pending \in [Procs -> Entries \cup {None}]
    /\ running \in [Procs -> SUBSET RunIDs]
    /\ used \subseteq RunIDs
    /\ acked \subseteq Entries
    /\ faults \in BOOLEAN

(* What the disk holds for good, in the journal and in quarantined files. *)
Durable ==
    EntriesOf(SubSeq(journal, 1, synced)) \cup
    UNION {EntriesOf(SubSeq(preserved[n].lines, 1, preserved[n].synced)) :
               n \in {m \in Names : preserved[m] # None}}

(* Past the lock a process is alone, whoever created the file and however  *)
(* the processes interleave or die (lock.go:18-20).                        *)
SingleHolder ==
    \A p \in Procs : pc[p] \in {"initializing", "checking", "holding", "open",
                                "written", "reserved"} => lockOwner = p

(* An entry Append answered nil for is never lost: not by a crash, a power *)
(* loss, a later failure or a quarantine (store.go:258-269, fsync before   *)
(* the answer).                                                            *)
AckedIsDurable == acked \subseteq Durable

(* Whatever fails, every line before the last one verifies: the first      *)
(* damage ends all writing, so it never hides an acknowledged entry.       *)
DamageOnlyAtTail ==
    journal # <<>> => Verified(SubSeq(journal, 1, Len(journal) - 1))

(* A store that still accepts appends knows every line of its file, so the *)
(* next sequence number and previous hash are right.                       *)
StoreMatchesFile ==
    \A p \in Procs : pc[p] = "open" /\ ~failed[p] => entries[p] = journal

(* Without an I/O error or power loss the next start accepts the journal,  *)
(* wherever processes were killed and however full the journal is.         *)
RestartAccepts == ~faults => Verified(journal)

(* The journal file stays fit for use through interleavings, crashes, cut   *)
(* writes and failed syncs: one process at a time has it, what it knows of  *)
(* the file is right, only the tail is ever damaged, and a journal that met *)
(* no I/O error is accepted by the next start.                              *)
FileUsable == TypeOK /\ SingleHolder /\ DamageOnlyAtTail /\ StoreMatchesFile /\ RestartAccepts

(* Quarantine moves a journal that fails verification and that nobody has  *)
(* open, keeps its content, and overwrites no earlier evidence.            *)
QuarantineKeepsEvidence ==
    [][/\ \A n \in Names : preserved[n] # None /\ preserved[n].lines # <<>>
              => preserved'[n] = preserved[n]
       /\ synced > 0 /\ synced' = 0
              => /\ ~Verified(journal)
                 /\ \A p \in Procs : pc[p] \notin {"open", "written"}
                 /\ \E n \in Names : preserved'[n] # None /\ preserved'[n].lines = journal]_vars

(* What is durable moves as AuditSink allows: a run is approved before it  *)
(* is completed and nothing is ever taken back, through every restart,     *)
(* failure and quarantine.                                                 *)
DurableTrail ==
    [r \in RunIDs |->
        IF      \E e \in Durable : e.run = r /\ e.act = "completed" THEN "completed"
        ELSE IF \E e \in Durable : e.run = r /\ e.act = "approved"  THEN "approved"
        ELSE "none"]
Sink == INSTANCE AuditSink WITH trail <- DurableTrail
JournalImplementsSink == Sink!Spec

(* lock.go:11-13 takes an empty lock file for the sentinel of an older     *)
(* version.  No older version runs here, so without an I/O error an empty  *)
(* file belongs to a process that is still about to write its marker.      *)
EmptyLockIsLegacy ==
    lockFile = "empty" /\ ~faults
        => \E p \in Procs : pc[p] \in {"created", "initializing"}
=============================================================================
