-------------------------- MODULE AuditTrailProofs --------------------------
(***************************************************************************)
(* Theorems about AuditTrail, for every set of processes, runs and         *)
(* quarantine names and every size of the journal.                         *)
(*                                                                         *)
(* HolderInv says what the process that has the lock knows of the file,    *)
(* DamageInv where the file may be damaged, TrailInv what is on disk for   *)
(* good behind everything the run managers were told.  Each is inductive   *)
(* together with the types and the exclusion by the lock.                  *)
(***************************************************************************)
EXTENDS AuditTrail, SequenceTheorems, TLAPS

(* Past the lock a process knows the file it works on. *)
Knows(p) ==
    /\ pc[p] = "reserved" =>
          /\ name[p] \in Names
          /\ preserved[name[p]] # None /\ preserved[name[p]] = [lines |-> <<>>, synced |-> 0]
          /\ ~Verified(journal)
    /\ pc[p] = "written" =>
          /\ pending[p] \in Entries
          /\ journal = Append(entries[p], pending[p])
          /\ Verified(journal)
    /\ (pc[p] = "open" /\ ~failed[p]) => entries[p] = journal /\ Verified(journal)

HolderInv == \A p \in Procs : Knows(p)

(* The journal verifies, or all of it but a torn last line does. *)
DamageInv ==
    /\ \/ Verified(journal)
       \/ journal # <<>> /\ Verified(SubSeq(journal, 1, Len(journal) - 1))
    /\ ~faults => Verified(journal)

ApprovedForGood(r) == \E d \in Durable : d.run = r /\ d.act = "approved"

(* Behind an answer, a run a manager has to complete, and a completion in   *)
(* the file, synced or not, there is an entry on disk.                      *)
TrailInv ==
    /\ acked \subseteq Durable
    /\ \A p \in Procs : \A r \in running[p] : ApprovedForGood(r)
    /\ \A e \in EntriesOf(journal) : e.act = "completed" => ApprovedForGood(e.run)

-----------------------------------------------------------------------------
(* Lines and their verification *)

(* A part of a line is not an entry. *)
LEMMA TornIsNoEntry == Torn \notin Entries
<1>1. \A e \in Entries : "seq" \in DOMAIN e
  BY DEF Entries
<1>2. DOMAIN Torn = {"torn"}
  BY DEF Torn
<1> QED
  BY <1>1, <1>2

(* What a prefix of the file is. *)
LEMMA Prefix ==
  ASSUME NEW S, NEW s \in Seq(S), NEW k \in 0 .. Len(s)
  PROVE  /\ SubSeq(s, 1, k) \in Seq(S)
         /\ Len(SubSeq(s, 1, k)) = k
         /\ \A i \in 1 .. k : SubSeq(s, 1, k)[i] = s[i]
<1>1. \A i \in 1 .. k : s[i] \in S
  BY ElementOfSeq
<1>2. k \in Int /\ Len(SubSeq(s, 1, k)) = IF 1 <= k THEN k - 1 + 1 ELSE 0
  BY <1>1, SubSeqProperties
<1> QED
  BY <1>1, <1>2, SubSeqProperties

(* A prefix of a prefix is a prefix. *)
LEMMA PrefixOfPrefix ==
  ASSUME NEW S, NEW s \in Seq(S), NEW k \in 0 .. Len(s), NEW j \in 0 .. k
  PROVE  SubSeq(SubSeq(s, 1, k), 1, j) = SubSeq(s, 1, j)
<1> DEFINE t == SubSeq(s, 1, k)
<1>1. t \in Seq(S) /\ Len(t) = k /\ \A i \in 1 .. k : t[i] = s[i]
  BY Prefix
<1>2. /\ SubSeq(t, 1, j) \in Seq(S) /\ Len(SubSeq(t, 1, j)) = j
      /\ \A i \in 1 .. j : SubSeq(t, 1, j)[i] = t[i]
  <2> HIDE DEF t
  <2> QED
    BY <1>1, Prefix
<1>3. /\ SubSeq(s, 1, j) \in Seq(S) /\ Len(SubSeq(s, 1, j)) = j
      /\ \A i \in 1 .. j : SubSeq(s, 1, j)[i] = s[i]
  BY Prefix
<1>4. \A i \in 1 .. j : SubSeq(t, 1, j)[i] = SubSeq(s, 1, j)[i]
  BY <1>1, <1>2, <1>3
<1> HIDE DEF t
<1> QED
  BY <1>2, <1>3, <1>4, SeqEqual DEF t

(* Appending a line leaves the prefixes as they are. *)
LEMMA PrefixOfAppend ==
  ASSUME NEW S, NEW s \in Seq(S), NEW e \in S, NEW k \in 0 .. Len(s)
  PROVE  SubSeq(Append(s, e), 1, k) = SubSeq(s, 1, k)
<1> DEFINE t == Append(s, e)
<1>1. t \in Seq(S) /\ Len(t) = Len(s) + 1 /\ \A i \in 1 .. Len(s) : t[i] = s[i]
  BY AppendProperties
<1>2. /\ SubSeq(t, 1, k) \in Seq(S) /\ Len(SubSeq(t, 1, k)) = k
      /\ \A i \in 1 .. k : SubSeq(t, 1, k)[i] = t[i]
  <2>1. k \in 0 .. Len(t)
    BY <1>1
  <2> HIDE DEF t
  <2> QED
    BY <1>1, <2>1, Prefix
<1>3. /\ SubSeq(s, 1, k) \in Seq(S) /\ Len(SubSeq(s, 1, k)) = k
      /\ \A i \in 1 .. k : SubSeq(s, 1, k)[i] = s[i]
  BY Prefix
<1>4. \A i \in 1 .. k : SubSeq(t, 1, k)[i] = SubSeq(s, 1, k)[i]
  BY <1>1, <1>2, <1>3
<1> HIDE DEF t
<1> QED
  BY <1>2, <1>3, <1>4, SeqEqual DEF t

(* readEntries accepts an empty file. *)
LEMMA VerifiedEmpty == Verified(<<>>)
BY JournalAssumption, EmptySeq DEF Verified

(* A file cut at the end of a line still verifies. *)
LEMMA VerifiedPrefix ==
  ASSUME NEW lines \in Seq(Lines), Verified(lines), NEW k \in 0 .. Len(lines)
  PROVE  Verified(SubSeq(lines, 1, k))
<1> DEFINE t == SubSeq(lines, 1, k)
<1>1. t \in Seq(Lines) /\ Len(t) = k /\ \A i \in 1 .. k : t[i] = lines[i]
  BY Prefix
<1>2. DOMAIN t = 1 .. k /\ DOMAIN lines = 1 .. Len(lines) /\ Len(lines) \in Nat
  BY <1>1, LenProperties
<1>3. Len(t) <= MaxEntries
  BY <1>1, JournalAssumption DEF Verified
<1>4. ASSUME NEW i \in 1 .. k
      PROVE  /\ t[i] # Torn /\ t[i].seq = i /\ t[i].prev = HashBefore(t, i)
             /\ Follows(SubSeq(t, 1, i - 1), t[i].run, t[i].act)
  <2>1. i \in DOMAIN lines /\ t[i] = lines[i] /\ (i # 1 => t[i - 1] = lines[i - 1])
    BY <1>1, <1>2
  <2>2. HashBefore(t, i) = HashBefore(lines, i)
    BY <2>1 DEF HashBefore
  <2>3. SubSeq(t, 1, i - 1) = SubSeq(lines, 1, i - 1)
    BY PrefixOfPrefix
  <2> HIDE DEF t
  <2> QED
    BY <2>1, <2>2, <2>3 DEF Verified
<1> HIDE DEF t
<1>5. Verified(t)
  BY <1>2, <1>3, <1>4 DEF Verified
<1> QED
  BY <1>5 DEF t

(* What Append writes keeps a journal that is not full verified. *)
LEMMA VerifiedAppend ==
  ASSUME NEW lines \in Seq(Entries), Verified(lines), Len(lines) < MaxEntries,
         NEW e \in Entries, e.seq = Len(lines) + 1,
         e.prev = HashBefore(lines, Len(lines) + 1), Follows(lines, e.run, e.act)
  PROVE  Verified(Append(lines, e))
<1> DEFINE n == Len(lines)
           t == Append(lines, e)
<1>1. /\ t \in Seq(Entries) /\ Len(t) = n + 1 /\ n \in Nat
      /\ \A i \in 1 .. n : t[i] = lines[i]
      /\ t[n + 1] = e
  BY AppendProperties, LenProperties
<1>2. DOMAIN t = 1 .. n + 1 /\ DOMAIN lines = 1 .. n
  BY <1>1, LenProperties
<1>3. Len(t) <= MaxEntries
  BY <1>1, JournalAssumption
<1>4. \A i \in 1 .. n + 1 : SubSeq(t, 1, i - 1) = SubSeq(lines, 1, i - 1)
  BY <1>1, PrefixOfAppend
<1>5. SubSeq(lines, 1, n) = lines
  BY SubSeqFull
<1>6. \A i \in 1 .. n + 1 : HashBefore(t, i) = HashBefore(lines, i)
  <2> HIDE DEF t, n
  <2> QED
    BY <1>1 DEF HashBefore
<1>7. ASSUME NEW i \in 1 .. n + 1
      PROVE  /\ t[i] # Torn /\ t[i].seq = i /\ t[i].prev = HashBefore(t, i)
             /\ Follows(SubSeq(t, 1, i - 1), t[i].run, t[i].act)
  <2>1. CASE i = n + 1
    <3>1. SubSeq(t, 1, i - 1) = lines
      BY <1>1, <1>4, <1>5, <2>1
    <3>2. t[i] = e
      BY <1>1, <2>1
    <3>3. HashBefore(t, i) = HashBefore(lines, n + 1)
      BY <1>6, <2>1
    <3> HIDE DEF t
    <3> QED
      BY <2>1, <3>1, <3>2, <3>3, TornIsNoEntry
  <2>2. CASE i # n + 1
    <3>1. i \in 1 .. n
      BY <1>1, <2>2
    <3>2. t[i] = lines[i] /\ SubSeq(t, 1, i - 1) = SubSeq(lines, 1, i - 1)
      BY <1>1, <1>4, <3>1
    <3>3. HashBefore(t, i) = HashBefore(lines, i)
      BY <1>6
    <3> HIDE DEF t, n
    <3> QED
      BY <1>2, <3>1, <3>2, <3>3 DEF Verified
  <2> QED
    BY <2>1, <2>2
<1> HIDE DEF t
<1>8. Verified(t)
  BY <1>2, <1>3, <1>7 DEF Verified
<1> QED
  BY <1>8 DEF t

(* The entries of a file are those of its lines that are whole. *)
LEMMA EntryIsLine ==
  ASSUME NEW lines \in Seq(Lines)
  PROVE  /\ \A e : e \in EntriesOf(lines) <=>
                       e # Torn /\ \E i \in 1 .. Len(lines) : lines[i] = e
         /\ EntriesOf(lines) \subseteq Entries
<1>1. DOMAIN lines = 1 .. Len(lines) /\ \A i \in 1 .. Len(lines) : lines[i] \in Lines
  BY LenProperties, ElementOfSeq
<1> QED
  BY <1>1 DEF EntriesOf, Lines

(* A longer prefix holds more. *)
LEMMA EntriesOfPrefix ==
  ASSUME NEW lines \in Seq(Lines), NEW k \in 0 .. Len(lines), NEW j \in 0 .. k
  PROVE  /\ EntriesOf(SubSeq(lines, 1, j)) \subseteq EntriesOf(SubSeq(lines, 1, k))
         /\ EntriesOf(SubSeq(lines, 1, k)) \subseteq EntriesOf(lines)
<1>1. /\ SubSeq(lines, 1, k) \in Seq(Lines) /\ Len(SubSeq(lines, 1, k)) = k
      /\ \A i \in 1 .. k : SubSeq(lines, 1, k)[i] = lines[i]
  BY Prefix
<1>2. /\ SubSeq(lines, 1, j) \in Seq(Lines) /\ Len(SubSeq(lines, 1, j)) = j
      /\ \A i \in 1 .. j : SubSeq(lines, 1, j)[i] = lines[i]
  BY Prefix
<1>3. \A i \in 1 .. j : i \in 1 .. k
  OBVIOUS
<1>4. \A i \in 1 .. k : i \in 1 .. Len(lines)
  BY LenProperties
<1>5. ASSUME NEW t \in Seq(Lines), NEW m \in Nat, Len(t) = m, \A i \in 1 .. m : t[i] = lines[i]
      PROVE  \A e : e \in EntriesOf(t) <=> e # Torn /\ \E i \in 1 .. m : lines[i] = e
  BY <1>5, EntryIsLine
<1>6. /\ \A e : e \in EntriesOf(SubSeq(lines, 1, j)) <=> e # Torn /\ \E i \in 1 .. j : lines[i] = e
      /\ \A e : e \in EntriesOf(SubSeq(lines, 1, k)) <=> e # Torn /\ \E i \in 1 .. k : lines[i] = e
  <2> DEFINE u == SubSeq(lines, 1, j)
             v == SubSeq(lines, 1, k)
  <2>1. u \in Seq(Lines) /\ Len(u) = j /\ \A i \in 1 .. j : u[i] = lines[i]
    BY <1>2
  <2>2. v \in Seq(Lines) /\ Len(v) = k /\ \A i \in 1 .. k : v[i] = lines[i]
    BY <1>1
  <2>3. j \in Nat /\ k \in Nat
    BY LenProperties
  <2> HIDE DEF u, v
  <2>4. \A e : e \in EntriesOf(u) <=> e # Torn /\ \E i \in 1 .. j : lines[i] = e
    BY <1>5, <2>1, <2>3
  <2>5. \A e : e \in EntriesOf(v) <=> e # Torn /\ \E i \in 1 .. k : lines[i] = e
    BY <1>5, <2>2, <2>3
  <2> QED
    BY <2>4, <2>5 DEF u, v
<1>7. \A e : e \in EntriesOf(lines) <=> e # Torn /\ \E i \in 1 .. Len(lines) : lines[i] = e
  BY EntryIsLine
<1> QED
  BY <1>3, <1>4, <1>6, <1>7

(* A line adds itself, unless it is torn. *)
LEMMA EntriesOfAppend ==
  ASSUME NEW lines \in Seq(Lines), NEW e \in Lines
  PROVE  EntriesOf(Append(lines, e)) = EntriesOf(lines) \cup ({e} \ {Torn})
<1>1. /\ Append(lines, e) \in Seq(Lines) /\ Len(Append(lines, e)) = Len(lines) + 1
      /\ \A i \in 1 .. Len(lines) : Append(lines, e)[i] = lines[i]
      /\ Append(lines, e)[Len(lines) + 1] = e
      /\ Len(lines) \in Nat
  BY AppendProperties, LenProperties
<1>2. 1 .. Len(lines) + 1 = (1 .. Len(lines)) \cup {Len(lines) + 1}
  BY <1>1
<1>3. ASSUME NEW x
      PROVE  x \in EntriesOf(Append(lines, e)) <=> x \in EntriesOf(lines) \cup ({e} \ {Torn})
  <2> DEFINE t == Append(lines, e)
  <2>1. x \in EntriesOf(t) <=> x # Torn /\ \E i \in 1 .. Len(t) : t[i] = x
    <3> HIDE DEF t
    <3> QED
      BY <1>1, EntryIsLine DEF t
  <2>2. x \in EntriesOf(lines) <=> x # Torn /\ \E i \in 1 .. Len(lines) : lines[i] = x
    BY EntryIsLine
  <2>3. (\E i \in 1 .. Len(t) : t[i] = x) <=> (\E i \in 1 .. Len(lines) : lines[i] = x) \/ x = e
    <3> HIDE DEF t
    <3> QED
      BY <1>1, <1>2 DEF t
  <2> QED
    BY <2>1, <2>2, <2>3
<1> QED
  BY <1>3

-----------------------------------------------------------------------------
(* The types *)

(* NewEntry is an entry that continues the chain of the store's entries.    *)
LEMMA NewEntryType ==
  ASSUME TypeOK, NEW p \in Procs, NEW r \in RunIDs, NEW act \in Actions
  PROVE  /\ NewEntry(p, r, act) \in Entries
         /\ NewEntry(p, r, act).seq = Len(entries[p]) + 1
         /\ NewEntry(p, r, act).prev = HashBefore(entries[p], Len(entries[p]) + 1)
         /\ NewEntry(p, r, act).run = r /\ NewEntry(p, r, act).act = act
<1> DEFINE s == entries[p]
<1>1. s \in Seq(Entries) /\ Len(s) \in Nat
  BY LenProperties DEF TypeOK
<1>2. HashBefore(s, Len(s) + 1) \in {<<>>} \cup (Nat \X RunIDs \X Actions)
  <2>1. CASE Len(s) = 0
    BY <2>1 DEF HashBefore
  <2>2. CASE Len(s) # 0
    <3>1. Len(s) \in 1 .. Len(s)
      BY <1>1, <2>2
    <3>2. s[Len(s)] \in Entries
      BY <1>1, <3>1, ElementOfSeq
    <3>3. HashBefore(s, Len(s) + 1) = Hash(s[Len(s)])
      BY <1>1, <2>2 DEF HashBefore
    <3> QED
      BY <3>2, <3>3 DEF Hash, Entries
  <2> QED
    BY <2>1, <2>2
<1> QED
  BY <1>1, <1>2 DEF NewEntry, Entries

(* The types hold from step to step; what SyncEntry adds to the store is an *)
(* entry because WriteEntry put it there.                                   *)
LEMMA TypesStep == TypeOK /\ HolderInv /\ [Next]_vars => TypeOK'
<1> SUFFICES ASSUME TypeOK, HolderInv, [Next]_vars PROVE TypeOK'
  OBVIOUS
<1> USE DEF TypeOK, Become, Release, fileVars, lockVars, storeVars, histVars
<1>1. ASSUME NEW p \in Procs, OpenLockFile(p) PROVE TypeOK'
  BY <1>1 DEF OpenLockFile
<1>2. ASSUME NEW p \in Procs, LockFile(p) PROVE TypeOK'
  BY <1>2 DEF LockFile
<1>3. ASSUME NEW p \in Procs, WriteMarker(p) PROVE TypeOK'
  BY <1>3 DEF WriteMarker
<1>4. ASSUME NEW p \in Procs, CheckMarker(p) PROVE TypeOK'
  BY <1>4 DEF CheckMarker
<1>5. ASSUME NEW p \in Procs, OpenStore(p) PROVE TypeOK'
  <2>1. Verified(journal) => journal \in Seq(Entries)
    <3>1. DOMAIN journal = 1 .. Len(journal) /\ \A i \in 1 .. Len(journal) : journal[i] \in Lines
      BY LenProperties, ElementOfSeq
    <3>2. ASSUME Verified(journal) PROVE \A i \in 1 .. Len(journal) : journal[i] \in Entries
      BY <3>1, <3>2 DEF Verified, Lines
    <3>3. SubSeq(journal, 1, Len(journal)) = journal /\ Len(journal) \in Int
      BY SubSeqFull, LenProperties
    <3>4. ASSUME Verified(journal) PROVE SubSeq(journal, 1, Len(journal)) \in Seq(Entries)
      BY <3>2, <3>3, <3>4, SubSeqProperties
    <3> QED
      BY <3>3, <3>4
  <2> QED
    BY <1>5, <2>1 DEF OpenStore
<1>6. ASSUME NEW p \in Procs, NEW r \in RunIDs, NEW act \in Actions, RefuseAppend(p, r, act) PROVE TypeOK'
  BY <1>6 DEF RefuseAppend, Called
<1>7. ASSUME NEW p \in Procs, NEW r \in RunIDs, NEW act \in Actions, WriteEntry(p, r, act) PROVE TypeOK'
  <2>1. NewEntry(p, r, act) \in Entries
    BY NewEntryType
  <2>2. journal' \in Seq(Lines) /\ Len(journal') = Len(journal) + 1 /\ Len(journal) \in Nat
    BY <1>7, <2>1, AppendProperties, LenProperties DEF WriteEntry, Lines
  <2> QED
    BY <1>7, <2>1, <2>2 DEF WriteEntry, Called
<1>8. ASSUME NEW p \in Procs, NEW r \in RunIDs, NEW act \in Actions, WriteFails(p, r, act) PROVE TypeOK'
  <2>1. /\ Append(journal, Torn) \in Seq(Lines) /\ Len(Append(journal, Torn)) = Len(journal) + 1
        /\ Len(journal) \in Nat
    BY AppendProperties, LenProperties DEF Lines
  <2>2. journal' \in Seq(Lines) /\ synced' \in 0 .. Len(journal')
    <3>1. journal' = journal \/ journal' = Append(journal, Torn)
      BY <1>8 DEF WriteFails
    <3>2. synced' = synced
      BY <1>8 DEF WriteFails
    <3>3. CASE journal' = journal
      BY <3>2, <3>3
    <3>4. CASE journal' = Append(journal, Torn)
      BY <2>1, <3>2, <3>4
    <3> QED
      BY <3>1, <3>3, <3>4
  <2> QED
    BY <1>8, <2>2 DEF WriteFails, Called
<1>9. ASSUME NEW p \in Procs, SyncEntry(p) PROVE TypeOK'
  <2>1. Len(journal) \in Nat
    BY LenProperties
  <2>2. pending[p] \in Entries
    BY <1>9 DEF SyncEntry, HolderInv, Knows
  <2>3. Append(entries[p], pending[p]) \in Seq(Entries)
    BY <2>2, AppendProperties
  <2>4. pending[p].run \in RunIDs
    BY <2>2 DEF Entries
  <2>5. running' \in [Procs -> SUBSET RunIDs]
    BY <1>9, <2>4 DEF SyncEntry
  <2>6. /\ entries' \in [Procs -> Seq(Entries)]
        /\ acked' \subseteq Entries
        /\ pending' \in [Procs -> Entries \cup {None}]
    BY <1>9, <2>2, <2>3 DEF SyncEntry
  <2>7. UNCHANGED <<journal, preserved, lockVars, name, failed, used, faults>> /\ synced' = Len(journal)
    BY <1>9 DEF SyncEntry
  <2>8. pc' \in [Procs -> {"idle", "created", "opened", "initializing", "checking",
                           "holding", "open", "written", "reserved"}]
    BY <1>9 DEF SyncEntry
  <2> QED
    BY <2>1, <2>5, <2>6, <2>7, <2>8
<1>10. ASSUME NEW p \in Procs, SyncFails(p) PROVE TypeOK'
  BY <1>10 DEF SyncFails
<1>11. ASSUME NEW p \in Procs, CloseStore(p) PROVE TypeOK'
  BY <1>11 DEF CloseStore, Gone
<1>12. ASSUME NEW p \in Procs, Crash(p) PROVE TypeOK'
  BY <1>12 DEF Crash, Gone
<1>13. ASSUME NEW p \in Procs, RefuseQuarantine(p) PROVE TypeOK'
  BY <1>13 DEF RefuseQuarantine
<1>14. ASSUME NEW p \in Procs, NEW n \in Names, ReserveName(p, n) PROVE TypeOK'
  <2>1. [lines |-> <<>>, synced |-> 0] \in Files
    BY EmptySeq DEF Files
  <2> QED
    BY <1>14, <2>1 DEF ReserveName
<1>15. ASSUME NEW p \in Procs, MoveAside(p) PROVE TypeOK'
  <2>1. synced \in Nat /\ [lines |-> journal, synced |-> synced] \in Files
    BY LenProperties DEF Files
  <2>2. preserved' \in [Names -> Files \cup {None}]
    <3>1. \E x \in Files \cup {None} : preserved' = [preserved EXCEPT ![name[p]] = x]
      BY <1>15, <2>1 DEF MoveAside
    <3> QED
      BY <3>1
  <2>3. journal' \in Seq(Lines) /\ synced' \in 0 .. Len(journal') /\ faults' \in BOOLEAN
    <3>1. CASE journal' = <<>> /\ synced' = 0 /\ UNCHANGED faults
      BY <3>1, EmptySeq
    <3>2. CASE UNCHANGED <<journal, synced>> /\ faults' = TRUE
      BY <3>2
    <3> QED
      BY <1>15, <3>1, <3>2 DEF MoveAside
  <2>4. UNCHANGED <<lockFile, storeVars, running, used, acked>>
    BY <1>15 DEF MoveAside
  <2>5. /\ name' \in [Procs -> Names \cup {None}] /\ lockOwner' \in Procs \cup {None}
        /\ pc' \in [Procs -> {"idle", "created", "opened", "initializing", "checking",
                              "holding", "open", "written", "reserved"}]
    BY <1>15 DEF MoveAside
  <2> QED
    BY <2>2, <2>3, <2>4, <2>5
<1>16. CASE PowerLoss
  <2>1. PICK k \in synced .. Len(journal) :
           /\ journal' \in {SubSeq(journal, 1, k)} \cup
                  (IF k < Len(journal) THEN {Append(SubSeq(journal, 1, k), Torn)} ELSE {})
           /\ synced' = Len(journal')
    BY <1>16 DEF PowerLoss
  <2>2. k \in 0 .. Len(journal) /\ Torn \in Lines
    BY LenProperties DEF Lines
  <2>3. SubSeq(journal, 1, k) \in Seq(Lines)
    BY <2>2, Prefix
  <2>4. Append(SubSeq(journal, 1, k), Torn) \in Seq(Lines)
    BY <2>2, <2>3, AppendProperties
  <2>5. journal' \in Seq(Lines) /\ synced' = Len(journal')
    BY <2>1, <2>3, <2>4
  <2>6. synced' \in 0 .. Len(journal')
    BY <2>5, LenProperties
  <2>7. /\ entries' \in [Procs -> Seq(Entries)] /\ failed' \in [Procs -> BOOLEAN]
        /\ pending' \in [Procs -> Entries \cup {None}] /\ running' \in [Procs -> SUBSET RunIDs]
        /\ name' \in [Procs -> Names \cup {None}]
    BY <1>16, EmptySeq DEF PowerLoss
  <2>8. /\ lockOwner' \in Procs \cup {None} /\ faults' \in BOOLEAN
        /\ lockFile' \in {"absent", "empty", "partial", "marker"}
        /\ pc' \in [Procs -> {"idle", "created", "opened", "initializing", "checking",
                              "holding", "open", "written", "reserved"}]
        /\ UNCHANGED <<preserved, used, acked>>
    BY <1>16 DEF PowerLoss
  <2> QED
    BY <2>5, <2>6, <2>7, <2>8
<1>17. CASE UNCHANGED vars
  BY <1>17 DEF vars
<1> QED
  BY <1>1, <1>2, <1>3, <1>4, <1>5, <1>6, <1>7, <1>8, <1>9, <1>10, <1>11, <1>12, <1>13, <1>14,
     <1>15, <1>16, <1>17 DEF Next, LockStep, StoreStep, AppendStep, QuarantineStep

-----------------------------------------------------------------------------
(* The holder of the lock *)

(* Only acquireAuditLock lets a process past the lock, and only alone. *)
LEMMA SingleHolderStep == TypeOK /\ SingleHolder /\ [Next]_vars => SingleHolder'
<1> SUFFICES ASSUME TypeOK, SingleHolder, [Next]_vars, NEW q \in Procs,
                    pc'[q] \in {"initializing", "checking", "holding", "open", "written", "reserved"}
             PROVE  lockOwner' = q
  BY DEF SingleHolder
<1> USE JournalAssumption DEF Become, Release, fileVars, lockVars, storeVars, histVars
<1>q. pc[q] \in {"initializing", "checking", "holding", "open", "written", "reserved"} => lockOwner = q
  BY DEF SingleHolder
<1>t. /\ pc \in [Procs -> {"idle", "created", "opened", "initializing", "checking",
                           "holding", "open", "written", "reserved"}]
      /\ q # None
  BY DEF TypeOK
<1>1. ASSUME NEW p \in Procs, LockStep(p) PROVE lockOwner' = q
  BY <1>1, <1>q, <1>t DEF LockStep, OpenLockFile, LockFile, WriteMarker, CheckMarker
<1>2. ASSUME NEW p \in Procs, OpenStore(p) PROVE lockOwner' = q
  BY <1>2, <1>q, <1>t DEF OpenStore
<1>3. ASSUME NEW p \in Procs, NEW r \in RunIDs, NEW act \in Actions, AppendStep(p, r, act) PROVE lockOwner' = q
  BY <1>3, <1>q, <1>t DEF AppendStep, Call, RefuseAppend, WriteEntry, WriteFails
<1>4. ASSUME NEW p \in Procs, SyncEntry(p) \/ SyncFails(p) PROVE lockOwner' = q
  BY <1>4, <1>q, <1>t DEF SyncEntry, SyncFails
<1>5. ASSUME NEW p \in Procs, CloseStore(p) \/ Crash(p) PROVE lockOwner' = q
  BY <1>5, <1>q, <1>t DEF CloseStore, Crash, Gone
<1>6. ASSUME NEW p \in Procs, RefuseQuarantine(p) PROVE lockOwner' = q
  BY <1>6, <1>q, <1>t DEF RefuseQuarantine
<1>7. ASSUME NEW p \in Procs, NEW n \in Names, ReserveName(p, n) PROVE lockOwner' = q
  BY <1>7, <1>q, <1>t DEF ReserveName
<1>8. ASSUME NEW p \in Procs, MoveAside(p) PROVE lockOwner' = q
  BY <1>8, <1>q, <1>t DEF MoveAside
<1>9. CASE PowerLoss
  BY <1>9 DEF PowerLoss
<1>10. CASE UNCHANGED vars
  BY <1>10, <1>q DEF vars
<1> QED
  BY <1>1, <1>2, <1>3, <1>4, <1>5, <1>6, <1>7, <1>8, <1>9, <1>10 DEF Next, StoreStep, QuarantineStep

(* The lock keeps the journal from changing under the process that knows it;*)
(* Append writes what continues the chain, so the journal keeps verifying.  *)
LEMMA HolderStep == TypeOK /\ SingleHolder /\ HolderInv /\ [Next]_vars => HolderInv'
<1> SUFFICES ASSUME TypeOK, SingleHolder, HolderInv, [Next]_vars, NEW q \in Procs PROVE Knows(q)'
  BY DEF HolderInv
<1> USE DEF Become, fileVars, lockVars, storeVars, histVars
<1>q. Knows(q)
  BY DEF HolderInv
<1>a. ASSUME UNCHANGED <<journal, preserved, name, entries, failed, pending>>,
             pc'[q] \in {"reserved", "written", "open"} => pc'[q] = pc[q]
      PROVE  Knows(q)'
  BY <1>q, <1>a DEF Knows
<1>b. ASSUME NEW p \in Procs, p # q, pc[p] \in {"holding", "open", "written", "reserved"},
             pc'[q] = pc[q]
      PROVE  Knows(q)'
  BY <1>b DEF SingleHolder, Knows
<1>t. pc \in [Procs -> {"idle", "created", "opened", "initializing", "checking",
                        "holding", "open", "written", "reserved"}]
  BY DEF TypeOK
<1>1. ASSUME NEW p \in Procs, LockStep(p) PROVE Knows(q)'
  BY <1>1, <1>a, <1>t DEF LockStep, OpenLockFile, LockFile, WriteMarker, CheckMarker
<1>2. ASSUME NEW p \in Procs, OpenStore(p) PROVE Knows(q)'
  <2>1. CASE Verified(journal)
    <3>1. CASE p = q
      BY <1>2, <2>1, <3>1, <1>t DEF OpenStore, Knows, TypeOK
    <3>2. CASE p # q
      BY <1>2, <2>1, <3>2, <1>b, <1>t DEF OpenStore
    <3> QED
      BY <3>1, <3>2
  <2>2. CASE ~Verified(journal)
    BY <1>2, <2>2, <1>a, <1>t DEF OpenStore
  <2> QED
    BY <2>1, <2>2
<1>3. ASSUME NEW p \in Procs, NEW r \in RunIDs, NEW act \in Actions, RefuseAppend(p, r, act) PROVE Knows(q)'
  BY <1>3, <1>a DEF RefuseAppend
<1>4. ASSUME NEW p \in Procs, NEW r \in RunIDs, NEW act \in Actions, WriteEntry(p, r, act) PROVE Knows(q)'
  <2>1. CASE p = q
    <3> DEFINE e == NewEntry(p, r, act)
    <3>1. entries[p] = journal /\ Verified(journal)
      BY <1>q, <1>4, <2>1 DEF WriteEntry, Call, Appendable, Knows
    <3>2. entries[p] \in Seq(Entries)
      BY DEF TypeOK
    <3>3. e \in Entries
      BY NewEntryType
    <3>4. Len(entries[p]) < MaxEntries /\ Follows(entries[p], r, act)
      BY <1>4 DEF WriteEntry, Appendable
    <3>5. Verified(Append(entries[p], e))
      BY <3>1, <3>2, <3>3, <3>4, NewEntryType, VerifiedAppend
    <3>6. journal' = Append(entries[p], e) /\ pending'[p] = e /\ UNCHANGED entries /\ pc'[q] = "written"
      BY <1>4, <2>1, <3>1, <1>t DEF WriteEntry, TypeOK
    <3> HIDE DEF e
    <3>7. Verified(journal')
      BY <3>5, <3>6
    <3>8. Verified(journal)'
      BY <3>7 DEF Verified, HashBefore, Hash, Follows, Seen, EntriesOf
    <3> QED
      BY <2>1, <3>3, <3>6, <3>8 DEF Knows
  <2>2. CASE p # q
    BY <1>4, <2>2, <1>b, <1>t DEF WriteEntry, Call
  <2> QED
    BY <2>1, <2>2
<1>5. ASSUME NEW p \in Procs, NEW r \in RunIDs, NEW act \in Actions, WriteFails(p, r, act) PROVE Knows(q)'
  <2>1. CASE p = q
    BY <1>5, <2>1, <1>t DEF WriteFails, Call, Knows, TypeOK
  <2>2. CASE p # q
    BY <1>5, <2>2, <1>b, <1>t DEF WriteFails, Call
  <2> QED
    BY <2>1, <2>2
<1>6. ASSUME NEW p \in Procs, SyncEntry(p) PROVE Knows(q)'
  <2>1. CASE p = q
    <3>1. journal = Append(entries[p], pending[p]) /\ Verified(journal)
      BY <1>q, <1>6, <2>1 DEF SyncEntry, Knows
    <3>2. pc'[q] = "open" /\ entries'[q] = Append(entries[p], pending[p]) /\ UNCHANGED journal
      BY <1>6, <2>1, <1>t DEF SyncEntry, TypeOK
    <3> QED
      BY <3>1, <3>2 DEF Knows
  <2>2. CASE p # q
    BY <1>6, <2>2, <1>b, <1>t DEF SyncEntry
  <2> QED
    BY <2>1, <2>2
<1>7. ASSUME NEW p \in Procs, SyncFails(p) PROVE Knows(q)'
  <2>1. CASE p = q
    BY <1>7, <2>1, <1>t DEF SyncFails, Knows, TypeOK
  <2>2. CASE p # q
    BY <1>7, <2>2, <1>b, <1>t DEF SyncFails
  <2> QED
    BY <2>1, <2>2
<1>8. ASSUME NEW p \in Procs, CloseStore(p) \/ Crash(p) PROVE Knows(q)'
  <2>1. CASE p = q
    BY <1>8, <2>1, <1>t DEF CloseStore, Crash, Gone, Knows
  <2>2. CASE p # q
    <3>1. /\ pc'[q] = pc[q] /\ entries'[q] = entries[q] /\ failed'[q] = failed[q]
          /\ pending'[q] = pending[q] /\ name'[q] = name[q]
          /\ UNCHANGED <<journal, preserved>>
      BY <1>8, <2>2, <1>t DEF CloseStore, Crash, Gone, TypeOK
    <3> QED
      BY <1>q, <3>1 DEF Knows
  <2> QED
    BY <2>1, <2>2
<1>9. ASSUME NEW p \in Procs, RefuseQuarantine(p) PROVE Knows(q)'
  BY <1>9, <1>a, <1>t DEF RefuseQuarantine
<1>10. ASSUME NEW p \in Procs, NEW n \in Names, ReserveName(p, n) PROVE Knows(q)'
  <2>1. CASE p = q
    <3>1. /\ preserved'[n] = [lines |-> <<>>, synced |-> 0] /\ name'[q] = n /\ pc'[q] = "reserved"
          /\ UNCHANGED journal
      BY <1>10, <2>1, <1>t DEF ReserveName, TypeOK
    <3>2. preserved'[n] # None
      <4>1. [lines |-> <<>>, synced |-> 0] \in Files
        BY EmptySeq DEF Files
      <4> QED
        BY <3>1, <4>1, NoneAssumption
    <3>3. ~Verified(journal)
      BY <1>10 DEF ReserveName, Unusable
    <3> QED
      BY <3>1, <3>2, <3>3 DEF Knows
  <2>2. CASE p # q
    BY <1>10, <2>2, <1>b, <1>t DEF ReserveName
  <2> QED
    BY <2>1, <2>2
<1>11. ASSUME NEW p \in Procs, MoveAside(p) PROVE Knows(q)'
  <2>1. CASE p = q
    BY <1>11, <2>1, <1>t DEF MoveAside, Knows
  <2>2. CASE p # q
    BY <1>11, <2>2, <1>b, <1>t DEF MoveAside
  <2> QED
    BY <2>1, <2>2
<1>12. CASE PowerLoss
  BY <1>12 DEF PowerLoss, Knows
<1>13. CASE UNCHANGED vars
  BY <1>13, <1>a DEF vars
<1> QED
  BY <1>1, <1>2, <1>3, <1>4, <1>5, <1>6, <1>7, <1>8, <1>9, <1>10, <1>11, <1>12, <1>13
     DEF Next, StoreStep, AppendStep, QuarantineStep

-----------------------------------------------------------------------------
(* Where the file may be damaged *)

(* A file without its last line is the file before that line. *)
LEMMA FrontOfAppend ==
  ASSUME NEW lines \in Seq(Lines), NEW e \in Lines
  PROVE  /\ Append(lines, e) # <<>>
         /\ SubSeq(Append(lines, e), 1, Len(Append(lines, e)) - 1) = lines
<1>1. Len(Append(lines, e)) = Len(lines) + 1 /\ Len(lines) \in Nat
  BY AppendProperties, LenProperties
<1>2. SubSeq(Append(lines, e), 1, Len(lines)) = SubSeq(lines, 1, Len(lines))
  BY <1>1, PrefixOfAppend
<1>3. SubSeq(lines, 1, Len(lines)) = lines
  BY SubSeqFull
<1>4. Len(Append(lines, e)) - 1 = Len(lines)
  BY <1>1
<1>5. Append(lines, e) # <<>>
  BY <1>1, EmptySeq
<1> QED
  BY <1>2, <1>3, <1>4, <1>5

(* Damage is written once, at the end: the store that did it accepts no     *)
(* further append, and a power loss cuts the file before it tears a line.   *)
LEMMA DamageStep == TypeOK /\ SingleHolder /\ HolderInv /\ DamageInv /\ [Next]_vars => DamageInv'
<1> SUFFICES ASSUME TypeOK, HolderInv, DamageInv, [Next]_vars PROVE DamageInv'
  OBVIOUS
<1> USE DEF fileVars, lockVars, storeVars, histVars
<1>t. journal \in Seq(Lines) /\ Torn \in Lines /\ synced \in 0 .. Len(journal) /\ Len(journal) \in Nat
  BY LenProperties DEF TypeOK, Lines
<1>a. ASSUME UNCHANGED journal, faults' = faults \/ faults' = TRUE PROVE DamageInv'
  BY <1>a DEF DamageInv
<1>b. ASSUME Verified(journal') PROVE DamageInv'
  BY <1>b DEF DamageInv
<1>c. ASSUME NEW lines \in Seq(Lines), Verified(lines), journal' = Append(lines, Torn), faults' = TRUE
      PROVE  DamageInv'
  <2>1. journal' # <<>> /\ SubSeq(journal', 1, Len(journal') - 1) = lines
    BY <1>c, <1>t, FrontOfAppend
  <2> QED
    BY <1>c, <2>1 DEF DamageInv
<1>1. ASSUME NEW p \in Procs, LockStep(p) PROVE DamageInv'
  BY <1>1, <1>a DEF LockStep, OpenLockFile, LockFile, WriteMarker, CheckMarker
<1>2. ASSUME NEW p \in Procs, OpenStore(p) PROVE DamageInv'
  BY <1>2, <1>a DEF OpenStore
<1>3. ASSUME NEW p \in Procs, NEW r \in RunIDs, NEW act \in Actions, RefuseAppend(p, r, act) PROVE DamageInv'
  BY <1>3, <1>a DEF RefuseAppend
<1>4. ASSUME NEW p \in Procs, NEW r \in RunIDs, NEW act \in Actions, WriteEntry(p, r, act) PROVE DamageInv'
  <2>1. entries[p] = journal /\ Verified(journal)
    BY <1>4 DEF WriteEntry, Call, Appendable, HolderInv, Knows
  <2>2. Verified(Append(journal, NewEntry(p, r, act)))
    BY <1>4, <2>1, NewEntryType, VerifiedAppend DEF WriteEntry, Appendable, TypeOK
  <2> QED
    BY <1>4, <1>b, <2>2 DEF WriteEntry
<1>5. ASSUME NEW p \in Procs, NEW r \in RunIDs, NEW act \in Actions, WriteFails(p, r, act) PROVE DamageInv'
  <2>1. Verified(journal)
    BY <1>5 DEF WriteFails, Call, Appendable, HolderInv, Knows
  <2>2. journal' = journal \/ journal' = Append(journal, Torn)
    BY <1>5 DEF WriteFails
  <2> QED
    BY <1>5, <1>a, <1>c, <1>t, <2>1, <2>2 DEF WriteFails
<1>6. ASSUME NEW p \in Procs, SyncEntry(p) \/ SyncFails(p) PROVE DamageInv'
  BY <1>6, <1>a DEF SyncEntry, SyncFails
<1>7. ASSUME NEW p \in Procs, CloseStore(p) \/ Crash(p) PROVE DamageInv'
  BY <1>7, <1>a DEF CloseStore, Crash
<1>8. ASSUME NEW p \in Procs, RefuseQuarantine(p) PROVE DamageInv'
  BY <1>8, <1>a DEF RefuseQuarantine
<1>9. ASSUME NEW p \in Procs, NEW n \in Names, ReserveName(p, n) PROVE DamageInv'
  BY <1>9, <1>a DEF ReserveName
<1>10. ASSUME NEW p \in Procs, MoveAside(p) PROVE DamageInv'
  <2>1. CASE journal' = <<>>
    BY <1>b, <2>1, VerifiedEmpty
  <2>2. CASE UNCHANGED journal /\ faults' = TRUE
    BY <1>a, <2>2
  <2> QED
    BY <1>10, <2>1, <2>2 DEF MoveAside
<1>11. CASE PowerLoss
  <2>0. PICK k \in synced .. Len(journal) :
           journal' \in {SubSeq(journal, 1, k)} \cup
               (IF k < Len(journal) THEN {Append(SubSeq(journal, 1, k), Torn)} ELSE {})
    BY <1>11 DEF PowerLoss
  <2>1. \/ journal' = SubSeq(journal, 1, k)
        \/ k < Len(journal) /\ journal' = Append(SubSeq(journal, 1, k), Torn)
    BY <2>0, ZenonT(20)
  <2>2. faults' = TRUE /\ k \in 0 .. Len(journal)
    <3>1. faults' = TRUE
      BY <1>11 DEF PowerLoss
    <3> QED
      BY <1>t, <3>1
  <2>3. SubSeq(journal, 1, k) \in Seq(Lines)
    BY <1>t, <2>2, Prefix
  <2>4. ASSUME k < Len(journal) PROVE Verified(SubSeq(journal, 1, k))
    <3>1. CASE Verified(journal)
      BY <1>t, <2>2, <3>1, VerifiedPrefix
    <3>2. CASE Verified(SubSeq(journal, 1, Len(journal) - 1))
      <4> DEFINE m == Len(journal) - 1
      <4>1. m \in 0 .. Len(journal) /\ k \in 0 .. m
        BY <1>t, <2>2, <2>4
      <4>2. SubSeq(journal, 1, m) \in Seq(Lines) /\ Len(SubSeq(journal, 1, m)) = m
        BY <1>t, <4>1, Prefix
      <4>3. Verified(SubSeq(SubSeq(journal, 1, m), 1, k))
        BY <3>2, <4>1, <4>2, VerifiedPrefix
      <4>4. SubSeq(SubSeq(journal, 1, m), 1, k) = SubSeq(journal, 1, k)
        <5> HIDE DEF m
        <5> QED
          BY <1>t, <4>1, PrefixOfPrefix
      <4> QED
        BY <4>3, <4>4
    <3> QED
      BY <3>1, <3>2 DEF DamageInv
  <2>5. CASE journal' = SubSeq(journal, 1, k) /\ k = Len(journal)
    BY <1>t, <1>a, <2>2, <2>5, SubSeqFull
  <2>6. CASE journal' = SubSeq(journal, 1, k) /\ k < Len(journal)
    BY <1>b, <2>4, <2>6
  <2>7. CASE k < Len(journal) /\ journal' = Append(SubSeq(journal, 1, k), Torn)
    BY <1>c, <2>2, <2>3, <2>4, <2>7
  <2> QED
    BY <1>t, <2>1, <2>2, <2>5, <2>6, <2>7
<1>12. CASE UNCHANGED vars
  BY <1>12, <1>a DEF vars
<1> QED
  BY <1>1, <1>2, <1>3, <1>4, <1>5, <1>6, <1>7, <1>8, <1>9, <1>10, <1>11, <1>12
     DEF Next, StoreStep, AppendStep, QuarantineStep

-----------------------------------------------------------------------------
(* What is on disk for good *)

(* The entries of a file of which so many lines survive a power loss. *)
OnDisk(lines, k) == EntriesOf(SubSeq(lines, 1, k))

(* The entries on disk, file by file, before and after a step. *)
LEMMA DurableMember ==
  /\ \A e : e \in Durable <=>
              \/ e \in OnDisk(journal, synced)
              \/ \E n \in Names : preserved[n] # None /\ e \in OnDisk(preserved[n].lines, preserved[n].synced)
  /\ \A e : e \in Durable' <=>
              \/ e \in OnDisk(journal', synced')
              \/ \E n \in Names : preserved'[n] # None /\ e \in OnDisk(preserved'[n].lines, preserved'[n].synced)
<1>1. ASSUME NEW e
      PROVE  e \in Durable <=>
               \/ e \in OnDisk(journal, synced)
               \/ \E n \in Names : preserved[n] # None /\ e \in OnDisk(preserved[n].lines, preserved[n].synced)
  <2> DEFINE D(n) == EntriesOf(SubSeq(preserved[n].lines, 1, preserved[n].synced))
             U == EntriesOf(SubSeq(journal, 1, synced))
  <2>1. Durable = U \cup UNION {D(n) : n \in {m \in Names : preserved[m] # None}}
    BY DEF Durable
  <2>2. U = OnDisk(journal, synced) /\ \A n : D(n) = OnDisk(preserved[n].lines, preserved[n].synced)
    BY DEF OnDisk
  <2> HIDE DEF D, U
  <2>3. e \in Durable <=> e \in U \/ \E n \in Names : preserved[n] # None /\ e \in D(n)
    BY <2>1
  <2> QED
    BY <2>2, <2>3
<1>2. ASSUME NEW e
      PROVE  e \in Durable' <=>
               \/ e \in OnDisk(journal', synced')
               \/ \E n \in Names : preserved'[n] # None /\ e \in OnDisk(preserved'[n].lines, preserved'[n].synced)
  <2> DEFINE D(n) == EntriesOf(SubSeq(preserved'[n].lines, 1, preserved'[n].synced))
             U == EntriesOf(SubSeq(journal', 1, synced'))
  <2>1. Durable' = U \cup UNION {D(n) : n \in {m \in Names : preserved'[m] # None}}
    BY DEF Durable
  <2>2. U = OnDisk(journal', synced') /\ \A n : D(n) = OnDisk(preserved'[n].lines, preserved'[n].synced)
    BY DEF OnDisk
  <2> HIDE DEF D, U
  <2>3. e \in Durable' <=> e \in U \/ \E n \in Names : preserved'[n] # None /\ e \in D(n)
    BY <2>1
  <2> QED
    BY <2>2, <2>3
<1> QED
  BY <1>1, <1>2

(* A file with no line has no entry. *)
LEMMA NoLineNoEntry ==
  ASSUME NEW lines \in Seq(Lines), Len(lines) = 0
  PROVE  EntriesOf(lines) = {}
<1>1. \A e : e \in EntriesOf(lines) => \E i \in 1 .. Len(lines) : lines[i] = e
  BY EntryIsLine
<1>2. \A i \in Int : i \notin 1 .. Len(lines)
  OBVIOUS
<1>3. \A e : e \notin EntriesOf(lines)
  BY <1>1, <1>2
<1> QED
  BY <1>3

(* A new journal and a new placeholder have nothing on disk. *)
LEMMA NothingOnDisk == EntriesOf(<<>>) = {} /\ OnDisk(<<>>, 0) = {}
<1>1. <<>> \in Seq(Lines) /\ Len(<<>>) = 0
  BY EmptySeq
<1>2. SubSeq(<<>>, 1, 0) \in Seq(Lines) /\ Len(SubSeq(<<>>, 1, 0)) = 0
  BY <1>1, Prefix
<1> QED
  BY <1>1, <1>2, NoLineNoEntry DEF OnDisk

(* No step takes an entry from the disk, and what a step adds is in the     *)
(* journal file already: written, but until then not synced.                *)
LEMMA DurableGrows ==
  ASSUME TypeOK, HolderInv, [Next]_vars
  PROVE  Durable \subseteq Durable' /\ Durable' \subseteq Durable \cup EntriesOf(journal)
<1> USE DEF fileVars, lockVars, storeVars, histVars
<1>t. journal \in Seq(Lines) /\ Torn \in Lines /\ synced \in 0 .. Len(journal) /\ Len(journal) \in Nat
  BY LenProperties DEF TypeOK, Lines
<1>f. ASSUME UNCHANGED preserved, OnDisk(journal, synced) \subseteq OnDisk(journal', synced'),
             OnDisk(journal', synced') \subseteq EntriesOf(journal)
      PROVE  Durable \subseteq Durable' /\ Durable' \subseteq Durable \cup EntriesOf(journal)
  BY <1>f, DurableMember
<1>b. ASSUME UNCHANGED <<journal, synced, preserved>> PROVE Durable' = Durable
  BY <1>b, DurableMember
<1>1. ASSUME NEW p \in Procs, LockStep(p) PROVE Durable' = Durable
  BY <1>1, <1>b DEF LockStep, OpenLockFile, LockFile, WriteMarker, CheckMarker
<1>2. ASSUME NEW p \in Procs, OpenStore(p) PROVE Durable' = Durable
  BY <1>2, <1>b DEF OpenStore
<1>3. ASSUME NEW p \in Procs, NEW r \in RunIDs, NEW act \in Actions, RefuseAppend(p, r, act)
      PROVE  Durable' = Durable
  BY <1>3, <1>b DEF RefuseAppend
<1>c. ASSUME NEW e \in Lines, journal' = Append(journal, e), UNCHANGED <<synced, preserved>>
      PROVE  Durable' = Durable
  <2>1. OnDisk(journal', synced') = OnDisk(journal, synced)
    BY <1>c, <1>t, PrefixOfAppend DEF OnDisk
  <2> QED
    BY <1>c, <2>1, DurableMember
<1>4. ASSUME NEW p \in Procs, NEW r \in RunIDs, NEW act \in Actions, WriteEntry(p, r, act)
      PROVE  Durable' = Durable
  <2>1. NewEntry(p, r, act) \in Lines
    BY NewEntryType DEF Lines
  <2>2. journal' = Append(journal, NewEntry(p, r, act)) /\ UNCHANGED <<synced, preserved>>
    BY <1>4 DEF WriteEntry
  <2> QED
    BY <1>c, <2>1, <2>2
<1>5. ASSUME NEW p \in Procs, NEW r \in RunIDs, NEW act \in Actions, WriteFails(p, r, act)
      PROVE  Durable' = Durable
  <2>1. journal' = journal \/ journal' = Append(journal, Torn)
    BY <1>5 DEF WriteFails
  <2> QED
    BY <1>5, <1>b, <1>c, <1>t, <2>1 DEF WriteFails
<1>6. ASSUME NEW p \in Procs, SyncEntry(p)
      PROVE  Durable \subseteq Durable' /\ Durable' \subseteq Durable \cup EntriesOf(journal)
  <2>1. journal' = journal /\ synced' = Len(journal) /\ UNCHANGED preserved
    BY <1>6 DEF SyncEntry
  <2>2. OnDisk(journal', synced') = EntriesOf(journal)
    BY <2>1, <1>t, SubSeqFull DEF OnDisk
  <2>3. OnDisk(journal, synced) \subseteq EntriesOf(journal)
    BY <1>t, EntriesOfPrefix DEF OnDisk
  <2> QED
    BY <1>f, <2>1, <2>2, <2>3
<1>7. ASSUME NEW p \in Procs, SyncFails(p) \/ CloseStore(p) \/ Crash(p) \/ RefuseQuarantine(p)
      PROVE  Durable' = Durable
  BY <1>7, <1>b DEF SyncFails, CloseStore, Crash, RefuseQuarantine
<1>8. ASSUME NEW p \in Procs, NEW n \in Names, ReserveName(p, n) PROVE Durable' = Durable
  <2>1. /\ preserved[n] = None /\ preserved'[n] = [lines |-> <<>>, synced |-> 0]
        /\ \A m \in Names \ {n} : preserved'[m] = preserved[m]
        /\ UNCHANGED <<journal, synced>>
    BY <1>8 DEF ReserveName, TypeOK
  <2>2. OnDisk(preserved'[n].lines, preserved'[n].synced) = {}
    BY <2>1, NothingOnDisk
  <2> QED
    BY <2>1, <2>2, DurableMember
<1>9. ASSUME NEW p \in Procs, MoveAside(p) PROVE Durable' = Durable
  <2> DEFINE n == name[p]
  <2>1. n \in Names /\ preserved[n] # None /\ preserved[n] = [lines |-> <<>>, synced |-> 0]
    BY <1>9 DEF MoveAside, HolderInv, Knows
  <2>2. OnDisk(preserved[n].lines, preserved[n].synced) = {}
    BY <2>1, NothingOnDisk
  <2>3. CASE /\ preserved' = [preserved EXCEPT ![n] = [lines |-> journal, synced |-> synced]]
             /\ journal' = <<>> /\ synced' = 0
    <3>1. /\ preserved'[n] = [lines |-> journal, synced |-> synced]
          /\ \A m \in Names \ {n} : preserved'[m] = preserved[m]
      BY <2>1, <2>3 DEF TypeOK
    <3>2. [lines |-> journal, synced |-> synced] # None
      BY <1>t, NoneAssumption DEF Files
    <3>3. OnDisk(preserved'[n].lines, preserved'[n].synced) = OnDisk(journal, synced)
      BY <3>1
    <3>4. OnDisk(journal', synced') = {}
      BY <2>3, NothingOnDisk
    <3> HIDE DEF n
    <3>5. preserved'[n] # None
      BY <3>1, <3>2
    <3>6. ASSUME NEW e PROVE e \in Durable <=> e \in Durable'
      <4>1. e \in Durable' <=>
               \/ e \in OnDisk(journal, synced)
               \/ \E m \in Names \ {n} : preserved[m] # None /\ e \in OnDisk(preserved[m].lines, preserved[m].synced)
        BY <2>1, <3>1, <3>3, <3>4, <3>5, DurableMember
      <4>2. e \in Durable <=>
               \/ e \in OnDisk(journal, synced)
               \/ \E m \in Names \ {n} : preserved[m] # None /\ e \in OnDisk(preserved[m].lines, preserved[m].synced)
        BY <2>1, <2>2, DurableMember
      <4> QED
        BY <4>1, <4>2
    <3> QED
      BY <3>6
  <2>4. CASE preserved' = [preserved EXCEPT ![n] = None] /\ UNCHANGED <<journal, synced>>
    <3>1. preserved'[n] = None /\ \A m \in Names \ {n} : preserved'[m] = preserved[m]
      BY <2>1, <2>4 DEF TypeOK
    <3> HIDE DEF n
    <3>2. ASSUME NEW e PROVE e \in Durable <=> e \in Durable'
      BY <2>1, <2>2, <2>4, <3>1, DurableMember
    <3> QED
      BY <3>2
  <2> QED
    BY <1>9, <2>3, <2>4 DEF MoveAside
<1>10. ASSUME PowerLoss
       PROVE  Durable \subseteq Durable' /\ Durable' \subseteq Durable \cup EntriesOf(journal)
  <2>1. PICK k \in synced .. Len(journal) :
           /\ journal' \in {SubSeq(journal, 1, k)} \cup
                 (IF k < Len(journal) THEN {Append(SubSeq(journal, 1, k), Torn)} ELSE {})
           /\ synced' = Len(journal')
    BY <1>10 DEF PowerLoss
  <2>2. k \in 0 .. Len(journal) /\ synced \in 0 .. k
    <3>1. k \in synced .. Len(journal)
      BY <2>1
    <3> QED
      BY <1>t, <3>1
  <2>3. SubSeq(journal, 1, k) \in Seq(Lines)
    BY <1>t, <2>2, Prefix
  <2>4. journal' = SubSeq(journal, 1, k) \/ journal' = Append(SubSeq(journal, 1, k), Torn)
    BY <2>1, ZenonT(20)
  <2>5. journal' \in Seq(Lines) /\ EntriesOf(journal') = EntriesOf(SubSeq(journal, 1, k))
    <3> DEFINE t == SubSeq(journal, 1, k)
    <3>1. t \in Seq(Lines) /\ (journal' = t \/ journal' = Append(t, Torn))
      BY <2>3, <2>4
    <3> HIDE DEF t
    <3>2. Append(t, Torn) \in Seq(Lines)
      BY <1>t, <3>1, AppendProperties
    <3>3. EntriesOf(Append(t, Torn)) = EntriesOf(t) \cup ({Torn} \ {Torn})
      BY <1>t, <3>1, EntriesOfAppend
    <3>4. EntriesOf(Append(t, Torn)) = EntriesOf(t)
      BY <3>3
    <3>5. journal' \in Seq(Lines) /\ EntriesOf(journal') = EntriesOf(t)
      BY <3>1, <3>2, <3>4
    <3> QED
      BY <3>5 DEF t
  <2>6. SubSeq(journal', 1, synced') = journal'
    BY <2>1, <2>5, SubSeqFull
  <2>7. OnDisk(journal', synced') = EntriesOf(SubSeq(journal, 1, k))
    BY <2>5, <2>6 DEF OnDisk
  <2>8. /\ OnDisk(journal, synced) \subseteq OnDisk(journal', synced')
        /\ OnDisk(journal', synced') \subseteq EntriesOf(journal)
    BY <1>t, <2>2, <2>7, EntriesOfPrefix DEF OnDisk
  <2>9. UNCHANGED preserved
    BY <1>10 DEF PowerLoss
  <2> QED
    BY <1>f, <2>8, <2>9
<1>11. ASSUME UNCHANGED vars PROVE Durable' = Durable
  BY <1>11, <1>b DEF vars
<1>12. ASSUME Durable' = Durable
       PROVE  Durable \subseteq Durable' /\ Durable' \subseteq Durable \cup EntriesOf(journal)
  BY <1>12
<1> QED
  BY <1>1, <1>2, <1>3, <1>4, <1>5, <1>6, <1>7, <1>8, <1>9, <1>10, <1>11, <1>12
     DEF Next, StoreStep, AppendStep, QuarantineStep

(* Append answers after the sync; only a run whose approval it answered for *)
(* is completed; and neither power loss nor quarantine takes entries back.  *)
LEMMA TrailStep == TypeOK /\ HolderInv /\ TrailInv /\ [Next]_vars => TrailInv'
<1> SUFFICES ASSUME TypeOK, HolderInv, TrailInv, [Next]_vars PROVE TrailInv'
  OBVIOUS
<1> USE DEF fileVars, lockVars, storeVars, histVars
<1>t. /\ journal \in Seq(Lines) /\ Torn \in Lines /\ synced \in 0 .. Len(journal) /\ Len(journal) \in Nat
      /\ running \in [Procs -> SUBSET RunIDs]
  BY LenProperties DEF TypeOK, Lines
<1>m. Durable \subseteq Durable' /\ \A r : ApprovedForGood(r) => ApprovedForGood(r)'
  BY DurableGrows DEF ApprovedForGood
<1>a. ASSUME acked' = acked, \A p \in Procs : running'[p] \subseteq running[p],
             EntriesOf(journal') \subseteq EntriesOf(journal)
      PROVE  TrailInv'
  <2>1. (\A p \in Procs : \A r \in running[p] : ApprovedForGood(r))'
    BY <1>a, <1>m DEF TrailInv
  <2>2. \A e \in EntriesOf(journal') : e.act = "completed" => ApprovedForGood(e.run)'
    BY <1>a, <1>m DEF TrailInv
  <2>3. (\A e \in EntriesOf(journal) : e.act = "completed" => ApprovedForGood(e.run))'
    BY <2>2 DEF EntriesOf
  <2> QED
    BY <1>a, <1>m, <2>1, <2>3 DEF TrailInv
<1>1. ASSUME NEW p \in Procs, LockStep(p) PROVE TrailInv'
  BY <1>1, <1>a DEF LockStep, OpenLockFile, LockFile, WriteMarker, CheckMarker
<1>2. ASSUME NEW p \in Procs, OpenStore(p) PROVE TrailInv'
  BY <1>2, <1>a DEF OpenStore
<1>3. ASSUME NEW p \in Procs, NEW r \in RunIDs, NEW act \in Actions, RefuseAppend(p, r, act) PROVE TrailInv'
  <2>1. \A q \in Procs : running'[q] \subseteq running[q]
    BY <1>3, <1>t DEF RefuseAppend, Called
  <2> QED
    BY <1>3, <1>a, <2>1 DEF RefuseAppend
<1>4. ASSUME NEW p \in Procs, NEW r \in RunIDs, NEW act \in Actions, WriteEntry(p, r, act) PROVE TrailInv'
  <2> DEFINE e == NewEntry(p, r, act)
  <2>1. e \in Entries /\ e.run = r /\ e.act = act
    BY NewEntryType
  <2>2. journal' = Append(journal, e) /\ acked' = acked
    BY <1>4 DEF WriteEntry
  <2>3. act = "completed" => r \in running[p]
    BY <1>4 DEF WriteEntry, Call
  <2>4. \A q \in Procs : running'[q] \subseteq running[q]
    BY <1>4, <1>t DEF WriteEntry, Called
  <2> HIDE DEF e
  <2>5. EntriesOf(journal') \subseteq EntriesOf(journal) \cup {e}
    BY <1>t, <2>1, <2>2, EntriesOfAppend DEF Lines
  <2>6. \A d \in EntriesOf(journal') : d.act = "completed" => ApprovedForGood(d.run)'
    BY <1>m, <2>1, <2>3, <2>5 DEF TrailInv
  <2>7. (\A d \in EntriesOf(journal) : d.act = "completed" => ApprovedForGood(d.run))'
    BY <2>6 DEF EntriesOf
  <2>8. (\A q \in Procs : \A x \in running[q] : ApprovedForGood(x))'
    BY <1>m, <2>4 DEF TrailInv
  <2> QED
    BY <1>m, <2>2, <2>7, <2>8 DEF TrailInv
<1>5. ASSUME NEW p \in Procs, NEW r \in RunIDs, NEW act \in Actions, WriteFails(p, r, act) PROVE TrailInv'
  <2>1. \A q \in Procs : running'[q] \subseteq running[q]
    BY <1>5, <1>t DEF WriteFails, Called
  <2>2. journal' = journal \/ journal' = Append(journal, Torn)
    BY <1>5 DEF WriteFails
  <2>3. EntriesOf(Append(journal, Torn)) = EntriesOf(journal) \cup ({Torn} \ {Torn})
    BY <1>t, EntriesOfAppend
  <2>4. EntriesOf(journal') \subseteq EntriesOf(journal)
    BY <2>2, <2>3
  <2> QED
    BY <1>5, <1>a, <2>1, <2>4 DEF WriteFails
<1>6. ASSUME NEW p \in Procs, SyncEntry(p) PROVE TrailInv'
  <2>0. PICK e : e = pending[p]
    OBVIOUS
  <2>1. e \in Entries /\ journal = Append(entries[p], e)
    BY <1>6, <2>0 DEF SyncEntry, HolderInv, Knows
  <2>2. entries[p] \in Seq(Entries)
    BY DEF TypeOK
  <2>3. /\ journal' = journal /\ synced' = Len(journal) /\ acked' = acked \cup {e}
        /\ \A q \in Procs : running'[q] \subseteq running[q] \cup
              (IF q = p /\ e.act = "approved" THEN {e.run} ELSE {})
    BY <1>6, <1>t, <2>0 DEF SyncEntry
  <2>4. e \in EntriesOf(journal)
    <3>1. journal[Len(entries[p]) + 1] = e /\ Len(journal) = Len(entries[p]) + 1
      BY <2>1, <2>2, AppendProperties
    <3>2. Len(journal) \in 1 .. Len(journal)
      BY <2>2, <3>1, LenProperties
    <3> QED
      BY <1>t, <2>1, <3>1, <3>2, EntryIsLine, TornIsNoEntry
  <2>5. e \in Durable'
    <3>1. SubSeq(journal', 1, synced') = journal
      BY <1>t, <2>3, SubSeqFull
    <3> QED
      BY <2>4, <3>1, DurableMember DEF OnDisk
  <2>6. e.act = "approved" => ApprovedForGood(e.run)'
    BY <2>5 DEF ApprovedForGood
  <2>7. (\A q \in Procs : \A x \in running[q] : ApprovedForGood(x))'
    BY <1>m, <2>3, <2>6 DEF TrailInv
  <2>8. (\A d \in EntriesOf(journal) : d.act = "completed" => ApprovedForGood(d.run))'
    <3>1. \A d \in EntriesOf(journal') : d.act = "completed" => ApprovedForGood(d.run)'
      BY <1>m, <2>3 DEF TrailInv
    <3> QED
      BY <3>1 DEF EntriesOf
  <2> QED
    BY <1>m, <2>3, <2>5, <2>7, <2>8 DEF TrailInv
<1>7. ASSUME NEW p \in Procs, SyncFails(p) PROVE TrailInv'
  BY <1>7, <1>a DEF SyncFails
<1>8. ASSUME NEW p \in Procs, CloseStore(p) \/ Crash(p) PROVE TrailInv'
  <2>1. \A q \in Procs : running'[q] \subseteq running[q]
    BY <1>8, <1>t DEF CloseStore, Crash, Gone
  <2> QED
    BY <1>8, <1>a, <2>1 DEF CloseStore, Crash
<1>9. ASSUME NEW p \in Procs, RefuseQuarantine(p) PROVE TrailInv'
  BY <1>9, <1>a DEF RefuseQuarantine
<1>10. ASSUME NEW p \in Procs, NEW n \in Names, ReserveName(p, n) PROVE TrailInv'
  BY <1>10, <1>a DEF ReserveName
<1>11. ASSUME NEW p \in Procs, MoveAside(p) PROVE TrailInv'
  <2>1. (journal' = <<>> \/ journal' = journal) /\ UNCHANGED <<running, acked>>
    BY <1>11 DEF MoveAside
  <2>2. EntriesOf(journal') \subseteq EntriesOf(journal)
    BY <2>1, NothingOnDisk
  <2> QED
    BY <1>a, <2>1, <2>2
<1>12. CASE PowerLoss
  <2>1. PICK k \in synced .. Len(journal) :
           /\ journal' \in {SubSeq(journal, 1, k)} \cup
                 (IF k < Len(journal) THEN {Append(SubSeq(journal, 1, k), Torn)} ELSE {})
           /\ synced' = Len(journal')
    BY <1>12 DEF PowerLoss
  <2> DEFINE t == SubSeq(journal, 1, k)
  <2>2. k \in synced .. Len(journal)
    BY <2>1
  <2>3. k \in 0 .. Len(journal)
    BY <1>t, <2>2
  <2>4. t \in Seq(Lines) /\ EntriesOf(t) \subseteq EntriesOf(journal)
    BY <1>t, <2>3, Prefix, EntriesOfPrefix
  <2>5. journal' = t \/ journal' = Append(t, Torn)
    BY <2>1, ZenonT(20)
  <2> HIDE DEF t
  <2>6. EntriesOf(Append(t, Torn)) = EntriesOf(t) \cup ({Torn} \ {Torn})
    BY <1>t, <2>4, EntriesOfAppend
  <2>7. EntriesOf(journal') \subseteq EntriesOf(journal)
    BY <2>4, <2>5, <2>6
  <2>8. acked' = acked /\ \A q \in Procs : running'[q] = {}
    BY <1>12 DEF PowerLoss
  <2> QED
    BY <1>a, <2>7, <2>8
<1>13. CASE UNCHANGED vars
  BY <1>13, <1>a DEF vars
<1> QED
  BY <1>1, <1>2, <1>3, <1>4, <1>5, <1>6, <1>7, <1>8, <1>9, <1>10, <1>11, <1>12, <1>13
     DEF Next, StoreStep, AppendStep, QuarantineStep

-----------------------------------------------------------------------------
(* The theorems *)

JournalInv == TypeOK /\ SingleHolder /\ HolderInv /\ DamageInv /\ TrailInv

(* A new journal: no file, no process, nothing on disk. *)
LEMMA Initially == Init => JournalInv /\ Durable = {}
<1> SUFFICES ASSUME Init PROVE JournalInv /\ Durable = {}
  OBVIOUS
<1>1. TypeOK
  <2>1. <<>> \in Seq(Lines) /\ <<>> \in Seq(Entries) /\ Len(<<>>) = 0
    BY EmptySeq
  <2>2. journal = <<>> /\ synced = 0
    BY DEF Init
  <2>3. journal \in Seq(Lines) /\ synced \in 0 .. Len(journal)
    BY <2>1, <2>2
  <2> QED
    BY <2>1, <2>3 DEF Init, TypeOK
<1>2. SingleHolder /\ HolderInv
  BY DEF Init, SingleHolder, HolderInv, Knows
<1>3. DamageInv
  BY VerifiedEmpty DEF Init, DamageInv
<1>4. Durable = {}
  <2>1. ASSUME NEW e PROVE e \notin Durable
    <3>1. journal = <<>> /\ synced = 0 /\ \A n \in Names : preserved[n] = None
      BY DEF Init
    <3>2. OnDisk(journal, synced) = {}
      BY <3>1, NothingOnDisk
    <3> QED
      BY <3>1, <3>2, DurableMember
  <2> QED
    BY <2>1
<1>5. TrailInv
  BY NothingOnDisk DEF Init, TrailInv
<1> QED
  BY <1>1, <1>2, <1>3, <1>4, <1>5 DEF JournalInv

(* The invariant, and with it the types, the exclusion and the knowledge of *)
(* whoever has the lock, in every reachable state.                          *)
THEOREM JournalInvariant == Spec => []JournalInv
<1>1. Init => JournalInv
  BY Initially
<1>2. JournalInv /\ [Next]_vars => JournalInv'
  BY TypesStep, SingleHolderStep, HolderStep, DamageStep, TrailStep DEF JournalInv
<1> QED
  BY <1>1, <1>2, PTL DEF Spec

(* However instances, `audit quarantine', crashes, cut writes and power     *)
(* losses interleave, the journal stays fit for use: one process at a time  *)
(* past the lock of acquireAuditLock, a store that appends knows its file,  *)
(* damage at the tail only, and none without an I/O error.                  *)
THEOREM JournalStaysUsable == Spec => []FileUsable
<1>1. JournalInv => FileUsable
  <2> SUFFICES ASSUME JournalInv PROVE FileUsable
    OBVIOUS
  <2>1. TypeOK /\ SingleHolder
    BY DEF JournalInv
  <2>2. StoreMatchesFile
    BY DEF JournalInv, HolderInv, Knows, StoreMatchesFile
  <2>3. RestartAccepts
    BY DEF JournalInv, DamageInv, RestartAccepts
  <2>4. DamageOnlyAtTail
    <3> SUFFICES ASSUME journal # <<>>, Verified(journal)
                 PROVE  Verified(SubSeq(journal, 1, Len(journal) - 1))
      BY DEF JournalInv, DamageInv, DamageOnlyAtTail
    <3>1. journal \in Seq(Lines)
      BY <2>1 DEF TypeOK
    <3>2. Len(journal) \in Nat /\ Len(journal) # 0
      BY <3>1, LenProperties, EmptySeq
    <3>3. Len(journal) - 1 \in 0 .. Len(journal)
      BY <3>2
    <3> QED
      BY <3>1, <3>3, VerifiedPrefix
  <2> QED
    BY <2>1, <2>2, <2>3, <2>4 DEF FileUsable
<1> QED
  BY <1>1, JournalInvariant, PTL

(* An entry Append answered nil for is on disk for good, in the journal or  *)
(* in quarantine, because the answer waits for the sync.                    *)
THEOREM AnswersAreDurable == Spec => []AckedIsDurable
<1>1. JournalInv => AckedIsDurable
  BY DEF JournalInv, TrailInv, AckedIsDurable
<1> QED
  BY <1>1, JournalInvariant, PTL

(* Quarantine only moves a journal that does not verify and that nobody has *)
(* open, whole, and under a name that preserves no other evidence.          *)
THEOREM QuarantineKeepsEvidenceThm == Spec => QuarantineKeepsEvidence
<1> DEFINE Kept == \A n \in Names : preserved[n] # None /\ preserved[n].lines # <<>>
                       => preserved'[n] = preserved[n]
           Moved == synced > 0 /\ synced' = 0
                       => /\ ~Verified(journal)
                          /\ \A p \in Procs : pc[p] \notin {"open", "written"}
                          /\ \E n \in Names : preserved'[n] # None /\ preserved'[n].lines = journal
<1>1. ASSUME JournalInv, [Next]_vars PROVE Kept /\ Moved
  <2> USE DEF fileVars, lockVars, storeVars, histVars
  <2>t. /\ TypeOK /\ HolderInv /\ SingleHolder
        /\ journal \in Seq(Lines) /\ synced \in 0 .. Len(journal) /\ Len(journal) \in Nat
    BY <1>1, LenProperties DEF JournalInv, TypeOK
  <2>a. ASSUME UNCHANGED <<synced, preserved>> PROVE Kept /\ Moved
    BY <2>a, <2>t
  <2>1. ASSUME NEW p \in Procs, LockStep(p) PROVE Kept /\ Moved
    BY <2>1, <2>a DEF LockStep, OpenLockFile, LockFile, WriteMarker, CheckMarker
  <2>2. ASSUME NEW p \in Procs, OpenStore(p) \/ SyncFails(p) \/ CloseStore(p) \/ Crash(p) PROVE Kept /\ Moved
    BY <2>2, <2>a DEF OpenStore, SyncFails, CloseStore, Crash
  <2>3. ASSUME NEW p \in Procs, NEW r \in RunIDs, NEW act \in Actions, AppendStep(p, r, act) PROVE Kept /\ Moved
    BY <2>3, <2>a DEF AppendStep, RefuseAppend, WriteEntry, WriteFails
  <2>4. ASSUME NEW p \in Procs, SyncEntry(p) PROVE Kept /\ Moved
    <3>1. preserved' = preserved /\ synced' = Len(journal)
      BY <2>4 DEF SyncEntry
    <3>2. Kept
      BY <3>1
    <3>3. Moved
      BY <2>t, <3>1
    <3> QED
      BY <3>2, <3>3
  <2>5. ASSUME NEW p \in Procs, RefuseQuarantine(p) PROVE Kept /\ Moved
    BY <2>5, <2>a DEF RefuseQuarantine
  <2>6. ASSUME NEW p \in Procs, NEW n \in Names, ReserveName(p, n) PROVE Kept /\ Moved
    <3>1. /\ preserved[n] = None /\ synced' = synced
          /\ \A m \in Names \ {n} : preserved'[m] = preserved[m]
      BY <2>6, <2>t DEF ReserveName, TypeOK
    <3> QED
      BY <2>t, <3>1
  <2>7. ASSUME NEW p \in Procs, MoveAside(p) PROVE Kept /\ Moved
    <3>1. /\ pc[p] = "reserved" /\ name[p] \in Names /\ ~Verified(journal)
          /\ preserved[name[p]] = [lines |-> <<>>, synced |-> 0]
      BY <2>7, <2>t DEF MoveAside, HolderInv, Knows
    <3>2. \A m \in Names \ {name[p]} : preserved'[m] = preserved[m]
      BY <2>7, <2>t DEF MoveAside, TypeOK
    <3>3. Kept
      BY <3>1, <3>2
    <3>4. \A q \in Procs : pc[q] \notin {"open", "written"}
      BY <2>t, <3>1 DEF SingleHolder
    <3>5. CASE preserved' = [preserved EXCEPT ![name[p]] = [lines |-> journal, synced |-> synced]]
      <4>1. preserved'[name[p]] = [lines |-> journal, synced |-> synced]
        BY <2>t, <3>1, <3>5 DEF TypeOK
      <4>2. [lines |-> journal, synced |-> synced] # None
        BY <2>t, NoneAssumption DEF Files
      <4>3. \E n \in Names : preserved'[n] # None /\ preserved'[n].lines = journal
        BY <3>1, <4>1, <4>2
      <4> QED
        BY <3>1, <3>3, <3>4, <4>3
    <3>6. CASE UNCHANGED <<journal, synced>>
      BY <2>t, <3>3, <3>6
    <3> QED
      BY <2>7, <3>5, <3>6 DEF MoveAside
  <2>8. CASE PowerLoss
    <3>1. PICK k \in synced .. Len(journal) :
             /\ journal' \in {SubSeq(journal, 1, k)} \cup
                   (IF k < Len(journal) THEN {Append(SubSeq(journal, 1, k), Torn)} ELSE {})
             /\ synced' = Len(journal')
      BY <2>8 DEF PowerLoss
    <3>2. k \in synced .. Len(journal)
      BY <3>1
    <3>3. k \in 0 .. Len(journal) /\ k >= synced
      BY <2>t, <3>2
    <3> DEFINE t == SubSeq(journal, 1, k)
    <3>4. t \in Seq(Lines) /\ Len(t) = k
      BY <2>t, <3>3, Prefix
    <3>5. journal' = t \/ journal' = Append(t, Torn)
      BY <3>1, ZenonT(20)
    <3> HIDE DEF t
    <3>6. Len(Append(t, Torn)) = k + 1
      BY <3>4, AppendProperties DEF Lines
    <3>7. synced' >= synced
      BY <2>t, <3>1, <3>3, <3>4, <3>5, <3>6
    <3>8. preserved' = preserved
      BY <2>8 DEF PowerLoss
    <3>9. Moved
      BY <2>t, <3>7
    <3> QED
      BY <3>8, <3>9
  <2>9. CASE UNCHANGED vars
    BY <2>9, <2>a DEF vars
  <2> QED
    BY <1>1, <2>1, <2>2, <2>3, <2>4, <2>5, <2>6, <2>7, <2>8, <2>9 DEF Next, StoreStep, QuarantineStep
<1>2. JournalInv /\ [Next]_vars => [Kept /\ Moved]_vars
  BY <1>1
<1> HIDE DEF Kept, Moved
<1>3. Spec => [][Kept /\ Moved]_vars
  BY <1>2, JournalInvariant, PTL DEF Spec
<1> QED
  BY <1>3, PTL DEF Kept, Moved, QuarantineKeepsEvidence

(* Every step of the journal's code is a step of AuditSink or none of its   *)
(* business: an approval first, one completion after it, nothing back.      *)
THEOREM JournalImplementsSinkThm == Spec => JournalImplementsSink
<1>1. Init => Sink!Init
  <2> SUFFICES ASSUME Init PROVE Sink!Init
    OBVIOUS
  <2>1. Durable = {}
    BY Initially
  <2> QED
    BY <2>1 DEF Sink!Init, DurableTrail
<1>2. ASSUME JournalInv, [Next]_vars PROVE [Sink!Next]_DurableTrail
  <2>1. Durable \subseteq Durable' /\ Durable' \subseteq Durable \cup EntriesOf(journal)
    BY <1>2, DurableGrows DEF JournalInv
  <2>2. \A e \in EntriesOf(journal) : e.act = "completed" => ApprovedForGood(e.run)
    BY <1>2 DEF JournalInv, TrailInv
  <2>3. DurableTrail' \in [RunIDs -> Sink!TrailStates]
    BY DEF DurableTrail, Sink!TrailStates
  <2>4. ASSUME NEW r \in RunIDs
        PROVE  \/ DurableTrail'[r] = DurableTrail[r]
               \/ DurableTrail[r] = "none" /\ DurableTrail'[r] = "approved"
               \/ DurableTrail[r] = "approved" /\ DurableTrail'[r] = "completed"
    <3> DEFINE Has(D, act) == \E e \in D : e.run = r /\ e.act = act
               Status(D) == IF Has(D, "completed") THEN "completed"
                            ELSE IF Has(D, "approved") THEN "approved" ELSE "none"
    <3>0. DurableTrail[r] = Status(Durable)
      BY DEF DurableTrail
    <3>1. DurableTrail'[r] = Status(Durable')
      BY DEF DurableTrail
    <3>2. \A act : Has(Durable, act) => Has(Durable', act)
      BY <2>1
    <3>3. Has(Durable', "completed") => Has(Durable, "completed") \/ Has(Durable, "approved")
      BY <2>1, <2>2 DEF ApprovedForGood
    <3> HIDE DEF Has
    <3>4. CASE Has(Durable, "completed")
      BY <3>0, <3>1, <3>2, <3>4
    <3>5. CASE ~Has(Durable, "completed") /\ Has(Durable, "approved")
      BY <3>0, <3>1, <3>2, <3>5
    <3>6. CASE ~Has(Durable, "completed") /\ ~Has(Durable, "approved")
      BY <3>0, <3>1, <3>3, <3>6
    <3> QED
      BY <3>4, <3>5, <3>6
  <2> QED
    BY <2>3, <2>4 DEF Sink!Next, Sink!CanApprove, Sink!CanComplete
<1> QED
  BY <1>1, <1>2, JournalInvariant, PTL DEF Spec, JournalImplementsSink, Sink!Spec
=============================================================================
