-------------------------- MODULE Preauth_proofs ---------------------------
(***************************************************************************)
(* Theorems about Preauth, for all constants that satisfy                  *)
(* PreauthAssumption: its types, that a completion takes its own record,   *)
(* that what is open stays completable and that what is completed is       *)
(* closed.                                                                 *)
(***************************************************************************)
EXTENDS Preauth, FiniteSetTheorems, NaturalsInduction, WellFoundedInduction, TLAPS

-----------------------------------------------------------------------------
(* The inductive invariant. *)

\* a file has no more records than there were approvals, and only of those
TableUpTo(t, n) == t \in Seq(Entries) /\ Len(t) <= n /\ \A i \in DOMAIN t : t[i].roc <= n
FileUpTo(b, n) == b \in Seq(Rocs) /\ Len(b) <= n /\ \A i \in DOMAIN b : b[i] <= n

\* what is stored, completed or expired has been approved
Approved ==
    /\ TableUpTo(table, approved) /\ TableUpTo(tableFile, approved)
    /\ FileUpTo(batch, approved) /\ FileUpTo(temp, approved)
    /\ \A r \in Rocs : completions[r] > 0 => r <= approved
    /\ expired \subseteq 1 .. approved

\* the transaction under way: the last one approved, or a completion with the
\* position of its own record in the batch
Current ==
    /\ pc = "store" =>
            /\ txn.roc = approved /\ approved \in Rocs
            /\ txn.roc \notin expired /\ completions[txn.roc] = 0
            /\ TableUpTo(table, approved - 1) /\ TableUpTo(tableFile, approved - 1)
    /\ pc \in {"commit", "update"} => txn.index \in DOMAIN batch /\ batch[txn.index] = txn.roc
    /\ pc = "commit" => completions[txn.roc] < MaxCompletions
    /\ pc = "select" => index <= Len(table) /\ Len(temp) <= index

Always == TypeOK /\ Approved /\ Current

Ascending(s) == \A i, j \in DOMAIN s : i < j => s[i] < s[j]
AscendingRocs(t) == \A i, j \in DOMAIN t : i < j => t[i].roc < t[j].roc

\* the records of a file stand in the order of their approval
Ordered ==
    /\ AscendingRocs(table) /\ AscendingRocs(tableFile) /\ Ascending(batch)
    /\ pc \in {"select", "drop table", "write", "move"} => Ascending(temp)
    /\ pc = "select" => \A k \in DOMAIN temp : \A i \in DOMAIN table :
                            i > index => temp[k] < table[i].roc

\* an entry that was completed is out, but for the one about to be marked
ClosedIn(t) ==
    \A i \in DOMAIN t : completions[t[i].roc] > 0 =>
        t[i].out \/ (pc = "update" /\ t[i].roc = txn.roc)

Closed ==
    /\ \A r \in Rocs : completions[r] <= 1
    /\ ClosedIn(table) /\ ClosedIn(tableFile)
    /\ pc = "commit" => completions[txn.roc] = 0
    /\ pc = "update" => completions[txn.roc] = 1
    /\ pc \in {"select", "drop table", "write", "move"} =>
            \A k \in DOMAIN temp : completions[temp[k]] = 0

\* the entries a purge writes for the records of the temporary file
KeptEntries == [i \in DOMAIN temp |-> [roc |-> temp[i], out |-> FALSE]]

\* outside a purge the batch has the record of each entry at the same position
InStep ==
    /\ pc \notin {"write", "move"} => tableFile \in {table, <<>>}
    /\ pc = "drop table" => batch = <<>>
    /\ pc \in {"idle", "commit", "update"} => batch = RocsOf(table)
    /\ pc = "store" => batch = Append(RocsOf(table), txn.roc)
    /\ pc = "move" => \/ tableFile = KeptEntries
                      \/ tableFile = <<>> /\ \A k \in DOMAIN temp : temp[k] \in expired

Open == {r \in accepted \ expired : completions[r] = 0}
Entered(r, t) == \E i \in DOMAIN t : t[i] = [roc |-> r, out |-> FALSE]

\* what is open is in the files until the purge drops them, and from then on in
\* the temporary one
Held ==
    /\ pc \notin {"write", "move"} => \A r \in Open : Entered(r, tableFile)
    /\ pc \notin {"drop table", "write", "move"} => \A r \in Open : Positions(r, batch) # {}
    /\ pc = "select" =>
            \A r \in Open : \/ Positions(r, temp) # {}
                            \/ \E i \in DOMAIN table :
                                  i > index /\ table[i] = [roc |-> r, out |-> FALSE]
    /\ pc \in {"drop table", "write", "move"} => \A r \in Open : Positions(r, temp) # {}

Unharmed == Ordered /\ Closed /\ InStep /\ Held

PInv == Always /\ (harm = {} => Unharmed)

-----------------------------------------------------------------------------
(* What the operators of the files return. *)

(* The first position of a record, or of the entry of a roc, is one of them. *)
LEMMA FirstIsLeast ==
    ASSUME NEW S, NEW s \in Seq(S), NEW r, Positions(r, s) # {}
    PROVE  First(r, s) \in DOMAIN s /\ s[First(r, s)] = r
<1> DEFINE R == {p \in Nat \X Nat : p[1] < p[2]}
           P == Positions(r, s)
<1>1. IsWellFoundedOn(R, Nat)
    <2>1. OpToRel(<, Nat) = R
        BY DEF OpToRel
    <2> QED BY <2>1, NatLessThanWellFounded
<1>2. P \subseteq Nat /\ P \subseteq DOMAIN s /\ P # {}
    BY DEF Positions
<1>3. \E i \in P : \A j \in P : i <= j
    <2> HIDE DEF P
    <2>1. PICK i \in P : \A j \in P : ~ (<<j, i>> \in R)
        BY <1>1, <1>2, WFMin
    <2>2. \A j \in P : ~ (j < i)
        BY <1>2, <2>1
    <2> QED BY <1>2, <2>2
<1>4. First(r, s) \in P
    BY <1>3 DEF First
<1> QED BY <1>4 DEF Positions

(* A sequence made entry by entry from another is as long as that. *)
LEMMA Mapped ==
    ASSUME NEW S, NEW n \in Nat, NEW f \in [1 .. n -> S]
    PROVE  f \in Seq(S) /\ Len(f) = n
OBVIOUS

(* The rocs of a table, in its order. *)
LEMMA RocsOfTable ==
    ASSUME NEW t \in Seq(Entries)
    PROVE  /\ RocsOf(t) \in Seq(Rocs) /\ Len(RocsOf(t)) = Len(t)
           /\ DOMAIN RocsOf(t) = DOMAIN t
           /\ \A i \in DOMAIN t : RocsOf(t)[i] = t[i].roc
<1>1. Len(t) \in Nat /\ DOMAIN t = 1 .. Len(t)
    OBVIOUS
<1>2. \A i \in DOMAIN t : t[i].roc \in Rocs
    <2>1. \A i \in DOMAIN t : t[i] \in Entries
        OBVIOUS
    <2> QED BY <2>1 DEF Entries
<1>3. RocsOf(t) \in [1 .. Len(t) -> Rocs]
    BY <1>1, <1>2 DEF RocsOf
<1> QED BY <1>1, <1>3, Mapped DEF RocsOf

(* What is appended comes behind, and nothing else changes. *)
LEMMA Appended ==
    ASSUME NEW S, NEW s \in Seq(S), NEW e \in S
    PROVE  /\ Append(s, e) \in Seq(S) /\ Len(Append(s, e)) = Len(s) + 1
           /\ DOMAIN Append(s, e) = 1 .. Len(s) + 1
           /\ Append(s, e)[Len(s) + 1] = e
           /\ \A i \in DOMAIN s : i # Len(s) + 1 /\ i \in DOMAIN Append(s, e) /\ Append(s, e)[i] = s[i]
           /\ \A i \in DOMAIN Append(s, e) : i \in DOMAIN s \/ i = Len(s) + 1
OBVIOUS

(* The table a command works on is the one in RAM or the one in the file. *)
LEMMA LoadedTable ==
    ASSUME TypeOK
    PROVE  /\ Loaded \in {table, tableFile} /\ Loaded \in Seq(Entries)
           /\ tableFile \in {table, <<>>} => Loaded = table
           /\ tableFile # <<>> => Loaded = tableFile
BY DEF Loaded, TypeOK

(* A table saved is in RAM and in the file, or nothing of it was pending and *)
(* the files are gone.                                                       *)
LEMMA SavedTable ==
    ASSUME NEW t, Saved(t)
    PROVE  \/ /\ PendingIn(t) # {}
              /\ table' = t /\ tableFile' = t /\ batch' = batch
           \/ /\ PendingIn(t) = {}
              /\ table' \in {t, <<>>} /\ tableFile' = <<>> /\ batch' = <<>>
BY DEF Saved

(* Destroying the files may leave the table in RAM. *)
LEMMA DestroyedFiles ==
    ASSUME Destroyed
    PROVE  batch' = <<>> /\ tableFile' = <<>> /\ table' \in {table, <<>>}
BY DEF Destroyed

\* the table with the entry of a completion marked
MarkedEntries ==
    [i \in DOMAIN table |-> IF i = txn.index THEN [roc |-> txn.roc, out |-> TRUE] ELSE table[i]]

LEMMA MarkedTable ==
    ASSUME table \in Seq(Entries), txn.roc \in Rocs
    PROVE  /\ MarkedEntries \in Seq(Entries) /\ Len(MarkedEntries) = Len(table)
           /\ DOMAIN MarkedEntries = DOMAIN table
           /\ \A i \in DOMAIN table :
                 MarkedEntries[i] = IF i = txn.index THEN [roc |-> txn.roc, out |-> TRUE] ELSE table[i]
<1>1. Len(table) \in Nat /\ DOMAIN table = 1 .. Len(table)
    OBVIOUS
<1>2. \A i \in DOMAIN table : table[i] \in Entries
    OBVIOUS
<1>3. [roc |-> txn.roc, out |-> TRUE] \in Entries
    BY DEF Entries
<1>4. MarkedEntries \in [1 .. Len(table) -> Entries]
    BY <1>1, <1>2, <1>3 DEF MarkedEntries
<1> QED BY <1>1, <1>4, Mapped DEF MarkedEntries

LEMMA KeptTable ==
    ASSUME TypeOK
    PROVE  /\ KeptEntries \in Seq(Entries) /\ Len(KeptEntries) = Len(temp)
           /\ DOMAIN KeptEntries = DOMAIN temp
           /\ \A i \in DOMAIN temp : KeptEntries[i] = [roc |-> temp[i], out |-> FALSE]
<1>1. temp \in Seq(Rocs)
    BY DEF TypeOK
<1>2. Len(temp) \in Nat /\ DOMAIN temp = 1 .. Len(temp) /\ \A i \in DOMAIN temp : temp[i] \in Rocs
    BY <1>1
<1>3. KeptEntries \in [1 .. Len(temp) -> Entries]
    BY <1>2 DEF KeptEntries, Entries
<1> QED BY <1>2, <1>3, Mapped DEF KeptEntries

-----------------------------------------------------------------------------
(* In every state, harmed or not. *)

(* A file stays within the approvals as their number grows. *)
LEMMA UpToGrows ==
    ASSUME NEW m \in Int, NEW n \in Int, m <= n
    PROVE  /\ \A t : TableUpTo(t, m) => TableUpTo(t, n)
           /\ \A b : FileUpTo(b, m) => FileUpTo(b, n)
<1>1. ASSUME NEW t, TableUpTo(t, m) PROVE TableUpTo(t, n)
    <2>1. t \in Seq(Entries) /\ Len(t) <= m /\ \A i \in DOMAIN t : t[i].roc <= m
        BY <1>1 DEF TableUpTo
    <2>2. Len(t) \in Int /\ \A i \in DOMAIN t : t[i] \in Entries
        BY <2>1
    <2>3. \A i \in DOMAIN t : t[i].roc \in Int
        BY <2>2, PreauthAssumption DEF Entries, Rocs
    <2> QED BY <2>1, <2>2, <2>3 DEF TableUpTo
<1>2. ASSUME NEW b, FileUpTo(b, m) PROVE FileUpTo(b, n)
    <2>1. b \in Seq(Rocs) /\ Len(b) <= m /\ \A i \in DOMAIN b : b[i] <= m
        BY <1>2 DEF FileUpTo
    <2>2. Len(b) \in Int /\ \A i \in DOMAIN b : b[i] \in Int
        BY <2>1, PreauthAssumption DEF Rocs
    <2> QED BY <2>1, <2>2 DEF FileUpTo
<1> QED BY <1>1, <1>2

(* An empty file is within any number. *)
LEMMA UpToEmpty ==
    ASSUME NEW n \in Nat
    PROVE  TableUpTo(<<>>, n) /\ FileUpTo(<<>>, n)
<1>1. <<>> \in Seq(Entries) /\ <<>> \in Seq(Rocs) /\ Len(<<>>) = 0 /\ DOMAIN <<>> = {}
    OBVIOUS
<1> QED BY <1>1 DEF TableUpTo, FileUpTo

(* A record appended, or an entry, is one more. *)
LEMMA UpToAppended ==
    ASSUME NEW n \in Nat, NEW m \in Nat, m < n, NEW r \in Rocs, r <= n
    PROVE  /\ \A t : TableUpTo(t, m) => TableUpTo(Append(t, [roc |-> r, out |-> FALSE]), n)
           /\ \A b : FileUpTo(b, m) => FileUpTo(Append(b, r), n)
<1>1. ASSUME NEW t, TableUpTo(t, m) PROVE TableUpTo(Append(t, [roc |-> r, out |-> FALSE]), n)
    <2>1. t \in Seq(Entries) /\ Len(t) <= m
        BY <1>1 DEF TableUpTo
    <2>2. \A i \in DOMAIN t : t[i].roc <= n
        <3>1. TableUpTo(t, n)
            BY <1>1, UpToGrows
        <3> QED BY <3>1 DEF TableUpTo
    <2>3. [roc |-> r, out |-> FALSE] \in Entries
        BY DEF Entries
    <2> DEFINE u == Append(t, [roc |-> r, out |-> FALSE])
    <2>4. /\ u \in Seq(Entries) /\ Len(u) = Len(t) + 1 /\ u[Len(t) + 1] = [roc |-> r, out |-> FALSE]
          /\ \A i \in DOMAIN t : u[i] = t[i]
          /\ \A i \in DOMAIN u : i \in DOMAIN t \/ i = Len(t) + 1
        BY <2>1, <2>3, Appended
    <2>5. Len(t) \in Nat
        BY <2>1
    <2> HIDE DEF u
    <2>6. \A i \in DOMAIN u : u[i].roc <= n
        BY <2>2, <2>4
    <2>7. Len(u) <= n
        BY <2>1, <2>4, <2>5
    <2>8. TableUpTo(u, n)
        BY <2>4, <2>6, <2>7 DEF TableUpTo
    <2> QED BY <2>8 DEF u
<1>2. ASSUME NEW b, FileUpTo(b, m) PROVE FileUpTo(Append(b, r), n)
    <2>1. b \in Seq(Rocs) /\ Len(b) <= m
        BY <1>2 DEF FileUpTo
    <2>2. \A i \in DOMAIN b : b[i] <= n
        <3>1. FileUpTo(b, n)
            BY <1>2, UpToGrows
        <3> QED BY <3>1 DEF FileUpTo
    <2> DEFINE u == Append(b, r)
    <2>3. /\ u \in Seq(Rocs) /\ Len(u) = Len(b) + 1 /\ u[Len(b) + 1] = r
          /\ \A i \in DOMAIN b : u[i] = b[i]
          /\ \A i \in DOMAIN u : i \in DOMAIN b \/ i = Len(b) + 1
        BY <2>1, Appended
    <2>4. Len(b) \in Nat
        BY <2>1
    <2> HIDE DEF u
    <2>5. \A i \in DOMAIN u : u[i] <= n
        BY <2>2, <2>3
    <2>6. FileUpTo(u, n)
        BY <2>1, <2>3, <2>4, <2>5 DEF FileUpTo
    <2> QED BY <2>6 DEF u
<1> QED BY <1>1, <1>2

(* The scalars of the state. *)
LEMMA Scalars ==
    ASSUME TypeOK
    PROVE  /\ MaxPreauths \in Nat /\ approved \in Nat /\ approved <= MaxPreauths
           /\ index \in Nat /\ failures \in Nat /\ purges \in Nat /\ txn.roc \in Int /\ txn.index \in Nat
           /\ txn = [roc |-> txn.roc, index |-> txn.index]
           /\ \A r \in Rocs : r \in 1 .. MaxPreauths /\ completions[r] \in 0 .. 2
           /\ NoTxn \in [roc : Rocs \cup {None}, index : 0 .. MaxPreauths]
<1>1. MaxPreauths \in Nat
    BY PreauthAssumption
<1>2. txn \in [roc : Rocs \cup {None}, index : 0 .. MaxPreauths]
    BY DEF TypeOK
<1>3. txn.roc \in Int /\ txn.index \in Nat /\ txn = [roc |-> txn.roc, index |-> txn.index]
    BY <1>1, <1>2 DEF Rocs, None
<1>4. approved \in 0 .. MaxPreauths /\ index \in 0 .. MaxPreauths
      /\ failures \in 0 .. MaxFailures /\ purges \in 0 .. MaxPurges
      /\ completions \in [Rocs -> 0 .. 2]
    BY DEF TypeOK, MaxCompletions
<1>5. NoTxn \in [roc : Rocs \cup {None}, index : 0 .. MaxPreauths]
    BY <1>1 DEF NoTxn, None
<1> QED BY <1>1, <1>3, <1>4, <1>5 DEF Rocs

(* The records of the batch and of the temporary file. *)
LEMMA FileRecords ==
    ASSUME TypeOK, Approved
    PROVE  /\ DOMAIN batch = 1 .. Len(batch) /\ Len(batch) \in Nat /\ Len(batch) <= approved
           /\ \A i \in DOMAIN batch : batch[i] \in Rocs /\ batch[i] <= approved
           /\ DOMAIN temp = 1 .. Len(temp) /\ Len(temp) \in Nat
           /\ \A i \in DOMAIN temp : temp[i] \in Rocs /\ temp[i] <= approved
<1>1. /\ batch \in Seq(Rocs) /\ Len(batch) <= approved /\ \A i \in DOMAIN batch : batch[i] <= approved
      /\ temp \in Seq(Rocs) /\ \A i \in DOMAIN temp : temp[i] <= approved
    BY DEF Approved, FileUpTo
<1> QED BY <1>1

(* An approved pre-authorisation gets its record. *)
LEMMA StoreRecordAlways == Always /\ StoreRecord => Always'
<1> SUFFICES ASSUME Always, StoreRecord PROVE Always'
    OBVIOUS
<1> USE DEF Always
<1>1. /\ pc = "idle" /\ approved < MaxPreauths /\ approved' = approved + 1
      /\ table' = Loaded /\ tableFile' = tableFile /\ temp' = temp /\ expired' = expired
      /\ completions' = completions /\ index' = index
    BY DEF StoreRecord
<1>2. /\ approved \in Nat /\ approved + 1 \in Rocs /\ approved + 1 \in 0 .. MaxPreauths
    BY <1>1, Scalars DEF Rocs
<1>3. TableUpTo(table', approved) /\ TableUpTo(tableFile', approved)
    BY <1>1, LoadedTable DEF Approved
<1>4. /\ TableUpTo(table', approved') /\ TableUpTo(tableFile', approved')
      /\ FileUpTo(temp', approved') /\ FileUpTo(batch, approved')
    BY <1>1, <1>2, <1>3, UpToGrows DEF Approved
<1>5. FileUpTo(batch', approved')
    <2>1. FileUpTo(Append(batch, approved + 1), approved + 1)
        <3>1. approved + 1 \in Nat /\ approved < approved + 1 /\ approved + 1 <= approved + 1
            BY <1>2
        <3>2. FileUpTo(batch, approved)
            BY DEF Approved
        <3> QED BY <1>2, <3>1, <3>2, UpToAppended
    <2> QED BY <1>1, <1>4, <2>1 DEF StoreRecord
<1>6. Approved'
    <2>1. \A r \in Rocs : completions[r] > 0 => r <= approved + 1
        BY <1>2, PreauthAssumption DEF Approved, Rocs
    <2>2. expired \subseteq 1 .. approved + 1
        BY <1>2 DEF Approved
    <2> QED BY <1>1, <1>4, <1>5, <2>1, <2>2 DEF Approved
<1>7. completions[approved + 1] = 0 /\ approved + 1 \notin expired
    BY <1>2, Scalars DEF Approved
<1>8. \/ txn' = [roc |-> approved + 1, index |-> 0] /\ pc' = "store"
      \/ txn' = txn /\ pc' = "idle"
    BY <1>1 DEF StoreRecord
<1>9. Current'
    <2>1. (approved + 1) - 1 = approved
        BY <1>2
    <2> QED BY <1>1, <1>2, <1>3, <1>7, <1>8, <2>1 DEF Current
<1>10. TypeOK'
    <2>1. txn' \in [roc : Rocs \cup {None}, index : 0 .. MaxPreauths]
        <3>1. txn \in [roc : Rocs \cup {None}, index : 0 .. MaxPreauths]
            BY DEF TypeOK
        <3>2. 0 \in 0 .. MaxPreauths
            BY Scalars
        <3> QED BY <1>2, <1>8, <3>1, <3>2
    <2>2. UNCHANGED <<accepted, failures, purges, harm>>
        BY DEF StoreRecord
    <2> QED BY <1>1, <1>2, <1>4, <1>5, <1>8, <2>1, <2>2 DEF TypeOK, TableUpTo, FileUpTo
<1> QED BY <1>6, <1>9, <1>10

(* Its entry is saved with the table. *)
LEMMA StoreEntryAlways == Always /\ StoreEntry => Always'
<1> SUFFICES ASSUME Always, StoreEntry PROVE Always'
    OBVIOUS
<1> USE DEF Always
<1> DEFINE t == Append(Loaded, [roc |-> txn.roc, out |-> FALSE])
<1>1. /\ pc = "store" /\ pc' = "idle" /\ txn' = NoTxn /\ accepted' = accepted \cup {txn.roc}
      /\ UNCHANGED <<temp, expired, index, completions, approved, failures, purges, harm>>
    BY DEF StoreEntry, counters
<1>2. txn.roc = approved /\ approved \in Rocs /\ approved \in Nat /\ approved - 1 \in Nat
    BY <1>1, Scalars DEF Current, Rocs
<1>3. TableUpTo(t, approved)
    <2>1. TableUpTo(Loaded, approved - 1)
        BY <1>1, LoadedTable DEF Current
    <2> QED BY <1>2, <2>1, UpToAppended
<1>4. Saved(t)
    BY DEF StoreEntry
<1> HIDE DEF t
<1>5. /\ TableUpTo(table', approved) /\ TableUpTo(tableFile', approved) /\ FileUpTo(batch', approved)
    BY <1>2, <1>3, <1>4, SavedTable, UpToEmpty DEF Approved
<1>6. Approved' /\ Current'
    BY <1>1, <1>5 DEF Approved, Current
<1>7. TypeOK'
    BY <1>1, <1>2, <1>5, Scalars DEF TypeOK, TableUpTo, FileUpTo
<1> QED BY <1>6, <1>7

(* The oldest one expires. *)
LEMMA ExpireAlways == Always /\ Expire => Always'
<1> SUFFICES ASSUME Always, Expire PROVE Always'
    OBVIOUS
<1> USE DEF Always
<1>1. /\ UNCHANGED <<table, tableFile, batch, temp, txn, index, pc, completions, accepted,
                     approved, failures, purges, harm>>
      /\ Cardinality(expired) < approved /\ expired' = expired \cup {Cardinality(expired) + 1}
      /\ pc = "store" => Cardinality(expired) + 1 # txn.roc
    BY DEF Expire, files, counters
<1>2. Cardinality(expired) \in Nat
    <2>1. MaxPreauths \in Int /\ 1 \in Int
        BY PreauthAssumption
    <2>2. IsFiniteSet(1 .. MaxPreauths)
        BY <2>1, FS_Interval
    <2>3. expired \in SUBSET (1 .. MaxPreauths)
        BY DEF TypeOK, Rocs
    <2> QED BY <2>2, <2>3, FS_Subset, FS_CardinalityType
<1>3. Cardinality(expired) + 1 \in 1 .. approved /\ Cardinality(expired) + 1 \in Rocs
    BY <1>1, <1>2, Scalars DEF Rocs
<1>4. Approved' /\ Current'
    BY <1>1, <1>3 DEF Approved, Current
<1>5. TypeOK'
    BY <1>1, <1>3 DEF TypeOK
<1> QED BY <1>4, <1>5

(* A completion is recalled, with the position of its record. *)
LEMMA RecallAlways ==
    ASSUME NEW r \in Rocs PROVE Always /\ Recall(r) => Always'
<1> SUFFICES ASSUME Always, Recall(r) PROVE Always'
    OBVIOUS
<1> USE DEF Always
<1>1. /\ pc = "idle" /\ pc' = "commit" /\ completions[r] < MaxCompletions
      /\ table' \in {table, Loaded} /\ Positions(r, batch) # {}
      /\ txn' = [roc |-> r, index |-> First(r, batch)]
      /\ UNCHANGED <<tableFile, batch, temp, expired, index, completions, accepted,
                     approved, failures, purges, harm>>
    BY DEF Recall, files, counters
<1>2. First(r, batch) \in DOMAIN batch /\ batch[First(r, batch)] = r
    BY <1>1, FirstIsLeast DEF TypeOK
<1>3. First(r, batch) \in 0 .. MaxPreauths
    <2>1. DOMAIN batch = 1 .. Len(batch) /\ Len(batch) \in Nat /\ Len(batch) <= approved
        BY FileRecords
    <2> QED BY <1>2, <2>1, Scalars
<1>4. table' \in Seq(Entries) /\ TableUpTo(table', approved)
    BY <1>1, LoadedTable DEF Approved, TableUpTo
<1>5. Approved' /\ Current'
    BY <1>1, <1>2, <1>4 DEF Approved, Current
<1>6. TypeOK'
    BY <1>1, <1>3, <1>4 DEF TypeOK
<1> QED BY <1>5, <1>6

(* It is queued: the record is its own. *)
LEMMA QueueCompletionAlways == Always /\ QueueCompletion => Always'
<1> SUFFICES ASSUME Always, QueueCompletion PROVE Always'
    OBVIOUS
<1> USE DEF Always
<1>1. /\ pc = "commit" /\ pc' = "update"
      /\ completions' = [completions EXCEPT ![batch[txn.index]] = @ + 1]
      /\ UNCHANGED <<table, tableFile, batch, temp, expired, index, txn, accepted,
                     approved, failures, purges, harm>>
    BY DEF QueueCompletion, files, counters
<1>2. txn.index \in DOMAIN batch /\ batch[txn.index] = txn.roc
      /\ completions[txn.roc] < 2
    BY <1>1 DEF Current, MaxCompletions
<1>3. txn.roc \in Rocs /\ txn.roc <= approved
    BY <1>2, FileRecords
<1>4. completions[txn.roc] \in 0 .. 2 /\ completions \in [Rocs -> 0 .. 2]
    BY <1>3 DEF TypeOK, MaxCompletions
<1>5. /\ completions' \in [Rocs -> 0 .. 2]
      /\ \A r \in Rocs : completions'[r] = IF r = txn.roc THEN completions[r] + 1 ELSE completions[r]
    BY <1>1, <1>2, <1>3, <1>4
<1>6. Approved' /\ Current'
    BY <1>1, <1>2, <1>3, <1>5 DEF Approved, Current
<1>7. TypeOK'
    BY <1>1, <1>5 DEF TypeOK, MaxCompletions
<1> QED BY <1>6, <1>7

(* The entry marked is the one at the position of its record. *)
LEMMA MarksItsEntry == Always /\ UpdateEntry => Saved(MarkedEntries)
<1> SUFFICES ASSUME Always, UpdateEntry PROVE Saved(MarkedEntries)
    OBVIOUS
<1>1. batch[txn.index] = txn.roc
    BY DEF Always, Current, UpdateEntry
<1>2. MarkedEntries = [i \in DOMAIN table |->
                          IF i = txn.index THEN [roc |-> batch[i], out |-> TRUE] ELSE table[i]]
    BY <1>1 DEF MarkedEntries
<1> QED BY <1>2 DEF UpdateEntry

(* The table is marked. *)
LEMMA UpdateEntryAlways == Always /\ UpdateEntry => Always'
<1> SUFFICES ASSUME Always, UpdateEntry PROVE Always'
    OBVIOUS
<1> USE DEF Always
<1>1. /\ pc = "update" /\ pc' = "purge" /\ txn' = NoTxn
      /\ UNCHANGED <<temp, expired, index, completions, accepted, approved, failures, purges, harm>>
    BY DEF UpdateEntry, counters
<1>2. txn.index \in DOMAIN batch /\ batch[txn.index] = txn.roc
    BY <1>1 DEF Current
<1>3. txn.roc \in Rocs /\ txn.roc <= approved /\ approved \in Nat
    BY <1>2, Scalars, FileRecords
<1>4. Saved(MarkedEntries)
    BY MarksItsEntry
<1>5. TableUpTo(MarkedEntries, approved)
    <2>1. table \in Seq(Entries) /\ Len(table) <= approved /\ \A k \in DOMAIN table : table[k].roc <= approved
        BY DEF Approved, TableUpTo
    <2>2. \A k \in DOMAIN MarkedEntries : MarkedEntries[k].roc <= approved
        BY <1>3, <2>1, MarkedTable
    <2> QED BY <1>3, <2>1, <2>2, MarkedTable DEF TableUpTo
<1>6. TableUpTo(table', approved) /\ TableUpTo(tableFile', approved) /\ FileUpTo(batch', approved)
    BY <1>3, <1>4, <1>5, SavedTable, UpToEmpty DEF Approved
<1>7. Approved' /\ Current'
    BY <1>1, <1>6 DEF Approved, Current
<1>8. TypeOK'
    BY <1>1, <1>6, Scalars DEF TypeOK, TableUpTo, FileUpTo
<1> QED BY <1>7, <1>8

(* A purge begins, from the menu. *)
LEMMA StartPurgeAlways == Always /\ StartPurge => Always'
<1> SUFFICES ASSUME Always, StartPurge PROVE Always'
    OBVIOUS
<1> USE DEF Always
<1>1. /\ pc' = "purge" /\ purges < MaxPurges /\ purges' = purges + 1
      /\ UNCHANGED <<table, tableFile, batch, temp, expired, index, txn, completions, accepted,
                     approved, failures, harm>>
    BY DEF StartPurge, files
<1>2. Approved' /\ Current'
    BY <1>1 DEF Approved, Current
<1>3. purges' \in 0 .. MaxPurges
    BY <1>1, Scalars, PreauthAssumption
<1>4. TypeOK'
    BY <1>1, <1>3 DEF TypeOK
<1> QED BY <1>2, <1>4

(* Everything is deleted from the menu. *)
LEMMA DeleteAllAlways == Always /\ DeleteAll => Always'
<1> SUFFICES ASSUME Always, DeleteAll PROVE Always'
    OBVIOUS
<1> USE DEF Always
<1>1. /\ pc = "idle" /\ pc' = pc /\ purges < MaxPurges /\ purges' = purges + 1 /\ accepted' = {}
      /\ harm' \in {harm, harm \cup {"stale"}}
      /\ UNCHANGED <<temp, expired, index, txn, completions, approved, failures>>
    BY DEF DeleteAll
<1>2. Destroyed
    BY DEF DeleteAll
<1>3. approved \in Nat
    BY Scalars
<1>4. TableUpTo(table', approved) /\ TableUpTo(tableFile', approved) /\ FileUpTo(batch', approved)
    BY <1>2, <1>3, DestroyedFiles, UpToEmpty DEF Approved
<1>5. Approved' /\ Current'
    BY <1>1, <1>4 DEF Approved, Current
<1>6. purges' \in 0 .. MaxPurges
    BY <1>1, Scalars, PreauthAssumption
<1>7. TypeOK'
    BY <1>1, <1>4, <1>6 DEF TypeOK, TableUpTo, FileUpTo
<1> QED BY <1>5, <1>7

(* A purge loads the table. *)
LEMMA LoadPendingAlways == Always /\ LoadPending => Always'
<1> SUFFICES ASSUME Always, LoadPending PROVE Always'
    OBVIOUS
<1> USE DEF Always
<1>1. /\ pc' = "select" /\ table' = Loaded /\ temp' = <<>> /\ index' = 0
      /\ UNCHANGED <<tableFile, batch, expired, txn, completions, accepted,
                     approved, failures, purges, harm>>
    BY DEF LoadPending, counters
<1>2. approved \in Nat
    BY Scalars
<1>3. TableUpTo(table', approved) /\ FileUpTo(temp', approved)
    BY <1>1, <1>2, LoadedTable, UpToEmpty DEF Approved
<1>4. Len(table') \in Nat /\ Len(temp') = 0
    <2>1. table' \in Seq(Entries)
        BY <1>3 DEF TableUpTo
    <2> QED BY <1>1, <2>1
<1>5. Approved' /\ Current'
    BY <1>1, <1>3, <1>4 DEF Approved, Current
<1>6. index' \in 0 .. MaxPreauths
    BY <1>1, Scalars
<1>7. TypeOK'
    BY <1>1, <1>3, <1>6 DEF TypeOK, TableUpTo, FileUpTo
<1> QED BY <1>5, <1>7

(* It takes an entry over, or passes it. *)
LEMMA SelectEntryAlways == Always /\ SelectEntry => Always'
<1> SUFFICES ASSUME Always, SelectEntry PROVE Always'
    OBVIOUS
<1> USE DEF Always
<1>1. /\ pc = "select" /\ index < Len(table) /\ index' = index + 1
      /\ \/ temp' = temp
         \/ /\ temp' = Append(temp, table[index + 1].roc)
            /\ Positions(table[index + 1].roc, batch) # {}
      /\ UNCHANGED <<table, tableFile, batch, expired, txn, pc, completions, accepted,
                     approved, failures, purges, harm>>
    BY DEF SelectEntry, counters
<1>2. /\ Len(table) \in Nat /\ Len(table) <= approved /\ approved \in Nat /\ index \in Nat
      /\ approved <= MaxPreauths /\ MaxPreauths \in Nat
    <2>1. table \in Seq(Entries) /\ Len(table) <= approved
        BY DEF Approved, TableUpTo
    <2> QED BY <2>1, Scalars
<1>3. Len(temp) \in Nat /\ Len(temp) <= index /\ temp \in Seq(Rocs)
    BY <1>1, FileRecords DEF Current, TypeOK
<1>4. /\ FileUpTo(temp', approved) /\ Len(temp') <= index + 1
    <2>1. CASE temp' = temp
        BY <1>2, <1>3, <2>1 DEF Approved
    <2>2. CASE /\ temp' = Append(temp, table[index + 1].roc)
               /\ Positions(table[index + 1].roc, batch) # {}
        <3>1. PICK i \in DOMAIN batch : batch[i] = table[index + 1].roc
            BY <2>2 DEF Positions
        <3>2. table[index + 1].roc \in Rocs /\ table[index + 1].roc <= approved
            BY <3>1, FileRecords
        <3>3. FileUpTo(temp, index) \/ index < approved
            BY <1>1, <1>2
        <3>4. /\ temp' \in Seq(Rocs) /\ Len(temp') = Len(temp) + 1
              /\ temp'[Len(temp) + 1] = table[index + 1].roc
              /\ \A k \in DOMAIN temp : temp'[k] = temp[k]
              /\ \A k \in DOMAIN temp' : k \in DOMAIN temp \/ k = Len(temp) + 1
            BY <1>3, <2>2, <3>2, Appended
        <3>5. \A k \in DOMAIN temp' : temp'[k] <= approved
            BY <3>2, <3>4, FileRecords
        <3>6. Len(temp') <= index + 1 /\ Len(temp') <= approved
            BY <1>1, <1>2, <1>3, <3>4
        <3> QED BY <3>4, <3>5, <3>6 DEF FileUpTo
    <2> QED BY <1>1, <2>1, <2>2
<1>5. index + 1 <= Len(table) /\ index + 1 \in 0 .. MaxPreauths
    BY <1>1, <1>2
<1>6. Approved' /\ Current'
    BY <1>1, <1>4, <1>5 DEF Approved, Current
<1>7. TypeOK'
    BY <1>1, <1>4, <1>5 DEF TypeOK, FileUpTo
<1> QED BY <1>6, <1>7

(* The batch is dropped, then the table. *)
LEMMA DropBatchAlways == Always /\ DropBatch => Always'
<1> SUFFICES ASSUME Always, DropBatch PROVE Always'
    OBVIOUS
<1> USE DEF Always
<1>1. /\ pc' \in {"idle", "drop table"} /\ index' = 0 /\ batch' = <<>>
      /\ harm' \in {harm, harm \cup {"stale"}}
      /\ UNCHANGED <<table, tableFile, temp, expired, txn, completions, accepted,
                     approved, failures, purges>>
    BY DEF DropBatch, Purged, counters
<1>2. approved \in Nat /\ MaxPreauths \in Nat
    BY Scalars
<1>3. FileUpTo(batch', approved)
    BY <1>1, <1>2, UpToEmpty
<1>4. Approved' /\ Current'
    BY <1>1, <1>3 DEF Approved, Current
<1>5. index' \in 0 .. MaxPreauths
    <2>1. index' = 0
        BY <1>1
    <2> QED BY <1>2, <2>1
<1>6. TypeOK'
    BY <1>1, <1>3, <1>5 DEF TypeOK, FileUpTo
<1> QED BY <1>4, <1>6

LEMMA DropTableAlways == Always /\ DropTable => Always'
<1> SUFFICES ASSUME Always, DropTable PROVE Always'
    OBVIOUS
<1> USE DEF Always
<1>1. /\ pc' \in {"idle", "write"} /\ tableFile' = <<>>
      /\ harm' \in {harm, harm \cup {"stale"}}
      /\ UNCHANGED <<table, batch, temp, expired, index, txn, completions, accepted,
                     approved, failures, purges>>
    BY DEF DropTable, Purged, counters
<1>2. approved \in Nat
    BY Scalars
<1>3. TableUpTo(tableFile', approved)
    BY <1>1, <1>2, UpToEmpty
<1>4. Approved' /\ Current'
    BY <1>1, <1>3 DEF Approved, Current
<1>5. TypeOK'
    BY <1>1, <1>3 DEF TypeOK, TableUpTo
<1> QED BY <1>4, <1>5

(* The temporary table is written, and its records are moved. *)
LEMMA WriteTableAlways == Always /\ WriteTable => Always'
<1> SUFFICES ASSUME Always, WriteTable PROVE Always'
    OBVIOUS
<1> USE DEF Always
<1>1. /\ pc' = "move"
      /\ \/ tableFile' = KeptEntries /\ table' = table /\ batch' = batch
         \/ Destroyed
      /\ UNCHANGED <<temp, expired, index, txn, completions, accepted,
                     approved, failures, purges, harm>>
    BY DEF WriteTable, KeptEntries, counters
<1>2. approved \in Nat
    BY Scalars
<1>3. TableUpTo(KeptEntries, approved)
    <2>1. Len(temp) <= approved
        BY DEF Approved, FileUpTo
    <2> QED BY <2>1, KeptTable, FileRecords DEF TableUpTo
<1>4. TableUpTo(table', approved) /\ TableUpTo(tableFile', approved) /\ FileUpTo(batch', approved)
    BY <1>1, <1>2, <1>3, DestroyedFiles, UpToEmpty DEF Approved
<1>5. Approved' /\ Current'
    BY <1>1, <1>4 DEF Approved, Current
<1>6. TypeOK'
    BY <1>1, <1>4 DEF TypeOK, TableUpTo, FileUpTo
<1> QED BY <1>5, <1>6

LEMMA MoveBatchAlways == Always /\ MoveBatch => Always'
<1> SUFFICES ASSUME Always, MoveBatch PROVE Always'
    OBVIOUS
<1> USE DEF Always
<1>1. /\ pc' = "idle" /\ batch' = temp /\ temp' = <<>> /\ table' = Loaded
      /\ harm' \in {harm, harm \cup {"stale"}}
      /\ UNCHANGED <<tableFile, expired, index, txn, completions, accepted,
                     approved, failures, purges>>
    BY DEF MoveBatch, counters
<1>2. approved \in Nat
    BY Scalars
<1>3. TableUpTo(table', approved) /\ FileUpTo(batch', approved) /\ FileUpTo(temp', approved)
    BY <1>1, <1>2, LoadedTable, UpToEmpty DEF Approved
<1>4. Approved' /\ Current'
    BY <1>1, <1>3 DEF Approved, Current
<1>5. TypeOK'
    BY <1>1, <1>3 DEF TypeOK, TableUpTo, FileUpTo
<1> QED BY <1>4, <1>5

(* The power fails. *)
LEMMA PowerFailAlways == Always /\ PowerFail => Always'
<1> SUFFICES ASSUME Always, PowerFail PROVE Always'
    OBVIOUS
<1> USE DEF Always
<1>1. /\ pc' = "purge" /\ table' = tableFile /\ txn' = NoTxn /\ index' = 0
      /\ failures < MaxFailures /\ failures' = failures + 1
      /\ harm' \in {harm, harm \cup {"cut"}}
      /\ UNCHANGED <<tableFile, batch, temp, expired, completions, accepted, approved, purges>>
    BY DEF PowerFail, files
<1>2. Approved' /\ Current'
    BY <1>1 DEF Approved, Current
<1>3. failures' \in 0 .. MaxFailures
    BY <1>1, Scalars, PreauthAssumption
<1>4. index' \in 0 .. MaxPreauths /\ txn' \in [roc : Rocs \cup {None}, index : 0 .. MaxPreauths]
    BY <1>1, Scalars
<1>5. TypeOK'
    BY <1>1, <1>3, <1>4 DEF TypeOK
<1> QED BY <1>2, <1>5

LEMMA AlwaysInit == Init => Always
<1> SUFFICES ASSUME Init PROVE Always
    OBVIOUS
<1>1. /\ table = <<>> /\ tableFile = <<>> /\ batch = <<>> /\ temp = <<>> /\ expired = {}
      /\ txn = NoTxn /\ index = 0 /\ pc = "idle" /\ completions = [r \in Rocs |-> 0]
      /\ accepted = {} /\ approved = 0 /\ failures = 0 /\ purges = 0 /\ harm = {}
    BY DEF Init
<1>2. TableUpTo(<<>>, 0) /\ FileUpTo(<<>>, 0)
    BY UpToEmpty
<1>3. Approved /\ Current
    BY <1>1, <1>2 DEF Approved, Current
<1>4. txn \in [roc : Rocs \cup {None}, index : 0 .. MaxPreauths]
    BY <1>1, PreauthAssumption DEF NoTxn, None
<1>5. TypeOK
    BY <1>1, <1>2, <1>4, PreauthAssumption DEF TypeOK, TableUpTo, FileUpTo, MaxCompletions
<1> QED BY <1>3, <1>5 DEF Always

LEMMA AlwaysNext == Always /\ [Next]_vars => Always'
<1> SUFFICES ASSUME Always, [Next]_vars PROVE Always'
    OBVIOUS
<1>1. CASE UNCHANGED vars
    BY <1>1 DEF vars, Always, TypeOK, Approved, Current
<1>2. CASE Next
    BY <1>2, StoreRecordAlways, StoreEntryAlways, ExpireAlways, RecallAlways,
       QueueCompletionAlways, UpdateEntryAlways, StartPurgeAlways, DeleteAllAlways,
       LoadPendingAlways, SelectEntryAlways, DropBatchAlways, DropTableAlways,
       WriteTableAlways, MoveBatchAlways, PowerFailAlways DEF Next, Purge
<1> QED BY <1>1, <1>2

(* Every variable keeps its type: the files hold only what was approved, no  *)
(* more of it than there were approvals, and a purge's loop stays in its     *)
(* table.                                                                    *)
THEOREM TypeCorrect == Spec => []TypeOK
<1>1. Always => TypeOK
    BY DEF Always
<1> QED BY <1>1, AlwaysInit, AlwaysNext, PTL DEF Spec

(* A completion is queued only with the record of its own pre-authorisation, *)
(* which the host approved: also after a power failure or a purge that gave  *)
(* up left the table and the batch at odds.                                  *)
THEOREM CompletesOwn == Spec => CompletesItsOwn
<1> DEFINE Own == \A r \in Rocs : completions'[r] # completions[r] => txn.roc = r /\ r <= approved
<1>1. Always /\ [Next]_vars => [Own]_vars
    <2> SUFFICES ASSUME Always, Next PROVE Own
        OBVIOUS
    <2>1. CASE completions' = completions
        BY <2>1
    <2>2. CASE QueueCompletion
        <3>1. /\ completions' = [completions EXCEPT ![batch[txn.index]] = @ + 1]
              /\ txn.index \in DOMAIN batch /\ batch[txn.index] = txn.roc
            BY <2>2 DEF QueueCompletion, Always, Current
        <3>2. txn.roc <= approved
            BY <3>1, FileRecords DEF Always
        <3>3. \A r \in Rocs : r # txn.roc => completions'[r] = completions[r]
            BY <3>1 DEF Always, TypeOK
        <3> QED BY <3>2, <3>3
    <2> QED BY <2>1, <2>2 DEF Next, Purge, StoreRecord, StoreEntry, Expire, Recall, UpdateEntry,
            StartPurge, DeleteAll, LoadPending, SelectEntry, DropBatch, DropTable, WriteTable,
            MoveBatch, PowerFail
<1> QED BY <1>1, AlwaysInit, AlwaysNext, PTL DEF Spec, CompletesItsOwn

-----------------------------------------------------------------------------
(* As long as no harm was done. *)

(* Sequences with the same elements at the same positions are the same. *)
LEMMA SameSequence ==
    ASSUME NEW S, NEW s \in Seq(S), NEW t \in Seq(S), Len(s) = Len(t),
           \A i \in 1 .. Len(s) : s[i] = t[i]
    PROVE  s = t
OBVIOUS

(* The rocs of a table with one entry more are its rocs and one more. *)
LEMMA RocsOfAppended ==
    ASSUME NEW t \in Seq(Entries), NEW r \in Rocs
    PROVE  RocsOf(Append(t, [roc |-> r, out |-> FALSE])) = Append(RocsOf(t), r)
<1> DEFINE e == [roc |-> r, out |-> FALSE]
           u == Append(t, e)
<1>1. e \in Entries /\ e.roc = r
    BY DEF Entries
<1>2. Len(t) \in Nat /\ DOMAIN t = 1 .. Len(t)
    OBVIOUS
<1>3. /\ u \in Seq(Entries) /\ Len(u) = Len(t) + 1 /\ DOMAIN u = 1 .. Len(t) + 1
      /\ u[Len(t) + 1] = e /\ \A i \in DOMAIN t : u[i] = t[i]
    <2> HIDE DEF e
    <2> QED BY <1>1, Appended
<1> HIDE DEF e, u
<1>4. /\ RocsOf(u) \in Seq(Rocs) /\ Len(RocsOf(u)) = Len(t) + 1
      /\ \A i \in 1 .. Len(t) + 1 : RocsOf(u)[i] = u[i].roc
    BY <1>3, RocsOfTable
<1>5. /\ RocsOf(t) \in Seq(Rocs) /\ Len(RocsOf(t)) = Len(t) /\ DOMAIN RocsOf(t) = DOMAIN t
      /\ \A i \in DOMAIN t : RocsOf(t)[i] = t[i].roc
    BY RocsOfTable
<1>6. /\ Append(RocsOf(t), r) \in Seq(Rocs) /\ Len(Append(RocsOf(t), r)) = Len(t) + 1
      /\ Append(RocsOf(t), r)[Len(t) + 1] = r
      /\ \A i \in DOMAIN t : Append(RocsOf(t), r)[i] = RocsOf(t)[i]
    BY <1>5, Appended
<1>7. \A i \in 1 .. Len(t) + 1 : i \in DOMAIN t \/ i = Len(t) + 1
    BY <1>2
<1>8. \A i \in 1 .. Len(t) + 1 : RocsOf(u)[i] = Append(RocsOf(t), r)[i]
    BY <1>1, <1>3, <1>4, <1>5, <1>6, <1>7
<1>9. RocsOf(u) = Append(RocsOf(t), r)
    BY <1>4, <1>6, <1>8, SameSequence
<1> QED BY <1>9 DEF u, e

(* The entries of the two tables. *)
LEMMA TableEntries ==
    ASSUME TypeOK, Approved
    PROVE  /\ DOMAIN table = 1 .. Len(table) /\ Len(table) \in Nat
           /\ DOMAIN tableFile = 1 .. Len(tableFile) /\ Len(tableFile) \in Nat
           /\ \A i \in DOMAIN table : table[i] \in Entries /\ table[i].roc \in Rocs
                                     /\ table[i].out \in BOOLEAN /\ table[i].roc <= approved
           /\ \A i \in DOMAIN tableFile : tableFile[i] \in Entries /\ tableFile[i].roc \in Rocs
                                     /\ tableFile[i].out \in BOOLEAN /\ tableFile[i].roc <= approved
<1>1. ASSUME NEW t \in {table, tableFile}
      PROVE  /\ DOMAIN t = 1 .. Len(t) /\ Len(t) \in Nat
             /\ \A i \in DOMAIN t : t[i] \in Entries /\ t[i].roc <= approved
    <2>1. t \in Seq(Entries) /\ \A i \in DOMAIN t : t[i].roc <= approved
        BY <1>1 DEF Approved, TableUpTo
    <2> QED BY <2>1
<1>2. \A e \in Entries : e.roc \in Rocs /\ e.out \in BOOLEAN
    BY DEF Entries
<1> QED BY <1>1, <1>2

(* What a file has is not lost when a record is appended. *)
LEMMA AppendedPositions ==
    ASSUME NEW s \in Seq(Rocs), NEW e \in Rocs
    PROVE  /\ \A r : Positions(r, s) # {} => Positions(r, Append(s, e)) # {}
           /\ Positions(e, Append(s, e)) # {}
<1>1. /\ \A i \in DOMAIN s : i \in DOMAIN Append(s, e) /\ Append(s, e)[i] = s[i]
      /\ Append(s, e)[Len(s) + 1] = e /\ Len(s) + 1 \in DOMAIN Append(s, e)
    BY Appended
<1> QED BY <1>1 DEF Positions

\* what is open is entered in the table too, unless a purge has gone further
LEMMA OpenInTable ==
    ASSUME Unharmed, pc \notin {"write", "move"}
    PROVE  /\ \A r \in Open : Entered(r, table)
           /\ tableFile = <<>> => Open = {}
           /\ Open # {} => tableFile = table
<1>1. tableFile \in {table, <<>>}
    BY DEF Unharmed, InStep
<1>2. \A r \in Open : Entered(r, tableFile)
    BY DEF Unharmed, Held
<1>3. \A r : ~Entered(r, <<>>)
    BY DEF Entered
<1> QED BY <1>1, <1>2, <1>3

LEMMA StoreRecordUnharmed == Always /\ Unharmed /\ StoreRecord => Unharmed'
<1> SUFFICES ASSUME Always, Unharmed, StoreRecord PROVE Unharmed'
    OBVIOUS
<1>1. /\ pc = "idle" /\ table' = Loaded
      /\ UNCHANGED <<tableFile, temp, expired, index, completions, accepted>>
      /\ \/ /\ batch' = Append(batch, approved + 1) /\ pc' = "store"
            /\ txn' = [roc |-> approved + 1, index |-> 0]
         \/ batch' = batch /\ pc' = "idle" /\ txn' = txn
    BY DEF StoreRecord
<1>2. table' = table
    BY <1>1, LoadedTable DEF Always, Unharmed, InStep
<1>3. batch \in Seq(Rocs) /\ batch = RocsOf(table) /\ approved + 1 \in Rocs /\ approved \in Nat
    BY <1>1, Scalars DEF Always, TypeOK, Unharmed, InStep, StoreRecord, Rocs
<1>4. Ordered'
    <2>1. Ascending(batch')
        <3>1. CASE batch' = Append(batch, approved + 1)
            <4>1. /\ Len(batch') = Len(batch) + 1 /\ batch'[Len(batch) + 1] = approved + 1
                  /\ \A i \in DOMAIN batch : batch'[i] = batch[i]
                  /\ \A i \in DOMAIN batch' : i \in DOMAIN batch \/ i = Len(batch) + 1
                BY <1>3, <3>1, Appended
            <4>2. /\ DOMAIN batch = 1 .. Len(batch) /\ Len(batch) \in Nat
                  /\ \A i \in DOMAIN batch : batch[i] \in Nat /\ batch[i] <= approved
                BY FileRecords DEF Always, Rocs
            <4>3. Ascending(batch)
                BY DEF Unharmed, Ordered
            <4> QED BY <1>3, <4>1, <4>2, <4>3 DEF Ascending
        <3> QED BY <1>1, <3>1 DEF Unharmed, Ordered, Ascending
    <2> QED BY <1>1, <1>2, <2>1 DEF Unharmed, Ordered
<1>5. Closed'
    BY <1>1, <1>2 DEF Unharmed, Closed, ClosedIn
<1>6. InStep'
    <2>1. RocsOf(table') = RocsOf(table)
        BY <1>2
    <2>2. tableFile' \in {table', <<>>}
        BY <1>1, <1>2 DEF Unharmed, InStep
    <2>3. CASE batch' = Append(batch, approved + 1) /\ pc' = "store"
               /\ txn' = [roc |-> approved + 1, index |-> 0]
        <3>1. txn'.roc = approved + 1
            BY <2>3
        <3>2. batch' = Append(RocsOf(table'), txn'.roc)
            BY <1>3, <2>1, <2>3, <3>1
        <3> QED BY <2>2, <2>3, <3>2 DEF InStep
    <2>4. CASE batch' = batch /\ pc' = "idle"
        BY <1>3, <2>1, <2>2, <2>4 DEF InStep
    <2> QED BY <1>1, <2>3, <2>4
<1>7. Held'
    <2>1. Open' = Open
        BY <1>1 DEF Open
    <2>2. \A q \in Open : Entered(q, tableFile) /\ Positions(q, batch) # {}
        BY <1>1 DEF Unharmed, Held
    <2>3. \A q \in Open : Positions(q, batch') # {}
        BY <1>1, <1>3, <2>2, AppendedPositions
    <2> QED BY <1>1, <2>1, <2>2, <2>3 DEF Held, Entered
<1> QED BY <1>4, <1>5, <1>6, <1>7 DEF Unharmed

LEMMA StoreEntryUnharmed == Always /\ Unharmed /\ StoreEntry => Unharmed'
<1> SUFFICES ASSUME Always, Unharmed, StoreEntry PROVE Unharmed'
    OBVIOUS
<1> DEFINE e == [roc |-> txn.roc, out |-> FALSE]
           t == Append(table, e)
<1>1. /\ pc = "store" /\ pc' = "idle" /\ accepted' = accepted \cup {txn.roc}
      /\ UNCHANGED <<temp, expired, index, completions>>
    BY DEF StoreEntry
<1>2. Loaded = table /\ batch = Append(RocsOf(table), txn.roc) /\ table \in Seq(Entries)
    BY <1>1, LoadedTable DEF Always, TypeOK, Unharmed, InStep
<1>3. /\ txn.roc \in Rocs /\ txn.roc \notin expired /\ completions[txn.roc] = 0
      /\ approved \in Nat /\ txn.roc = approved
      /\ \A i \in DOMAIN table : table[i].roc <= approved - 1
    BY <1>1, Scalars DEF Always, Current, TableUpTo
<1>4. /\ t \in Seq(Entries) /\ Len(t) = Len(table) + 1 /\ t[Len(table) + 1] = e
      /\ Len(table) + 1 \in DOMAIN t
      /\ \A i \in DOMAIN table : i \in DOMAIN t /\ t[i] = table[i]
      /\ \A i \in DOMAIN t : i \in DOMAIN table \/ i = Len(table) + 1
    <2>1. e \in Entries
        BY <1>3 DEF Entries
    <2> HIDE DEF e
    <2> QED BY <1>2, <2>1, Appended
<1>5. e.roc = txn.roc /\ e.out = FALSE
    OBVIOUS
<1>6. RocsOf(t) = batch
    BY <1>2, <1>3, RocsOfAppended
<1>7. Saved(t)
    BY <1>2 DEF StoreEntry
<1> HIDE DEF e, t
<1>8. Len(table) + 1 \in PendingIn(t)
    BY <1>3, <1>4, <1>5 DEF PendingIn, preauth_pending
<1>9. table' = t /\ tableFile' = t /\ batch' = batch
    BY <1>7, <1>8, SavedTable
<1>10. Ordered'
    <2>1. AscendingRocs(t)
        <3>1. AscendingRocs(table)
            BY DEF Unharmed, Ordered
        <3>2. /\ DOMAIN table = 1 .. Len(table) /\ Len(table) \in Nat
              /\ \A i \in DOMAIN table : table[i].roc \in Nat
            BY TableEntries DEF Always, Rocs
        <3> SUFFICES ASSUME NEW i \in DOMAIN t, NEW j \in DOMAIN t, i < j
                     PROVE  t[i].roc < t[j].roc
            BY DEF AscendingRocs
        <3>3. i \in DOMAIN table
            BY <1>4, <3>2
        <3>4. CASE j \in DOMAIN table
            BY <1>4, <3>1, <3>3, <3>4 DEF AscendingRocs
        <3>5. CASE j = Len(table) + 1
            <4>1. t[j].roc = approved /\ t[i].roc <= approved - 1 /\ t[i].roc \in Nat
                BY <1>3, <1>4, <1>5, <3>2, <3>3, <3>5
            <4> QED BY <1>3, <4>1
        <3> QED BY <1>4, <3>4, <3>5
    <2> QED BY <1>1, <1>9, <2>1 DEF Unharmed, Ordered
<1>11. Closed'
    <2>1. \A i \in DOMAIN t : completions[t[i].roc] > 0 => t[i].out
        BY <1>1, <1>3, <1>4, <1>5 DEF Unharmed, Closed, ClosedIn
    <2> QED BY <1>1, <1>9, <2>1 DEF Unharmed, Closed, ClosedIn
<1>12. InStep'
    BY <1>1, <1>6, <1>9 DEF InStep, RocsOf
<1>13. Held'
    <2>1. Open' \subseteq Open \cup {txn.roc}
        BY <1>1 DEF Open
    <2>2. \A q \in Open : Entered(q, table) /\ Positions(q, batch) # {}
        BY <1>1, OpenInTable DEF Unharmed, Held
    <2>3. \A q \in Open : Entered(q, t)
        BY <1>4, <2>2 DEF Entered
    <2>4. Entered(txn.roc, t)
        BY <1>4 DEF Entered, e
    <2>5. Positions(txn.roc, batch) # {}
        BY <1>2, <1>3, RocsOfTable, AppendedPositions
    <2> QED BY <1>1, <1>9, <2>1, <2>2, <2>3, <2>4, <2>5 DEF Held
<1> QED BY <1>10, <1>11, <1>12, <1>13 DEF Unharmed

LEMMA ExpireUnharmed == Always /\ Unharmed /\ Expire => Unharmed'
<1> SUFFICES ASSUME Always, Unharmed, Expire PROVE Unharmed'
    OBVIOUS
<1>1. /\ UNCHANGED <<table, tableFile, batch, temp, txn, index, pc, completions, accepted>>
      /\ expired \subseteq expired'
    BY DEF Expire, files
<1>2. Open' \subseteq Open
    BY <1>1 DEF Open
<1>3. Ordered' /\ Closed'
    BY <1>1 DEF Unharmed, Ordered, Closed, ClosedIn
<1>4. InStep'
    BY <1>1 DEF Unharmed, InStep, RocsOf, KeptEntries
<1>5. Held'
    BY <1>1, <1>2 DEF Unharmed, Held, Entered
<1> QED BY <1>3, <1>4, <1>5 DEF Unharmed

LEMMA RecallUnharmed ==
    ASSUME NEW r \in Rocs PROVE Always /\ Unharmed /\ Recall(r) => Unharmed'
<1> SUFFICES ASSUME Always, Unharmed, Recall(r) PROVE Unharmed'
    OBVIOUS
<1>1. /\ pc = "idle" /\ pc' = "commit" /\ table' \in {table, Loaded}
      /\ Positions(r, RocsOf(table')) # {}
      /\ preauth_pending(table'[First(r, RocsOf(table'))])
      /\ txn'.roc = r
      /\ UNCHANGED <<tableFile, batch, temp, expired, index, completions, accepted>>
    BY DEF Recall, files
<1>2. table' = table
    BY <1>1, LoadedTable DEF Always, Unharmed, InStep
<1>3. completions[r] = 0
    <2> DEFINE i == First(r, RocsOf(table))
    <2>1. RocsOf(table) \in Seq(Rocs) /\ DOMAIN RocsOf(table) = DOMAIN table
          /\ \A k \in DOMAIN table : RocsOf(table)[k] = table[k].roc
        BY RocsOfTable DEF Always, TypeOK
    <2>2. i \in DOMAIN table /\ table[i].roc = r
        BY <1>1, <1>2, <2>1, FirstIsLeast
    <2>3. ~table[i].out
        BY <1>1, <1>2 DEF preauth_pending
    <2>4. ~(completions[r] > 0)
        BY <1>1, <2>2, <2>3 DEF Unharmed, Closed, ClosedIn
    <2> QED BY <2>4, Scalars DEF Always
<1>4. Ordered'
    BY <1>1, <1>2 DEF Unharmed, Ordered
<1>5. Closed'
    BY <1>1, <1>2, <1>3 DEF Unharmed, Closed, ClosedIn
<1>6. InStep'
    BY <1>1, <1>2 DEF Unharmed, InStep, RocsOf
<1>7. Held'
    BY <1>1, <1>2 DEF Unharmed, Held, Entered, Open
<1> QED BY <1>4, <1>5, <1>6, <1>7 DEF Unharmed

LEMMA QueueCompletionUnharmed == Always /\ Unharmed /\ QueueCompletion => Unharmed'
<1> SUFFICES ASSUME Always, Unharmed, QueueCompletion PROVE Unharmed'
    OBVIOUS
<1>1. /\ pc = "commit" /\ pc' = "update"
      /\ completions' = [completions EXCEPT ![batch[txn.index]] = @ + 1]
      /\ UNCHANGED <<table, tableFile, batch, temp, expired, index, txn, accepted>>
    BY DEF QueueCompletion, files
<1>2. /\ batch[txn.index] = txn.roc /\ completions \in [Rocs -> 0 .. 2]
      /\ completions[txn.roc] = 0
    BY <1>1 DEF Always, TypeOK, Current, MaxCompletions, Unharmed, Closed
<1>3. txn.roc \in Rocs
    BY <1>1, <1>2, FileRecords DEF Always, Current
<1>4. /\ completions'[txn.roc] = 1
      /\ \A q \in Rocs : q # txn.roc => completions'[q] = completions[q]
    BY <1>1, <1>2, <1>3
<1>5. Ordered'
    BY <1>1 DEF Unharmed, Ordered
<1>6. Closed'
    <2>1. \A q \in Rocs : completions'[q] <= 1
        <3>1. \A q \in Rocs : completions[q] <= 1
            BY DEF Unharmed, Closed
        <3> QED BY <1>4, <3>1
    <2>2. ClosedIn(table)' /\ ClosedIn(tableFile)'
        BY <1>1, <1>4, TableEntries DEF Always, Unharmed, Closed, ClosedIn
    <2>3. completions'[txn'.roc] = 1
        BY <1>1, <1>4
    <2> QED BY <1>1, <2>1, <2>2, <2>3 DEF Closed
<1>7. InStep'
    BY <1>1 DEF Unharmed, InStep, RocsOf
<1>8. Held'
    <2>1. Open' \subseteq Open
        <3>1. accepted \subseteq Rocs
            BY DEF Always, TypeOK
        <3> QED BY <1>1, <1>4, <3>1 DEF Open
    <2> QED BY <1>1, <2>1 DEF Unharmed, Held, Entered
<1> QED BY <1>5, <1>6, <1>7, <1>8 DEF Unharmed

LEMMA UpdateEntryUnharmed == Always /\ Unharmed /\ UpdateEntry => Unharmed'
<1> SUFFICES ASSUME Always, Unharmed, UpdateEntry PROVE Unharmed'
    OBVIOUS
<1>1. /\ pc = "update" /\ pc' = "purge"
      /\ UNCHANGED <<temp, expired, index, completions, accepted>>
    BY DEF UpdateEntry
<1>2. /\ txn.index \in DOMAIN batch /\ batch[txn.index] = txn.roc /\ txn.roc \in Rocs
      /\ table \in Seq(Entries)
    BY <1>1, FileRecords DEF Always, TypeOK, Current
<1>3. txn.index \in DOMAIN table /\ table[txn.index].roc = txn.roc
    BY <1>1, <1>2, RocsOfTable DEF Unharmed, InStep
<1>4. Saved(MarkedEntries)
    BY MarksItsEntry
<1>5. /\ DOMAIN MarkedEntries = DOMAIN table
      /\ \A i \in DOMAIN table :
            /\ MarkedEntries[i].roc = table[i].roc
            /\ i = txn.index => MarkedEntries[i].out = TRUE
            /\ i # txn.index => MarkedEntries[i] = table[i]
    BY <1>2, <1>3, MarkedTable
<1>6. \A i \in DOMAIN table : table[i].roc = txn.roc => i = txn.index
    <2> SUFFICES ASSUME NEW i \in DOMAIN table, table[i].roc = txn.roc, i # txn.index
                 PROVE  FALSE
        OBVIOUS
    <2>1. i \in Int /\ txn.index \in Int /\ txn.roc \in Int
        BY <1>2, <1>3, TableEntries DEF Always, Rocs
    <2>2. i < txn.index \/ txn.index < i
        BY <2>1
    <2>3. table[i].roc < txn.roc \/ txn.roc < table[i].roc
        BY <1>3, <2>2 DEF Unharmed, Ordered, AscendingRocs
    <2> QED BY <2>1, <2>3
<1>7. AscendingRocs(MarkedEntries)
    BY <1>5 DEF Unharmed, Ordered, AscendingRocs
<1>8. \A i \in DOMAIN MarkedEntries : completions[MarkedEntries[i].roc] > 0 => MarkedEntries[i].out
    BY <1>1, <1>5, <1>6 DEF Unharmed, Closed, ClosedIn
<1>9. AscendingRocs(<<>>) /\ Ascending(<<>>)
    BY DEF AscendingRocs, Ascending
<1>10. Ordered'
    <2>1. AscendingRocs(table') /\ AscendingRocs(tableFile') /\ Ascending(batch')
        <3>1. /\ table' \in {MarkedEntries, <<>>} /\ tableFile' \in {MarkedEntries, <<>>}
              /\ batch' \in {batch, <<>>}
            BY <1>4, SavedTable
        <3>2. Ascending(batch)
            BY DEF Unharmed, Ordered
        <3> QED BY <1>7, <1>9, <3>1, <3>2
    <2> QED BY <1>1, <2>1 DEF Ordered
<1>11. Closed'
    <2>1. ClosedIn(table)' /\ ClosedIn(tableFile)'
        <3>1. table' \in {MarkedEntries, <<>>} /\ tableFile' \in {MarkedEntries, <<>>}
            BY <1>4, SavedTable
        <3>2. \A t \in {MarkedEntries, <<>>} : \A i \in DOMAIN t : completions[t[i].roc] > 0 => t[i].out
            BY <1>8
        <3> QED BY <1>1, <3>1, <3>2 DEF ClosedIn
    <2> QED BY <1>1, <2>1 DEF Unharmed, Closed
<1>12. InStep'
    BY <1>1, <1>4, SavedTable DEF InStep
<1>13. Held'
    <2>1. Open' = Open
        BY <1>1 DEF Open
    <2>2. \A q \in Open : Entered(q, table) /\ Positions(q, batch) # {}
        BY <1>1, OpenInTable DEF Unharmed, Held
    <2>3. ASSUME NEW q \in Open PROVE Entered(q, MarkedEntries)
        <3>1. PICK i \in DOMAIN table : table[i] = [roc |-> q, out |-> FALSE]
            BY <2>2 DEF Entered
        <3>2. completions[q] = 0 /\ table[i].roc = q /\ q \notin expired
            BY <3>1 DEF Open
        <3>3. CASE i # txn.index
            BY <1>5, <3>1, <3>3 DEF Entered
        <3>4. CASE i = txn.index
            <4>1. q = txn.roc
                BY <1>3, <3>2, <3>4
            <4>2. completions[txn.roc] = 1
                BY <1>1 DEF Unharmed, Closed
            <4> QED BY <3>2, <4>1, <4>2
        <3> QED BY <3>3, <3>4
    <2>4. Open # {} => PendingIn(MarkedEntries) # {}
        BY <2>3 DEF Entered, PendingIn, preauth_pending, Open
    <2>5. Open # {} => tableFile' = MarkedEntries /\ batch' = batch
        BY <1>4, <2>4, SavedTable
    <2> QED BY <1>1, <2>1, <2>2, <2>3, <2>5 DEF Held
<1> QED BY <1>10, <1>11, <1>12, <1>13 DEF Unharmed

LEMMA StartPurgeUnharmed == Always /\ Unharmed /\ StartPurge => Unharmed'
<1> SUFFICES ASSUME Always, Unharmed, StartPurge PROVE Unharmed'
    OBVIOUS
<1>1. /\ pc = "idle" /\ pc' = "purge"
      /\ UNCHANGED <<table, tableFile, batch, temp, expired, index, txn, completions, accepted>>
    BY DEF StartPurge, files
<1>2. Ordered' /\ Closed'
    BY <1>1 DEF Unharmed, Ordered, Closed, ClosedIn
<1>3. InStep'
    BY <1>1 DEF Unharmed, InStep
<1>4. Held'
    BY <1>1 DEF Unharmed, Held, Entered, Open
<1> QED BY <1>2, <1>3, <1>4 DEF Unharmed

(* Deleting leaves no table, or it leaves harm. *)
LEMMA DeleteAllUnharmed == Always /\ Unharmed /\ DeleteAll /\ harm' = {} => Unharmed'
<1> SUFFICES ASSUME Always, Unharmed, DeleteAll, harm' = {} PROVE Unharmed'
    OBVIOUS
<1>1. /\ pc = "idle" /\ pc' = "idle" /\ table' = <<>> /\ tableFile' = <<>> /\ batch' = <<>>
      /\ accepted' = {}
      /\ UNCHANGED <<temp, expired, index, txn, completions>>
    BY DestroyedFiles DEF DeleteAll
<1>2. Ordered' /\ Closed'
    BY <1>1 DEF Unharmed, Ordered, AscendingRocs, Ascending, Closed, ClosedIn
<1>3. InStep'
    <2>1. RocsOf(<<>>) = <<>>
        BY DEF RocsOf
    <2> QED BY <1>1, <2>1 DEF InStep
<1>4. Held'
    <2>1. Open' = {}
        BY <1>1 DEF Open
    <2> QED BY <1>1, <2>1 DEF Held
<1> QED BY <1>2, <1>3, <1>4 DEF Unharmed

LEMMA LoadPendingUnharmed == Always /\ Unharmed /\ LoadPending => Unharmed'
<1> SUFFICES ASSUME Always, Unharmed, LoadPending PROVE Unharmed'
    OBVIOUS
<1>1. /\ pc = "purge" /\ pc' = "select" /\ table' = Loaded /\ temp' = <<>> /\ index' = 0
      /\ UNCHANGED <<tableFile, batch, expired, txn, completions, accepted>>
    BY DEF LoadPending
<1>2. table' = table
    BY <1>1, LoadedTable DEF Always, Unharmed, InStep
<1>3. DOMAIN temp' = {}
    BY <1>1
<1>4. Ordered' /\ Closed'
    BY <1>1, <1>2, <1>3 DEF Unharmed, Ordered, Ascending, Closed, ClosedIn
<1>5. InStep'
    BY <1>1, <1>2 DEF Unharmed, InStep
<1>6. Held'
    <2>1. Open' = Open
        BY <1>1 DEF Open
    <2>2. \A q \in Open : Entered(q, tableFile) /\ Entered(q, table) /\ Positions(q, batch) # {}
        BY <1>1, OpenInTable DEF Unharmed, Held
    <2>3. \A i \in DOMAIN table : i > 0
        BY TableEntries DEF Always
    <2>4. \A q \in Open : \E i \in DOMAIN table : i > 0 /\ table[i] = [roc |-> q, out |-> FALSE]
        BY <2>2, <2>3 DEF Entered
    <2> QED BY <1>1, <1>2, <2>1, <2>2, <2>4 DEF Held
<1> QED BY <1>4, <1>5, <1>6 DEF Unharmed

(* The loop has taken over whatever is open so far, in order, and nothing    *)
(* that was completed.                                                       *)
LEMMA SelectEntryUnharmed == Always /\ Unharmed /\ SelectEntry => Unharmed'
<1> SUFFICES ASSUME Always, Unharmed, SelectEntry PROVE Unharmed'
    OBVIOUS
<1> DEFINE n == index + 1
           e == table[n]
<1>1. /\ pc = "select" /\ pc' = "select" /\ index < Len(table) /\ index' = n
      /\ temp' = IF preauth_pending(e) /\ Positions(e.roc, batch) # {}
                 THEN Append(temp, e.roc) ELSE temp
      /\ UNCHANGED <<table, tableFile, batch, expired, txn, completions, accepted>>
    BY DEF SelectEntry
<1>2. /\ index \in Nat /\ DOMAIN table = 1 .. Len(table) /\ Len(table) \in Nat
      /\ n \in DOMAIN table /\ e.roc \in Rocs /\ e.out \in BOOLEAN
    <2>1. index \in Nat /\ DOMAIN table = 1 .. Len(table) /\ Len(table) \in Nat
        BY Scalars, TableEntries DEF Always
    <2>2. n \in DOMAIN table
        BY <1>1, <2>1
    <2> QED BY <2>1, <2>2, TableEntries DEF Always
<1>3. temp \in Seq(Rocs) /\ DOMAIN temp = 1 .. Len(temp) /\ Len(temp) \in Nat
    BY FileRecords DEF Always, TypeOK
<1> HIDE DEF n, e
<1>4. /\ \A k \in DOMAIN temp : k \in DOMAIN temp' /\ temp'[k] = temp[k]
      /\ \A k \in DOMAIN temp' : k \in 1 .. Len(temp) + 1
      /\ \A k \in DOMAIN temp' : k \notin DOMAIN temp => temp'[k] = e.roc /\ preauth_pending(e)
      /\ preauth_pending(e) /\ Positions(e.roc, batch) # {} => Positions(e.roc, temp') # {}
    <2>1. CASE preauth_pending(e) /\ Positions(e.roc, batch) # {}
        <3>1. temp' = Append(temp, e.roc)
            BY <1>1, <2>1
        <3>2. /\ temp'[Len(temp) + 1] = e.roc
              /\ \A k \in DOMAIN temp : k \in DOMAIN temp' /\ temp'[k] = temp[k]
              /\ \A k \in DOMAIN temp' : k \in DOMAIN temp \/ k = Len(temp) + 1
            BY <1>2, <1>3, <3>1, Appended
        <3>3. Positions(e.roc, temp') # {}
            BY <1>2, <1>3, <3>1, AppendedPositions
        <3>4. \A k \in DOMAIN temp' : /\ k \in 1 .. Len(temp) + 1
                                      /\ k \notin DOMAIN temp => temp'[k] = e.roc
            BY <1>3, <3>2
        <3> QED BY <2>1, <3>2, <3>3, <3>4
    <2>2. CASE ~(preauth_pending(e) /\ Positions(e.roc, batch) # {})
        <3>1. temp' = temp
            BY <1>1, <2>2
        <3> QED BY <1>3, <2>2, <3>1
    <2> QED BY <2>1, <2>2
<1>5. \A k \in DOMAIN temp : \A i \in DOMAIN table : i > index => temp[k] < table[i].roc
    BY <1>1 DEF Unharmed, Ordered
<1>6. \A k \in DOMAIN temp : temp[k] < e.roc
    BY <1>2, <1>5 DEF n, e
<1>7. \A i \in DOMAIN table : i > n => e.roc < table[i].roc
    BY <1>2 DEF Unharmed, Ordered, AscendingRocs, e
<1>8. Ascending(temp')
    <2>1. Ascending(temp)
        BY <1>1 DEF Unharmed, Ordered
    <2> SUFFICES ASSUME NEW i \in DOMAIN temp', NEW j \in DOMAIN temp', i < j
                 PROVE  temp'[i] < temp'[j]
        BY DEF Ascending
    <2>2. i \in DOMAIN temp
        BY <1>3, <1>4
    <2>3. CASE j \in DOMAIN temp
        BY <1>4, <2>1, <2>2, <2>3 DEF Ascending
    <2>4. CASE j \notin DOMAIN temp
        BY <1>4, <1>6, <2>2, <2>4
    <2> QED BY <2>3, <2>4
<1>9. Ordered'
    <2>1. ASSUME NEW k \in DOMAIN temp', NEW i \in DOMAIN table, i > n
          PROVE  temp'[k] < table[i].roc
        <3>1. i > index
            BY <1>2, <2>1 DEF n
        <3>2. CASE k \in DOMAIN temp
            BY <1>4, <1>5, <3>1, <3>2
        <3>3. CASE k \notin DOMAIN temp
            BY <1>4, <1>7, <2>1, <3>3
        <3> QED BY <3>2, <3>3
    <2> QED BY <1>1, <1>8, <2>1 DEF Unharmed, Ordered
<1>10. Closed'
    <2>1. preauth_pending(e) => completions[e.roc] = 0
        <3>1. preauth_pending(e) => ~(completions[e.roc] > 0)
            BY <1>1, <1>2 DEF Unharmed, Closed, ClosedIn, preauth_pending, e
        <3> QED BY <1>2, <3>1, Scalars DEF Always
    <2>2. \A k \in DOMAIN temp' : completions[temp'[k]] = 0
        BY <1>1, <1>4, <2>1 DEF Unharmed, Closed
    <2> QED BY <1>1, <2>2 DEF Unharmed, Closed, ClosedIn
<1>11. InStep'
    BY <1>1 DEF Unharmed, InStep
<1>12. Held'
    <2>1. Open' = Open
        BY <1>1 DEF Open
    <2>2. \A q \in Open : Entered(q, tableFile) /\ Positions(q, batch) # {}
        BY <1>1 DEF Unharmed, Held
    <2>3. ASSUME NEW q \in Open
          PROVE  \/ Positions(q, temp') # {}
                 \/ \E i \in DOMAIN table : i > n /\ table[i] = [roc |-> q, out |-> FALSE]
        <3>1. CASE Positions(q, temp) # {}
            BY <1>4, <3>1 DEF Positions
        <3>2. ASSUME NEW i \in DOMAIN table, i > index, table[i] = [roc |-> q, out |-> FALSE]
              PROVE  Positions(q, temp') # {} \/ i > n
            <4>1. i > n \/ i = n
                BY <1>2, <3>2 DEF n
            <4>2. CASE i = n
                <5>1. e = [roc |-> q, out |-> FALSE]
                    BY <3>2, <4>2 DEF e
                <5>2. e.roc = q /\ preauth_pending(e)
                    BY <5>1 DEF Open, preauth_pending
                <5> QED BY <1>4, <2>2, <5>2
            <4> QED BY <4>1, <4>2
        <3> QED BY <1>1, <3>1, <3>2 DEF Unharmed, Held
    <2> QED BY <1>1, <2>1, <2>2, <2>3 DEF Held, Entered
<1> QED BY <1>9, <1>10, <1>11, <1>12 DEF Unharmed

(* The batch goes when all that is open is in the temporary file; giving up  *)
(* leaves no table, or it leaves harm.                                       *)
LEMMA DropBatchUnharmed == Always /\ Unharmed /\ DropBatch /\ harm' = {} => Unharmed'
<1> SUFFICES ASSUME Always, Unharmed, DropBatch, harm' = {} PROVE Unharmed'
    OBVIOUS
<1>1. /\ pc = "select" /\ index = Len(table) /\ batch' = <<>>
      /\ pc' = "drop table" \/ (pc' = "idle" /\ table = <<>>)
      /\ UNCHANGED <<table, tableFile, temp, expired, txn, completions, accepted>>
    BY DEF DropBatch, Purged
<1>2. tableFile \in {table, <<>>}
    BY <1>1 DEF Unharmed, InStep
<1>3. Ordered'
    <2>1. Ascending(<<>>)
        BY DEF Ascending
    <2> QED BY <1>1, <2>1 DEF Unharmed, Ordered
<1>4. Closed'
    BY <1>1 DEF Unharmed, Closed, ClosedIn
<1>5. InStep'
    <2>1. RocsOf(<<>>) = <<>>
        BY DEF RocsOf
    <2> QED BY <1>1, <1>2, <2>1 DEF InStep
<1>6. Held'
    <2>1. Open' = Open
        BY <1>1 DEF Open
    <2>2. \A q \in Open : Entered(q, tableFile) /\ Entered(q, table)
        BY <1>1, OpenInTable DEF Unharmed, Held
    <2>3. \A q \in Open : Positions(q, temp) # {}
        <3>1. \A i \in DOMAIN table : ~(i > index)
            <4>1. DOMAIN table = 1 .. Len(table) /\ Len(table) \in Nat /\ index = Len(table)
                BY <1>1, TableEntries DEF Always
            <4> QED BY <4>1
        <3> QED BY <1>1, <3>1 DEF Unharmed, Held
    <2>4. table = <<>> => Open = {}
        BY <2>2 DEF Entered
    <2> QED BY <1>1, <2>1, <2>2, <2>3, <2>4 DEF Held, Entered
<1> QED BY <1>3, <1>4, <1>5, <1>6 DEF Unharmed

LEMMA DropTableUnharmed == Always /\ Unharmed /\ DropTable /\ harm' = {} => Unharmed'
<1> SUFFICES ASSUME Always, Unharmed, DropTable, harm' = {} PROVE Unharmed'
    OBVIOUS
<1>1. pc = "drop table" /\ batch = <<>>
    BY DEF DropTable, Unharmed, InStep
<1>2. /\ tableFile' = <<>>
      /\ pc' = "write" \/ (pc' = "idle" /\ table = <<>>)
      /\ UNCHANGED <<table, batch, temp, expired, index, txn, completions, accepted>>
    BY <1>1 DEF DropTable, Purged
<1>3. Ordered' /\ Closed'
    <2>1. AscendingRocs(<<>>)
        BY DEF AscendingRocs
    <2>2. Ordered'
        BY <1>1, <1>2, <2>1 DEF Unharmed, Ordered
    <2>3. \A i \in DOMAIN tableFile' : FALSE
        BY <1>2
    <2>4. Closed'
        BY <1>1, <1>2, <2>3 DEF Unharmed, Closed, ClosedIn
    <2> QED BY <2>2, <2>4
<1>4. InStep'
    <2>1. RocsOf(<<>>) = <<>>
        BY DEF RocsOf
    <2> QED BY <1>1, <1>2, <2>1 DEF InStep
<1>5. Held'
    <2>1. Open' = Open
        BY <1>2 DEF Open
    <2>2. \A q \in Open : Entered(q, table) /\ Positions(q, temp) # {}
        BY <1>1, OpenInTable DEF Unharmed, Held
    <2>3. table = <<>> => Open = {}
        BY <2>2 DEF Entered
    <2> QED BY <1>2, <2>1, <2>2, <2>3 DEF Held
<1> QED BY <1>3, <1>4, <1>5 DEF Unharmed

(* The new table has the entries of the temporary file, or they have all     *)
(* expired.                                                                  *)
LEMMA WriteTableUnharmed == Always /\ Unharmed /\ WriteTable => Unharmed'
<1> SUFFICES ASSUME Always, Unharmed, WriteTable PROVE Unharmed'
    OBVIOUS
<1>1. /\ pc = "write" /\ pc' = "move"
      /\ \/ tableFile' = KeptEntries /\ table' = table /\ batch' = batch
         \/ PendingIn(KeptEntries) = {} /\ Destroyed
      /\ UNCHANGED <<temp, expired, index, txn, completions, accepted>>
    BY DEF WriteTable, KeptEntries
<1>2. table' \in {table, <<>>} /\ batch' \in {batch, <<>>} /\ tableFile' \in {KeptEntries, <<>>}
    BY <1>1, DestroyedFiles
<1>3. /\ DOMAIN KeptEntries = DOMAIN temp
      /\ \A i \in DOMAIN temp : KeptEntries[i] = [roc |-> temp[i], out |-> FALSE]
    BY KeptTable DEF Always
<1>4. Ordered'
    <2>1. AscendingRocs(KeptEntries)
        BY <1>1, <1>3 DEF Unharmed, Ordered, Ascending, AscendingRocs
    <2>2. AscendingRocs(<<>>) /\ Ascending(<<>>)
        BY DEF AscendingRocs, Ascending
    <2>3. AscendingRocs(table') /\ AscendingRocs(tableFile') /\ Ascending(batch')
        BY <1>2, <2>1, <2>2 DEF Unharmed, Ordered
    <2> QED BY <1>1, <2>3 DEF Unharmed, Ordered
<1>5. Closed'
    <2>1. \A i \in DOMAIN KeptEntries : completions[KeptEntries[i].roc] = 0
        BY <1>1, <1>3 DEF Unharmed, Closed
    <2>2. \A t \in {table, KeptEntries, <<>>} : \A i \in DOMAIN t :
            completions[t[i].roc] > 0 => t[i].out
        BY <1>1, <2>1 DEF Unharmed, Closed, ClosedIn
    <2>3. ClosedIn(table)' /\ ClosedIn(tableFile)'
        BY <1>1, <1>2, <2>2 DEF ClosedIn
    <2> QED BY <1>1, <2>3 DEF Unharmed, Closed
<1>6. InStep'
    <2>1. KeptEntries' = KeptEntries
        BY <1>1 DEF KeptEntries
    <2>2. PendingIn(KeptEntries) = {} => \A k \in DOMAIN temp : temp[k] \in expired
        BY <1>3 DEF PendingIn, preauth_pending
    <2> QED BY <1>1, <2>1, <2>2, DestroyedFiles DEF InStep
<1>7. Held'
    <2>1. Open' = Open
        BY <1>1 DEF Open
    <2> QED BY <1>1, <2>1 DEF Unharmed, Held
<1> QED BY <1>4, <1>5, <1>6, <1>7 DEF Unharmed

(* The records of the new batch are those of the new table.                  *)
LEMMA MoveBatchUnharmed == Always /\ Unharmed /\ MoveBatch /\ harm' = {} => Unharmed'
<1> SUFFICES ASSUME Always, Unharmed, MoveBatch, harm' = {} PROVE Unharmed'
    OBVIOUS
<1>1. /\ pc = "move" /\ pc' = "idle" /\ batch' = temp /\ table' = Loaded
      /\ RocsOf(table') = batch'
      /\ UNCHANGED <<tableFile, expired, index, txn, completions, accepted>>
    BY DEF MoveBatch
<1>2. table' \in {table, tableFile} /\ tableFile \in {table', <<>>}
    BY <1>1 DEF Loaded
<1>3. Ordered' /\ Closed'
    BY <1>1, <1>2 DEF Unharmed, Ordered, Closed, ClosedIn
<1>4. InStep'
    BY <1>1, <1>2 DEF InStep
<1>5. Held'
    <2>1. Open' = Open
        BY <1>1 DEF Open
    <2>2. \A q \in Open : Positions(q, temp) # {}
        BY <1>1 DEF Unharmed, Held
    <2>3. ASSUME NEW q \in Open PROVE Entered(q, tableFile)
        <3>1. PICK k \in DOMAIN temp : temp[k] = q
            BY <2>2 DEF Positions
        <3>2. q \notin expired
            BY DEF Open
        <3>3. tableFile = KeptEntries
            BY <1>1, <3>1, <3>2 DEF Unharmed, InStep
        <3>4. k \in DOMAIN KeptEntries /\ KeptEntries[k] = [roc |-> q, out |-> FALSE]
            BY <3>1, KeptTable DEF Always
        <3> QED BY <3>3, <3>4 DEF Entered
    <2> QED BY <1>1, <2>1, <2>2, <2>3 DEF Held, Entered
<1> QED BY <1>3, <1>4, <1>5 DEF Unharmed

(* A power failure that cuts nothing finds the files as they should be.      *)
LEMMA PowerFailUnharmed == Always /\ Unharmed /\ PowerFail /\ harm' = {} => Unharmed'
<1> SUFFICES ASSUME Always, Unharmed, PowerFail, harm' = {} PROVE Unharmed'
    OBVIOUS
<1>1. /\ pc \notin {"update", "drop table", "write", "move"} /\ pc' = "purge" /\ table' = tableFile
      /\ UNCHANGED <<tableFile, batch, temp, expired, completions, accepted>>
    BY DEF PowerFail, files
<1>2. Ordered' /\ Closed'
    BY <1>1 DEF Unharmed, Ordered, Closed, ClosedIn
<1>3. InStep'
    BY <1>1 DEF InStep
<1>4. Held'
    BY <1>1 DEF Unharmed, Held, Entered, Open
<1> QED BY <1>2, <1>3, <1>4 DEF Unharmed

LEMMA PreauthInit == Init => PInv
<1> SUFFICES ASSUME Init PROVE PInv
    OBVIOUS
<1>1. /\ table = <<>> /\ tableFile = <<>> /\ batch = <<>> /\ pc = "idle"
      /\ completions = [r \in Rocs |-> 0] /\ accepted = {}
    BY DEF Init
<1>2. Ordered /\ Closed
    BY <1>1 DEF Ordered, AscendingRocs, Ascending, Closed, ClosedIn
<1>3. InStep
    <2>1. RocsOf(<<>>) = <<>>
        BY DEF RocsOf
    <2> QED BY <1>1, <2>1 DEF InStep
<1>4. Held
    <2>1. Open = {}
        BY <1>1 DEF Open
    <2> QED BY <1>1, <2>1 DEF Held
<1> QED BY <1>2, <1>3, <1>4, AlwaysInit DEF PInv, Unharmed

(* Harm is never forgotten. *)
LEMMA HarmStays == [Next]_vars => harm \subseteq harm'
BY DEF Next, vars, Purge, StoreRecord, StoreEntry, Expire, Recall, QueueCompletion, UpdateEntry,
       StartPurge, DeleteAll, LoadPending, SelectEntry, DropBatch, DropTable, WriteTable,
       MoveBatch, PowerFail, Purged

LEMMA PreauthNext == PInv /\ [Next]_vars => PInv'
<1> SUFFICES ASSUME PInv, [Next]_vars PROVE PInv'
    OBVIOUS
<1>1. Always /\ Always'
    BY AlwaysNext DEF PInv
<1>2. SUFFICES ASSUME harm' = {} PROVE Unharmed'
    BY <1>1 DEF PInv
<1>3. Unharmed
    BY <1>2, HarmStays DEF PInv
<1>4. CASE UNCHANGED vars
    <2>1. UNCHANGED <<table, tableFile, batch, temp, expired, txn, index, pc, completions, accepted>>
        BY <1>4 DEF vars
    <2>2. Ordered' /\ Closed'
        BY <1>3, <2>1 DEF Unharmed, Ordered, Closed, ClosedIn
    <2>3. InStep'
        BY <1>3, <2>1 DEF Unharmed, InStep, RocsOf, KeptEntries
    <2>4. Held'
        BY <1>3, <2>1 DEF Unharmed, Held, Open, Entered
    <2> QED BY <2>2, <2>3, <2>4 DEF Unharmed
<1>5. CASE Next
    BY <1>1, <1>2, <1>3, <1>5, StoreRecordUnharmed, StoreEntryUnharmed, ExpireUnharmed,
       RecallUnharmed, QueueCompletionUnharmed, UpdateEntryUnharmed, StartPurgeUnharmed,
       DeleteAllUnharmed, LoadPendingUnharmed, SelectEntryUnharmed, DropBatchUnharmed,
       DropTableUnharmed, WriteTableUnharmed, MoveBatchUnharmed, PowerFailUnharmed DEF Next, Purge
<1> QED BY <1>4, <1>5

(* An open pre-authorisation can be completed until it expires: the table in *)
(* RAM, its file and the batch have it at one position, however many were    *)
(* stored, completed or purged, unless a purge left a stale table or the     *)
(* power failed inside it.                                                   *)
THEOREM OpenStaysCompletable == Spec => []StaysCompletable
<1>1. PInv => StaysCompletable
    <2> SUFFICES ASSUME PInv, pc = "idle", harm = {},
                        NEW r \in accepted \ expired, completions[r] = 0
                 PROVE  \E i \in DOMAIN batch :
                            /\ batch[i] = r
                            /\ i \in DOMAIN table /\ table[i] = [roc |-> r, out |-> FALSE]
                            /\ tableFile = table
        BY DEF StaysCompletable
    <2>1. Unharmed /\ Always
        BY DEF PInv
    <2>2. r \in Open
        BY DEF Open
    <2>3. Entered(r, table) /\ tableFile = table
        BY <2>1, <2>2, OpenInTable
    <2>4. PICK i \in DOMAIN table : table[i] = [roc |-> r, out |-> FALSE]
        BY <2>3 DEF Entered
    <2>5. batch = RocsOf(table)
        BY <2>1 DEF Unharmed, InStep
    <2>6. i \in DOMAIN batch /\ batch[i] = r
        BY <2>1, <2>4, <2>5, RocsOfTable DEF Always, TypeOK
    <2> QED BY <2>3, <2>4, <2>6
<1> QED BY <1>1, PreauthInit, PreauthNext, PTL DEF Spec

(* A completed pre-authorisation was completed once and cannot be recalled,  *)
(* with the same exceptions.                                                 *)
THEOREM CompletedStaysClosed == Spec => []CompletedIsClosed
<1>1. PInv => CompletedIsClosed
    <2> SUFFICES ASSUME PInv, pc = "idle", harm = {}, NEW r \in Rocs, completions[r] > 0
                 PROVE  /\ completions[r] = 1
                        /\ \A i \in DOMAIN table : table[i].roc = r => ~preauth_pending(table[i])
        BY DEF CompletedIsClosed
    <2>1. Unharmed /\ Always
        BY DEF PInv
    <2>2. completions[r] \in 0 .. 2 /\ completions[r] <= 1
        BY <2>1, Scalars DEF Always, Unharmed, Closed
    <2>3. \A i \in DOMAIN table : table[i].roc = r => table[i].out
        BY <2>1 DEF Unharmed, Closed, ClosedIn
    <2> QED BY <2>2, <2>3 DEF preauth_pending
<1> QED BY <1>1, PreauthInit, PreauthNext, PTL DEF Spec

=============================================================================
