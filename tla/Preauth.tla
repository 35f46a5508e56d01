------------------------------ MODULE Preauth ------------------------------
(***************************************************************************)
(* Pre-authorisations (saf.c): a table of open ones, in RAM and in a file, *)
(* and a batch file of their records, kept in step by position.  A         *)
(* completion recalls the record by its reference (roc), queues it for the *)
(* host, marks the table and has both files purged of what is completed or *)
(* expired; the purge also runs at every start.                            *)
(*                                                                         *)
(* A pre-authorisation is the number of its roc, in the order of approval; *)
(* an empty sequence stands for a file that does not exist.                *)
(***************************************************************************)
EXTENDS Integers, Sequences, FiniteSets, SequencesExt

CONSTANTS
    MaxPreauths,        \* bound: pre-authorisations approved
    Capacity,           \* PREAUTH_SAF_RECORD_COUNT
    MaxFailures,        \* bound: power failures
    MaxPurges,          \* bound: purges and deletions from the menu
    MissingDeleteFails  \* vim_file_delete of a file that is not there is an error

Rocs == 1 .. MaxPreauths
None == 0
MaxCompletions == 2 \* bound: completions of one pre-authorisation

ASSUME PreauthAssumption ==
    /\ MaxPreauths \in Nat /\ Capacity \in Nat
    /\ MaxFailures \in Nat /\ MaxPurges \in Nat
    /\ MissingDeleteFails \in BOOLEAN

VARIABLES
    table,       \* preauth_saf_table
    tableFile,   \* the file patable
    batch,       \* the file pasaf: the rocs of its records
    temp,        \* the file pa_tempfile.bin
    expired,     \* the rocs more than STORE_TIME old
    txn,         \* the current transaction: its roc, and original_index
    index,       \* the entries that the loop of a purge is through with
    pc,          \* where the thread is
    completions, \* completions queued for the host, by roc
    accepted,    \* approved and stored, and not deleted from the menu
    approved, failures, purges, \* counters
    harm         \* "stale": a purge left a table in RAM and no batch;
                 \* "cut": the power failed inside a completion or a purge

vars == <<table, tableFile, batch, temp, expired, txn, index, pc, completions,
          accepted, approved, failures, purges, harm>>
files == <<tableFile, batch, temp>>
counters == <<approved, failures, purges>>

-----------------------------------------------------------------------------
Entries == [roc : Rocs, out : BOOLEAN]
NoTxn == [roc |-> None, index |-> 0]

preauth_pending(e) == e.roc \notin expired /\ ~e.out
PendingIn(t) == {i \in DOMAIN t : preauth_pending(t[i])}

\* preauth_load_table: without a file the table in RAM stays
Loaded == IF tableFile = <<>> THEN table ELSE tableFile

pre_auth_batch_full == Cardinality(PendingIn(Loaded)) >= Capacity

\* pa_destroy_batch: the table is cleared only if its file was there to delete
Destroyed ==
    /\ batch' = <<>>
    /\ tableFile' = <<>>
    /\ table' = IF tableFile = <<>> /\ MissingDeleteFails THEN table ELSE <<>>

\* preauth_save_table of the table in RAM: with nothing pending the files go
Saved(t) ==
    IF PendingIn(t) # {} THEN table' = t /\ tableFile' = t /\ UNCHANGED batch
    ELSE IF tableFile = <<>> /\ MissingDeleteFails
         THEN batch' = <<>> /\ table' = t /\ UNCHANGED tableFile
         ELSE batch' = <<>> /\ tableFile' = <<>> /\ table' = <<>>

Positions(r, s) == {i \in DOMAIN s : s[i] = r}
First(r, s) == CHOOSE i \in Positions(r, s) : \A j \in Positions(r, s) : i <= j
RocsOf(t) == [i \in DOMAIN t |-> t[i].roc]

-----------------------------------------------------------------------------
(* An approved pre-authorisation is stored. *)

\* saf_add_record: the record
StoreRecord ==
    /\ pc = "idle" /\ approved < MaxPreauths
    /\ approved' = approved + 1
    /\ table' = Loaded
    /\ \/ /\ ~pre_auth_batch_full
          /\ batch' = Append(batch, approved + 1)
          /\ txn' = [roc |-> approved + 1, index |-> 0]
          /\ pc' = "store"
       \/ /\ pre_auth_batch_full
          /\ UNCHANGED <<batch, txn, pc>>
    /\ UNCHANGED <<tableFile, temp, expired, index, completions, accepted, failures, purges, harm>>

\* Mutation: the entry gets the index of the record, not its roc
StoreEntry_RocIndex ==
    /\ pc = "store"
    /\ Saved(Append(Loaded, [roc |-> txn.index, out |-> FALSE]))
    /\ accepted' = accepted \cup {txn.roc}
    /\ txn' = NoTxn
    /\ pc' = "idle"
    /\ UNCHANGED <<temp, expired, index, completions, counters, harm>>

\* preauth_table_add_record
StoreEntry ==
    /\ pc = "store"
    /\ Saved(Append(Loaded, [roc |-> txn.roc, out |-> FALSE]))
    /\ accepted' = accepted \cup {txn.roc}
    /\ txn' = NoTxn
    /\ pc' = "idle"
    /\ UNCHANGED <<temp, expired, index, completions, counters, harm>>

\* preauth_expired: a week has passed since the oldest one
Expire ==
    /\ Cardinality(expired) < approved
    /\ pc = "store" => Cardinality(expired) + 1 # txn.roc
    /\ expired' = expired \cup {Cardinality(expired) + 1}
    /\ UNCHANGED <<table, files, txn, index, pc, completions, accepted, counters, harm>>

-----------------------------------------------------------------------------
(* A completion. *)

\* Mutation: the index is the entry's place in the table
Recall_TableIndex(r) ==
    LET s == RocsOf(table') IN
    /\ pc = "idle" /\ completions[r] < MaxCompletions
    /\ table' \in {table, Loaded}
    /\ Positions(r, s) # {} /\ preauth_pending(table'[First(r, s)])
    /\ Positions(r, batch) # {} /\ First(r, s) <= Len(batch)
    /\ txn' = [roc |-> r, index |-> First(r, s)]
    /\ pc' = "commit"
    /\ UNCHANGED <<files, expired, index, completions, accepted, counters, harm>>

\* saf_search_for_roc_tt in the table, pa_read_record in the batch: CompletePA
\* searches the table in RAM, txn_confirm_details and the menu load it first.
Recall(r) ==
    LET s == RocsOf(table') IN
    /\ pc = "idle" /\ completions[r] < MaxCompletions
    /\ table' \in {table, Loaded}
    /\ Positions(r, s) # {} /\ preauth_pending(table'[First(r, s)])
    /\ Positions(r, batch) # {}
    /\ txn' = [roc |-> r, index |-> First(r, batch)]
    /\ pc' = "commit"
    /\ UNCHANGED <<files, expired, index, completions, accepted, counters, harm>>

\* txn_commit: the record of the batch goes to the SAF queue
QueueCompletion ==
    /\ pc = "commit"
    /\ completions' = [completions EXCEPT ![batch[txn.index]] = @ + 1]
    /\ pc' = "update"
    /\ UNCHANGED <<table, files, expired, index, txn, accepted, counters, harm>>

\* Mutation: the entry keeps its old status
UpdateEntry_NotMarked ==
    /\ pc = "update"
    /\ Saved([i \in DOMAIN table |->
                IF i = txn.index THEN [roc |-> batch[i], out |-> FALSE] ELSE table[i]])
    /\ txn' = NoTxn
    /\ pc' = "purge"
    /\ UNCHANGED <<temp, expired, index, completions, accepted, counters, harm>>

\* preauth_table_update_record, with the index of the record in the batch
UpdateEntry ==
    /\ pc = "update"
    /\ Saved([i \in DOMAIN table |->
                IF i = txn.index THEN [roc |-> batch[i], out |-> TRUE] ELSE table[i]])
    /\ txn' = NoTxn
    /\ pc' = "purge"
    /\ UNCHANGED <<temp, expired, index, completions, accepted, counters, harm>>

-----------------------------------------------------------------------------
(* PurgePreauthFiles. *)

\* from the menu, which can also delete everything
StartPurge ==
    /\ pc = "idle" /\ purges < MaxPurges
    /\ purges' = purges + 1
    /\ pc' = "purge"
    /\ UNCHANGED <<table, files, expired, index, txn, completions, accepted, approved, failures, harm>>

DeleteAll ==
    /\ pc = "idle" /\ purges < MaxPurges
    /\ purges' = purges + 1
    /\ Destroyed
    /\ accepted' = {}
    /\ harm' = IF table' # <<>> THEN harm \cup {"stale"} ELSE harm
    /\ UNCHANGED <<temp, expired, index, txn, pc, completions, approved, failures>>

\* the table is loaded, and the temporary file of an earlier purge deleted
LoadPending ==
    /\ pc = "purge"
    /\ table' = Loaded
    /\ temp' = <<>>
    /\ index' = 0
    /\ pc' = "select"
    /\ UNCHANGED <<tableFile, batch, expired, txn, completions, accepted, counters, harm>>

\* Mutation: the last entry of the table is left out
SelectEntry_Short ==
    /\ pc = "select" /\ index < Len(table)
    /\ index' = index + 1
    /\ LET e == table[index + 1] IN
       temp' = IF /\ preauth_pending(e) /\ Positions(e.roc, batch) # {}
                  /\ index + 1 < Len(table)
               THEN Append(temp, e.roc) ELSE temp
    /\ UNCHANGED <<table, tableFile, batch, expired, txn, pc, completions, accepted,
                   counters, harm>>

\* an entry that is pending and has its record goes to a temporary table and file
SelectEntry ==
    /\ pc = "select" /\ index < Len(table)
    /\ index' = index + 1
    /\ LET e == table[index + 1] IN
       temp' = IF preauth_pending(e) /\ Positions(e.roc, batch) # {}
               THEN Append(temp, e.roc) ELSE temp
    /\ UNCHANGED <<table, tableFile, batch, expired, txn, pc, completions, accepted,
                   counters, harm>>

\* the purge is over, or given up: a table stays in RAM
Purged ==
    /\ pc' = "idle"
    /\ harm' = IF table' # <<>> /\ batch' = <<>> THEN harm \cup {"stale"} ELSE harm

DropBatch ==
    /\ pc = "select" /\ index = Len(table)
    /\ index' = 0
    /\ batch' = <<>>
    /\ IF batch = <<>> /\ MissingDeleteFails
       THEN UNCHANGED table /\ Purged
       ELSE pc' = "drop table" /\ UNCHANGED <<table, harm>>
    /\ UNCHANGED <<tableFile, temp, expired, txn, completions, accepted, counters>>

DropTable ==
    /\ pc = "drop table"
    /\ UNCHANGED <<table, batch>>
    /\ tableFile' = <<>>
    /\ IF (tableFile = <<>> /\ MissingDeleteFails) \/ temp = <<>>
       THEN Purged
       ELSE pc' = "write" /\ UNCHANGED harm
    /\ UNCHANGED <<temp, expired, index, txn, completions, accepted, counters>>

\* the temporary table is saved as the new one; if its entries have expired
\* meanwhile there is nothing to save
WriteTable ==
    LET kept == [i \in DOMAIN temp |-> [roc |-> temp[i], out |-> FALSE]] IN
    /\ pc = "write"
    /\ IF PendingIn(kept) # {}
       THEN tableFile' = kept /\ UNCHANGED <<table, batch>>
       ELSE Destroyed
    /\ pc' = "move"
    /\ UNCHANGED <<temp, expired, index, txn, completions, accepted, counters, harm>>

\* the temporary file becomes the batch, and the table is loaded
MoveBatch ==
    /\ pc = "move"
    /\ batch' = temp
    /\ temp' = <<>>
    /\ table' = Loaded
    /\ pc' = "idle"
    /\ harm' = IF RocsOf(table') # batch' THEN harm \cup {"stale"} ELSE harm
    /\ UNCHANGED <<tableFile, expired, index, txn, completions, accepted, counters>>

\* the power fails and comes back: the table is loaded and the files are purged
PowerFail ==
    /\ failures < MaxFailures
    /\ failures' = failures + 1
    /\ table' = tableFile
    /\ txn' = NoTxn /\ index' = 0
    /\ pc' = "purge"
    /\ harm' = IF pc \in {"update", "drop table", "write", "move"} THEN harm \cup {"cut"} ELSE harm
    /\ UNCHANGED <<files, expired, completions, accepted, approved, purges>>

-----------------------------------------------------------------------------
Init ==
    /\ table = <<>> /\ tableFile = <<>> /\ batch = <<>> /\ temp = <<>>
    /\ expired = {}
    /\ txn = NoTxn /\ index = 0
    /\ pc = "idle"
    /\ completions = [r \in Rocs |-> 0]
    /\ accepted = {}
    /\ approved = 0 /\ failures = 0 /\ purges = 0
    /\ harm = {}

Purge == LoadPending \/ SelectEntry \/ DropBatch \/ DropTable \/ WriteTable \/ MoveBatch

Next ==
    \/ StoreRecord \/ StoreEntry \/ Expire
    \/ \E r \in Rocs : Recall(r)
    \/ QueueCompletion \/ UpdateEntry
    \/ StartPurge \/ DeleteAll \/ Purge \/ PowerFail

Spec == Init /\ [][Next]_vars

-----------------------------------------------------------------------------
(* Properties. *)

TypeOK ==
    /\ table \in Seq(Entries) /\ tableFile \in Seq(Entries)
    /\ batch \in Seq(Rocs) /\ temp \in Seq(Rocs)
    /\ expired \subseteq Rocs /\ accepted \subseteq Rocs
    /\ txn \in [roc : Rocs \cup {None}, index : 0 .. MaxPreauths]
    /\ index \in 0 .. MaxPreauths
    /\ pc \in {"idle", "store", "commit", "update", "purge", "select",
               "drop table", "write", "move"}
    /\ completions \in [Rocs -> 0 .. MaxCompletions]
    /\ approved \in 0 .. MaxPreauths
    /\ failures \in 0 .. MaxFailures /\ purges \in 0 .. MaxPurges
    /\ harm \subseteq {"stale", "cut"}

\* Unless a purge left a stale table or the power failed inside it, an open
\* pre-authorisation stands at one position in RAM, in its file and in the batch,
\* so that it can be completed until it expires.
StaysCompletable ==
    pc = "idle" /\ harm = {} =>
        \A r \in accepted \ expired : completions[r] = 0 =>
            \E i \in DOMAIN batch :
                /\ batch[i] = r
                /\ i \in DOMAIN table /\ table[i] = [roc |-> r, out |-> FALSE]
                /\ tableFile = table

\* Unless harmed in the same way, a completed pre-authorisation cannot be
\* recalled, so that none is completed twice.
CompletedIsClosed ==
    pc = "idle" /\ harm = {} =>
        \A r \in Rocs : completions[r] > 0 =>
            /\ completions[r] = 1
            /\ \A i \in DOMAIN table : table[i].roc = r => ~preauth_pending(table[i])

\* Only what the host approved and the terminal stored is completed, also after
\* harm: a completion never takes the record of another pre-authorisation.
CompletesItsOwn ==
    [][\A r \in Rocs : completions'[r] # completions[r] => txn.roc = r /\ r <= approved]_vars
=============================================================================
