-------------------------- MODULE SafQueue_proofs ---------------------------
(***************************************************************************)
(* Theorems about SafQueue, for all constants that satisfy SafAssumption.  *)
(***************************************************************************)
EXTENDS SafQueue, FiniteSetTheorems, NaturalsInduction, WellFoundedInduction, TLAPS

(* First picks the least index. *)
LEMMA FirstIsLeast ==
  ASSUME NEW S, S \subseteq Nat, S # {}
  PROVE  First(S) \in S /\ \A j \in S : First(S) <= j
<1> DEFINE R == {p \in Nat \X Nat : p[1] < p[2]}
<1>1. IsWellFoundedOn(R, Nat)
  <2>1. OpToRel(<, Nat) = R
    BY DEF OpToRel
  <2> QED
    BY <2>1, NatLessThanWellFounded
<1>2. \E x \in S : \A y \in S : x <= y
  <2>1. PICK x \in S : \A y \in S : ~ (<<y, x>> \in R)
    BY <1>1, WFMin
  <2>2. \A y \in S : ~ (y < x)
    BY <2>1
  <2> QED
    BY <2>2
<1> QED
  BY <1>2 DEF First

(* The counts saf_pending_count takes from a batch are numbers. *)
LEMMA CountsAreNumbers ==
  ASSUME NEW b \in Seq(Records)
  PROVE  /\ IsFiniteSet(Unsent(b)) /\ Cardinality(Unsent(b)) \in Nat
         /\ IsFiniteSet(Prints(b)) /\ Cardinality(Prints(b)) \in Nat
<1>1. DOMAIN b = 1..Len(b) /\ Len(b) \in Nat
  OBVIOUS
<1>2. IsFiniteSet(DOMAIN b)
  BY <1>1, FS_Interval
<1>3. Unsent(b) \in SUBSET DOMAIN b /\ Prints(b) \in SUBSET DOMAIN b
  BY DEF Unsent, Prints
<1> QED
  BY <1>2, <1>3, FS_Subset, FS_CardinalityType

\* b is the batch with the flags of record i changed
Reflagged(b, i, on, off) ==
    /\ DOMAIN b = DOMAIN batch
    /\ \A j \in DOMAIN batch :
         /\ b[j].advice = batch[j].advice
         /\ b[j].status = IF j = i THEN (batch[j].status \ off) \cup on
                                   ELSE batch[j].status

(* Changing the flags of one record keeps the records and their advices. *)
LEMMA WithStatusKeepsRecords ==
  ASSUME batch \in Seq(Records), NEW i, NEW on \in SUBSET Flags, NEW off \in SUBSET Flags
  PROVE  /\ WithStatus(i, on, off) \in Seq(Records)
         /\ Reflagged(WithStatus(i, on, off), i, on, off)
<1> DEFINE b == WithStatus(i, on, off)
<1>1. DOMAIN batch = 1..Len(batch) /\ Len(batch) \in Nat
  OBVIOUS
<1>2. \A j \in DOMAIN batch : batch[j] \in Records
  OBVIOUS
<1>3. DOMAIN b = DOMAIN batch
  BY DEF WithStatus
<1>4. \A j \in DOMAIN batch :
        /\ b[j] \in Records
        /\ b[j].advice = batch[j].advice
        /\ b[j].status = IF j = i THEN (batch[j].status \ off) \cup on
                                  ELSE batch[j].status
  BY <1>2 DEF WithStatus, Records
<1>5. b \in [1..Len(batch) -> Records]
  BY <1>1, <1>3, <1>4 DEF WithStatus
<1>6. b \in Seq(Records)
  BY <1>1, <1>5
<1> QED
  BY <1>3, <1>4, <1>6 DEF Reflagged

-----------------------------------------------------------------------------
(* Types: what the file operations leave behind. *)

Stores == [batch : Seq(Records), saved : Totals \cup {Missing}, totals : Totals]

(* The totals of an empty queue have the type of totals. *)
LEMMA ZeroTotalsTyped == ZeroTotals \in Totals
  BY DEF ZeroTotals, Totals

(* Recounting, destroying or deleting leaves well-typed files and totals. *)
LEMMA StoresTyped ==
  ASSUME TypeOK
  PROVE  /\ Recounted(totals, batch) \in Totals
         /\ \A s \in Totals \cup {Missing}, t \in Totals :
              Store(batch, s, t) \in Stores /\ Destroyed(s, t) \in Stores
         /\ \A i : Deleted(i) \in Stores
<1> USE DEF TypeOK
<1>1. Recounted(totals, batch) \in Totals
  BY CountsAreNumbers DEF Recounted, Totals
<1>2. <<>> \in Seq(Records)
  OBVIOUS
<1>3. \A b \in Seq(Records), s \in Totals \cup {Missing}, t \in Totals :
         Store(b, s, t) \in Stores
  BY DEF Store, Stores
<1>4. \A s \in Totals \cup {Missing}, t \in Totals : Destroyed(s, t) \in Stores
  BY <1>2, <1>3, ZeroTotalsTyped DEF Destroyed
<1>5. ASSUME NEW i PROVE Deleted(i) \in Stores
  <2> DEFINE t == [totals EXCEPT !.print = IF @ # 0 THEN @ - 1 ELSE @]
  <2>1. t \in Totals
    BY DEF Totals
  <2>2. WithStatus(i, {"deleted_offline"}, {"needs_sending"}) \in Seq(Records)
    BY WithStatusKeepsRecords DEF Flags
  <2> QED
    BY <1>2, <1>3, <2>1, <2>2, ZeroTotalsTyped DEF Deleted
<1> QED
  BY <1>1, <1>3, <1>4, <1>5

-----------------------------------------------------------------------------
(* The inductive invariant. *)

\* an advice has one record; a record stands for an accepted advice
OneRecordEach ==
    /\ \A i, j \in DOMAIN batch :
         batch[i].advice = batch[j].advice /\ batch[i].advice # Reversal => i = j
    /\ \A i \in DOMAIN batch :
         /\ batch[i].advice \in accepted \cup {Reversal}
         /\ batch[i].advice = Reversal => "needs_sending" \notin batch[i].status

\* without the repeat flag in the file nothing was transmitted
UnflaggedNotSent ==
    /\ \A a \in Advices \ accepted : originals[a] = 0
    /\ \A i \in DOMAIN batch :
         batch[i].advice # Reversal /\ "repeat_saf" \notin batch[i].status
           => originals[batch[i].advice] = 0

\* between the selection of a record and its transmission
SelectedFlagged ==
    /\ pc \in {"send", "wait"} => job.index \in DOMAIN batch /\ Here # Reversal
    /\ pc = "send" => /\ "repeat_saf" \in batch[job.index].status
                      /\ job.msg = "0220" => originals[Here] = 0

IInv == TypeOK /\ OneRecordEach /\ UnflaggedNotSent /\ SelectedFlagged /\ OriginalOnce

\* what every step but a store does to the records
Keeps(b) ==
    \/ b = <<>>
    \/ /\ DOMAIN b = DOMAIN batch
       /\ \A i \in DOMAIN batch :
            /\ b[i].advice = batch[i].advice
            /\ "repeat_saf" \in batch[i].status => "repeat_saf" \in b[i].status
            /\ "needs_sending" \in b[i].status => "needs_sending" \in batch[i].status

(* Every file operation of an upload, a print or a deletion keeps the records. *)
LEMMA StoresKeep ==
  ASSUME TypeOK
  PROVE  /\ Keeps(batch)
         /\ \A i : \A on \in SUBSET Flags, off \in SUBSET Flags :
              "needs_sending" \notin on /\ "repeat_saf" \notin off
                => Keeps(WithStatus(i, on, off))
         /\ \A s, t : Keeps(Store(batch, s, t).batch) /\ Keeps(Destroyed(s, t).batch)
         /\ \A i : Keeps(Deleted(i).batch)
<1>1. Keeps(batch)
  BY DEF Keeps
<1>2. ASSUME NEW i, NEW on \in SUBSET Flags, NEW off \in SUBSET Flags,
             "needs_sending" \notin on, "repeat_saf" \notin off
      PROVE  Keeps(WithStatus(i, on, off))
  <2>1. Reflagged(WithStatus(i, on, off), i, on, off)
    BY WithStatusKeepsRecords DEF TypeOK
  <2>2. ASSUME NEW b, Reflagged(b, i, on, off) PROVE Keeps(b)
    BY <1>2, <2>2 DEF Reflagged, Keeps
  <2> QED
    BY <2>1, <2>2
<1>3. \A s, t : Keeps(Store(batch, s, t).batch) /\ Keeps(Destroyed(s, t).batch)
  BY <1>1 DEF Store, Destroyed, Keeps
<1>4. ASSUME NEW i PROVE Keeps(Deleted(i).batch)
  <2>1. Keeps(WithStatus(i, {"deleted_offline"}, {"needs_sending"}))
    <3>1. {"deleted_offline"} \in SUBSET Flags /\ {"needs_sending"} \in SUBSET Flags
      BY DEF Flags
    <3> QED
      BY <1>2, <3>1
  <2> QED
    BY <2>1 DEF Deleted, Store, Keeps
<1> QED
  BY <1>1, <1>2, <1>3, <1>4

(* A step that keeps the records, the accepted advices and the transmissions *)
(* preserves the two invariants on records.                                  *)
LEMMA KeepsPreserves ==
  ASSUME IInv, TypeOK', Keeps(batch'), UNCHANGED <<originals, accepted>>
  PROVE  OneRecordEach' /\ UnflaggedNotSent' /\ OriginalOnce'
<1>1. OriginalOnce'
  BY DEF IInv, OriginalOnce
<1>2. CASE batch' = <<>>
  BY <1>1, <1>2 DEF IInv, OneRecordEach, UnflaggedNotSent
<1>3. CASE batch' # <<>>
  <2>1. /\ DOMAIN batch' = DOMAIN batch
        /\ \A i \in DOMAIN batch :
             /\ batch'[i].advice = batch[i].advice
             /\ "repeat_saf" \in batch[i].status => "repeat_saf" \in batch'[i].status
             /\ "needs_sending" \in batch'[i].status => "needs_sending" \in batch[i].status
    BY <1>3 DEF Keeps
  <2>2. OneRecordEach'
    BY <2>1 DEF IInv, OneRecordEach
  <2>3. UnflaggedNotSent'
    BY <2>1 DEF IInv, UnflaggedNotSent
  <2> QED
    BY <1>1, <2>2, <2>3
<1> QED
  BY <1>2, <1>3

(* The record an upload selects is in the file and waits for sending. *)
LEMMA MatchingRecord ==
  ASSUME TypeOK, NEW flag, NEW from, Matching(flag, from) # {}
  PROVE  /\ First(Matching(flag, from)) \in DOMAIN batch
         /\ flag \in batch[First(Matching(flag, from))].status
<1>1. Matching(flag, from) \subseteq Nat
  BY DEF Matching, TypeOK
<1>2. First(Matching(flag, from)) \in Matching(flag, from)
  BY <1>1, FirstIsLeast
<1> QED
  BY <1>2 DEF Matching

-----------------------------------------------------------------------------
(* Every step keeps the types. *)

(* A step that leaves a well-typed store behind keeps batch, saved and totals typed. *)
LEMMA LeavesTyped ==
  ASSUME NEW store \in Stores, Leaves(store)
  PROVE  /\ batch' \in Seq(Records)
         /\ saved' \in Totals \cup {Missing}
         /\ totals' \in Totals
BY DEF Stores, Leaves

(* What an explicit deletion gives up are advices of the batch, never the reversal print. *)
LEMMA GivenUpTyped ==
  ASSUME TypeOK, NEW S, S \subseteq DOMAIN batch, GivenUp(S)
  PROVE  discarded' \in SUBSET Advices
<1>1. \A i \in DOMAIN batch : batch[i] \in Records
  BY DEF TypeOK
<1>2. \A i \in S : batch[i].advice \in Advices \cup {Reversal}
  BY <1>1 DEF Records
<1> QED
  BY <1>2 DEF GivenUp, TypeOK

(* The idle job has the type of a job. *)
LEMMA NoJobTyped == NoJob \in Jobs
BY DEF NoJob, Jobs

(* The two ways an upload reflags a record keep the batch a sequence of records. *)
LEMMA WithStatusTyped ==
  ASSUME TypeOK, NEW i
  PROVE  /\ WithStatus(i, {"message_sent"}, {"needs_sending"}) \in Seq(Records)
         /\ WithStatus(i, {"repeat_saf"}, {}) \in Seq(Records)
<1>1. /\ {"message_sent"} \in SUBSET Flags /\ {"needs_sending"} \in SUBSET Flags
      /\ {"repeat_saf"} \in SUBSET Flags /\ {} \in SUBSET Flags
  BY DEF Flags
<1> QED
  BY <1>1, WithStatusKeepsRecords DEF TypeOK

(* The arithmetic the code does on the totals. *)
LEMMA TotalsTyped ==
  ASSUME NEW t \in Totals
  PROVE  /\ [t EXCEPT !.saf = @ + 1, !.ns = @ + 1] \in Totals
         /\ [t EXCEPT !.print = @ + 1] \in Totals
<1>1. [t EXCEPT !.saf = @ + 1] \in Totals
  BY DEF Totals
<1>2. \A u \in Totals : [u EXCEPT !.ns = @ + 1] \in Totals
  BY DEF Totals
<1>3. [t EXCEPT !.print = @ + 1] \in Totals
  BY DEF Totals
<1>4. [t EXCEPT !.saf = @ + 1, !.ns = @ + 1] = [[t EXCEPT !.saf = @ + 1] EXCEPT !.ns = @ + 1]
  BY DEF Totals
<1> QED
  BY <1>1, <1>2, <1>3, <1>4

(* Storing an advice or a reversal print (saf_add_record) keeps the types. *)
LEMMA StoreTypes ==
  ASSUME TypeOK, Storing
  PROVE  TypeOK'
<1> USE DEF TypeOK, ghosts, disk
<1>1. ASSUME NEW a \in Advices, StoreAdvice(a) PROVE TypeOK'
  <2>1. [advice |-> a, status |-> {"needs_sending"}] \in Records
    BY DEF Records, Flags
  <2>2. batch' \in Seq(Records)
    BY <1>1, <2>1 DEF StoreAdvice
  <2> QED
    BY <1>1, <2>2 DEF StoreAdvice, PCs
<1>2. ASSUME CountAdvice PROVE TypeOK'
  <2>1. totals' \in Totals
    BY <1>2, TotalsTyped DEF CountAdvice
  <2> QED
    BY <1>2, <2>1 DEF CountAdvice, PCs
<1>3. ASSUME SaveAdvice PROVE TypeOK'
  BY <1>3 DEF SaveAdvice, Totals, PCs
<1>4. ASSUME StoreReversalPrint PROVE TypeOK'
  <2>1. [advice |-> Reversal, status |-> {"message_sent"}] \in Records
    BY DEF Records, Flags
  <2>2. batch' \in Seq(Records)
    BY <1>4, <2>1 DEF StoreReversalPrint
  <2>3. totals' \in Totals
    BY <1>4 DEF StoreReversalPrint, Totals
  <2> QED
    BY <1>4, <2>2, <2>3 DEF StoreReversalPrint
<1> QED
  BY <1>1, <1>2, <1>3, <1>4 DEF Storing

(* The arithmetic of an upload, one assignment at a time. *)
LEMMA UploadArithmetic ==
  ASSUME NEW t \in Totals, NEW n \in Nat, NEW c \in BOOLEAN
  PROVE  /\ [t EXCEPT !.saf = n] \in Totals
         /\ [t EXCEPT !.print = n] \in Totals
         /\ [t EXCEPT !.ns = n] \in Totals
         /\ [t EXCEPT !.repeat = c] \in Totals
         /\ t.saf \in Nat /\ t.print \in Nat /\ t.ns \in Nat /\ t.repeat \in BOOLEAN
BY DEF Totals

(* The counters taken down after a settled or given-up advice stay numbers. *)
LEMMA SettledTotalsTyped ==
  ASSUME NEW t \in Totals
  PROVE  /\ [t EXCEPT !.repeat = FALSE, !.saf = IF @ # 0 THEN @ - 1 ELSE @,
                      !.print = IF t.saf # 0 /\ ~noPrints THEN @ + 1 ELSE @] \in Totals
         /\ [t EXCEPT !.saf = IF t.saf # 0 THEN @ - 1 ELSE @,
                      !.print = IF t.saf # 0 /\ ~noPrints THEN @ + 1 ELSE @] \in Totals
         /\ [t EXCEPT !.repeat = FALSE,
                      !.saf = IF job.repeatOnly THEN @ ELSE 0] \in Totals
<1> DEFINE r == [t EXCEPT !.repeat = FALSE]
           down == IF t.saf # 0 THEN t.saf - 1 ELSE t.saf
           up == IF t.saf # 0 /\ ~noPrints THEN t.print + 1 ELSE t.print
           kept == IF job.repeatOnly THEN t.saf ELSE 0
<1>1. t.saf \in Nat /\ t.print \in Nat
  BY UploadArithmetic
<1>2. down \in Nat /\ up \in Nat /\ kept \in Nat
  BY <1>1
<1> HIDE DEF down, up, kept
<1>3. /\ r \in Totals
      /\ [t EXCEPT !.repeat = FALSE, !.saf = down, !.print = up] \in Totals
      /\ [t EXCEPT !.saf = down, !.print = up] \in Totals
      /\ [t EXCEPT !.repeat = FALSE, !.saf = kept] \in Totals
  BY <1>2 DEF Totals
<1> QED
  BY <1>3 DEF Totals, down, up, kept

(* The end of saf_send leaves the thread idle without a job. *)
LEMMA FinishedTyped == Finished => pc' \in PCs /\ job' \in Jobs
BY NoJobTyped DEF Finished, PCs

(* Starting saf_send, whatever its parameters, keeps the types. *)
LEMMA StartTypes ==
  ASSUME TypeOK, NEW c \in BOOLEAN, NEW k \in BOOLEAN, NEW d \in BOOLEAN,
         NEW n \in UploadCounts, Start(c, k, d, n)
  PROVE  TypeOK'
<1>1. n \in Nat
  BY SafAssumption
<1>2. [NoJob EXCEPT !.repeatOnly = c, !.stuck = k, !.destroy = d, !.left = n] \in Jobs
  BY <1>1 DEF NoJob, Jobs
<1>3. pc' \in PCs /\ job' \in Jobs
  BY <1>2 DEF Start, PCs
<1> QED
  BY <1>3 DEF TypeOK, Start, disk, ghosts

(* saf_send with nothing to send keeps the types, deleting the batch or not. *)
LEMMA NothingToSendTypes ==
  ASSUME TypeOK, NothingToSend
  PROVE  TypeOK'
<1> DEFINE t == [totals EXCEPT !.repeat = FALSE,
                               !.saf = IF job.repeatOnly THEN @ ELSE 0]
<1>1. t \in Totals
  BY SettledTotalsTyped DEF TypeOK
<1>2. Destroyed(saved, t) \in Stores /\ Store(batch, saved, t) \in Stores
  BY <1>1, StoresTyped DEF TypeOK
<1>3. discarded' \in SUBSET Advices
  BY GivenUpTyped DEF NothingToSend, Unsent, TypeOK
<1> HIDE DEF t
<1>4. Leaves(Destroyed(saved, t)) \/ Leaves(Store(batch, saved, t))
  BY DEF NothingToSend, t
<1>5. batch' \in Seq(Records) /\ saved' \in Totals \cup {Missing} /\ totals' \in Totals
  BY <1>2, <1>4, LeavesTyped
<1>6. pc' \in PCs /\ job' \in Jobs
  BY FinishedTyped DEF NothingToSend
<1> QED
  BY <1>3, <1>5, <1>6 DEF TypeOK, NothingToSend

(* Deleting an invalid record on the way keeps the types. *)
LEMMA DropInvalidTypes ==
  ASSUME TypeOK, DropInvalid
  PROVE  TypeOK'
<1> DEFINE i == First(Matching(Wanted, job.index))
<1>1. i \in DOMAIN batch
  BY MatchingRecord DEF DropInvalid
<1>2. i \in Nat
  BY <1>1 DEF TypeOK
<1> HIDE DEF i
<1>3. Leaves(Deleted(i)) /\ job' = [job EXCEPT !.index = i] /\ GivenUp({i})
  BY DEF DropInvalid, i
<1>4. batch' \in Seq(Records) /\ saved' \in Totals \cup {Missing} /\ totals' \in Totals
  BY <1>3, StoresTyped, LeavesTyped
<1>5. job' \in Jobs
  BY <1>2, <1>3 DEF TypeOK, Jobs
<1>6. discarded' \in SUBSET Advices
  BY <1>1, <1>3, GivenUpTyped
<1> QED
  BY <1>4, <1>5, <1>6 DEF TypeOK, DropInvalid

(* Marking the selected record as a repeat keeps the types. *)
LEMMA SelectRecordTypes ==
  ASSUME TypeOK, SelectRecord
  PROVE  TypeOK'
<1> DEFINE i == First(Matching(Wanted, job.index))
           j == First(Matching("needs_sending", i))
           again == "repeat_saf" \in batch[j].status
<1>1. j \in DOMAIN batch
  BY MatchingRecord DEF SelectRecord
<1>2. j \in Nat /\ again \in BOOLEAN
  BY <1>1 DEF TypeOK
<1>3. /\ batch' = WithStatus(j, {"repeat_saf"}, {})
      /\ totals' = [totals EXCEPT !.repeat = @ \/ again]
      /\ job' = [job EXCEPT !.index = j, !.msg = IF again THEN "0221" ELSE "0220"]
  BY DEF SelectRecord
<1> HIDE DEF i, j, again
<1>4. batch' \in Seq(Records)
  BY <1>3, WithStatusTyped
<1>5. totals' \in Totals
  <2>1. totals.repeat \/ again \in BOOLEAN
    BY <1>2
  <2> QED
    BY <1>3, <2>1, UploadArithmetic DEF TypeOK
<1>6. job' \in Jobs
  <2>1. (IF again THEN "0221" ELSE "0220") \in {"0220", "0221"}
    OBVIOUS
  <2> QED
    BY <1>2, <1>3, <2>1 DEF TypeOK, Jobs
<1> QED
  BY <1>4, <1>5, <1>6 DEF TypeOK, SelectRecord, ghosts, PCs

(* The error exit of saf_send keeps the types, for a stuck repeat too. *)
LEMMA SendFailedTypes ==
  ASSUME IInv, SendFailed, pc \in {"send", "wait"}
  PROVE  TypeOK'
<1> USE DEF IInv
<1>1. job.index \in DOMAIN batch
  BY DEF SelectedFlagged
<1>2. pc' \in PCs /\ job' \in Jobs
  BY FinishedTyped DEF SendFailed
<1>3. CASE GiveUpStuck
  <2>1. batch' \in Seq(Records)
    BY <1>3, WithStatusTyped DEF SendFailed
  <2>2. totals' \in Totals
    BY <1>3, SettledTotalsTyped DEF SendFailed, TypeOK
  <2>3. discarded' \in SUBSET Advices
    <3>1. GivenUp({job.index}) /\ {job.index} \subseteq DOMAIN batch
      BY <1>1, <1>3 DEF SendFailed
    <3> QED
      BY <3>1, GivenUpTyped
  <2> QED
    BY <1>2, <2>1, <2>2, <2>3 DEF SendFailed, TypeOK
<1>4. CASE ~GiveUpStuck
  <2>1. totals' \in Totals
    BY <1>4, UploadArithmetic DEF SendFailed, TypeOK
  <2> QED
    BY <1>2, <1>4, <2>1 DEF SendFailed, TypeOK
<1> QED
  BY <1>3, <1>4

(* Deleting a malformed advice keeps the types. *)
LEMMA CreateFailsTypes ==
  ASSUME IInv, NEW journalled \in BOOLEAN, CreateFails(journalled)
  PROVE  TypeOK'
<1>1. job.index \in DOMAIN batch
  BY DEF IInv, SelectedFlagged, CreateFails
<1>2. CASE SendFailed
  BY <1>2, SendFailedTypes DEF CreateFails
<1>3. CASE ~SendFailed
  <2>1. Leaves(Deleted(job.index)) /\ GivenUp({job.index}) /\ Finished
    BY <1>3 DEF CreateFails
  <2>2. batch' \in Seq(Records) /\ saved' \in Totals \cup {Missing} /\ totals' \in Totals
    BY <2>1, StoresTyped, LeavesTyped DEF IInv
  <2>3. discarded' \in SUBSET Advices
    BY <1>1, <2>1, GivenUpTyped DEF IInv
  <2> QED
    BY <1>3, <2>1, <2>2, <2>3, FinishedTyped DEF CreateFails, TypeOK, IInv
<1> QED
  BY <1>2, <1>3

(* What is being uploaded is an advice of the batch, never a reversal print. *)
LEMMA HereIsAdvice ==
  ASSUME IInv, pc \in {"send", "wait"}
  PROVE  job.index \in DOMAIN batch /\ Here \in Advices
<1>1. job.index \in DOMAIN batch /\ Here # Reversal
  BY DEF IInv, SelectedFlagged
<1>2. batch[job.index] \in Records
  BY <1>1 DEF IInv, TypeOK
<1> QED
  BY <1>1, <1>2 DEF Here, Records

(* A transmission and the recount that follows it keep the types. *)
LEMMA TransmitTypes ==
  ASSUME IInv, NEW arrives \in BOOLEAN, Transmit(arrives)
  PROVE  TypeOK'
<1> USE DEF IInv
<1>1. Here \in Advices
  BY HereIsAdvice DEF Transmit
<1>2. originals' \in [Advices -> Nat]
  BY <1>1 DEF Transmit, TypeOK
<1>3. received' \in SUBSET Advices
  BY <1>1 DEF Transmit, TypeOK
<1>4. totals' \in Totals
  BY StoresTyped DEF Transmit
<1>5. job' \in Jobs
  BY DEF Transmit, TypeOK, Jobs
<1> QED
  BY <1>2, <1>3, <1>4, <1>5 DEF Transmit, TypeOK, PCs, disk

(* Taking the host's answer to a record keeps the types. *)
LEMMA AnswerTypes ==
  ASSUME TypeOK, NEW approved \in BOOLEAN, Answer(approved)
  PROVE  TypeOK'
<1> DEFINE kept == Store(WithStatus(job.index, {"message_sent"}, {"needs_sending"}),
                         saved, totals)
           done == IF noPrints THEN Deleted(job.index) ELSE kept
<1>1. kept \in Stores
  BY WithStatusTyped DEF Store, Stores, TypeOK
<1>2. done \in Stores
  BY <1>1, StoresTyped
<1>3. Leaves([done EXCEPT
                !.totals.repeat = FALSE,
                !.totals.ns = IF approved /\ @ >= 1 THEN @ - 1 ELSE @])
  BY DEF Answer
<1> HIDE DEF kept, done
<1>4. /\ batch' = done.batch /\ saved' = done.saved
      /\ totals' = [done.totals EXCEPT !.repeat = FALSE,
                        !.ns = IF approved /\ @ >= 1 THEN @ - 1 ELSE @]
  BY <1>2, <1>3 DEF Leaves, Stores
<1>5. totals' \in Totals
  <2> DEFINE n == IF approved /\ done.totals.ns >= 1 THEN done.totals.ns - 1
                                                     ELSE done.totals.ns
  <2>1. n \in Nat
    BY <1>2 DEF Stores, Totals
  <2> HIDE DEF n
  <2>2. \A t \in Totals : [t EXCEPT !.repeat = FALSE, !.ns = n] \in Totals
    BY <2>1 DEF Totals
  <2> QED
    BY <1>2, <1>4, <2>2 DEF Stores, Totals, n
<1> QED
  BY <1>2, <1>4, <1>5 DEF Answer, TypeOK, PCs, Stores, ghosts

(* Counting a settled advice down keeps the types. *)
LEMMA CountSettledTypes ==
  ASSUME TypeOK, CountSettled
  PROVE  TypeOK'
<1> DEFINE t == [totals EXCEPT
                   !.saf = IF totals.saf # 0 THEN @ - 1 ELSE @,
                   !.print = IF totals.saf # 0 /\ ~noPrints THEN @ + 1 ELSE @]
           done == IF noPrints /\ totals.saf # 0 /\ t.saf = 0 THEN Destroyed(saved, t)
                                                             ELSE Store(batch, saved, t)
<1>1. t \in Totals
  BY SettledTotalsTyped DEF TypeOK
<1>2. done \in Stores
  BY <1>1, StoresTyped DEF TypeOK
<1>3. Leaves([done EXCEPT !.saved = Missing])
  BY DEF CountSettled
<1> HIDE DEF done
<1>4. batch' = done.batch /\ saved' = Missing /\ totals' = done.totals
  BY <1>2, <1>3 DEF Leaves, Stores
<1> QED
  BY <1>2, <1>4 DEF CountSettled, TypeOK, PCs, Stores, ghosts

(* Saving the totals, and the end of the upload after it, keep the types. *)
LEMMA SaveSettledTypes ==
  ASSUME TypeOK, SaveSettled
  PROVE  TypeOK'
<1>1. /\ Store(batch, totals, totals) \in Stores
      /\ Destroyed(totals, totals) \in Stores
  BY StoresTyped DEF TypeOK
<1>2. batch' \in Seq(Records) /\ saved' \in Totals \cup {Missing} /\ totals' \in Totals
  <2>1. Leaves(Store(batch, totals, totals)) \/ Leaves(Destroyed(totals, totals))
    BY DEF SaveSettled
  <2> QED
    BY <1>1, <2>1, LeavesTyped
<1>3. discarded' \in SUBSET Advices
  BY GivenUpTyped DEF SaveSettled, Unsent, TypeOK
<1>4. pc' \in PCs /\ job' \in Jobs
  <2>1. CASE job.left > 1
    <3>1. job.left - 1 \in Nat
      BY <2>1 DEF TypeOK, Jobs
    <3>2. job' = [job EXCEPT !.left = job.left - 1, !.heard = FALSE] /\ pc' = "select"
      BY <2>1 DEF SaveSettled, TypeOK, Jobs
    <3> QED
      BY <3>1, <3>2 DEF TypeOK, Jobs, PCs
  <2>2. CASE ~(job.left > 1)
    BY <2>2, FinishedTyped DEF SaveSettled
  <2> QED
    BY <2>1, <2>2
<1> QED
  BY <1>2, <1>3, <1>4 DEF SaveSettled, TypeOK

(* Every step of an upload keeps the types. *)
LEMMA UploadTypes ==
  ASSUME IInv, Uploading
  PROVE  TypeOK'
<1> USE DEF IInv
<1>1. ASSUME NEW n \in UploadCounts, StartUpload(n) \/ StartRepeat(n) \/ StartClear(n)
      PROVE  TypeOK'
  BY <1>1, StartTypes DEF StartUpload, StartRepeat, StartClear
<1>2. CASE NothingToSend
  BY <1>2, NothingToSendTypes
<1>3. CASE DropInvalid
  BY <1>3, DropInvalidTypes
<1>4. CASE SelectRecord
  BY <1>4, SelectRecordTypes
<1>5. CASE ConnectFails
  BY <1>5, SendFailedTypes DEF ConnectFails
<1>6. ASSUME NEW journalled \in BOOLEAN, CreateFails(journalled) PROVE TypeOK'
  BY <1>6, CreateFailsTypes
<1>7. ASSUME NEW arrives \in BOOLEAN, Transmit(arrives) PROVE TypeOK'
  BY <1>7, TransmitTypes
<1>8. CASE NoAnswer
  BY <1>8, SendFailedTypes DEF NoAnswer
<1>9. ASSUME NEW approved \in BOOLEAN, Answer(approved) PROVE TypeOK'
  BY <1>9, AnswerTypes
<1>10. CASE CountSettled
  BY <1>10, CountSettledTypes
<1>11. CASE SaveSettled
  BY <1>11, SaveSettledTypes
<1> QED
  BY <1>1, <1>2, <1>3, <1>4, <1>5, <1>6, <1>7, <1>8, <1>9, <1>10, <1>11 DEF Uploading

(* A recount, with the deletion of an empty batch, leaves well-typed files. *)
LEMMA RecountedStoreTyped ==
  ASSUME TypeOK, NEW u \in Totals,
         Leaves(IF Recounted(u, batch).saf = 0 THEN Destroyed(saved, Recounted(u, batch))
                                               ELSE Store(batch, saved, Recounted(u, batch)))
  PROVE  batch' \in Seq(Records) /\ saved' \in Totals \cup {Missing} /\ totals' \in Totals
<1> DEFINE t == Recounted(u, batch)
<1>1. t \in Totals
  BY CountsAreNumbers DEF Recounted, Totals, TypeOK
<1> HIDE DEF t
<1>2. Destroyed(saved, t) \in Stores /\ Store(batch, saved, t) \in Stores
  BY <1>1, StoresTyped DEF TypeOK
<1>3. Leaves(Destroyed(saved, t)) \/ Leaves(Store(batch, saved, t))
  BY DEF t
<1> QED
  BY <1>2, <1>3, LeavesTyped

(* One turn of DeleteSafPrints keeps the types, the wrapped print count included. *)
LEMMA PurgePrintTypes ==
  ASSUME TypeOK, PurgePrint
  PROVE  TypeOK'
<1>1. PICK i \in Prints(batch) :
        /\ Leaves([Deleted(i) EXCEPT !.totals.print = Decrement(@)])
        /\ job' = [job EXCEPT !.index = i]
  BY DEF PurgePrint
<1>2. i \in Nat
  BY <1>1 DEF Prints, TypeOK
<1>3. Deleted(i) \in Stores
  BY StoresTyped
<1> DEFINE done == Deleted(i)
<1> HIDE DEF done
<1>4. /\ done \in Stores
      /\ Leaves([done EXCEPT !.totals.print = Decrement(@)])
  BY <1>1, <1>3 DEF done
<1>5. /\ batch' = done.batch /\ saved' = done.saved
      /\ totals' = [done.totals EXCEPT !.print = Decrement(done.totals.print)]
  BY <1>4 DEF Leaves, Stores
<1>6. Decrement(done.totals.print) \in Nat
  BY <1>4, SafAssumption DEF Stores, Totals, Decrement
<1>7. totals' \in Totals
  BY <1>4, <1>5, <1>6, UploadArithmetic DEF Stores
<1>8. job' \in Jobs
  BY <1>1, <1>2 DEF TypeOK, Jobs
<1> QED
  BY <1>4, <1>5, <1>7, <1>8 DEF PurgePrint, TypeOK, Stores, ghosts

(* The totals a restart begins with are totals, with the file missing or not. *)
LEMMA RestartTyped ==
  ASSUME TypeOK
  PROVE  OnRestart \in Totals
BY ZeroTotalsTyped DEF TypeOK, OnRestart

(* Commands, power failures and upgrades keep the types. *)
LEMMA CommandTypes ==
  ASSUME TypeOK, Commanding \/ PowerFail \/ Upgrade
  PROVE  TypeOK'
<1> USE DEF disk, ghosts
<1>1. CASE Recount
  BY <1>1, StoresTyped DEF Recount, TypeOK
<1>2. CASE PrintsOn
  BY <1>2 DEF PrintsOn, TypeOK
<1>3. CASE PrintsOff
  BY <1>3, RecountedStoreTyped DEF PrintsOff, TypeOK, PCs
<1>4. CASE PurgePrint
  BY <1>4, PurgePrintTypes
<1>5. CASE PurgeDone
  BY <1>5, FinishedTyped DEF PurgeDone, TypeOK
<1>6. CASE PrintOne
  <2>1. batch' \in Seq(Records) /\ saved' \in Totals \cup {Missing} /\ totals' \in Totals
    BY <1>6, StoresTyped, LeavesTyped DEF PrintOne
  <2> QED
    BY <1>6, <2>1 DEF PrintOne, TypeOK
<1>7. CASE PowerFail
  BY <1>7, RestartTyped, FinishedTyped DEF PowerFail, TypeOK
<1>8. CASE Upgrade
  BY <1>8, RestartTyped, RecountedStoreTyped DEF Upgrade, TypeOK
<1> QED
  BY <1>1, <1>2, <1>3, <1>4, <1>5, <1>6, <1>7, <1>8 DEF Commanding

-----------------------------------------------------------------------------
(* The invariant is inductive. *)

(* The initial states satisfy the invariant. *)
LEMMA InvInit == Init => IInv
<1> SUFFICES ASSUME Init PROVE IInv
  OBVIOUS
<1>1. TypeOK
  <2>1. batch \in Seq(Records) /\ originals \in [Advices -> Nat]
    BY DEF Init
  <2>2. saved \in Totals /\ totals \in Totals /\ job \in Jobs
    BY ZeroTotalsTyped, NoJobTyped DEF Init
  <2>3. pc \in PCs
    BY DEF Init, PCs
  <2> QED
    BY <2>1, <2>2, <2>3 DEF Init, TypeOK
<1>2. OneRecordEach /\ UnflaggedNotSent /\ SelectedFlagged /\ OriginalOnce
  BY DEF Init, OneRecordEach, UnflaggedNotSent, SelectedFlagged, OriginalOnce
<1> QED
  BY <1>1, <1>2 DEF IInv

(* Storing an advice opens the only record it will ever have. *)
LEMMA StoreAdviceInv ==
  ASSUME IInv, NEW a \in Advices, StoreAdvice(a)
  PROVE  IInv'
<1> USE DEF IInv
<1> DEFINE n == Len(batch) + 1
           new == [advice |-> a, status |-> {"needs_sending"}]
<1>1. TypeOK'
  BY StoreTypes DEF Storing
<1>2. /\ DOMAIN batch' = DOMAIN batch \cup {n} /\ n \notin DOMAIN batch
      /\ \A i \in DOMAIN batch : batch'[i] = batch[i]
      /\ batch'[n].advice = a /\ batch'[n].status = {"needs_sending"}
  BY DEF StoreAdvice, TypeOK
<1>3. \A i \in DOMAIN batch : batch[i].advice # a
  BY SafAssumption DEF OneRecordEach, StoreAdvice
<1> HIDE DEF n
<1>4. a # Reversal /\ a \notin accepted /\ accepted' = accepted \cup {a}
  BY SafAssumption DEF StoreAdvice
<1>5. OneRecordEach'
  BY <1>2, <1>3, <1>4 DEF OneRecordEach
<1>6. originals[a] = 0 /\ originals' = originals
  BY <1>4 DEF StoreAdvice, UnflaggedNotSent
<1>7. UnflaggedNotSent' /\ OriginalOnce'
  BY <1>2, <1>4, <1>6 DEF UnflaggedNotSent, OriginalOnce
<1>8. SelectedFlagged'
  BY DEF StoreAdvice, SelectedFlagged
<1> QED
  BY <1>1, <1>5, <1>7, <1>8

(* A reversal print never waits for sending. *)
LEMMA StoreReversalPrintInv ==
  ASSUME IInv, StoreReversalPrint
  PROVE  IInv'
<1> USE DEF IInv
<1> DEFINE n == Len(batch) + 1
<1>1. TypeOK'
  BY StoreTypes DEF Storing
<1>2. /\ DOMAIN batch' = DOMAIN batch \cup {n} /\ n \notin DOMAIN batch
      /\ \A i \in DOMAIN batch : batch'[i] = batch[i]
      /\ batch'[n].advice = Reversal /\ batch'[n].status = {"message_sent"}
  BY DEF StoreReversalPrint, TypeOK
<1> HIDE DEF n
<1>3. accepted' = accepted /\ originals' = originals
  BY DEF StoreReversalPrint, ghosts
<1>4. OneRecordEach'
  BY <1>2, <1>3 DEF OneRecordEach
<1>5. UnflaggedNotSent' /\ OriginalOnce'
  BY <1>2, <1>3 DEF UnflaggedNotSent, OriginalOnce
<1>6. SelectedFlagged'
  BY DEF StoreReversalPrint, SelectedFlagged
<1> QED
  BY <1>1, <1>4, <1>5, <1>6

(* The flag of the selected record is in the file before anything is sent. *)
LEMMA SelectRecordInv ==
  ASSUME IInv, SelectRecord
  PROVE  IInv'
<1> USE DEF IInv
<1> DEFINE i == First(Matching(Wanted, job.index))
           j == First(Matching("needs_sending", i))
           again == "repeat_saf" \in batch[j].status
<1>1. TypeOK'
  BY SelectRecordTypes
<1>2. j \in DOMAIN batch /\ "needs_sending" \in batch[j].status
  BY MatchingRecord DEF SelectRecord
<1>3. /\ batch' = WithStatus(j, {"repeat_saf"}, {})
      /\ job' = [job EXCEPT !.index = j, !.msg = IF again THEN "0221" ELSE "0220"]
      /\ UNCHANGED <<originals, accepted>>
  BY DEF SelectRecord, ghosts
<1> HIDE DEF i, j, again
<1>4. Reflagged(batch', j, {"repeat_saf"}, {}) /\ Keeps(batch')
  BY <1>3, WithStatusKeepsRecords, StoresKeep DEF TypeOK, Flags
<1>5. OneRecordEach' /\ UnflaggedNotSent' /\ OriginalOnce'
  BY <1>1, <1>3, <1>4, KeepsPreserves
<1>6. SelectedFlagged'
  <2>1. job'.index = j /\ (job'.msg = "0220" => ~again)
    BY <1>3 DEF TypeOK, Jobs
  <2>2. /\ j \in DOMAIN batch' /\ batch'[j].advice = batch[j].advice
        /\ "repeat_saf" \in batch'[j].status
    BY <1>2, <1>4 DEF Reflagged
  <2>3. batch[j].advice # Reversal
    BY <1>2 DEF OneRecordEach
  <2>4. ~again => originals[batch[j].advice] = 0
    BY <1>2, <2>3 DEF UnflaggedNotSent, again
  <2>5. Here' = batch'[job'.index].advice
    BY DEF Here
  <2> QED
    BY <1>3, <2>1, <2>2, <2>3, <2>4, <2>5 DEF SelectedFlagged
<1> QED
  BY <1>1, <1>5, <1>6

(* An 0220 goes out only for an advice of which none went out before. *)
LEMMA TransmitInv ==
  ASSUME IInv, NEW arrives \in BOOLEAN, Transmit(arrives)
  PROVE  IInv'
<1> USE DEF IInv
<1>1. TypeOK'
  BY TransmitTypes
<1>2. /\ job.index \in DOMAIN batch /\ Here \in Advices /\ Here # Reversal
      /\ "repeat_saf" \in batch[job.index].status
      /\ job.msg = "0220" => originals[Here] = 0
  BY HereIsAdvice DEF Transmit, SelectedFlagged
<1>3. batch' = batch /\ accepted' = accepted /\ job'.index = job.index /\ pc' = "wait"
  BY DEF Transmit, disk, TypeOK, Jobs
<1>4. OneRecordEach'
  BY <1>3 DEF OneRecordEach
<1>5. /\ \A a \in Advices \ {Here} : originals'[a] = originals[a]
      /\ originals'[Here] = IF job.msg = "0220" THEN originals[Here] + 1 ELSE originals[Here]
  BY <1>2 DEF Transmit, TypeOK
<1>6. OriginalOnce'
  BY <1>2, <1>5 DEF OriginalOnce
<1>7. UnflaggedNotSent'
  <2>1. Here \in accepted
    BY <1>2 DEF OneRecordEach, Here
  <2>2. \A k \in DOMAIN batch : batch[k].advice = Here => k = job.index
    BY <1>2 DEF OneRecordEach, Here
  <2>3. \A k \in DOMAIN batch : batch[k].advice \in Advices \cup {Reversal}
    <3>1. \A k \in DOMAIN batch : batch[k] \in Records
      BY DEF TypeOK
    <3> QED
      BY <3>1 DEF Records
  <2> QED
    BY <1>2, <1>3, <1>5, <2>1, <2>2, <2>3 DEF UnflaggedNotSent
<1>8. SelectedFlagged'
  BY <1>2, <1>3 DEF SelectedFlagged, Here
<1> QED
  BY <1>1, <1>4, <1>6, <1>7, <1>8

(* Every other step keeps the records, and leaves the upload or is before it. *)
LEMMA KeepingStepInv ==
  ASSUME IInv, TypeOK', Keeps(batch'), UNCHANGED <<originals, accepted>>,
         pc' \notin {"send", "wait"}
  PROVE  IInv'
<1>1. SelectedFlagged'
  BY DEF SelectedFlagged
<1> QED
  BY <1>1, KeepsPreserves DEF IInv

(* A file operation of these steps keeps the records. *)
LEMMA LeavesKeeps ==
  ASSUME TypeOK, NEW s, NEW t, NEW i,
         \/ Leaves(Store(batch, s, t)) \/ Leaves(Destroyed(s, t)) \/ Leaves(Deleted(i))
  PROVE  Keeps(batch')
BY StoresKeep DEF Leaves

(* An upload that fails changes no advice and opens no record. *)
LEMMA FailedKeeps ==
  ASSUME TypeOK, SendFailed
  PROVE  Keeps(batch')
<1>1. {"message_sent"} \in SUBSET Flags /\ {"needs_sending"} \in SUBSET Flags
  BY DEF Flags
<1>2. Keeps(batch) /\ Keeps(WithStatus(job.index, {"message_sent"}, {"needs_sending"}))
  BY <1>1, StoresKeep
<1> QED
  BY <1>2 DEF SendFailed

(* An answer settles a record and opens none. *)
LEMMA AnswerKeeps ==
  ASSUME TypeOK, NEW approved \in BOOLEAN, Answer(approved)
  PROVE  Keeps(batch')
<1> DEFINE kept == Store(WithStatus(job.index, {"message_sent"}, {"needs_sending"}),
                         saved, totals)
           done == IF noPrints THEN Deleted(job.index) ELSE kept
<1>1. kept \in Stores
  BY WithStatusTyped DEF Store, Stores, TypeOK
<1>2. done \in Stores
  BY <1>1, StoresTyped
<1>3. Keeps(done.batch)
  <2>1. {"message_sent"} \in SUBSET Flags /\ {"needs_sending"} \in SUBSET Flags
    BY DEF Flags
  <2>2. Keeps(WithStatus(job.index, {"message_sent"}, {"needs_sending"}))
    BY <2>1, StoresKeep
  <2>3. Keeps(kept.batch)
    BY <2>2 DEF Store
  <2> QED
    BY <2>3, StoresKeep
<1>4. Leaves([done EXCEPT
                !.totals.repeat = FALSE,
                !.totals.ns = IF approved /\ @ >= 1 THEN @ - 1 ELSE @])
  BY DEF Answer
<1> HIDE DEF kept, done
<1>5. batch' = done.batch
  BY <1>2, <1>4 DEF Leaves, Stores
<1> QED
  BY <1>3, <1>5

(* Counting down keeps the records or deletes all of them. *)
LEMMA CountSettledKeeps ==
  ASSUME TypeOK, CountSettled
  PROVE  Keeps(batch')
<1>1. batch' = batch \/ batch' = <<>>
  BY DEF CountSettled, Leaves, Destroyed, Store
<1> QED
  BY <1>1 DEF Keeps

(* Purging prints opens no record and makes none unsent. *)
LEMMA PurgePrintKeeps ==
  ASSUME TypeOK, PurgePrint
  PROVE  Keeps(batch')
<1>1. PICK i \in Prints(batch) :
        Leaves([Deleted(i) EXCEPT !.totals.print = Decrement(@)])
  BY DEF PurgePrint
<1> DEFINE done == Deleted(i)
<1>2. done \in Stores /\ Keeps(done.batch)
  BY StoresTyped, StoresKeep
<1> HIDE DEF done
<1>3. Leaves([done EXCEPT !.totals.print = Decrement(@)])
  BY <1>1 DEF done
<1>4. batch' = done.batch
  BY <1>2, <1>3 DEF Leaves, Stores
<1> QED
  BY <1>2, <1>4

(* One step of the terminal preserves the invariant. *)
LEMMA InvStep == IInv /\ [Next]_vars => IInv'
<1> SUFFICES ASSUME IInv, [Next]_vars PROVE IInv'
  OBVIOUS
<1> USE DEF IInv
<1>1. CASE UNCHANGED vars
  BY <1>1 DEF vars, IInv, TypeOK, OneRecordEach, UnflaggedNotSent, SelectedFlagged,
              OriginalOnce, Here
<1>2. CASE Storing
  <2>1. TypeOK'
    BY <1>2, StoreTypes
  <2>2. ASSUME CountAdvice \/ SaveAdvice PROVE IInv'
    <3>1. Keeps(batch')
      BY <2>2, StoresKeep DEF CountAdvice, SaveAdvice
    <3> QED
      BY <2>1, <2>2, <3>1, KeepingStepInv DEF CountAdvice, SaveAdvice, ghosts
  <2> QED
    BY <1>2, <2>2, StoreAdviceInv, StoreReversalPrintInv DEF Storing
<1>3. CASE Uploading
  <2>1. TypeOK'
    BY <1>3, UploadTypes
  <2>2. ASSUME NEW n \in UploadCounts, StartUpload(n) \/ StartRepeat(n) \/ StartClear(n)
        PROVE  IInv'
    <3>1. batch' = batch /\ pc' = "select" /\ UNCHANGED <<originals, accepted>>
      BY <2>2 DEF StartUpload, StartRepeat, StartClear, Start, disk, ghosts
    <3> QED
      BY <2>1, <3>1, StoresKeep, KeepingStepInv
  <2>3. CASE NothingToSend
    <3>1. Keeps(batch')
      BY <2>3, LeavesKeeps DEF NothingToSend
    <3> QED
      BY <2>1, <2>3, <3>1, KeepingStepInv DEF NothingToSend, Finished
  <2>4. CASE DropInvalid
    <3>1. Keeps(batch')
      BY <2>4, LeavesKeeps DEF DropInvalid
    <3> QED
      BY <2>1, <2>4, <3>1, KeepingStepInv DEF DropInvalid
  <2>5. ASSUME SendFailed PROVE IInv'
    BY <2>1, <2>5, FailedKeeps, KeepingStepInv DEF SendFailed, Finished
  <2>6. ASSUME NEW journalled \in BOOLEAN, CreateFails(journalled) PROVE IInv'
    <3>1. CASE SendFailed
      BY <2>5, <3>1
    <3>2. CASE ~SendFailed
      <4>1. Keeps(batch')
        BY <2>6, <3>2, LeavesKeeps DEF CreateFails
      <4> QED
        BY <2>1, <2>6, <3>2, <4>1, KeepingStepInv DEF CreateFails, Finished
    <3> QED
      BY <3>1, <3>2
  <2>7. ASSUME NEW approved \in BOOLEAN, Answer(approved) PROVE IInv'
    BY <2>1, <2>7, AnswerKeeps, KeepingStepInv DEF Answer, ghosts
  <2>8. CASE CountSettled
    BY <2>1, <2>8, CountSettledKeeps, KeepingStepInv DEF CountSettled, ghosts
  <2>9. CASE SaveSettled
    <3>1. Keeps(batch')
      BY <2>9, LeavesKeeps DEF SaveSettled
    <3>2. pc' \in {"select", "idle"}
      BY <2>9 DEF SaveSettled, Finished
    <3> QED
      BY <2>1, <2>9, <3>1, <3>2, KeepingStepInv DEF SaveSettled
  <2> QED
    BY <1>3, <2>2, <2>3, <2>4, <2>5, <2>6, <2>7, <2>8, <2>9, SelectRecordInv, TransmitInv
       DEF Uploading, ConnectFails, NoAnswer
<1>4. CASE Commanding \/ PowerFail \/ Upgrade
  <2>1. TypeOK'
    BY <1>4, CommandTypes
  <2>2. Keeps(batch')
    <3>1. CASE Recount \/ PrintsOn \/ PurgeDone \/ PowerFail
      BY <3>1, StoresKeep DEF Recount, PrintsOn, PurgeDone, PowerFail, disk
    <3>2. CASE PrintsOff
      BY <3>2, LeavesKeeps DEF PrintsOff
    <3>3. CASE PurgePrint
      BY <3>3, PurgePrintKeeps
    <3>4. CASE PrintOne
      BY <3>4, LeavesKeeps DEF PrintOne
    <3>5. CASE Upgrade
      BY <3>5, LeavesKeeps DEF Upgrade
    <3> QED
      BY <1>4, <3>1, <3>2, <3>3, <3>4, <3>5 DEF Commanding
  <2>3. UNCHANGED <<originals, accepted>>
    BY <1>4 DEF Commanding, Recount, PrintsOn, PrintsOff, PurgePrint, PurgeDone, PrintOne,
                PowerFail, Upgrade, ghosts
  <2>4. pc' \in {"idle", "purge"}
    BY <1>4 DEF Commanding, Recount, PrintsOn, PrintsOff, PurgePrint, PurgeDone, PrintOne,
                PowerFail, Upgrade, Finished
  <2> QED
    BY <2>1, <2>2, <2>3, <2>4, KeepingStepInv
<1> QED
  BY <1>1, <1>2, <1>3, <1>4 DEF Next

(* The inductive invariant holds in every reachable state. *)
THEOREM InvHolds == Spec => []IInv
BY InvInit, InvStep, PTL DEF Spec

(* Every variable keeps its type: in particular the counters of saf_totals,  *)
(* which upload, print, purge and deletion take down apart, never drop below *)
(* zero, and what is in the batch file and the totals file stays readable.   *)
THEOREM TypeCorrect == Spec => []TypeOK
<1>1. IInv => TypeOK
  BY DEF IInv
<1> QED
  BY <1>1, InvHolds, PTL

(* Whatever fails and whenever, no advice is transmitted twice as an original *)
(* 0220 (saf_send_single flags the record as a repeat before it transmits).   *)
THEOREM OriginalsOnce == Spec => []OriginalOnce
<1>1. IInv => OriginalOnce
  BY DEF IInv
<1> QED
  BY <1>1, InvHolds, PTL

-----------------------------------------------------------------------------
(* A record leaves the upload list only for an advice that is accounted for. *)

\* the host has heard of what an answer is awaited for, once the answer may come
HeardIsReceived == pc = "wait" /\ job.heard => Here \in received

AccountInv == IInv /\ SettledIsAccountedFor /\ HeardIsReceived

\* b is the batch, or nothing, with no record settled but those of S
Settles(S, b) ==
    \/ b = <<>>
    \/ /\ DOMAIN b = DOMAIN batch
       /\ \A k \in DOMAIN batch :
            /\ b[k].advice = batch[k].advice
            /\ k \notin S => (IsUnsent(batch[k]) => IsUnsent(b[k]))

(* What each file operation settles: nothing, or the record it is told. *)
LEMMA StoresSettle ==
  ASSUME TypeOK
  PROVE  /\ \A i : Settles({i}, WithStatus(i, {"message_sent"}, {"needs_sending"}))
         /\ \A i : Settles({}, WithStatus(i, {"repeat_saf"}, {}))
         /\ \A S, s, t : Settles(S, Store(batch, s, t).batch)
         /\ \A S, s, t : Settles(S, Destroyed(s, t).batch)
         /\ \A i : Settles({i}, Deleted(i).batch)
<1>1. /\ {"message_sent"} \in SUBSET Flags /\ {"needs_sending"} \in SUBSET Flags
      /\ {"repeat_saf"} \in SUBSET Flags /\ {} \in SUBSET Flags
      /\ {"deleted_offline"} \in SUBSET Flags
  BY DEF Flags
<1>2. ASSUME NEW i, NEW on \in SUBSET Flags, NEW off \in SUBSET Flags
      PROVE  Settles({i}, WithStatus(i, on, off))
  <2>1. Reflagged(WithStatus(i, on, off), i, on, off)
    BY WithStatusKeepsRecords DEF TypeOK
  <2>2. ASSUME NEW b, Reflagged(b, i, on, off) PROVE Settles({i}, b)
    BY <2>2 DEF Reflagged, Settles, IsUnsent, Live
  <2> QED
    BY <2>1, <2>2
<1>3. ASSUME NEW i PROVE Settles({}, WithStatus(i, {"repeat_saf"}, {}))
  <2>1. Reflagged(WithStatus(i, {"repeat_saf"}, {}), i, {"repeat_saf"}, {})
    BY <1>1, WithStatusKeepsRecords DEF TypeOK
  <2>2. ASSUME NEW b, Reflagged(b, i, {"repeat_saf"}, {}) PROVE Settles({}, b)
    <3>1. \A k \in DOMAIN batch : \A flag \in {"needs_sending", "deleted_offline"} :
            flag \in b[k].status <=> flag \in batch[k].status
      BY <2>2 DEF Reflagged
    <3>2. \A k \in DOMAIN batch : IsUnsent(batch[k]) => IsUnsent(b[k])
      BY <3>1 DEF IsUnsent, Live
    <3> QED
      BY <2>2, <3>2 DEF Reflagged, Settles
  <2> QED
    BY <2>1, <2>2
<1>4. \A S, s, t : Settles(S, Store(batch, s, t).batch) /\ Settles(S, Destroyed(s, t).batch)
  BY DEF Settles, Store, Destroyed
<1>5. ASSUME NEW i PROVE Settles({i}, Deleted(i).batch)
  <2>1. Settles({i}, WithStatus(i, {"deleted_offline"}, {"needs_sending"}))
    BY <1>1, <1>2
  <2> QED
    BY <2>1 DEF Deleted, Store, Settles
<1> QED
  BY <1>1, <1>2, <1>3, <1>4, <1>5

(* A step that settles only advices accounted for leaves all accounted for. *)
LEMMA SettlingStep ==
  ASSUME SettledIsAccountedFor, NEW S, Settles(S, batch'),
         received \subseteq received', discarded \subseteq discarded',
         \A k \in S \cap DOMAIN batch :
            batch[k].advice \in received' \cup discarded' \cup {Reversal}
  PROVE  SettledIsAccountedFor'
<1>1. CASE batch' = <<>>
  BY <1>1 DEF SettledIsAccountedFor
<1>2. CASE batch' # <<>>
  <2>1. /\ DOMAIN batch' = DOMAIN batch
        /\ \A k \in DOMAIN batch :
             /\ batch'[k].advice = batch[k].advice
             /\ k \notin S => (IsUnsent(batch[k]) => IsUnsent(batch'[k]))
    BY <1>2 DEF Settles
  <2> QED
    BY <2>1 DEF SettledIsAccountedFor
<1> QED
  BY <1>1, <1>2

(* A stored record is unsent, or the print of a reversal. *)
LEMMA AppendAccounted ==
  ASSUME TypeOK, SettledIsAccountedFor, NEW r \in Records, batch' = Append(batch, r),
         IsUnsent(r) \/ r.advice = Reversal,
         UNCHANGED <<received, discarded>>
  PROVE  SettledIsAccountedFor'
<1> DEFINE n == Len(batch) + 1
<1>1. /\ DOMAIN batch' = DOMAIN batch \cup {n}
      /\ \A k \in DOMAIN batch : batch'[k] = batch[k]
      /\ batch'[n] = r
  BY DEF TypeOK
<1> HIDE DEF n
<1> QED
  BY <1>1 DEF SettledIsAccountedFor

(* The record an explicit deletion is told is given up by it. *)
LEMMA GivenUpIsDiscarded ==
  ASSUME NEW S, GivenUp(S)
  PROVE  /\ discarded \subseteq discarded'
         /\ \A k \in S : batch[k].advice \in discarded' \cup {Reversal}
BY DEF GivenUp

(* A failed upload settles a record only when it gives the advice up. *)
LEMMA FailedAccounted ==
  ASSUME TypeOK, SettledIsAccountedFor, SendFailed
  PROVE  SettledIsAccountedFor'
<1>1. received' = received
  BY DEF SendFailed
<1>2. CASE GiveUpStuck
  <2>1. Settles({job.index}, batch') /\ GivenUp({job.index})
    BY <1>2, StoresSettle DEF SendFailed
  <2> QED
    BY <1>1, <2>1, SettlingStep, GivenUpIsDiscarded
<1>3. CASE ~GiveUpStuck
  BY <1>1, <1>3 DEF SendFailed, SettledIsAccountedFor
<1> QED
  BY <1>2, <1>3

(* An answer comes only for an advice the host has heard of. *)
LEMMA AnswerAccounted ==
  ASSUME AccountInv, NEW approved \in BOOLEAN, Answer(approved)
  PROVE  SettledIsAccountedFor'
<1> USE DEF AccountInv, IInv
<1> DEFINE kept == Store(WithStatus(job.index, {"message_sent"}, {"needs_sending"}),
                         saved, totals)
           done == IF noPrints THEN Deleted(job.index) ELSE kept
<1>1. kept \in Stores
  BY WithStatusTyped DEF Store, Stores, TypeOK
<1>2. done \in Stores
  BY <1>1, StoresTyped
<1>3. Settles({job.index}, done.batch)
  <2>1. Settles({job.index}, kept.batch)
    BY StoresSettle DEF Store
  <2> QED
    BY <2>1, StoresSettle
<1>4. Leaves([done EXCEPT
                !.totals.repeat = FALSE,
                !.totals.ns = IF approved /\ @ >= 1 THEN @ - 1 ELSE @])
  BY DEF Answer
<1> HIDE DEF kept, done
<1>5. batch' = done.batch
  BY <1>2, <1>4 DEF Leaves, Stores
<1>6. batch[job.index].advice \in received
  BY DEF Answer, HeardIsReceived, Here
<1>7. received' = received /\ discarded' = discarded
  BY DEF Answer, ghosts
<1> QED
  BY <1>3, <1>5, <1>6, <1>7, SettlingStep

(* Deleting a print settles nothing: its advice was accounted for before. *)
LEMMA PrintAccounted ==
  ASSUME SettledIsAccountedFor, NEW i \in Prints(batch), Settles({i}, batch'),
         UNCHANGED <<received, discarded>>
  PROVE  SettledIsAccountedFor'
<1>1. i \in DOMAIN batch /\ ~IsUnsent(batch[i])
  BY DEF Prints, IsPrint, IsUnsent
<1>2. batch[i].advice \in received \cup discarded \cup {Reversal}
  BY <1>1 DEF SettledIsAccountedFor
<1> QED
  BY <1>2, SettlingStep

(* The first print is a print. *)
LEMMA FirstPrint ==
  ASSUME TypeOK, Prints(batch) # {}
  PROVE  First(Prints(batch)) \in Prints(batch)
<1>1. Prints(batch) \subseteq Nat
  BY DEF Prints, TypeOK
<1> QED
  BY <1>1, FirstIsLeast

(* Storing an advice or a reversal print leaves all accounted for. *)
LEMMA StoringAccounted ==
  ASSUME AccountInv, Storing
  PROVE  SettledIsAccountedFor'
<1> USE DEF AccountInv, IInv
<1>1. ASSUME NEW a \in Advices, StoreAdvice(a) PROVE SettledIsAccountedFor'
  <2> DEFINE r == [advice |-> a, status |-> {"needs_sending"}]
  <2>1. r \in Records /\ IsUnsent(r)
    BY DEF Records, Flags, IsUnsent, Live
  <2> HIDE DEF r
  <2>2. batch' = Append(batch, r) /\ received' = received /\ discarded' = discarded
    BY <1>1 DEF StoreAdvice, r
  <2> QED
    BY <2>1, <2>2, AppendAccounted
<1>2. ASSUME StoreReversalPrint PROVE SettledIsAccountedFor'
  <2> DEFINE r == [advice |-> Reversal, status |-> {"message_sent"}]
  <2>1. r \in Records /\ r.advice = Reversal
    BY DEF Records, Flags
  <2> HIDE DEF r
  <2>2. batch' = Append(batch, r) /\ received' = received /\ discarded' = discarded
    BY <1>2 DEF StoreReversalPrint, ghosts, r
  <2> QED
    BY <2>1, <2>2, AppendAccounted
<1>3. ASSUME CountAdvice \/ SaveAdvice PROVE SettledIsAccountedFor'
  BY <1>3 DEF CountAdvice, SaveAdvice, ghosts, SettledIsAccountedFor
<1> QED
  BY <1>1, <1>2, <1>3 DEF Storing

(* Each step of an upload leaves all accounted for. *)
LEMMA UploadingAccounted ==
  ASSUME AccountInv, Uploading
  PROVE  SettledIsAccountedFor'
<1> USE DEF AccountInv, IInv
<1>1. ASSUME NEW n \in UploadCounts, StartUpload(n) \/ StartRepeat(n) \/ StartClear(n)
      PROVE  SettledIsAccountedFor'
  BY <1>1 DEF StartUpload, StartRepeat, StartClear, Start, disk, ghosts,
              SettledIsAccountedFor
<1>2. CASE NothingToSend
  <2>1. Settles({}, batch') /\ received' = received
    BY <1>2, StoresSettle DEF NothingToSend, Leaves
  <2>2. discarded \subseteq discarded'
    BY <1>2 DEF NothingToSend, GivenUp
  <2> QED
    BY <2>1, <2>2, SettlingStep
<1>3. CASE DropInvalid
  <2>1. PICK i : Leaves(Deleted(i)) /\ GivenUp({i}) /\ received' = received
    BY <1>3 DEF DropInvalid
  <2>2. Settles({i}, batch')
    BY <2>1, StoresSettle DEF Leaves
  <2> QED
    BY <2>1, <2>2, SettlingStep, GivenUpIsDiscarded
<1>4. CASE SelectRecord
  <2>1. Settles({}, batch') /\ received' = received /\ discarded' = discarded
    BY <1>4, StoresSettle DEF SelectRecord, ghosts
  <2> QED
    BY <2>1, SettlingStep
<1>5. ASSUME SendFailed PROVE SettledIsAccountedFor'
  BY <1>5, FailedAccounted
<1>6. ASSUME NEW journalled \in BOOLEAN, CreateFails(journalled)
      PROVE  SettledIsAccountedFor'
  <2>1. CASE SendFailed
    BY <1>5, <2>1
  <2>2. CASE ~SendFailed
    <3>1. Leaves(Deleted(job.index)) /\ GivenUp({job.index}) /\ received' = received
      BY <1>6, <2>2 DEF CreateFails
    <3>2. Settles({job.index}, batch')
      BY <3>1, StoresSettle DEF Leaves
    <3> QED
      BY <3>1, <3>2, SettlingStep, GivenUpIsDiscarded
  <2> QED
    BY <2>1, <2>2
<1>7. ASSUME NEW arrives \in BOOLEAN, Transmit(arrives) PROVE SettledIsAccountedFor'
  BY <1>7 DEF Transmit, disk, SettledIsAccountedFor
<1>8. ASSUME NEW approved \in BOOLEAN, Answer(approved) PROVE SettledIsAccountedFor'
  BY <1>8, AnswerAccounted
<1>9. CASE CountSettled
  <2>1. batch' = batch \/ batch' = <<>>
    BY <1>9 DEF CountSettled, Leaves, Destroyed, Store
  <2> QED
    BY <1>9, <2>1 DEF CountSettled, ghosts, SettledIsAccountedFor
<1>10. CASE SaveSettled
  <2>1. Settles({}, batch') /\ received' = received
    BY <1>10, StoresSettle DEF SaveSettled, Leaves
  <2>2. discarded \subseteq discarded'
    BY <1>10 DEF SaveSettled, GivenUp
  <2> QED
    BY <2>1, <2>2, SettlingStep
<1> QED
  BY <1>1, <1>2, <1>3, <1>4, <1>5, <1>6, <1>7, <1>8, <1>9, <1>10
     DEF Uploading, ConnectFails, NoAnswer

(* Commands, power failures and upgrades settle no advice. *)
LEMMA CommandAccounted ==
  ASSUME AccountInv, Commanding \/ PowerFail \/ Upgrade
  PROVE  SettledIsAccountedFor'
<1> USE DEF AccountInv, IInv
<1>1. UNCHANGED <<received, discarded>>
  BY DEF Commanding, Recount, PrintsOn, PrintsOff, PurgePrint, PurgeDone, PrintOne,
         PowerFail, Upgrade, ghosts
<1>2. CASE Recount \/ PrintsOn \/ PurgeDone \/ PowerFail
  BY <1>1, <1>2 DEF Recount, PrintsOn, PurgeDone, PowerFail, disk, SettledIsAccountedFor
<1>3. CASE PrintsOff \/ Upgrade
  <2>1. Settles({}, batch')
    BY <1>3, StoresSettle DEF PrintsOff, Upgrade, Leaves
  <2> QED
    BY <1>1, <2>1, SettlingStep
<1>4. CASE PurgePrint
  <2>1. PICK i \in Prints(batch) :
          Leaves([Deleted(i) EXCEPT !.totals.print = Decrement(@)])
    BY <1>4 DEF PurgePrint
  <2> DEFINE done == Deleted(i)
  <2>2. done \in Stores /\ Settles({i}, done.batch)
    BY StoresTyped, StoresSettle
  <2> HIDE DEF done
  <2>3. Leaves([done EXCEPT !.totals.print = Decrement(@)])
    BY <2>1 DEF done
  <2>4. batch' = done.batch
    BY <2>2, <2>3 DEF Leaves, Stores
  <2> QED
    BY <1>1, <2>2, <2>4, PrintAccounted
<1>5. CASE PrintOne
  <2> DEFINE i == First(Prints(batch))
  <2>1. i \in Prints(batch) /\ Leaves(Deleted(i))
    BY <1>5, FirstPrint DEF PrintOne
  <2> HIDE DEF i
  <2>2. Settles({i}, batch')
    BY <2>1, StoresSettle DEF Leaves
  <2> QED
    BY <1>1, <2>1, <2>2, PrintAccounted
<1> QED
  BY <1>2, <1>3, <1>4, <1>5 DEF Commanding

(* An answer is awaited only after the transmission that the host heard or not. *)
LEMMA HeardStep ==
  ASSUME AccountInv, [Next]_vars
  PROVE  HeardIsReceived'
<1> USE DEF AccountInv, IInv
<1>1. CASE UNCHANGED vars
  BY <1>1 DEF vars, HeardIsReceived, Here
<1>2. ASSUME NEW arrives \in BOOLEAN, Transmit(arrives) PROVE HeardIsReceived'
  <2>1. /\ batch' = batch /\ job' = [job EXCEPT !.heard = arrives]
        /\ received' = IF arrives THEN received \cup {Here} ELSE received
    BY <1>2 DEF Transmit, disk
  <2>2. job'.heard = arrives /\ job'.index = job.index
    BY <2>1 DEF TypeOK, Jobs
  <2>3. Here' = Here
    BY <2>1, <2>2 DEF Here
  <2> QED
    BY <2>1, <2>2, <2>3 DEF HeardIsReceived
<1>3. CASE Storing
  BY <1>3 DEF Storing, StoreAdvice, CountAdvice, SaveAdvice, StoreReversalPrint,
              HeardIsReceived
<1>4. CASE Commanding \/ PowerFail \/ Upgrade
  BY <1>4 DEF Commanding, Recount, PrintsOn, PrintsOff, PurgePrint, PurgeDone, PrintOne,
              PowerFail, Upgrade, Finished, HeardIsReceived
<1>5. CASE Uploading
  <2>1. ASSUME NEW arrives \in BOOLEAN, Transmit(arrives) PROVE HeardIsReceived'
    BY <1>2, <2>1
  <2>2. ASSUME ~ \E arrives \in BOOLEAN : Transmit(arrives) PROVE pc' # "wait"
    BY <1>5, <2>2 DEF Uploading, StartUpload, StartRepeat, StartClear, Start,
         NothingToSend, DropInvalid, SelectRecord, ConnectFails, CreateFails, NoAnswer,
         SendFailed, Answer, CountSettled, SaveSettled, Finished
  <2> QED
    BY <2>1, <2>2 DEF HeardIsReceived
<1> QED
  BY <1>1, <1>3, <1>4, <1>5 DEF Next

(* One step of the terminal keeps every settled advice accounted for. *)
LEMMA AccountStep == AccountInv /\ [Next]_vars => AccountInv'
<1> SUFFICES ASSUME AccountInv, [Next]_vars PROVE AccountInv'
  OBVIOUS
<1>1. IInv'
  BY InvStep DEF AccountInv
<1>2. HeardIsReceived'
  BY HeardStep
<1>3. CASE UNCHANGED vars
  BY <1>1, <1>2, <1>3 DEF AccountInv, vars, SettledIsAccountedFor
<1> QED
  BY <1>1, <1>2, <1>3, StoringAccounted, UploadingAccounted, CommandAccounted
     DEF Next, AccountInv

(* A record is taken off the upload list only for an advice the host has     *)
(* heard of, or one that saf.c or the operator gave up: by an answer, by the *)
(* deletion of an invalid, malformed or stuck record, or with the batch.     *)
THEOREM SettledAccounted == Spec => []SettledIsAccountedFor
<1>1. Init => AccountInv
  BY InvInit DEF AccountInv, Init, SettledIsAccountedFor, HeardIsReceived
<1>2. AccountInv => SettledIsAccountedFor
  BY DEF AccountInv
<1> QED
  BY <1>1, <1>2, AccountStep, PTL DEF Spec
=============================================================================
