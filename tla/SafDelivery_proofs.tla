------------------------ MODULE SafDelivery_proofs ------------------------
(***************************************************************************)
(* The counters of SafQueue against its records, for all constants that    *)
(* satisfy SafAssumption: no counter deletes an advice, every upload meets *)
(* the oldest advice first, and the batch stays within its limit.  From    *)
(* that, SafQueue implements AdviceDelivery where no command deletes the   *)
(* printed records: those are the places that trust counters which a power *)
(* failure may have lost.                                                  *)
(***************************************************************************)
EXTENDS SafQueue_proofs

\* a record waits for sending, was sent, or is deleted: one of the three
Shaped(b) ==
    \A i \in DOMAIN b :
        "needs_sending" \in b[i].status <=> Live(b[i]) /\ "message_sent" \notin b[i].status

\* an upload holds an unsent record, and has passed none that waits
UploadAtHead ==
    /\ pc \in {"send", "wait"} => job.index \in Unsent(batch)
    /\ pc \in {"select", "send", "wait", "settled", "saving"} /\ ~job.repeatOnly
         => \A k \in Unsent(batch) : job.index <= k

HeadInv == Shaped(batch) /\ UploadAtHead /\ OneRepeatAtHead /\ UploadKeepsItsRecord

\* the counter is ahead of the records by the one being stored or settled
Counted ==
    /\ Cardinality(Unsent(batch)) + (IF pc = "settled" THEN 1 ELSE 0)
         <= totals.saf + (IF pc = "stored" THEN 1 ELSE 0)
    /\ pc \notin {"stored", "counted", "saving"}
         => Cardinality(Unsent(batch)) <= OnRestart.saf

AllKept ==
    \A a \in accepted :
        a \in received \cup discarded \/ \E i \in Unsent(batch) : batch[i].advice = a

Safe == Counted /\ AllKept /\ Cardinality(Unsent(batch)) <= MaxSafs

CountInv == AccountInv /\ HeadInv /\ (totalsLost \/ Safe)

-----------------------------------------------------------------------------
(* What the file operations do to the records. *)

\* b is the batch with the records of S taken off the upload list
Drops(S, b) ==
    /\ DOMAIN b = DOMAIN batch
    /\ \A k \in DOMAIN batch :
         /\ b[k].advice = batch[k].advice
         /\ k \notin S => b[k].status = batch[k].status
         /\ k \in S => /\ "needs_sending" \notin b[k].status
                       /\ {"message_sent", "deleted_offline"} \cap b[k].status # {}

(* A record settled or deleted is dropped; destroying the batch leaves none. *)
LEMMA StoresDrop ==
  ASSUME TypeOK
  PROVE  /\ Drops({}, batch)
         /\ \A i : Drops({i}, WithStatus(i, {"message_sent"}, {"needs_sending"}))
         /\ \A i : \/ Deleted(i).batch = <<>> /\ totals.saf = 0
                   \/ /\ Drops({i}, Deleted(i).batch)
                      /\ Deleted(i).saved = saved /\ Deleted(i).totals.saf = totals.saf
         /\ \A s, t : Destroyed(s, t).batch = <<>>
<1>1. /\ {"message_sent"} \in SUBSET Flags /\ {"needs_sending"} \in SUBSET Flags
      /\ {"deleted_offline"} \in SUBSET Flags
  BY DEF Flags
<1>2. Drops({}, batch)
  BY DEF Drops
<1>3. ASSUME NEW i, NEW flag \in {"message_sent", "deleted_offline"}
      PROVE  Drops({i}, WithStatus(i, {flag}, {"needs_sending"}))
  <2>1. Reflagged(WithStatus(i, {flag}, {"needs_sending"}), i, {flag}, {"needs_sending"})
    BY <1>1, WithStatusKeepsRecords DEF TypeOK
  <2>2. ASSUME NEW b, Reflagged(b, i, {flag}, {"needs_sending"}) PROVE Drops({i}, b)
    <3>1. ASSUME i \in DOMAIN batch
          PROVE  flag \in b[i].status /\ "needs_sending" \notin b[i].status
      <4>1. b[i].status = (batch[i].status \ {"needs_sending"}) \cup {flag}
        BY <2>2, <3>1 DEF Reflagged
      <4>2. flag # "needs_sending"
        OBVIOUS
      <4> QED
        BY <4>1, <4>2
    <3>2. \A k \in DOMAIN batch : k # i => b[k].status = batch[k].status
      BY <2>2 DEF Reflagged
    <3>3. DOMAIN b = DOMAIN batch /\ \A k \in DOMAIN batch : b[k].advice = batch[k].advice
      BY <2>2 DEF Reflagged
    <3> QED
      BY <3>1, <3>2, <3>3 DEF Drops
  <2> QED
    BY <2>1, <2>2
<1>4. ASSUME NEW i
      PROVE  \/ Deleted(i).batch = <<>> /\ totals.saf = 0
             \/ /\ Drops({i}, Deleted(i).batch)
                /\ Deleted(i).saved = saved /\ Deleted(i).totals.saf = totals.saf
  <2> DEFINE t == [totals EXCEPT !.print = IF @ # 0 THEN @ - 1 ELSE @]
             b == WithStatus(i, {"deleted_offline"}, {"needs_sending"})
  <2>1. t.saf = totals.saf
    BY DEF TypeOK, Totals
  <2>2. Drops({i}, b)
    BY <1>3
  <2>3. Deleted(i) = IF t.print = 0 /\ t.saf = 0
                     THEN Store(<<>>, ZeroTotals, ZeroTotals) ELSE Store(b, saved, t)
    BY DEF Deleted
  <2> HIDE DEF t, b
  <2> QED
    BY <2>1, <2>2, <2>3 DEF Store
<1>5. \A s, t : Destroyed(s, t).batch = <<>>
  BY DEF Destroyed, Store
<1> QED
  BY <1>2, <1>3, <1>4, <1>5

(* Dropping records keeps the shape of all and the state of the others. *)
LEMMA DropsShape ==
  ASSUME Shaped(batch), NEW S, NEW b, Drops(S, b)
  PROVE  /\ Shaped(b)
         /\ Unsent(b) = Unsent(batch) \ S
         /\ \A k \in Unsent(b) : b[k].status = batch[k].status
<1>1. ASSUME NEW k \in DOMAIN batch, k \in S
      PROVE  /\ "needs_sending" \notin b[k].status
             /\ ~(Live(b[k]) /\ "message_sent" \notin b[k].status)
  BY <1>1 DEF Drops, Live
<1>2. ASSUME NEW k \in DOMAIN batch, k \notin S PROVE b[k].status = batch[k].status
  BY <1>2 DEF Drops
<1>3. Shaped(b)
  BY <1>1, <1>2 DEF Shaped, Drops, Live
<1>4. Unsent(b) = Unsent(batch) \ S
  BY <1>1, <1>2 DEF Unsent, IsUnsent, Live, Drops
<1> QED
  BY <1>2, <1>3, <1>4 DEF Unsent

(* An upload looks for unsent records only, and sees every one from its index on. *)
LEMMA MatchingUnsent ==
  ASSUME Shaped(batch)
  PROVE  /\ \A flag, from : Matching(flag, from) \subseteq Unsent(batch)
         /\ \A from : Matching("needs_sending", from) = {k \in Unsent(batch) : k >= from}
<1>1. \A k \in DOMAIN batch :
        Live(batch[k]) /\ "message_sent" \notin batch[k].status <=> k \in Unsent(batch)
  BY DEF Shaped, Unsent, IsUnsent
<1>2. \A k \in Unsent(batch) : k \in DOMAIN batch /\ "needs_sending" \in batch[k].status
  BY DEF Unsent, IsUnsent
<1> QED
  BY <1>1, <1>2 DEF Matching

(* What saf_send_single finds is the oldest unsent record, looked for as a   *)
(* repeat or not; the second search finds it again.                          *)
LEMMA SelectedIsHead ==
  ASSUME TypeOK, HeadInv, pc = "select", Matching(Wanted, job.index) # {}
  PROVE  LET i == First(Matching(Wanted, job.index))
         IN  /\ i \in Unsent(batch)
             /\ \A k \in Unsent(batch) : i <= k
             /\ First(Matching("needs_sending", i)) = i
<1> DEFINE i == First(Matching(Wanted, job.index))
<1>1. Unsent(batch) \subseteq Nat
  BY DEF Unsent, TypeOK
<1>2. \A flag, from : Matching(flag, from) \subseteq Unsent(batch)
  BY MatchingUnsent DEF HeadInv
<1>3. /\ i \in Matching(Wanted, job.index)
      /\ \A k \in Matching(Wanted, job.index) : i <= k
  BY <1>1, <1>2, FirstIsLeast
<1>4. i \in Unsent(batch) /\ Wanted \in batch[i].status
  BY <1>2, <1>3 DEF Matching
<1>5. \A k \in Unsent(batch) : i <= k
  <2>1. CASE job.repeatOnly
    BY <1>4, <2>1 DEF HeadInv, OneRepeatAtHead, Wanted
  <2>2. CASE ~job.repeatOnly
    <3>1. \A k \in Unsent(batch) : job.index <= k
      BY <2>2 DEF HeadInv, UploadAtHead
    <3>2. \A k \in Unsent(batch) : k >= job.index
      BY <1>1, <3>1 DEF TypeOK, Jobs
    <3>3. Unsent(batch) \subseteq Matching(Wanted, job.index)
      BY <2>2, <3>2, MatchingUnsent DEF HeadInv, Wanted
    <3> QED
      BY <1>3, <3>3
  <2> QED
    BY <2>1, <2>2
<1> HIDE DEF i
<1>6. First(Matching("needs_sending", i)) = i
  <2> DEFINE j == First(Matching("needs_sending", i))
  <2>1. i \in Matching("needs_sending", i)
    BY <1>1, <1>4, MatchingUnsent DEF HeadInv
  <2>2. j \in Matching("needs_sending", i) /\ j <= i
    BY <1>1, <1>2, <2>1, FirstIsLeast
  <2>3. i <= j
    BY <1>2, <1>5, <2>2
  <2> HIDE DEF j
  <2>4. i \in Nat /\ j \in Nat
    BY <1>1, <1>2, <1>4, <2>2
  <2>5. j = i
    BY <2>2, <2>3, <2>4
  <2> QED
    BY <2>5 DEF j
<1> QED
  BY <1>4, <1>5, <1>6 DEF i

-----------------------------------------------------------------------------
(* Every step keeps the queue in order. *)

InUpload == {"select", "send", "wait", "settled", "saving"}

\* what a step outside an upload does to the records: drops some, or all
DropsAny == batch' = <<>> \/ \E S : Drops(S, batch')

(* A step that drops records keeps the shape and the single repeat at the head. *)
LEMMA DroppedInOrder ==
  ASSUME HeadInv, DropsAny
  PROVE  Shaped(batch') /\ OneRepeatAtHead' /\ Unsent(batch') \subseteq Unsent(batch)
<1>1. CASE batch' = <<>>
  BY <1>1 DEF Shaped, OneRepeatAtHead, Unsent
<1>2. ASSUME NEW S, Drops(S, batch')
      PROVE  Shaped(batch') /\ OneRepeatAtHead' /\ Unsent(batch') \subseteq Unsent(batch)
  <2>1. /\ Shaped(batch')
        /\ Unsent(batch') = Unsent(batch) \ S
        /\ \A k \in Unsent(batch') : batch'[k].status = batch[k].status
    BY <1>2, DropsShape DEF HeadInv
  <2>2. OneRepeatAtHead'
    BY <2>1 DEF OneRepeatAtHead, HeadInv
  <2> QED
    BY <2>1, <2>2
<1> QED
  BY <1>1, <1>2 DEF DropsAny

(* Outside an upload no record is held, so dropping records is all right. *)
LEMMA QuietInOrder ==
  ASSUME HeadInv, DropsAny, pc' \notin InUpload
  PROVE  HeadInv'
BY DroppedInOrder DEF HeadInv, UploadAtHead, UploadKeepsItsRecord, InUpload

(* A stored record comes last, and is not a repeat. *)
LEMMA AppendInOrder ==
  ASSUME TypeOK, HeadInv, NEW r \in Records, batch' = Append(batch, r), pc' \notin InUpload,
         r.status \in {{"needs_sending"}, {"message_sent"}}
  PROVE  HeadInv'
<1> DEFINE n == Len(batch) + 1
<1>1. /\ DOMAIN batch' = DOMAIN batch \cup {n}
      /\ \A k \in DOMAIN batch : batch'[k] = batch[k]
      /\ batch'[n] = r
      /\ \A k \in DOMAIN batch : k <= n
  BY DEF TypeOK
<1> HIDE DEF n
<1>2. Shaped(batch')
  BY <1>1 DEF HeadInv, Shaped, Live
<1>3. Unsent(batch') \subseteq Unsent(batch) \cup {n} /\ Unsent(batch) \subseteq DOMAIN batch
  BY <1>1 DEF Unsent
<1>4. "repeat_saf" \notin batch'[n].status
  BY <1>1
<1>5. OneRepeatAtHead'
  <2>1. ASSUME NEW i \in Unsent(batch'), NEW j \in Unsent(batch'),
               "repeat_saf" \in batch'[i].status
        PROVE  i <= j
    <3>1. i \in Unsent(batch) /\ "repeat_saf" \in batch[i].status /\ i <= n
      BY <1>1, <1>3, <1>4, <2>1
    <3> QED
      BY <1>3, <2>1, <3>1 DEF HeadInv, OneRepeatAtHead
  <2> QED
    BY <2>1 DEF OneRepeatAtHead
<1> QED
  BY <1>2, <1>5 DEF HeadInv, UploadAtHead, UploadKeepsItsRecord, InUpload

(* Storing keeps the order. *)
LEMMA StoringInOrder ==
  ASSUME TypeOK, HeadInv, Storing
  PROVE  HeadInv'
<1>1. ASSUME NEW a \in Advices, StoreAdvice(a) PROVE HeadInv'
  <2> DEFINE r == [advice |-> a, status |-> {"needs_sending"}]
  <2>1. r \in Records /\ r.status = {"needs_sending"}
    BY DEF Records, Flags
  <2> HIDE DEF r
  <2>2. batch' = Append(batch, r) /\ pc' \notin InUpload
    BY <1>1 DEF StoreAdvice, InUpload, r
  <2> QED
    BY <2>1, <2>2, AppendInOrder
<1>2. ASSUME StoreReversalPrint PROVE HeadInv'
  <2> DEFINE r == [advice |-> Reversal, status |-> {"message_sent"}]
  <2>1. r \in Records /\ r.status = {"message_sent"}
    BY DEF Records, Flags
  <2> HIDE DEF r
  <2>2. batch' = Append(batch, r) /\ pc' \notin InUpload
    BY <1>2 DEF StoreReversalPrint, InUpload, r
  <2> QED
    BY <2>1, <2>2, AppendInOrder
<1>3. ASSUME CountAdvice \/ SaveAdvice PROVE HeadInv'
  <2>1. batch' = batch /\ pc' \notin InUpload
    BY <1>3 DEF CountAdvice, SaveAdvice, InUpload
  <2>2. DropsAny
    BY <2>1, StoresDrop DEF DropsAny
  <2> QED
    BY <2>1, <2>2, QuietInOrder
<1> QED
  BY <1>1, <1>2, <1>3 DEF Storing

(* Commands, power failures and upgrades keep the order. *)
LEMMA CommandInOrder ==
  ASSUME TypeOK, HeadInv, Commanding \/ PowerFail \/ Upgrade
  PROVE  HeadInv'
<1>1. pc' \notin InUpload
  BY DEF Commanding, Recount, PrintsOn, PrintsOff, PurgePrint, PurgeDone, PrintOne,
         PowerFail, Upgrade, Finished, InUpload
<1>2. CASE Recount \/ PrintsOn \/ PurgeDone \/ PowerFail
  <2>1. batch' = batch
    BY <1>2 DEF Recount, PrintsOn, PurgeDone, PowerFail, disk
  <2> QED
    BY <1>1, <2>1, StoresDrop, QuietInOrder DEF DropsAny
<1>3. CASE PrintsOff \/ Upgrade
  <2>1. batch' = batch \/ batch' = <<>>
    BY <1>3 DEF PrintsOff, Upgrade, Leaves, Store, Destroyed
  <2> QED
    BY <1>1, <2>1, StoresDrop, QuietInOrder DEF DropsAny
<1>4. CASE PurgePrint
  <2>1. PICK i \in Prints(batch) :
          Leaves([Deleted(i) EXCEPT !.totals.print = Decrement(@)])
    BY <1>4 DEF PurgePrint
  <2> DEFINE done == Deleted(i)
  <2>2. done \in Stores /\ (done.batch = <<>> \/ Drops({i}, done.batch))
    BY StoresTyped, StoresDrop
  <2> HIDE DEF done
  <2>3. Leaves([done EXCEPT !.totals.print = Decrement(@)])
    BY <2>1 DEF done
  <2>4. batch' = done.batch
    BY <2>2, <2>3 DEF Leaves, Stores
  <2> QED
    BY <1>1, <2>2, <2>4, QuietInOrder DEF DropsAny
<1>5. CASE PrintOne
  <2>1. PICK i : Leaves(Deleted(i))
    BY <1>5 DEF PrintOne
  <2> QED
    BY <1>1, <2>1, StoresDrop, QuietInOrder DEF DropsAny, Leaves
<1> QED
  BY <1>2, <1>3, <1>4, <1>5 DEF Commanding

(* The flag set before a transmission is set on the oldest unsent record. *)
LEMMA SelectInOrder ==
  ASSUME TypeOK, HeadInv, SelectRecord
  PROVE  HeadInv'
<1> DEFINE i == First(Matching(Wanted, job.index))
           j == First(Matching("needs_sending", i))
           again == "repeat_saf" \in batch[j].status
<1>1. /\ i \in Unsent(batch) /\ j = i
      /\ \A k \in Unsent(batch) : i <= k
  BY SelectedIsHead DEF SelectRecord
<1>2. /\ batch' = WithStatus(j, {"repeat_saf"}, {}) /\ pc' = "send"
      /\ job' = [job EXCEPT !.index = j, !.msg = IF again THEN "0221" ELSE "0220"]
      /\ totals' = [totals EXCEPT !.repeat = @ \/ again] /\ totals.saf # 0
  BY DEF SelectRecord
<1> HIDE DEF i, j, again
<1>3. Reflagged(batch', i, {"repeat_saf"}, {})
  BY <1>1, <1>2, WithStatusKeepsRecords DEF TypeOK, Flags
<1>4. /\ job'.index = i /\ job'.repeatOnly = job.repeatOnly
      /\ totals'.saf = totals.saf /\ totals.saf \in Nat
  BY <1>1, <1>2 DEF TypeOK, Jobs, Totals
<1>5. \A k \in DOMAIN batch : \A flag \in {"needs_sending", "message_sent", "deleted_offline"} :
        flag \in batch'[k].status <=> flag \in batch[k].status
  BY <1>3 DEF Reflagged
<1>6. DOMAIN batch' = DOMAIN batch
  BY <1>3 DEF Reflagged
<1>7. Shaped(batch')
  BY <1>5, <1>6 DEF HeadInv, Shaped, Live
<1>8. Unsent(batch') = Unsent(batch)
  BY <1>5, <1>6 DEF Unsent, IsUnsent, Live
<1>9. \A k \in DOMAIN batch : k # i => batch'[k].status = batch[k].status
  BY <1>3 DEF Reflagged
<1>10. OneRepeatAtHead'
  <2>1. ASSUME NEW k \in Unsent(batch'), NEW m \in Unsent(batch'),
               "repeat_saf" \in batch'[k].status
        PROVE  k <= m
    <3>1. CASE k = i
      BY <1>1, <1>8, <3>1
    <3>2. CASE k # i
      <4>1. "repeat_saf" \in batch[k].status
        BY <1>8, <1>9, <2>1, <3>2 DEF Unsent
      <4> QED
        BY <1>8, <4>1 DEF HeadInv, OneRepeatAtHead
    <3> QED
      BY <3>1, <3>2
  <2> QED
    BY <2>1 DEF OneRepeatAtHead
<1>11. UploadAtHead'
  BY <1>1, <1>2, <1>4, <1>8 DEF UploadAtHead
<1>12. UploadKeepsItsRecord'
  BY <1>1, <1>2, <1>4, <1>6 DEF UploadKeepsItsRecord, Unsent
<1> QED
  BY <1>7, <1>10, <1>11, <1>12 DEF HeadInv

(* The steps of an upload that hold no record keep what is ahead of its index. *)
LEMMA PassingInOrder ==
  ASSUME HeadInv, DropsAny, pc \in InUpload, pc' \in {"select", "saving"},
         job'.index = job.index, job'.repeatOnly = job.repeatOnly
  PROVE  HeadInv'
<1>1. Shaped(batch') /\ OneRepeatAtHead' /\ Unsent(batch') \subseteq Unsent(batch)
  BY DroppedInOrder
<1>2. UploadAtHead'
  BY <1>1 DEF HeadInv, UploadAtHead, InUpload
<1> QED
  BY <1>1, <1>2 DEF HeadInv, UploadKeepsItsRecord

(* An answer settles the record being uploaded, and only its own. *)
LEMMA AnswerDrops ==
  ASSUME TypeOK, HeadInv, NEW approved \in BOOLEAN, Answer(approved)
  PROVE  /\ Drops({job.index}, batch')
         /\ saved' = saved /\ totals'.saf = totals.saf
<1> DEFINE kept == Store(WithStatus(job.index, {"message_sent"}, {"needs_sending"}),
                         saved, totals)
           done == IF noPrints THEN Deleted(job.index) ELSE kept
<1>1. kept \in Stores
  BY WithStatusTyped DEF Store, Stores, TypeOK
<1>2. done \in Stores
  BY <1>1, StoresTyped
<1>3. totals.saf # 0
  BY DEF Answer, HeadInv, UploadKeepsItsRecord
<1>4. Drops({job.index}, kept.batch) /\ kept.saved = saved /\ kept.totals = totals
  BY StoresDrop DEF Store
<1>5. Drops({job.index}, done.batch) /\ done.saved = saved /\ done.totals.saf = totals.saf
  BY <1>3, <1>4, StoresDrop
<1>6. Leaves([done EXCEPT
                !.totals.repeat = FALSE,
                !.totals.ns = IF approved /\ @ >= 1 THEN @ - 1 ELSE @])
  BY DEF Answer
<1> HIDE DEF kept, done
<1>7. batch' = done.batch /\ saved' = done.saved /\ totals'.saf = done.totals.saf
  BY <1>2, <1>6 DEF Leaves, Stores, Totals
<1> QED
  BY <1>5, <1>7

(* How many records wait, against a part of them. *)
LEMMA FewerWait ==
  ASSUME NEW b \in Seq(Records), NEW T, T \subseteq Unsent(b)
  PROVE  /\ Cardinality(Unsent(b)) \in Nat
         /\ Cardinality(T) \in Nat /\ Cardinality(T) <= Cardinality(Unsent(b))
         /\ Cardinality(Unsent(b)) = 0 => Unsent(b) = {}
         /\ \A i \in Unsent(b) : /\ Cardinality(Unsent(b)) >= 1
                                 /\ Cardinality(Unsent(b) \ {i}) = Cardinality(Unsent(b)) - 1
<1>1. IsFiniteSet(Unsent(b)) /\ Cardinality(Unsent(b)) \in Nat
  BY CountsAreNumbers
<1>2. IsFiniteSet(T) /\ Cardinality(T) <= Cardinality(Unsent(b))
  BY <1>1, FS_Subset
<1>3. Cardinality(T) \in Nat
  BY <1>2, FS_CardinalityType
<1>4. Cardinality(Unsent(b)) = 0 => Unsent(b) = {}
  BY <1>1, FS_EmptySet
<1>5. ASSUME NEW i \in Unsent(b)
      PROVE  /\ Cardinality(Unsent(b)) >= 1
             /\ Cardinality(Unsent(b) \ {i}) = Cardinality(Unsent(b)) - 1
  <2>1. Cardinality(Unsent(b) \ {i}) = Cardinality(Unsent(b)) - 1
    BY <1>1, FS_RemoveElement
  <2>2. Cardinality(Unsent(b)) # 0
    BY <1>4
  <2> QED
    BY <1>1, <2>1, <2>2
<1> QED
  BY <1>1, <1>2, <1>3, <1>4, <1>5

(* Each step of an upload keeps the order. *)
LEMMA UploadingInOrder ==
  ASSUME TypeOK, TypeOK', HeadInv, Uploading
  PROVE  HeadInv'
<1>1. ASSUME NEW n \in UploadCounts, StartUpload(n) \/ StartRepeat(n) \/ StartClear(n)
      PROVE  HeadInv'
  <2>1. batch' = batch /\ pc' = "select" /\ job'.index = 1
    BY <1>1 DEF StartUpload, StartRepeat, StartClear, Start, disk, NoJob
  <2>2. \A k \in Unsent(batch) : 1 <= k
    BY DEF Unsent, TypeOK
  <2> QED
    BY <2>1, <2>2 DEF HeadInv, Shaped, UploadAtHead, OneRepeatAtHead, UploadKeepsItsRecord
<1>2. CASE NothingToSend
  <2>1. batch' = batch \/ batch' = <<>>
    BY <1>2 DEF NothingToSend, Leaves, Store, Destroyed
  <2>2. pc' \notin InUpload
    BY <1>2 DEF NothingToSend, Finished, InUpload
  <2> QED
    BY <2>1, <2>2, StoresDrop, QuietInOrder DEF DropsAny
<1>3. CASE DropInvalid
  <2> DEFINE i == First(Matching(Wanted, job.index))
  <2>1. i \in Unsent(batch) /\ \A k \in Unsent(batch) : i <= k
    BY <1>3, SelectedIsHead DEF DropInvalid
  <2>2. Leaves(Deleted(i)) /\ job' = [job EXCEPT !.index = i] /\ pc' = "select"
    BY <1>3 DEF DropInvalid
  <2> HIDE DEF i
  <2>3. DropsAny
    BY <2>2, StoresDrop DEF DropsAny, Leaves
  <2>4. Shaped(batch') /\ OneRepeatAtHead' /\ Unsent(batch') \subseteq Unsent(batch)
    BY <2>3, DroppedInOrder
  <2>5. job'.index = i
    BY <2>2 DEF TypeOK, Jobs
  <2> QED
    BY <2>1, <2>2, <2>4, <2>5 DEF HeadInv, UploadAtHead, UploadKeepsItsRecord
<1>4. ASSUME SendFailed PROVE HeadInv'
  <2>1. DropsAny
    BY <1>4, StoresDrop DEF SendFailed, DropsAny
  <2>2. pc' \notin InUpload
    BY <1>4 DEF SendFailed, Finished, InUpload
  <2> QED
    BY <2>1, <2>2, QuietInOrder
<1>5. ASSUME NEW journalled \in BOOLEAN, CreateFails(journalled) PROVE HeadInv'
  <2>1. CASE SendFailed
    BY <1>4, <2>1
  <2>2. CASE ~SendFailed
    <3>1. Leaves(Deleted(job.index)) /\ pc' \notin InUpload
      BY <1>5, <2>2 DEF CreateFails, Finished, InUpload
    <3> QED
      BY <3>1, StoresDrop, QuietInOrder DEF DropsAny, Leaves
  <2> QED
    BY <2>1, <2>2
<1>6. ASSUME NEW arrives \in BOOLEAN, Transmit(arrives) PROVE HeadInv'
  <2>1. /\ batch' = batch /\ pc' = "wait" /\ pc = "send"
        /\ job'.index = job.index /\ job'.repeatOnly = job.repeatOnly
        /\ totals'.saf = Cardinality(Unsent(batch))
    BY <1>6 DEF Transmit, disk, TypeOK, Jobs, Recounted, Totals
  <2>2. job.index \in Unsent(batch)
    BY <2>1 DEF HeadInv, UploadAtHead
  <2>3. Cardinality(Unsent(batch)) >= 1
    BY <2>2, FewerWait DEF TypeOK
  <2>4. UploadKeepsItsRecord'
    BY <2>1, <2>2, <2>3 DEF UploadKeepsItsRecord, Unsent
  <2> QED
    BY <2>1, <2>4 DEF HeadInv, Shaped, UploadAtHead, OneRepeatAtHead
<1>7. ASSUME NEW approved \in BOOLEAN, Answer(approved) PROVE HeadInv'
  <2>1. /\ Drops({job.index}, batch') /\ totals'.saf = totals.saf
        /\ pc = "wait" /\ pc' = "settled" /\ job' = job
    BY <1>7, AnswerDrops DEF Answer
  <2>2. Shaped(batch') /\ OneRepeatAtHead' /\ Unsent(batch') \subseteq Unsent(batch)
    BY <2>1, DroppedInOrder DEF DropsAny
  <2>3. UploadKeepsItsRecord'
    BY <2>1 DEF HeadInv, UploadKeepsItsRecord, Drops
  <2> QED
    BY <2>1, <2>2, <2>3 DEF HeadInv, UploadAtHead
<1>8. CASE CountSettled
  <2>1. batch' = batch \/ batch' = <<>>
    BY <1>8 DEF CountSettled, Leaves, Store, Destroyed
  <2>2. pc \in InUpload /\ pc' = "saving" /\ job' = job
    BY <1>8 DEF CountSettled, InUpload
  <2> QED
    BY <2>1, <2>2, StoresDrop, PassingInOrder DEF DropsAny
<1>9. CASE SaveSettled
  <2>1. DropsAny
    BY <1>9, StoresDrop DEF SaveSettled, Leaves, Store, DropsAny
  <2>2. CASE job.left > 1
    <3>1. /\ pc \in InUpload /\ pc' = "select"
          /\ job' = [job EXCEPT !.left = @ - 1, !.heard = FALSE]
      BY <1>9, <2>2 DEF SaveSettled, InUpload
    <3>2. job'.index = job.index /\ job'.repeatOnly = job.repeatOnly
      BY <3>1 DEF TypeOK, Jobs
    <3> QED
      BY <2>1, <3>1, <3>2, PassingInOrder
  <2>3. CASE ~(job.left > 1)
    <3>1. pc' \notin InUpload
      BY <1>9, <2>3 DEF SaveSettled, Finished, InUpload
    <3> QED
      BY <2>1, <3>1, QuietInOrder
  <2> QED
    BY <2>2, <2>3
<1> QED
  BY <1>1, <1>2, <1>3, <1>4, <1>5, <1>6, <1>7, <1>8, <1>9, SelectInOrder
     DEF Uploading, ConnectFails, NoAnswer

(* One step keeps the queue in order. *)
LEMMA HeadStep ==
  ASSUME TypeOK, TypeOK', HeadInv, [Next]_vars
  PROVE  HeadInv'
<1>1. CASE UNCHANGED vars
  BY <1>1 DEF vars, HeadInv, Shaped, UploadAtHead, OneRepeatAtHead, UploadKeepsItsRecord
<1> QED
  BY <1>1, StoringInOrder, UploadingInOrder, CommandInOrder DEF Next

-----------------------------------------------------------------------------
(* Every step keeps the advices, and the counter ahead of them. *)

(* The totals a restart would begin with hold a number. *)
LEMMA RestartCount ==
  ASSUME NEW s \in Totals \cup {Missing}
  PROVE  (IF s = Missing THEN ZeroTotals ELSE s).saf \in Nat
BY DEF Totals, ZeroTotals

\* the records of S leave the upload list with their advices accounted for
Accounts(S) ==
    /\ accepted' = accepted
    /\ received \subseteq received' /\ discarded \subseteq discarded'
    /\ batch' = <<>> \/ Drops(S, batch')
    /\ \A k \in Unsent(batch) : batch' = <<>> \/ k \in S
         => batch[k].advice \in received' \cup discarded'

(* What waits is an advice, never the print of a reversal. *)
LEMMA UnsentIsAdvice ==
  ASSUME IInv
  PROVE  \A k \in Unsent(batch) : k \in DOMAIN batch /\ batch[k].advice # Reversal
BY DEF IInv, OneRecordEach, Unsent, IsUnsent

(* No accepted advice is lost where each one dropped is accounted for. *)
LEMMA AccountsKeep ==
  ASSUME TypeOK, TypeOK', HeadInv, AllKept, NEW S, Accounts(S)
  PROVE  /\ AllKept'
         /\ Cardinality(Unsent(batch')) \in Nat /\ Cardinality(Unsent(batch)) \in Nat
         /\ Cardinality(Unsent(batch')) <= Cardinality(Unsent(batch))
<1>1. Unsent(batch') = IF batch' = <<>> THEN {} ELSE Unsent(batch) \ S
  <2>1. CASE batch' = <<>>
    BY <2>1 DEF Unsent
  <2>2. CASE batch' # <<>>
    BY <2>2, DropsShape DEF Accounts, HeadInv
  <2> QED
    BY <2>1, <2>2
<1>2. \A k \in Unsent(batch') : k \in Unsent(batch) /\ batch'[k].advice = batch[k].advice
  BY <1>1 DEF Accounts, Drops, Unsent
<1>3. AllKept'
  <2>1. ASSUME NEW a \in accepted, a \notin received' \cup discarded'
        PROVE  \E i \in Unsent(batch') : batch'[i].advice = a
    <3>1. a \notin received \cup discarded
      BY <2>1 DEF Accounts
    <3>2. PICK k \in Unsent(batch) : batch[k].advice = a
      BY <2>1, <3>1 DEF AllKept
    <3>3. k \in Unsent(batch')
      BY <1>1, <2>1, <3>2 DEF Accounts
    <3> QED
      BY <1>2, <3>2, <3>3
  <2> QED
    BY <2>1 DEF AllKept, Accounts
<1>4. Unsent(batch') \subseteq Unsent(batch)
  BY <1>2
<1>5. batch \in Seq(Records) /\ batch' \in Seq(Records)
  BY DEF TypeOK
<1>6. Cardinality(Unsent(batch')) \in Nat
  BY <1>5, CountsAreNumbers
<1> QED
  BY <1>3, <1>4, <1>5, <1>6, FewerWait

(* A step that leaves the totals file alone is safe when the RAM count is. *)
LEMMA SafeWithFile ==
  ASSUME TypeOK, TypeOK', HeadInv, Safe, NEW S, Accounts(S),
         saved' = saved, pc \notin {"stored", "counted", "saving"}, pc' # "stored",
         Cardinality(Unsent(batch')) + (IF pc' = "settled" THEN 1 ELSE 0) <= totals'.saf
  PROVE  Safe'
<1>1. /\ AllKept'
      /\ Cardinality(Unsent(batch')) \in Nat /\ Cardinality(Unsent(batch)) \in Nat
      /\ Cardinality(Unsent(batch')) <= Cardinality(Unsent(batch))
  BY AccountsKeep DEF Safe
<1>2. OnRestart' = OnRestart /\ OnRestart.saf \in Nat
  BY RestartCount DEF OnRestart, TypeOK
<1>3. Cardinality(Unsent(batch)) <= OnRestart.saf
  BY DEF Safe, Counted
<1>4. Counted'
  BY <1>1, <1>2, <1>3 DEF Counted, TypeOK, Totals
<1>5. Cardinality(Unsent(batch')) <= MaxSafs
  BY <1>1, SafAssumption DEF Safe
<1> QED
  BY <1>1, <1>4, <1>5 DEF Safe

(* A step that leaves no records is safe whatever it does to the totals. *)
LEMMA SafeWhenEmpty ==
  ASSUME TypeOK, TypeOK', HeadInv, Safe, Accounts({}), batch' = <<>>, pc' # "settled"
  PROVE  Safe'
<1>1. AllKept'
  BY AccountsKeep DEF Safe
<1>2. Cardinality(Unsent(batch')) = 0
  <2>1. Unsent(batch') = {}
    BY DEF Unsent
  <2> QED
    BY <2>1, FS_EmptySet
<1>3. OnRestart'.saf \in Nat /\ totals'.saf \in Nat
  BY RestartCount DEF OnRestart, TypeOK, Totals
<1>4. Counted'
  BY <1>2, <1>3 DEF Counted
<1> QED
  BY <1>1, <1>2, <1>4, SafAssumption DEF Safe

(* Storing: the limit is looked at before, the counter follows. *)
LEMMA StoringSafe ==
  ASSUME CountInv, TypeOK', Safe, Storing
  PROVE  Safe'
<1> USE DEF CountInv, AccountInv, IInv
<1> DEFINE U == Cardinality(Unsent(batch))
<1>1. U \in Nat /\ totals.saf \in Nat /\ OnRestart.saf \in Nat
  BY CountsAreNumbers, RestartCount DEF TypeOK, Totals, OnRestart
<1>2. ASSUME NEW a \in Advices, StoreAdvice(a) PROVE Safe'
  <2> DEFINE n == Len(batch) + 1
             r == [advice |-> a, status |-> {"needs_sending"}]
  <2>1. /\ DOMAIN batch' = DOMAIN batch \cup {n} /\ n \notin DOMAIN batch
        /\ \A k \in DOMAIN batch : batch'[k] = batch[k]
        /\ batch'[n] = r
    BY <1>2 DEF StoreAdvice, TypeOK
  <2>2. IsUnsent(r) /\ r.advice = a
    BY DEF IsUnsent, Live
  <2> HIDE DEF n, r
  <2>3. Unsent(batch') = Unsent(batch) \cup {n} /\ n \notin Unsent(batch)
    BY <2>1, <2>2 DEF Unsent
  <2>4. Cardinality(Unsent(batch')) = U + 1
    BY <2>3, CountsAreNumbers, FS_AddElement DEF TypeOK
  <2>5. /\ pc = "idle" /\ pc' = "stored" /\ totals' = totals /\ accepted' = accepted \cup {a}
        /\ received' = received /\ discarded' = discarded
        /\ ~(totals.saf >= MaxSafs)
    BY <1>2 DEF StoreAdvice, saf_full
  <2>6. U <= totals.saf
    BY <1>1, <2>5 DEF Safe, Counted
  <2>7. Counted'
    BY <1>1, <2>4, <2>5, <2>6 DEF Counted
  <2>8. AllKept'
    <3>1. \A k \in Unsent(batch) : batch'[k].advice = batch[k].advice
      BY <2>1 DEF Unsent
    <3>2. batch'[n].advice = a
      BY <2>1, <2>2
    <3> QED
      BY <2>3, <2>5, <3>1, <3>2 DEF AllKept, Safe
  <2>9. Cardinality(Unsent(batch')) <= MaxSafs
    BY <1>1, <2>4, <2>5, <2>6, SafAssumption
  <2> QED
    BY <2>7, <2>8, <2>9 DEF Safe
<1>3. CASE CountAdvice
  <2>1. /\ pc = "stored" /\ pc' = "counted" /\ batch' = batch
        /\ accepted' = accepted /\ received' = received /\ discarded' = discarded
        /\ totals'.saf = totals.saf + 1
    BY <1>3 DEF CountAdvice, ghosts, TypeOK, Totals
  <2>2. U <= totals.saf + 1
    BY <1>1, <2>1 DEF Safe, Counted
  <2>3. Counted'
    BY <1>1, <2>1, <2>2 DEF Counted
  <2>4. AllKept'
    BY <2>1 DEF Safe, AllKept
  <2> QED
    BY <2>1, <2>3, <2>4 DEF Safe
<1>4. CASE SaveAdvice
  <2>1. /\ pc = "counted" /\ pc' = "idle" /\ batch' = batch
        /\ accepted' = accepted /\ received' = received /\ discarded' = discarded
        /\ totals'.saf = totals.saf /\ saved' = totals
    BY <1>4 DEF SaveAdvice, ghosts, TypeOK, Totals
  <2>2. U <= totals.saf
    BY <1>1, <2>1 DEF Safe, Counted
  <2>3. OnRestart' = totals
    BY <2>1 DEF OnRestart, Missing, TypeOK, Totals
  <2>4. Counted'
    BY <1>1, <2>1, <2>2, <2>3 DEF Counted
  <2>5. AllKept'
    BY <2>1 DEF Safe, AllKept
  <2> QED
    BY <2>1, <2>4, <2>5 DEF Safe
<1>5. CASE StoreReversalPrint
  <2> DEFINE n == Len(batch) + 1
             r == [advice |-> Reversal, status |-> {"message_sent"}]
  <2>1. /\ DOMAIN batch' = DOMAIN batch \cup {n}
        /\ \A k \in DOMAIN batch : batch'[k] = batch[k]
        /\ batch'[n] = r
    BY <1>5 DEF StoreReversalPrint, TypeOK
  <2>2. ~IsUnsent(r)
    BY DEF IsUnsent
  <2> HIDE DEF n, r
  <2>3. Unsent(batch') = Unsent(batch)
    BY <2>1, <2>2 DEF Unsent
  <2>4. \A k \in Unsent(batch) : batch'[k].advice = batch[k].advice
    BY <2>1 DEF Unsent
  <2>5. /\ pc' = pc /\ saved' = saved /\ totals'.saf = totals.saf
        /\ accepted' = accepted /\ received' = received /\ discarded' = discarded
    BY <1>5 DEF StoreReversalPrint, ghosts, TypeOK, Totals
  <2>6. AllKept'
    BY <2>3, <2>4, <2>5 DEF Safe, AllKept
  <2>7. Counted'
    BY <2>3, <2>5 DEF Safe, Counted, OnRestart
  <2> QED
    BY <2>3, <2>6, <2>7 DEF Safe
<1> QED
  BY <1>2, <1>3, <1>4, <1>5 DEF Storing

(* Commands, power failures and upgrades delete no advice: they destroy the  *)
(* batch when a fresh count, or a count that covers it, says that it is empty.*)
LEMMA CommandSafe ==
  ASSUME CountInv, TypeOK', Safe, Commanding \/ PowerFail \/ Upgrade, ~totalsLost'
  PROVE  Safe'
<1> USE DEF CountInv, AccountInv, IInv
<1> DEFINE U == Cardinality(Unsent(batch))
<1>1. U \in Nat /\ totals.saf \in Nat /\ OnRestart.saf \in Nat
  BY CountsAreNumbers, RestartCount DEF TypeOK, Totals, OnRestart
<1>2. accepted' = accepted /\ received' = received /\ discarded' = discarded
  BY DEF Commanding, Recount, PrintsOn, PrintsOff, PurgePrint, PurgeDone, PrintOne,
         PowerFail, Upgrade, ghosts
<1>3. batch' = batch => Accounts({})
  <2>1. batch = <<>> => Unsent(batch) = {}
    BY DEF Unsent
  <2>2. Drops({}, batch)
    BY StoresDrop
  <2> QED
    BY <1>2, <2>1, <2>2 DEF Accounts
<1>4. U = 0 /\ batch' = <<>> => Accounts({})
  BY <1>2, FewerWait DEF Accounts, TypeOK
<1>5. pc \in {"idle", "purge"} => U <= totals.saf
  BY <1>1 DEF Safe, Counted
<1>6. CASE Recount \/ PrintsOn \/ PurgeDone
  <2>1. /\ batch' = batch /\ saved' = saved /\ pc \in {"idle", "purge"} /\ pc' = "idle"
        /\ totals'.saf = totals.saf \/ totals'.saf = U
    BY <1>6 DEF Recount, PrintsOn, PurgeDone, Finished, disk, Recounted, TypeOK, Totals
  <2>2. Cardinality(Unsent(batch')) <= totals'.saf
    BY <1>1, <1>5, <2>1
  <2> QED
    BY <1>1, <1>3, <2>1, <2>2, SafeWithFile
<1>7. CASE PrintsOff \/ Upgrade
  <2>1. PICK t \in Totals :
          /\ t.saf = U
          /\ Leaves(IF t.saf = 0 THEN Destroyed(saved, t) ELSE Store(batch, saved, t))
    <3>1. \A u \in Totals : Recounted(u, batch) \in Totals /\ Recounted(u, batch).saf = U
      BY CountsAreNumbers DEF Recounted, Totals, TypeOK
    <3>2. OnRestart \in Totals
      BY RestartTyped
    <3> QED
      BY <1>7, <3>1, <3>2 DEF PrintsOff, Upgrade, TypeOK
  <2>2. pc = "idle" /\ pc' \in {"idle", "purge"}
    BY <1>7 DEF PrintsOff, Upgrade
  <2>3. CASE U = 0
    <3>1. batch' = <<>>
      BY <2>1, <2>3, StoresDrop DEF Leaves
    <3> QED
      BY <1>4, <2>2, <2>3, <3>1, SafeWhenEmpty
  <2>4. CASE U # 0
    <3>1. batch' = batch /\ saved' = saved /\ totals' = t
      BY <2>1, <2>4 DEF Leaves, Store
    <3>2. Cardinality(Unsent(batch')) <= totals'.saf
      BY <1>1, <2>1, <3>1
    <3> QED
      BY <1>1, <1>3, <2>2, <3>1, <3>2, SafeWithFile
  <2> QED
    BY <2>3, <2>4
<1>8. ASSUME NEW i \in Prints(batch), pc' = pc, pc \in {"idle", "purge"},
             batch' = Deleted(i).batch, saved' = Deleted(i).saved,
             totals'.saf = Deleted(i).totals.saf
      PROVE  Safe'
  <2>1. CASE batch' = <<>> /\ totals.saf = 0
    BY <1>1, <1>4, <1>5, <1>8, <2>1, SafeWhenEmpty
  <2>2. CASE Drops({i}, batch') /\ saved' = saved /\ totals'.saf = totals.saf
    <3>1. i \notin Unsent(batch)
      BY DEF Unsent, Prints, IsUnsent, IsPrint
    <3>2. Unsent(batch') = Unsent(batch)
      <4>1. Unsent(batch') = Unsent(batch) \ {i}
        BY <2>2, DropsShape DEF HeadInv
      <4> QED
        BY <3>1, <4>1
    <3>3. Accounts({i})
      <4>1. batch' # <<>>
        BY <1>8, <2>2 DEF Drops, Prints
      <4> QED
        BY <1>2, <2>2, <3>1, <4>1 DEF Accounts
    <3>4. Cardinality(Unsent(batch')) <= totals'.saf
      BY <1>5, <1>8, <2>2, <3>2
    <3> QED
      BY <1>1, <1>8, <2>2, <3>2, <3>3, <3>4, SafeWithFile
  <2> QED
    BY <1>8, <2>1, <2>2, StoresDrop
<1>9. CASE PurgePrint
  <2>1. PICK i \in Prints(batch) :
          Leaves([Deleted(i) EXCEPT !.totals.print = Decrement(@)])
    BY <1>9 DEF PurgePrint
  <2> DEFINE done == Deleted(i)
  <2>2. done \in Stores
    BY StoresTyped
  <2> HIDE DEF done
  <2>3. Leaves([done EXCEPT !.totals.print = Decrement(@)])
    BY <2>1 DEF done
  <2>4. batch' = done.batch /\ saved' = done.saved /\ totals'.saf = done.totals.saf
    BY <2>2, <2>3 DEF Leaves, Stores, Totals
  <2>5. pc' = pc /\ pc = "purge"
    BY <1>9 DEF PurgePrint
  <2> QED
    BY <1>8, <2>4, <2>5 DEF done
<1>10. CASE PrintOne
  <2> DEFINE i == First(Prints(batch))
  <2>1. i \in Prints(batch) /\ Leaves(Deleted(i)) /\ pc' = pc /\ pc = "idle"
    BY <1>10, FirstPrint DEF PrintOne
  <2> HIDE DEF i
  <2> QED
    BY <1>8, <2>1 DEF Leaves
<1>11. CASE PowerFail
  <2>1. /\ batch' = batch /\ saved' = saved /\ totals' = OnRestart /\ pc' = "idle"
        /\ ~(OnRestart.saf < U)
    BY <1>11 DEF PowerFail, disk, Finished
  <2>2. OnRestart' = OnRestart
    BY <2>1 DEF OnRestart
  <2>3. Counted'
    BY <1>1, <2>1, <2>2 DEF Counted
  <2>4. AllKept'
    BY <1>2, <2>1 DEF Safe, AllKept
  <2> QED
    BY <2>1, <2>3, <2>4 DEF Safe
<1> QED
  BY <1>6, <1>7, <1>9, <1>10, <1>11 DEF Commanding

(* Each step of an upload: a record leaves the list before it leaves the     *)
(* count, and the batch goes only when the count covers nothing.             *)
LEMMA UploadingSafe ==
  ASSUME CountInv, TypeOK', Safe, Uploading
  PROVE  Safe'
<1> USE DEF CountInv, AccountInv, IInv
<1> DEFINE U == Cardinality(Unsent(batch))
<1>1. U \in Nat /\ totals.saf \in Nat /\ OnRestart.saf \in Nat
  BY CountsAreNumbers, RestartCount DEF TypeOK, Totals, OnRestart
<1>2. batch = <<>> => Unsent(batch) = {}
  BY DEF Unsent
<1>3. pc # "settled" /\ pc # "stored" => U <= totals.saf
  BY <1>1 DEF Safe, Counted
<1>4. /\ accepted' = accepted /\ received \subseteq received'
      /\ discarded \subseteq discarded'
  BY DEF Uploading, StartUpload, StartRepeat, StartClear, Start, NothingToSend, DropInvalid,
     SelectRecord, ConnectFails, CreateFails, Transmit, NoAnswer, SendFailed, Answer,
     CountSettled, SaveSettled, GivenUp, ghosts
<1>5. batch' = batch => Accounts({})
  <2>1. Drops({}, batch)
    BY StoresDrop
  <2> QED
    BY <1>2, <1>4, <2>1 DEF Accounts
<1>6. U = 0 /\ batch' = <<>> => Accounts({})
  BY <1>4, FewerWait DEF Accounts, TypeOK
<1>7. GivenUp(Unsent(batch)) /\ batch' = <<>> => Accounts({})
  <2>1. GivenUp(Unsent(batch)) => \A k \in Unsent(batch) : batch[k].advice \in discarded'
    BY UnsentIsAdvice DEF GivenUp
  <2> QED
    BY <1>4, <2>1 DEF Accounts
<1>8. ASSUME NEW i \in Unsent(batch), Drops({i}, batch'), GivenUp({i})
      PROVE  Accounts({i}) /\ Cardinality(Unsent(batch')) = U - 1
  <2>1. batch[i].advice \in discarded'
    BY <1>8, UnsentIsAdvice DEF GivenUp
  <2>2. batch' # <<>>
    BY <1>8 DEF Drops, Unsent
  <2>3. Unsent(batch') = Unsent(batch) \ {i}
    BY <1>8, DropsShape DEF HeadInv
  <2> QED
    BY <1>4, <1>8, <2>1, <2>2, <2>3, FewerWait DEF Accounts, TypeOK
<1>9. ASSUME NEW n \in UploadCounts, StartUpload(n) \/ StartRepeat(n) \/ StartClear(n)
      PROVE  Safe'
  <2>1. batch' = batch /\ saved' = saved /\ totals' = totals /\ pc = "idle" /\ pc' = "select"
    BY <1>9 DEF StartUpload, StartRepeat, StartClear, Start, disk
  <2>2. Cardinality(Unsent(batch')) <= totals'.saf
    BY <1>3, <2>1
  <2> QED
    BY <1>1, <1>5, <2>1, <2>2, SafeWithFile
<1>10. CASE NothingToSend
  <2> DEFINE t == [totals EXCEPT !.repeat = FALSE,
                                 !.saf = IF job.repeatOnly THEN @ ELSE 0]
  <2>1. t.saf = IF job.repeatOnly THEN totals.saf ELSE 0
    BY DEF TypeOK, Totals
  <2>2. pc = "select" /\ pc' = "idle"
    BY <1>10 DEF NothingToSend, Finished
  <2>3. IF job.destroy THEN Leaves(Destroyed(saved, t)) /\ GivenUp(Unsent(batch))
                       ELSE Leaves(Store(batch, saved, t))
    BY <1>10 DEF NothingToSend
  <2> HIDE DEF t
  <2>4. CASE job.destroy
    <3>1. batch' = <<>> /\ GivenUp(Unsent(batch))
      BY <2>3, <2>4, StoresDrop DEF Leaves
    <3> QED
      BY <1>7, <2>2, <3>1, SafeWhenEmpty
  <2>5. CASE ~job.destroy
    <3>1. batch' = batch /\ saved' = saved /\ totals' = t
      BY <2>3, <2>5 DEF Leaves, Store
    <3>2. U <= t.saf
      <4>1. CASE job.repeatOnly
        BY <1>3, <2>1, <2>2, <4>1
      <4>2. CASE ~job.repeatOnly /\ totals.saf = 0
        BY <1>1, <1>3, <2>1, <2>2, <4>2
      <4>3. CASE ~job.repeatOnly /\ Matching(Wanted, job.index) = {}
        <5>1. \A k \in Unsent(batch) : k >= job.index
          BY <2>2, <4>3 DEF HeadInv, UploadAtHead, Unsent, TypeOK, Jobs
        <5>2. Unsent(batch) = {}
          BY <4>3, <5>1, MatchingUnsent DEF HeadInv, Wanted
        <5>3. U = 0
          BY <5>2, FS_EmptySet
        <5> QED
          BY <2>1, <4>3, <5>3
      <4> QED
        BY <1>10, <4>1, <4>2, <4>3 DEF NothingToSend
    <3>3. Cardinality(Unsent(batch')) <= totals'.saf
      BY <3>1, <3>2
    <3> QED
      BY <1>1, <1>5, <2>2, <3>1, <3>3, SafeWithFile
  <2> QED
    BY <2>4, <2>5
<1>11. CASE DropInvalid
  <2> DEFINE i == First(Matching(Wanted, job.index))
  <2>1. i \in Unsent(batch)
    BY <1>11, SelectedIsHead DEF DropInvalid
  <2>2. Leaves(Deleted(i)) /\ GivenUp({i}) /\ totals.saf # 0 /\ pc = "select" /\ pc' = pc
    BY <1>11 DEF DropInvalid
  <2> HIDE DEF i
  <2>3. Drops({i}, batch') /\ saved' = saved /\ totals'.saf = totals.saf
    BY <2>2, StoresDrop DEF Leaves
  <2>4. Accounts({i}) /\ Cardinality(Unsent(batch')) = U - 1
    BY <1>8, <2>1, <2>2, <2>3
  <2>5. Cardinality(Unsent(batch')) <= totals'.saf
    BY <1>1, <1>3, <2>2, <2>3, <2>4
  <2> QED
    BY <1>1, <2>2, <2>3, <2>4, <2>5, SafeWithFile
<1>12. CASE SelectRecord
  <2> DEFINE i == First(Matching(Wanted, job.index))
             j == First(Matching("needs_sending", i))
             again == "repeat_saf" \in batch[j].status
  <2>1. /\ batch' = WithStatus(j, {"repeat_saf"}, {}) /\ pc = "select" /\ pc' = "send"
        /\ totals' = [totals EXCEPT !.repeat = @ \/ again] /\ UNCHANGED <<saved, ghosts>>
    BY <1>12 DEF SelectRecord
  <2> HIDE DEF i, j, again
  <2>2. Reflagged(batch', j, {"repeat_saf"}, {})
    BY <2>1, WithStatusKeepsRecords DEF TypeOK, Flags
  <2>3. \A k \in DOMAIN batch : \A flag \in {"needs_sending", "deleted_offline"} :
          flag \in batch'[k].status <=> flag \in batch[k].status
    BY <2>2 DEF Reflagged
  <2>4. DOMAIN batch' = DOMAIN batch /\ \A k \in DOMAIN batch : batch'[k].advice = batch[k].advice
    BY <2>2 DEF Reflagged
  <2>5. Unsent(batch') = Unsent(batch)
    BY <2>3, <2>4 DEF Unsent, IsUnsent, Live
  <2>6. totals'.saf = totals.saf
    BY <2>1 DEF TypeOK, Totals
  <2>7. AllKept'
    BY <2>1, <2>4, <2>5 DEF Safe, AllKept, ghosts, Unsent
  <2>8. Counted'
    BY <2>1, <2>5, <2>6 DEF Safe, Counted, OnRestart
  <2> QED
    BY <2>5, <2>7, <2>8 DEF Safe
<1>13. ASSUME SendFailed, pc \in {"send", "wait"} PROVE Safe'
  <2>1. job.index \in Unsent(batch) /\ totals.saf >= 1
    BY <1>13 DEF HeadInv, UploadAtHead, UploadKeepsItsRecord
  <2>2. saved' = saved /\ pc' = "idle"
    BY <1>13 DEF SendFailed, Finished
  <2>3. CASE GiveUpStuck
    <3>1. GivenUp({job.index}) /\ Drops({job.index}, batch')
      BY <1>13, <2>3, StoresDrop DEF SendFailed
    <3>2. totals'.saf = totals.saf - 1
      <4>1. totals' = [totals EXCEPT
                         !.repeat = FALSE,
                         !.saf = IF @ # 0 THEN @ - 1 ELSE @,
                         !.print = IF totals.saf # 0 /\ ~noPrints THEN @ + 1 ELSE @]
        BY <1>13, <2>3 DEF SendFailed
      <4>2. totals'.saf = IF totals.saf # 0 THEN totals.saf - 1 ELSE totals.saf
        BY <4>1 DEF TypeOK, Totals
      <4> QED
        BY <1>1, <2>1, <4>2
    <3>3. Accounts({job.index}) /\ Cardinality(Unsent(batch')) = U - 1
      BY <1>8, <2>1, <3>1
    <3>4. Cardinality(Unsent(batch')) <= totals'.saf
      BY <1>1, <1>3, <1>13, <3>2, <3>3
    <3> QED
      BY <1>1, <1>13, <2>2, <3>3, <3>4, SafeWithFile
  <2>4. CASE ~GiveUpStuck
    <3>1. batch' = batch /\ totals' = [totals EXCEPT !.repeat = TRUE]
      BY <1>13, <2>4 DEF SendFailed
    <3>2. totals'.saf = totals.saf
      BY <3>1 DEF TypeOK, Totals
    <3>3. Cardinality(Unsent(batch')) <= totals'.saf
      BY <1>3, <1>13, <3>1, <3>2
    <3> QED
      BY <1>1, <1>5, <1>13, <2>2, <3>1, <3>3, SafeWithFile
  <2> QED
    BY <2>3, <2>4
<1>14. ASSUME NEW journalled \in BOOLEAN, CreateFails(journalled) PROVE Safe'
  <2>1. pc = "send"
    BY <1>14 DEF CreateFails
  <2>2. CASE SendFailed
    BY <1>13, <2>1, <2>2
  <2>3. CASE ~SendFailed
    <3>1. job.index \in Unsent(batch) /\ totals.saf >= 1
      BY <2>1 DEF HeadInv, UploadAtHead, UploadKeepsItsRecord
    <3>2. Leaves(Deleted(job.index)) /\ GivenUp({job.index}) /\ pc' = "idle"
      BY <1>14, <2>3 DEF CreateFails, Finished
    <3>3. totals.saf # 0
      BY <1>1, <3>1
    <3>4. Drops({job.index}, batch') /\ saved' = saved /\ totals'.saf = totals.saf
      BY <3>2, <3>3, StoresDrop DEF Leaves
    <3>5. Accounts({job.index}) /\ Cardinality(Unsent(batch')) = U - 1
      BY <1>8, <3>1, <3>2, <3>4
    <3>6. Cardinality(Unsent(batch')) <= totals'.saf
      BY <1>1, <1>3, <2>1, <3>4, <3>5
    <3> QED
      BY <1>1, <2>1, <3>2, <3>4, <3>5, <3>6, SafeWithFile
  <2> QED
    BY <2>2, <2>3
<1>15. ASSUME NEW arrives \in BOOLEAN, Transmit(arrives) PROVE Safe'
  <2>1. /\ batch' = batch /\ saved' = saved /\ pc = "send" /\ pc' = "wait"
        /\ totals'.saf = U
    BY <1>15 DEF Transmit, disk, Recounted, TypeOK, Totals
  <2>2. Cardinality(Unsent(batch')) <= totals'.saf
    BY <1>1, <2>1
  <2> QED
    BY <1>1, <1>5, <2>1, <2>2, SafeWithFile
<1>16. ASSUME NEW approved \in BOOLEAN, Answer(approved) PROVE Safe'
  <2>1. /\ Drops({job.index}, batch') /\ saved' = saved /\ totals'.saf = totals.saf
        /\ pc = "wait" /\ pc' = "settled" /\ job.heard /\ received' = received
    BY <1>16, AnswerDrops DEF Answer, ghosts
  <2>2. job.index \in Unsent(batch)
    BY <2>1 DEF HeadInv, UploadAtHead
  <2>3. Here \in received
    BY <2>1 DEF HeardIsReceived
  <2>4. batch' # <<>>
    BY <2>1, <2>2 DEF Drops, Unsent
  <2>5. Accounts({job.index})
    BY <1>4, <2>1, <2>3, <2>4 DEF Accounts, Here
  <2>6. Unsent(batch') = Unsent(batch) \ {job.index}
    BY <2>1, DropsShape DEF HeadInv
  <2>7. Cardinality(Unsent(batch')) = U - 1
    BY <2>2, <2>6, FewerWait DEF TypeOK
  <2>8. Cardinality(Unsent(batch')) + 1 <= totals'.saf
    BY <1>1, <1>3, <2>1, <2>7
  <2> QED
    BY <1>1, <2>1, <2>5, <2>8, SafeWithFile
<1>17. CASE CountSettled
  <2> DEFINE counted == totals.saf # 0
             t == [totals EXCEPT
                     !.saf = IF counted THEN @ - 1 ELSE @,
                     !.print = IF counted /\ ~noPrints THEN @ + 1 ELSE @]
             done == IF noPrints /\ counted /\ t.saf = 0 THEN Destroyed(saved, t)
                                                         ELSE Store(batch, saved, t)
  <2>1. pc = "settled" /\ pc' = "saving" /\ Leaves([done EXCEPT !.saved = Missing])
    BY <1>17 DEF CountSettled
  <2>2. U + 1 <= totals.saf
    BY <1>1, <2>1 DEF Safe, Counted
  <2>3. t.saf = IF totals.saf # 0 THEN totals.saf - 1 ELSE totals.saf
    BY DEF TypeOK, Totals
  <2>4. t.saf = totals.saf - 1 /\ U <= t.saf /\ t.saf \in Nat
    BY <1>1, <2>2, <2>3
  <2>5. \/ done = Destroyed(saved, t) /\ t.saf = 0
       \/ done = Store(batch, saved, t)
    OBVIOUS
  <2> HIDE DEF t, done, counted
  <2>6. CASE done = Destroyed(saved, t) /\ t.saf = 0
    <3>1. batch' = done.batch
      BY <2>1, <2>6 DEF Leaves, Destroyed, Store
    <3>2. batch' = <<>> /\ U = 0
      BY <1>1, <2>4, <2>6, <3>1, StoresDrop
    <3> QED
      BY <1>6, <2>1, <3>2, SafeWhenEmpty
  <2>7. CASE done = Store(batch, saved, t)
    <3>1. batch' = batch /\ totals' = t
      BY <2>1, <2>7 DEF Leaves, Store
    <3>2. AllKept' /\ Cardinality(Unsent(batch')) <= MaxSafs
      BY <1>5, <3>1, AccountsKeep DEF Safe
    <3>3. Counted'
      BY <1>1, <2>1, <2>4, <3>1 DEF Counted
    <3> QED
      BY <3>2, <3>3 DEF Safe
  <2> QED
    BY <2>5, <2>6, <2>7
<1>18. CASE SaveSettled
  <2>1. pc = "saving" /\ pc' \in {"select", "idle"}
    BY <1>18 DEF SaveSettled, Finished
  <2>2. CASE Leaves(Destroyed(totals, totals)) /\ GivenUp(Unsent(batch))
    <3>1. batch' = <<>>
      BY <2>2, StoresDrop DEF Leaves
    <3> QED
      BY <1>7, <2>1, <2>2, <3>1, SafeWhenEmpty
  <2>3. CASE Leaves(Store(batch, totals, totals))
    <3>1. batch' = batch /\ saved' = totals /\ totals' = totals
      BY <2>3 DEF Leaves, Store
    <3>2. OnRestart' = totals
      BY <3>1 DEF OnRestart, Missing, TypeOK, Totals
    <3>3. AllKept' /\ Cardinality(Unsent(batch')) <= MaxSafs
      BY <1>5, <3>1, AccountsKeep DEF Safe
    <3>4. Counted'
      BY <1>1, <1>3, <2>1, <3>1, <3>2 DEF Counted
    <3> QED
      BY <3>3, <3>4 DEF Safe
  <2> QED
    BY <1>18, <2>2, <2>3 DEF SaveSettled
<1> QED
  BY <1>9, <1>10, <1>11, <1>12, <1>13, <1>14, <1>15, <1>16, <1>17, <1>18
     DEF Uploading, ConnectFails, NoAnswer

-----------------------------------------------------------------------------
(* The theorems. *)

(* The initial states satisfy the invariant. *)
LEMMA CountInit == Init => CountInv
<1> SUFFICES ASSUME Init PROVE CountInv
  OBVIOUS
<1>1. AccountInv
  BY InvInit DEF AccountInv, Init, SettledIsAccountedFor, HeardIsReceived
<1>2. Unsent(batch) = {}
  BY DEF Init, Unsent
<1>3. HeadInv
  BY <1>2 DEF HeadInv, Shaped, UploadAtHead, OneRepeatAtHead, UploadKeepsItsRecord, Init
<1>4. Cardinality(Unsent(batch)) = 0
  BY <1>2, FS_EmptySet
<1>5. OnRestart = ZeroTotals
  BY DEF OnRestart, Init
<1>6. Safe
  BY <1>4, <1>5, SafAssumption DEF Safe, Counted, AllKept, Init, ZeroTotals
<1> QED
  BY <1>1, <1>3, <1>6 DEF CountInv

(* One step of the terminal preserves the invariant. *)
LEMMA CountStep == CountInv /\ [Next]_vars => CountInv'
<1> SUFFICES ASSUME CountInv, [Next]_vars PROVE CountInv'
  OBVIOUS
<1>1. AccountInv'
  BY AccountStep DEF CountInv
<1>2. TypeOK /\ TypeOK'
  BY <1>1 DEF CountInv, AccountInv, IInv
<1>3. HeadInv'
  BY <1>2, HeadStep DEF CountInv
<1>4. totalsLost => totalsLost'
  BY DEF Next, Storing, StoreAdvice, CountAdvice, SaveAdvice, StoreReversalPrint,
     Uploading, StartUpload, StartRepeat, StartClear, Start, NothingToSend, DropInvalid,
     SelectRecord, ConnectFails, CreateFails, Transmit, NoAnswer, SendFailed, Answer,
     CountSettled, SaveSettled, Commanding, Recount, PrintsOn, PrintsOff, PurgePrint,
     PurgeDone, PrintOne, PowerFail, Upgrade, ghosts, vars
<1>5. ASSUME ~totalsLost' PROVE Safe'
  <2>1. Safe
    BY <1>4, <1>5 DEF CountInv
  <2>2. CASE UNCHANGED vars
    BY <2>1, <2>2 DEF vars, Safe, Counted, AllKept, OnRestart
  <2> QED
    BY <1>2, <1>5, <2>1, <2>2, StoringSafe, UploadingSafe, CommandSafe DEF Next
<1> QED
  BY <1>1, <1>3, <1>5 DEF CountInv

(* The counters, the records and the order of the queue, in every state. *)
THEOREM CountHolds == Spec => []CountInv
BY CountInit, CountStep, PTL DEF Spec

(* Only the oldest unsent advice may be a repeat, so "221s will ALWAYS be     *)
(* sent before 220s" (saf.c:1466), whatever fails during an upload.           *)
THEOREM RepeatAtHead == Spec => []OneRepeatAtHead
<1>1. CountInv => OneRepeatAtHead
  BY DEF CountInv, HeadInv
<1> QED
  BY <1>1, CountHolds, PTL

(* While a record is being uploaded no counter deletes it or wraps under it,  *)
(* although saf_count is refreshed from the file in the middle of an upload.  *)
THEOREM UploadKeepsRecord == Spec => []UploadKeepsItsRecord
<1>1. CountInv => UploadKeepsItsRecord
  BY DEF CountInv, HeadInv
<1> QED
  BY <1>1, CountHolds, PTL

(* As long as no power failure has lost part of the totals, every accepted    *)
(* advice is still to be sent, known to the host, or given up explicitly: the *)
(* places that delete the batch file on a zero counter never delete an advice.*)
THEOREM NotLost == Spec => []AdviceNotLost
<1>1. CountInv => AdviceNotLost
  BY DEF CountInv, Safe, AllKept, AdviceNotLost
<1> QED
  BY <1>1, CountHolds, PTL

(* saf_count, in RAM and in the totals file, covers the unsent records.       *)
THEOREM CountCovers == Spec => []CountCoversUnsent
<1>1. CountInv => CountCoversUnsent
  <2> SUFFICES ASSUME CountInv, ~totalsLost, pc # "stored"
               PROVE  /\ totals.saf >= Cardinality(Unsent(batch))
                      /\ pc = "idle" => OnRestart.saf >= Cardinality(Unsent(batch))
    BY DEF CountCoversUnsent
  <2>1. /\ Cardinality(Unsent(batch)) \in Nat /\ totals.saf \in Nat
        /\ OnRestart.saf \in Nat
    BY CountsAreNumbers, RestartCount
       DEF CountInv, AccountInv, IInv, TypeOK, Totals, OnRestart
  <2> QED
    BY <2>1 DEF CountInv, Safe, Counted
<1> QED
  BY <1>1, CountHolds, PTL

(* The batch never holds more unsent advices than TERM_MAX_SAFS.              *)
THEOREM WithinLimit == Spec => []BatchWithinLimit
<1>1. CountInv => BatchWithinLimit
  BY DEF CountInv, Safe, BatchWithinLimit
<1> QED
  BY <1>1, CountHolds, PTL

-----------------------------------------------------------------------------
(* The refinement. *)


NoPrintDeletion == "saf_print" \notin Commands /\ "sfp_off" \notin Commands

\* an upload has the counter fresh from the file when an answer may empty it
RefInv ==
    /\ CountInv
    /\ pc # "purge"
    /\ pc = "wait" => totals.saf = Cardinality(Unsent(batch))
    /\ pc = "settled" => totals.saf = Cardinality(Unsent(batch)) + 1

(* The initial states satisfy the invariant. *)
LEMMA RefInit == Init => RefInv
BY CountInit DEF RefInv, Init

(* One step of the terminal preserves the invariant. *)
LEMMA RefStep ==
  ASSUME NoPrintDeletion
  PROVE  RefInv /\ [Next]_vars => RefInv'
<1> SUFFICES ASSUME RefInv, [Next]_vars PROVE RefInv'
  OBVIOUS
<1> USE DEF RefInv
<1>1. CountInv'
  BY CountStep
<1>2. CASE UNCHANGED vars
  BY <1>1, <1>2 DEF vars
<1>3. ASSUME NEW arrives \in BOOLEAN, Transmit(arrives) PROVE RefInv'
  <2>1. batch' = batch /\ pc' = "wait" /\ totals'.saf = Cardinality(Unsent(batch))
    BY <1>3 DEF Transmit, disk, Recounted, CountInv, AccountInv, IInv, TypeOK, Totals
  <2> QED
    BY <1>1, <2>1
<1>4. ASSUME NEW approved \in BOOLEAN, Answer(approved) PROVE RefInv'
  <2>1. /\ TypeOK /\ HeadInv /\ pc = "wait" /\ pc' = "settled"
        /\ Drops({job.index}, batch') /\ totals'.saf = totals.saf
    BY <1>4, AnswerDrops DEF Answer, CountInv, AccountInv, IInv
  <2>2. job.index \in Unsent(batch) /\ Unsent(batch') = Unsent(batch) \ {job.index}
    BY <2>1, DropsShape DEF HeadInv, UploadAtHead
  <2>3. /\ Cardinality(Unsent(batch)) \in Nat
        /\ Cardinality(Unsent(batch')) = Cardinality(Unsent(batch)) - 1
    BY <2>1, <2>2, FewerWait DEF TypeOK
  <2> QED
    BY <1>1, <2>1, <2>3
<1>5. ASSUME ~ \E arrives \in BOOLEAN : Transmit(arrives),
             ~ \E approved \in BOOLEAN : Answer(approved), Next
      PROVE  pc' \notin {"wait", "settled", "purge"}
  <2>1. CASE Storing
    BY <2>1 DEF Storing, StoreAdvice, CountAdvice, SaveAdvice, StoreReversalPrint
  <2>2. CASE Commanding \/ PowerFail \/ Upgrade
    BY <2>2 DEF Commanding, Recount, PrintsOn, PrintsOff, PurgePrint,
       PurgeDone, PrintOne, PowerFail, Upgrade, Finished, NoPrintDeletion
  <2>3. CASE Uploading
    BY <1>5, <2>3 DEF Uploading, StartUpload, StartRepeat, StartClear, Start,
       NothingToSend, DropInvalid, SelectRecord, ConnectFails, CreateFails, NoAnswer,
       SendFailed, CountSettled, SaveSettled, Finished
  <2> QED
    BY <1>5, <2>1, <2>2, <2>3 DEF Next
<1> QED
  BY <1>1, <1>2, <1>3, <1>4, <1>5

-----------------------------------------------------------------------------
(* The steps of SafQueue, seen as steps of AdviceDelivery. *)

(* A step after which the same advices are held and given up is a stutter. *)
LEMMA Stutter ==
  ASSUME UNCHANGED <<accepted, discarded, received>>,
         \A a \in Advices : Held(a)' <=> Held(a)
  PROVE  UNCHANGED Delivery!vars
<1>1. \A a \in Advices : Stage'[a] = Stage[a]
  BY DEF Stage
<1>2. Stage' = Stage
  BY <1>1 DEF Stage
<1> QED
  BY <1>2 DEF Delivery!vars

(* The same records wait, so the same advices are held. *)
LEMMA SameRecords ==
  ASSUME Unsent(batch') = Unsent(batch),
         \A k \in Unsent(batch) : batch'[k].advice = batch[k].advice
  PROVE  \A a \in Advices : Held(a)' <=> Held(a)
BY DEF Held

(* Where a set of held advices leaves the queue, given up or heard of, the   *)
(* stages of the others stay.                                                *)
LEMMA Leaving ==
  ASSUME NEW A \in SUBSET Advices, A \subseteq accepted, accepted' = accepted,
         discarded \subseteq discarded', discarded' \subseteq discarded \cup A,
         \A a \in A : Held(a) /\ ~Held(a)',
         \A a \in Advices \ A : Held(a)' <=> Held(a)
  PROVE  /\ A \subseteq discarded' => Delivery!Move(A, "dropped")
         /\ A \cap discarded' = {} => Delivery!Move(A, "closed")
         /\ A \subseteq Delivery!InStage("held")
<1>1. \A a \in Advices \ A : Stage'[a] = Stage[a]
  BY DEF Stage
<1>2. \A a \in A : Stage[a] = "held" /\ Stage'[a] = IF a \in discarded' THEN "dropped"
                                                                      ELSE "closed"
  BY DEF Stage
<1>3. Stage' = [a \in Advices |-> Stage'[a]]
  BY DEF Stage
<1> HIDE DEF Stage
<1>4. A \subseteq discarded' => Delivery!Move(A, "dropped")
  BY <1>1, <1>2, <1>3 DEF Delivery!Move
<1>5. A \cap discarded' = {} => Delivery!Move(A, "closed")
  BY <1>1, <1>2, <1>3 DEF Delivery!Move
<1>6. A \subseteq Delivery!InStage("held")
  BY <1>2 DEF Delivery!InStage
<1> QED
  BY <1>4, <1>5, <1>6

(* The record of a waiting advice is its only one. *)
LEMMA WaitingRecord ==
  ASSUME IInv, NEW i \in Unsent(batch)
  PROVE  /\ batch[i].advice \in Advices /\ batch[i].advice \in accepted
         /\ i \in DOMAIN batch /\ Held(batch[i].advice)
         /\ \A k \in Unsent(batch) : batch[k].advice = batch[i].advice => k = i
<1>1. i \in DOMAIN batch /\ batch[i].advice # Reversal
  BY UnsentIsAdvice
<1>2. batch[i].advice \in accepted
  BY <1>1 DEF IInv, OneRecordEach
<1>3. batch[i].advice \in Advices
  BY <1>2 DEF IInv, TypeOK
<1>4. \A k \in Unsent(batch) : batch[k].advice = batch[i].advice => k = i
  BY <1>1, UnsentIsAdvice DEF IInv, OneRecordEach
<1> QED
  BY <1>1, <1>2, <1>3, <1>4 DEF Held

(* One record leaves the list: its advice is given up, or the host has it.   *)
LEMMA OneLeaves ==
  ASSUME IInv, HeadInv, NEW i \in Unsent(batch), Drops({i}, batch'),
         UNCHANGED <<accepted, received>>,
         GivenUp({i}) \/ (discarded' = discarded /\ batch[i].advice \in received)
  PROVE  Delivery!Next
<1>0. PICK a \in Advices : a = batch[i].advice
  BY WaitingRecord
<1> DEFINE A == {a}
<1>1. /\ a \in accepted /\ a # Reversal /\ i \in DOMAIN batch
      /\ Held(a) /\ \A k \in Unsent(batch) : batch[k].advice = a => k = i
  BY <1>0, WaitingRecord, UnsentIsAdvice
<1>2. /\ Unsent(batch') = Unsent(batch) \ {i}
      /\ \A k \in Unsent(batch) : batch'[k].advice = batch[k].advice
  BY DropsShape DEF HeadInv, Drops, Unsent
<1>3. ~Held(a)'
  BY <1>1, <1>2 DEF Held
<1>4. \A c \in Advices \ A : Held(c)' <=> Held(c)
  BY <1>0, <1>2 DEF Held
<1>5. /\ A \in SUBSET Advices /\ A \subseteq accepted /\ a \in A
      /\ \A c \in A : Held(c) /\ ~Held(c)'
      /\ \A c \in A : c = a
  BY <1>1, <1>3
<1>6. \/ discarded' = discarded \cup A
      \/ discarded' = discarded /\ a \in received
  BY <1>0, <1>1 DEF GivenUp
<1> HIDE DEF A
<1>7. /\ A \subseteq discarded' => Delivery!Move(A, "dropped")
      /\ A \cap discarded' = {} => Delivery!Move(A, "closed")
      /\ A \subseteq Delivery!InStage("held")
  <2>1. discarded \subseteq discarded' /\ discarded' \subseteq discarded \cup A
    BY <1>6
  <2> QED
    BY <1>4, <1>5, <2>1, Leaving
<1>8. CASE a \in discarded'
  <2>1. A \subseteq discarded'
    BY <1>5, <1>8
  <2> QED
    BY <1>5, <1>7, <2>1 DEF Delivery!Next, Delivery!Drop
<1>9. CASE a \notin discarded'
  <2>1. A \cap discarded' = {} /\ A = {a} /\ a \in received
    BY <1>5, <1>6, <1>9
  <2>2. Delivery!Close(a)
    BY <1>7, <2>1 DEF Delivery!Close
  <2> QED
    BY <1>5, <2>2 DEF Delivery!Next
<1> QED
  BY <1>8, <1>9

(* The deletion menu gives up all that waits.                                *)
LEMMA AllGivenUp ==
  ASSUME IInv, batch' = <<>>, GivenUp(Unsent(batch)), UNCHANGED <<accepted, received>>
  PROVE  Delivery!Next
<1> DEFINE A == {batch[k].advice : k \in Unsent(batch)}
<1>1. A \in SUBSET Advices /\ A \subseteq accepted /\ \A a \in A : Held(a)
  BY WaitingRecord
<1>2. Reversal \notin A
  BY UnsentIsAdvice
<1>3. discarded' = discarded \cup A
  BY <1>2 DEF GivenUp
<1>4. \A a \in Advices : ~Held(a)'
  BY DEF Held, Unsent
<1>5. \A a \in Advices \ A : ~Held(a)
  BY DEF Held
<1> HIDE DEF A
<1>6. Delivery!Move(A, "dropped") /\ A \subseteq Delivery!InStage("held")
  BY <1>1, <1>3, <1>4, <1>5, Leaving
<1> QED
  BY <1>1, <1>6 DEF Delivery!Next, Delivery!Drop

(* Storing an advice begins to hold it.                                      *)
LEMMA StoreHolds ==
  ASSUME IInv, NEW a \in Advices, StoreAdvice(a)
  PROVE  Delivery!Next
<1> USE DEF IInv
<1> DEFINE n == Len(batch) + 1
           r == [advice |-> a, status |-> {"needs_sending"}]
<1>1. /\ DOMAIN batch' = DOMAIN batch \cup {n} /\ n \notin DOMAIN batch
      /\ \A k \in DOMAIN batch : batch'[k] = batch[k]
      /\ batch'[n] = r
  BY DEF StoreAdvice, TypeOK
<1>2. IsUnsent(r) /\ r.advice = a
  BY DEF IsUnsent, Live
<1> HIDE DEF n, r
<1>3. Unsent(batch') = Unsent(batch) \cup {n} /\ Unsent(batch) \subseteq DOMAIN batch
  BY <1>1, <1>2 DEF Unsent
<1>4. /\ a \notin accepted /\ accepted' = accepted \cup {a}
      /\ received' = received /\ discarded' = discarded
  BY DEF StoreAdvice
<1>5. Held(a)'
  BY <1>1, <1>2, <1>3 DEF Held
<1>6. \A c \in Advices \ {a} : Held(c)' <=> Held(c)
  BY <1>1, <1>2, <1>3 DEF Held
<1>7. /\ Stage[a] = "new" /\ Stage'[a] = "held"
      /\ \A c \in Advices \ {a} : Stage'[c] = Stage[c]
      /\ Stage' = [c \in Advices |-> Stage'[c]]
  BY <1>4, <1>5, <1>6 DEF Stage
<1> HIDE DEF Stage
<1>8. Delivery!Move({a}, "held")
  BY <1>7 DEF Delivery!Move
<1>9. Delivery!Hold(a)
  BY <1>4, <1>7, <1>8 DEF Delivery!Hold, Delivery!InStage
<1> QED
  BY <1>9 DEF Delivery!Next

(* A transmission may reach the host, and moves no advice.                   *)
LEMMA TransmitReaches ==
  ASSUME IInv, HeadInv, NEW arrives \in BOOLEAN, Transmit(arrives)
  PROVE  Delivery!Next \/ UNCHANGED Delivery!vars
<1>1. /\ batch' = batch /\ accepted' = accepted /\ discarded' = discarded /\ pc = "send"
      /\ received' = IF arrives THEN received \cup {Here} ELSE received
  BY DEF Transmit, disk
<1>2. \A a \in Advices : Held(a)' <=> Held(a)
  BY <1>1 DEF Held
<1>3. Stage' = Stage
  BY <1>1, <1>2 DEF Stage
<1>4. job.index \in Unsent(batch)
  BY <1>1 DEF HeadInv, UploadAtHead
<1>5. Here \in Advices /\ Here \in accepted /\ Held(Here)
  BY <1>4, WaitingRecord DEF Here
<1>6. Stage[Here] = "held"
  BY <1>5 DEF Stage
<1>7. CASE arrives
  <2>1. Delivery!Reach(Here)
    BY <1>1, <1>3, <1>5, <1>6, <1>7 DEF Delivery!Reach, Delivery!InStage
  <2> QED
    BY <1>5, <2>1 DEF Delivery!Next
<1>8. CASE ~arrives
  BY <1>1, <1>3, <1>8 DEF Delivery!vars
<1> QED
  BY <1>7, <1>8

(* Each step of an upload is a step of the promise, or invisible to it.      *)
LEMMA UploadingDelivers ==
  ASSUME RefInv, RefInv', Uploading
  PROVE  Delivery!Next \/ UNCHANGED Delivery!vars
<1> USE DEF RefInv, CountInv, AccountInv, IInv
<1>1. ASSUME batch' = batch, UNCHANGED <<accepted, discarded, received>>
      PROVE  UNCHANGED Delivery!vars
  <2>1. \A a \in Advices : Held(a)' <=> Held(a)
    BY <1>1 DEF Held
  <2> QED
    BY <1>1, <2>1, Stutter
<1>2. ASSUME NEW n \in UploadCounts, StartUpload(n) \/ StartRepeat(n) \/ StartClear(n)
      PROVE  UNCHANGED Delivery!vars
  BY <1>1, <1>2 DEF StartUpload, StartRepeat, StartClear, Start, disk, ghosts
<1>3. CASE NothingToSend
  <2>1. UNCHANGED <<accepted, received>>
    BY <1>3 DEF NothingToSend
  <2>2. \/ batch' = <<>> /\ GivenUp(Unsent(batch))
        \/ batch' = batch /\ discarded' = discarded
    BY <1>3, StoresDrop DEF NothingToSend, Leaves, Store
  <2> QED
    BY <1>1, <2>1, <2>2, AllGivenUp
<1>4. CASE DropInvalid
  <2> DEFINE i == First(Matching(Wanted, job.index))
  <2>1. i \in Unsent(batch)
    BY <1>4, SelectedIsHead DEF DropInvalid
  <2>2. /\ Leaves(Deleted(i)) /\ GivenUp({i}) /\ totals.saf # 0
        /\ UNCHANGED <<accepted, received>>
    BY <1>4 DEF DropInvalid
  <2> HIDE DEF i
  <2>3. Drops({i}, batch')
    BY <2>2, StoresDrop DEF Leaves
  <2> QED
    BY <2>1, <2>2, <2>3, OneLeaves
<1>5. CASE SelectRecord
  <2>1. PICK j : batch' = WithStatus(j, {"repeat_saf"}, {})
    BY <1>5 DEF SelectRecord
  <2>2. Reflagged(batch', j, {"repeat_saf"}, {})
    BY <2>1, WithStatusKeepsRecords DEF TypeOK, Flags
  <2>3. \A k \in DOMAIN batch : \A flag \in {"needs_sending", "deleted_offline"} :
          flag \in batch'[k].status <=> flag \in batch[k].status
    BY <2>2 DEF Reflagged
  <2>4. DOMAIN batch' = DOMAIN batch /\ \A k \in DOMAIN batch : batch'[k].advice = batch[k].advice
    BY <2>2 DEF Reflagged
  <2>5. Unsent(batch') = Unsent(batch) /\ Unsent(batch) \subseteq DOMAIN batch
    BY <2>3, <2>4 DEF Unsent, IsUnsent, Live
  <2>6. \A a \in Advices : Held(a)' <=> Held(a)
    BY <2>4, <2>5, SameRecords
  <2>7. UNCHANGED <<accepted, discarded, received>>
    BY <1>5 DEF SelectRecord, ghosts
  <2> QED
    BY <2>6, <2>7, Stutter
<1>6. ASSUME SendFailed, pc \in {"send", "wait"}
      PROVE  Delivery!Next \/ UNCHANGED Delivery!vars
  <2>1. UNCHANGED <<accepted, received>>
    BY <1>6 DEF SendFailed
  <2>2. CASE GiveUpStuck
    <3>1. job.index \in Unsent(batch)
      BY <1>6 DEF HeadInv, UploadAtHead
    <3>2. GivenUp({job.index}) /\ Drops({job.index}, batch')
      BY <1>6, <2>2, StoresDrop DEF SendFailed
    <3> QED
      BY <2>1, <3>1, <3>2, OneLeaves
  <2>3. CASE ~GiveUpStuck
    BY <1>1, <1>6, <2>1, <2>3 DEF SendFailed
  <2> QED
    BY <2>2, <2>3
<1>7. ASSUME NEW journalled \in BOOLEAN, CreateFails(journalled)
      PROVE  Delivery!Next \/ UNCHANGED Delivery!vars
  <2>1. pc = "send"
    BY <1>7 DEF CreateFails
  <2>2. CASE SendFailed
    BY <1>6, <2>1, <2>2
  <2>3. CASE ~SendFailed
    <3>1. job.index \in Unsent(batch) /\ totals.saf >= 1
      BY <2>1 DEF HeadInv, UploadAtHead, UploadKeepsItsRecord
    <3>2. /\ Leaves(Deleted(job.index)) /\ GivenUp({job.index})
          /\ UNCHANGED <<accepted, received>>
      BY <1>7, <2>3 DEF CreateFails
    <3>3. totals.saf # 0
      BY <3>1
    <3>4. Drops({job.index}, batch')
      BY <3>2, <3>3, StoresDrop DEF Leaves
    <3> QED
      BY <3>1, <3>2, <3>4, OneLeaves
  <2> QED
    BY <2>2, <2>3
<1>8. ASSUME NEW arrives \in BOOLEAN, Transmit(arrives)
      PROVE  Delivery!Next \/ UNCHANGED Delivery!vars
  BY <1>8, TransmitReaches
<1>9. ASSUME NEW approved \in BOOLEAN, Answer(approved)
      PROVE  Delivery!Next \/ UNCHANGED Delivery!vars
  <2>1. /\ Drops({job.index}, batch') /\ pc = "wait" /\ job.heard
        /\ UNCHANGED <<accepted, received, discarded>>
    BY <1>9, AnswerDrops DEF Answer, ghosts
  <2>2. job.index \in Unsent(batch)
    BY <2>1 DEF HeadInv, UploadAtHead
  <2>3. batch[job.index].advice \in received
    BY <2>1 DEF HeardIsReceived, Here
  <2> QED
    BY <2>1, <2>2, <2>3, OneLeaves
<1>10. CASE CountSettled
  <2>1. UNCHANGED <<accepted, received, discarded>> /\ pc = "settled"
    BY <1>10 DEF CountSettled, ghosts
  <2>2. CASE batch' = batch
    BY <1>1, <2>1, <2>2
  <2>3. CASE batch' # batch
    <3>1. totals.saf # 0 /\ [totals EXCEPT
                !.saf = IF totals.saf # 0 THEN @ - 1 ELSE @,
                !.print = IF totals.saf # 0 /\ ~noPrints THEN @ + 1 ELSE @].saf = 0
      BY <1>10, <2>3 DEF CountSettled, Leaves, Store
    <3>2. totals.saf - 1 = 0
      BY <3>1 DEF TypeOK, Totals
    <3>3. Cardinality(Unsent(batch)) \in Nat
      BY CountsAreNumbers DEF TypeOK
    <3>4. Cardinality(Unsent(batch)) = 0
      BY <2>1, <3>2, <3>3
    <3>5. Unsent(batch) = {}
      BY <3>4, FewerWait DEF TypeOK
    <3>6. batch' = <<>>
      BY <1>10, <2>3 DEF CountSettled, Leaves, Destroyed, Store
    <3>7. \A a \in Advices : Held(a)' <=> Held(a)
      BY <3>5, <3>6 DEF Held, Unsent
    <3> QED
      BY <2>1, <3>7, Stutter
  <2> QED
    BY <2>2, <2>3
<1>11. CASE SaveSettled
  <2>1. UNCHANGED <<accepted, received>>
    BY <1>11 DEF SaveSettled
  <2>2. \/ batch' = <<>> /\ GivenUp(Unsent(batch))
        \/ batch' = batch /\ discarded' = discarded
    BY <1>11, StoresDrop DEF SaveSettled, Leaves, Store
  <2> QED
    BY <1>1, <2>1, <2>2, AllGivenUp
<1>12. ConnectFails \/ NoAnswer => SendFailed /\ pc \in {"send", "wait"}
  BY DEF ConnectFails, NoAnswer
<1> QED
  BY <1>2, <1>3, <1>4, <1>5, <1>6, <1>7, <1>8, <1>9, <1>10, <1>11, <1>12 DEF Uploading

(* Storing holds an advice, or adds a record that stands for none.           *)
LEMMA StoringDelivers ==
  ASSUME RefInv, Storing
  PROVE  Delivery!Next \/ UNCHANGED Delivery!vars
<1> USE DEF RefInv, CountInv, AccountInv, IInv
<1>1. CASE StoreReversalPrint
  <2> DEFINE n == Len(batch) + 1
             r == [advice |-> Reversal, status |-> {"message_sent"}]
  <2>1. /\ DOMAIN batch' = DOMAIN batch \cup {n}
        /\ \A k \in DOMAIN batch : batch'[k] = batch[k]
        /\ batch'[n] = r
    BY <1>1 DEF StoreReversalPrint, TypeOK
  <2>2. ~IsUnsent(r)
    BY DEF IsUnsent
  <2> HIDE DEF n, r
  <2>3. Unsent(batch') = Unsent(batch) /\ Unsent(batch) \subseteq DOMAIN batch
    BY <2>1, <2>2 DEF Unsent
  <2>4. \A a \in Advices : Held(a)' <=> Held(a)
    BY <2>1, <2>3, SameRecords
  <2>5. UNCHANGED <<accepted, discarded, received>>
    BY <1>1 DEF StoreReversalPrint, ghosts
  <2> QED
    BY <2>4, <2>5, Stutter
<1>2. CASE CountAdvice \/ SaveAdvice
  <2>1. batch' = batch /\ UNCHANGED <<accepted, discarded, received>>
    BY <1>2 DEF CountAdvice, SaveAdvice, ghosts
  <2>2. \A a \in Advices : Held(a)' <=> Held(a)
    BY <2>1 DEF Held
  <2> QED
    BY <2>1, <2>2, Stutter
<1> QED
  BY <1>1, <1>2, StoreHolds DEF Storing

(* Commands, power failures and upgrades are invisible: only a fresh count   *)
(* of zero lets an upgrade delete the batch.                                 *)
LEMMA CommandDelivers ==
  ASSUME NoPrintDeletion, RefInv, Commanding \/ PowerFail \/ Upgrade
  PROVE  UNCHANGED Delivery!vars
<1> USE DEF RefInv, CountInv, AccountInv, IInv
<1>1. UNCHANGED <<accepted, discarded, received>>
  BY DEF Commanding, Recount, PrintsOn, PrintsOff, PurgePrint, PurgeDone, PrintOne,
     PowerFail, Upgrade, ghosts
<1>2. batch' = batch \/ (batch' = <<>> /\ Cardinality(Unsent(batch)) = 0)
  <2>1. CASE Commanding \/ PowerFail
    BY <2>1 DEF NoPrintDeletion, Commanding, Recount, PrintsOn, PrintsOff, PurgePrint,
       PurgeDone, PrintOne, PowerFail, disk
  <2>2. CASE Upgrade
    <3>1. Recounted(OnRestart, batch).saf = Cardinality(Unsent(batch))
      BY RestartTyped DEF Recounted, Totals
    <3> QED
      BY <2>2, <3>1 DEF Upgrade, Leaves, Destroyed, Store
  <2> QED
    BY <2>1, <2>2
<1>3. \A a \in Advices : Held(a)' <=> Held(a)
  <2>1. CASE batch' = batch
    BY <2>1 DEF Held
  <2>2. CASE batch' = <<>> /\ Cardinality(Unsent(batch)) = 0
    <3>1. Unsent(batch) = {}
      BY <2>2, FewerWait DEF TypeOK
    <3> QED
      BY <2>2, <3>1 DEF Held, Unsent
  <2> QED
    BY <1>2, <2>1, <2>2
<1> QED
  BY <1>1, <1>3, Stutter

-----------------------------------------------------------------------------
(* The queue keeps the promise of AdviceDelivery: an advice that was taken on *)
(* is held until the host has heard of it or it is given up explicitly, and   *)
(* never comes back, power failures, lost totals and refreshed counters or    *)
(* not, as long as no command deletes printed records.                        *)
THEOREM Implements ==
  ASSUME NoPrintDeletion
  PROVE  Spec => DeliverySpec
<1>1. Init => Delivery!Init
  <2> SUFFICES ASSUME Init PROVE Delivery!Init
    OBVIOUS
  <2>1. Stage = [a \in Advices |-> "new"]
    BY DEF Init, Stage
  <2> QED
    BY <2>1 DEF Init, Delivery!Init
<1>2. RefInv /\ RefInv' /\ [Next]_vars => [Delivery!Next]_(Delivery!vars)
  <2> SUFFICES ASSUME RefInv, RefInv', [Next]_vars
               PROVE  Delivery!Next \/ UNCHANGED Delivery!vars
    OBVIOUS
  <2>1. CASE UNCHANGED vars
    <3>1. UNCHANGED <<batch, accepted, discarded, received>>
      BY <2>1 DEF vars
    <3>2. \A a \in Advices : Held(a)' <=> Held(a)
      BY <3>1 DEF Held
    <3> QED
      BY <3>1, <3>2, Stutter
  <2> QED
    BY <2>1, StoringDelivers, UploadingDelivers, CommandDelivers DEF Next
<1>3. Init => RefInv
  BY RefInit
<1>4. RefInv /\ [Next]_vars => RefInv'
  BY RefStep
<1> QED
  BY <1>1, <1>2, <1>3, <1>4, PTL DEF Spec, DeliverySpec, Delivery!Spec
=============================================================================
