------------------------------ MODULE SafQueue ------------------------------
(***************************************************************************)
(* The store-and-forward (SAF) queue of offline-approved advices: saf.c    *)
(* with the callers that start an upload, print, purge or delete it.       *)
(*                                                                         *)
(* The batch file and the totals file survive a power failure; the RAM     *)
(* totals, the "no SAF prints" switch and the upload in progress do not.   *)
(* The terminal is one thread, so `pc' says where it is; between two file  *)
(* writes the power may fail.                                              *)
(***************************************************************************)
EXTENDS Integers, Sequences, FiniteSets

CONSTANTS
    Advices,      \* offline-approved transactions that may be stored
    Invalid,      \* those whose record SafIsValidTxn rejects
    Malformed,    \* those for which msgAS2805_create fails (VIM_ERROR_SYSTEM)
    Reversal,     \* stands for the printable record of an uploaded reversal
    MaxSafs,      \* TERM_MAX_SAFS
    SafLimit,     \* TERM_SAF_TOTAL_LIMIT, in advices; 0 switches it off
    UploadCounts, \* transmit counts callers pass (TRICKLE_FEED_COUNT, MAX_BATCH_SIZE)
    Commands,     \* what the POS and the operator ask for in this instance
    WordMax,      \* largest VIM_SIZE value
    MaxRecords,   \* bound: records ever appended to one batch file
    MaxFailures   \* bound: power failures

CommandNames == {"sfp_on", "sfp_off", "saf_print", "clear", "upgrade", "recount"}

ASSUME SafAssumption ==
    /\ Invalid \subseteq Advices
    /\ Malformed \subseteq Advices
    /\ Reversal \notin Advices
    /\ MaxSafs \in Nat \ {0}
    /\ SafLimit \in Nat
    /\ UploadCounts \subseteq Nat \ {0}
    /\ Commands \subseteq CommandNames
    /\ WordMax \in Nat \ {0}
    /\ MaxRecords \in Nat
    /\ MaxFailures \in Nat

VARIABLES
    batch,      \* the eftsaf file: its records; <<>> when there is no file
    saved,      \* the saftot file, or Missing
    totals,     \* saf_totals: the totals in RAM
    noPrints,   \* ss_no_saf_prints
    pc,         \* where the thread is
    job,        \* the parameters and locals of the running saf_send
    originals,  \* how many 0220 of each advice the terminal has transmitted
    received,   \* the advices the host has heard of
    accepted,   \* the advices whose record was written
    discarded,  \* the advices the code or the operator gave up explicitly
    totalsLost, \* a power failure left fewer counted than stored advices
    failures    \* power failures so far

vars == <<batch, saved, totals, noPrints, pc, job, originals, received,
          accepted, discarded, totalsLost, failures>>
disk == <<batch, saved>>
ghosts == <<originals, received, accepted, discarded, totalsLost>>

-----------------------------------------------------------------------------
(* Records and totals. *)

Flags == {"needs_sending", "message_sent", "repeat_saf", "deleted_offline"}
Records == [advice : Advices \cup {Reversal}, status : SUBSET Flags]

Totals == [saf : Nat, print : Nat, ns : Nat, repeat : BOOLEAN]
ZeroTotals == [saf |-> 0, print |-> 0, ns |-> 0, repeat |-> FALSE]
Missing == [saf |-> -1, print |-> 0, ns |-> 0, repeat |-> FALSE]

Jobs == [repeatOnly : BOOLEAN, stuck : BOOLEAN, destroy : BOOLEAN,
         left : Nat, index : Nat, msg : {"0220", "0221"}, heard : BOOLEAN]
NoJob == [repeatOnly |-> FALSE, stuck |-> FALSE, destroy |-> FALSE,
          left |-> 0, index |-> 1, msg |-> "0220", heard |-> FALSE]

PCs == {"idle", "stored", "counted", "select", "send", "wait", "settled",
        "saving", "purge"}

Live(r) == "deleted_offline" \notin r.status
IsUnsent(r) == Live(r) /\ "needs_sending" \in r.status
IsPrint(r) == Live(r) /\ "needs_sending" \notin r.status /\ "message_sent" \in r.status

Unsent(b) == {i \in DOMAIN b : IsUnsent(b[i])}
Prints(b) == {i \in DOMAIN b : IsPrint(b[i])}

\* Mutation: the two counters swapped
Recounted_Swapped(t, b) == [t EXCEPT !.saf = Cardinality(Prints(b)),
                                     !.print = Cardinality(Unsent(b))]

\* saf_pending_count: both counters taken from the file
Recounted(t, b) == [t EXCEPT !.saf = Cardinality(Unsent(b)),
                             !.print = Cardinality(Prints(b))]

\* saf_read_next_by_status without the SAF prints: records to transmit
Matching(flag, from) ==
    {i \in DOMAIN batch : /\ i >= from
                          /\ Live(batch[i])
                          /\ "message_sent" \notin batch[i].status
                          /\ flag \in batch[i].status}

\* Mutation: the newest record first
First_Newest(S) == CHOOSE i \in S : \A j \in S : j <= i

First(S) == CHOOSE i \in S : \A j \in S : i <= j

\* the flag saf_send_single looks for first
Wanted == IF job.repeatOnly THEN "repeat_saf" ELSE "needs_sending"

WithStatus(i, on, off) ==
    [batch EXCEPT ![i].status = (@ \ off) \cup on]

\* What a file operation leaves behind, and the conjunct that says so.
Store(b, s, t) == [batch |-> b, saved |-> s, totals |-> t]
Leaves(store) == /\ batch' = store.batch
                 /\ saved' = store.saved
                 /\ totals' = store.totals

\* saf_destroy_batch: nothing happens, to the totals either, without a file
Destroyed(s, t) == IF batch = <<>> THEN Store(batch, s, t)
                                   ELSE Store(<<>>, ZeroTotals, ZeroTotals)

\* Mutations: a print count that may pass zero; the file deleted as soon as
\* either counter is zero
Deleted_Unguarded(i) ==
    Store(WithStatus(i, {"deleted_offline"}, {"needs_sending"}), saved,
          [totals EXCEPT !.print = @ - 1])

Deleted_EitherZero(i) ==
    LET t == [totals EXCEPT !.print = IF @ # 0 THEN @ - 1 ELSE @]
    IN  IF t.print = 0 \/ t.saf = 0
        THEN Store(<<>>, ZeroTotals, ZeroTotals)
        ELSE Store(WithStatus(i, {"deleted_offline"}, {"needs_sending"}), saved, t)

\* saf_delete_record: the record leaves the queue and one print is taken off;
\* when nothing is counted any more the file goes too
Deleted(i) ==
    LET t == [totals EXCEPT !.print = IF @ # 0 THEN @ - 1 ELSE @]
    IN  IF t.print = 0 /\ t.saf = 0
        THEN Store(<<>>, ZeroTotals, ZeroTotals)
        ELSE Store(WithStatus(i, {"deleted_offline"}, {"needs_sending"}), saved, t)

\* a VIM_SIZE minus one
Decrement(n) == IF n = 0 THEN WordMax ELSE n - 1

\* Mutation: one advice too many
saf_full_OneMore(t) == t.saf > MaxSafs \/ (SafLimit > 0 /\ t.ns + 1 > SafLimit)

saf_full(t) == \/ t.saf >= MaxSafs
               \/ SafLimit > 0 /\ t.ns + 1 > SafLimit

Here == batch[job.index].advice

-----------------------------------------------------------------------------
Init ==
    /\ batch = <<>>
    /\ saved = ZeroTotals
    /\ totals = ZeroTotals
    /\ noPrints = TRUE
    /\ pc = "idle"
    /\ job = NoJob
    /\ originals = [a \in Advices |-> 0]
    /\ received = {}
    /\ accepted = {}
    /\ discarded = {}
    /\ totalsLost = FALSE
    /\ failures = 0

(* saf_add_record of an advice that needs sending: the record and the header *)
(* reach the file; the totals are updated, saved, and then one print added.  *)
StoreAdvice(a) ==
    /\ pc = "idle"
    /\ a \notin accepted
    /\ ~saf_full(totals)
    /\ Len(batch) < MaxRecords
    /\ batch' = Append(batch, [advice |-> a, status |-> {"needs_sending"}])
    /\ accepted' = accepted \cup {a}
    /\ pc' = "stored"
    /\ UNCHANGED <<saved, totals, noPrints, job, originals, received,
                   discarded, totalsLost, failures>>

CountAdvice ==
    /\ pc = "stored"
    /\ totals' = [totals EXCEPT !.saf = @ + 1, !.ns = @ + 1]
    /\ saved' = Missing
    /\ pc' = "counted"
    /\ UNCHANGED <<batch, noPrints, job, ghosts, failures>>

SaveAdvice ==
    /\ pc = "counted"
    /\ saved' = totals
    /\ totals' = [totals EXCEPT !.print = @ + 1]
    /\ pc' = "idle"
    /\ UNCHANGED <<batch, noPrints, job, ghosts, failures>>

(* reversal_clear(TRUE): an uploaded reversal is stored as a print only. *)
StoreReversalPrint ==
    /\ pc = "idle"
    /\ ~noPrints
    /\ ~saf_full(totals)
    /\ Len(batch) < MaxRecords
    /\ batch' = Append(batch, [advice |-> Reversal, status |-> {"message_sent"}])
    /\ totals' = [totals EXCEPT !.print = @ + 1]
    /\ UNCHANGED <<saved, noPrints, pc, job, ghosts, failures>>

-----------------------------------------------------------------------------
(* saf_send and saf_send_single. *)

Start(repeatOnly, stuck, destroy, n) ==
    /\ pc = "idle"
    /\ pc' = "select"
    /\ job' = [NoJob EXCEPT !.repeatOnly = repeatOnly, !.stuck = stuck,
                            !.destroy = destroy, !.left = n]
    /\ UNCHANGED <<disk, totals, noPrints, ghosts, failures>>

\* ReversalAndSAFProcessing and tms_contact: outstanding advices in order
StartUpload(n) == totals.saf # 0 /\ Start(FALSE, FALSE, FALSE, n)

\* reversal_send without a reversal, and logon_request: a repeat only
StartRepeat(n) == Start(TRUE, FALSE, FALSE, n)

\* the SAF deletion menu: try the repeat, then delete the batch
StartClear(n) == "clear" \in Commands /\ Start(TRUE, TRUE, TRUE, n)

Finished == pc' = "idle" /\ job' = NoJob

\* the advices an explicit deletion gives up
GivenUp(S) == discarded' = discarded \cup ({batch[i].advice : i \in S} \ {Reversal})

\* Mutation: a search for repeats only also clears the count
NothingToSend_AlwaysZero ==
    /\ pc = "select"
    /\ totals.saf = 0 \/ Matching(Wanted, job.index) = {}
    /\ Leaves(Store(batch, saved, [totals EXCEPT !.repeat = FALSE, !.saf = 0]))
    /\ Finished
    /\ UNCHANGED <<noPrints, ghosts, failures>>

NothingToSend ==
    /\ pc = "select"
    /\ totals.saf = 0 \/ Matching(Wanted, job.index) = {}
    /\ LET t == [totals EXCEPT !.repeat = FALSE,
                               !.saf = IF job.repeatOnly THEN @ ELSE 0]
       IN  IF job.destroy
           THEN Leaves(Destroyed(saved, t)) /\ GivenUp(Unsent(batch))
           ELSE Leaves(Store(batch, saved, t)) /\ UNCHANGED discarded
    /\ Finished
    /\ UNCHANGED <<noPrints, originals, received, accepted, totalsLost, failures>>

\* an invalid record on the way is deleted and the search goes on
DropInvalid ==
    /\ pc = "select"
    /\ totals.saf # 0
    /\ Matching(Wanted, job.index) # {}
    /\ LET i == First(Matching(Wanted, job.index))
       IN  /\ batch[i].advice \in Invalid
           /\ Leaves(Deleted(i))
           /\ job' = [job EXCEPT !.index = i]
           /\ GivenUp({i})
    /\ UNCHANGED <<noPrints, pc, originals, received, accepted, totalsLost, failures>>

\* Mutation: the repeat flag is set only after a failure (before SPIRA 5386)
SelectRecord_NotFlagged ==
    /\ pc = "select"
    /\ totals.saf # 0
    /\ Matching(Wanted, job.index) # {}
    /\ LET i == First(Matching(Wanted, job.index))
           again == "repeat_saf" \in batch[i].status
       IN  /\ batch[i].advice \notin Invalid
           /\ totals' = [totals EXCEPT !.repeat = @ \/ again]
           /\ job' = [job EXCEPT !.index = i,
                                 !.msg = IF again THEN "0221" ELSE "0220"]
    /\ pc' = "send"
    /\ UNCHANGED <<disk, noPrints, ghosts, failures>>

\* the record is written back as a repeat before anything is transmitted
SelectRecord ==
    /\ pc = "select"
    /\ totals.saf # 0
    /\ Matching(Wanted, job.index) # {}
    /\ LET i == First(Matching(Wanted, job.index))
           j == First(Matching("needs_sending", i))
           again == "repeat_saf" \in batch[j].status
       IN  /\ batch[i].advice \notin Invalid
           /\ Matching("needs_sending", i) # {}
           /\ batch' = WithStatus(j, {"repeat_saf"}, {})
           /\ totals' = [totals EXCEPT !.repeat = @ \/ again]
           /\ job' = [job EXCEPT !.index = j,
                                 !.msg = IF again THEN "0221" ELSE "0220"]
    /\ pc' = "send"
    /\ UNCHANGED <<saved, noPrints, ghosts, failures>>

\* the end of saf_send after an error: a stuck repeat is given up when the
\* caller says so, any other advice stays a repeat for the next upload
GiveUpStuck == job.repeatOnly /\ job.stuck

\* Mutation: every failed advice is taken for sent
SendFailed_TakenForSent ==
    /\ batch' = WithStatus(job.index, {"message_sent"}, {"needs_sending"})
    /\ totals' = [totals EXCEPT !.repeat = FALSE]
    /\ Finished
    /\ UNCHANGED <<saved, noPrints, ghosts, failures>>

SendFailed ==
    /\ IF GiveUpStuck
       THEN /\ batch' = WithStatus(job.index, {"message_sent"}, {"needs_sending"})
            /\ totals' = [totals EXCEPT
                             !.repeat = FALSE,
                             !.saf = IF @ # 0 THEN @ - 1 ELSE @,
                             !.print = IF totals.saf # 0 /\ ~noPrints THEN @ + 1 ELSE @]
            /\ GivenUp({job.index})
       ELSE /\ totals' = [totals EXCEPT !.repeat = TRUE]
            /\ UNCHANGED <<batch, discarded>>
    /\ Finished
    /\ UNCHANGED <<saved, noPrints, originals, received, accepted, totalsLost, failures>>

ConnectFails == pc = "send" /\ SendFailed

\* Mutation: a malformed advice is never deleted (before PIRPIN-2661)
CreateFails_Kept(journalled) ==
    pc = "send" /\ Here \in Malformed /\ SendFailed

\* msgAS2805_create fails; once journalled, txn_trickle.error is
\* VIM_ERROR_SYSTEM and the record, by now a repeat, is deleted
CreateFails(journalled) ==
    /\ pc = "send"
    /\ Here \in Malformed
    /\ IF journalled /\ ~GiveUpStuck
       THEN /\ Leaves(Deleted(job.index))
            /\ GivenUp({job.index})
            /\ Finished
            /\ UNCHANGED <<noPrints, originals, received, accepted, totalsLost, failures>>
       ELSE SendFailed

\* transmitted, or lost on the way; the counts are then refreshed from the
\* file, and only after that is the answer awaited
Transmit(arrives) ==
    /\ pc = "send"
    /\ Here \notin Malformed
    /\ originals' = [originals EXCEPT ![Here] = IF job.msg = "0220" THEN @ + 1 ELSE @]
    /\ received' = IF arrives THEN received \cup {Here} ELSE received
    /\ totals' = Recounted(totals, batch)
    /\ job' = [job EXCEPT !.heard = arrives]
    /\ pc' = "wait"
    /\ UNCHANGED <<disk, noPrints, accepted, discarded, totalsLost, failures>>

NoAnswer == pc = "wait" /\ SendFailed

\* a 0230 came: the record is deleted, or kept as a print, and the advice
\* leaves the not-sent total (saved later) only if the host approved it
Answer(approved) ==
    /\ pc = "wait"
    /\ job.heard
    /\ LET kept == Store(WithStatus(job.index, {"message_sent"}, {"needs_sending"}),
                         saved, totals)
           done == IF noPrints THEN Deleted(job.index) ELSE kept
       IN  Leaves([done EXCEPT
                     !.totals.repeat = FALSE,
                     !.totals.ns = IF approved /\ @ >= 1 THEN @ - 1 ELSE @])
    /\ pc' = "settled"
    /\ UNCHANGED <<noPrints, job, ghosts, failures>>

\* Mutation: every advice takes the file with it
CountSettled_AlwaysDestroys ==
    /\ pc = "settled"
    /\ Leaves([Destroyed(saved, totals) EXCEPT !.saved = Missing])
    /\ pc' = "saving"
    /\ UNCHANGED <<noPrints, job, ghosts, failures>>

\* the count follows the record; the last advice takes the file with it
CountSettled ==
    /\ pc = "settled"
    /\ LET counted == totals.saf # 0
           t == [totals EXCEPT
                   !.saf = IF counted THEN @ - 1 ELSE @,
                   !.print = IF counted /\ ~noPrints THEN @ + 1 ELSE @]
           done == IF noPrints /\ counted /\ t.saf = 0 THEN Destroyed(saved, t)
                                                       ELSE Store(batch, saved, t)
       IN  Leaves([done EXCEPT !.saved = Missing])
    /\ pc' = "saving"
    /\ UNCHANGED <<noPrints, job, ghosts, failures>>

\* saf_update_status_file is through: the next turn of saf_send's loop, or its
\* end and, from the deletion menu, the end of the batch
SaveSettled ==
    /\ pc = "saving"
    /\ IF job.left > 1
       THEN /\ pc' = "select"
            /\ job' = [job EXCEPT !.left = @ - 1, !.heard = FALSE]
            /\ Leaves(Store(batch, totals, totals))
            /\ UNCHANGED discarded
       ELSE IF job.destroy
       THEN Leaves(Destroyed(totals, totals)) /\ GivenUp(Unsent(batch)) /\ Finished
       ELSE Leaves(Store(batch, totals, totals)) /\ UNCHANGED discarded /\ Finished
    /\ UNCHANGED <<noPrints, originals, received, accepted, totalsLost, failures>>

-----------------------------------------------------------------------------
(* Commands between uploads. *)

\* saf_pending_count into the RAM totals: receipts, menus, PostTxnProcessing
Recount ==
    /\ pc = "idle"
    /\ "recount" \in Commands
    /\ totals' = Recounted(totals, batch)
    /\ UNCHANGED <<disk, noPrints, pc, job, ghosts, failures>>

\* ControlSAFPrints: SFP 1
PrintsOn ==
    /\ pc = "idle"
    /\ "sfp_on" \in Commands
    /\ noPrints
    /\ noPrints' = FALSE
    /\ UNCHANGED <<disk, totals, pc, job, ghosts, failures>>

\* ControlSAFPrints: SFP 0, and the start of DeleteSafPrints
PrintsOff ==
    /\ pc = "idle"
    /\ "sfp_off" \in Commands
    /\ noPrints' = TRUE
    /\ LET t == Recounted(totals, batch)
       IN  Leaves(IF t.saf = 0 THEN Destroyed(saved, t) ELSE Store(batch, saved, t))
    /\ pc' = "purge"
    /\ UNCHANGED <<job, ghosts, failures>>

\* one turn of DeleteSafPrints' loop: saf_delete_record takes a print off, and
\* so does the loop; without a print to delete the loop changes nothing
PurgePrint ==
    /\ pc = "purge"
    /\ totals.print # 0
    /\ \E i \in Prints(batch) :
          /\ i = First({j \in Prints(batch) : j >= job.index})
          /\ Leaves([Deleted(i) EXCEPT !.totals.print = Decrement(@)])
          /\ job' = [job EXCEPT !.index = i]
    /\ UNCHANGED <<noPrints, pc, ghosts, failures>>

PurgeDone ==
    /\ pc = "purge"
    /\ totals.print = 0
    /\ Finished
    /\ UNCHANGED <<disk, totals, noPrints, ghosts, failures>>

\* txn_saf_print: the first print goes to the printer and then away
PrintOne ==
    /\ pc = "idle"
    /\ "saf_print" \in Commands
    /\ totals.print # 0
    /\ Prints(batch) # {}
    /\ Leaves(Deleted(First(Prints(batch))))
    /\ UNCHANGED <<noPrints, pc, job, ghosts, failures>>

-----------------------------------------------------------------------------
(* Power failures. *)

OnRestart == IF saved = Missing THEN ZeroTotals ELSE saved

\* retrieve_saf_totals, and ss_no_saf_prints set again
PowerFail ==
    /\ failures < MaxFailures
    /\ failures' = failures + 1
    /\ totals' = OnRestart
    /\ totalsLost' = (totalsLost \/ OnRestart.saf < Cardinality(Unsent(batch)))
    /\ noPrints' = TRUE
    /\ Finished
    /\ UNCHANGED <<disk, originals, received, accepted, discarded>>

\* a restart with another software version recounts, and deletes the batch
\* when nothing waits in it
Upgrade ==
    /\ pc = "idle"
    /\ "upgrade" \in Commands
    /\ LET t == Recounted(OnRestart, batch)
       IN  Leaves(IF t.saf = 0 THEN Destroyed(saved, t) ELSE Store(batch, saved, t))
    /\ noPrints' = TRUE
    /\ UNCHANGED <<pc, job, ghosts, failures>>

-----------------------------------------------------------------------------
Uploading ==
    \/ \E n \in UploadCounts : StartUpload(n) \/ StartRepeat(n) \/ StartClear(n)
    \/ NothingToSend \/ DropInvalid \/ SelectRecord
    \/ ConnectFails
    \/ \E journalled \in BOOLEAN : CreateFails(journalled)
    \/ \E arrives \in BOOLEAN : Transmit(arrives)
    \/ NoAnswer
    \/ \E approved \in BOOLEAN : Answer(approved)
    \/ CountSettled \/ SaveSettled

Storing ==
    \/ \E a \in Advices : StoreAdvice(a)
    \/ CountAdvice \/ SaveAdvice \/ StoreReversalPrint

Commanding ==
    Recount \/ PrintsOn \/ PrintsOff \/ PurgePrint \/ PurgeDone \/ PrintOne

Next == Storing \/ Uploading \/ Commanding \/ PowerFail \/ Upgrade

Spec == Init /\ [][Next]_vars

(* The thread runs on; ReversalAndSAFProcessing comes round at every idle    *)
(* timeout; a host that is tried again and again is reached and answers in   *)
(* the end; an idle upload journals, so a malformed advice ends in the error.*)
ThreadStep == CountAdvice \/ SaveAdvice \/ (pc # "idle" /\ Uploading)

FairSpec ==
    /\ Spec
    /\ WF_vars(ThreadStep)
    /\ WF_vars(PurgePrint \/ PurgeDone)
    /\ SF_vars(\E n \in UploadCounts : StartUpload(n))
    /\ SF_vars(Transmit(TRUE))
    /\ SF_vars(CreateFails(TRUE))
    /\ SF_vars(\E approved \in BOOLEAN : Answer(approved))

-----------------------------------------------------------------------------
(* Correctness. *)

TypeOK ==
    /\ batch \in Seq(Records)
    /\ saved \in Totals \cup {Missing}
    /\ totals \in Totals
    /\ noPrints \in BOOLEAN
    /\ pc \in PCs
    /\ job \in Jobs
    /\ originals \in [Advices -> Nat]
    /\ received \in SUBSET Advices
    /\ accepted \in SUBSET Advices
    /\ discarded \in SUBSET Advices
    /\ totalsLost \in BOOLEAN
    /\ failures \in Nat

\* An advice goes to the host as an original 0220 at most once, whatever fails
\* and whenever: saf_send_single writes the repeat flag before it transmits
\* (SPIRA 5386), so every later transmission is an 0221.
OriginalOnce == \A a \in Advices : originals[a] <= 1

\* Only the oldest unsent advice may be a repeat, so "221s will ALWAYS be sent
\* before 220s" (saf.c:1466) and clearing saf_repeat_pending after any success
\* is right.
OneRepeatAtHead ==
    \A i, j \in Unsent(batch) : "repeat_saf" \in batch[i].status => i <= j

\* A record is taken off the upload list only for an advice the host has heard
\* of, or one that saf.c or the operator gave up.
SettledIsAccountedFor ==
    \A i \in DOMAIN batch :
        IsUnsent(batch[i]) \/ batch[i].advice \in received \cup discarded \cup {Reversal}

\* As long as no power failure has lost part of the totals, every accepted
\* advice is still to be sent, known to the host, or given up explicitly: the
\* counters that decide when the batch file is deleted never delete an advice.
AdviceNotLost ==
    totalsLost \/ \A a \in accepted :
        a \in received \cup discarded \/ \E i \in Unsent(batch) : batch[i].advice = a

\* saf_count, in RAM and in the totals file, covers the unsent records, although
\* it is kept apart from them and refreshed in the middle of an upload only.
CountCoversUnsent ==
    totalsLost \/ pc = "stored" \/
        /\ totals.saf >= Cardinality(Unsent(batch))
        /\ pc = "idle" => OnRestart.saf >= Cardinality(Unsent(batch))

\* While a record is being uploaded it is there and it is counted: no counter
\* deletes the batch under the upload or wraps below zero.
UploadKeepsItsRecord ==
    pc \in {"send", "wait", "settled"} => job.index \in DOMAIN batch /\ totals.saf >= 1

\* With saf_full in front of every store, the batch never holds more unsent advices than TERM_MAX_SAFS.
BatchWithinLimit == totalsLost \/ Cardinality(Unsent(batch)) <= MaxSafs

Held(a) == \E i \in Unsent(batch) : batch[i].advice = a

\* A batch is deleted only when all of it was printed or sent ("delete offline
\* transaction only if the advice has been printed", saf.c:994), lost totals or
\* not: no advice disappears unheard.  (It may: see the README.)
NoAdviceLost ==
    \A a \in accepted : Held(a) \/ a \in received \cup discarded

\* the queue implements the promise of AdviceDelivery
Stage == [a \in Advices |-> IF a \notin accepted THEN "new"
                            ELSE IF Held(a) THEN "held"
                            ELSE IF a \in discarded THEN "dropped" ELSE "closed"]

Delivery == INSTANCE AdviceDelivery WITH stage <- Stage, heard <- received

DeliverySpec == Delivery!Spec

\* unsent advices that saf_count does not show: idle processing passes them by
Overlooked == pc = "idle" /\ totals.saf = 0 /\ Unsent(batch) # {}

\* Unless lost totals hide the queue for good, every advice taken on leaves it
\* in the end: sent, given up, or deleted as malformed, power failures or not.
QueueDrains ==
    <>[]~Overlooked => \A a \in Advices : a \in accepted ~> ~Held(a)

\* DeleteSafPrints, which deletes "remaining SAF prints" (pceft_commands.c:1588),
\* comes to an end.  (It does not: see the README.)
PurgeEnds == pc = "purge" ~> pc # "purge"
=============================================================================
