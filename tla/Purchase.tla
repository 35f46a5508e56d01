------------------------------ MODULE Purchase ------------------------------
(***************************************************************************)
(* A purchase from the POS command to the POS response: authorisation by   *)
(* the host (txn.c), approval without it (efb.c, emv_cb.c), the reversal   *)
(* file (reversal.c), the advice stored for the host (saf.c), the receipts *)
(* and the commit between them, the uploads that precede and follow a sale *)
(* (Main.c, logon.c) and the start-up after a power failure (power_on.c).  *)
(*                                                                         *)
(* The terminal is one thread, `pc' says where it is.  `disk' survives a   *)
(* power failure, which may strike between any two steps; the rest is RAM. *)
(* `posted' and `advised' are the host's books.  A sale is a number, in    *)
(* the order the sales were started.  A contactless card behaves as        *)
(* "docked" where it decides offline and as "swiped" where the host does.  *)
(***************************************************************************)
EXTENDS Integers, FiniteSets

CONSTANTS
    MaxSales,    \* bound: sales started
    MaxSafs,     \* TERM_MAX_SAFS: advices the queue takes
    Unbuildable, \* sales whose 0220 or 0420 msgAS2805_create rejects (VIM_ERROR_SYSTEM)
    IsP400,      \* the terminal prints no second receipt of a declined signature
    MaxRetries,  \* bound: PIN or account retries in one sale
    MaxFailures  \* bound: power failures

Sales == 1 .. MaxSales
None == 0

ASSUME PurchaseAssumption ==
    /\ MaxSales \in Nat
    /\ MaxSafs \in Nat
    /\ Unbuildable \subseteq Sales
    /\ IsP400 \in BOOLEAN
    /\ MaxRetries \in Nat
    /\ MaxFailures \in Nat

VARIABLES
    disk,     \* the files: status, saved transaction, reversal, SAF batch, totals, last command
    txn,      \* the transaction in RAM
    ret,      \* txn_finalisation's ret: the receipts failed
    totals,   \* saf_totals in RAM
    revCount, \* terminal.reversal_count # 0
    feed,     \* terminal.trickle_feed
    pc,       \* where the thread is
    job,      \* what the running upload was started for
    answer,   \* the host's answer to the request under way
    posted,   \* the host debited the card for the request and has seen no reversal
    advised,  \* the host debited the card for the advice
    told,     \* what the POS was told of each sale
    waived,   \* how a sale was exempted: the code gave its reversal up, see Causes
    started, retries, failures \* counters of what the bounds limit

vars == <<disk, txn, ret, totals, revCount, feed, pc, job, answer, posted,
          advised, told, waived, started, retries, failures>>
counters == <<started, retries, failures>>
books == <<posted, advised>>
ram == <<totals, revCount, feed>>

-----------------------------------------------------------------------------
(* Data. *)

Cards == {"swiped", "docked"}

\* txn.error: NONE, ERR_WOW_ERC, ERR_SIGNATURE_APPROVED_OFFLINE, the card's
\* refusal, VIM_ERROR_EMV_CARD_REMOVED, a comms error, VIM_ERROR_SYSTEM,
\* VIM_ERROR_SAF_FULL, ERR_SIGNATURE_DECLINED, a receipt or POS error, a cancel
Errors == {"none", "erc", "efb", "card", "removed", "comms", "system",
           "saf_full", "signature", "print", "cancel"}

\* host_rc_asc; "Z" stands for the codes of a terminal or card refusal
Codes == {"none", "00", "08", "51", "52", "55", "91", "Z", "Z1"}
Verdicts == {"00", "08", "51", "52", "55", "91"}
Approvals == {"00", "08"}

Txns == [sale : Sales \cup {None}, card : Cards, sent : BOOLEAN, needs : BOOLEAN,
         offline : BOOLEAN, error : Errors, rc : Codes, was91 : BOOLEAN,
         signed : BOOLEAN, printed : BOOLEAN]
NoTxn == [sale |-> None, card |-> "swiped", sent |-> FALSE, needs |-> FALSE,
          offline |-> FALSE, error |-> "none", rc |-> "none", was91 |-> FALSE,
          signed |-> FALSE, printed |-> FALSE]

Advices == [sale : Sales, repeat : BOOLEAN, debit : BOOLEAN]
Totals == [count : 0 .. MaxSales, repeat : BOOLEAN]

Disks == [incomplete : BOOLEAN, sale : Sales \cup {None}, sent : BOOLEAN,
          reversal : Sales \cup {None}, queue : SUBSET Advices,
          totals : Totals, pending : BOOLEAN]

PCs == {"idle", "start", "connect", "reversal", "repeat", "advice", "build",
        "transmit", "sent", "await", "efb", "unable", "second", "final",
        "receipt", "commit", "stored", "copy", "journal", "close", "exit"}
Jobs == {"sale", "feed", "logon", "files"}

Tellings == {"nothing", "approved", "declined", "power fail"}

\* refused: reversal_set did nothing; discarded: a message that cannot be built
\* was deleted; cleared: an uploaded advice took the reversal file with it;
\* unacked: the request reached the host though the transmission failed;
\* receipt: the second receipt failed after the commit; late: the power failed
\* after the sale was stored or closed and before the POS was told; unsent: an
\* error before the request left was forgotten (Aborted), and the POS was told
\* "00 APPROVED", the text of no error; journal: the POS refused the journal of a
\* declined signature, and no error was left of it
Causes == {"refused", "discarded", "cleared", "unacked", "receipt", "late", "unsent", "journal"}

Repeats(q) == {a \in q : a.repeat}
Oldest(q) == {a \in q : \A b \in q : a.sale <= b.sale}
Of(s, q) == {a \in q : a.sale = s}

Goto(p) == pc' = p

\* an error raised before the request left: the kernel of a docked card takes it
\* for a refusal of the host, and ProcessCaptureResult_contact ends without one
Aborted(e) == [txn EXCEPT !.error = IF txn.card = "docked" THEN "none" ELSE e]

\* txn_save
Saved(d) == [d EXCEPT !.sale = txn.sale, !.sent = txn.sent]

\* Mutation: a reversal pending for an earlier sale is overwritten
ReversalSet_Overwrites(d, s) ==
    IF totals.repeat THEN d ELSE [d EXCEPT !.reversal = s]

\* reversal_set: refused while a 0221 is thought to be pending, and a reversal
\* that is present is kept
ReversalSet(d, s) ==
    IF totals.repeat \/ d.reversal # None THEN d ELSE [d EXCEPT !.reversal = s]

ReversalCleared(d) == [d EXCEPT !.reversal = None]

Waive(s, cause) == waived' = [waived EXCEPT ![s] = @ \cup {cause}]
WaiveIf(test, s, cause) == IF test THEN Waive(s, cause) ELSE UNCHANGED waived
SetIsRefused == totals.repeat /\ disk.reversal = None

\* the conjuncts of a step that calls reversal_set for the current sale
SetReversal == /\ disk' = ReversalSet(disk, txn.sale)
               /\ WaiveIf(SetIsRefused, txn.sale, "refused")

IsApproved(t) == t.error = "efb" \/ (t.error = "none" /\ t.rc \in Approvals)

\* a sale that ends without an error and without a host's code (Aborted)
IsUnsent(t) == t.error = "none" /\ t.rc = "none"

\* txn_requires_signature, for a customer who is present
RequiresSignature(t) == t.error = "efb" \/ (t.error = "none" /\ t.rc = "08" /\ ~t.offline)

SafFull == totals.count >= MaxSafs
-----------------------------------------------------------------------------
(* The host exchanges that precede a sale or follow it. *)

\* What follows a part of an upload: a sale goes on or falls back to efb (or
\* ends, after an error other than "no response"); a trickle feed goes on to
\* the advices; a logon ignores the error and sends the repeat again.
UploadGoesOn ==
    CASE job = "sale" -> Goto("build") /\ txn' = [txn EXCEPT !.error = "none"] /\ UNCHANGED job
      [] job = "feed" -> Goto("advice") /\ UNCHANGED <<txn, job>>
      [] job = "logon" -> Goto("repeat") /\ job' = "files" /\ UNCHANGED txn
      [] job = "files" -> Goto("idle") /\ UNCHANGED <<txn, job>>

\* Mutation: a trickle feed uploads advices though its reversal did not go
UploadFails_FeedGoesOn(error) ==
    CASE job = "sale" /\ error = "comms" ->
            Goto("efb") /\ txn' = [txn EXCEPT !.error = "comms"] /\ UNCHANGED job
      [] job = "sale" /\ error # "comms" ->
            Goto("final") /\ txn' = Aborted(error) /\ UNCHANGED job
      [] job = "feed" -> Goto("advice") /\ UNCHANGED <<txn, job>>
      [] job = "logon" -> Goto("repeat") /\ job' = "files" /\ UNCHANGED txn
      [] job = "files" -> Goto("idle") /\ UNCHANGED <<txn, job>>

UploadFails(error) ==
    CASE job = "sale" /\ error = "comms" ->
            Goto("efb") /\ txn' = [txn EXCEPT !.error = "comms"] /\ UNCHANGED job
      [] job = "sale" /\ error # "comms" ->
            Goto("final") /\ txn' = Aborted(error) /\ UNCHANGED job
      [] job = "feed" -> Goto("idle") /\ UNCHANGED <<txn, job>>
      [] job = "logon" -> Goto("repeat") /\ job' = "files" /\ UNCHANGED txn
      [] job = "files" -> Goto("idle") /\ UNCHANGED <<txn, job>>

\* the count msgAS2805_transaction takes from the file after a transmission
Recounted == [totals EXCEPT !.count = Cardinality(disk.queue)]

\* reversal_send with a reversal.  The 0420 or 0421 is not delivered, or is and
\* no answer comes: the file stays.
ReversalFails ==
    LET s == disk.reversal IN
    /\ pc = "reversal" /\ s # None /\ s \notin Unbuildable
    /\ \E delivered \in BOOLEAN, error \in {"comms", "system"} :
          /\ posted' = IF delivered THEN posted \ {s} ELSE posted
          /\ totals' = IF delivered THEN Recounted ELSE totals
          /\ UploadFails(error)
    /\ UNCHANGED <<disk, ret, revCount, feed, answer, advised, told, waived, counters>>

\* Mutation: the file stays after the answer
ReversalSent_FileKept ==
    LET s == disk.reversal IN
    /\ pc = "reversal" /\ s # None /\ s \notin Unbuildable
    /\ posted' = posted \ {s}
    /\ revCount' = FALSE
    /\ totals' = Recounted
    /\ UploadGoesOn
    /\ UNCHANGED <<disk, ret, feed, answer, advised, told, waived, counters>>

\* it is answered: the file is deleted
ReversalSent ==
    LET s == disk.reversal IN
    /\ pc = "reversal" /\ s # None /\ s \notin Unbuildable
    /\ posted' = posted \ {s}
    /\ disk' = ReversalCleared(disk)
    /\ revCount' = FALSE
    /\ totals' = Recounted
    /\ UploadGoesOn
    /\ UNCHANGED <<ret, feed, answer, advised, told, waived, counters>>

\* it cannot be built: the file is deleted all the same
ReversalDiscarded ==
    LET s == disk.reversal IN
    /\ pc = "reversal" /\ s # None /\ s \in Unbuildable
    /\ disk' = ReversalCleared(disk)
    /\ revCount' = FALSE
    /\ Waive(s, "discarded")
    /\ UploadGoesOn
    /\ UNCHANGED <<ret, totals, feed, answer, books, told, counters>>

\* reversal_send without a reversal: a repeated advice goes, if any is counted
SkipReversal ==
    /\ pc = "reversal" /\ disk.reversal = None
    /\ IF totals.count = 0 THEN UploadGoesOn
                           ELSE Goto("repeat") /\ UNCHANGED <<txn, job>>
    /\ UNCHANGED <<disk, ret, ram, answer, books, told, waived, counters>>

\* saf_send finds nothing to transmit
NothingToSend(q) ==
    /\ totals.count = 0 \/ q = {}
    /\ totals' = [totals EXCEPT !.repeat = FALSE,
                                 !.count = IF job = "feed" THEN 0 ELSE @]
    /\ UNCHANGED <<disk, waived, revCount, advised>>

\* saf_send_single marks the record as a repeat before it transmits it
Marked(a) == (disk.queue \ {a}) \cup {[a EXCEPT !.repeat = TRUE]}

Debited(a) == IF a.debit THEN advised \cup {a.sale} ELSE advised

\* The exchange fails: the record stays as a repeat and saf_repeat_pending is
\* raised; a repeat that cannot even be built is deleted, and its flag stays.
AdviceFails(a, error, delivered) ==
    /\ totals.count # 0
    /\ a.sale \in Unbuildable => error = "system" /\ ~delivered
    /\ disk' = [disk EXCEPT !.queue =
                  IF a.sale \in Unbuildable /\ a.repeat THEN @ \ {a} ELSE Marked(a)]
    /\ totals' = [(IF delivered THEN Recounted ELSE totals) EXCEPT !.repeat = TRUE]
    /\ advised' = IF delivered THEN Debited(a) ELSE advised
    /\ WaiveIf(a.sale \in Unbuildable /\ a.repeat, a.sale, "discarded")
    /\ UNCHANGED revCount

\* Mutation: the settled record is subtracted from a count that leaves it out
AdviceSettled_CountedOut(a) ==
    LET t == [count |-> Cardinality(disk.queue \ {a}) - 1, repeat |-> FALSE] IN
    /\ totals.count # 0
    /\ a.sale \notin Unbuildable
    /\ advised' = Debited(a)
    /\ totals' = t
    /\ disk' = [ReversalCleared(disk) EXCEPT !.queue = @ \ {a}, !.totals = t]
    /\ revCount' = FALSE
    /\ WaiveIf(disk.reversal # None, disk.reversal, "cleared")

\* The host takes it: the record is settled, the totals are saved, and the
\* reversal file is deleted, whosever reversal it is.
AdviceSettled(a) ==
    LET t == [count |-> Cardinality(disk.queue) - 1, repeat |-> FALSE] IN
    /\ totals.count # 0
    /\ a.sale \notin Unbuildable
    /\ advised' = Debited(a)
    /\ totals' = t
    /\ disk' = [ReversalCleared(disk) EXCEPT !.queue = @ \ {a}, !.totals = t]
    /\ revCount' = FALSE
    /\ WaiveIf(disk.reversal # None, disk.reversal, "cleared")

\* saf_send(repeat_only)
SendRepeat ==
    /\ pc = "repeat"
    /\ LET R == Repeats(disk.queue) IN
       \/ NothingToSend(R) /\ UploadGoesOn
       \/ \E a \in Oldest(R) :
             \/ AdviceSettled(a) /\ UploadGoesOn
             \/ \E error \in {"comms", "system"}, delivered \in BOOLEAN :
                    AdviceFails(a, error, delivered) /\ UploadFails(error)
    /\ UNCHANGED <<ret, feed, answer, posted, told, counters>>

\* saf_send of one advice of any kind, after a trickle feed's reversal_send;
\* PostTxnProcessing recounts the queue if all went well
SendAdvice ==
    /\ pc = "advice"
    /\ \/ /\ totals.count = 0
          /\ totals' = Recounted
          /\ UNCHANGED <<disk, waived, revCount, advised>>
       \/ totals.count # 0 /\ NothingToSend(disk.queue)
       \/ \E a \in Oldest(disk.queue) :
             \/ AdviceSettled(a)
             \/ \E error \in {"comms", "system"}, delivered \in BOOLEAN :
                    AdviceFails(a, error, delivered)
    /\ Goto("idle")
    /\ UNCHANGED <<txn, ret, feed, job, answer, posted, told, counters>>
-----------------------------------------------------------------------------
(* Authorisation: txn_authorisation_processing, and the chip card around it. *)

\* the POS asks for a purchase; txn_init saves the blank transaction
BeginSale ==
    /\ pc = "idle" /\ started < MaxSales
    /\ started' = started + 1
    /\ \E c \in Cards : txn' = [NoTxn EXCEPT !.sale = started + 1, !.card = c]
    /\ disk' = [disk EXCEPT !.sale = started + 1, !.sent = FALSE, !.pending = TRUE]
    /\ ret' = FALSE
    /\ job' = "sale"
    /\ retries' = 0
    /\ Goto("start")
    /\ UNCHANGED <<ram, answer, books, told, waived, failures>>

\* the customer or the POS cancels before, or between, authorisations
CancelSale ==
    /\ pc = "start"
    /\ txn' = [txn EXCEPT !.error = "cancel"]
    /\ Goto("exit")
    /\ UNCHANGED <<disk, ret, ram, job, answer, books, told, waived, counters>>

\* a chip decides at the first GenAC: Y1, or Z1 (which is sent as an advice of
\* a decline); the card capture has set ss_incomplete
CardDecides ==
    /\ pc = "start" /\ txn.card = "docked"
    /\ disk' = [disk EXCEPT !.incomplete = TRUE]
    /\ \E outcome \in {[error |-> "none", rc |-> "00"], [error |-> "card", rc |-> "Z1"]} :
          txn' = [txn EXCEPT !.offline = TRUE, !.needs = TRUE,
                             !.error = outcome.error, !.rc = outcome.rc]
    /\ Goto("final")
    /\ UNCHANGED <<ret, ram, job, answer, books, told, waived, counters>>

Authorise ==
    /\ pc = "start"
    /\ disk' = [Saved(disk) EXCEPT !.incomplete = TRUE]
    /\ Goto("connect")
    /\ UNCHANGED <<txn, ret, ram, job, answer, books, told, waived, counters>>

Connect ==
    /\ pc = "connect"
    /\ \/ Goto("reversal") /\ UNCHANGED txn
       \/ Goto("efb") /\ txn' = [txn EXCEPT !.error = "comms"]
    /\ UNCHANGED <<disk, ret, ram, job, answer, books, told, waived, counters>>

\* the card is gone, or the request cannot be created
BuildFails ==
    /\ pc = "build"
    /\ \/ txn.card = "docked" /\ txn' = [txn EXCEPT !.error = "removed"]
       \/ txn' = Aborted("system")
    /\ Goto("final")
    /\ UNCHANGED <<disk, ret, ram, job, answer, books, told, waived, counters>>

\* Mutation: no reversal before the request leaves
BuildRequest_NoReversal ==
    /\ pc = "build"
    /\ disk' = Saved(disk)
    /\ UNCHANGED waived
    /\ Goto("transmit")
    /\ UNCHANGED <<txn, ret, ram, job, answer, books, told, counters>>

\* the transaction is saved and the reversal set before the request leaves
BuildRequest ==
    /\ pc = "build"
    /\ disk' = ReversalSet(Saved(disk), txn.sale)
    /\ WaiveIf(SetIsRefused, txn.sale, "refused")
    /\ Goto("transmit")
    /\ UNCHANGED <<txn, ret, ram, job, answer, books, told, counters>>

Posts(verdict) == IF verdict \in Approvals THEN posted \cup {txn.sale} ELSE posted

\* The request leaves and reaches the host or not.
Transmit ==
    /\ pc = "transmit"
    /\ \/ answer' = "none" /\ UNCHANGED posted
       \/ \E v \in Verdicts : answer' = v /\ posted' = Posts(v)
    /\ Goto("sent")
    /\ UNCHANGED <<disk, txn, ret, ram, job, advised, told, waived, counters>>

\* comms_transmit reports an error: the reversal is cleared, on the assumption
\* that nothing was delivered
TransmitFails ==
    /\ pc = "transmit"
    /\ \/ UNCHANGED <<posted, waived>>
       \/ posted' = Posts("00") /\ Waive(txn.sale, "unacked")
    /\ disk' = ReversalCleared(disk)
    /\ revCount' = FALSE
    /\ txn' = [txn EXCEPT !.error = "comms"]
    /\ Goto("efb")
    /\ UNCHANGED <<ret, totals, feed, job, answer, advised, told, counters>>

MarkSent ==
    /\ pc = "sent"
    /\ txn' = [txn EXCEPT !.sent = TRUE, !.needs = FALSE]
    /\ disk' = [disk EXCEPT !.sale = txn.sale, !.sent = TRUE]
    /\ Goto("await")
    /\ UNCHANGED <<ret, ram, job, answer, books, told, waived, counters>>

\* no answer, one that msgAS2805_parse rejects, or the card pulled meanwhile
AnswerMissed ==
    /\ pc = "await"
    /\ SetReversal
    /\ \/ txn' = [txn EXCEPT !.error = "comms"] /\ Goto("efb")
       \/ /\ answer # "none" /\ txn.card = "swiped"
          /\ txn' = [txn EXCEPT !.error = "system"] /\ Goto("final")
       \/ /\ txn.card = "docked"
          /\ txn' = [txn EXCEPT !.error = "removed", !.rc = IF answer = "none" THEN @ ELSE answer]
          /\ Goto("final")
    /\ UNCHANGED <<ret, ram, job, answer, books, told, counters>>

\* Mutation: the reversal is kept when the host answers
Answered_ReversalKept(code) ==
    /\ pc = "await" /\ answer = code
    /\ UNCHANGED <<disk, revCount>>

\* an answer: the reversal is cleared
Answered(code) ==
    /\ pc = "await" /\ answer = code
    /\ disk' = ReversalCleared(disk)
    /\ revCount' = FALSE

HostApproves ==
    /\ \E code \in Approvals : Answered(code)
    /\ txn' = [txn EXCEPT !.error = "none", !.rc = answer]
    /\ Goto(IF txn.card = "docked" THEN "second" ELSE "final")
    /\ UNCHANGED <<ret, totals, feed, job, answer, books, told, waived, counters>>

HostDeclines ==
    /\ \E code \in {"51", "52", "55"} : Answered(code)
    /\ txn' = [txn EXCEPT !.error = "erc", !.rc = answer]
    /\ Goto(IF txn.card = "docked" THEN "second" ELSE "final")
    /\ UNCHANGED <<ret, totals, feed, job, answer, books, told, waived, counters>>

\* "issuer not available": treated like a comms error
IssuerUnavailable ==
    /\ Answered("91")
    /\ txn' = [txn EXCEPT !.error = "none", !.rc = "91", !.was91 = TRUE]
    /\ Goto("efb")
    /\ UNCHANGED <<ret, totals, feed, job, answer, books, told, waived, counters>>

\* RC 52: another account may be tried
RetryAccount ==
    /\ txn.card = "swiped" /\ retries < MaxRetries
    /\ pc = "await" /\ answer = "52"
    /\ txn' = [txn EXCEPT !.error = "none", !.rc = "52", !.sent = FALSE]
    /\ disk' = [ReversalCleared(disk) EXCEPT !.sale = txn.sale, !.sent = FALSE]
    /\ revCount' = FALSE
    /\ retries' = retries + 1
    /\ Goto("start")
    /\ UNCHANGED <<ret, totals, feed, job, answer, books, told, waived, started, failures>>

\* RC 55: the PIN may be entered again; st_message_sent stays set
RetryPin ==
    /\ pc = "final" /\ txn.card = "swiped" /\ retries < MaxRetries
    /\ txn.error = "erc" /\ txn.rc = "55"
    /\ disk' = Saved(disk)
    /\ retries' = retries + 1
    /\ Goto("start")
    /\ UNCHANGED <<txn, ret, ram, job, answer, books, told, waived, started, failures>>

\* efb_process_txn: approved on behalf of the issuer, refused, "91 do manual",
\* over the card's limit (the error stays what it was), or the queue is full
EFBOutcomes ==
    LET backed == [txn EXCEPT !.was91 = (txn.rc = "91")] IN
    {[txn EXCEPT !.error = "erc", !.rc = "Z"], [backed EXCEPT !.error = "erc", !.rc = "91"]}
    \cup (IF SafFull THEN {} ELSE
             {[backed EXCEPT !.error = "efb", !.rc = "08", !.needs = TRUE, !.offline = TRUE]})
    \cup (IF txn.card = "docked" THEN {[txn EXCEPT !.rc = "Z"]} ELSE {})

Fallback ==
    /\ pc = "efb"
    /\ txn' \in EFBOutcomes
    /\ Goto(IF txn.card = "docked" THEN "unable" ELSE "final")
    /\ UNCHANGED <<disk, ret, ram, job, answer, books, told, waived, counters>>

\* the second GenAC of a card that could not go online: Y3 overrides whatever
\* the fallback said, Z3 leaves it; both set the reversal (Z3 not after a 91)
CardDecidesUnable ==
    /\ pc = "unable"
    /\ \/ /\ txn' = [txn EXCEPT !.error = "none", !.rc = "00", !.needs = TRUE, !.offline = TRUE]
          /\ SetReversal
       \/ /\ UNCHANGED txn
          /\ IF txn.was91 THEN UNCHANGED <<disk, waived>> ELSE SetReversal
    /\ Goto("final")
    /\ UNCHANGED <<ret, ram, job, answer, books, told, counters>>

\* the second GenAC after the host's answer: the card agrees, or refuses what the
\* host approved (Z4), or the kernel fails on it
SecondGenAC ==
    /\ pc = "second"
    /\ \/ UNCHANGED <<txn, disk, waived>>
       \/ /\ txn.error = "none"
          /\ \/ txn' = [txn EXCEPT !.error = "card", !.rc = "Z"]
             \/ txn' = [txn EXCEPT !.error = "system"]
          /\ SetReversal
    /\ Goto("final")
    /\ UNCHANGED <<ret, ram, job, answer, books, told, counters>>

\* the card is pulled during either second GenAC (ProcessCaptureResult_contact)
CardPulled ==
    /\ pc \in {"efb", "unable", "second"} /\ txn.card = "docked"
    /\ txn' = [txn EXCEPT !.error = "removed"]
    /\ IF txn.sent THEN SetReversal ELSE UNCHANGED <<disk, waived>>
    /\ Goto("final")
    /\ UNCHANGED <<ret, ram, job, answer, books, told, counters>>
-----------------------------------------------------------------------------
(* Finalisation: txn_finalisation, PrintReceipts, txn_commit, ts_exit. *)

\* a transaction with an error must not stand at the host (JIRA PIRPIN-2270)
NeedsReversal == txn.sent /\ txn.error # "none" /\ txn.rc \in Approvals

\* the transaction is saved, reversed if it failed after the host approved it,
\* and refused if the advice it needs has no room
Finalise ==
    /\ pc = "final"
    /\ IF NeedsReversal
       THEN /\ disk' = ReversalSet(Saved(disk), txn.sale)
            /\ WaiveIf(SetIsRefused, txn.sale, "refused")
       ELSE disk' = Saved(disk) /\ UNCHANGED waived
    /\ txn' = IF txn.needs /\ SafFull
              THEN [txn EXCEPT !.needs = FALSE,
                               !.error = IF txn.rc = "Z1" THEN @ ELSE "saf_full"]
              ELSE txn
    /\ Goto("receipt")
    /\ UNCHANGED <<ret, ram, job, answer, books, told, counters>>

\* the first receipt of a sale without a signature
PrintReceipt ==
    /\ pc = "receipt" /\ ~RequiresSignature(txn)
    /\ \/ txn' = [txn EXCEPT !.printed = TRUE] /\ Goto("commit") /\ UNCHANGED ret
       \/ ret' = TRUE /\ Goto("journal") /\ UNCHANGED txn
    /\ UNCHANGED <<disk, ram, job, answer, books, told, waived, counters>>

\* Mutation: a declined signature reverses nothing
Signature_NoReversal ==
    /\ pc = "receipt" /\ RequiresSignature(txn)
    /\ \/ /\ txn' = [txn EXCEPT !.signed = TRUE]
          /\ Goto("commit") /\ UNCHANGED <<ret, disk, waived>>
       \/ /\ txn' = [txn EXCEPT !.signed = TRUE, !.error = "signature", !.needs = FALSE]
          /\ UNCHANGED <<disk, waived>>
          /\ Goto("commit") /\ UNCHANGED ret
       \/ /\ txn' = [txn EXCEPT !.needs = FALSE]
          /\ ret' = TRUE
          /\ Goto("journal") /\ UNCHANGED <<disk, waived>>
    /\ UNCHANGED <<ram, job, answer, books, told, counters>>

\* the signature receipt: signed, declined (or nobody answered), or not printed
Signature ==
    /\ pc = "receipt" /\ RequiresSignature(txn)
    /\ \/ /\ txn' = [txn EXCEPT !.signed = TRUE]
          /\ Goto("commit") /\ UNCHANGED <<ret, disk, waived>>
       \/ /\ txn' = [txn EXCEPT !.signed = TRUE, !.error = "signature", !.needs = FALSE]
          /\ IF txn.sent THEN SetReversal ELSE UNCHANGED <<disk, waived>>
          /\ Goto("commit") /\ UNCHANGED ret
       \/ /\ txn' = [txn EXCEPT !.needs = FALSE]
          /\ ret' = TRUE
          /\ Goto("journal") /\ UNCHANGED <<disk, waived>>
    /\ UNCHANGED <<ram, job, answer, books, told, counters>>

\* saf_add_record: the totals are saved with it
AdviceStored(d) ==
    LET t == [totals EXCEPT !.count = @ + 1] IN
    /\ totals' = t
    /\ disk' = [d EXCEPT !.queue = @ \cup {[sale |-> txn.sale, repeat |-> FALSE,
                                            debit |-> txn.rc # "Z1"]},
                         !.totals = t]

\* txn_commit does nothing after an online result
OnlineResult(t) == t.error \in {"none", "erc"} /\ ~t.needs /\ t.rc # "91"

\* txn_commit: after a 91 the reversal goes; an advice is stored, or cannot be;
\* a reversal found at start-up is set again.  A pulled card skips it all.
Commit ==
    /\ pc = "commit"
    /\ LET kept == IF txn.was91 THEN ReversalCleared(disk) ELSE disk
           count == revCount /\ ~txn.was91
       IN \/ /\ txn.error = "removed"
             /\ Goto("copy") /\ UNCHANGED <<disk, txn, totals, revCount, waived>>
          \/ /\ txn.error # "removed" /\ OnlineResult(txn)
             /\ Goto("stored") /\ UNCHANGED <<disk, txn, totals, revCount, waived>>
          \/ /\ txn.error # "removed" /\ ~OnlineResult(txn)
             /\ revCount' = count
             /\ \/ /\ txn.needs
                   /\ txn' = [txn EXCEPT !.sent = FALSE]
                   /\ AdviceStored(IF count THEN ReversalSet(kept, txn.sale) ELSE kept)
                   /\ Goto("stored")
                \/ /\ txn.needs
                   /\ txn' = [txn EXCEPT !.sent = FALSE, !.error = "system"]
                   /\ disk' = kept
                   /\ Goto("copy") /\ UNCHANGED totals
                \/ /\ ~txn.needs
                   /\ disk' = IF count THEN ReversalSet(kept, txn.sale) ELSE kept
                   /\ Goto("stored") /\ UNCHANGED <<txn, totals>>
             /\ UNCHANGED waived
    /\ UNCHANGED <<ret, feed, job, answer, books, told, counters>>

\* "no power fail receipt if the receipt was printed and the txn was saved"
MarkStored ==
    /\ pc = "stored"
    /\ disk' = [Saved(disk) EXCEPT !.incomplete = FALSE]
    /\ Goto("copy")
    /\ UNCHANGED <<txn, ret, ram, job, answer, books, told, waived, counters>>

\* the second receipt, of a sale with a signature
CustomerCopy ==
    /\ pc = "copy"
    /\ \/ /\ ~txn.signed \/ (IsP400 /\ txn.error = "signature")
          /\ UNCHANGED <<txn, ret, waived>>
       \/ /\ txn.signed /\ ~(IsP400 /\ txn.error = "signature")
          /\ \/ txn' = [txn EXCEPT !.printed = TRUE] /\ UNCHANGED <<ret, waived>>
             \/ ret' = TRUE /\ Waive(txn.sale, "receipt") /\ UNCHANGED txn
    /\ Goto("journal")
    /\ UNCHANGED <<disk, ram, job, answer, books, told, counters>>

\* A journal the POS does not take reverses a sale without a customer receipt,
\* and puts the result of the receipts into txn.error, which may be none.
Journal ==
    /\ pc = "journal"
    /\ \/ UNCHANGED <<txn, disk, waived>>
       \/ txn.printed /\ ~ret /\ UNCHANGED <<txn, disk, waived>>
       \/ /\ ~txn.printed \/ ret
          /\ txn' = [txn EXCEPT !.error = IF ret THEN "print" ELSE "none"]
          /\ disk' = ReversalSet(disk, txn.sale)
          /\ waived' = [waived EXCEPT ![txn.sale] =
                          @ \cup (IF SetIsRefused THEN {"refused"} ELSE {})
                            \cup (IF ret \/ txn.error = "none" THEN {} ELSE {"journal"})]
    /\ Goto("close")
    /\ UNCHANGED <<ret, ram, job, answer, books, told, counters>>

\* AllowPiggyBack
PiggyBack ==
    ~txn.needs /\ (disk.reversal # None \/ (txn.error = "none" /\ ~txn.offline))

\* the transaction is complete; a receipt error reverses it if it was sent
Close ==
    LET closed == [Saved(disk) EXCEPT !.incomplete = FALSE] IN
    /\ pc = "close"
    /\ \/ /\ ret
          /\ txn' = [txn EXCEPT !.error = "print"]
          /\ feed' = FALSE
          /\ disk' = IF txn.sent THEN ReversalSet(closed, txn.sale) ELSE closed
          /\ WaiveIf(txn.sent /\ SetIsRefused, txn.sale, "refused")
          /\ UNCHANGED revCount
       \/ /\ ~ret
          /\ disk' = closed
          /\ revCount' = (revCount \/ (txn.error = "removed" /\ txn.sent))
          /\ feed' = PiggyBack
          /\ UNCHANGED <<txn, waived>>
    /\ Goto("exit")
    /\ UNCHANGED <<ret, totals, job, answer, books, told, counters>>

\* ts_exit, and the response to the POS
Respond ==
    /\ pc = "exit"
    /\ disk' = [Saved(disk) EXCEPT !.incomplete = FALSE, !.pending = FALSE]
    /\ told' = [told EXCEPT ![txn.sale] =
                  IF IsApproved(txn) \/ IsUnsent(txn) THEN "approved" ELSE "declined"]
    /\ WaiveIf(IsUnsent(txn), txn.sale, "unsent")
    /\ Goto("idle")
    /\ UNCHANGED <<txn, ret, ram, job, answer, books, counters>>

-----------------------------------------------------------------------------
(* The idle terminal, and the power. *)

\* VIM_MAIN_EVENT_IDLE
IdleTick ==
    /\ pc = "idle" /\ disk.incomplete
    /\ disk' = [disk EXCEPT !.incomplete = FALSE]
    /\ UNCHANGED <<txn, ret, ram, pc, job, answer, books, told, waived, counters>>

\* PostTxnProcessing after a command, and the upload of the idle terminal: a
\* blank transaction is saved first
Feed ==
    /\ pc = "idle" /\ ~disk.incomplete
    /\ feed \/ disk.reversal # None \/ totals.count # 0
    /\ feed' = FALSE
    /\ txn' = NoTxn
    /\ disk' = [disk EXCEPT !.sale = None, !.sent = FALSE]
    /\ job' = "feed"
    /\ Goto("reversal")
    /\ UNCHANGED <<ret, totals, revCount, answer, books, told, waived, counters>>

\* a logon that must fetch files sends the reversal and a repeat first
LogonUpload ==
    /\ pc = "idle"
    /\ disk.reversal # None \/ Repeats(disk.queue) # {} \/ totals.repeat
    /\ job' = "logon"
    /\ Goto("reversal")
    /\ UNCHANGED <<disk, txn, ret, ram, answer, books, told, waived, counters>>

\* a POS status command counts the queue
PosStatus ==
    /\ pc = "idle" /\ totals # Recounted
    /\ totals' = Recounted
    /\ UNCHANGED <<disk, txn, ret, revCount, feed, pc, job, answer, books, told, waived, counters>>

\* Mutation: the restart sets no reversal
Completed_NoReversal(flag) == [disk EXCEPT !.pending = FALSE]

\* CompleteTxn's view of the files: set a reversal if the request had gone out
Completed(flag) ==
    IF disk.incomplete /\ disk.reversal = None /\ disk.sent /\ ~flag
    THEN [disk EXCEPT !.reversal = disk.sale, !.pending = FALSE]
    ELSE [disk EXCEPT !.pending = FALSE]

\* The power fails and comes back: retrieve_saf_totals, CompleteTxn, and the POS
\* is told of a transaction that was interrupted.
PowerFail ==
    LET interrupted == disk.incomplete \/ disk.pending
        refused == disk.incomplete /\ disk.reversal = None /\ disk.sent /\ disk.totals.repeat
        late == disk.sale # None /\ disk.pending
                  /\ (~disk.incomplete \/ Of(disk.sale, disk.queue) # {})
    IN
    /\ failures < MaxFailures
    /\ failures' = failures + 1
    /\ disk' = IF interrupted THEN Completed(disk.totals.repeat) ELSE disk
    /\ told' = IF interrupted /\ disk.pending /\ disk.sale # None
               THEN [told EXCEPT ![disk.sale] = "power fail"] ELSE told
    /\ waived' = [s \in Sales |-> waived[s]
                    \cup (IF s = disk.sale /\ refused THEN {"refused"} ELSE {})
                    \cup (IF s = disk.sale /\ late THEN {"late"} ELSE {})]
    /\ totals' = disk.totals
    /\ revCount' = (disk'.reversal # None)
    /\ feed' = FALSE
    /\ txn' = NoTxn
    /\ ret' = FALSE
    /\ answer' = "none"
    /\ job' = "sale"
    /\ Goto("idle")
    /\ UNCHANGED <<books, started, retries>>

-----------------------------------------------------------------------------
Init ==
    /\ disk = [incomplete |-> FALSE, sale |-> None, sent |-> FALSE, reversal |-> None,
               queue |-> {}, totals |-> [count |-> 0, repeat |-> FALSE], pending |-> FALSE]
    /\ txn = NoTxn
    /\ ret = FALSE
    /\ totals = [count |-> 0, repeat |-> FALSE]
    /\ revCount = FALSE
    /\ feed = FALSE
    /\ pc = "idle"
    /\ job = "sale"
    /\ answer = "none"
    /\ posted = {}
    /\ advised = {}
    /\ told = [s \in Sales |-> "nothing"]
    /\ waived = [s \in Sales |-> {}]
    /\ started = 0 /\ retries = 0 /\ failures = 0

Upload == ReversalFails \/ ReversalSent \/ ReversalDiscarded \/ SkipReversal \/ SendRepeat \/ SendAdvice

Authorisation ==
    \/ CancelSale \/ CardDecides \/ Authorise \/ Connect \/ BuildFails \/ BuildRequest
    \/ Transmit \/ TransmitFails \/ MarkSent \/ AnswerMissed \/ HostApproves
    \/ HostDeclines \/ IssuerUnavailable \/ RetryAccount \/ RetryPin \/ Fallback
    \/ CardDecidesUnable \/ SecondGenAC \/ CardPulled

Finalisation ==
    \/ Finalise \/ PrintReceipt \/ Signature \/ Commit \/ MarkStored \/ CustomerCopy
    \/ Journal \/ Close \/ Respond

Terminal == Upload \/ Authorisation \/ Finalisation

Next == BeginSale \/ Terminal \/ IdleTick \/ Feed \/ LogonUpload \/ PosStatus \/ PowerFail

Spec == Init /\ [][Next]_vars

Fairness ==
    /\ WF_vars(Terminal) /\ WF_vars(IdleTick) /\ WF_vars(Feed)
    /\ SF_vars(ReversalSent)

FairSpec == Spec /\ Fairness
-----------------------------------------------------------------------------
(* Properties. *)

TypeOK ==
    /\ disk \in Disks
    /\ txn \in Txns
    /\ ret \in BOOLEAN /\ revCount \in BOOLEAN /\ feed \in BOOLEAN
    /\ totals \in Totals
    /\ pc \in PCs /\ job \in Jobs
    /\ answer \in Verdicts \cup {"none"}
    /\ posted \subseteq Sales /\ advised \subseteq Sales
    /\ told \in [Sales -> Tellings]
    /\ waived \in [Sales -> SUBSET Causes]
    /\ started \in 0 .. MaxSales /\ retries \in 0 .. MaxRetries
    /\ failures \in 0 .. MaxFailures

GivenUp(s) == waived[s] \cap {"refused", "discarded", "cleared", "unacked"} # {}
Queued(s) == \E a \in disk.queue : a.sale = s /\ a.debit
Debits(s) == s \in posted \/ s \in advised \/ Queued(s)

\* A card is never debited both for the request and for the advice of one sale.
NoDoubleDebit ==
    \A s \in Sales : s \in posted /\ s \in advised => GivenUp(s)

\* A sale the POS was told is declined is reversed, and no advice debits it
\* unless its second receipt failed after the commit.
DeclinedNotCharged ==
    \A s \in Sales : told[s] = "declined" =>
        /\ s \in posted => disk.reversal = s \/ GivenUp(s)
        /\ s \in advised \/ Queued(s) => "receipt" \in waived[s]

\* A sale the POS was told is approved is debited or has its advice on the way,
\* and the reversal pending, if any, is not the end of it, unless the text of no
\* error was shown for a request that never left.
ApprovedStands ==
    \A s \in Sales : told[s] = "approved" =>
        \/ s \in posted /\ disk.reversal # s
        \/ s \in advised \/ Queued(s)
        \/ waived[s] \cap {"discarded", "unsent", "journal"} # {}

\* What the POS was told was cancelled by a power failure is not debited, unless
\* the failure came after the sale was stored or closed.
CancelledByPowerFail ==
    \A s \in Sales : told[s] = "power fail" /\ Debits(s) =>
        disk.reversal = s \/ GivenUp(s) \/ "late" \in waived[s]

\* While a request is under way the reversal file is its own: no reversal of an
\* earlier sale is in its way.
ReversalIsOwn ==
    pc \in {"transmit", "sent", "await"} =>
        disk.reversal = txn.sale \/ "refused" \in waived[txn.sale]

\* saf.c:1469 "we sent a SAF so there should be no reversal set": an uploaded
\* advice never takes the reversal of a sale the host debited with it.
AdviceTakesNoReversal ==
    [][\A s \in posted : waived[s] = {} => waived'[s] # {"cleared"}]_vars

\* A reversal is uploaded in the end, whatever else the terminal does: the
\* terminal works on, the idle upload comes round, and the host, asked again
\* and again, answers.
ReversalLeaves == \A s \in Sales : disk.reversal = s ~> disk.reversal # s
=============================================================================
