-------------------------------- MODULE Chip --------------------------------
(***************************************************************************)
(* One purchase from the first presentation of the card to the result for  *)
(* the POS, over the reads a damaged chip, a pulled card or a refusal may   *)
(* ask for: card capture (card_read.c), what the capture result leads to    *)
(* (txn.c), the callbacks of the EMV kernel and its two cryptograms         *)
(* (emv_cb.c), the exchange with the host, the fallback without it (efb.c)  *)
(* and the finalisation.                                                    *)
(*                                                                          *)
(* txn_card_capture starts every read "with a clean slate", but only part   *)
(* of the transaction is cleaned; the module is about what an earlier read  *)
(* leaves behind.  The kernel, the card, the customer and the host are      *)
(* external.  Receipts, journal and power failures are those of Purchase:   *)
(* here they all succeed.  A transmission that fails does not arrive.       *)
(***************************************************************************)
EXTENDS Integers, FiniteSets

CONSTANT MaxDocks \* bound: reads of the docked card in one sale

ASSUME ChipAssumption == MaxDocks \in Nat

Requests == 1 .. MaxDocks + 1
Earlier == -1 \* the request of an earlier sale
Unsent == 0   \* a reversal set before this sale created a request

VARIABLES
    setup,    \* cash: the sale has a cash component; fallback: TERM_TECHNICAL_FALLBACK_ENABLE
    txn,      \* the transaction in RAM
    slot,     \* the card is in the slot
    pc,       \* where the thread is
    res,      \* result of the capture
    local,    \* local_online_result
    reversal, \* the request named by the reversal file, if there is one
    stands,   \* requests of this sale the host debited and has not reversed
    advices,  \* advices of this sale stored for the host that debit the card
    told,     \* what the POS is told
    harm      \* how a read went wrong, see Causes

vars == <<setup, txn, slot, pc, res, local, reversal, stands, advices, told, harm>>
books == <<reversal, stands, advices>>

-----------------------------------------------------------------------------
(* Data. *)

\* card_capture_standard, _standard_retry, _no_picc, _forced_icc, _forced_swipe
States == {"standard", "retry", "no_picc", "forced_icc", "forced_swipe"}

\* results of the kernel: card removed; faulty chip or bad reset; those that
\* present the card again (blocked, 6985, expired date, user cancel); those that
\* force a swipe (no dock, no application, kernel error, bad data); aborted; timeout
KernelErrors == {"removed", "faulty", "again", "swipe", "aborted", "timeout"}

\* txn.error: besides these VIM_ERROR_NONE, ERR_WOW_ERC, ERR_EMV_CARD_DECLINED,
\* ERR_HOST_APPROVED_CARD_DECLINED, ERR_UNABLE_TO_GO_ONLINE_DECLINED, ERR_NO_CASHOUT,
\* ERR_SIGNATURE_APPROVED_OFFLINE, ERR_NO_RESPONSE and other comms errors,
\* VIM_ERROR_SYSTEM, VIM_ERROR_ECR_REQUEST_NOT_SUPPORTED, VIM_ERROR_SAF_FULL
Errors == KernelErrors \cup {"none", "erc", "z1", "z4", "unable", "no_cashout",
          "efb", "no_response", "comms", "system", "limit", "saf_full", "pos_cancel"}

\* host_rc_asc: "blank" before there is a code, "T" for the codes of a refusal in efb.c
Codes == {"blank", "00", "08", "51", "91", "Y1", "Z1", "Z3", "Z4", "TE", "T"}
Verdicts == {"00", "08", "51", "91"}
Approvals == {"00", "08"}

Txns == [card : {"none", "chip", "mag"}, state : States, reads : 0 .. MaxDocks,
         error : Errors, rc : Codes, backup : Codes, request : 0 .. MaxDocks + 1,
         sent : BOOLEAN, needs : BOOLEAN, print : BOOLEAN]

\* limit: the limit on docked reads refuses a sale approved offline; wiped: a
\* kernel error after an approval without the host wipes that approval's error;
\* stale91: a request is created while host_rc_asc_backup holds an earlier 91;
\* unsent: the exchange before the request fails and the request is not created
Causes == {"limit", "wiped", "stale91", "unsent"}

PCs == {"capture", "kernel", "upload", "transmit", "await", "efb", "second",
        "result", "final", "over"}

Goto(p) == pc' = p
Harmed(test, cause) == harm' = IF test THEN harm \cup {cause} ELSE harm

IsChip == txn.card = "chip"
Removed == IsChip /\ ~slot

\* Mutation: a second reversal is added beside the one that is present
ReversalSet_Appends(file) == file \cup {txn.request}

\* reversal_set keeps the original request of a reversal that is present
ReversalSet(file) == IF file = {} THEN {txn.request} ELSE file

\* what a read clears: card data, error and response code, and nothing else
CleanSlate(card) == [txn EXCEPT !.card = card, !.error = "none", !.rc = "blank"]

\* errors of the callbacks that override what the kernel returns
Overriding == {"removed", "timeout", "no_cashout", "efb"}
Handled(error, e) == IF error \in Overriding THEN error ELSE e

-----------------------------------------------------------------------------
(* Presenting the card: txn_card_capture, card_capture. *)

Dock ==
    /\ pc = "capture" /\ txn.reads < MaxDocks
    /\ txn' = [CleanSlate("chip") EXCEPT !.reads = @ + 1]
    /\ slot' = TRUE
    /\ local' = "none"
    /\ Goto("kernel")
    /\ UNCHANGED <<setup, res, books, told, harm>>

\* the stripe of a card that has a chip is refused unless a swipe is forced
Swipe ==
    /\ pc = "capture" /\ txn.state # "forced_icc"
    /\ slot' = FALSE
    /\ \/ /\ txn.state # "forced_swipe"
          /\ txn' = [CleanSlate("mag") EXCEPT !.state = "forced_icc"]
          /\ UNCHANGED pc
       \/ /\ txn' = [CleanSlate("mag") EXCEPT !.print = TRUE]
          /\ Goto("upload")
    /\ UNCHANGED <<setup, res, local, books, told, harm>>

\* no card is presented in time, or the POS cancels
GiveUp ==
    /\ pc = "capture"
    /\ \E e \in {"timeout", "pos_cancel"} : txn' = [CleanSlate("none") EXCEPT !.error = e]
    /\ Goto("final")
    /\ UNCHANGED <<setup, slot, res, local, books, told, harm>>

Pull ==
    /\ slot /\ IsChip /\ pc \in {"upload", "transmit", "await", "efb", "second", "result"}
    /\ slot' = FALSE
    /\ UNCHANGED <<setup, txn, pc, res, local, books, told, harm>>

-----------------------------------------------------------------------------
(* The kernel up to its first cryptogram. *)

\* Y1 or Z1
CardDecides ==
    /\ pc = "kernel"
    /\ \/ txn' = [txn EXCEPT !.rc = "Y1", !.needs = TRUE, !.print = TRUE]
       \/ txn' = [txn EXCEPT !.rc = "Z1", !.error = "z1", !.needs = TRUE, !.print = TRUE]
    /\ res' = "none"
    /\ Goto("result")
    /\ UNCHANGED <<setup, slot, local, books, told, harm>>

ReadFails ==
    /\ pc = "kernel"
    /\ \E e \in KernelErrors :
        /\ res' = e
        /\ txn' = [txn EXCEPT !.error = IF e \in {"removed", "timeout", "faulty"} THEN e ELSE @]
        /\ slot' = (e # "removed")
    /\ Goto("result")
    /\ UNCHANGED <<setup, local, books, told, harm>>

GoOnline ==
    /\ pc = "kernel"
    /\ txn' = [txn EXCEPT !.print = TRUE]
    /\ Goto("upload")
    /\ UNCHANGED <<setup, slot, res, local, books, told, harm>>

-----------------------------------------------------------------------------
(* The host: txn_authorisation_processing.  An error that is no reason for a *)
(* fallback ends in ts_finalisation, which go_online takes for a decline.    *)

Abandon(e) ==
    /\ txn' = [txn EXCEPT !.error = e]
    /\ IF IsChip THEN local' = "declined" /\ Goto("second")
                 ELSE Goto("final") /\ UNCHANGED local

FallBack == Goto("efb") /\ UNCHANGED local

\* no connection, or no answer to the reversal that goes first
NoConnection ==
    /\ pc = "upload"
    /\ txn' = [txn EXCEPT !.error = "no_response"]
    /\ FallBack
    /\ UNCHANGED <<setup, slot, res, books, told, harm>>

ReversalTaken ==
    /\ pc = "upload" /\ reversal # {}
    /\ stands' = stands \ reversal
    /\ reversal' = {}
    /\ UNCHANGED <<setup, txn, slot, pc, res, local, advices, told, harm>>

\* another error of the uploads or of msgAS2805_create
UploadFails ==
    /\ pc = "upload"
    /\ Abandon("comms")
    /\ Harmed(IsChip, "unsent")
    /\ UNCHANGED <<setup, slot, res, books, told>>

RemovedBefore ==
    /\ pc = "upload" /\ reversal = {} /\ Removed
    /\ Abandon("removed")
    /\ UNCHANGED <<setup, slot, res, books, told, harm>>

\* Mutation: the request overtakes the reversal
CreateRequest_Overtakes ==
    /\ pc = "upload" /\ ~Removed
    /\ txn' = [txn EXCEPT !.request = @ + 1]
    /\ reversal' = {txn.request + 1}

CreateRequest ==
    /\ pc = "upload" /\ reversal = {} /\ ~Removed
    /\ txn' = [txn EXCEPT !.request = @ + 1]
    /\ reversal' = {txn.request + 1}

SendRequest ==
    /\ CreateRequest
    /\ Harmed(txn.backup = "91", "stale91")
    /\ Goto("transmit")
    /\ UNCHANGED <<setup, slot, res, local, stands, advices, told>>

Transmit ==
    /\ pc = "transmit"
    /\ \/ /\ txn' = [txn EXCEPT !.sent = TRUE, !.needs = FALSE]
          /\ Goto("await")
          /\ UNCHANGED <<local, reversal>>
       \/ /\ txn' = [txn EXCEPT !.error = "no_response"]
          /\ reversal' = {}
          /\ FallBack
    /\ UNCHANGED <<setup, slot, res, stands, advices, told, harm>>

Debits(verdict) ==
    stands' = IF verdict \in Approvals THEN stands \cup {txn.request} ELSE stands

\* Mutation: the reversal is cleared as if the request had not been sent
NoAnswer_Cleared ==
    /\ pc = "await"
    /\ \E verdict \in Verdicts : Debits(verdict)
    /\ reversal' = {}
    /\ \/ txn' = [txn EXCEPT !.error = "no_response"] /\ FallBack
       \/ Removed /\ Abandon("removed")
    /\ UNCHANGED <<setup, slot, res, advices, told, harm>>

\* the request or the answer is lost
NoAnswer ==
    /\ pc = "await"
    /\ \E verdict \in Verdicts : Debits(verdict)
    /\ reversal' = ReversalSet(reversal)
    /\ \/ txn' = [txn EXCEPT !.error = "no_response"] /\ FallBack
       \/ Removed /\ Abandon("removed")
    /\ UNCHANGED <<setup, slot, res, advices, told, harm>>

\* the answer does not parse: ts_error, a system error for the kernel
BadAnswer ==
    /\ pc = "await" /\ ~Removed
    /\ \E verdict \in Verdicts, rc \in {"blank", "00"} :
        Debits(verdict) /\ txn' = [txn EXCEPT !.error = "system", !.rc = rc]
    /\ reversal' = ReversalSet(reversal)
    /\ res' = "system"
    /\ Goto(IF IsChip THEN "result" ELSE "final")
    /\ UNCHANGED <<setup, slot, local, advices, told, harm>>

AnswerAfterRemoval ==
    /\ pc = "await" /\ Removed
    /\ \E verdict \in Verdicts :
        Debits(verdict) /\ txn' = [txn EXCEPT !.error = "removed", !.rc = verdict]
    /\ reversal' = ReversalSet(reversal)
    /\ local' = "declined"
    /\ Goto("second")
    /\ UNCHANGED <<setup, slot, res, advices, told, harm>>

Decided(result) ==
    /\ local' = IF IsChip THEN result ELSE local
    /\ Goto(IF IsChip THEN "second" ELSE "final")

Answered ==
    /\ pc = "await" /\ ~Removed
    /\ reversal' = {}
    /\ \E verdict \in Verdicts :
        /\ Debits(verdict)
        /\ \/ /\ verdict \in Approvals
              /\ txn' = [txn EXCEPT !.error = "none", !.rc = verdict]
              /\ Decided("approved")
           \/ /\ verdict = "51"
              /\ txn' = [txn EXCEPT !.error = "erc", !.rc = verdict]
              /\ Decided("declined")
           \/ /\ verdict = "91"
              /\ txn' = [txn EXCEPT !.error = "none", !.rc = verdict, !.backup = verdict]
              /\ FallBack
    /\ UNCHANGED <<setup, slot, res, advices, told, harm>>

-----------------------------------------------------------------------------
(* Without the host: efb_process_txn. *)

Refusals ==
    {[txn EXCEPT !.rc = "T", !.error = "erc"]}
    \cup IF IsChip THEN {[txn EXCEPT !.rc = "Z3"], [txn EXCEPT !.rc = "Z3", !.error = "unable"]}
                   ELSE {}

\* Set91DoManual, SetEfbApproved
Manual == [txn EXCEPT !.backup = txn.rc, !.rc = "91", !.error = "erc"]
EfbApproved == [txn EXCEPT !.backup = txn.rc, !.rc = "08", !.error = "efb", !.needs = TRUE]

EFB ==
    /\ pc = "efb"
    /\ IF Removed THEN txn' = [txn EXCEPT !.error = "removed"]
       ELSE IF setup.cash THEN txn' \in {[txn EXCEPT !.rc = "T", !.error = "erc"],
                                         [txn EXCEPT !.rc = "TE", !.error = "no_cashout"]}
       ELSE txn' \in Refusals \cup {Manual, EfbApproved}
    /\ Decided("unable")
    /\ UNCHANGED <<setup, slot, res, books, told, harm>>

-----------------------------------------------------------------------------
(* The second cryptogram: emv_get_transaction_results, CB_finalisation. *)

\* Y3 takes the place of whatever efb.c decided
CardAccepts ==
    IF local = "unable"
    THEN /\ txn' = [txn EXCEPT !.rc = "00", !.needs = TRUE, !.error = "none", !.print = TRUE]
         /\ reversal' = ReversalSet(reversal)
    ELSE /\ txn' = [txn EXCEPT !.error = "none", !.print = TRUE]
         /\ UNCHANGED reversal

\* Mutation: the host approved and the card declines, without a reversal
CardDeclines_NoReversal ==
    /\ txn' = CASE local = "unable" -> [txn EXCEPT !.print = TRUE]
                [] local = "approved" -> [txn EXCEPT !.rc = "Z4", !.error = "z4", !.print = TRUE]
                [] local = "declined" -> [txn EXCEPT !.error = "erc", !.print = TRUE]
    /\ reversal' = IF local = "unable" /\ txn.backup # "91" THEN ReversalSet(reversal) ELSE reversal

CardDeclines ==
    /\ txn' = CASE local = "unable" -> [txn EXCEPT !.print = TRUE]
                [] local = "approved" -> [txn EXCEPT !.rc = "Z4", !.error = "z4", !.print = TRUE]
                [] local = "declined" -> [txn EXCEPT !.error = "erc", !.print = TRUE]
    /\ reversal' = IF local = "approved" \/ (local = "unable" /\ txn.backup # "91")
                   THEN ReversalSet(reversal) ELSE reversal

SecondCryptogram ==
    /\ pc = "second" /\ slot
    /\ (local # "declined" /\ CardAccepts) \/ CardDeclines
    /\ res' = Handled(txn'.error, "none")
    /\ Goto("result")
    /\ UNCHANGED <<setup, slot, local, stands, advices, told, harm>>

\* Mutation: an error after the host's approval sets no reversal
SecondFails_NoReversal(e, error) ==
    /\ txn' = IF local = "approved" THEN [txn EXCEPT !.error = e, !.print = TRUE]
              ELSE [txn EXCEPT !.error = IF e = "faulty" /\ error \notin Overriding THEN e ELSE error]
    /\ UNCHANGED reversal

\* vim_emv_CB_finalisation when the kernel ends with an error; HandleEMVContact
SecondFails(e, error) ==
    /\ txn' = IF local = "approved" THEN [txn EXCEPT !.error = e, !.print = TRUE]
              ELSE [txn EXCEPT !.error = IF e = "faulty" /\ error \notin Overriding THEN e ELSE error]
    /\ reversal' = IF local = "approved" THEN ReversalSet(reversal) ELSE reversal

\* error: what vim_emv_CB_error, called or not, left in txn.error
KernelFails ==
    /\ pc = "second"
    /\ \E e \in {"removed", "faulty", "swipe", "aborted"} :
        /\ slot' = (slot /\ e # "removed")
        /\ e # "removed" => slot
        /\ \E error \in IF e = "removed" THEN {e} ELSE {txn.error, "none"} :
            /\ SecondFails(e, error)
            /\ Harmed(error = "none" /\ txn.needs, "wiped")
            /\ res' = Handled(txn'.error, e)
    /\ Goto("result")
    /\ UNCHANGED <<setup, local, stands, advices, told>>

-----------------------------------------------------------------------------
(* What the capture result leads to: ProcessCaptureResult.                  *)

\* the result looked at: two refusals replace what the kernel returned
Outcome == IF txn.error \in {"z4", "unable"} THEN txn.error ELSE res

Ends(error) == txn' = [txn EXCEPT !.error = error] /\ Goto("final")
CaptureAgain(state) == txn' = [txn EXCEPT !.state = state] /\ Goto("capture")
NoFurtherEffect == UNCHANGED <<setup, slot, res, local, stands, advices, told>>

\* timeout, or a system error unless the host declined
Interrupted ==
    /\ pc = "result" /\ Outcome \in {"timeout", "system"}
    /\ Ends(IF txn.error = "erc" THEN "erc" ELSE Outcome)
    /\ UNCHANGED <<reversal, harm>> /\ NoFurtherEffect

NoCashout ==
    /\ pc = "result" /\ Outcome = "no_cashout"
    /\ IF txn.backup = "91" THEN Ends(txn.error)
       ELSE CaptureAgain(IF txn.state = "forced_icc" THEN "no_picc" ELSE txn.state)
    /\ UNCHANGED <<reversal, harm>> /\ NoFurtherEffect

InContact == pc = "result" /\ Outcome \notin {"timeout", "system", "no_cashout"}

\* Mutation: the limit lets one more read through
TooManyReads_OneMore == txn.reads > 3

\* ProcessCaptureResult_contact: the limit comes first, whatever was decided
TooManyReads == txn.reads > 2

ReadLimit ==
    /\ InContact /\ TooManyReads
    /\ Ends("limit")
    /\ Harmed(txn.needs /\ txn.rc # "Z1", "limit")
    /\ UNCHANGED reversal /\ NoFurtherEffect

\* the card was pulled: a request that was sent is reversed
CardPulled ==
    /\ InContact /\ ~TooManyReads /\ ~slot
    /\ Ends("removed")
    /\ reversal' = IF txn.sent THEN ReversalSet(reversal) ELSE reversal
    /\ UNCHANGED harm /\ NoFurtherEffect

Contact == InContact /\ ~TooManyReads /\ slot

PresentAgain ==
    /\ Contact
    /\ \/ Outcome = "again" /\ CaptureAgain(txn.state)
       \/ Outcome = "swipe" /\ CaptureAgain("forced_swipe")
       \/ /\ Outcome = "faulty" /\ (setup.cash \/ ~setup.fallback)
          /\ CaptureAgain(txn.state)
    /\ UNCHANGED <<reversal, harm>> /\ NoFurtherEffect

\* the first fault asks for another read, the second for the stripe, or for an
\* end if the operator says the chip is damaged
TechnicalFallback ==
    /\ Contact /\ Outcome = "faulty" /\ ~setup.cash /\ setup.fallback
    /\ IF txn.state = "retry" THEN CaptureAgain("forced_swipe") \/ Ends("limit")
                              ELSE CaptureAgain("retry")
    /\ UNCHANGED <<reversal, harm>> /\ NoFurtherEffect

\* txn.error becomes the result, also NONE after a decline
Settled ==
    /\ Contact /\ Outcome \in {"none", "efb", "z4", "unable", "aborted"}
    /\ Ends(Outcome)
    /\ UNCHANGED <<reversal, harm>> /\ NoFurtherEffect

-----------------------------------------------------------------------------
(* txn_finalisation, PrintReceipts, txn_commit and the POS response.        *)

\* Mutation: no reversal of a sale that ends in an error after the host's approval
NeedsReversal_Never == FALSE

\* JIRA PIRPIN-2270
NeedsReversal == txn.sent /\ txn.error # "none" /\ txn.rc \in Approvals

Printed ==
    IF txn.sent /\ txn.error # "none" THEN [txn EXCEPT !.print = TRUE]
    ELSE IF txn.error = "pos_cancel" THEN [txn EXCEPT !.print = FALSE] ELSE txn

\* EmvMapFinaliseOffline
Mapped(t) == IF t.rc = "Y1" THEN [t EXCEPT !.rc = "00", !.needs = TRUE] ELSE t

\* saf_full
Refused(t, full) ==
    IF ~(full /\ t.needs) THEN t
    ELSE [t EXCEPT !.needs = FALSE, !.error = IF t.rc = "Z1" THEN @ ELSE "saf_full"]

\* Mutation: an offline approval is stored although the card was pulled
Commits_Removed(t) == t.print

\* JIRA PIRPIN-1605
Commits(t) == t.print /\ t.error # "removed"

\* txn_commit: an approval or a decline by the host is not stored; a reversal is
\* taken back after a 91; a Z1 is stored for information only
Commit(t, file) ==
    LET stored == t.needs /\ t.rc # "91" IN
    IF t.error \in {"none", "erc"} /\ ~t.needs /\ t.rc # "91"
    THEN txn' = t /\ reversal' = file /\ UNCHANGED advices
    ELSE /\ txn' = [t EXCEPT !.sent = @ /\ ~stored]
         /\ reversal' = IF t.backup = "91" THEN {} ELSE file
         /\ advices' = IF stored /\ t.rc # "Z1" THEN advices + 1 ELSE advices

\* error_code_lookup: NONE without a code reads "00 APPROVED"
ToldApproved(t) ==
    \/ t.error = "efb"
    \/ t.error = "none" /\ t.rc \in Approvals \cup {"blank"}
    \/ t.error = "erc" /\ t.rc \in Approvals

Finalise ==
    /\ pc = "final"
    /\ \E full \in BOOLEAN :
        LET t == Refused(Mapped(Printed), full)
            file == IF NeedsReversal THEN ReversalSet(reversal) ELSE reversal
        IN /\ IF Commits(t) THEN Commit(t, file)
              ELSE txn' = t /\ reversal' = file /\ UNCHANGED advices
           /\ told' = IF ToldApproved(t) THEN "approved" ELSE "declined"
    /\ Goto("over")
    /\ UNCHANGED <<setup, slot, res, local, stands, harm>>

\* the end of the sale
Over == pc = "over" /\ UNCHANGED vars

-----------------------------------------------------------------------------

Init ==
    /\ setup \in [cash : BOOLEAN, fallback : BOOLEAN]
    /\ txn = [card |-> "none", state |-> "standard", reads |-> 0, error |-> "none",
              rc |-> "blank", backup |-> "blank", request |-> 0, sent |-> FALSE,
              needs |-> FALSE, print |-> FALSE]
    /\ slot = FALSE
    /\ pc = "capture"
    /\ res = "none"
    /\ local = "none"
    /\ reversal \in {{}, {Earlier}}
    /\ stands = {}
    /\ advices = 0
    /\ told = "nothing"
    /\ harm = {}

Capture == Dock \/ Swipe \/ GiveUp
Kernel == CardDecides \/ ReadFails \/ GoOnline \/ SecondCryptogram \/ KernelFails
Host == \/ NoConnection \/ ReversalTaken \/ UploadFails \/ RemovedBefore \/ SendRequest
        \/ Transmit \/ NoAnswer \/ BadAnswer \/ AnswerAfterRemoval \/ Answered \/ EFB
Process == \/ Interrupted \/ NoCashout \/ ReadLimit \/ CardPulled \/ PresentAgain
           \/ TechnicalFallback \/ Settled

Next == Capture \/ Kernel \/ Host \/ Process \/ Pull \/ Finalise \/ Over

Spec == Init /\ [][Next]_vars

-----------------------------------------------------------------------------
(* Properties. *)

TypeOK ==
    /\ setup \in [cash : BOOLEAN, fallback : BOOLEAN]
    /\ txn \in Txns
    /\ slot \in BOOLEAN
    /\ pc \in PCs
    /\ res \in Errors
    /\ local \in {"none", "approved", "declined", "unable"}
    /\ reversal \subseteq Requests \cup {Earlier, Unsent} /\ Cardinality(reversal) <= 1
    /\ stands \subseteq Requests
    /\ advices \in 0 .. 1
    /\ told \in {"nothing", "approved", "declined"}
    /\ harm \subseteq Causes

Charges == Cardinality(stands \ reversal) + advices

\* However often the card is read and the host asked, no two requests of one
\* sale stand at the host: the reversal of the one before always goes first
\* (txn.c:6158), whatever became of the read that sent it.
OneRequestStands == Cardinality(stands) <= 1

\* A sale of which the POS is told that it failed charges nobody: no request
\* stands without a reversal on file and no advice that debits the card is
\* stored.  Exempt are the three ways in which an earlier read or the limit on
\* reads breaks it, see Causes.
DeclinedNotCharged ==
    told = "declined" => Charges = 0 \/ harm \cap {"limit", "wiped", "stale91"} # {}

\* A sale of which the POS is told that it was approved charges the card once,
\* by a request that stands or by one advice, never by both and never not at
\* all.  Exempt are a sale whose exchange failed before the request was created
\* and one that kept an earlier 91, see Causes.
ApprovedChargesOnce ==
    told = "approved" => Charges = 1 \/ harm \cap {"unsent", "stale91"} # {}

\* "endless cards reads": a sale without cash ends with its third docked read,
\* whatever the reads before it did (txn.c:2240).
ReadsEnd == ~setup.cash => txn.reads <= 3

\* "SPIRA 7301 ... This causes Txn to be approved but not saved or sent online"
\* (txn.c:6208): an approved sale was sent to the host or is saved for it.
ApprovedIsSavedOrSent == told = "approved" => txn.sent \/ advices = 1

=============================================================================
