# Formal model of the EFTPOS terminal application

TLA+ modules, TLC configurations and TLAPS proofs about the terminal
application in `src/`: a single-threaded C program on a card terminal that
authorises card payments with an AS2805 host on behalf of a point of sale
(POS), and that must leave the cardholder, the POS and the host with one view
of each transaction, across lost messages, lost answers and power failures.

## 1. The system

| Component | State it keeps | Operations | Correct when |
|---|---|---|---|
| SAF queue (`saf.c`) | EFTSAF batch file of transaction records with status flags; `saf_totals` in RAM and in the saftot file | `saf_add_record`, `saf_send(_single)`, `saf_update_record`, `saf_delete_record`, `saf_destroy_batch`, `saf_pending_count`, `saf_full` | every offline approval reaches the host, as an original once, and is deleted only then or on explicit demand |
| Pre-authorisation table (`saf.c`) | table file of open pre-authorisations | add, get, update status, delete, expire | an open pre-authorisation can be completed once until it expires |
| Card buffer (`saf.c`) | recent queries by electronic PAN | maintain, verify, expire | a completion uses the card of its own query |
| Reversal (`reversal.c`) | one reversal file, `terminal.reversal_count`, original STAN | `reversal_set`, `reversal_clear`, `reversal_send`, `reversal_store_original_stan` | a transaction that may stand at the host and not at the terminal is reversed, no other is |
| Messages (`msgAS2805.c`) | STAN, the message being exchanged | `msgAS2805_transaction`, `_create`, `_parse` | answers are matched to requests, a STAN identifies one message |
| Transactions (`txn.c`, `txn_state.c`, `efb.c`) | `txn` in RAM and in the transaction file, `ss_incomplete` | authorisation, electronic fallback (EFB), commit, receipts, finalisation | approved to the customer if and only if it stands at the host or is queued for it |
| Start-up and idle loop (`power_on.c`, `Main.c`, `terminal.c`, `new_terminal.c`, `Standalone.c`) | terminal file, status file | `power_up_routine`, `CompleteTxn`, `ReversalAndSAFProcessing`, `PostTxnProcessing` | an interrupted transaction is completed or reversed |
| Logon (`logon.c`, `keyLoader.c`) | logon state, session keys | request, file update, finalisation | no transaction goes out without a session |
| POS commands (`pceft_*.c`, `simple_ecr_*.c`) | POS settings, `ss_no_saf_prints` | command decoding, `ControlSAFPrints`, `DeleteSafPrints` | a command leaves stored transactions alone unless it says otherwise |
| TMS (`tms.c`, `tms_params.c`, `param_download.c`) | downloaded files and parameters | contact, download | pending transactions are sent before the configuration changes |
| Settlement and totals (`Settlement.c`, `totals.c`) | shift totals | add, settle, clear | totals equal the journal |
| EMV and card reading (`emv_cb.c`, `card_read.c`, part of `txn.c`) | the capture of the card, the kernel's result, local online result, reads so far | presentation, kernel callbacks, both cryptograms, fallback, the limit on reads | what the card decided last, what the host did and what the POS is told agree |
| Everyday Pay wallet (`Wally.c`, `VAA_utils.c`, part of `mal_nfc.cpp`) | a request and an answer file, the session in RAM, the loyalty file | query card J8, session start, code renewal, rewards, payment, reset, delete | a customer gets his own number and session, the POS is told of a payment what the wallet did |

The rest (communications drivers, contactless kernels, gift cards, display,
receipts, menus, encoders) is listed in `PROJECT.json` with the reason it is
left out.

**Interactions.** All of it runs in one thread; components call each other and
share the globals `txn`, `txn_trickle`, `terminal` and `saf_totals`.
Concurrency comes from outside: the host, the POS, the operator between two
steps, and the mains, which may fail between two file writes. An online
transaction first sends an outstanding reversal and the outstanding repeat
(`ReversalAndSAFProcessing`), and after it, or when idle, more of the queue.
What is hard here is therefore not locking but *atomicity over several files,
retries, and state kept twice* (a counter beside the file it counts).

The hazards this exposes the code to are listed, each at its line, in
`PROJECT.json` under `hazards`.

## 2. Modules and plan

Each module is one question about the program, with the detail of everything
else abstracted to what that question can tell apart. They share the vocabulary
of the code (a sale, an advice, a reversal, the host's books) but not their
variables: each is checked on its own, and the paragraph on a module says what
it takes from outside.

| # | Module | Models | State |
|---|---|---|---|
| 1 | `SafQueue`, `AdviceDelivery`, `SafQueue_proofs`, `SafDelivery_proofs` | the queue of offline advices in `saf.c` and its callers; the promise it implements; proofs | done |
| 2 | `Purchase`, `Purchase_proofs` | one integrated sale after another: authorisation, fallback, reversal, receipts, commit, journal, response, restart (`txn.c`, `efb.c`, `reversal.c`, `saf.c`, `power_on.c`, `logon.c`); proofs | done |
| 3 | `Stan`, `Stan_proofs` | the number each message takes, keeps and is recognised by (`msgAS2805.c`, `reversal.c`, `saf.c`, `txn.c`); proofs | done |
| 4 | `Preauth`, `Preauth_proofs` | the table and batch of open pre-authorisations, and the files they are purged through (`saf.c`, `txn.c`); proofs | done |
| 5 | `Logon`, `Logon_proofs` | the logon machine, the file updates it makes, its callers and the restart (`logon.c`, `Main.c`, `msgAS2805.c`, `pceft_commands.c`); proofs | done |
| 6 | `Chip`, `Chip_proofs` | one sale over several reads of a docked card, with kernel, card and host (`emv_cb.c`, `card_read.c`, `txn.c`); proofs | done |
| 7 | `Wallet`, `Wallet_proofs` | the Everyday Pay session and the two files it is spoken through (`Wally.c`, `pceft_commands.c`); proofs | done |
| 8 | `TxnState` | the state table of `txn_state.c` with its loop | not written: `Purchase` and `Chip` follow the states that matter to money |
| 9 | `CardBuffer` | the query buffer of `saf.c` 1657-1930 | not written |
| 10 | `Settlement` | shift totals against the journal | not written |
| 11 | `CardTables` | the table searches of `cpat.c` and `tables.c` against a definition by sets | not written |
| 12 | gift cards | the `QC_*.c` clients, the same way of speaking to an app as `Wallet` | not written |

`MC<Module>` extends a module with what its configurations need (sets of
settings, symmetry). A definition whose name ends in a mutation, and the comment
before it, is a deliberately wrong variant of the definition that follows; it is
used by nothing, and is there to show that a property notices it.

## 3. The modules and the code

### 3.1 `SafQueue`

The batch file is a sequence of records in file order; a record is the advice it
carries and the status bits that matter to the queue. Amounts, PANs, receipts
and the message fields are left out: an advice is a model value, "host approved"
or "declined" is a parameter of the answer.

| Variable | Code |
|---|---|
| `batch` | the EFTSAF batch file; empty stands for no file |
| `saved` | the saftot file; `Missing` between `vim_file_delete` and the write of `save_saf_totals` |
| `totals` | `saf_totals` in RAM: `saf_count`, `saf_print_count`, the not-sent total (in advices), `saf_repeat_pending` |
| `noPrints` | `ss_no_saf_prints` |
| `pc`, `job` | where the thread is, and the parameters and locals of `saf_send` and of `DeleteSafPrints`' loop |
| `originals`, `received`, `accepted`, `discarded`, `totalsLost`, `failures` | ghosts: what has been transmitted, what the host heard, what was stored, what was given up, whether a failure lost part of the totals, and the bound on failures |

| Actions | Code |
|---|---|
| `StoreAdvice`, `CountAdvice`, `SaveAdvice` | `saf_add_record`, cut where a power failure tells its writes apart |
| `StoreReversalPrint` | the print record that `reversal_clear(TRUE)` adds |
| `StartUpload`, `StartRepeat`, `StartClear` | the callers of `saf_send`: idle and TMS uploads; `reversal_send` and `logon_request`; the deletion menu |
| `NothingToSend`, `DropInvalid`, `SelectRecord` | the search of `saf_send_single`, up to the write of the repeat flag |
| `ConnectFails`, `CreateFails`, `Transmit`, `NoAnswer` | `msgAS2805_transaction` as the upload sees it, with the recount it makes after it has transmitted |
| `Answer`, `CountSettled`, `SaveSettled` | the three writes after a success, and the turn of `saf_send`'s loop |
| `Recount`, `PrintsOn`, `PrintsOff`, `PurgePrint`, `PurgeDone`, `PrintOne` | `saf_pending_count` from receipts and menus, SFP 1, SFP 0, `DeleteSafPrints`, `txn_saf_print` |
| `PowerFail`, `Upgrade` | `retrieve_saf_totals` at start-up; the start with another software version |

`AdviceDelivery` knows neither files nor flags: each advice is new, held,
closed or dropped, and may be closed only when the host has heard of it.
`SafQueue` implements it under the refinement mapping `Stage`, `received`.

The places where the thread can be interrupted are the places where a power
failure finds a different disk: between the record and the totals, between the
deletion and the writing of the totals file, between the repeat flag and the
transmission, between the transmission and the answer, and between the answer
and the counters. Steps that write one file and then only RAM are one action.

### 3.2 `Purchase`

| Variable | Code |
|---|---|
| `disk` | what survives: `ss_incomplete` and the saved transaction, the reversal file, the batch, the saftot file, the last POS command (`vim_pceftpos_get_last_cmd`) |
| `txn`, `ret`, `answer` | the transaction in RAM with its error and response code, the result of the receipts, the host's answer |
| `totals`, `revCount`, `feed` | `saf_totals`, `terminal.reversal_count`, `terminal.trickle_feed` |
| `pc`, `job` | where the thread is, and what the upload under way was started for |
| `posted`, `advised`, `told`, `waived` | ghosts: what the host debited by request and by advice, what the POS was told, and by which of the named causes a sale is exempt |

| Actions | Code |
|---|---|
| `BeginSale`, `CancelSale`, `CardDecides` | the command of the POS, up to the decision of the card |
| `Authorise`, `Connect`, `BuildRequest`, `BuildFails`, `Transmit`, `TransmitFails`, `MarkSent`, `AnswerMissed`, `HostApproves`, `HostDeclines`, `IssuerUnavailable`, `RetryAccount`, `RetryPin` | `txn_authorisation_processing` and `msgAS2805_transaction` |
| `ReversalSent`, `ReversalFails`, `ReversalDiscarded`, `SkipReversal`, `SendRepeat`, `SendAdvice` | `ReversalAndSAFProcessing`, `reversal_send`, `saf_send`, for a sale, the idle loop, a logon and a file update |
| `Fallback`, `CardDecidesUnable`, `SecondGenAC`, `CardPulled` | `efb_process_txn`, the second cryptogram, the card pulled at any point of the exchange |
| `Finalise`, `PrintReceipt`, `Signature`, `Commit`, `MarkStored`, `CustomerCopy`, `Journal`, `Close`, `Respond` | `txn_finalisation`, `PrintReceipts`, `txn_commit`, the journal and the response |
| `IdleTick`, `Feed`, `LogonUpload`, `PosStatus`, `PowerFail` | the idle loop, the uploads of `logon_request`, the recount of a status command, the restart with `CompleteTxn` |

The properties compare two books: what the POS was told, and what the host
debited net of the reversal on file and the advices queued. A sale is exempt only
by a member of `Causes`, each of them a line of the code that gives the reversal
up, forgets an error or cannot know better; the exemptions were found by leaving
them out one at a time and reading the counterexample.

Taken from outside: `txn_init` saves the new transaction (`_PHASE4` is not
defined), a transmission that reports an error may have arrived all the same. The
host is a black box that approves, declines with the codes that lead somewhere
different, or is not heard.

### 3.3 `Stan`

`stan` and `stanFile` are `terminal.stan` and its file, `sale`, `pin`,
`reversal`, `queue`, `trickle` the places a number is kept in, `lastRev` the static
`last_reversal_stan`, `seen` the messages the host has got. `SaleStep`,
`UploadStep`, `Logon`, `KeyChange` and `PowerFail` follow `stan_get_next`,
`message_wow_220`, `reversal_set`, `saf_add_record` and the 170 answer, each with
the saves it makes or leaves out. `harm` names the four ways a number can go
astray: taken by a power failure before any file had it, set back by a logon,
past the last number, and a sale for which no number is noted because a repeat
was pending.

### 3.4 `Preauth`

`table` is `preauth_saf_table` in RAM, `tableFile`, `batch` and `temp` the files
patable, pasaf and pa_tempfile.bin. A pre-authorisation is its `roc`; position in
the table stands for position in the batch, as in the code. `StoreRecord`,
`StoreEntry`, `Recall`, `QueueCompletion`, `UpdateEntry`, `Expire`, `DeleteAll`,
the steps of `Purge` and `PowerFail` are cut at every file operation. The loop of the
purge over the table is one step per entry (`SelectEntry`, with its position in `index`),
so that the power may fail, and an entry expire, between any two of them.

### 3.5 `Logon`

`logon`, `last`, `saved` are the two states in RAM and the one in the terminal
file; `kek`, `ses`, `lane` say whether terminal and host agree on keys and on the
terminal id; `file`, `reload`, `setup` are what the file update depends on. `rc` is
`txn.host_rc_asc`, which outlives the message it came with. `Thread` has one
action per outcome of each message of the ladder (191, 192, 193, 101, 170), the
file update, the exits of `logon_request` and what its callers do with them;
`Events` are the POS, the idle timer, another terminal id, the nightly reboot and
a power failure.

### 3.6 `Chip`

One purchase with a docked card that is read up to `MaxDocks` times, and may be
swiped in the end. `Capture` and `Kernel` are what the card and the kernel may do
at each point, `Host` the request with the reversal that goes first, `Process` what
`ProcessCaptureResult` makes of it (again, give up, fallback, cash-out refused, the
limit on reads), `Finalise` and `Over` the end up to the POS. `stands` and `advices`
are the host's books for this sale. Kernel, card, customer and host are external;
receipts, journal and power failures are those of `Purchase`, and a transmission
that fails has not arrived.

### 3.7 `Wallet`

| Variable | Code |
|---|---|
| `req`, `rsp`, `seen` | the request and the answer file, and whether the app has taken the request |
| `app`, `opened`, `shown`, `paid` | the app: what it works on, the session it polls for a scan, for whom each session was opened, the code on the screen, the sales it paid |
| `sess`, `edp`, `query`, `loyalty` | `l_sSessionData`, `TERM_EDP_ACTIVE`, the query under way, `LOYALTY_FILE` |
| `asked`, `pc`, `then` | the request a wait is for, where the thread is, where it goes after a reset |
| `psi`, `given`, `sale`, `told` | what the POS holds and was told |

| Actions | Code |
|---|---|
| `BeginQuery`, `Tap`, `PosEvent`, `Tell` | the J8 of `pceft_commands.c` and `Wally_HandleJ8Session` |
| `StartSession`, `QrReceived`, `QrInvalid`, `QrTimesOut`, `RewardsReceived`, `OtherAnswer`, `RewardsFailed`, `Rotate` | the session state machine |
| `CheckPaymentSession`, `CheckEnds` | the last chance check before the answer to the POS |
| `ResetAnswered`, `ResetTimesOut` | `Wally_SessionFunc_ResetSessionData` with the wait of `Wally_Cancel` or `Wally_DeleteSession` |
| `Pay`, `PayAnswered`, `PayTimesOut`, `FinishSale`, `PayWithCard` | `Wally_DoTransaction` and the response of the sale |
| `RemoveCommand`, `DeleteCommand`, `Deleted` | the two commands about a session |
| `AppTakes`, `AppAnswers`, `AppScans` | external: one request at a time, answered at any time; a scan comes only for the code that is on the screen |

An answer does not say what it answers: every request carries a `MessageId`, but no
reader looks at one. `harm` therefore names the four ways in which an answer can be
another's: the app was still at an earlier request, a Cancel's wait took another
answer and left it in the file, a reset was not answered so that the app may poll on, and
the power failed. Each is needed: without it the run finds a customer who is given
another customer's number. The refused and the unanswered payment are told by their
codes; `reversal_set` does nothing for a wallet payment, so that a receipt that fails
after it ("unprinted") leaves it paid while the POS is told of an error.

Not in the module: failing file writes, the legacy form of the answers, refunds,
the parts of a payment on the receipt, what the PAD data say beyond the session.

## 4. Runs

| Run | Instance | What it shows |
|---|---|---|
| `saf_safety` | three advices (two interchangeable, one with an invalid record), every command, one power failure | types; no original twice; repeats ahead of originals; nothing leaves the upload list unheard; nothing is lost and no counter is short while the totals are whole; the upload's own record is never taken from under it; the batch stays within its limit |
| `saf_delivery` | two advices, one malformed, reversal prints, the deletion menu, software changes, one power failure, with fairness | the queue implements `AdviceDelivery`, and every advice leaves the queue unless lost totals hide it |
| `purchase_safety` | two sales, swiped or docked, room for one advice, a sale no message can be built for, one retry, one power failure, with fairness | no card debited by request and by advice; a declined sale is not debited and an approved one is; so is what a power failure cancelled; the reversal on file is that of the request under way; a reversal leaves |
| `stan_safety` | numbers 1 to 20, starting in the middle or near the end, two sales of two attempts, one logon, one power failure | two messages never share a number; a repeat keeps its own; a reversal names the request it reverses; the PIN block was made under the number sent |
| `preauth_safety` | three pre-authorisations, room for two, one purge from outside, one power failure | an open one can be completed, a completed one cannot, none completes another's |
| `logon_safety` | four settings of the terminal, one change of its id, one power failure | no step of the ladder is skipped, logged on means the host's keys, no sale before it and none under a new id without it |
| `chip_safety` | four docked reads and a swipe, with and without cash and fallback | one request stands at most; told declined charges nothing and told approved charges once; the reads end |
| `wallet_safety` | two queries with code, reader or pass, two sessions, a code renewed, two sales, one power failure | a sale is paid or not as the POS was told; a customer's number is his own; number and session belong together |
| `saf_lost` | two advices, SAF prints, one power failure | **violated** `NoAdviceLost` (section 5) |
| `saf_purge` | two advices, SFP 0 and 1, no power failure | **violated** `PurgeEnds` |
| `purchase_cleared` | three sales, room for three advices, one power failure | **violated** `AdviceTakesNoReversal` |
| `chip_unsent` | two docked reads | **violated** `ApprovedIsSavedOrSent` |

### Bounds

`SafQueue`. Two advices are the fewest that have an order (a repeat ahead of an
original, a record deleted while another waits); the third, invalid one is
skipped and deleted in the middle of a search. `MaxRecords` = 3 records per
batch file leaves room for a reversal print between two advices. `MaxSafs` = 2
makes the batch full with a record to spare. One power failure at any point is
followed by any legal sequence of steps: the code keeps no count of failures,
and a second one meets only states that a first one already could.
`UploadCounts` is one or two advices per call, which separates the last turn of
the loop from the others. `WordMax` = 3 stands for the largest `VIM_SIZE`:
large enough that a counter gets there only by passing zero. `SafLimit` is
counted in advices, off in `saf_safety` and on in the others.

`Purchase`. Two sales are enough for a reversal or an advice of one to meet the
request of the other; with room for one advice the second finds the queue full.
`Unbuildable` = {1} makes the first sale's messages the ones no message can be built
for. One retry sends a second request in a sale. `IsP400` is TRUE in
`purchase_safety`, where it takes a receipt away, and FALSE in `purchase_cleared`. The invariants also hold with
`MaxSafs` = 2 and two power failures. (1.1 million states, depth 57.)
`purchase_cleared` needs three sales: one whose advice waits as a repeat, one whose
reversal is on file, and the upload between.

`Stan`. Two sales with their requests and reversals, their advices, a logon and a power
failure take 22 numbers at most; sixty, from 5 or from 58, are more than twice as many,
with the wrap, and so satisfy the hypotheses of the theorems in 6.6. The 999999 of the code
do so for any history that takes fewer than half a million numbers. (430,000 states.)

`Preauth`. Capacity two with three pre-authorisations fills the table and makes a
purge shift positions; a second power failure meets only files a first can leave.
`MissingDeleteFails` says whether deleting a file that is not there is an error
(a library detail): the run takes TRUE, FALSE passes as well.

`Logon`. The four settings cover every source of the parameter files, both orders of
the states of the logon machine, a live PIN pad and one in test, and a preloaded CPAT
with and without the defect that it cannot be read. One change of
the terminal id, because each starts from whatever state the one before left.
(3.3 million states, depth 79.)

`Chip`. The limit is three docked reads; four shows what happens past it, and a cash
sale, which the limit spares, goes round once more.

`Wallet`. Two customers for one to meet what the other left; two sessions and one
renewal, so that a session can be replaced under a customer or given to the next; two
sales, so that the answer to one can be read as that to the other. (4.3 million
states, depth 61.)

### Symmetry, deadlock

Symmetry is used in `saf_safety` only, between the two ordinary advices; the run
has no temporal property.

Deadlock is checked in `Chip` and `Logon`, which always have a step. Elsewhere it is
not: once the sales, advices, pre-authorisations or queries of the instance are used
up and nothing waits for the host, the terminal really waits for the next command.

### Fairness

`SafQueue`. Weak fairness of the thread's own steps: one thread,
no other that could hold it up. Strong fairness of starting an upload:
`ReversalAndSAFProcessing` comes round at every idle timeout, so it runs again
and again while the terminal is otherwise used. Strong fairness of a transmission
that arrives and of an answer: the property is about a host that is tried again
and again and is not out of reach for ever. Strong fairness of a *journalled*
build failure: it is the idle upload, which journals, that must recur. Nothing is
assumed of commands, of prints or of power returning within a given time.

`Purchase` (`FairSpec`). Weak fairness of the thread (`Terminal`), of the idle timer
and of the feed that follows a command: one thread, nothing else to run. Strong
fairness of `ReversalSent`: the host is tried again and again and is not out of reach
for ever. `ReversalLeaves` says no more than that a reversal, so tried, goes.

The other modules state no fairness: what must eventually happen there is up to a
host, a customer or an app of which the code assumes nothing.

## 5. Where code and comments disagree

With a run that shows it:

1. **An advice can be lost after a power failure** (`saf_lost`, `saf.c:1053`). The
   record is written first and the totals after it. If power fails in between,
   `saf_count` is one short at start-up, nothing recounts it, and when the last
   counted record is printed or sent both counters are zero and
   `saf_delete_record` destroys the batch with the uncounted advice in it.
2. **Purging an odd number of prints never ends** (`saf_purge`,
   `pceft_commands.c:1573`). `saf_delete_record` takes one print off, the loop takes
   off another; from one the unsigned count goes to zero and on to its maximum.
3. **An uploaded advice takes a reversal with it** (`purchase_cleared`,
   `logon.c:474`). The result of `reversal_send` is ignored; the repeat that is
   uploaded next clears the reversal file on success, on the belief (`saf.c:1469`)
   that there can be none.
4. **Approved, neither saved nor sent** (`chip_unsent`, `txn.c:6175`). Clearing an
   earlier reversal fails while a card is docked; the kernel is told of a decline, its
   own result overwrites the error, and the POS reads "00 APPROVED", which is what
   the comment at `txn.c:6208` means to exclude.

Seen in counterexamples while the exemptions were worked out, without a run of their
own:

- `reversal.c:81` refuses a reversal whenever `saf_repeat_pending` is set, "if 0221
  pending" (`reversal.c:83`). The flag stays up after a repeat that cannot be built was
  deleted (`saf.c:1619-1644`): the next sale is then debited with no reversal on
  file though no 0221 waits. (`Purchase`: cause "refused".)
- A declined advice stays in the not-sent total (`saf.c:1523`), and so counts against
  `TERM_SAF_TOTAL_LIMIT` after it has left the queue, contrary to `saf.c:501`. A
  malformed advice is deleted at its first attempt (`saf.c:1623`), because the repeat
  flag its comment speaks of is by then always set.
- `txn.c:7286`: a second receipt that fails after the commit makes a sale declined
  whose advice is stored. (`Purchase`: cause "receipt".)
- `txn.c:7729`: when the POS refuses the journal of a sale without a customer receipt, the
  result of the receipts is put into the transaction's error. After a declined signature
  on a P400, which prints no second receipt (`txn.c:7189`), that result is no error: the
  POS reads "00 APPROVED" of a sale whose reversal is on file.
  (`Purchase`: cause "journal".)
- A power failure after the sale was closed and before the response is told to the POS as
  a cancelled transaction; the sale stands. (cause "late".)
- `saf.c:2133-2141`: a purge empties the pre-authorisation files and leaves the table in
  RAM; positions then differ, a completion marks another's entry, and the
  pre-authorisation can be completed twice, contrary to `txn.c:6566`. A power failure
  inside a purge loses open ones, contrary to `saf.c:107`. (`Preauth`: "stale", "cut".)
- `msgAS2805.c:2410`: an advice's number is stepped over after it was stored with it; a
  power failure after the transmission makes the 0221 go under another number than
  the 0220, contrary to `saf.c:1437`. (`Stan`: "unsaved".)
- `Main.c:1913`: a logon that was not answered is undone to a state that an earlier
  change of the terminal id or refused key set; the terminal takes itself for logged on
  under an id the host has not seen, contrary to `pceft_commands.c:4537`.
  (`Logon`: "rolledback".) `logon.c:206` looks at the code of an earlier message when
  none was answered ("stale"). `logon.c:477` returns without an error when an upload
  before the file update fails ("ignored"). `logon.c:541` saves only at the end, so that a
  power failure forgets a step down the ladder ("unsaved"). A preloaded CPAT that
  cannot be read makes `logon_request` repeat the update for ever (`logon.c:152`).
- `txn.c:2244`: the limit on docked reads is looked at after the third read was carried
  out; `txn.c:6636` and `txn.c:6614`: the advice and the 91 of a read that failed reach into the
  next. (`Chip`: "limit", "wiped", "stale91".)
- `Wally.c:162`: requests carry an id that no answer is matched with; `Wally.c:1048`: a
  Cancel takes whatever answer comes and leaves it in the file, where the last chance
  check (`Wally.c:1000`), which also follows queries without the wallet, takes a rewards
  number it finds for this customer's. (`Wallet`: "late", "stray", "unheard", "cut".)
  `pceft_commands.c:3544` tests a `VIM_ERROR_PTR` as a truth value, so that the POS is not told
  what became of a deletion; `Wally_Cancel` always succeeds, so that a removal without a
  session in RAM is reported as done.

## 6. Proofs

### 6.1 `SafQueue_proofs`, `SafDelivery_proofs`

`SafQueue_proofs` proves, for any sets of advices, limits, counts and bounds that
satisfy `SafAssumption` (types of the constants, nothing else):

- `TypeCorrect`: `Spec => []TypeOK`;
- `OriginalsOnce`: `Spec => []OriginalOnce`, the promise to the host that
  no advice is posted twice;
- `InvHolds`: the inductive invariant both follow from.

`OriginalOnce` alone is not inductive: it says nothing of the file. The
invariant adds three facts. `OneRecordEach`: no advice has two records, so
flagging one flags the advice. `UnflaggedNotSent`: a live record that is not yet
a repeat has not been transmitted. `SelectedFlagged`: between selection and
answer the record in hand carries the repeat flag, and if the message is an 0220
that advice has not been transmitted yet. The first makes the second survive an append, the second gives the
third at selection, the third gives `OriginalOnce` at the transmission. The
proof has one lemma per group of actions (on states, not behaviours) and one
lemma per file operation (`Deleted`, `Destroyed`, `WithStatus`), cited by name.

The other promises follow from two stronger invariants, each on top of the one
before. `AccountInv` gives `SettledAccounted` (`Spec => []SettledIsAccountedFor`);
it adds that an answer is awaited only by a record whose advice the host has
heard of, if it heard at all. `CountInv` (`SafDelivery_proofs`) gives `RepeatAtHead`,
`UploadKeepsRecord`, `NotLost`, `CountCovers` and `WithinLimit`, one for each of the five
remaining invariants of `saf_safety`, so that all of them are proved for every value of
the constants. None is inductive alone: that a record is not lost
rests on the counter not being zero while it waits, that the counter covers the
records rests on where the upload stands, and the limit rests on the counter.
`CountInv` therefore says:

- `Shaped`: a record waits, was sent, or is deleted, one of the three;
- `UploadAtHead`: an upload holds a record that waits and has passed none that waits,
  which makes the one repeat the first record of the queue;
- `Counted`: the counter in RAM is ahead of the records by exactly the step of a store or a
  settlement under way, and the one a restart would read is not short of them but between
  the file write and the save;
- `AllKept`: what was accepted and not answered or given up has a record that waits.

The last two hold while `totalsLost` is false: `saf_lost` shows what happens otherwise.

`SafDelivery_proofs` also proves the refinement: `Implements` states
`NoPrintDeletion => (Spec => DeliverySpec)` with the mapping of `SafQueue`, step by step.
`NoPrintDeletion` excludes the two commands that delete prints (SAF print and
SFP 0): both empty the batch when the counters say that nothing is left, which after a
power failure that took a count they may say too early, so that an accepted advice is lost
that `AdviceDelivery` keeps. This is the divergence `saf_lost` shows; the instance
of `saf_delivery` leaves the same two commands out. The counts an upload starts from are then
always fresh, because `Transmit` recounts them (`RefInv`).

### 6.2 `Chip_proofs`

For every number of reads (`ChipAssumption`: `MaxDocks` is a natural number):

- `TypeCorrect`: `Spec => []TypeOK`;
- `RequestStandsOnce`: `Spec => []OneRequestStands`;
- `ReadsAreBounded`: `Spec => []ReadsEnd`;
- `DeclinedIsFree`: `Spec => []DeclinedNotCharged`;
- `ApprovedIsChargedOnce`: `Spec => []ApprovedChargesOnce`;
- `InvHolds`: the inductive invariant they follow from.

The first three follow from `IInv`: `Budget` (requests are numbered by the reads, so
a new request has a new number, and there is no advice before the end), `Standing`
(what stands at the host is the last request, and its reversal is on file until the
card accepted the approval) and `Bounded` (a sale without cash is past no limit). The
two that compare the POS with the host need to know, at every stage, what the stages
before have left: `Books` has one conjunct per stage (`AtHost`, `AtSecond`,
`AtResult`, `AtFinal`, `AtOver`), each saying which error, code, reversal and advice
flag may come together there. The proof has one lemma per group of actions and
invariant, and lemmas for the reversal file (it holds one request) and for the
fields a transaction keeps through finalisation.

### 6.3 `Wallet_proofs`

For any number of queries, sessions, renewals, sales and power failures
(`WalletAssumption`: the bounds are natural numbers), every invariant of `Wallet`:

- `ToldAsPaid`: `Spec => []PaidAsTold`;
- `RewardsStayOwn`: `Spec => []RewardsAreOwn`;
- `ScannedIsGiven`: `Spec => []ScannedSessionGiven`;
- `TypeCorrect`: `Spec => []TypeOK`;
- `Invariant`, `RInvariant`: the inductive `WInv` and, on top of it, `RInv`.

`PaidAsTold` speaks of a sale after it was told; what makes it true happens
before, in two files anything may have been left in. `WInv` has one
half that holds always (`Shaped`, `Numbered`, `Placed`, `Begun`: sessions are numbered in
order, only sales that began are asked for) and one that holds while no answer can be
another's: `Unscanned` (outside the poll of a session no code on the screen is
polled for, so no scan can take the place of a payment's answer), `Paying`
(the answer in the file is the one to this payment), `Kept` (the code kept for the
receipt is what the wallet did) and `Closed` (a sale that was decided is not asked for
any more). One lemma per action or group of like actions.

The other two look at the moment of the answer to a query; `RInv` says what the way there
has left behind, in three parts that hold under different exceptions.

- `Typed`, always: sessions that are named are open, and a query that is served has a
  number. `ScannedSessionGiven` needs it, because a session that is opened must not
  be one that was given before.
- `Scanned`, while no request was written over another: in the poll of a session
  whatever is asked for, worked on, answered or on the screen is for this query
  (`ForThisCustomer`), and the app polls the session on the screen or the one it has just
  opened (`InTurn`); and where the wallet is on, a query cannot reach the last chance
  check. That a power failure, a reset not answered or a misread answer does no
  harm here is due to the request that opens a session: it clears the answer file.
- `Own`, while there was no harm at all: outside the poll no rewards number lies in the
  answer file, which the last chance check would take for this customer's. It rests on
  `Unscanned`.

### 6.4 `Logon_proofs`

For any of the settings and any number of terminal ids and power failures
(`LogonAssumption`), every invariant of `Logon`:

- `TypeCorrect`: `Spec => []TypeOK`;
- `LadderClimbed`: `Spec => []LadderFirst`;
- `KeysAgree`: `Spec => []LoggedOnInSession`;
- `LoggedOnBeforeSale`: `Spec => []SaleWhenLoggedOn`;
- `AnsweredBeforeSale`: `Spec => []SaleInItsLane`;
- `Invariant`: the inductive `LInv` they follow from.

`LoggedOnInSession` looks at an idle terminal and the two about a sale at the moment of
the request; neither says what the logon on the way there may be. `LInv` adds: session
keys are made under the key encryption key (`UnderKek`), so that a step down the ladder
takes both; the session is in step with the host also while the files are being
fetched (`InSession`, `InLane`); and, per stage of the thread, which state goes with
which message, result and source of files (`AtStage`). The part of each handler that many
share (`Continue`, `Updated`, `Process`) has a lemma of its own, each action one lemma.

### 6.5 `Purchase_proofs`

For any number of sales, retries and power failures, any limit of the queue, any set of
sales no message can be built for, and both kinds of printer (`PurchaseAssumption`), every
invariant of `Purchase`:

- `TypeCorrect`: `Spec => []TypeOK`;
- `DebitsOnce`: `Spec => []NoDoubleDebit`;
- `DeclinesHold`: `Spec => []DeclinedNotCharged`;
- `ApprovalsHold`: `Spec => []ApprovedStands`;
- `PowerFailCancels`: `Spec => []CancelledByPowerFail`;
- `ReversalKept`: `Spec => []ReversalIsOwn`;
- `Invariance`: the inductive `PInv` they follow from.

The properties speak of a sale after the POS was told of it. Nothing a later sale does may
undo them, and what the sale itself does must have led there. `PInv` has a part for each:

- `Known`, what is there at all: the saved sale, the one in RAM and the one started are
  the same while a sale runs (`Current`); nothing is known of a sale that has not begun
  (`Begun`); a sale has at most one advice, and none before its commit (`Single`); no count
  is above the advices there can be (`Bounded`), so that `saf_totals` stays in its type;
- `Books`, the four properties of every sale, strengthened where they are not inductive:
  a sale that is debited and whose advice waits has its reversal on file (`Once`), and its
  advice is not transmitted while it is (`saf_send` is called once the reversal has gone);
- `Staged`, what the stages of the running sale have left behind. `Before` and `Requested`
  carry the reversal through the exchange; `Outcome` says that past it a sale is either
  approved online or its debit is covered by its reversal; `Resulted` says which error, code
  and advice flag come together; `Held`, `Printed` and `Agreed` carry that through the
  commit, both receipts and the journal to the response.

A step of a sale leaves the books of every other alone (`FrameBooks`), a step of an upload
leaves the stage of the sale alone (`UploadBooks`, `AdviceFrame`), and the two places that
touch both have lemmas of their own: the commit that stores an advice (`CommitStores`) and
the restart (`DebitIsKnown`, `PowerFailStep`). Every other action has one lemma.

### 6.6 `Stan_proofs`

For any first and last number and any number of transactions, attempts, logons and power
failures (`StanAssumption`):

- `TypeCorrect`: `Spec => []TypeOK`;
- `RepeatsRecognised`: `Spec => []RepeatKeepsStan`;
- `PinsDecrypt`: `Spec => []PinUnderItsStan`;
- `OriginalsNamed`: `AttemptsFit => (Spec => []ReversalNamesItsSale)`;
- `NumbersUnique`: `NumbersSuffice => (Spec => []StanUnique)`;
- `Invariance`: the inductive `SInv` the first three follow from, `OInv` and `UInv`, built
  on it, for the other two.

`SInv` says that a transaction has a number of its own and one advice at most (`Numbered`);
that at most one advice waits as a repeat, the one an upload is busy with (`Busy`); that
every message the host has of an advice that waits carries the number in the record, or in
`txn_trickle` between the transmission and the write (`Recognised`); and that the counter
stands still between the PIN and the request (`PinKept`). `Room` is what the type of the
counter needs: the code lets it pass six digits when an advice finds no connection, and
does so once for an advice, because the next one is not taken before the repeat has gone.
Steps that leave the batch alone share one lemma (`FrameBooks`), the two ways an upload
ends another two (`UploadAnswered`, `UploadStays`).

Numbers come round after `MaxStan` of them, so the last two need room. `AttemptsFit` asks
for four numbers to every attempt a transaction may have: a later request must be told
from an earlier one over the wrap, which `AtOrAfter` can over half of the numbers, and an
attempt takes two. Nothing is asked of the number of transactions, logons or failures. `OInv` adds to
`SInv` who can have been heard of (`Begun`) and, for each reversal that is on file or has
been heard, that its original is the last number of its transaction the host may have
(`Latest`, `Followed`).

`NumbersSuffice` asks that twice what all transactions, advices, logons and power failures
together can take (`Total`) fit, and is needed for the whole history: the host of the model
forgets nothing. Half, because a logon compares the number of the host with the terminal's over half of the
numbers (`LogonUnique`). `UInv` keeps account of what has been given out: every number the host has heard is
one of the last `Spent` before the counter, where `Reserve` sets apart what the transaction
under way may still take. What may reach the host later (the request being transmitted, the
reversal on file, the repeat of an advice) has a number as new as any the host has heard,
and no other message has it (`Waiting`); one such message at most is under way
(`Exclusive`). `CounterMoves` carries this over a step of the counter, `MovesKeep` over a
step that gives a number to a message, `HearsKeep` over a message the host hears.

### 6.7 `Preauth_proofs`

For any capacity, any number of pre-authorisations, completions, purges and power
failures, and for both answers of the library to the deletion of a file that is not
there (`PreauthAssumption`), every invariant of `Preauth` and its action property:

- `TypeCorrect`: `Spec => []TypeOK`;
- `CompletesOwn`: `Spec => CompletesItsOwn`;
- `OpenStaysCompletable`: `Spec => []StaysCompletable`;
- `CompletedStaysClosed`: `Spec => []CompletedIsClosed`;
- `Invariance`: the inductive `PInv` they follow from.

Two of them speak of an idle terminal; a purge takes the files apart and puts them
together again, so `PInv` says at every step of it where an open record is.

- `Always`, also after harm: what is on file was approved (`Approved`), and a completion
  holds the position of its own record (`Current`), from which `CompletesOwn` follows.
- `Unharmed`, while `harm` is empty: `Ordered`, records stand in the order of their
  approval, so that a record has one position; `Closed`, the entry of a completed
  record is out but for the one about to be marked, so that none is completed twice;
  `InStep`, table, its file and the batch agree position by position, or differ in
  the way the step of the purge says; `Held`, an open record is in the files until
  they are dropped and from then on in the temporary one, or behind the position
  the purge has come to.

`Held` at the end of the loop is what `StaysCompletable` needs. With the loop one step per
entry, it is carried through the loop as any other invariant, and no property of
`SelectSeq` has to be proved by induction over sequences.

### 6.8 What TLC alone checks

Every invariant and every safety action property a run checks is a theorem, two of them under
the hypotheses of 6.6. What is left is under fairness (`QueueDrains`,
`ReversalLeaves`), and that, with `ENABLED`, is out of the prover's reach. No module a
theorem is about uses recursion.

## 7. What is not modelled

`SafQueue`: pre-authorisations that are pending when the software changes; the reset
of the print count in `DeleteSafPrints` for standalone terminals and when it exceeds
`MAX_BATCH_SIZE`; zero-amount and refund advices, which move the not-sent total
differently; the SDA paths, which no caller reaches; the window in which a new batch
file has no header yet, or an old one a record that its header does not count.

`Purchase`: training mode, gift cards, balances, standalone receipts, keyed entry, the
repeat flag of a 0421, the second receive after a number that does not match, the
operator's clearing of a reversal. `Chip`: contactless, partial EMV, completions,
New Zealand. `Preauth`: voids, and the search by authorisation number alone.
`Logon`: key derivation and message formats; check values of the 101, which the code
does not compare. `Wallet`: see 3.7.

Whole components, in `PROJECT.json` with the reason: card buffer, standalone mode,
drivers, settlement, card tables, gift cards, display, menus, utilities.

Most of the repository's lines (some 88,000) are of that kind: display, GUI and menu
code, drivers around the vendor's libraries, receipts, message packing, parameter
parsing, the JSON library. They keep no state on which the promises above depend, and a
module for them would repeat assignments. The modules follow the control of what does:
the life of a sale, its message numbers, its reversal, its advice, the keys it needs
and the two ways of paying. That is about a tenth of the lines, and the map of
`PROJECT.json` names them.
