---------------------------- MODULE Purchase_proofs ----------------------------
(***************************************************************************)
(* Theorems about Purchase, for any number of sales, retries and power     *)
(* failures, any size of the queue, any set of advices that cannot be      *)
(* built, and both printers: what the POS is told of a sale is what its    *)
(* card was debited for.                                                   *)
(***************************************************************************)
EXTENDS Purchase, FiniteSetTheorems, TLAPS

UploadPCs == {"reversal", "repeat"}
BeforePCs == {"start", "connect", "reversal", "repeat", "build"}
RequestPCs == {"transmit", "sent", "await"}
ResultPCs == {"efb", "unable", "second", "final", "receipt", "commit"}
StoredPCs == {"stored", "copy", "journal", "close", "exit"}

InSale == job = "sale" /\ pc # "idle"
Refused(s) == "refused" \in waived[s]
Reversed(s) == disk.reversal = s \/ GivenUp(s)

\* the sales an advice may have been stored for
Closed == IF InSale /\ pc \notin StoredPCs THEN started - 1 ELSE started

-----------------------------------------------------------------------------
(* Where the thread is, and what no sale has yet to do with. *)

Placed ==
    /\ pc \notin UploadPCs \cup {"idle", "advice"} => job = "sale"
    /\ pc = "advice" => job = "feed" /\ disk.reversal = None
    /\ pc = "repeat" /\ job # "files" => disk.reversal = None
    /\ pc = "build" => disk.reversal = None
    /\ pc \in {"unable", "second"} => txn.card = "docked"

Current ==
    /\ InSale => /\ started \in Sales /\ txn.sale = started /\ disk.sale = started
                 /\ disk.pending /\ told[started] = "nothing"
                 /\ pc \notin {"journal", "close", "exit"} => ~ret
    /\ ~InSale => ~disk.pending
    /\ ~InSale /\ disk.incomplete /\ disk.sale # None => told[disk.sale] = "power fail"

Begun ==
    /\ disk.sale <= started /\ disk.reversal <= started
    /\ \A s \in Sales : s \in posted => s <= started
    /\ \A s \in Sales : s \in advised => s <= Closed
    /\ \A s \in Sales : s > started => told[s] = "nothing" /\ waived[s] = {}

\* at most one advice of a sale, and none of the current one before it is stored
Single ==
    /\ \A a \in disk.queue : a.sale <= Closed
    /\ \A a, b \in disk.queue : a.sale = b.sale => a = b
    /\ InSale => started \notin advised
    /\ \A a \in disk.queue : InSale /\ a.sale = started => ~a.repeat

\* no count is above the number of advices there can be
Bounded == totals.count <= Closed /\ disk.totals.count <= Closed

Known == TypeOK /\ Placed /\ Current /\ Begun /\ Single /\ Bounded

-----------------------------------------------------------------------------
(* The books of the host against the files, for every sale. *)

Once ==
    \A s \in Sales : s \in posted =>
        /\ Queued(s) => Reversed(s)
        /\ s \in advised => GivenUp(s)
        /\ \A a \in disk.queue : a.sale = s /\ a.debit /\ a.repeat => GivenUp(s)

Declined ==
    \A s \in Sales : told[s] = "declined" =>
        /\ s \in posted => Reversed(s)
        /\ s \in advised \/ Queued(s) => "receipt" \in waived[s]

Approved ==
    \A s \in Sales : told[s] = "approved" =>
        \/ s \in posted /\ disk.reversal # s
        \/ s \in advised \/ Queued(s)
        \/ waived[s] \cap {"discarded", "unsent", "journal"} # {}

Cancelled ==
    \A s \in Sales : told[s] = "power fail" =>
        \/ "late" \in waived[s]
        \/ (s \in posted => Reversed(s)) /\ s \notin advised /\ ~Queued(s)

-----------------------------------------------------------------------------
(* The current sale, stage by stage. *)

Online(t) == t.error = "none" /\ t.rc \in Approvals /\ ~t.needs

\* before the request leaves the host has nothing
Before ==
    InSale /\ pc \in BeforePCs =>
        /\ txn.sale \notin posted /\ ~txn.needs /\ ~txn.was91
        /\ txn.rc \in {"none", "52", "55"} /\ txn.error \in {"none", "erc"}
        /\ pc = "build" => txn.error = "none"

\* while it is under way its reversal is in place
Requested ==
    pc \in RequestPCs =>
        /\ disk.reversal = txn.sale \/ (disk.reversal = None /\ Refused(txn.sale))
        /\ ~txn.was91 /\ (pc # "await" => txn.error = "none")
        /\ ~txn.needs /\ txn.rc \in {"none", "52", "55"}
        /\ pc = "transmit" => txn.sale \notin posted
        /\ pc \in {"sent", "await"} => (txn.sale \in posted <=> answer \in Approvals)
        /\ pc = "await" => disk.sent /\ txn.sent

\* then it is approved online, or no debit is without its reversal
Outcome ==
    pc \in ResultPCs =>
        /\ IF Online(txn)
           THEN txn.sale \in posted /\ disk.reversal = None /\ txn.sent /\ disk.sent
           ELSE txn.sale \in posted => Reversed(txn.sale)
        /\ txn.sale \in posted => disk.reversal \in {None, txn.sale}
        /\ pc = "unable" => ~Online(txn)

\* what the result, its advice flag and its stage may be together
Resulted ==
    pc \in ResultPCs =>
        /\ txn.was91 => txn.sale \notin posted /\ disk.reversal \in {None, txn.sale}
        /\ txn.error = "efb" => txn.needs /\ txn.rc = "08"
        /\ txn.needs => \/ IsApproved(txn)
                        \/ txn.error = "card" /\ txn.rc = "Z1"
                        \/ txn.error = "removed"
        /\ pc = "efb" => ~txn.needs /\ txn.error \in {"none", "comms"}
                         /\ (txn.error = "none" => txn.rc = "91")
                         /\ (txn.rc = "91" => txn.was91)
        /\ pc = "second" => ~txn.needs
        /\ txn.error = "erc" /\ txn.rc = "55" => txn.sale \notin posted /\ ~txn.was91
        /\ pc = "commit" => txn.printed \/ txn.signed

\* a debit at the host stands with the saved sale, or its reversal is there
Held ==
    pc \in StoredPCs =>
        \/ txn.sale \in posted => Reversed(txn.sale)
        \/ disk.reversal = None /\ disk.sent /\ txn.sent /\ ~(pc = "exit" /\ ret)

\* the receipts that can be out at a stage
Printed ==
    /\ pc \in {"stored", "copy"} => txn.printed \/ txn.signed
    /\ pc \in {"stored", "copy", "journal"} /\ txn.error = "signature" => ~Queued(txn.sale)
    /\ pc = "journal" /\ ~ret /\ ~txn.printed => txn.error = "signature"
    /\ pc = "exit" => ~ret \/ txn.error = "print"

\* and what the POS will be told agrees with the books
Agreed ==
    pc \in StoredPCs =>
        /\ ret => (Queued(txn.sale) => "receipt" \in waived[txn.sale])
        /\ ~ret /\ IsApproved(txn) =>
              \/ txn.sale \in posted /\ disk.reversal # txn.sale
              \/ Queued(txn.sale)
              \/ waived[txn.sale] \cap {"discarded", "unsent", "journal"} # {}
        /\ ~ret /\ ~IsApproved(txn) =>
              /\ txn.sale \in posted => Reversed(txn.sale)
              /\ Queued(txn.sale) => "receipt" \in waived[txn.sale]

Staged == Before /\ Requested /\ Outcome /\ Resulted /\ Held /\ Printed /\ Agreed
Books == Once /\ Declined /\ Approved /\ Cancelled
PInv == Known /\ Books /\ Staged

-----------------------------------------------------------------------------
(* Parts of actions. *)

LEMMA SaleIsSome == \A s \in Sales : s # None
BY DEF Sales, None

LEMMA GivenUpStays ==
    ASSUME NEW s, waived[s] \subseteq waived'[s], GivenUp(s) PROVE GivenUp(s)'
BY DEF GivenUp

LEMMA SetTyped ==
    ASSUME NEW d \in Disks, NEW s \in Sales
    PROVE  /\ ReversalSet(d, s) \in Disks
           /\ ReversalSet(d, s).reversal = IF totals.repeat \/ d.reversal # None THEN d.reversal ELSE s
           /\ ReversalSet(d, s).sale = d.sale /\ ReversalSet(d, s).sent = d.sent
           /\ ReversalSet(d, s).incomplete = d.incomplete /\ ReversalSet(d, s).pending = d.pending
           /\ ReversalSet(d, s).queue = d.queue /\ ReversalSet(d, s).totals = d.totals
BY DEF ReversalSet, Disks

LEMMA ErrorTyped ==
    ASSUME txn \in Txns, NEW e \in Errors, NEW t, t = [txn EXCEPT !.error = e]
    PROVE  t \in Txns /\ t.sale = txn.sale /\ t.card = txn.card
BY DEF Txns

LEMMA CodesTyped ==
    /\ "none" \in Errors /\ "comms" \in Errors /\ "system" \in Errors
    /\ "removed" \in Errors /\ "card" \in Errors
    /\ "none" \in Codes /\ "00" \in Codes /\ "Z" \in Codes /\ Verdicts \subseteq Codes
BY DEF Errors, Codes, Verdicts

LEMMA SavedTyped ==
    ASSUME txn \in Txns, NEW d \in Disks
    PROVE  /\ Saved(d) \in Disks /\ Saved(d).sale = txn.sale /\ Saved(d).sent = txn.sent
           /\ Saved(d).reversal = d.reversal
           /\ Saved(d).incomplete = d.incomplete /\ Saved(d).pending = d.pending
           /\ Saved(d).queue = d.queue /\ Saved(d).totals = d.totals
BY DEF Saved, Disks, Txns

LEMMA WaiveEffect ==
    ASSUME waived \in [Sales -> SUBSET Causes], NEW s, NEW c \in Causes, NEW test,
           test => s \in Sales, WaiveIf(test, s, c)
    PROVE  /\ waived' \in [Sales -> SUBSET Causes]
           /\ \A r \in Sales : waived[r] \subseteq waived'[r] /\ (r # s => waived'[r] = waived[r])
           /\ test => c \in waived'[s]
BY DEF WaiveIf, Waive

\* what a step of the sale leaves alone
SaleFrame ==
    /\ InSale /\ job' = "sale" /\ pc' # "idle"
    /\ totals' = totals /\ advised' = advised /\ told' = told /\ started' = started
    /\ disk'.queue = disk.queue /\ disk'.totals = disk.totals
    /\ disk'.pending = disk.pending /\ disk'.sale = disk.sale
    /\ txn'.sale = txn.sale
    /\ posted' \in {posted, posted \cup {txn.sale}}
    /\ \A s \in Sales : waived[s] \subseteq waived'[s] /\ (s # txn.sale => waived'[s] = waived[s])
    /\ \/ disk'.reversal = disk.reversal
       \/ {disk.reversal, disk'.reversal} \subseteq {None, txn.sale}
    /\ pc \in StoredPCs => pc' \in StoredPCs

\* a sale is told of at its end, and until then it has no advice at the host
LEMMA FrameBooks ==
    ASSUME PInv, SaleFrame, Queued(txn.sale) /\ txn.sale \in posted' => Reversed(txn.sale)'
    PROVE  Books' /\ Begun' /\ Single' /\ Bounded'
<1>0. InSale /\ txn.sale = started /\ started \in Sales /\ told[started] = "nothing" /\ started \notin advised
    BY DEF PInv, Known, Current, Single, SaleFrame
<1>1. \A s \in Sales : Queued(s)' <=> Queued(s)
    BY DEF Queued, SaleFrame
<1>2. \A s \in Sales : GivenUp(s) => GivenUp(s)'
    BY GivenUpStays DEF SaleFrame
<1>3. \A s \in Sales \ {txn.sale} : (s \in posted' <=> s \in posted) /\ waived'[s] = waived[s]
    BY DEF SaleFrame
<1>4. \A s \in Sales \ {txn.sale} : Reversed(s) => Reversed(s)'
    BY <1>2, <1>0 DEF Reversed, SaleFrame, None, Sales
<1>5. Once'
    <2> SUFFICES ASSUME NEW s \in Sales, s \in posted'
                 PROVE  /\ Queued(s)' => Reversed(s)'
                        /\ s \in advised' => GivenUp(s)'
                        /\ \A a \in disk'.queue : a.sale = s /\ a.debit /\ a.repeat => GivenUp(s)'
        BY DEF Once
    <2>1. CASE s = txn.sale
        BY <2>1, <1>0, <1>1 DEF PInv, Known, Single, SaleFrame
    <2>2. CASE s # txn.sale
        BY <2>2, <1>1, <1>2, <1>3, <1>4 DEF PInv, Books, Once, SaleFrame
    <2> QED BY <2>1, <2>2
<1>6. Declined'
    BY <1>0, <1>1, <1>3, <1>4 DEF PInv, Books, Declined, SaleFrame
<1>7. Approved'
    <2> SUFFICES ASSUME NEW s \in Sales, told[s] = "approved"
                 PROVE  \/ s \in posted' /\ disk'.reversal # s
                        \/ s \in advised \/ Queued(s)
                        \/ waived'[s] \cap {"discarded", "unsent", "journal"} # {}
        BY <1>1 DEF Approved, SaleFrame
    <2>1. s # txn.sale
        BY <1>0
    <2>2. disk'.reversal = s => disk.reversal = s
        BY <2>1 DEF SaleFrame, None, Sales
    <2> QED BY <2>1, <2>2, <1>3 DEF PInv, Books, Approved
<1>8. Cancelled'
    BY <1>0, <1>1, <1>3, <1>4 DEF PInv, Books, Cancelled, SaleFrame
<1>9. started - 1 <= Closed /\ Closed <= Closed' /\ Closed' <= started /\ started \in 1 .. MaxSales /\ Closed' \in Int
    BY <1>0, PurchaseAssumption DEF SaleFrame, Closed, InSale, Sales
<1>10. Begun'
    <2>1. disk'.sale <= started' /\ disk'.reversal <= started'
        BY <1>0, <1>9 DEF PInv, Known, Begun, SaleFrame, None
    <2>2. \A s \in Sales : s \in posted' => s <= started'
        BY <1>0, <1>3, <1>9 DEF PInv, Known, Begun, SaleFrame
    <2>3. \A s \in Sales : s \in advised' => s <= Closed'
        BY <1>9 DEF PInv, Known, Begun, SaleFrame, Closed, Sales
    <2>4. \A s \in Sales : s > started' => told'[s] = "nothing" /\ waived'[s] = {}
        <3> SUFFICES ASSUME NEW s \in Sales, s > started
                     PROVE  told[s] = "nothing" /\ waived'[s] = {}
            BY DEF SaleFrame
        <3>1. s # txn.sale
            BY <1>0, <1>9
        <3> QED BY <3>1, <1>3 DEF PInv, Known, Begun
    <2> QED BY <2>1, <2>2, <2>3, <2>4 DEF Begun
<1>11. Single' /\ Bounded'
    <2>1. disk.queue \subseteq Advices /\ totals \in Totals /\ disk.totals \in Totals
        BY DEF PInv, Known, TypeOK, Disks
    <2>2. \A a \in disk.queue : a.sale <= Closed'
        BY <2>1, <1>9 DEF PInv, Known, Single, Advices, Sales, Closed
    <2>3. totals.count <= Closed' /\ disk.totals.count <= Closed'
        BY <2>1, <1>9 DEF PInv, Known, Bounded, Totals, Closed
    <2>4. InSale' => InSale /\ started' \notin advised'
        BY <1>0 DEF SaleFrame
    <2> QED BY <2>2, <2>3, <2>4, <1>0 DEF PInv, Known, Single, Bounded, SaleFrame
<1> QED BY <1>5, <1>6, <1>7, <1>8, <1>10, <1>11 DEF Books

\* reversal_set for the current sale: afterwards its debit has a reversal
LEMMA SetEffect ==
    ASSUME PInv, InSale, SetReversal, txn'.sale = txn.sale
    PROVE  /\ disk' = ReversalSet(disk, txn.sale) /\ disk' \in Disks
           /\ waived' \in [Sales -> SUBSET Causes]
           /\ \A s \in Sales : waived[s] \subseteq waived'[s] /\ (s # txn.sale => waived'[s] = waived[s])
           /\ disk.reversal \in {None, txn.sale} => Reversed(txn.sale)'
           /\ Reversed(txn.sale) => Reversed(txn.sale)'
<1>1. txn.sale = started /\ started \in Sales /\ disk \in Disks /\ waived \in [Sales -> SUBSET Causes]
    BY DEF PInv, Known, Current, TypeOK
<1>2. disk' = ReversalSet(disk, txn.sale) /\ disk' \in Disks
    BY <1>1, SetTyped DEF SetReversal
<1>3. /\ waived' \in [Sales -> SUBSET Causes]
      /\ \A s \in Sales : waived[s] \subseteq waived'[s] /\ (s # txn.sale => waived'[s] = waived[s])
    BY <1>1 DEF SetReversal, WaiveIf, Waive, Causes
<1>4. disk.reversal \in {None, txn.sale} => Reversed(txn.sale)'
    <2>1. CASE disk.reversal = txn.sale
        BY <2>1, <1>1, <1>2, SetTyped DEF Reversed, None, Sales
    <2>2. CASE disk.reversal = None /\ ~totals.repeat
        BY <2>2, <1>1, <1>2, SetTyped DEF Reversed
    <2>3. CASE disk.reversal = None /\ totals.repeat
        <3>1. waived' = [waived EXCEPT ![txn.sale] = @ \cup {"refused"}]
            BY <2>3 DEF SetReversal, WaiveIf, Waive, SetIsRefused
        <3>2. "refused" \in waived'[txn.sale]
            BY <3>1, <1>1
        <3> QED BY <3>2 DEF Reversed, GivenUp
    <2> QED BY <2>1, <2>2, <2>3 DEF SetReversal
<1>5. Reversed(txn.sale) => Reversed(txn.sale)'
    <2>1. GivenUp(txn.sale) => GivenUp(txn.sale)'
        BY <1>1, <1>3, GivenUpStays
    <2> QED BY <2>1, <1>1, <1>4 DEF Reversed
<1> QED BY <1>2, <1>3, <1>4, <1>5

\* before its end a sale has no advice, and its receipts did not fail
LEMMA NotYet ==
    ASSUME PInv, InSale, pc \notin StoredPCs
    PROVE  ~Queued(txn.sale) /\ txn.sale \notin advised /\ ~ret
<1>1. txn.sale = started /\ started \in 1 .. MaxSales /\ started \notin advised /\ ~ret
    BY DEF PInv, Known, Current, Single, Sales, StoredPCs
<1>2. \A a \in disk.queue : a.sale <= started - 1
    BY DEF PInv, Known, Single, Closed
<1>3. \A a \in disk.queue : a.sale # started
    BY <1>1, <1>2, PurchaseAssumption
<1> QED BY <1>1, <1>3 DEF Queued

\* what a sale gave up stays given up
LEMMA ReversedStays ==
    ASSUME NEW s, waived[s] \subseteq waived'[s], Reversed(s),
           disk.reversal = s => disk'.reversal = s
    PROVE  Reversed(s)'
BY GivenUpStays DEF Reversed

\* a result that is not an approval online leaves no debit without its reversal
LEMMA Undecided ==
    ASSUME txn'.sale = txn.sale, ~Online(txn'),
           txn.sale \in posted' => Reversed(txn.sale)' /\ disk'.reversal \in {None, txn.sale}
    PROVE  Outcome'
BY DEF Outcome

LEMMA CancelSaleStep == ASSUME PInv, CancelSale PROVE PInv'
<1> USE DEF CancelSale, Goto, ram, books, counters
<1>1. /\ InSale /\ txn.sale = started /\ disk.sale = started /\ started \in Sales
      /\ TypeOK /\ disk \in Disks /\ txn \in Txns /\ waived \in [Sales -> SUBSET Causes]
      /\ pc \notin StoredPCs => ~Queued(txn.sale) /\ txn.sale \notin advised /\ ~ret
    BY NotYet DEF PInv, Known, Current, Placed, InSale, UploadPCs, TypeOK
<1>2. txn' \in Txns /\ txn'.sale = txn.sale /\ txn'.card = txn.card
    BY <1>1 DEF TypeOK, Txns, Errors, Codes, Verdicts, Approvals
<1>3. disk' \in Disks
    BY <1>1, <1>2 DEF TypeOK, Disks, None
<1>4. SaleFrame
    BY <1>1, <1>2 DEF SaleFrame, InSale, TypeOK, Disks, BeforePCs, RequestPCs, ResultPCs, StoredPCs, UploadPCs, PInv, Placed, Known, Staged, Before, Requested, Outcome, Resulted
<1>5. TypeOK'
    BY <1>1, <1>2, <1>3, PurchaseAssumption DEF TypeOK, PCs, Jobs, Causes, Verdicts
<1>6. Placed' /\ Current'
    BY <1>1, <1>2, <1>4 DEF PInv, Known, Placed, Current, InSale, SaleFrame, BeforePCs, RequestPCs, ResultPCs, StoredPCs, UploadPCs, RequiresSignature
<1>7. Queued(txn.sale) /\ txn.sale \in posted' => Reversed(txn.sale)'
    BY <1>1, <1>2, <1>4, ReversedStays DEF SaleFrame, PInv, Books, Once, BeforePCs, RequestPCs, ResultPCs, StoredPCs, UploadPCs
<1>8. Before'
    BY <1>1, <1>2 DEF PInv, Staged, Before, BeforePCs, RequestPCs, ResultPCs, StoredPCs, UploadPCs, Approvals, Txns
<1>9. Requested'
    BY <1>1, <1>2, <1>4 DEF PInv, Staged, Requested, BeforePCs, RequestPCs, ResultPCs, StoredPCs, UploadPCs, Approvals
<1>10. Outcome'
    BY <1>1, <1>2, <1>4 DEF PInv, Staged, Outcome, Online, BeforePCs, RequestPCs, ResultPCs, StoredPCs, UploadPCs, Approvals
<1>11. Resulted'
    BY <1>1, <1>2, <1>4 DEF PInv, Staged, Resulted, IsApproved, BeforePCs, RequestPCs, ResultPCs, StoredPCs, UploadPCs, Approvals
<1>12. Held'
    BY <1>1, <1>2 DEF PInv, Staged, Before, BeforePCs, Held
<1>13. Printed'
    BY <1>1, <1>2, <1>4 DEF PInv, Staged, Printed, Resulted, BeforePCs, RequestPCs, ResultPCs, StoredPCs, UploadPCs, Approvals
<1>14. Agreed'
    <2>1. txn.sale \notin posted /\ ~Queued(txn.sale)' /\ ~ret'
        BY <1>1, <1>2, <1>4 DEF PInv, Staged, Before, BeforePCs, SaleFrame, Queued, StoredPCs
    <2>2. ~IsApproved(txn')
        BY <1>1 DEF IsApproved, Txns
    <2> QED BY <2>1, <2>2, <1>2, <1>4 DEF Agreed, SaleFrame
<1> QED BY <1>4, <1>5, <1>6, <1>7, <1>8, <1>9, <1>10, <1>11, <1>12, <1>13, <1>14, FrameBooks DEF PInv, Known, Staged

LEMMA CardDecidesStep == ASSUME PInv, CardDecides PROVE PInv'
<1> USE DEF CardDecides, Goto, ram, books, counters
<1>1. /\ InSale /\ txn.sale = started /\ disk.sale = started /\ started \in Sales
      /\ TypeOK /\ disk \in Disks /\ txn \in Txns /\ waived \in [Sales -> SUBSET Causes]
      /\ pc \notin StoredPCs => ~Queued(txn.sale) /\ txn.sale \notin advised /\ ~ret
    BY NotYet DEF PInv, Known, Current, Placed, InSale, UploadPCs, TypeOK
<1>2. txn' \in Txns /\ txn'.sale = txn.sale /\ txn'.card = txn.card
    <2>1. PICK outcome \in {[error |-> "none", rc |-> "00"], [error |-> "card", rc |-> "Z1"]} :
             txn' = [txn EXCEPT !.offline = TRUE, !.needs = TRUE,
                                !.error = outcome.error, !.rc = outcome.rc]
        OBVIOUS
    <2>1a. \/ outcome.error = "none" /\ outcome.rc = "00"
           \/ outcome.error = "card" /\ outcome.rc = "Z1"
        OBVIOUS
    <2> QED BY <2>1, <2>1a, <1>1 DEF Txns, Errors, Codes
<1>3. disk' \in Disks
    BY <1>1, <1>2 DEF TypeOK, Disks, None
<1>4. SaleFrame
    BY <1>1, <1>2 DEF SaleFrame, InSale, TypeOK, Disks, BeforePCs, RequestPCs, ResultPCs, StoredPCs, UploadPCs, PInv, Placed, Known, Staged, Before, Requested, Outcome, Resulted
<1>5. TypeOK'
    BY <1>1, <1>2, <1>3, PurchaseAssumption DEF TypeOK, PCs, Jobs, Causes, Verdicts
<1>6. Placed' /\ Current'
    BY <1>1, <1>2, <1>4 DEF PInv, Known, Placed, Current, InSale, SaleFrame, BeforePCs, RequestPCs, ResultPCs, StoredPCs, UploadPCs, RequiresSignature
<1>7. Queued(txn.sale) /\ txn.sale \in posted' => Reversed(txn.sale)'
    BY <1>1, <1>2, <1>4, ReversedStays DEF SaleFrame, PInv, Books, Once, BeforePCs, RequestPCs, ResultPCs, StoredPCs, UploadPCs
<1>8. Before'
    BY <1>1, <1>2 DEF PInv, Staged, Before, BeforePCs, RequestPCs, ResultPCs, StoredPCs, UploadPCs, Approvals, Txns
<1>9. Requested'
    BY <1>1, <1>2, <1>4 DEF PInv, Staged, Requested, BeforePCs, RequestPCs, ResultPCs, StoredPCs, UploadPCs, Approvals
<1>10. Outcome'
    <2>1. PICK outcome \in {[error |-> "none", rc |-> "00"], [error |-> "card", rc |-> "Z1"]} :
             txn' = [txn EXCEPT !.offline = TRUE, !.needs = TRUE,
                                !.error = outcome.error, !.rc = outcome.rc]
        OBVIOUS
    <2>1a. \/ outcome.error = "none" /\ outcome.rc = "00"
           \/ outcome.error = "card" /\ outcome.rc = "Z1"
        OBVIOUS
    <2>2. txn.sale \notin posted /\ ~txn.was91
        BY <1>1 DEF PInv, Staged, Before, BeforePCs
    <2>3. ~Online(txn')
        BY <2>1, <2>1a, <1>1 DEF Online, Txns
    <2> QED BY <2>2, <2>3, <1>2, Undecided
<1>11. Resulted'
    <2>1. PICK outcome \in {[error |-> "none", rc |-> "00"], [error |-> "card", rc |-> "Z1"]} :
             txn' = [txn EXCEPT !.offline = TRUE, !.needs = TRUE,
                                !.error = outcome.error, !.rc = outcome.rc]
        OBVIOUS
    <2>1a. \/ outcome.error = "none" /\ outcome.rc = "00"
           \/ outcome.error = "card" /\ outcome.rc = "Z1"
        OBVIOUS
    <2>2. txn.sale \notin posted /\ ~txn.was91
        BY <1>1 DEF PInv, Staged, Before, BeforePCs
    <2>3. ~txn'.was91 /\ txn'.error # "efb" /\ (IsApproved(txn') \/ (txn'.error = "card" /\ txn'.rc = "Z1"))
        BY <2>1, <2>1a, <2>2, <1>1 DEF IsApproved, Approvals, Txns
    <2> QED BY <2>3, <1>2 DEF Resulted
<1>12. Held'
    BY <1>1, <1>2, <1>4 DEF PInv, Staged, Outcome, Held, BeforePCs, RequestPCs, ResultPCs, StoredPCs, UploadPCs, Approvals
<1>13. Printed'
    BY <1>1, <1>2, <1>4 DEF PInv, Staged, Printed, Resulted, BeforePCs, RequestPCs, ResultPCs, StoredPCs, UploadPCs, Approvals
<1>14. Agreed'
    BY <1>1, <1>2, <1>4 DEF PInv, Staged, Agreed, IsApproved, BeforePCs, RequestPCs, ResultPCs, StoredPCs, UploadPCs, Approvals
<1> QED BY <1>4, <1>5, <1>6, <1>7, <1>8, <1>9, <1>10, <1>11, <1>12, <1>13, <1>14, FrameBooks DEF PInv, Known, Staged

LEMMA AuthoriseStep == ASSUME PInv, Authorise PROVE PInv'
<1> USE DEF Authorise, Goto, ram, books, counters
<1>1. /\ InSale /\ txn.sale = started /\ disk.sale = started /\ started \in Sales
      /\ TypeOK /\ disk \in Disks /\ txn \in Txns /\ waived \in [Sales -> SUBSET Causes]
      /\ pc \notin StoredPCs => ~Queued(txn.sale) /\ txn.sale \notin advised /\ ~ret
    BY NotYet DEF PInv, Known, Current, Placed, InSale, UploadPCs, TypeOK
<1>2. txn' \in Txns /\ txn'.sale = txn.sale /\ txn'.card = txn.card
    BY <1>1 DEF TypeOK, Txns, Errors, Codes, Verdicts, Approvals
<1>3. disk' \in Disks
    BY <1>1, <1>2, SavedTyped DEF TypeOK, Disks, None
<1>4. SaleFrame
    BY <1>1, <1>2, SavedTyped DEF SaleFrame, InSale, TypeOK, Disks, BeforePCs, RequestPCs, ResultPCs, StoredPCs, UploadPCs, PInv, Placed, Known, Staged, Before, Requested, Outcome, Resulted
<1>5. TypeOK'
    BY <1>1, <1>2, <1>3, SavedTyped, PurchaseAssumption DEF TypeOK, PCs, Jobs, Causes, Verdicts
<1>6. Placed' /\ Current'
    BY <1>1, <1>2, <1>4, SavedTyped DEF PInv, Known, Placed, Current, InSale, SaleFrame, BeforePCs, RequestPCs, ResultPCs, StoredPCs, UploadPCs, RequiresSignature
<1>7. Queued(txn.sale) /\ txn.sale \in posted' => Reversed(txn.sale)'
    BY <1>1, <1>2, <1>4, ReversedStays, SavedTyped DEF SaleFrame, PInv, Books, Once, BeforePCs, RequestPCs, ResultPCs, StoredPCs, UploadPCs
<1>8. Before'
    BY <1>1, <1>2, SavedTyped DEF PInv, Staged, Before, BeforePCs, RequestPCs, ResultPCs, StoredPCs, UploadPCs, Approvals, Txns
<1>9. Requested'
    BY <1>1, <1>2, <1>4, SavedTyped DEF PInv, Staged, Requested, BeforePCs, RequestPCs, ResultPCs, StoredPCs, UploadPCs, Approvals
<1>10. Outcome'
    BY <1>1, <1>2, <1>4, SavedTyped DEF PInv, Staged, Outcome, Online, BeforePCs, RequestPCs, ResultPCs, StoredPCs, UploadPCs, Approvals
<1>11. Resulted'
    BY <1>1, <1>2, <1>4, SavedTyped DEF PInv, Staged, Resulted, IsApproved, BeforePCs, RequestPCs, ResultPCs, StoredPCs, UploadPCs, Approvals
<1>12. Held'
    BY <1>1, <1>2, <1>4, SavedTyped DEF PInv, Staged, Outcome, Held, BeforePCs, RequestPCs, ResultPCs, StoredPCs, UploadPCs, Approvals
<1>13. Printed'
    BY <1>1, <1>2, <1>4, SavedTyped DEF PInv, Staged, Printed, Resulted, BeforePCs, RequestPCs, ResultPCs, StoredPCs, UploadPCs, Approvals
<1>14. Agreed'
    BY <1>1, <1>2, <1>4, SavedTyped DEF PInv, Staged, Agreed, IsApproved, BeforePCs, RequestPCs, ResultPCs, StoredPCs, UploadPCs, Approvals
<1> QED BY <1>4, <1>5, <1>6, <1>7, <1>8, <1>9, <1>10, <1>11, <1>12, <1>13, <1>14, FrameBooks DEF PInv, Known, Staged

LEMMA ConnectStep == ASSUME PInv, Connect PROVE PInv'
<1> USE DEF Connect, Goto, ram, books, counters
<1>1. /\ InSale /\ txn.sale = started /\ disk.sale = started /\ started \in Sales
      /\ TypeOK /\ disk \in Disks /\ txn \in Txns /\ waived \in [Sales -> SUBSET Causes]
      /\ pc \notin StoredPCs => ~Queued(txn.sale) /\ txn.sale \notin advised /\ ~ret
    BY NotYet DEF PInv, Known, Current, Placed, InSale, UploadPCs, TypeOK
<1>2. txn' \in Txns /\ txn'.sale = txn.sale /\ txn'.card = txn.card
    BY <1>1 DEF TypeOK, Txns, Errors, Codes, Verdicts, Approvals
<1>3. disk' \in Disks
    BY <1>1, <1>2 DEF TypeOK, Disks, None
<1>4. SaleFrame
    BY <1>1, <1>2 DEF SaleFrame, InSale, TypeOK, Disks, BeforePCs, RequestPCs, ResultPCs, StoredPCs, UploadPCs, PInv, Placed, Known, Staged, Before, Requested, Outcome, Resulted
<1>5. TypeOK'
    BY <1>1, <1>2, <1>3, PurchaseAssumption DEF TypeOK, PCs, Jobs, Causes, Verdicts
<1>6. Placed' /\ Current'
    BY <1>1, <1>2, <1>4 DEF PInv, Known, Placed, Current, InSale, SaleFrame, BeforePCs, RequestPCs, ResultPCs, StoredPCs, UploadPCs, RequiresSignature
<1>7. Queued(txn.sale) /\ txn.sale \in posted' => Reversed(txn.sale)'
    BY <1>1, <1>2, <1>4, ReversedStays DEF SaleFrame, PInv, Books, Once, BeforePCs, RequestPCs, ResultPCs, StoredPCs, UploadPCs
<1>8. Before'
    BY <1>1, <1>2 DEF PInv, Staged, Before, BeforePCs, RequestPCs, ResultPCs, StoredPCs, UploadPCs, Approvals, Txns
<1>9. Requested'
    BY <1>1, <1>2, <1>4 DEF PInv, Staged, Requested, BeforePCs, RequestPCs, ResultPCs, StoredPCs, UploadPCs, Approvals
<1>10. Outcome'
    <2>1. CASE pc' = "reversal"
        BY <2>1 DEF Outcome, ResultPCs
    <2>2. CASE pc' = "efb"
        <3>1. txn.sale \notin posted /\ ~txn.needs /\ ~txn.was91 /\ txn.rc \in {"none", "52", "55"}
            BY <1>1 DEF PInv, Staged, Before, BeforePCs
        <3>2. txn'.error = "comms" /\ ~txn'.needs /\ ~txn'.was91 /\ txn'.rc # "91"
            BY <2>2, <3>1, <1>1 DEF Txns
        <3> QED BY <3>1, <3>2, <1>2, Undecided DEF Online
    <2> QED BY <2>1, <2>2
<1>11. Resulted'
    <2>1. CASE pc' = "reversal"
        BY <2>1 DEF Resulted, ResultPCs
    <2>2. CASE pc' = "efb"
        <3>1. txn.sale \notin posted /\ ~txn.needs /\ ~txn.was91 /\ txn.rc \in {"none", "52", "55"}
            BY <1>1 DEF PInv, Staged, Before, BeforePCs
        <3>2. txn'.error = "comms" /\ ~txn'.needs /\ ~txn'.was91 /\ txn'.rc # "91"
            BY <2>2, <3>1, <1>1 DEF Txns
        <3> QED BY <2>2, <3>2, <1>2 DEF Resulted
    <2> QED BY <2>1, <2>2
<1>12. Held'
    BY <1>1, <1>2, <1>4 DEF PInv, Staged, Outcome, Held, BeforePCs, RequestPCs, ResultPCs, StoredPCs, UploadPCs, Approvals
<1>13. Printed'
    BY <1>1, <1>2, <1>4 DEF PInv, Staged, Printed, Resulted, BeforePCs, RequestPCs, ResultPCs, StoredPCs, UploadPCs, Approvals
<1>14. Agreed'
    BY <1>1, <1>2, <1>4 DEF PInv, Staged, Agreed, IsApproved, BeforePCs, RequestPCs, ResultPCs, StoredPCs, UploadPCs, Approvals
<1> QED BY <1>4, <1>5, <1>6, <1>7, <1>8, <1>9, <1>10, <1>11, <1>12, <1>13, <1>14, FrameBooks DEF PInv, Known, Staged

LEMMA BuildFailsStep == ASSUME PInv, BuildFails PROVE PInv'
<1> USE DEF BuildFails, Aborted, Goto, ram, books, counters
<1>1. /\ InSale /\ txn.sale = started /\ disk.sale = started /\ started \in Sales
      /\ TypeOK /\ disk \in Disks /\ txn \in Txns /\ waived \in [Sales -> SUBSET Causes]
      /\ pc \notin StoredPCs => ~Queued(txn.sale) /\ txn.sale \notin advised /\ ~ret
    BY NotYet DEF PInv, Known, Current, Placed, InSale, UploadPCs, TypeOK
<1>2. txn' \in Txns /\ txn'.sale = txn.sale /\ txn'.card = txn.card
    BY <1>1 DEF TypeOK, Txns, Errors, Codes, Verdicts, Approvals
<1>3. disk' \in Disks
    BY <1>1, <1>2 DEF TypeOK, Disks, None
<1>4. SaleFrame
    BY <1>1, <1>2 DEF SaleFrame, InSale, TypeOK, Disks, BeforePCs, RequestPCs, ResultPCs, StoredPCs, UploadPCs, PInv, Placed, Known, Staged, Before, Requested, Outcome, Resulted
<1>5. TypeOK'
    BY <1>1, <1>2, <1>3, PurchaseAssumption DEF TypeOK, PCs, Jobs, Causes, Verdicts
<1>6. Placed' /\ Current'
    BY <1>1, <1>2, <1>4 DEF PInv, Known, Placed, Current, InSale, SaleFrame, BeforePCs, RequestPCs, ResultPCs, StoredPCs, UploadPCs, RequiresSignature
<1>7. Queued(txn.sale) /\ txn.sale \in posted' => Reversed(txn.sale)'
    BY <1>1, <1>2, <1>4, ReversedStays DEF SaleFrame, PInv, Books, Once, BeforePCs, RequestPCs, ResultPCs, StoredPCs, UploadPCs
<1>8. Before'
    BY <1>1, <1>2 DEF PInv, Staged, Before, BeforePCs, RequestPCs, ResultPCs, StoredPCs, UploadPCs, Approvals, Txns
<1>9. Requested'
    BY <1>1, <1>2, <1>4 DEF PInv, Staged, Requested, BeforePCs, RequestPCs, ResultPCs, StoredPCs, UploadPCs, Approvals
<1>10. Outcome'
    <2>1. txn.sale \notin posted /\ ~txn.needs /\ ~txn.was91 /\ txn.rc \in {"none", "52", "55"}
        BY <1>1 DEF PInv, Staged, Before, BeforePCs
    <2>2. ~txn'.needs /\ ~txn'.was91 /\ txn'.rc = txn.rc /\ txn'.error \in {"removed", "system", "none"}
        BY <2>1, <1>1 DEF Txns
    <2>3. ~Online(txn')
        BY <2>1, <2>2 DEF Online, Approvals
    <2> QED BY <2>1, <2>3, <1>2, Undecided
<1>11. Resulted'
    <2>1. txn.sale \notin posted /\ ~txn.needs /\ ~txn.was91 /\ txn.rc \in {"none", "52", "55"}
        BY <1>1 DEF PInv, Staged, Before, BeforePCs
    <2>2. ~txn'.needs /\ ~txn'.was91 /\ txn'.rc = txn.rc /\ txn'.error \in {"removed", "system", "none"}
        BY <2>1, <1>1 DEF Txns
    <2> QED BY <2>2, <1>2 DEF Resulted
<1>12. Held'
    BY <1>1, <1>2, <1>4 DEF PInv, Staged, Outcome, Held, BeforePCs, RequestPCs, ResultPCs, StoredPCs, UploadPCs, Approvals
<1>13. Printed'
    BY <1>1, <1>2, <1>4 DEF PInv, Staged, Printed, Resulted, BeforePCs, RequestPCs, ResultPCs, StoredPCs, UploadPCs, Approvals
<1>14. Agreed'
    BY <1>1, <1>2, <1>4 DEF PInv, Staged, Agreed, IsApproved, BeforePCs, RequestPCs, ResultPCs, StoredPCs, UploadPCs, Approvals
<1> QED BY <1>4, <1>5, <1>6, <1>7, <1>8, <1>9, <1>10, <1>11, <1>12, <1>13, <1>14, FrameBooks DEF PInv, Known, Staged

LEMMA BuildRequestStep == ASSUME PInv, BuildRequest PROVE PInv'
<1> USE DEF BuildRequest, WaiveIf, Waive, SetIsRefused, Goto, ram, books, counters
<1>1. /\ InSale /\ txn.sale = started /\ disk.sale = started /\ started \in Sales
      /\ TypeOK /\ disk \in Disks /\ txn \in Txns /\ waived \in [Sales -> SUBSET Causes]
      /\ pc \notin StoredPCs => ~Queued(txn.sale) /\ txn.sale \notin advised /\ ~ret
    BY NotYet DEF PInv, Known, Current, Placed, InSale, UploadPCs, TypeOK
<1>2. txn' \in Txns /\ txn'.sale = txn.sale /\ txn'.card = txn.card
    BY <1>1 DEF TypeOK, Txns, Errors, Codes, Verdicts, Approvals
<1>3. disk' \in Disks
    BY <1>1, <1>2, SetTyped, SavedTyped DEF TypeOK, Disks, None
<1>4. SaleFrame
    BY <1>1, <1>2, SetTyped, SavedTyped DEF SaleFrame, InSale, TypeOK, Disks, BeforePCs, RequestPCs, ResultPCs, StoredPCs, UploadPCs, PInv, Placed, Known, Staged, Before, Requested, Outcome, Resulted
<1>5. TypeOK'
    BY <1>1, <1>2, <1>3, SetTyped, SavedTyped, PurchaseAssumption DEF TypeOK, PCs, Jobs, Causes, Verdicts
<1>6. Placed' /\ Current'
    BY <1>1, <1>2, <1>4, SetTyped, SavedTyped DEF PInv, Known, Placed, Current, InSale, SaleFrame, BeforePCs, RequestPCs, ResultPCs, StoredPCs, UploadPCs, RequiresSignature
<1>7. Queued(txn.sale) /\ txn.sale \in posted' => Reversed(txn.sale)'
    BY <1>1, <1>2, <1>4, ReversedStays, SetTyped, SavedTyped DEF SaleFrame, PInv, Books, Once, BeforePCs, RequestPCs, ResultPCs, StoredPCs, UploadPCs
<1>8. Before'
    BY <1>1, <1>2, SetTyped, SavedTyped DEF PInv, Staged, Before, BeforePCs, RequestPCs, ResultPCs, StoredPCs, UploadPCs, Approvals, Txns
<1>9. Requested'
    <2>1. txn.sale \notin posted /\ ~txn.needs /\ ~txn.was91 /\ txn.rc \in {"none", "52", "55"}
          /\ txn.error = "none" /\ disk.reversal = None
        BY <1>1 DEF PInv, Staged, Before, BeforePCs, Known, Placed
    <2>2. disk'.reversal = IF totals.repeat THEN None ELSE txn.sale
        BY <2>1, <1>1, SetTyped, SavedTyped
    <2>3. totals.repeat => "refused" \in waived'[txn.sale]
        BY <2>1, <1>1
    <2> QED BY <2>1, <2>2, <2>3, <1>2 DEF Requested, Refused
<1>10. Outcome'
    BY <1>1, <1>2, <1>4, SetTyped, SavedTyped DEF PInv, Staged, Outcome, Online, BeforePCs, RequestPCs, ResultPCs, StoredPCs, UploadPCs, Approvals
<1>11. Resulted'
    BY <1>1, <1>2, <1>4, SetTyped, SavedTyped DEF PInv, Staged, Resulted, IsApproved, BeforePCs, RequestPCs, ResultPCs, StoredPCs, UploadPCs, Approvals
<1>12. Held'
    BY <1>1, <1>2, <1>4, SetTyped, SavedTyped DEF PInv, Staged, Outcome, Held, BeforePCs, RequestPCs, ResultPCs, StoredPCs, UploadPCs, Approvals
<1>13. Printed'
    BY <1>1, <1>2, <1>4, SetTyped, SavedTyped DEF PInv, Staged, Printed, Resulted, BeforePCs, RequestPCs, ResultPCs, StoredPCs, UploadPCs, Approvals
<1>14. Agreed'
    BY <1>1, <1>2, <1>4, SetTyped, SavedTyped DEF PInv, Staged, Agreed, IsApproved, BeforePCs, RequestPCs, ResultPCs, StoredPCs, UploadPCs, Approvals
<1> QED BY <1>4, <1>5, <1>6, <1>7, <1>8, <1>9, <1>10, <1>11, <1>12, <1>13, <1>14, FrameBooks DEF PInv, Known, Staged

LEMMA TransmitStep == ASSUME PInv, Transmit PROVE PInv'
<1> USE DEF Transmit, Posts, Goto, ram, counters
<1>1. /\ InSale /\ txn.sale = started /\ disk.sale = started /\ started \in Sales
      /\ TypeOK /\ disk \in Disks /\ txn \in Txns /\ waived \in [Sales -> SUBSET Causes]
      /\ pc \notin StoredPCs => ~Queued(txn.sale) /\ txn.sale \notin advised /\ ~ret
    BY NotYet DEF PInv, Known, Current, Placed, InSale, UploadPCs, TypeOK
<1>2. txn' \in Txns /\ txn'.sale = txn.sale /\ txn'.card = txn.card
    BY <1>1 DEF TypeOK, Txns, Errors, Codes, Verdicts, Approvals
<1>3. disk' \in Disks
    BY <1>1, <1>2 DEF TypeOK, Disks, None
<1>4. SaleFrame
    BY <1>1, <1>2 DEF SaleFrame, InSale, TypeOK, Disks, BeforePCs, RequestPCs, ResultPCs, StoredPCs, UploadPCs, PInv, Placed, Known, Staged, Before, Requested, Outcome, Resulted
<1>5. TypeOK'
    BY <1>1, <1>2, <1>3, PurchaseAssumption DEF TypeOK, PCs, Jobs, Causes, Verdicts
<1>6. Placed' /\ Current'
    BY <1>1, <1>2, <1>4 DEF PInv, Known, Placed, Current, InSale, SaleFrame, BeforePCs, RequestPCs, ResultPCs, StoredPCs, UploadPCs, RequiresSignature
<1>7. Queued(txn.sale) /\ txn.sale \in posted' => Reversed(txn.sale)'
    BY <1>1, <1>2, <1>4, ReversedStays DEF SaleFrame, PInv, Books, Once, BeforePCs, RequestPCs, ResultPCs, StoredPCs, UploadPCs
<1>8. Before'
    BY <1>1, <1>2 DEF PInv, Staged, Before, BeforePCs, RequestPCs, ResultPCs, StoredPCs, UploadPCs, Approvals, Txns
<1>9. Requested'
    <2>1. /\ disk.reversal = txn.sale \/ (disk.reversal = None /\ Refused(txn.sale))
          /\ ~txn.was91 /\ txn.error = "none" /\ ~txn.needs /\ txn.rc \in {"none", "52", "55"}
          /\ txn.sale \notin posted
        BY DEF PInv, Staged, Requested, RequestPCs
    <2>2. txn.sale \in posted' <=> answer' \in Approvals
        BY <2>1 DEF Approvals, Verdicts
    <2> QED BY <2>1, <2>2, <1>2 DEF Requested, Refused
<1>10. Outcome'
    BY <1>1, <1>2, <1>4 DEF PInv, Staged, Outcome, Online, BeforePCs, RequestPCs, ResultPCs, StoredPCs, UploadPCs, Approvals
<1>11. Resulted'
    BY <1>1, <1>2, <1>4 DEF PInv, Staged, Resulted, IsApproved, BeforePCs, RequestPCs, ResultPCs, StoredPCs, UploadPCs, Approvals
<1>12. Held'
    BY <1>1, <1>2, <1>4 DEF PInv, Staged, Outcome, Held, BeforePCs, RequestPCs, ResultPCs, StoredPCs, UploadPCs, Approvals
<1>13. Printed'
    BY <1>1, <1>2, <1>4 DEF PInv, Staged, Printed, Resulted, BeforePCs, RequestPCs, ResultPCs, StoredPCs, UploadPCs, Approvals
<1>14. Agreed'
    BY <1>1, <1>2, <1>4 DEF PInv, Staged, Agreed, IsApproved, BeforePCs, RequestPCs, ResultPCs, StoredPCs, UploadPCs, Approvals
<1> QED BY <1>4, <1>5, <1>6, <1>7, <1>8, <1>9, <1>10, <1>11, <1>12, <1>13, <1>14, FrameBooks DEF PInv, Known, Staged

LEMMA TransmitFailsStep == ASSUME PInv, TransmitFails PROVE PInv'
<1> USE DEF TransmitFails, Posts, Waive, ReversalCleared, Goto, counters
<1>1. /\ InSale /\ txn.sale = started /\ disk.sale = started /\ started \in Sales
      /\ TypeOK /\ disk \in Disks /\ txn \in Txns /\ waived \in [Sales -> SUBSET Causes]
      /\ pc \notin StoredPCs => ~Queued(txn.sale) /\ txn.sale \notin advised /\ ~ret
    BY NotYet DEF PInv, Known, Current, Placed, InSale, UploadPCs, TypeOK
<1>2. txn' \in Txns /\ txn'.sale = txn.sale /\ txn'.card = txn.card
    BY <1>1 DEF TypeOK, Txns, Errors, Codes, Verdicts, Approvals
<1>3. disk' \in Disks
    BY <1>1, <1>2 DEF TypeOK, Disks, None
<1>4. SaleFrame
    BY <1>1, <1>2 DEF SaleFrame, InSale, TypeOK, Disks, BeforePCs, RequestPCs, ResultPCs, StoredPCs, UploadPCs, PInv, Placed, Known, Staged, Before, Requested, Outcome, Resulted
<1>5. TypeOK'
    <2>1. posted' \subseteq Sales
        BY <1>1 DEF TypeOK
    <2>2. waived' \in [Sales -> SUBSET Causes]
        BY <1>1 DEF Causes
    <2>3. pc' \in PCs /\ revCount' \in BOOLEAN
        BY DEF PCs
    <2> HIDE DEF Posts, Waive, ReversalCleared
    <2> QED BY <1>1, <1>2, <1>3, <2>1, <2>2, <2>3 DEF TypeOK
<1>6. Placed' /\ Current'
    BY <1>1, <1>2, <1>4 DEF PInv, Known, Placed, Current, InSale, SaleFrame, BeforePCs, RequestPCs, ResultPCs, StoredPCs, UploadPCs, RequiresSignature
<1>7. Queued(txn.sale) /\ txn.sale \in posted' => Reversed(txn.sale)'
    BY <1>1, <1>2, <1>4, ReversedStays DEF SaleFrame, PInv, Books, Once, BeforePCs, RequestPCs, ResultPCs, StoredPCs, UploadPCs
<1>8. Before'
    BY <1>1, <1>2 DEF PInv, Staged, Before, BeforePCs, RequestPCs, ResultPCs, StoredPCs, UploadPCs, Approvals, Txns
<1>9. Requested'
    BY <1>1, <1>2, <1>4 DEF PInv, Staged, Requested, BeforePCs, RequestPCs, ResultPCs, StoredPCs, UploadPCs, Approvals
<1>10. Outcome'
    <2>1. txn.sale \notin posted
        BY DEF PInv, Staged, Requested, RequestPCs
    <2>2. txn.sale \in posted' => Reversed(txn.sale)'
        <3>1. txn.sale \in posted' => "unacked" \in waived'[txn.sale]
            BY <2>1, <1>1 DEF Causes
        <3> QED BY <3>1, <1>2 DEF Reversed, GivenUp
    <2>3. disk'.reversal = None /\ txn'.error = "comms"
        BY <1>1 DEF Disks, Txns
    <2> QED BY <2>2, <2>3, <1>2, Undecided DEF Online
<1>11. Resulted'
    <2>1. /\ disk.reversal = txn.sale \/ (disk.reversal = None /\ Refused(txn.sale))
          /\ ~txn.was91 /\ ~txn.needs /\ txn.rc \in {"none", "52", "55"}
        BY DEF PInv, Staged, Requested, RequestPCs
    <2>2. txn'.error = "comms" /\ ~txn'.needs /\ ~txn'.was91 /\ txn'.rc # "91"
        BY <2>1, <1>1 DEF Txns
    <2> QED BY <2>2, <1>2 DEF Resulted
<1>12. Held'
    BY <1>1, <1>2, <1>4 DEF PInv, Staged, Outcome, Held, BeforePCs, RequestPCs, ResultPCs, StoredPCs, UploadPCs, Approvals
<1>13. Printed'
    BY <1>1, <1>2, <1>4 DEF PInv, Staged, Printed, Resulted, BeforePCs, RequestPCs, ResultPCs, StoredPCs, UploadPCs, Approvals
<1>14. Agreed'
    BY <1>1, <1>2, <1>4 DEF PInv, Staged, Agreed, IsApproved, BeforePCs, RequestPCs, ResultPCs, StoredPCs, UploadPCs, Approvals
<1> QED BY <1>4, <1>5, <1>6, <1>7, <1>8, <1>9, <1>10, <1>11, <1>12, <1>13, <1>14, FrameBooks DEF PInv, Known, Staged

LEMMA MarkSentStep == ASSUME PInv, MarkSent PROVE PInv'
<1> USE DEF MarkSent, Goto, ram, books, counters
<1>1. /\ InSale /\ txn.sale = started /\ disk.sale = started /\ started \in Sales
      /\ TypeOK /\ disk \in Disks /\ txn \in Txns /\ waived \in [Sales -> SUBSET Causes]
      /\ pc \notin StoredPCs => ~Queued(txn.sale) /\ txn.sale \notin advised /\ ~ret
    BY NotYet DEF PInv, Known, Current, Placed, InSale, UploadPCs, TypeOK
<1>2. txn' \in Txns /\ txn'.sale = txn.sale /\ txn'.card = txn.card
    BY <1>1 DEF TypeOK, Txns, Errors, Codes, Verdicts, Approvals
<1>3. disk' \in Disks
    BY <1>1, <1>2 DEF TypeOK, Disks, None
<1>4. SaleFrame
    BY <1>1, <1>2 DEF SaleFrame, InSale, TypeOK, Disks, BeforePCs, RequestPCs, ResultPCs, StoredPCs, UploadPCs, PInv, Placed, Known, Staged, Before, Requested, Outcome, Resulted
<1>5. TypeOK'
    BY <1>1, <1>2, <1>3, PurchaseAssumption DEF TypeOK, PCs, Jobs, Causes, Verdicts
<1>6. Placed' /\ Current'
    BY <1>1, <1>2, <1>4 DEF PInv, Known, Placed, Current, InSale, SaleFrame, BeforePCs, RequestPCs, ResultPCs, StoredPCs, UploadPCs, RequiresSignature
<1>7. Queued(txn.sale) /\ txn.sale \in posted' => Reversed(txn.sale)'
    BY <1>1, <1>2, <1>4, ReversedStays DEF SaleFrame, PInv, Books, Once, BeforePCs, RequestPCs, ResultPCs, StoredPCs, UploadPCs
<1>8. Before'
    BY <1>1, <1>2 DEF PInv, Staged, Before, BeforePCs, RequestPCs, ResultPCs, StoredPCs, UploadPCs, Approvals, Txns
<1>9. Requested'
    <2>1. /\ disk.reversal = txn.sale \/ (disk.reversal = None /\ Refused(txn.sale))
          /\ ~txn.was91 /\ txn.error = "none" /\ txn.rc \in {"none", "52", "55"}
          /\ txn.sale \in posted <=> answer \in Approvals
        BY DEF PInv, Staged, Requested, RequestPCs
    <2>2. /\ txn'.was91 = txn.was91 /\ txn'.rc = txn.rc /\ ~txn'.needs /\ txn'.sent
          /\ disk'.reversal = disk.reversal /\ disk'.sent
        BY <1>1 DEF Txns, Disks
    <2> QED BY <2>1, <2>2, <1>2 DEF Requested, Refused
<1>10. Outcome'
    BY <1>1, <1>2, <1>4 DEF PInv, Staged, Outcome, Online, BeforePCs, RequestPCs, ResultPCs, StoredPCs, UploadPCs, Approvals
<1>11. Resulted'
    BY <1>1, <1>2, <1>4 DEF PInv, Staged, Resulted, IsApproved, BeforePCs, RequestPCs, ResultPCs, StoredPCs, UploadPCs, Approvals
<1>12. Held'
    BY <1>1, <1>2, <1>4 DEF PInv, Staged, Outcome, Held, BeforePCs, RequestPCs, ResultPCs, StoredPCs, UploadPCs, Approvals
<1>13. Printed'
    BY <1>1, <1>2, <1>4 DEF PInv, Staged, Printed, Resulted, BeforePCs, RequestPCs, ResultPCs, StoredPCs, UploadPCs, Approvals
<1>14. Agreed'
    BY <1>1, <1>2, <1>4 DEF PInv, Staged, Agreed, IsApproved, BeforePCs, RequestPCs, ResultPCs, StoredPCs, UploadPCs, Approvals
<1> QED BY <1>4, <1>5, <1>6, <1>7, <1>8, <1>9, <1>10, <1>11, <1>12, <1>13, <1>14, FrameBooks DEF PInv, Known, Staged

LEMMA AnswerMissedStep == ASSUME PInv, AnswerMissed PROVE PInv'
<1> USE DEF AnswerMissed, WaiveIf, Waive, SetIsRefused, Goto, ram, books, counters
<1>1. /\ InSale /\ txn.sale = started /\ disk.sale = started /\ started \in Sales
      /\ TypeOK /\ disk \in Disks /\ txn \in Txns /\ waived \in [Sales -> SUBSET Causes]
      /\ pc \notin StoredPCs => ~Queued(txn.sale) /\ txn.sale \notin advised /\ ~ret
    BY NotYet DEF PInv, Known, Current, Placed, InSale, UploadPCs, TypeOK
<1>2. txn' \in Txns /\ txn'.sale = txn.sale /\ txn'.card = txn.card
    <2>1. txn.rc \in Codes /\ answer \in Verdicts \cup {"none"}
        BY <1>1 DEF TypeOK, Txns
    <2>2. CASE txn' = [txn EXCEPT !.error = "comms"] \/ txn' = [txn EXCEPT !.error = "system"]
        <3> HIDE DEF AnswerMissed
        <3> QED BY <1>1, <2>2, CodesTyped, ErrorTyped
    <2>3. ASSUME NEW c, c = (IF answer = "none" THEN txn.rc ELSE answer),
                 txn' = [txn EXCEPT !.error = "removed", !.rc = c]
          PROVE  txn' \in Txns /\ txn'.sale = txn.sale /\ txn'.card = txn.card
        <3> HIDE DEF AnswerMissed
        <3>1. c \in Codes
            BY <2>1, <2>3, CodesTyped
        <3>2. "removed" \in Errors /\ txn \in Txns
            BY <1>1, CodesTyped
        <3> QED BY <2>3, <3>1, <3>2 DEF Txns
    <2> QED BY <2>2, <2>3
<1>3. disk' \in Disks
    BY <1>1, <1>2, SetTyped, SetEffect DEF TypeOK, Disks, None
<1>4. SaleFrame
    BY <1>1, <1>2, SetTyped, SetEffect DEF SaleFrame, InSale, TypeOK, Disks, BeforePCs, RequestPCs, ResultPCs, StoredPCs, UploadPCs, PInv, Placed, Known, Staged, Before, Requested, Outcome, Resulted
<1>5. TypeOK'
    BY <1>1, <1>2, <1>3, SetTyped, SetEffect, PurchaseAssumption DEF TypeOK, PCs, Jobs, Causes, Verdicts
<1>6. Placed' /\ Current'
    BY <1>1, <1>2, <1>4, SetTyped, SetEffect DEF PInv, Known, Placed, Current, InSale, SaleFrame, BeforePCs, RequestPCs, ResultPCs, StoredPCs, UploadPCs, RequiresSignature
<1>7. Queued(txn.sale) /\ txn.sale \in posted' => Reversed(txn.sale)'
    BY <1>1, <1>2, <1>4, ReversedStays, SetTyped, SetEffect DEF SaleFrame, PInv, Books, Once, BeforePCs, RequestPCs, ResultPCs, StoredPCs, UploadPCs
<1>8. Before'
    BY <1>1, <1>2, SetTyped, SetEffect DEF PInv, Staged, Before, BeforePCs, RequestPCs, ResultPCs, StoredPCs, UploadPCs, Approvals, Txns
<1>9. Requested'
    BY <1>1, <1>2, <1>4, SetTyped, SetEffect DEF PInv, Staged, Requested, BeforePCs, RequestPCs, ResultPCs, StoredPCs, UploadPCs, Approvals
<1>10. Outcome'
    <2>1. disk.reversal \in {None, txn.sale}
        BY DEF PInv, Staged, Requested, RequestPCs
    <2>2. Reversed(txn.sale)' /\ disk'.reversal \in {None, txn.sale}
        BY <2>1, <1>1, <1>2, SetTyped, SetEffect DEF None, Sales
    <2>3. txn'.error \in {"comms", "system", "removed"}
        BY <1>1 DEF Txns
    <2> QED BY <2>2, <2>3, <1>2, Undecided DEF Online
<1>11. Resulted'
    <2>1. /\ disk.reversal = txn.sale \/ (disk.reversal = None /\ Refused(txn.sale))
          /\ ~txn.was91 /\ ~txn.needs /\ txn.rc \in {"none", "52", "55"}
        BY DEF PInv, Staged, Requested, RequestPCs
    <2>2. /\ pc' \in {"efb", "final"} /\ ~txn'.needs /\ ~txn'.was91
          /\ txn'.error \in {"comms", "system", "removed"} /\ (pc' = "efb" => txn'.error = "comms" /\ txn'.rc # "91")
        BY <2>1, <1>1 DEF Txns
    <2> QED BY <2>2, <1>2 DEF Resulted
<1>12. Held'
    BY <1>1, <1>2, <1>4, SetTyped, SetEffect DEF PInv, Staged, Outcome, Held, BeforePCs, RequestPCs, ResultPCs, StoredPCs, UploadPCs, Approvals
<1>13. Printed'
    BY <1>1, <1>2, <1>4, SetTyped, SetEffect DEF PInv, Staged, Printed, Resulted, BeforePCs, RequestPCs, ResultPCs, StoredPCs, UploadPCs, Approvals
<1>14. Agreed'
    BY <1>1, <1>2, <1>4, SetTyped, SetEffect DEF PInv, Staged, Agreed, IsApproved, BeforePCs, RequestPCs, ResultPCs, StoredPCs, UploadPCs, Approvals
<1> QED BY <1>4, <1>5, <1>6, <1>7, <1>8, <1>9, <1>10, <1>11, <1>12, <1>13, <1>14, FrameBooks DEF PInv, Known, Staged

LEMMA HostApprovesStep == ASSUME PInv, HostApproves PROVE PInv'
<1> USE DEF HostApproves, Answered, ReversalCleared, Goto, books, counters
<1>1. /\ InSale /\ txn.sale = started /\ disk.sale = started /\ started \in Sales
      /\ TypeOK /\ disk \in Disks /\ txn \in Txns /\ waived \in [Sales -> SUBSET Causes]
      /\ pc \notin StoredPCs => ~Queued(txn.sale) /\ txn.sale \notin advised /\ ~ret
    BY NotYet DEF PInv, Known, Current, Placed, InSale, UploadPCs, TypeOK
<1>2. txn' \in Txns /\ txn'.sale = txn.sale /\ txn'.card = txn.card
    BY <1>1 DEF TypeOK, Txns, Errors, Codes, Verdicts, Approvals
<1>3. disk' \in Disks
    BY <1>1, <1>2 DEF TypeOK, Disks, None
<1>4. SaleFrame
    BY <1>1, <1>2 DEF SaleFrame, InSale, TypeOK, Disks, BeforePCs, RequestPCs, ResultPCs, StoredPCs, UploadPCs, PInv, Placed, Known, Staged, Before, Requested, Outcome, Resulted
<1>5. TypeOK'
    BY <1>1, <1>2, <1>3, PurchaseAssumption DEF TypeOK, PCs, Jobs, Causes, Verdicts
<1>6. Placed' /\ Current'
    BY <1>1, <1>2, <1>4 DEF PInv, Known, Placed, Current, InSale, SaleFrame, BeforePCs, RequestPCs, ResultPCs, StoredPCs, UploadPCs, RequiresSignature
<1>7. Queued(txn.sale) /\ txn.sale \in posted' => Reversed(txn.sale)'
    BY <1>1, <1>2, <1>4, ReversedStays DEF SaleFrame, PInv, Books, Once, BeforePCs, RequestPCs, ResultPCs, StoredPCs, UploadPCs
<1>8. Before'
    BY <1>1, <1>2 DEF PInv, Staged, Before, BeforePCs, RequestPCs, ResultPCs, StoredPCs, UploadPCs, Approvals, Txns
<1>9. Requested'
    BY <1>1, <1>2, <1>4 DEF PInv, Staged, Requested, BeforePCs, RequestPCs, ResultPCs, StoredPCs, UploadPCs, Approvals
<1>10. Outcome'
    <2>1. /\ txn.sale \in posted <=> answer \in Approvals
          /\ ~txn.was91 /\ ~txn.needs /\ disk.sent /\ txn.sent
        BY DEF PInv, Staged, Requested, RequestPCs
    <2>2. txn'.sent /\ disk'.sent /\ disk'.reversal = None /\ txn.sale \in posted'
        BY <2>1, <1>1 DEF Txns, Disks
    <2>3. Online(txn')
        BY <2>1, <1>1 DEF Online, Txns
    <2> QED BY <2>2, <2>3, <1>2 DEF Outcome
<1>11. Resulted'
    <2>1. /\ txn.sale \in posted <=> answer \in Approvals
          /\ ~txn.was91 /\ ~txn.needs /\ disk.sent /\ txn.sent
        BY DEF PInv, Staged, Requested, RequestPCs
    <2>2. ~txn'.needs /\ ~txn'.was91 /\ txn'.error = "none" /\ pc' \in {"second", "final"}
        BY <2>1, <1>1 DEF Txns
    <2> QED BY <2>2, <1>2 DEF Resulted
<1>12. Held'
    BY <1>1, <1>2, <1>4 DEF PInv, Staged, Outcome, Held, BeforePCs, RequestPCs, ResultPCs, StoredPCs, UploadPCs, Approvals
<1>13. Printed'
    BY <1>1, <1>2, <1>4 DEF PInv, Staged, Printed, Resulted, BeforePCs, RequestPCs, ResultPCs, StoredPCs, UploadPCs, Approvals
<1>14. Agreed'
    BY <1>1, <1>2, <1>4 DEF PInv, Staged, Agreed, IsApproved, BeforePCs, RequestPCs, ResultPCs, StoredPCs, UploadPCs, Approvals
<1> QED BY <1>4, <1>5, <1>6, <1>7, <1>8, <1>9, <1>10, <1>11, <1>12, <1>13, <1>14, FrameBooks DEF PInv, Known, Staged

LEMMA HostDeclinesStep == ASSUME PInv, HostDeclines PROVE PInv'
<1> USE DEF HostDeclines, Answered, ReversalCleared, Goto, books, counters
<1>1. /\ InSale /\ txn.sale = started /\ disk.sale = started /\ started \in Sales
      /\ TypeOK /\ disk \in Disks /\ txn \in Txns /\ waived \in [Sales -> SUBSET Causes]
      /\ pc \notin StoredPCs => ~Queued(txn.sale) /\ txn.sale \notin advised /\ ~ret
    BY NotYet DEF PInv, Known, Current, Placed, InSale, UploadPCs, TypeOK
<1>2. txn' \in Txns /\ txn'.sale = txn.sale /\ txn'.card = txn.card
    BY <1>1 DEF TypeOK, Txns, Errors, Codes, Verdicts, Approvals
<1>3. disk' \in Disks
    BY <1>1, <1>2 DEF TypeOK, Disks, None
<1>4. SaleFrame
    BY <1>1, <1>2 DEF SaleFrame, InSale, TypeOK, Disks, BeforePCs, RequestPCs, ResultPCs, StoredPCs, UploadPCs, PInv, Placed, Known, Staged, Before, Requested, Outcome, Resulted
<1>5. TypeOK'
    BY <1>1, <1>2, <1>3, PurchaseAssumption DEF TypeOK, PCs, Jobs, Causes, Verdicts
<1>6. Placed' /\ Current'
    BY <1>1, <1>2, <1>4 DEF PInv, Known, Placed, Current, InSale, SaleFrame, BeforePCs, RequestPCs, ResultPCs, StoredPCs, UploadPCs, RequiresSignature
<1>7. Queued(txn.sale) /\ txn.sale \in posted' => Reversed(txn.sale)'
    BY <1>1, <1>2, <1>4, ReversedStays DEF SaleFrame, PInv, Books, Once, BeforePCs, RequestPCs, ResultPCs, StoredPCs, UploadPCs
<1>8. Before'
    BY <1>1, <1>2 DEF PInv, Staged, Before, BeforePCs, RequestPCs, ResultPCs, StoredPCs, UploadPCs, Approvals, Txns
<1>9. Requested'
    BY <1>1, <1>2, <1>4 DEF PInv, Staged, Requested, BeforePCs, RequestPCs, ResultPCs, StoredPCs, UploadPCs, Approvals
<1>10. Outcome'
    <2>1. /\ txn.sale \in posted <=> answer \in Approvals
          /\ ~txn.was91 /\ ~txn.needs /\ disk.sent /\ txn.sent
        BY DEF PInv, Staged, Requested, RequestPCs
    <2>2. txn'.error = "erc" /\ txn.sale \notin posted'
        BY <2>1, <1>1 DEF Txns, Approvals
    <2> QED BY <2>2, <1>2, Undecided DEF Online
<1>11. Resulted'
    <2>1. /\ txn.sale \in posted <=> answer \in Approvals
          /\ ~txn.was91 /\ ~txn.needs /\ disk.sent /\ txn.sent
        BY DEF PInv, Staged, Requested, RequestPCs
    <2>2. /\ ~txn'.needs /\ ~txn'.was91 /\ txn'.error = "erc" /\ pc' \in {"second", "final"}
          /\ txn.sale \notin posted'
        BY <2>1, <1>1 DEF Txns, Approvals
    <2> QED BY <2>2, <1>2 DEF Resulted
<1>12. Held'
    BY <1>1, <1>2, <1>4 DEF PInv, Staged, Outcome, Held, BeforePCs, RequestPCs, ResultPCs, StoredPCs, UploadPCs, Approvals
<1>13. Printed'
    BY <1>1, <1>2, <1>4 DEF PInv, Staged, Printed, Resulted, BeforePCs, RequestPCs, ResultPCs, StoredPCs, UploadPCs, Approvals
<1>14. Agreed'
    BY <1>1, <1>2, <1>4 DEF PInv, Staged, Agreed, IsApproved, BeforePCs, RequestPCs, ResultPCs, StoredPCs, UploadPCs, Approvals
<1> QED BY <1>4, <1>5, <1>6, <1>7, <1>8, <1>9, <1>10, <1>11, <1>12, <1>13, <1>14, FrameBooks DEF PInv, Known, Staged

LEMMA IssuerUnavailableStep == ASSUME PInv, IssuerUnavailable PROVE PInv'
<1> USE DEF IssuerUnavailable, Answered, ReversalCleared, Goto, books, counters
<1>1. /\ InSale /\ txn.sale = started /\ disk.sale = started /\ started \in Sales
      /\ TypeOK /\ disk \in Disks /\ txn \in Txns /\ waived \in [Sales -> SUBSET Causes]
      /\ pc \notin StoredPCs => ~Queued(txn.sale) /\ txn.sale \notin advised /\ ~ret
    BY NotYet DEF PInv, Known, Current, Placed, InSale, UploadPCs, TypeOK
<1>2. txn' \in Txns /\ txn'.sale = txn.sale /\ txn'.card = txn.card
    BY <1>1 DEF TypeOK, Txns, Errors, Codes, Verdicts, Approvals
<1>3. disk' \in Disks
    BY <1>1, <1>2 DEF TypeOK, Disks, None
<1>4. SaleFrame
    BY <1>1, <1>2 DEF SaleFrame, InSale, TypeOK, Disks, BeforePCs, RequestPCs, ResultPCs, StoredPCs, UploadPCs, PInv, Placed, Known, Staged, Before, Requested, Outcome, Resulted
<1>5. TypeOK'
    BY <1>1, <1>2, <1>3, PurchaseAssumption DEF TypeOK, PCs, Jobs, Causes, Verdicts
<1>6. Placed' /\ Current'
    BY <1>1, <1>2, <1>4 DEF PInv, Known, Placed, Current, InSale, SaleFrame, BeforePCs, RequestPCs, ResultPCs, StoredPCs, UploadPCs, RequiresSignature
<1>7. Queued(txn.sale) /\ txn.sale \in posted' => Reversed(txn.sale)'
    BY <1>1, <1>2, <1>4, ReversedStays DEF SaleFrame, PInv, Books, Once, BeforePCs, RequestPCs, ResultPCs, StoredPCs, UploadPCs
<1>8. Before'
    BY <1>1, <1>2 DEF PInv, Staged, Before, BeforePCs, RequestPCs, ResultPCs, StoredPCs, UploadPCs, Approvals, Txns
<1>9. Requested'
    BY <1>1, <1>2, <1>4 DEF PInv, Staged, Requested, BeforePCs, RequestPCs, ResultPCs, StoredPCs, UploadPCs, Approvals
<1>10. Outcome'
    <2>1. /\ txn.sale \in posted <=> answer \in Approvals
          /\ ~txn.was91 /\ ~txn.needs /\ disk.sent /\ txn.sent
        BY DEF PInv, Staged, Requested, RequestPCs
    <2>2. txn'.rc = "91" /\ txn.sale \notin posted'
        BY <2>1, <1>1 DEF Txns, Approvals
    <2> QED BY <2>2, <1>2, Undecided DEF Online, Approvals
<1>11. Resulted'
    <2>1. /\ txn.sale \in posted <=> answer \in Approvals
          /\ ~txn.was91 /\ ~txn.needs /\ disk.sent /\ txn.sent
        BY DEF PInv, Staged, Requested, RequestPCs
    <2>2. /\ ~txn'.needs /\ txn'.error = "none" /\ txn'.rc = "91" /\ txn'.was91
          /\ txn.sale \notin posted' /\ disk'.reversal = None
        BY <2>1, <1>1 DEF Txns, Approvals, Disks
    <2> QED BY <2>2, <1>2 DEF Resulted
<1>12. Held'
    BY <1>1, <1>2, <1>4 DEF PInv, Staged, Outcome, Held, BeforePCs, RequestPCs, ResultPCs, StoredPCs, UploadPCs, Approvals
<1>13. Printed'
    BY <1>1, <1>2, <1>4 DEF PInv, Staged, Printed, Resulted, BeforePCs, RequestPCs, ResultPCs, StoredPCs, UploadPCs, Approvals
<1>14. Agreed'
    BY <1>1, <1>2, <1>4 DEF PInv, Staged, Agreed, IsApproved, BeforePCs, RequestPCs, ResultPCs, StoredPCs, UploadPCs, Approvals
<1> QED BY <1>4, <1>5, <1>6, <1>7, <1>8, <1>9, <1>10, <1>11, <1>12, <1>13, <1>14, FrameBooks DEF PInv, Known, Staged

LEMMA RetryAccountStep == ASSUME PInv, RetryAccount PROVE PInv'
<1> USE DEF RetryAccount, ReversalCleared, Goto, books
<1>1. /\ InSale /\ txn.sale = started /\ disk.sale = started /\ started \in Sales
      /\ TypeOK /\ disk \in Disks /\ txn \in Txns /\ waived \in [Sales -> SUBSET Causes]
      /\ pc \notin StoredPCs => ~Queued(txn.sale) /\ txn.sale \notin advised /\ ~ret
    BY NotYet DEF PInv, Known, Current, Placed, InSale, UploadPCs, TypeOK
<1>2. txn' \in Txns /\ txn'.sale = txn.sale /\ txn'.card = txn.card
    BY <1>1 DEF TypeOK, Txns, Errors, Codes, Verdicts, Approvals
<1>3. disk' \in Disks
    BY <1>1, <1>2 DEF TypeOK, Disks, None
<1>4. SaleFrame
    BY <1>1, <1>2 DEF SaleFrame, InSale, TypeOK, Disks, BeforePCs, RequestPCs, ResultPCs, StoredPCs, UploadPCs, PInv, Placed, Known, Staged, Before, Requested, Outcome, Resulted
<1>5. TypeOK'
    <2>1. retries' \in 0 .. MaxRetries
        BY <1>1, PurchaseAssumption DEF TypeOK
    <2> QED BY <2>1, <1>1, <1>2, <1>3 DEF TypeOK, PCs, Jobs
<1>6. Placed' /\ Current'
    BY <1>1, <1>2, <1>4 DEF PInv, Known, Placed, Current, InSale, SaleFrame, BeforePCs, RequestPCs, ResultPCs, StoredPCs, UploadPCs, RequiresSignature
<1>7. Queued(txn.sale) /\ txn.sale \in posted' => Reversed(txn.sale)'
    BY <1>1, <1>2, <1>4, ReversedStays DEF SaleFrame, PInv, Books, Once, BeforePCs, RequestPCs, ResultPCs, StoredPCs, UploadPCs
<1>8. Before'
    <2>1. txn.sale \notin posted /\ ~txn.needs /\ ~txn.was91
        BY DEF PInv, Staged, Requested, RequestPCs, Approvals
    <2>2. txn'.rc = "52" /\ txn'.error = "none" /\ ~txn'.needs /\ ~txn'.was91
        BY <2>1, <1>1 DEF Txns
    <2> QED BY <2>1, <2>2, <1>2 DEF Before
<1>9. Requested'
    BY <1>1, <1>2, <1>4 DEF PInv, Staged, Requested, BeforePCs, RequestPCs, ResultPCs, StoredPCs, UploadPCs, Approvals
<1>10. Outcome'
    BY <1>1, <1>2, <1>4 DEF PInv, Staged, Outcome, Online, BeforePCs, RequestPCs, ResultPCs, StoredPCs, UploadPCs, Approvals
<1>11. Resulted'
    BY <1>1, <1>2, <1>4 DEF PInv, Staged, Resulted, IsApproved, BeforePCs, RequestPCs, ResultPCs, StoredPCs, UploadPCs, Approvals
<1>12. Held'
    BY <1>1, <1>2, <1>4 DEF PInv, Staged, Outcome, Held, BeforePCs, RequestPCs, ResultPCs, StoredPCs, UploadPCs, Approvals
<1>13. Printed'
    BY <1>1, <1>2, <1>4 DEF PInv, Staged, Printed, Resulted, BeforePCs, RequestPCs, ResultPCs, StoredPCs, UploadPCs, Approvals
<1>14. Agreed'
    BY <1>1, <1>2, <1>4 DEF PInv, Staged, Agreed, IsApproved, BeforePCs, RequestPCs, ResultPCs, StoredPCs, UploadPCs, Approvals
<1> QED BY <1>4, <1>5, <1>6, <1>7, <1>8, <1>9, <1>10, <1>11, <1>12, <1>13, <1>14, FrameBooks DEF PInv, Known, Staged

LEMMA RetryPinStep == ASSUME PInv, RetryPin PROVE PInv'
<1> USE DEF RetryPin, Goto, ram, books
<1>1. /\ InSale /\ txn.sale = started /\ disk.sale = started /\ started \in Sales
      /\ TypeOK /\ disk \in Disks /\ txn \in Txns /\ waived \in [Sales -> SUBSET Causes]
      /\ pc \notin StoredPCs => ~Queued(txn.sale) /\ txn.sale \notin advised /\ ~ret
    BY NotYet DEF PInv, Known, Current, Placed, InSale, UploadPCs, TypeOK
<1>2. txn' \in Txns /\ txn'.sale = txn.sale /\ txn'.card = txn.card
    BY <1>1 DEF TypeOK, Txns, Errors, Codes, Verdicts, Approvals
<1>3. disk' \in Disks
    BY <1>1, <1>2, SavedTyped DEF TypeOK, Disks, None
<1>4. SaleFrame
    BY <1>1, <1>2, SavedTyped DEF SaleFrame, InSale, TypeOK, Disks, BeforePCs, RequestPCs, ResultPCs, StoredPCs, UploadPCs, PInv, Placed, Known, Staged, Before, Requested, Outcome, Resulted
<1>5. TypeOK'
    BY <1>1, <1>2, <1>3, SavedTyped, PurchaseAssumption DEF TypeOK, PCs, Jobs, Causes, Verdicts
<1>6. Placed' /\ Current'
    BY <1>1, <1>2, <1>4, SavedTyped DEF PInv, Known, Placed, Current, InSale, SaleFrame, BeforePCs, RequestPCs, ResultPCs, StoredPCs, UploadPCs, RequiresSignature
<1>7. Queued(txn.sale) /\ txn.sale \in posted' => Reversed(txn.sale)'
    BY <1>1, <1>2, <1>4, ReversedStays, SavedTyped DEF SaleFrame, PInv, Books, Once, BeforePCs, RequestPCs, ResultPCs, StoredPCs, UploadPCs
<1>8. Before'
    <2>1. txn.rc = "55" /\ txn.error = "erc" /\ ~txn.needs /\ ~txn.was91
        BY <1>1 DEF PInv, Staged, Resulted, ResultPCs, IsApproved
    <2>2. txn.sale \notin posted
        BY DEF PInv, Staged, Resulted, ResultPCs
    <2> QED BY <2>1, <2>2, <1>2 DEF Before
<1>9. Requested'
    BY <1>1, <1>2, <1>4, SavedTyped DEF PInv, Staged, Requested, BeforePCs, RequestPCs, ResultPCs, StoredPCs, UploadPCs, Approvals
<1>10. Outcome'
    BY <1>1, <1>2, <1>4, SavedTyped DEF PInv, Staged, Outcome, Online, BeforePCs, RequestPCs, ResultPCs, StoredPCs, UploadPCs, Approvals
<1>11. Resulted'
    BY <1>1, <1>2, <1>4, SavedTyped DEF PInv, Staged, Resulted, IsApproved, BeforePCs, RequestPCs, ResultPCs, StoredPCs, UploadPCs, Approvals
<1>12. Held'
    BY <1>1, <1>2, <1>4, SavedTyped DEF PInv, Staged, Outcome, Held, BeforePCs, RequestPCs, ResultPCs, StoredPCs, UploadPCs, Approvals
<1>13. Printed'
    BY <1>1, <1>2, <1>4, SavedTyped DEF PInv, Staged, Printed, Resulted, BeforePCs, RequestPCs, ResultPCs, StoredPCs, UploadPCs, Approvals
<1>14. Agreed'
    BY <1>1, <1>2, <1>4, SavedTyped DEF PInv, Staged, Agreed, IsApproved, BeforePCs, RequestPCs, ResultPCs, StoredPCs, UploadPCs, Approvals
<1> QED BY <1>4, <1>5, <1>6, <1>7, <1>8, <1>9, <1>10, <1>11, <1>12, <1>13, <1>14, FrameBooks DEF PInv, Known, Staged

LEMMA FallbackStep == ASSUME PInv, Fallback PROVE PInv'
<1> USE DEF Fallback, EFBOutcomes, Goto, ram, books, counters
<1>1. /\ InSale /\ txn.sale = started /\ disk.sale = started /\ started \in Sales
      /\ TypeOK /\ disk \in Disks /\ txn \in Txns /\ waived \in [Sales -> SUBSET Causes]
      /\ pc \notin StoredPCs => ~Queued(txn.sale) /\ txn.sale \notin advised /\ ~ret
    BY NotYet DEF PInv, Known, Current, Placed, InSale, UploadPCs, TypeOK
<1>2. txn' \in Txns /\ txn'.sale = txn.sale /\ txn'.card = txn.card
    <2> DEFINE backed == [txn EXCEPT !.was91 = (txn.rc = "91")]
    <2>1. backed \in Txns /\ backed.sale = txn.sale /\ backed.card = txn.card
        BY <1>1 DEF Txns
    <2>2. CASE txn' \in {[txn EXCEPT !.error = "erc", !.rc = "Z"], [txn EXCEPT !.rc = "Z"]}
        BY <2>2, <1>1 DEF Txns, Errors, Codes
    <2>3. CASE txn' \in {[backed EXCEPT !.error = "erc", !.rc = "91"],
                         [backed EXCEPT !.error = "efb", !.rc = "08", !.needs = TRUE, !.offline = TRUE]}
        <3> HIDE DEF backed
        <3> QED BY <2>1, <2>3 DEF Txns, Errors, Codes
    <2> QED BY <2>2, <2>3, <1>1
<1>3. disk' \in Disks
    BY <1>1, <1>2 DEF TypeOK, Disks, None
<1>4. SaleFrame
    BY <1>1, <1>2 DEF SaleFrame, InSale, TypeOK, Disks, BeforePCs, RequestPCs, ResultPCs, StoredPCs, UploadPCs, PInv, Placed, Known, Staged, Before, Requested, Outcome, Resulted
<1>5. TypeOK'
    BY <1>1, <1>2, <1>3, PurchaseAssumption DEF TypeOK, PCs, Jobs, Causes, Verdicts
<1>6. Placed' /\ Current'
    BY <1>1, <1>2, <1>4 DEF PInv, Known, Placed, Current, InSale, SaleFrame, BeforePCs, RequestPCs, ResultPCs, StoredPCs, UploadPCs, RequiresSignature
<1>7. Queued(txn.sale) /\ txn.sale \in posted' => Reversed(txn.sale)'
    BY <1>1, <1>2, <1>4, ReversedStays DEF SaleFrame, PInv, Books, Once, BeforePCs, RequestPCs, ResultPCs, StoredPCs, UploadPCs
<1>8. Before'
    BY <1>1, <1>2 DEF PInv, Staged, Before, BeforePCs, RequestPCs, ResultPCs, StoredPCs, UploadPCs, Approvals, Txns
<1>9. Requested'
    BY <1>1, <1>2, <1>4 DEF PInv, Staged, Requested, BeforePCs, RequestPCs, ResultPCs, StoredPCs, UploadPCs, Approvals
<1>10. Outcome'
    <2>1. /\ txn.sale \in posted => Reversed(txn.sale) /\ disk.reversal \in {None, txn.sale}
          /\ ~txn.needs /\ txn.error \in {"none", "comms"} /\ (txn.error = "none" => txn.rc = "91")
          /\ (txn.rc = "91" => txn.was91) /\ (txn.was91 => txn.sale \notin posted)
        BY DEF PInv, Staged, Outcome, Resulted, Online, Approvals, ResultPCs
    <2>2. \/ txn'.error = "erc" /\ txn'.rc = "Z" /\ ~txn'.needs /\ (txn'.was91 => txn.was91)
          \/ txn'.error = "erc" /\ txn'.rc = "91" /\ ~txn'.needs /\ (txn'.was91 => txn.rc = "91")
          \/ txn'.error = "efb" /\ txn'.rc = "08" /\ txn'.needs /\ (txn'.was91 => txn.rc = "91")
          \/ txn'.error = txn.error /\ txn'.rc = "Z" /\ ~txn'.needs /\ (txn'.was91 => txn.was91)
        BY <2>1, <1>1 DEF Txns
    <2>3. ~Online(txn')
        BY <2>1, <2>2 DEF Online, Approvals
    <2> QED BY <2>1, <2>3, <1>1, <1>2, Undecided DEF Reversed, GivenUp
<1>11. Resulted'
    <2>1. /\ txn.sale \in posted => Reversed(txn.sale) /\ disk.reversal \in {None, txn.sale}
          /\ ~txn.needs /\ txn.error \in {"none", "comms"} /\ (txn.error = "none" => txn.rc = "91")
          /\ (txn.rc = "91" => txn.was91) /\ (txn.was91 => txn.sale \notin posted)
        BY DEF PInv, Staged, Outcome, Resulted, Online, Approvals, ResultPCs
    <2>2. \/ txn'.error = "erc" /\ txn'.rc = "Z" /\ ~txn'.needs /\ (txn'.was91 => txn.was91)
          \/ txn'.error = "erc" /\ txn'.rc = "91" /\ ~txn'.needs /\ (txn'.was91 => txn.rc = "91")
          \/ txn'.error = "efb" /\ txn'.rc = "08" /\ txn'.needs /\ (txn'.was91 => txn.rc = "91")
          \/ txn'.error = txn.error /\ txn'.rc = "Z" /\ ~txn'.needs /\ (txn'.was91 => txn.was91)
        BY <2>1, <1>1 DEF Txns
    <2>3. disk'.reversal \in {None, txn.sale} \/ ~txn'.was91
        BY <2>1, <2>2 DEF PInv, Staged, Resulted, ResultPCs
    <2> QED BY <2>1, <2>2, <2>3, <1>2 DEF Resulted, IsApproved
<1>12. Held'
    BY <1>1, <1>2, <1>4 DEF PInv, Staged, Outcome, Held, BeforePCs, RequestPCs, ResultPCs, StoredPCs, UploadPCs, Approvals
<1>13. Printed'
    BY <1>1, <1>2, <1>4 DEF PInv, Staged, Printed, Resulted, BeforePCs, RequestPCs, ResultPCs, StoredPCs, UploadPCs, Approvals
<1>14. Agreed'
    BY <1>1, <1>2, <1>4 DEF PInv, Staged, Agreed, IsApproved, BeforePCs, RequestPCs, ResultPCs, StoredPCs, UploadPCs, Approvals
<1> QED BY <1>4, <1>5, <1>6, <1>7, <1>8, <1>9, <1>10, <1>11, <1>12, <1>13, <1>14, FrameBooks DEF PInv, Known, Staged

LEMMA CardDecidesUnableStep == ASSUME PInv, CardDecidesUnable PROVE PInv'
<1> USE DEF CardDecidesUnable, WaiveIf, Waive, SetIsRefused, Goto, ram, books, counters
<1>1. /\ InSale /\ txn.sale = started /\ disk.sale = started /\ started \in Sales
      /\ TypeOK /\ disk \in Disks /\ txn \in Txns /\ waived \in [Sales -> SUBSET Causes]
      /\ pc \notin StoredPCs => ~Queued(txn.sale) /\ txn.sale \notin advised /\ ~ret
    BY NotYet DEF PInv, Known, Current, Placed, InSale, UploadPCs, TypeOK
<1>2. txn' \in Txns /\ txn'.sale = txn.sale /\ txn'.card = txn.card
    <2>1. txn' = [txn EXCEPT !.error = "none", !.rc = "00", !.needs = TRUE, !.offline = TRUE] \/ txn' = txn
        OBVIOUS
    <2> HIDE DEF CardDecidesUnable
    <2>2. "none" \in Errors /\ "00" \in Codes /\ txn \in Txns
        BY <1>1, CodesTyped
    <2> QED BY <2>1, <2>2 DEF Txns
<1>3. disk' \in Disks
    BY <1>1, <1>2, SetTyped, SetEffect DEF TypeOK, Disks, None
<1>4. SaleFrame
    BY <1>1, <1>2, SetTyped, SetEffect DEF SaleFrame, InSale, TypeOK, Disks, BeforePCs, RequestPCs, ResultPCs, StoredPCs, UploadPCs, PInv, Placed, Known, Staged, Before, Requested, Outcome, Resulted
<1>5. TypeOK'
    BY <1>1, <1>2, <1>3, SetTyped, SetEffect, PurchaseAssumption DEF TypeOK, PCs, Jobs, Causes, Verdicts
<1>6. Placed' /\ Current'
    BY <1>1, <1>2, <1>4, SetTyped, SetEffect DEF PInv, Known, Placed, Current, InSale, SaleFrame, BeforePCs, RequestPCs, ResultPCs, StoredPCs, UploadPCs, RequiresSignature
<1>7. Queued(txn.sale) /\ txn.sale \in posted' => Reversed(txn.sale)'
    BY <1>1, <1>2, <1>4, ReversedStays, SetTyped, SetEffect DEF SaleFrame, PInv, Books, Once, BeforePCs, RequestPCs, ResultPCs, StoredPCs, UploadPCs
<1>8. Before'
    BY <1>1, <1>2, SetTyped, SetEffect DEF PInv, Staged, Before, BeforePCs, RequestPCs, ResultPCs, StoredPCs, UploadPCs, Approvals, Txns
<1>9. Requested'
    BY <1>1, <1>2, <1>4, SetTyped, SetEffect DEF PInv, Staged, Requested, BeforePCs, RequestPCs, ResultPCs, StoredPCs, UploadPCs, Approvals
<1>10. Outcome'
    <2>1. /\ txn.sale \in posted => (Reversed(txn.sale) \/ Online(txn)) /\ disk.reversal \in {None, txn.sale}
          /\ Online(txn) => txn.sent /\ disk.sent /\ disk.reversal = None /\ txn.sale \in posted
          /\ txn.was91 => txn.sale \notin posted /\ disk.reversal \in {None, txn.sale}
        BY DEF PInv, Staged, Outcome, Resulted, ResultPCs
    <2>1a. txn.error = "erc" /\ txn.rc = "55" => txn.sale \notin posted /\ ~txn.was91
        BY DEF PInv, Staged, Resulted, ResultPCs
    <2>1b. /\ txn.error = "efb" => txn.needs /\ txn.rc = "08"
           /\ txn.needs => IsApproved(txn) \/ (txn.error = "card" /\ txn.rc = "Z1") \/ txn.error = "removed"
        BY DEF PInv, Staged, Resulted, ResultPCs
    <2>2. ~Online(txn)
        BY DEF PInv, Staged, Outcome, ResultPCs
    <2>3. ~Online(txn')
        BY <2>2, <1>1 DEF Online, Txns
    <2>4. txn.sale \in posted' => Reversed(txn.sale)' /\ disk'.reversal \in {None, txn.sale}
        <3>1. CASE SetReversal
            BY <3>1, <2>1, <1>1, <1>2, SetEffect, SetTyped
        <3>2. CASE UNCHANGED <<disk, waived>>
            BY <3>2, <2>1, <2>2, <1>2 DEF Reversed, GivenUp
        <3> QED BY <3>1, <3>2
    <2> QED BY <2>3, <2>4, <1>2, Undecided
<1>11. Resulted'
    <2>1. /\ txn.sale \in posted => (Reversed(txn.sale) \/ Online(txn)) /\ disk.reversal \in {None, txn.sale}
          /\ Online(txn) => txn.sent /\ disk.sent /\ disk.reversal = None /\ txn.sale \in posted
          /\ txn.was91 => txn.sale \notin posted /\ disk.reversal \in {None, txn.sale}
        BY DEF PInv, Staged, Outcome, Resulted, ResultPCs
    <2>1a. txn.error = "erc" /\ txn.rc = "55" => txn.sale \notin posted /\ ~txn.was91
        BY DEF PInv, Staged, Resulted, ResultPCs
    <2>1b. /\ txn.error = "efb" => txn.needs /\ txn.rc = "08"
           /\ txn.needs => IsApproved(txn) \/ (txn.error = "card" /\ txn.rc = "Z1") \/ txn.error = "removed"
        BY DEF PInv, Staged, Resulted, ResultPCs
    <2>2. \/ ~txn'.was91 \/ txn.was91
        BY <1>1 DEF Txns
    <2>3. txn.was91 => txn.sale \notin posted' /\ disk'.reversal \in {None, txn.sale}
        <3>1. CASE SetReversal
            BY <3>1, <2>1, <1>1, <1>2, SetEffect, SetTyped
        <3>2. CASE UNCHANGED <<disk, waived>>
            BY <3>2, <2>1
        <3> QED BY <3>1, <3>2
    <2>4. CASE txn' = [txn EXCEPT !.error = "none", !.rc = "00", !.needs = TRUE, !.offline = TRUE]
        <3>1. txn'.error = "none" /\ txn'.rc = "00"
            BY <2>4, <1>1 DEF Txns
        <3> QED BY <3>1, <2>2, <2>3, <1>2 DEF Resulted, IsApproved, Approvals
    <2>5. CASE txn' = txn
        <3>1. IsApproved(txn') <=> IsApproved(txn)
            BY <2>5 DEF IsApproved
        <3> QED BY <3>1, <2>5, <2>1a, <2>1b, <2>3, <1>2 DEF Resulted
    <2> QED BY <2>4, <2>5
<1>12. Held'
    BY <1>1, <1>2, <1>4, SetTyped, SetEffect DEF PInv, Staged, Outcome, Held, BeforePCs, RequestPCs, ResultPCs, StoredPCs, UploadPCs, Approvals
<1>13. Printed'
    BY <1>1, <1>2, <1>4, SetTyped, SetEffect DEF PInv, Staged, Printed, Resulted, BeforePCs, RequestPCs, ResultPCs, StoredPCs, UploadPCs, Approvals
<1>14. Agreed'
    BY <1>1, <1>2, <1>4, SetTyped, SetEffect DEF PInv, Staged, Agreed, IsApproved, BeforePCs, RequestPCs, ResultPCs, StoredPCs, UploadPCs, Approvals
<1> QED BY <1>4, <1>5, <1>6, <1>7, <1>8, <1>9, <1>10, <1>11, <1>12, <1>13, <1>14, FrameBooks DEF PInv, Known, Staged

LEMMA SecondGenACStep == ASSUME PInv, SecondGenAC PROVE PInv'
<1> USE DEF SecondGenAC, WaiveIf, Waive, SetIsRefused, Goto, ram, books, counters
<1>1. /\ InSale /\ txn.sale = started /\ disk.sale = started /\ started \in Sales
      /\ TypeOK /\ disk \in Disks /\ txn \in Txns /\ waived \in [Sales -> SUBSET Causes]
      /\ pc \notin StoredPCs => ~Queued(txn.sale) /\ txn.sale \notin advised /\ ~ret
    BY NotYet DEF PInv, Known, Current, Placed, InSale, UploadPCs, TypeOK
<1>2. txn' \in Txns /\ txn'.sale = txn.sale /\ txn'.card = txn.card
    <2>1. \/ txn' = [txn EXCEPT !.error = "card", !.rc = "Z"]
          \/ txn' = [txn EXCEPT !.error = "system"]
          \/ txn' = txn
        OBVIOUS
    <2> HIDE DEF SecondGenAC
    <2>2. "card" \in Errors /\ "system" \in Errors /\ "Z" \in Codes /\ txn \in Txns
        BY <1>1, CodesTyped
    <2> QED BY <2>1, <2>2, ErrorTyped DEF Txns
<1>3. disk' \in Disks
    BY <1>1, <1>2, SetTyped, SetEffect DEF TypeOK, Disks, None
<1>4. SaleFrame
    BY <1>1, <1>2, SetTyped, SetEffect DEF SaleFrame, InSale, TypeOK, Disks, BeforePCs, RequestPCs, ResultPCs, StoredPCs, UploadPCs, PInv, Placed, Known, Staged, Before, Requested, Outcome, Resulted
<1>5. TypeOK'
    BY <1>1, <1>2, <1>3, SetTyped, SetEffect, PurchaseAssumption DEF TypeOK, PCs, Jobs, Causes, Verdicts
<1>6. Placed' /\ Current'
    BY <1>1, <1>2, <1>4, SetTyped, SetEffect DEF PInv, Known, Placed, Current, InSale, SaleFrame, BeforePCs, RequestPCs, ResultPCs, StoredPCs, UploadPCs, RequiresSignature
<1>7. Queued(txn.sale) /\ txn.sale \in posted' => Reversed(txn.sale)'
    BY <1>1, <1>2, <1>4, ReversedStays, SetTyped, SetEffect DEF SaleFrame, PInv, Books, Once, BeforePCs, RequestPCs, ResultPCs, StoredPCs, UploadPCs
<1>8. Before'
    BY <1>1, <1>2, SetTyped, SetEffect DEF PInv, Staged, Before, BeforePCs, RequestPCs, ResultPCs, StoredPCs, UploadPCs, Approvals, Txns
<1>9. Requested'
    BY <1>1, <1>2, <1>4, SetTyped, SetEffect DEF PInv, Staged, Requested, BeforePCs, RequestPCs, ResultPCs, StoredPCs, UploadPCs, Approvals
<1>10. Outcome'
    <2>1. /\ txn.sale \in posted => (Reversed(txn.sale) \/ Online(txn)) /\ disk.reversal \in {None, txn.sale}
          /\ Online(txn) => txn.sent /\ disk.sent /\ disk.reversal = None /\ txn.sale \in posted
          /\ txn.was91 => txn.sale \notin posted /\ disk.reversal \in {None, txn.sale}
        BY DEF PInv, Staged, Outcome, Resulted, ResultPCs
    <2>1a. txn.error = "erc" /\ txn.rc = "55" => txn.sale \notin posted /\ ~txn.was91
        BY DEF PInv, Staged, Resulted, ResultPCs
    <2>1b. /\ txn.error = "efb" => txn.needs /\ txn.rc = "08"
           /\ txn.needs => IsApproved(txn) \/ (txn.error = "card" /\ txn.rc = "Z1") \/ txn.error = "removed"
        BY DEF PInv, Staged, Resulted, ResultPCs
    <2>2. CASE UNCHANGED <<txn, disk, waived>>
        BY <2>2, <2>1, <2>1a, <2>1b, <1>2 DEF Outcome, Online, Reversed, GivenUp, IsApproved
    <2>3. CASE /\ \/ txn' = [txn EXCEPT !.error = "card", !.rc = "Z"]
                  \/ txn' = [txn EXCEPT !.error = "system"]
               /\ SetReversal
        <3>1. /\ txn'.error \in {"card", "system"} /\ (txn'.needs => txn.needs)
              /\ (txn'.was91 => txn.was91)
            BY <2>3, <1>1 DEF Txns
        <3>2. txn.sale \in posted' => Reversed(txn.sale)' /\ disk'.reversal \in {None, txn.sale}
            BY <2>3, <2>1, <1>1, <1>2, SetEffect, SetTyped
        <3> QED BY <3>1, <3>2, <1>2, Undecided DEF Online
    <2> QED BY <2>2, <2>3
<1>11. Resulted'
    <2>1. /\ txn.sale \in posted => (Reversed(txn.sale) \/ Online(txn)) /\ disk.reversal \in {None, txn.sale}
          /\ Online(txn) => txn.sent /\ disk.sent /\ disk.reversal = None /\ txn.sale \in posted
          /\ txn.was91 => txn.sale \notin posted /\ disk.reversal \in {None, txn.sale}
        BY DEF PInv, Staged, Outcome, Resulted, ResultPCs
    <2>1a. txn.error = "erc" /\ txn.rc = "55" => txn.sale \notin posted /\ ~txn.was91
        BY DEF PInv, Staged, Resulted, ResultPCs
    <2>1b. /\ txn.error = "efb" => txn.needs /\ txn.rc = "08"
           /\ txn.needs => IsApproved(txn) \/ (txn.error = "card" /\ txn.rc = "Z1") \/ txn.error = "removed"
        BY DEF PInv, Staged, Resulted, ResultPCs
    <2>2. CASE UNCHANGED <<txn, disk, waived>>
        BY <2>2, <2>1, <2>1a, <2>1b, <1>2 DEF Resulted, Online, Reversed, GivenUp, IsApproved
    <2>3. CASE /\ \/ txn' = [txn EXCEPT !.error = "card", !.rc = "Z"]
                  \/ txn' = [txn EXCEPT !.error = "system"]
               /\ SetReversal
        <3>1. /\ txn'.error \in {"card", "system"} /\ (txn'.needs => txn.needs)
              /\ (txn'.was91 => txn.was91)
            BY <2>3, <1>1 DEF Txns
        <3>2. txn.sale \in posted' => Reversed(txn.sale)' /\ disk'.reversal \in {None, txn.sale}
            BY <2>3, <2>1, <1>1, <1>2, SetEffect, SetTyped
        <3>3. ~txn.needs
            BY DEF PInv, Staged, Resulted, ResultPCs
        <3>4. txn.was91 => txn.sale \notin posted' /\ disk'.reversal \in {None, txn.sale}
            BY <2>3, <2>1, <1>1, <1>2, SetEffect, SetTyped
        <3> QED BY <3>1, <3>3, <3>4, <1>2 DEF Resulted
    <2> QED BY <2>2, <2>3
<1>12. Held'
    BY <1>1, <1>2, <1>4, SetTyped, SetEffect DEF PInv, Staged, Outcome, Held, BeforePCs, RequestPCs, ResultPCs, StoredPCs, UploadPCs, Approvals
<1>13. Printed'
    BY <1>1, <1>2, <1>4, SetTyped, SetEffect DEF PInv, Staged, Printed, Resulted, BeforePCs, RequestPCs, ResultPCs, StoredPCs, UploadPCs, Approvals
<1>14. Agreed'
    BY <1>1, <1>2, <1>4, SetTyped, SetEffect DEF PInv, Staged, Agreed, IsApproved, BeforePCs, RequestPCs, ResultPCs, StoredPCs, UploadPCs, Approvals
<1> QED BY <1>4, <1>5, <1>6, <1>7, <1>8, <1>9, <1>10, <1>11, <1>12, <1>13, <1>14, FrameBooks DEF PInv, Known, Staged

LEMMA CardPulledStep == ASSUME PInv, CardPulled PROVE PInv'
<1> USE DEF CardPulled, WaiveIf, Waive, SetIsRefused, Goto, ram, books, counters
<1>1. /\ InSale /\ txn.sale = started /\ disk.sale = started /\ started \in Sales
      /\ TypeOK /\ disk \in Disks /\ txn \in Txns /\ waived \in [Sales -> SUBSET Causes]
      /\ pc \notin StoredPCs => ~Queued(txn.sale) /\ txn.sale \notin advised /\ ~ret
    BY NotYet DEF PInv, Known, Current, Placed, InSale, UploadPCs, TypeOK
<1>2. txn' \in Txns /\ txn'.sale = txn.sale /\ txn'.card = txn.card
    BY <1>1 DEF TypeOK, Txns, Errors, Codes, Verdicts, Approvals
<1>3. disk' \in Disks
    BY <1>1, <1>2, SetTyped, SetEffect DEF TypeOK, Disks, None
<1>4. SaleFrame
    BY <1>1, <1>2, SetTyped, SetEffect DEF SaleFrame, InSale, TypeOK, Disks, BeforePCs, RequestPCs, ResultPCs, StoredPCs, UploadPCs, PInv, Placed, Known, Staged, Before, Requested, Outcome, Resulted
<1>5. TypeOK'
    BY <1>1, <1>2, <1>3, SetTyped, SetEffect, PurchaseAssumption DEF TypeOK, PCs, Jobs, Causes, Verdicts
<1>6. Placed' /\ Current'
    BY <1>1, <1>2, <1>4, SetTyped, SetEffect DEF PInv, Known, Placed, Current, InSale, SaleFrame, BeforePCs, RequestPCs, ResultPCs, StoredPCs, UploadPCs, RequiresSignature
<1>7. Queued(txn.sale) /\ txn.sale \in posted' => Reversed(txn.sale)'
    BY <1>1, <1>2, <1>4, ReversedStays, SetTyped, SetEffect DEF SaleFrame, PInv, Books, Once, BeforePCs, RequestPCs, ResultPCs, StoredPCs, UploadPCs
<1>8. Before'
    BY <1>1, <1>2, SetTyped, SetEffect DEF PInv, Staged, Before, BeforePCs, RequestPCs, ResultPCs, StoredPCs, UploadPCs, Approvals, Txns
<1>9. Requested'
    BY <1>1, <1>2, <1>4, SetTyped, SetEffect DEF PInv, Staged, Requested, BeforePCs, RequestPCs, ResultPCs, StoredPCs, UploadPCs, Approvals
<1>10. Outcome'
    <2>1. /\ txn.sale \in posted => (Reversed(txn.sale) \/ Online(txn)) /\ disk.reversal \in {None, txn.sale}
          /\ Online(txn) => txn.sent /\ disk.sent /\ disk.reversal = None /\ txn.sale \in posted
          /\ txn.was91 => txn.sale \notin posted /\ disk.reversal \in {None, txn.sale}
        BY DEF PInv, Staged, Outcome, Resulted, ResultPCs
    <2>1a. txn.error = "erc" /\ txn.rc = "55" => txn.sale \notin posted /\ ~txn.was91
        BY DEF PInv, Staged, Resulted, ResultPCs
    <2>1b. /\ txn.error = "efb" => txn.needs /\ txn.rc = "08"
           /\ txn.needs => IsApproved(txn) \/ (txn.error = "card" /\ txn.rc = "Z1") \/ txn.error = "removed"
        BY DEF PInv, Staged, Resulted, ResultPCs
    <2>2. txn'.error = "removed" /\ (txn'.was91 => txn.was91)
        BY <1>1 DEF Txns
    <2>3. /\ txn.sale \in posted' => Reversed(txn.sale)' /\ disk'.reversal \in {None, txn.sale}
          /\ txn.was91 => txn.sale \notin posted' /\ disk'.reversal \in {None, txn.sale}
        <3>1. CASE txn.sent
            BY <3>1, <2>1, <1>1, <1>2, SetEffect, SetTyped
        <3>2. CASE ~txn.sent
            BY <3>2, <2>1 DEF Reversed, GivenUp
        <3> QED BY <3>1, <3>2
    <2> QED BY <2>2, <2>3, <1>2, Undecided DEF Online
<1>11. Resulted'
    <2>1. /\ txn.sale \in posted => (Reversed(txn.sale) \/ Online(txn)) /\ disk.reversal \in {None, txn.sale}
          /\ Online(txn) => txn.sent /\ disk.sent /\ disk.reversal = None /\ txn.sale \in posted
          /\ txn.was91 => txn.sale \notin posted /\ disk.reversal \in {None, txn.sale}
        BY DEF PInv, Staged, Outcome, Resulted, ResultPCs
    <2>1a. txn.error = "erc" /\ txn.rc = "55" => txn.sale \notin posted /\ ~txn.was91
        BY DEF PInv, Staged, Resulted, ResultPCs
    <2>1b. /\ txn.error = "efb" => txn.needs /\ txn.rc = "08"
           /\ txn.needs => IsApproved(txn) \/ (txn.error = "card" /\ txn.rc = "Z1") \/ txn.error = "removed"
        BY DEF PInv, Staged, Resulted, ResultPCs
    <2>2. txn'.error = "removed" /\ (txn'.was91 => txn.was91)
        BY <1>1 DEF Txns
    <2>3. /\ txn.sale \in posted' => Reversed(txn.sale)' /\ disk'.reversal \in {None, txn.sale}
          /\ txn.was91 => txn.sale \notin posted' /\ disk'.reversal \in {None, txn.sale}
        <3>1. CASE txn.sent
            BY <3>1, <2>1, <1>1, <1>2, SetEffect, SetTyped
        <3>2. CASE ~txn.sent
            BY <3>2, <2>1 DEF Reversed, GivenUp
        <3> QED BY <3>1, <3>2
    <2> QED BY <2>2, <2>3, <1>2 DEF Resulted
<1>12. Held'
    BY <1>1, <1>2, <1>4, SetTyped, SetEffect DEF PInv, Staged, Outcome, Held, BeforePCs, RequestPCs, ResultPCs, StoredPCs, UploadPCs, Approvals
<1>13. Printed'
    BY <1>1, <1>2, <1>4, SetTyped, SetEffect DEF PInv, Staged, Printed, Resulted, BeforePCs, RequestPCs, ResultPCs, StoredPCs, UploadPCs, Approvals
<1>14. Agreed'
    BY <1>1, <1>2, <1>4, SetTyped, SetEffect DEF PInv, Staged, Agreed, IsApproved, BeforePCs, RequestPCs, ResultPCs, StoredPCs, UploadPCs, Approvals
<1> QED BY <1>4, <1>5, <1>6, <1>7, <1>8, <1>9, <1>10, <1>11, <1>12, <1>13, <1>14, FrameBooks DEF PInv, Known, Staged

LEMMA FinaliseStep == ASSUME PInv, Finalise PROVE PInv'
<1> USE DEF Finalise, NeedsReversal, WaiveIf, Waive, SetIsRefused, Goto, ram, books,
    counters
<1>1. /\ InSale /\ txn.sale = started /\ disk.sale = started /\ started \in Sales
      /\ TypeOK /\ disk \in Disks /\ txn \in Txns /\ waived \in [Sales -> SUBSET Causes]
      /\ pc \notin StoredPCs => ~Queued(txn.sale) /\ txn.sale \notin advised /\ ~ret
    BY NotYet DEF PInv, Known, Current, Placed, InSale, UploadPCs, TypeOK
<1>2. txn' \in Txns /\ txn'.sale = txn.sale /\ txn'.card = txn.card
    BY <1>1 DEF TypeOK, Txns, Errors, Codes, Verdicts, Approvals
<1>3. disk' \in Disks
    <2>1. /\ disk' = IF NeedsReversal THEN ReversalSet(Saved(disk), txn.sale) ELSE Saved(disk)
          /\ WaiveIf(NeedsReversal /\ SetIsRefused, txn.sale, "refused")
        BY DEF WaiveIf
    <2>2. /\ disk' \in Disks
          /\ disk'.sale = txn.sale /\ disk'.sent = txn.sent
          /\ disk'.incomplete = disk.incomplete /\ disk'.pending = disk.pending
          /\ disk'.queue = disk.queue /\ disk'.totals = disk.totals
          /\ disk'.reversal = IF NeedsReversal /\ ~totals.repeat /\ disk.reversal = None
                              THEN txn.sale ELSE disk.reversal
        BY <2>1, <1>1, SetTyped, SavedTyped
    <2>3. /\ waived' \in [Sales -> SUBSET Causes]
          /\ \A r \in Sales : waived[r] \subseteq waived'[r] /\ (r # txn.sale => waived'[r] = waived[r])
        BY <2>1, <1>1, WaiveEffect DEF Causes
    <2> QED BY <2>2
<1>4. SaleFrame
    <2>1. /\ disk' = IF NeedsReversal THEN ReversalSet(Saved(disk), txn.sale) ELSE Saved(disk)
          /\ WaiveIf(NeedsReversal /\ SetIsRefused, txn.sale, "refused")
        BY DEF WaiveIf
    <2>2. /\ disk' \in Disks
          /\ disk'.sale = txn.sale /\ disk'.sent = txn.sent
          /\ disk'.incomplete = disk.incomplete /\ disk'.pending = disk.pending
          /\ disk'.queue = disk.queue /\ disk'.totals = disk.totals
          /\ disk'.reversal = IF NeedsReversal /\ ~totals.repeat /\ disk.reversal = None
                              THEN txn.sale ELSE disk.reversal
        BY <2>1, <1>1, SetTyped, SavedTyped
    <2>3. /\ waived' \in [Sales -> SUBSET Causes]
          /\ \A r \in Sales : waived[r] \subseteq waived'[r] /\ (r # txn.sale => waived'[r] = waived[r])
        BY <2>1, <1>1, WaiveEffect DEF Causes
    <2> QED BY <2>2, <2>3, <1>1, <1>2 DEF SaleFrame, InSale, StoredPCs
<1>5. TypeOK'
    <2>1. /\ disk' = IF NeedsReversal THEN ReversalSet(Saved(disk), txn.sale) ELSE Saved(disk)
          /\ WaiveIf(NeedsReversal /\ SetIsRefused, txn.sale, "refused")
        BY DEF WaiveIf
    <2>2. /\ disk' \in Disks
          /\ disk'.sale = txn.sale /\ disk'.sent = txn.sent
          /\ disk'.incomplete = disk.incomplete /\ disk'.pending = disk.pending
          /\ disk'.queue = disk.queue /\ disk'.totals = disk.totals
          /\ disk'.reversal = IF NeedsReversal /\ ~totals.repeat /\ disk.reversal = None
                              THEN txn.sale ELSE disk.reversal
        BY <2>1, <1>1, SetTyped, SavedTyped
    <2>3. /\ waived' \in [Sales -> SUBSET Causes]
          /\ \A r \in Sales : waived[r] \subseteq waived'[r] /\ (r # txn.sale => waived'[r] = waived[r])
        BY <2>1, <1>1, WaiveEffect DEF Causes
    <2> QED BY <2>2, <2>3, <1>1, <1>2, PurchaseAssumption DEF TypeOK, PCs
<1>6. Placed' /\ Current'
    BY <1>1, <1>2, <1>4, SetTyped, SavedTyped DEF PInv, Known, Placed, Current, InSale, SaleFrame, BeforePCs, RequestPCs, ResultPCs, StoredPCs, UploadPCs, RequiresSignature
<1>7. Queued(txn.sale) /\ txn.sale \in posted' => Reversed(txn.sale)'
    BY <1>1, <1>2, <1>4, ReversedStays, SetTyped, SavedTyped DEF SaleFrame, PInv, Books, Once, BeforePCs, RequestPCs, ResultPCs, StoredPCs, UploadPCs
<1>8. Before'
    BY <1>1, <1>2, SetTyped, SavedTyped DEF PInv, Staged, Before, BeforePCs, RequestPCs, ResultPCs, StoredPCs, UploadPCs, Approvals, Txns
<1>9. Requested'
    BY <1>1, <1>2, <1>4, SetTyped, SavedTyped DEF PInv, Staged, Requested, BeforePCs, RequestPCs, ResultPCs, StoredPCs, UploadPCs, Approvals
<1>10. Outcome'
    <2>1. /\ disk' = IF NeedsReversal THEN ReversalSet(Saved(disk), txn.sale) ELSE Saved(disk)
          /\ WaiveIf(NeedsReversal /\ SetIsRefused, txn.sale, "refused")
        BY DEF WaiveIf
    <2>2. /\ disk' \in Disks
          /\ disk'.sale = txn.sale /\ disk'.sent = txn.sent
          /\ disk'.incomplete = disk.incomplete /\ disk'.pending = disk.pending
          /\ disk'.queue = disk.queue /\ disk'.totals = disk.totals
          /\ disk'.reversal = IF NeedsReversal /\ ~totals.repeat /\ disk.reversal = None
                              THEN txn.sale ELSE disk.reversal
        BY <2>1, <1>1, SetTyped, SavedTyped
    <2>3. /\ waived' \in [Sales -> SUBSET Causes]
          /\ \A r \in Sales : waived[r] \subseteq waived'[r] /\ (r # txn.sale => waived'[r] = waived[r])
        BY <2>1, <1>1, WaiveEffect DEF Causes
    <2>6. /\ txn.sale \in posted => (Reversed(txn.sale) \/ Online(txn)) /\ disk.reversal \in {None, txn.sale}
          /\ Online(txn) => txn.sent /\ disk.sent /\ disk.reversal = None /\ txn.sale \in posted
          /\ txn.was91 => txn.sale \notin posted /\ disk.reversal \in {None, txn.sale}
        BY DEF PInv, Staged, Outcome, Resulted, ResultPCs
    <2>6a. txn.error = "erc" /\ txn.rc = "55" => txn.sale \notin posted /\ ~txn.was91
        BY DEF PInv, Staged, Resulted, ResultPCs
    <2>6b. /\ txn.error = "efb" => txn.needs /\ txn.rc = "08"
           /\ txn.needs => IsApproved(txn) \/ (txn.error = "card" /\ txn.rc = "Z1") \/ txn.error = "removed"
        BY DEF PInv, Staged, Resulted, ResultPCs
    <2>4. \/ txn' = txn
          \/ /\ txn.needs /\ ~txn'.needs /\ txn'.was91 = txn.was91 /\ txn'.rc = txn.rc
             /\ \/ txn.rc = "Z1" /\ txn'.error = txn.error
                \/ txn'.error = "saf_full"
        BY <1>1 DEF Txns
    <2>5. CASE Online(txn)
        BY <2>2, <2>4, <2>5, <2>6, <1>2 DEF Outcome, Online, NeedsReversal
    <2>7. CASE ~Online(txn)
        <3>1. ~Online(txn')
            BY <2>4, <2>7 DEF Online, Approvals
        <3>2. txn.sale \in posted' => disk'.reversal \in {None, txn.sale}
            BY <2>2, <2>6
        <3>3. txn.sale \in posted' => Reversed(txn.sale)'
            BY <2>2, <2>3, <2>6, <2>7, <1>1, <1>2, ReversedStays DEF None, Sales
        <3> QED BY <3>1, <3>2, <3>3, <1>2, Undecided
    <2> QED BY <2>5, <2>7
<1>11. Resulted'
    <2>1. /\ disk' = IF NeedsReversal THEN ReversalSet(Saved(disk), txn.sale) ELSE Saved(disk)
          /\ WaiveIf(NeedsReversal /\ SetIsRefused, txn.sale, "refused")
        BY DEF WaiveIf
    <2>2. /\ disk' \in Disks
          /\ disk'.sale = txn.sale /\ disk'.sent = txn.sent
          /\ disk'.incomplete = disk.incomplete /\ disk'.pending = disk.pending
          /\ disk'.queue = disk.queue /\ disk'.totals = disk.totals
          /\ disk'.reversal = IF NeedsReversal /\ ~totals.repeat /\ disk.reversal = None
                              THEN txn.sale ELSE disk.reversal
        BY <2>1, <1>1, SetTyped, SavedTyped
    <2>3. /\ waived' \in [Sales -> SUBSET Causes]
          /\ \A r \in Sales : waived[r] \subseteq waived'[r] /\ (r # txn.sale => waived'[r] = waived[r])
        BY <2>1, <1>1, WaiveEffect DEF Causes
    <2>6. /\ txn.sale \in posted => (Reversed(txn.sale) \/ Online(txn)) /\ disk.reversal \in {None, txn.sale}
          /\ Online(txn) => txn.sent /\ disk.sent /\ disk.reversal = None /\ txn.sale \in posted
          /\ txn.was91 => txn.sale \notin posted /\ disk.reversal \in {None, txn.sale}
        BY DEF PInv, Staged, Outcome, Resulted, ResultPCs
    <2>6a. txn.error = "erc" /\ txn.rc = "55" => txn.sale \notin posted /\ ~txn.was91
        BY DEF PInv, Staged, Resulted, ResultPCs
    <2>6b. /\ txn.error = "efb" => txn.needs /\ txn.rc = "08"
           /\ txn.needs => IsApproved(txn) \/ (txn.error = "card" /\ txn.rc = "Z1") \/ txn.error = "removed"
        BY DEF PInv, Staged, Resulted, ResultPCs
    <2>4. \/ txn' = txn
          \/ /\ txn.needs /\ ~txn'.needs /\ txn'.was91 = txn.was91 /\ txn'.rc = txn.rc
             /\ \/ txn.rc = "Z1" /\ txn'.error = txn.error
                \/ txn'.error = "saf_full"
        BY <1>1 DEF Txns
    <2>5. txn'.was91 => txn.sale \notin posted' /\ disk'.reversal \in {None, txn.sale}
        BY <2>2, <2>4, <2>6
    <2> QED BY <2>4, <2>5, <2>6, <2>6a, <2>6b, <1>2 DEF Resulted, IsApproved
<1>12. Held'
    BY <1>1, <1>2, <1>4, SetTyped, SavedTyped DEF PInv, Staged, Outcome, Held, BeforePCs, RequestPCs, ResultPCs, StoredPCs, UploadPCs, Approvals
<1>13. Printed'
    BY <1>1, <1>2, <1>4, SetTyped, SavedTyped DEF PInv, Staged, Printed, Resulted, BeforePCs, RequestPCs, ResultPCs, StoredPCs, UploadPCs, Approvals
<1>14. Agreed'
    BY <1>1, <1>2, <1>4, SetTyped, SavedTyped DEF PInv, Staged, Agreed, IsApproved, BeforePCs, RequestPCs, ResultPCs, StoredPCs, UploadPCs, Approvals
<1> QED BY <1>4, <1>5, <1>6, <1>7, <1>8, <1>9, <1>10, <1>11, <1>12, <1>13, <1>14, FrameBooks DEF PInv, Known, Staged

LEMMA PrintReceiptStep == ASSUME PInv, PrintReceipt PROVE PInv'
<1> USE DEF PrintReceipt, Goto, ram, books, counters
<1>1. /\ InSale /\ txn.sale = started /\ disk.sale = started /\ started \in Sales
      /\ TypeOK /\ disk \in Disks /\ txn \in Txns /\ waived \in [Sales -> SUBSET Causes]
      /\ pc \notin StoredPCs => ~Queued(txn.sale) /\ txn.sale \notin advised /\ ~ret
    BY NotYet DEF PInv, Known, Current, Placed, InSale, UploadPCs, TypeOK
<1>2. txn' \in Txns /\ txn'.sale = txn.sale /\ txn'.card = txn.card
    BY <1>1 DEF TypeOK, Txns, Errors, Codes, Verdicts, Approvals
<1>3. disk' \in Disks
    BY <1>1, <1>2 DEF TypeOK, Disks, None
<1>4. SaleFrame
    BY <1>1, <1>2 DEF SaleFrame, InSale, TypeOK, Disks, BeforePCs, RequestPCs, ResultPCs, StoredPCs, UploadPCs, PInv, Placed, Known, Staged, Before, Requested, Outcome, Resulted
<1>5. TypeOK'
    BY <1>1, <1>2, <1>3, PurchaseAssumption DEF TypeOK, PCs, Jobs, Causes, Verdicts
<1>6. Placed' /\ Current'
    <2>1. (pc' = "commit" /\ (ret' <=> ret)) \/ (pc' = "journal" /\ ret')
        OBVIOUS
    <2>2. ~ret
        BY <1>1 DEF StoredPCs
    <2>3. Placed'
        BY <1>1, <1>2, <1>4, <2>1 DEF Placed, SaleFrame, UploadPCs
    <2> QED BY <1>1, <1>2, <1>4, <2>1, <2>2, <2>3 DEF PInv, Known, Current, InSale, SaleFrame
<1>7. Queued(txn.sale) /\ txn.sale \in posted' => Reversed(txn.sale)'
    BY <1>1, <1>2, <1>4, ReversedStays DEF SaleFrame, PInv, Books, Once, BeforePCs, RequestPCs, ResultPCs, StoredPCs, UploadPCs
<1>8. Before'
    BY <1>1, <1>2 DEF PInv, Staged, Before, BeforePCs, RequestPCs, ResultPCs, StoredPCs, UploadPCs, Approvals, Txns
<1>9. Requested'
    BY <1>1, <1>2, <1>4 DEF PInv, Staged, Requested, BeforePCs, RequestPCs, ResultPCs, StoredPCs, UploadPCs, Approvals
<1>10. Outcome'
    <2>1. /\ txn.sale \in posted => (Reversed(txn.sale) \/ Online(txn)) /\ disk.reversal \in {None, txn.sale}
          /\ Online(txn) => txn.sent /\ disk.sent /\ disk.reversal = None /\ txn.sale \in posted
          /\ txn.was91 => txn.sale \notin posted /\ disk.reversal \in {None, txn.sale}
        BY DEF PInv, Staged, Outcome, Resulted, ResultPCs
    <2>1a. txn.error = "erc" /\ txn.rc = "55" => txn.sale \notin posted /\ ~txn.was91
        BY DEF PInv, Staged, Resulted, ResultPCs
    <2>1b. /\ txn.error = "efb" => txn.needs /\ txn.rc = "08"
           /\ txn.needs => IsApproved(txn) \/ (txn.error = "card" /\ txn.rc = "Z1") \/ txn.error = "removed"
        BY DEF PInv, Staged, Resulted, ResultPCs
    <2>2. CASE txn' = [txn EXCEPT !.printed = TRUE] /\ pc' = "commit"
        <3>1. /\ txn'.printed /\ txn'.error = txn.error /\ txn'.rc = txn.rc
              /\ txn'.sent = txn.sent /\ (txn'.needs <=> txn.needs) /\ (txn'.was91 <=> txn.was91)
            BY <2>2, <1>1 DEF Txns
        <3>2. Online(txn') <=> Online(txn)
            BY <3>1 DEF Online
        <3>3. Reversed(txn.sale) => Reversed(txn.sale)'
            BY <1>2 DEF Reversed, GivenUp
        <3> QED BY <2>1, <2>2, <3>1, <3>2, <3>3, <1>2 DEF Outcome
    <2> QED BY <2>2 DEF Outcome, ResultPCs
<1>11. Resulted'
    <2>1. /\ txn.sale \in posted => (Reversed(txn.sale) \/ Online(txn)) /\ disk.reversal \in {None, txn.sale}
          /\ Online(txn) => txn.sent /\ disk.sent /\ disk.reversal = None /\ txn.sale \in posted
          /\ txn.was91 => txn.sale \notin posted /\ disk.reversal \in {None, txn.sale}
        BY DEF PInv, Staged, Outcome, Resulted, ResultPCs
    <2>1a. txn.error = "erc" /\ txn.rc = "55" => txn.sale \notin posted /\ ~txn.was91
        BY DEF PInv, Staged, Resulted, ResultPCs
    <2>1b. /\ txn.error = "efb" => txn.needs /\ txn.rc = "08"
           /\ txn.needs => IsApproved(txn) \/ (txn.error = "card" /\ txn.rc = "Z1") \/ txn.error = "removed"
        BY DEF PInv, Staged, Resulted, ResultPCs
    <2>2. CASE txn' = [txn EXCEPT !.printed = TRUE] /\ pc' = "commit"
        <3>1. /\ txn'.printed /\ txn'.error = txn.error /\ txn'.rc = txn.rc
              /\ txn'.sent = txn.sent /\ (txn'.needs <=> txn.needs) /\ (txn'.was91 <=> txn.was91)
            BY <2>2, <1>1 DEF Txns
        <3> QED BY <2>1, <2>1a, <2>1b, <2>2, <3>1, <1>2 DEF Resulted, IsApproved
    <2> QED BY <2>2 DEF Resulted, ResultPCs
<1>12. Held'
    <2>1. /\ txn.sale \in posted => (Reversed(txn.sale) \/ Online(txn)) /\ disk.reversal \in {None, txn.sale}
          /\ Online(txn) => txn.sent /\ disk.sent /\ disk.reversal = None /\ txn.sale \in posted
          /\ txn.was91 => txn.sale \notin posted /\ disk.reversal \in {None, txn.sale}
        BY DEF PInv, Staged, Outcome, Resulted, ResultPCs
    <2>1a. txn.error = "erc" /\ txn.rc = "55" => txn.sale \notin posted /\ ~txn.was91
        BY DEF PInv, Staged, Resulted, ResultPCs
    <2>1b. /\ txn.error = "efb" => txn.needs /\ txn.rc = "08"
           /\ txn.needs => IsApproved(txn) \/ (txn.error = "card" /\ txn.rc = "Z1") \/ txn.error = "removed"
        BY DEF PInv, Staged, Resulted, ResultPCs
    <2>2. CASE pc' = "journal"
        <3>1. txn' = txn /\ disk' = disk
            BY <2>2, <1>1 DEF Txns
        <3>2. Reversed(txn.sale) => Reversed(txn.sale)'
            BY <2>2, <1>2 DEF Reversed, GivenUp
        <3> QED BY <2>1, <2>2, <3>1, <3>2, <1>2 DEF Held
    <2> QED BY <2>2 DEF Held, StoredPCs
<1>13. Printed'
    <2>1. (pc' = "commit" /\ (ret' <=> ret)) \/ (pc' = "journal" /\ ret')
        OBVIOUS
    <2>2. ~Queued(txn.sale)'
        BY <1>1, <1>2, <1>4 DEF Queued, SaleFrame, StoredPCs
    <2> QED BY <1>2, <2>1, <2>2 DEF Printed, Queued
<1>14. Agreed'
    <2>1. (pc' = "commit" /\ (ret' <=> ret)) \/ (pc' = "journal" /\ ret')
        OBVIOUS
    <2>2. ~Queued(txn.sale)'
        BY <1>1, <1>2, <1>4 DEF Queued, SaleFrame, StoredPCs
    <2> QED BY <1>2, <2>1, <2>2 DEF Agreed, StoredPCs, Queued
<1> QED BY <1>4, <1>5, <1>6, <1>7, <1>8, <1>9, <1>10, <1>11, <1>12, <1>13, <1>14, FrameBooks DEF PInv, Known, Staged

LEMMA SignatureStep == ASSUME PInv, Signature PROVE PInv'
<1> USE DEF Signature, Goto, WaiveIf, Waive, SetIsRefused, ram, books, counters
<1>1. /\ InSale /\ txn.sale = started /\ disk.sale = started /\ started \in Sales
      /\ TypeOK /\ disk \in Disks /\ txn \in Txns /\ waived \in [Sales -> SUBSET Causes]
      /\ pc \notin StoredPCs => ~Queued(txn.sale) /\ txn.sale \notin advised /\ ~ret
    BY NotYet DEF PInv, Known, Current, Placed, InSale, UploadPCs, TypeOK
<1>2. txn' \in Txns /\ txn'.sale = txn.sale /\ txn'.card = txn.card
    BY <1>1 DEF TypeOK, Txns, Errors, Codes, Verdicts, Approvals
<1>3. disk' \in Disks
    BY <1>1, <1>2, SetTyped, SetEffect DEF TypeOK, Disks, None
<1>4. SaleFrame
    BY <1>1, <1>2, SetTyped, SetEffect DEF SaleFrame, InSale, TypeOK, Disks, BeforePCs, RequestPCs, ResultPCs, StoredPCs, UploadPCs, PInv, Placed, Known, Staged, Before, Requested, Outcome, Resulted
<1>5. TypeOK'
    <2>1. waived' \in [Sales -> SUBSET Causes]
        BY <1>1, <1>2, SetEffect DEF TypeOK
    <2>2. ret' \in BOOLEAN
        BY <1>1 DEF TypeOK
    <2> QED BY <1>1, <1>2, <1>3, <2>1, <2>2, PurchaseAssumption DEF TypeOK, PCs, Jobs
<1>6. Placed' /\ Current'
    <2>1. (pc' = "commit" /\ (ret' <=> ret)) \/ (pc' = "journal" /\ ret')
        OBVIOUS
    <2>2. ~ret
        BY <1>1 DEF StoredPCs
    <2>3. Placed'
        BY <1>1, <1>2, <1>4, <2>1 DEF Placed, SaleFrame, UploadPCs
    <2> QED BY <1>1, <1>2, <1>4, <2>1, <2>2, <2>3 DEF PInv, Known, Current, InSale, SaleFrame
<1>7. Queued(txn.sale) /\ txn.sale \in posted' => Reversed(txn.sale)'
    BY <1>1, <1>2, <1>4, ReversedStays, SetTyped, SetEffect DEF SaleFrame, PInv, Books, Once, BeforePCs, RequestPCs, ResultPCs, StoredPCs, UploadPCs
<1>8. Before'
    BY <1>1, <1>2, SetTyped, SetEffect DEF PInv, Staged, Before, BeforePCs, RequestPCs, ResultPCs, StoredPCs, UploadPCs, Approvals, Txns
<1>9. Requested'
    BY <1>1, <1>2, <1>4, SetTyped, SetEffect DEF PInv, Staged, Requested, BeforePCs, RequestPCs, ResultPCs, StoredPCs, UploadPCs, Approvals
<1>10. Outcome'
    <2> DEFINE signed == /\ txn' = [txn EXCEPT !.signed = TRUE] /\ pc' = "commit"
                         /\ UNCHANGED <<ret, disk, waived>>
               refused == /\ txn' = [txn EXCEPT !.signed = TRUE, !.error = "signature", !.needs = FALSE]
                          /\ pc' = "commit" /\ UNCHANGED ret
                          /\ IF txn.sent THEN SetReversal ELSE UNCHANGED <<disk, waived>>
               failed == /\ txn' = [txn EXCEPT !.needs = FALSE] /\ ret' = TRUE /\ pc' = "journal"
                         /\ UNCHANGED <<disk, waived>>
    <2>0. signed \/ refused \/ failed
        OBVIOUS
    <2>1. /\ txn.sale \in posted => (Reversed(txn.sale) \/ Online(txn)) /\ disk.reversal \in {None, txn.sale}
          /\ Online(txn) => txn.sent /\ disk.sent /\ disk.reversal = None /\ txn.sale \in posted
          /\ txn.was91 => txn.sale \notin posted /\ disk.reversal \in {None, txn.sale}
        BY DEF PInv, Staged, Outcome, Resulted, ResultPCs
    <2>1a. txn.error = "erc" /\ txn.rc = "55" => txn.sale \notin posted /\ ~txn.was91
        BY DEF PInv, Staged, Resulted, ResultPCs
    <2>1b. /\ txn.error = "efb" => txn.needs /\ txn.rc = "08"
           /\ txn.needs => IsApproved(txn) \/ (txn.error = "card" /\ txn.rc = "Z1") \/ txn.error = "removed"
        BY DEF PInv, Staged, Resulted, ResultPCs
    <2>2. CASE signed
        <3>1. /\ txn'.signed /\ txn'.error = txn.error /\ txn'.rc = txn.rc
              /\ txn'.sent = txn.sent /\ (txn'.needs <=> txn.needs) /\ (txn'.was91 <=> txn.was91)
            BY <2>2, <1>1 DEF Txns
        <3>2. Online(txn') <=> Online(txn)
            BY <3>1 DEF Online
        <3>3. Reversed(txn.sale) => Reversed(txn.sale)'
            BY <2>2, <1>2 DEF Reversed, GivenUp
        <3> QED BY <2>1, <2>2, <3>1, <3>2, <3>3, <1>2 DEF Outcome
    <2>3. CASE refused
        <3>1. /\ txn'.signed /\ txn'.error = "signature" /\ ~txn'.needs /\ (txn'.was91 => txn.was91)
            BY <2>3, <1>1 DEF Txns
        <3>2. /\ txn.sale \in posted' => Reversed(txn.sale)' /\ disk'.reversal \in {None, txn.sale}
              /\ txn.was91 => txn.sale \notin posted' /\ disk'.reversal \in {None, txn.sale}
            <4>1. CASE txn.sent
                BY <4>1, <2>3, <2>1, <1>1, <1>2, SetEffect, SetTyped
            <4>2. CASE ~txn.sent
                BY <4>2, <2>3, <2>1, <1>2 DEF Reversed, GivenUp
            <4> QED BY <4>1, <4>2
        <3> QED BY <3>1, <3>2, <1>2, Undecided DEF Online
    <2> QED BY <2>0, <2>2, <2>3 DEF Outcome, ResultPCs
<1>11. Resulted'
    <2> DEFINE signed == /\ txn' = [txn EXCEPT !.signed = TRUE] /\ pc' = "commit"
                         /\ UNCHANGED <<ret, disk, waived>>
               refused == /\ txn' = [txn EXCEPT !.signed = TRUE, !.error = "signature", !.needs = FALSE]
                          /\ pc' = "commit" /\ UNCHANGED ret
                          /\ IF txn.sent THEN SetReversal ELSE UNCHANGED <<disk, waived>>
               failed == /\ txn' = [txn EXCEPT !.needs = FALSE] /\ ret' = TRUE /\ pc' = "journal"
                         /\ UNCHANGED <<disk, waived>>
    <2>0. signed \/ refused \/ failed
        OBVIOUS
    <2>1. /\ txn.sale \in posted => (Reversed(txn.sale) \/ Online(txn)) /\ disk.reversal \in {None, txn.sale}
          /\ Online(txn) => txn.sent /\ disk.sent /\ disk.reversal = None /\ txn.sale \in posted
          /\ txn.was91 => txn.sale \notin posted /\ disk.reversal \in {None, txn.sale}
        BY DEF PInv, Staged, Outcome, Resulted, ResultPCs
    <2>1a. txn.error = "erc" /\ txn.rc = "55" => txn.sale \notin posted /\ ~txn.was91
        BY DEF PInv, Staged, Resulted, ResultPCs
    <2>1b. /\ txn.error = "efb" => txn.needs /\ txn.rc = "08"
           /\ txn.needs => IsApproved(txn) \/ (txn.error = "card" /\ txn.rc = "Z1") \/ txn.error = "removed"
        BY DEF PInv, Staged, Resulted, ResultPCs
    <2>2. CASE signed
        <3>1. /\ txn'.signed /\ txn'.error = txn.error /\ txn'.rc = txn.rc
              /\ txn'.sent = txn.sent /\ (txn'.needs <=> txn.needs) /\ (txn'.was91 <=> txn.was91)
            BY <2>2, <1>1 DEF Txns
        <3> QED BY <2>1, <2>1a, <2>1b, <2>2, <3>1, <1>2 DEF Resulted, IsApproved
    <2>3. CASE refused
        <3>1. /\ txn'.signed /\ txn'.error = "signature" /\ ~txn'.needs /\ (txn'.was91 => txn.was91)
            BY <2>3, <1>1 DEF Txns
        <3>2. /\ txn.sale \in posted' => Reversed(txn.sale)' /\ disk'.reversal \in {None, txn.sale}
              /\ txn.was91 => txn.sale \notin posted' /\ disk'.reversal \in {None, txn.sale}
            <4>1. CASE txn.sent
                BY <4>1, <2>3, <2>1, <1>1, <1>2, SetEffect, SetTyped
            <4>2. CASE ~txn.sent
                BY <4>2, <2>3, <2>1, <1>2 DEF Reversed, GivenUp
            <4> QED BY <4>1, <4>2
        <3> QED BY <2>3, <3>1, <3>2, <1>2 DEF Resulted
    <2> QED BY <2>0, <2>2, <2>3 DEF Resulted, ResultPCs
<1>12. Held'
    <2>1. /\ txn.sale \in posted => (Reversed(txn.sale) \/ Online(txn)) /\ disk.reversal \in {None, txn.sale}
          /\ Online(txn) => txn.sent /\ disk.sent /\ disk.reversal = None /\ txn.sale \in posted
          /\ txn.was91 => txn.sale \notin posted /\ disk.reversal \in {None, txn.sale}
        BY DEF PInv, Staged, Outcome, Resulted, ResultPCs
    <2>1a. txn.error = "erc" /\ txn.rc = "55" => txn.sale \notin posted /\ ~txn.was91
        BY DEF PInv, Staged, Resulted, ResultPCs
    <2>1b. /\ txn.error = "efb" => txn.needs /\ txn.rc = "08"
           /\ txn.needs => IsApproved(txn) \/ (txn.error = "card" /\ txn.rc = "Z1") \/ txn.error = "removed"
        BY DEF PInv, Staged, Resulted, ResultPCs
    <2>2. CASE pc' = "journal"
        <3>1. txn'.sent = txn.sent /\ disk' = disk
            BY <2>2, <1>1 DEF Txns
        <3>2. Reversed(txn.sale) => Reversed(txn.sale)'
            BY <2>2, <1>2 DEF Reversed, GivenUp
        <3> QED BY <2>1, <2>2, <3>1, <3>2, <1>2 DEF Held
    <2> QED BY <2>2 DEF Held, StoredPCs
<1>13. Printed'
    <2>1. (pc' = "commit" /\ (ret' <=> ret)) \/ (pc' = "journal" /\ ret')
        OBVIOUS
    <2>2. ~Queued(txn.sale)'
        BY <1>1, <1>2, <1>4 DEF Queued, SaleFrame, StoredPCs
    <2> QED BY <1>2, <2>1, <2>2 DEF Printed, Queued
<1>14. Agreed'
    <2>1. (pc' = "commit" /\ (ret' <=> ret)) \/ (pc' = "journal" /\ ret')
        OBVIOUS
    <2>2. ~Queued(txn.sale)'
        BY <1>1, <1>2, <1>4 DEF Queued, SaleFrame, StoredPCs
    <2> QED BY <1>2, <2>1, <2>2 DEF Agreed, StoredPCs, Queued
<1> QED BY <1>4, <1>5, <1>6, <1>7, <1>8, <1>9, <1>10, <1>11, <1>12, <1>13, <1>14, FrameBooks DEF PInv, Known, Staged

LEMMA MarkStoredStep == ASSUME PInv, MarkStored PROVE PInv'
<1> USE DEF MarkStored, Goto, ram, books, counters
<1>1. /\ InSale /\ txn.sale = started /\ disk.sale = started /\ started \in Sales
      /\ TypeOK /\ disk \in Disks /\ txn \in Txns /\ waived \in [Sales -> SUBSET Causes]
      /\ pc \notin StoredPCs => ~Queued(txn.sale) /\ txn.sale \notin advised /\ ~ret
    BY NotYet DEF PInv, Known, Current, Placed, InSale, UploadPCs, TypeOK
<1>2. txn' \in Txns /\ txn'.sale = txn.sale /\ txn'.card = txn.card
    BY <1>1 DEF TypeOK, Txns, Errors, Codes, Verdicts, Approvals
<1>3. disk' \in Disks
    BY <1>1, <1>2, SavedTyped DEF TypeOK, Disks, None
<1>4. SaleFrame
    BY <1>1, <1>2, SavedTyped DEF SaleFrame, InSale, TypeOK, Disks, BeforePCs, RequestPCs, ResultPCs, StoredPCs, UploadPCs, PInv, Placed, Known, Staged, Before, Requested, Outcome, Resulted
<1>5. TypeOK'
    BY <1>1, <1>2, <1>3, SavedTyped, PurchaseAssumption DEF TypeOK, PCs, Jobs, Causes, Verdicts
<1>6. Placed' /\ Current'
    BY <1>1, <1>2, <1>4, SavedTyped DEF PInv, Known, Placed, Current, InSale, SaleFrame, BeforePCs, RequestPCs, ResultPCs, StoredPCs, UploadPCs, RequiresSignature
<1>7. Queued(txn.sale) /\ txn.sale \in posted' => Reversed(txn.sale)'
    BY <1>1, <1>2, <1>4, ReversedStays, SavedTyped DEF SaleFrame, PInv, Books, Once, BeforePCs, RequestPCs, ResultPCs, StoredPCs, UploadPCs
<1>8. Before'
    BY <1>1, <1>2, SavedTyped DEF PInv, Staged, Before, BeforePCs, RequestPCs, ResultPCs, StoredPCs, UploadPCs, Approvals, Txns
<1>9. Requested'
    BY <1>1, <1>2, <1>4, SavedTyped DEF PInv, Staged, Requested, BeforePCs, RequestPCs, ResultPCs, StoredPCs, UploadPCs, Approvals
<1>10. Outcome'
    BY <1>1, <1>2, <1>4, SavedTyped DEF PInv, Staged, Outcome, Online, BeforePCs, RequestPCs, ResultPCs, StoredPCs, UploadPCs, Approvals
<1>11. Resulted'
    BY <1>1, <1>2, <1>4, SavedTyped DEF PInv, Staged, Resulted, IsApproved, BeforePCs, RequestPCs, ResultPCs, StoredPCs, UploadPCs, Approvals
<1>12. Held'
    <2>1. (txn.sale \in posted => Reversed(txn.sale)) \/ (disk.reversal = None /\ disk.sent /\ txn.sent)
        BY DEF PInv, Staged, Held, StoredPCs
    <2>2. (Reversed(txn.sale) => Reversed(txn.sale)') /\ (Queued(txn.sale)' <=> Queued(txn.sale))
        BY <1>1, <1>2, <1>4, SavedTyped DEF Reversed, GivenUp, Queued, SaleFrame
    <2>3. disk'.reversal = disk.reversal /\ disk'.sent = txn.sent
        BY <1>1, SavedTyped DEF Disks
    <2> QED BY <2>1, <2>2, <2>3, <1>2 DEF Held
<1>13. Printed'
    <2>2. (Reversed(txn.sale) => Reversed(txn.sale)') /\ (Queued(txn.sale)' <=> Queued(txn.sale))
        BY <1>1, <1>2, <1>4, SavedTyped DEF Reversed, GivenUp, Queued, SaleFrame
    <2>3. /\ txn.printed \/ txn.signed
          /\ txn.error = "signature" => ~Queued(txn.sale)
        BY DEF PInv, Staged, Printed
    <2> QED BY <2>2, <2>3, <1>2 DEF Printed, Queued
<1>14. Agreed'
    <2>1. /\ ret => (Queued(txn.sale) => "receipt" \in waived[txn.sale])
          /\ ~ret /\ IsApproved(txn) =>
                \/ txn.sale \in posted /\ disk.reversal # txn.sale
                \/ Queued(txn.sale)
                \/ waived[txn.sale] \cap {"discarded", "unsent", "journal"} # {}
          /\ ~ret /\ ~IsApproved(txn) =>
                /\ txn.sale \in posted => Reversed(txn.sale)
                /\ Queued(txn.sale) => "receipt" \in waived[txn.sale]
        BY DEF PInv, Staged, Agreed, StoredPCs
    <2>2. (Reversed(txn.sale) => Reversed(txn.sale)') /\ (Queued(txn.sale)' <=> Queued(txn.sale))
        BY <1>1, <1>2, <1>4, SavedTyped DEF Reversed, GivenUp, Queued, SaleFrame
    <2>3. disk'.reversal = disk.reversal /\ disk'.sent = txn.sent
        BY <1>1, SavedTyped DEF Disks
    <2>4. IsApproved(txn') <=> IsApproved(txn)
        BY DEF IsApproved
    <2> QED BY <2>1, <2>2, <2>3, <2>4, <1>2 DEF Agreed, Queued, Reversed, GivenUp
<1> QED BY <1>4, <1>5, <1>6, <1>7, <1>8, <1>9, <1>10, <1>11, <1>12, <1>13, <1>14, FrameBooks DEF PInv, Known, Staged

LEMMA CustomerCopyStep == ASSUME PInv, CustomerCopy PROVE PInv'
<1> USE DEF CustomerCopy, Waive, Goto, ram, books, counters
<1>1. /\ InSale /\ txn.sale = started /\ disk.sale = started /\ started \in Sales
      /\ TypeOK /\ disk \in Disks /\ txn \in Txns /\ waived \in [Sales -> SUBSET Causes]
      /\ pc \notin StoredPCs => ~Queued(txn.sale) /\ txn.sale \notin advised /\ ~ret
    BY NotYet DEF PInv, Known, Current, Placed, InSale, UploadPCs, TypeOK
<1>2. txn' \in Txns /\ txn'.sale = txn.sale /\ txn'.card = txn.card
    BY <1>1 DEF TypeOK, Txns, Errors, Codes, Verdicts, Approvals
<1>3. disk' \in Disks
    BY <1>1, <1>2 DEF TypeOK, Disks, None
<1>4. SaleFrame
    BY <1>1, <1>2 DEF SaleFrame, InSale, TypeOK, Disks, BeforePCs, RequestPCs, ResultPCs, StoredPCs, UploadPCs, PInv, Placed, Known, Staged, Before, Requested, Outcome, Resulted
<1>5. TypeOK'
    BY <1>1, <1>2, <1>3, PurchaseAssumption DEF TypeOK, PCs, Jobs, Causes, Verdicts
<1>6. Placed' /\ Current'
    BY <1>1, <1>2, <1>4 DEF PInv, Known, Placed, Current, InSale, SaleFrame, BeforePCs, RequestPCs, ResultPCs, StoredPCs, UploadPCs, RequiresSignature
<1>7. Queued(txn.sale) /\ txn.sale \in posted' => Reversed(txn.sale)'
    BY <1>1, <1>2, <1>4, ReversedStays DEF SaleFrame, PInv, Books, Once, BeforePCs, RequestPCs, ResultPCs, StoredPCs, UploadPCs
<1>8. Before'
    BY <1>1, <1>2 DEF PInv, Staged, Before, BeforePCs, RequestPCs, ResultPCs, StoredPCs, UploadPCs, Approvals, Txns
<1>9. Requested'
    BY <1>1, <1>2, <1>4 DEF PInv, Staged, Requested, BeforePCs, RequestPCs, ResultPCs, StoredPCs, UploadPCs, Approvals
<1>10. Outcome'
    BY <1>1, <1>2, <1>4 DEF PInv, Staged, Outcome, Online, BeforePCs, RequestPCs, ResultPCs, StoredPCs, UploadPCs, Approvals
<1>11. Resulted'
    BY <1>1, <1>2, <1>4 DEF PInv, Staged, Resulted, IsApproved, BeforePCs, RequestPCs, ResultPCs, StoredPCs, UploadPCs, Approvals
<1>12. Held'
    <2>1. (txn.sale \in posted => Reversed(txn.sale)) \/ (disk.reversal = None /\ disk.sent /\ txn.sent)
        BY DEF PInv, Staged, Held, StoredPCs
    <2>2. (Reversed(txn.sale) => Reversed(txn.sale)') /\ (Queued(txn.sale)' <=> Queued(txn.sale))
        BY <1>1, <1>2, <1>4, SavedTyped DEF Reversed, GivenUp, Queued, SaleFrame
    <2>3. txn'.sent = txn.sent
        BY <1>1 DEF Txns
    <2> QED BY <2>1, <2>2, <2>3, <1>2 DEF Held
<1>13. Printed'
    <2>2. (Reversed(txn.sale) => Reversed(txn.sale)') /\ (Queued(txn.sale)' <=> Queued(txn.sale))
        BY <1>1, <1>2, <1>4, SavedTyped DEF Reversed, GivenUp, Queued, SaleFrame
    <2>3. ~ret /\ (txn.printed \/ txn.signed) /\ (txn.error = "signature" => ~Queued(txn.sale))
        BY <1>1 DEF PInv, Known, Current, Staged, Printed
    <2>4. txn'.error = txn.error /\ txn'.rc = txn.rc /\ (txn.printed => txn'.printed)
        BY <1>1 DEF Txns
    <2>5. \/ ~ret' /\ (~txn.signed \/ txn.error = "signature" \/ txn'.printed)
          \/ ret' /\ "receipt" \in waived'[txn.sale]
        <3>1. CASE UNCHANGED ret /\ (~txn.signed \/ txn.error = "signature")
            BY <3>1, <2>3
        <3>2. CASE UNCHANGED ret /\ txn' = [txn EXCEPT !.printed = TRUE]
            <4>1. txn'.printed
                BY <3>2, <1>1 DEF Txns
            <4> QED BY <3>2, <4>1, <2>3
        <3>3. CASE ret' = TRUE /\ Waive(txn.sale, "receipt")
            <4>1. "receipt" \in waived'[txn.sale]
                BY <3>3, <1>1
            <4>2. ret'
                BY <3>3
            <4> QED BY <4>1, <4>2
        <3> QED BY <3>1, <3>2, <3>3
    <2> QED BY <2>2, <2>3, <2>4, <2>5, <1>2 DEF Printed, Queued
<1>14. Agreed'
    <2>1. /\ ret => (Queued(txn.sale) => "receipt" \in waived[txn.sale])
          /\ ~ret /\ IsApproved(txn) =>
                \/ txn.sale \in posted /\ disk.reversal # txn.sale
                \/ Queued(txn.sale)
                \/ waived[txn.sale] \cap {"discarded", "unsent", "journal"} # {}
          /\ ~ret /\ ~IsApproved(txn) =>
                /\ txn.sale \in posted => Reversed(txn.sale)
                /\ Queued(txn.sale) => "receipt" \in waived[txn.sale]
        BY DEF PInv, Staged, Agreed, StoredPCs
    <2>2. (Reversed(txn.sale) => Reversed(txn.sale)') /\ (Queued(txn.sale)' <=> Queued(txn.sale))
        BY <1>1, <1>2, <1>4, SavedTyped DEF Reversed, GivenUp, Queued, SaleFrame
    <2>3. ~ret /\ (txn.printed \/ txn.signed) /\ (txn.error = "signature" => ~Queued(txn.sale))
        BY <1>1 DEF PInv, Known, Current, Staged, Printed
    <2>4. txn'.error = txn.error /\ txn'.rc = txn.rc /\ (txn.printed => txn'.printed)
        BY <1>1 DEF Txns
    <2>5. \/ ~ret' /\ (~txn.signed \/ txn.error = "signature" \/ txn'.printed)
          \/ ret' /\ "receipt" \in waived'[txn.sale]
        <3>1. CASE UNCHANGED ret /\ (~txn.signed \/ txn.error = "signature")
            BY <3>1, <2>3
        <3>2. CASE UNCHANGED ret /\ txn' = [txn EXCEPT !.printed = TRUE]
            <4>1. txn'.printed
                BY <3>2, <1>1 DEF Txns
            <4> QED BY <3>2, <4>1, <2>3
        <3>3. CASE ret' = TRUE /\ Waive(txn.sale, "receipt")
            <4>1. "receipt" \in waived'[txn.sale]
                BY <3>3, <1>1
            <4>2. ret'
                BY <3>3
            <4> QED BY <4>1, <4>2
        <3> QED BY <3>1, <3>2, <3>3
    <2>6. IsApproved(txn') <=> IsApproved(txn)
        BY <2>4 DEF IsApproved
    <2>7. waived[txn.sale] \subseteq waived'[txn.sale] /\ disk'.reversal = disk.reversal
        BY <1>1, <1>4 DEF SaleFrame
    <2> QED BY <2>1, <2>2, <2>3, <2>5, <2>6, <2>7, <1>2 DEF Agreed, Queued, Reversed, GivenUp
<1> QED BY <1>4, <1>5, <1>6, <1>7, <1>8, <1>9, <1>10, <1>11, <1>12, <1>13, <1>14, FrameBooks DEF PInv, Known, Staged

LEMMA JournalStep == ASSUME PInv, Journal PROVE PInv'
<1> USE DEF Journal, SetIsRefused, Goto, ram, books, counters
<1>1. /\ InSale /\ txn.sale = started /\ disk.sale = started /\ started \in Sales
      /\ TypeOK /\ disk \in Disks /\ txn \in Txns /\ waived \in [Sales -> SUBSET Causes]
      /\ pc \notin StoredPCs => ~Queued(txn.sale) /\ txn.sale \notin advised /\ ~ret
    BY NotYet DEF PInv, Known, Current, Placed, InSale, UploadPCs, TypeOK
<1>2. txn' \in Txns /\ txn'.sale = txn.sale /\ txn'.card = txn.card
    BY <1>1 DEF TypeOK, Txns, Errors, Codes, Verdicts, Approvals
<1>3. disk' \in Disks
    BY <1>1, <1>2, SetTyped DEF TypeOK, Disks, None
<1>4. SaleFrame
    BY <1>1, <1>2, SetTyped DEF SaleFrame, InSale, TypeOK, Disks, BeforePCs, RequestPCs, ResultPCs, StoredPCs, UploadPCs, PInv, Placed, Known, Staged, Before, Requested, Outcome, Resulted
<1>5. TypeOK'
    <2>1. waived' \in [Sales -> SUBSET Causes]
        BY <1>1 DEF Causes
    <2> QED BY <2>1, <1>1, <1>2, <1>3 DEF TypeOK, PCs
<1>6. Placed' /\ Current'
    BY <1>1, <1>2, <1>4, SetTyped DEF PInv, Known, Placed, Current, InSale, SaleFrame, BeforePCs, RequestPCs, ResultPCs, StoredPCs, UploadPCs, RequiresSignature
<1>7. Queued(txn.sale) /\ txn.sale \in posted' => Reversed(txn.sale)'
    BY <1>1, <1>2, <1>4, ReversedStays, SetTyped DEF SaleFrame, PInv, Books, Once, BeforePCs, RequestPCs, ResultPCs, StoredPCs, UploadPCs
<1>8. Before'
    BY <1>1, <1>2, SetTyped DEF PInv, Staged, Before, BeforePCs, RequestPCs, ResultPCs, StoredPCs, UploadPCs, Approvals, Txns
<1>9. Requested'
    BY <1>1, <1>2, <1>4, SetTyped DEF PInv, Staged, Requested, BeforePCs, RequestPCs, ResultPCs, StoredPCs, UploadPCs, Approvals
<1>10. Outcome'
    BY <1>1, <1>2, <1>4, SetTyped DEF PInv, Staged, Outcome, Online, BeforePCs, RequestPCs, ResultPCs, StoredPCs, UploadPCs, Approvals
<1>11. Resulted'
    BY <1>1, <1>2, <1>4, SetTyped DEF PInv, Staged, Resulted, IsApproved, BeforePCs, RequestPCs, ResultPCs, StoredPCs, UploadPCs, Approvals
<1>12. Held'
    <2>1. (txn.sale \in posted => Reversed(txn.sale)) \/ (disk.reversal = None /\ disk.sent /\ txn.sent)
        BY DEF PInv, Staged, Held, StoredPCs
    <2>2. (Reversed(txn.sale) => Reversed(txn.sale)') /\ (Queued(txn.sale)' <=> Queued(txn.sale))
        <3>1. disk'.reversal = disk.reversal \/ disk.reversal = None
            BY <1>1, SetTyped
        <3>2. waived[txn.sale] \subseteq waived'[txn.sale] /\ disk'.queue = disk.queue
            BY <1>1, <1>4 DEF SaleFrame
        <3> QED BY <3>1, <3>2, <1>1, <1>2 DEF Reversed, GivenUp, Queued, None, Sales
    <2>3. CASE UNCHANGED <<txn, disk, waived>>
        BY <2>1, <2>2, <2>3 DEF Held
    <2>4. CASE /\ ~txn.printed \/ ret
               /\ txn' = [txn EXCEPT !.error = IF ret THEN "print" ELSE "none"]
               /\ disk' = ReversalSet(disk, txn.sale)
               /\ waived' = [waived EXCEPT ![txn.sale] =
                               @ \cup (IF SetIsRefused THEN {"refused"} ELSE {})
                                 \cup (IF ret \/ txn.error = "none" THEN {} ELSE {"journal"})]
        <3>1. SetIsRefused => "refused" \in waived'[txn.sale]
            BY <2>4, <1>1
        <3>2. disk.reversal = None => Reversed(txn.sale)'
            BY <3>1, <2>4, <1>1, <1>2, SetTyped DEF Reversed, GivenUp, SetIsRefused
        <3> QED BY <2>1, <2>2, <3>2, <1>2 DEF Held
    <2> QED BY <2>3, <2>4
<1>13. Printed'
    BY <1>1, <1>2, <1>4, SetTyped DEF PInv, Staged, Printed, Resulted, BeforePCs, RequestPCs, ResultPCs, StoredPCs, UploadPCs, Approvals
<1>14. Agreed'
    <2>1. /\ ret => (Queued(txn.sale) => "receipt" \in waived[txn.sale])
          /\ ~ret /\ IsApproved(txn) =>
                \/ txn.sale \in posted /\ disk.reversal # txn.sale
                \/ Queued(txn.sale)
                \/ waived[txn.sale] \cap {"discarded", "unsent", "journal"} # {}
          /\ ~ret /\ ~IsApproved(txn) =>
                /\ txn.sale \in posted => Reversed(txn.sale)
                /\ Queued(txn.sale) => "receipt" \in waived[txn.sale]
        BY DEF PInv, Staged, Agreed, StoredPCs
    <2>1a. (txn.sale \in posted => Reversed(txn.sale)) \/ (disk.reversal = None /\ disk.sent /\ txn.sent)
        BY DEF PInv, Staged, Held, StoredPCs
    <2>2. (Reversed(txn.sale) => Reversed(txn.sale)') /\ (Queued(txn.sale)' <=> Queued(txn.sale))
        <3>1. disk'.reversal = disk.reversal \/ disk.reversal = None
            BY <1>1, SetTyped
        <3>2. waived[txn.sale] \subseteq waived'[txn.sale] /\ disk'.queue = disk.queue
            BY <1>1, <1>4 DEF SaleFrame
        <3> QED BY <3>1, <3>2, <1>1, <1>2 DEF Reversed, GivenUp, Queued, None, Sales
    <2>3. CASE UNCHANGED <<txn, disk, waived>>
        BY <2>1, <2>2, <2>3 DEF Agreed, IsApproved, Queued, Reversed, GivenUp
    <2>4. CASE /\ ~txn.printed \/ ret
               /\ txn' = [txn EXCEPT !.error = IF ret THEN "print" ELSE "none"]
               /\ disk' = ReversalSet(disk, txn.sale)
               /\ waived' = [waived EXCEPT ![txn.sale] =
                               @ \cup (IF SetIsRefused THEN {"refused"} ELSE {})
                                 \cup (IF ret \/ txn.error = "none" THEN {} ELSE {"journal"})]
        <3>1. SetIsRefused => "refused" \in waived'[txn.sale]
            BY <2>4, <1>1
        <3>2. disk.reversal = None => Reversed(txn.sale)'
            BY <3>1, <2>4, <1>1, <1>2, SetTyped DEF Reversed, GivenUp, SetIsRefused
        <3>3. CASE ret
            <4>1. ret'
                BY <3>3
            <4>2. "receipt" \in waived[txn.sale] => "receipt" \in waived'[txn.sale]
                BY <1>1, <1>4 DEF SaleFrame
            <4> QED BY <2>1, <2>2, <3>3, <4>1, <4>2, <1>2 DEF Agreed, Queued
        <3>4. CASE ~ret
            <4>1. txn.error = "signature" /\ ~Queued(txn.sale)
                BY <2>4, <3>4 DEF PInv, Staged, Printed
            <4>2. "journal" \in waived'[txn.sale]
                BY <2>4, <3>4, <4>1, <1>1
            <4>3. txn.sale \in posted => Reversed(txn.sale)'
                BY <2>1a, <2>2, <3>2
            <4>4. ~ret'
                BY <3>4
            <4> QED BY <2>2, <4>1, <4>2, <4>3, <4>4, <1>2 DEF Agreed, Queued, Reversed, GivenUp
        <3> QED BY <3>3, <3>4
    <2> QED BY <2>3, <2>4
<1> QED BY <1>4, <1>5, <1>6, <1>7, <1>8, <1>9, <1>10, <1>11, <1>12, <1>13, <1>14, FrameBooks DEF PInv, Known, Staged

LEMMA CloseStep == ASSUME PInv, Close PROVE PInv'
<1> USE DEF Close, WaiveIf, Waive, SetIsRefused, PiggyBack, Goto, books, counters
<1>1. /\ InSale /\ txn.sale = started /\ disk.sale = started /\ started \in Sales
      /\ TypeOK /\ disk \in Disks /\ txn \in Txns /\ waived \in [Sales -> SUBSET Causes]
      /\ pc \notin StoredPCs => ~Queued(txn.sale) /\ txn.sale \notin advised /\ ~ret
    BY NotYet DEF PInv, Known, Current, Placed, InSale, UploadPCs, TypeOK
<1>2. txn' \in Txns /\ txn'.sale = txn.sale /\ txn'.card = txn.card
    BY <1>1 DEF TypeOK, Txns, Errors, Codes, Verdicts, Approvals
<1>3. disk' \in Disks
    <2> DEFINE closed == [Saved(disk) EXCEPT !.incomplete = FALSE]
    <2>1. /\ closed \in Disks /\ closed.sale = txn.sale /\ closed.sent = txn.sent
          /\ closed.reversal = disk.reversal /\ closed.pending = disk.pending
          /\ closed.queue = disk.queue /\ closed.totals = disk.totals
        BY <1>1, SavedTyped DEF Disks
    <2>2. /\ disk' = IF ret /\ txn.sent THEN ReversalSet(closed, txn.sale) ELSE closed
          /\ WaiveIf(ret /\ txn.sent /\ SetIsRefused, txn.sale, "refused")
          /\ (ret' <=> ret)
        BY DEF WaiveIf
    <2> HIDE DEF closed
    <2>3. /\ disk' \in Disks /\ disk'.sale = txn.sale /\ disk'.sent = txn.sent
          /\ disk'.pending = disk.pending /\ disk'.queue = disk.queue /\ disk'.totals = disk.totals
          /\ disk'.reversal = IF ret /\ txn.sent /\ ~totals.repeat /\ disk.reversal = None
                              THEN txn.sale ELSE disk.reversal
        BY <2>1, <2>2, <1>1, SetTyped
    <2>4. /\ waived' \in [Sales -> SUBSET Causes]
          /\ \A r \in Sales : waived[r] \subseteq waived'[r] /\ (r # txn.sale => waived'[r] = waived[r])
          /\ ret /\ txn.sent /\ SetIsRefused => "refused" \in waived'[txn.sale]
        BY <2>2, <1>1, WaiveEffect DEF Causes
    <2> QED BY <2>3
<1>4. SaleFrame
    <2> DEFINE closed == [Saved(disk) EXCEPT !.incomplete = FALSE]
    <2>1. /\ closed \in Disks /\ closed.sale = txn.sale /\ closed.sent = txn.sent
          /\ closed.reversal = disk.reversal /\ closed.pending = disk.pending
          /\ closed.queue = disk.queue /\ closed.totals = disk.totals
        BY <1>1, SavedTyped DEF Disks
    <2>2. /\ disk' = IF ret /\ txn.sent THEN ReversalSet(closed, txn.sale) ELSE closed
          /\ WaiveIf(ret /\ txn.sent /\ SetIsRefused, txn.sale, "refused")
          /\ (ret' <=> ret)
        BY DEF WaiveIf
    <2> HIDE DEF closed
    <2>3. /\ disk' \in Disks /\ disk'.sale = txn.sale /\ disk'.sent = txn.sent
          /\ disk'.pending = disk.pending /\ disk'.queue = disk.queue /\ disk'.totals = disk.totals
          /\ disk'.reversal = IF ret /\ txn.sent /\ ~totals.repeat /\ disk.reversal = None
                              THEN txn.sale ELSE disk.reversal
        BY <2>1, <2>2, <1>1, SetTyped
    <2>4. /\ waived' \in [Sales -> SUBSET Causes]
          /\ \A r \in Sales : waived[r] \subseteq waived'[r] /\ (r # txn.sale => waived'[r] = waived[r])
          /\ ret /\ txn.sent /\ SetIsRefused => "refused" \in waived'[txn.sale]
        BY <2>2, <1>1, WaiveEffect DEF Causes
    <2> QED BY <2>3, <2>4, <1>1, <1>2 DEF SaleFrame, InSale, StoredPCs
<1>5. TypeOK'
    <2> DEFINE closed == [Saved(disk) EXCEPT !.incomplete = FALSE]
    <2>1. /\ closed \in Disks /\ closed.sale = txn.sale /\ closed.sent = txn.sent
          /\ closed.reversal = disk.reversal /\ closed.pending = disk.pending
          /\ closed.queue = disk.queue /\ closed.totals = disk.totals
        BY <1>1, SavedTyped DEF Disks
    <2>2. /\ disk' = IF ret /\ txn.sent THEN ReversalSet(closed, txn.sale) ELSE closed
          /\ WaiveIf(ret /\ txn.sent /\ SetIsRefused, txn.sale, "refused")
          /\ (ret' <=> ret)
        BY DEF WaiveIf
    <2> HIDE DEF closed
    <2>3. /\ disk' \in Disks /\ disk'.sale = txn.sale /\ disk'.sent = txn.sent
          /\ disk'.pending = disk.pending /\ disk'.queue = disk.queue /\ disk'.totals = disk.totals
          /\ disk'.reversal = IF ret /\ txn.sent /\ ~totals.repeat /\ disk.reversal = None
                              THEN txn.sale ELSE disk.reversal
        BY <2>1, <2>2, <1>1, SetTyped
    <2>4. /\ waived' \in [Sales -> SUBSET Causes]
          /\ \A r \in Sales : waived[r] \subseteq waived'[r] /\ (r # txn.sale => waived'[r] = waived[r])
          /\ ret /\ txn.sent /\ SetIsRefused => "refused" \in waived'[txn.sale]
        BY <2>2, <1>1, WaiveEffect DEF Causes
    <2>5. revCount' \in BOOLEAN /\ feed' \in BOOLEAN /\ ret' \in BOOLEAN
        BY <1>1 DEF TypeOK, Txns, PiggyBack
    <2> QED BY <2>3, <2>4, <2>5, <1>1, <1>2, PurchaseAssumption DEF TypeOK, PCs, Jobs
<1>6. Placed' /\ Current'
    BY <1>1, <1>2, <1>4 DEF PInv, Known, Placed, Current, InSale, SaleFrame, UploadPCs
<1>7. Queued(txn.sale) /\ txn.sale \in posted' => Reversed(txn.sale)'
    <2> DEFINE closed == [Saved(disk) EXCEPT !.incomplete = FALSE]
    <2>1. /\ closed \in Disks /\ closed.sale = txn.sale /\ closed.sent = txn.sent
          /\ closed.reversal = disk.reversal /\ closed.pending = disk.pending
          /\ closed.queue = disk.queue /\ closed.totals = disk.totals
        BY <1>1, SavedTyped DEF Disks
    <2>2. /\ disk' = IF ret /\ txn.sent THEN ReversalSet(closed, txn.sale) ELSE closed
          /\ WaiveIf(ret /\ txn.sent /\ SetIsRefused, txn.sale, "refused")
          /\ (ret' <=> ret)
        BY DEF WaiveIf
    <2> HIDE DEF closed
    <2>3. /\ disk' \in Disks /\ disk'.sale = txn.sale /\ disk'.sent = txn.sent
          /\ disk'.pending = disk.pending /\ disk'.queue = disk.queue /\ disk'.totals = disk.totals
          /\ disk'.reversal = IF ret /\ txn.sent /\ ~totals.repeat /\ disk.reversal = None
                              THEN txn.sale ELSE disk.reversal
        BY <2>1, <2>2, <1>1, SetTyped
    <2>4. /\ waived' \in [Sales -> SUBSET Causes]
          /\ \A r \in Sales : waived[r] \subseteq waived'[r] /\ (r # txn.sale => waived'[r] = waived[r])
          /\ ret /\ txn.sent /\ SetIsRefused => "refused" \in waived'[txn.sale]
        BY <2>2, <1>1, WaiveEffect DEF Causes
    <2>5. Reversed(txn.sale) => Reversed(txn.sale)'
        BY <2>3, <2>4, <1>1, <1>2, ReversedStays DEF None, Sales
    <2>6. Queued(txn.sale)' <=> Queued(txn.sale)
        BY <2>3, <1>2 DEF Queued
    <2>7. txn.sale \in posted' <=> txn.sale \in posted
        OBVIOUS
    <2> QED BY <2>5, <2>7, <1>1 DEF PInv, Books, Once
<1>8. Before'
    BY <1>1, <1>2, SetTyped, SavedTyped DEF PInv, Staged, Before, BeforePCs, RequestPCs, ResultPCs, StoredPCs, UploadPCs, Approvals, Txns
<1>9. Requested'
    BY <1>1, <1>2, <1>4, SetTyped, SavedTyped DEF PInv, Staged, Requested, BeforePCs, RequestPCs, ResultPCs, StoredPCs, UploadPCs, Approvals
<1>10. Outcome'
    BY <1>1, <1>2, <1>4, SetTyped, SavedTyped DEF PInv, Staged, Outcome, Online, BeforePCs, RequestPCs, ResultPCs, StoredPCs, UploadPCs, Approvals
<1>11. Resulted'
    BY <1>1, <1>2, <1>4, SetTyped, SavedTyped DEF PInv, Staged, Resulted, IsApproved, BeforePCs, RequestPCs, ResultPCs, StoredPCs, UploadPCs, Approvals
<1>12. Held'
    <2> DEFINE closed == [Saved(disk) EXCEPT !.incomplete = FALSE]
    <2>1. /\ closed \in Disks /\ closed.sale = txn.sale /\ closed.sent = txn.sent
          /\ closed.reversal = disk.reversal /\ closed.pending = disk.pending
          /\ closed.queue = disk.queue /\ closed.totals = disk.totals
        BY <1>1, SavedTyped DEF Disks
    <2>2. /\ disk' = IF ret /\ txn.sent THEN ReversalSet(closed, txn.sale) ELSE closed
          /\ WaiveIf(ret /\ txn.sent /\ SetIsRefused, txn.sale, "refused")
          /\ (ret' <=> ret)
        BY DEF WaiveIf
    <2> HIDE DEF closed
    <2>3. /\ disk' \in Disks /\ disk'.sale = txn.sale /\ disk'.sent = txn.sent
          /\ disk'.pending = disk.pending /\ disk'.queue = disk.queue /\ disk'.totals = disk.totals
          /\ disk'.reversal = IF ret /\ txn.sent /\ ~totals.repeat /\ disk.reversal = None
                              THEN txn.sale ELSE disk.reversal
        BY <2>1, <2>2, <1>1, SetTyped
    <2>4. /\ waived' \in [Sales -> SUBSET Causes]
          /\ \A r \in Sales : waived[r] \subseteq waived'[r] /\ (r # txn.sale => waived'[r] = waived[r])
          /\ ret /\ txn.sent /\ SetIsRefused => "refused" \in waived'[txn.sale]
        BY <2>2, <1>1, WaiveEffect DEF Causes
    <2>5. Reversed(txn.sale) => Reversed(txn.sale)'
        BY <2>3, <2>4, <1>1, <1>2, ReversedStays DEF None, Sales
    <2>6. Queued(txn.sale)' <=> Queued(txn.sale)
        BY <2>3, <1>2 DEF Queued
    <2>7. (txn.sale \in posted => Reversed(txn.sale)) \/ (disk.reversal = None /\ disk.sent /\ txn.sent)
        BY DEF PInv, Staged, Held, StoredPCs
    <2>8. CASE ret /\ txn.sent /\ disk.reversal = None
        <3>1. Reversed(txn.sale)'
            BY <2>3, <2>4, <2>8, <1>1, <1>2 DEF Reversed, GivenUp, SetIsRefused
        <3> QED BY <3>1, <1>2 DEF Held
    <2>9. CASE ~(ret /\ txn.sent) /\ disk.reversal = None
        <3>1. txn'.sent = txn.sent
            BY <1>1 DEF Txns
        <3> QED BY <2>2, <2>3, <2>5, <2>7, <2>9, <3>1, <1>2 DEF Held
    <2>10. CASE disk.reversal # None
        BY <2>5, <2>7, <2>10, <1>2 DEF Held
    <2> QED BY <2>8, <2>9, <2>10
<1>13. Printed'
    <2> DEFINE closed == [Saved(disk) EXCEPT !.incomplete = FALSE]
    <2>1. /\ closed \in Disks /\ closed.sale = txn.sale /\ closed.sent = txn.sent
          /\ closed.reversal = disk.reversal /\ closed.pending = disk.pending
          /\ closed.queue = disk.queue /\ closed.totals = disk.totals
        BY <1>1, SavedTyped DEF Disks
    <2>2. /\ disk' = IF ret /\ txn.sent THEN ReversalSet(closed, txn.sale) ELSE closed
          /\ WaiveIf(ret /\ txn.sent /\ SetIsRefused, txn.sale, "refused")
          /\ (ret' <=> ret)
        BY DEF WaiveIf
    <2> HIDE DEF closed
    <2>3. /\ disk' \in Disks /\ disk'.sale = txn.sale /\ disk'.sent = txn.sent
          /\ disk'.pending = disk.pending /\ disk'.queue = disk.queue /\ disk'.totals = disk.totals
          /\ disk'.reversal = IF ret /\ txn.sent /\ ~totals.repeat /\ disk.reversal = None
                              THEN txn.sale ELSE disk.reversal
        BY <2>1, <2>2, <1>1, SetTyped
    <2>4. /\ waived' \in [Sales -> SUBSET Causes]
          /\ \A r \in Sales : waived[r] \subseteq waived'[r] /\ (r # txn.sale => waived'[r] = waived[r])
          /\ ret /\ txn.sent /\ SetIsRefused => "refused" \in waived'[txn.sale]
        BY <2>2, <1>1, WaiveEffect DEF Causes
    <2>5. ret => txn'.error = "print"
        BY <1>1 DEF Txns
    <2> QED BY <2>2, <2>5 DEF Printed
<1>14. Agreed'
    <2> DEFINE closed == [Saved(disk) EXCEPT !.incomplete = FALSE]
    <2>1. /\ closed \in Disks /\ closed.sale = txn.sale /\ closed.sent = txn.sent
          /\ closed.reversal = disk.reversal /\ closed.pending = disk.pending
          /\ closed.queue = disk.queue /\ closed.totals = disk.totals
        BY <1>1, SavedTyped DEF Disks
    <2>2. /\ disk' = IF ret /\ txn.sent THEN ReversalSet(closed, txn.sale) ELSE closed
          /\ WaiveIf(ret /\ txn.sent /\ SetIsRefused, txn.sale, "refused")
          /\ (ret' <=> ret)
        BY DEF WaiveIf
    <2> HIDE DEF closed
    <2>3. /\ disk' \in Disks /\ disk'.sale = txn.sale /\ disk'.sent = txn.sent
          /\ disk'.pending = disk.pending /\ disk'.queue = disk.queue /\ disk'.totals = disk.totals
          /\ disk'.reversal = IF ret /\ txn.sent /\ ~totals.repeat /\ disk.reversal = None
                              THEN txn.sale ELSE disk.reversal
        BY <2>1, <2>2, <1>1, SetTyped
    <2>4. /\ waived' \in [Sales -> SUBSET Causes]
          /\ \A r \in Sales : waived[r] \subseteq waived'[r] /\ (r # txn.sale => waived'[r] = waived[r])
          /\ ret /\ txn.sent /\ SetIsRefused => "refused" \in waived'[txn.sale]
        BY <2>2, <1>1, WaiveEffect DEF Causes
    <2>5. Reversed(txn.sale) => Reversed(txn.sale)'
        BY <2>3, <2>4, <1>1, <1>2, ReversedStays DEF None, Sales
    <2>6. Queued(txn.sale)' <=> Queued(txn.sale)
        BY <2>3, <1>2 DEF Queued
    <2>7. /\ ret => (Queued(txn.sale) => "receipt" \in waived[txn.sale])
          /\ ~ret /\ IsApproved(txn) =>
                \/ txn.sale \in posted /\ disk.reversal # txn.sale
                \/ Queued(txn.sale)
                \/ waived[txn.sale] \cap {"discarded", "unsent", "journal"} # {}
          /\ ~ret /\ ~IsApproved(txn) =>
                /\ txn.sale \in posted => Reversed(txn.sale)
                /\ Queued(txn.sale) => "receipt" \in waived[txn.sale]
        BY DEF PInv, Staged, Agreed, StoredPCs
    <2>8. ~ret => txn' = txn
        OBVIOUS
    <2>9. ~ret => (IsApproved(txn') <=> IsApproved(txn))
        BY <2>8 DEF IsApproved
    <2>10. waived[txn.sale] \subseteq waived'[txn.sale] /\ (~ret => disk'.reversal = disk.reversal)
        BY <2>3, <2>4, <1>1
    <2> QED BY <2>2, <2>5, <2>6, <2>7, <2>9, <2>10, <1>2 DEF Agreed, Queued, Reversed, GivenUp
<1> QED BY <1>4, <1>5, <1>6, <1>7, <1>8, <1>9, <1>10, <1>11, <1>12, <1>13, <1>14, FrameBooks DEF PInv, Known, Staged

-----------------------------------------------------------------------------
(* The steps that begin a sale, commit it and end it. *)

LEMMA BeginSaleStep == ASSUME PInv, BeginSale PROVE PInv'
<1> USE DEF BeginSale, Goto, ram, books
<1>1. /\ ~InSale /\ TypeOK /\ disk \in Disks /\ ~disk.pending /\ Closed = started
      /\ started \in 0 .. MaxSales /\ started < MaxSales
    BY DEF PInv, Known, Current, InSale, TypeOK, Closed
<1>2. PICK c \in Cards : txn' = [NoTxn EXCEPT !.sale = started + 1, !.card = c]
    OBVIOUS
<1>3. /\ started' \in Sales /\ started' = started + 1 /\ started \in Int
      /\ InSale' /\ Closed' = started /\ pc' = "start"
    BY <1>1, PurchaseAssumption DEF Sales, InSale, Closed, StoredPCs
<1>4. /\ txn' \in Txns /\ txn'.sale = started' /\ txn'.error = "none" /\ txn'.rc = "none"
      /\ ~txn'.needs /\ ~txn'.was91
    BY <1>2, <1>3 DEF NoTxn, Txns, Errors, Codes
<1>5. /\ disk' \in Disks /\ disk'.sale = started' /\ disk'.pending
      /\ disk'.reversal = disk.reversal /\ disk'.queue = disk.queue /\ disk'.totals = disk.totals
    BY <1>1, <1>3 DEF Disks
<1>6. TypeOK'
    <2>1. retries' \in 0 .. MaxRetries /\ started' \in 0 .. MaxSales /\ failures' \in 0 .. MaxFailures
        BY <1>1, <1>3, PurchaseAssumption DEF TypeOK, Sales
    <2>2. pc' \in PCs /\ job' \in Jobs /\ ret' \in BOOLEAN
        BY <1>3 DEF PCs, Jobs
    <2> QED BY <1>1, <1>4, <1>5, <2>1, <2>2 DEF TypeOK
<1>7. Placed'
    BY <1>3 DEF Placed, UploadPCs
<1>8. told'[started'] = "nothing" /\ waived'[started'] = {} /\ started' \notin posted' /\ started' \notin advised'
    BY <1>1, <1>3 DEF PInv, Known, Begun
<1>9. Current'
    BY <1>3, <1>4, <1>5, <1>8 DEF Current
<1>10. Begun'
    <2>1. disk'.sale <= started' /\ disk'.reversal <= started'
        BY <1>1, <1>3, <1>5 DEF PInv, Known, Begun, Disks, Sales, None
    <2>2. \A s \in Sales : s \in posted => s <= started'
        BY <1>3 DEF PInv, Known, Begun, Sales
    <2>3. \A s \in Sales : s > started' => s > started
        BY <1>3 DEF Sales
    <2> QED BY <2>1, <2>2, <2>3, <1>1, <1>3 DEF PInv, Known, Begun
<1>11. Single'
    <2>1. \A a \in disk.queue : a.sale <= started
        BY <1>1 DEF PInv, Known, Single
    <2> QED BY <2>1, <1>3, <1>5, <1>8 DEF PInv, Known, Single
<1>12. Bounded'
    BY <1>1, <1>3, <1>5 DEF PInv, Known, Bounded
<1>13. \A s \in Sales : (Queued(s)' <=> Queued(s)) /\ (Reversed(s)' <=> Reversed(s)) /\ (GivenUp(s)' <=> GivenUp(s))
    BY <1>5 DEF Queued, Reversed, GivenUp
<1>14. Books'
    BY <1>5, <1>13 DEF PInv, Books, Once, Declined, Approved, Cancelled
<1>15. Staged'
    BY <1>3, <1>4, <1>8 DEF Staged, Before, Requested, Outcome, Resulted, Held, Printed, Agreed,
        RequestPCs, ResultPCs, StoredPCs
<1> QED BY <1>6, <1>7, <1>9, <1>10, <1>11, <1>12, <1>14, <1>15 DEF PInv, Known

LEMMA RespondStep == ASSUME PInv, Respond PROVE PInv'
<1> USE DEF Respond, Goto, ram, books, counters
<1>1. /\ InSale /\ TypeOK /\ disk \in Disks /\ txn \in Txns /\ txn.sale = started /\ started \in Sales
      /\ Closed = started /\ started \notin advised /\ job = "sale"
      /\ waived \in [Sales -> SUBSET Causes] /\ told \in [Sales -> Tellings]
    BY DEF PInv, Known, Current, Placed, Single, InSale, TypeOK, Closed, StoredPCs, UploadPCs
<1>2. ~InSale' /\ Closed' = started
    BY <1>1 DEF InSale, Closed
<1>3. /\ disk' \in Disks /\ disk'.sale = started /\ ~disk'.incomplete /\ ~disk'.pending
      /\ disk'.reversal = disk.reversal /\ disk'.queue = disk.queue /\ disk'.totals = disk.totals
    BY <1>1, SavedTyped DEF Disks
<1>4. /\ waived' \in [Sales -> SUBSET Causes]
      /\ \A r \in Sales : waived[r] \subseteq waived'[r] /\ (r # started => waived'[r] = waived[r])
      /\ IsUnsent(txn) => "unsent" \in waived'[started]
    BY <1>1, WaiveEffect DEF Causes
<1>5. /\ told' \in [Sales -> Tellings]
      /\ told'[started] = IF IsApproved(txn) \/ IsUnsent(txn) THEN "approved" ELSE "declined"
      /\ \A r \in Sales : r # started => told'[r] = told[r]
    BY <1>1 DEF Tellings
<1>6. TypeOK'
    BY <1>1, <1>3, <1>4, <1>5 DEF TypeOK, PCs
<1>7. Placed' /\ Current'
    BY <1>2, <1>3 DEF Placed, Current, UploadPCs
<1>8. Begun' /\ Single' /\ Bounded'
    <2>1. Begun'
        <3>1. \A s \in Sales : s > started => s # started
            <4>1. started \in Int
                BY <1>1, PurchaseAssumption DEF Sales
            <4> QED BY <4>1
        <3>2. \A s \in Sales : s > started => told'[s] = "nothing" /\ waived'[s] = {}
            BY <3>1, <1>4, <1>5 DEF PInv, Known, Begun
        <3>3. disk'.sale <= started
            BY <1>1, <1>3 DEF PInv, Known, Begun, Current
        <3> QED BY <3>2, <3>3, <1>1, <1>2, <1>3 DEF PInv, Known, Begun
    <2>2. Single' /\ Bounded'
        BY <1>1, <1>2, <1>3 DEF PInv, Known, Single, Bounded
    <2> QED BY <2>1, <2>2
<1>9. \A s \in Sales : /\ Queued(s)' <=> Queued(s)
                       /\ Reversed(s) => Reversed(s)'
                       /\ GivenUp(s) => GivenUp(s)'
    BY <1>3, <1>4 DEF Queued, Reversed, GivenUp
<1>10. Once'
    BY <1>3, <1>9 DEF PInv, Books, Once
<1>11. Declined'
    <2> SUFFICES ASSUME NEW s \in Sales, told'[s] = "declined"
                 PROVE  /\ s \in posted => Reversed(s)'
                        /\ s \in advised \/ Queued(s) => "receipt" \in waived'[s]
        BY <1>9 DEF Declined
    <2>1. CASE s # started
        BY <2>1, <1>4, <1>5, <1>9 DEF PInv, Books, Declined
    <2>2. CASE s = started
        <3>1. ~IsApproved(txn)
            BY <2>2, <1>5
        <3>2. Queued(s) => "receipt" \in waived'[s]
            BY <3>1, <2>2, <1>1, <1>4 DEF PInv, Staged, Agreed, StoredPCs
        <3>3. s \in posted => Reversed(s)
            BY <3>1, <2>2, <1>1 DEF PInv, Staged, Agreed, Held, StoredPCs
        <3> QED BY <3>2, <3>3, <2>2, <1>1, <1>9
    <2> QED BY <2>1, <2>2
<1>12. Approved'
    <2> SUFFICES ASSUME NEW s \in Sales, told'[s] = "approved"
                 PROVE  \/ s \in posted /\ disk.reversal # s
                        \/ s \in advised \/ Queued(s)
                        \/ waived'[s] \cap {"discarded", "unsent", "journal"} # {}
        BY <1>3, <1>9 DEF Approved
    <2>1. CASE s # started
        BY <2>1, <1>4, <1>5 DEF PInv, Books, Approved
    <2>2. CASE s = started /\ IsUnsent(txn)
        BY <2>2, <1>4
    <2>3. CASE s = started /\ IsApproved(txn)
        <3>1. ~ret
            BY <2>3 DEF PInv, Staged, Printed, IsApproved
        <3> QED BY <3>1, <2>3, <1>1, <1>4 DEF PInv, Staged, Agreed, StoredPCs
    <2> QED BY <2>1, <2>2, <2>3, <1>5
<1>13. Cancelled'
    <2>1. told'[started] = "approved" \/ told'[started] = "declined"
        BY <1>5
    <2> QED BY <2>1, <1>4, <1>5, <1>9 DEF PInv, Books, Cancelled
<1>14. Staged'
    BY <1>2 DEF Staged, Before, Requested, Outcome, Resulted, Held, Printed, Agreed,
        RequestPCs, ResultPCs, StoredPCs
<1> QED BY <1>6, <1>7, <1>8, <1>10, <1>11, <1>12, <1>13, <1>14 DEF PInv, Known, Books

-----------------------------------------------------------------------------
(* The idle terminal, and the power. *)

\* a step of the idle terminal: no books, no sale
LEMMA IdleFrame ==
    ASSUME PInv, TypeOK', ~InSale, ~InSale', Placed', Current',
           posted' = posted, advised' = advised, told' = told, waived' = waived, started' = started,
           disk'.reversal = disk.reversal, disk'.queue = disk.queue, disk'.totals = disk.totals,
           disk'.sale <= started, totals'.count <= started, started \in Int,
           pc' \notin RequestPCs \cup ResultPCs \cup StoredPCs
    PROVE  PInv'
<1>1. Closed = started /\ Closed' = started
    BY DEF Closed
<1>2. Begun' /\ Single' /\ Bounded'
    BY <1>1 DEF PInv, Known, Begun, Single, Bounded
<1>3. \A s \in Sales : (Queued(s)' <=> Queued(s)) /\ (Reversed(s)' <=> Reversed(s)) /\ (GivenUp(s)' <=> GivenUp(s))
    BY DEF Queued, Reversed, GivenUp
<1>4. Books'
    BY <1>3 DEF PInv, Books, Once, Declined, Approved, Cancelled
<1>5. Staged'
    BY DEF Staged, Before, Requested, Outcome, Resulted, Held, Printed, Agreed,
        RequestPCs, ResultPCs, StoredPCs
<1> QED BY <1>2, <1>4, <1>5 DEF PInv, Known

\* there are no more advices than sales that are over
LEMMA CountBound ==
    ASSUME Known
    PROVE  /\ IsFiniteSet(disk.queue)
           /\ Cardinality(disk.queue) \in 0 .. MaxSales
           /\ Cardinality(disk.queue) <= Closed
           /\ Closed \in 0 .. MaxSales
<1>1. Closed \in 0 .. MaxSales
    <2>1. started \in 0 .. MaxSales /\ (InSale => started \in 1 .. MaxSales)
        BY DEF Known, TypeOK, Current, Sales
    <2> QED BY <2>1, PurchaseAssumption DEF Closed
<1>2. /\ disk.queue \subseteq Advices
      /\ \A a \in disk.queue : a.sale \in 1 .. Closed
    BY <1>1, PurchaseAssumption DEF Known, TypeOK, Disks, Single, Advices, Sales
<1> DEFINE f == [a \in disk.queue |-> a.sale]
<1>3. f \in Injection(disk.queue, 1 .. Closed)
    BY <1>2 DEF Known, Single, Injection, IsInjective
<1>4. IsFiniteSet(1 .. Closed) /\ Cardinality(1 .. Closed) = Closed
    BY <1>1, PurchaseAssumption, FS_Interval
<1>5. IsFiniteSet(disk.queue) /\ Cardinality(disk.queue) <= Closed
    <2> HIDE DEF f
    <2> QED BY <1>3, <1>4, FS_Injection
<1>6. Cardinality(disk.queue) \in Nat
    BY <1>5, FS_CardinalityType
<1> QED BY <1>1, <1>5, <1>6, PurchaseAssumption

LEMMA RecountTyped ==
    ASSUME Known PROVE Recounted \in Totals /\ Recounted.count <= Closed /\ Recounted.repeat = totals.repeat
BY CountBound DEF Recounted, Known, TypeOK, Totals

LEMMA IdleStep == ASSUME PInv, IdleTick \/ Feed \/ LogonUpload \/ PosStatus PROVE PInv'
<1> USE DEF Goto, ram, books
<1> USE DEF counters
<1>0. pc = "idle"
    BY DEF IdleTick, Feed, LogonUpload, PosStatus
<1>1. /\ ~InSale /\ pc = "idle" /\ TypeOK /\ disk \in Disks /\ ~disk.pending /\ Closed = started
      /\ totals \in Totals /\ totals.count <= started /\ disk.sale <= started /\ started \in 0 .. MaxSales
    BY <1>0 DEF PInv, Known, Current, Bounded, Begun, InSale, TypeOK, Closed
<1>2. CASE IdleTick
    <2> USE DEF IdleTick
    <2>1. /\ disk' \in Disks /\ ~disk'.incomplete /\ ~disk'.pending /\ disk'.sale = disk.sale
          /\ disk'.reversal = disk.reversal /\ disk'.queue = disk.queue /\ disk'.totals = disk.totals
        BY <1>1, <1>2 DEF Disks
    <2>2. TypeOK' /\ ~InSale'
        BY <2>1, <1>1, <1>2 DEF TypeOK, InSale
    <2>3. Placed' /\ Current'
        BY <2>1, <2>2, <1>1, <1>2 DEF Placed, Current, UploadPCs
    <2> QED BY <2>1, <2>2, <2>3, <1>1, <1>2, IdleFrame DEF RequestPCs, ResultPCs, StoredPCs
<1>3. CASE Feed
    <2> USE DEF Feed
    <2>1. /\ disk' \in Disks /\ ~disk'.incomplete /\ ~disk'.pending /\ disk'.sale = None
          /\ disk'.reversal = disk.reversal /\ disk'.queue = disk.queue /\ disk'.totals = disk.totals
        BY <1>1, <1>3 DEF Disks
    <2>2. TypeOK' /\ ~InSale'
        BY <2>1, <1>1, <1>3 DEF TypeOK, InSale, PCs, Jobs, NoTxn, Txns, Cards, Errors, Codes
    <2>3. Placed' /\ Current'
        BY <2>1, <2>2, <1>1, <1>3 DEF Placed, Current, UploadPCs
    <2> QED BY <2>1, <2>2, <2>3, <1>1, <1>3, IdleFrame, PurchaseAssumption DEF RequestPCs, ResultPCs, StoredPCs, None
<1>4. CASE LogonUpload
    <2> USE DEF LogonUpload
    <2>1. TypeOK' /\ ~InSale'
        BY <1>1, <1>4 DEF TypeOK, InSale, PCs, Jobs
    <2>2. Placed' /\ Current'
        BY <2>1, <1>1, <1>4 DEF PInv, Known, Placed, Current, UploadPCs
    <2> QED BY <2>1, <2>2, <1>1, <1>4, IdleFrame DEF RequestPCs, ResultPCs, StoredPCs
<1>5. CASE PosStatus
    <2> USE DEF PosStatus
    <2>1. totals' \in Totals /\ totals'.count <= started
        BY <1>1, <1>5, RecountTyped DEF PInv
    <2>2. TypeOK' /\ ~InSale'
        BY <2>1, <1>1, <1>5 DEF TypeOK, InSale
    <2>3. Placed' /\ Current'
        BY <2>2, <1>1, <1>5 DEF PInv, Known, Placed, Current, UploadPCs
    <2> QED BY <2>1, <2>2, <2>3, <1>1, <1>5, IdleFrame DEF RequestPCs, ResultPCs, StoredPCs
<1> QED BY <1>2, <1>3, <1>4, <1>5

-----------------------------------------------------------------------------
(* The commit, with an advice stored or without. *)

\* the stages of a sale after a commit that stores nothing
LEMMA CommitFrame ==
    ASSUME PInv, SaleFrame, TypeOK', pc = "commit", pc' \in {"stored", "copy"}, ret' = ret,
           posted' = posted, waived' = waived,
           txn'.printed = txn.printed, txn'.signed = txn.signed,
           ~Online(txn) => (txn.sale \in posted => Reversed(txn.sale)') /\ ~IsApproved(txn'),
           Online(txn) => txn' = txn /\ disk' = disk
    PROVE  PInv'
<1>1. /\ InSale /\ txn.sale = started /\ started \in Sales /\ job = "sale"
      /\ ~Queued(txn.sale) /\ ~ret /\ pc' \in StoredPCs
    BY NotYet DEF PInv, Known, Current, SaleFrame, InSale, StoredPCs
<1>2. txn'.sale = txn.sale /\ ~ret'
    BY <1>1 DEF SaleFrame
<1>3. ~Queued(txn.sale)'
    BY <1>1, <1>2 DEF Queued, SaleFrame
<1>4. Placed' /\ Current'
    BY <1>1, <1>2 DEF SaleFrame, PInv, Known, Placed, Current, InSale, UploadPCs
<1>5. /\ Online(txn) => txn.sale \in posted /\ disk.reversal = None /\ txn.sent /\ disk.sent
      /\ txn.printed \/ txn.signed
    BY DEF PInv, Staged, Outcome, Resulted, ResultPCs
<1>6. Held'
    BY <1>1, <1>2, <1>5 DEF Held
<1>7. Printed'
    BY <1>2, <1>3, <1>5 DEF Printed, Queued
<1>8. Agreed'
    <2>1. CASE Online(txn)
        <3>1. IsApproved(txn') /\ txn.sale \in posted' /\ disk'.reversal # txn.sale
            BY <2>1, <1>1, <1>5 DEF Online, IsApproved, None, Sales
        <3> QED BY <3>1, <1>2 DEF Agreed
    <2>2. CASE ~Online(txn)
        BY <2>2, <1>2, <1>3 DEF Agreed, Queued, Reversed, GivenUp
    <2> QED BY <2>1, <2>2
<1>9. Before' /\ Requested' /\ Outcome' /\ Resulted'
    BY DEF Before, Requested, Outcome, Resulted, BeforePCs, RequestPCs, ResultPCs
<1>10. Queued(txn.sale) /\ txn.sale \in posted' => Reversed(txn.sale)'
    BY <1>1
<1> QED BY <1>4, <1>6, <1>7, <1>8, <1>9, <1>10, FrameBooks DEF PInv, Known, Staged

\* what the commit makes of the reversal file
CommitDisk == IF txn.was91 THEN ReversalCleared(disk) ELSE disk

LEMMA CommitKeeps ==
    ASSUME PInv, pc = "commit", NEW d,
           d \in {CommitDisk, IF revCount /\ ~txn.was91 THEN ReversalSet(CommitDisk, txn.sale) ELSE CommitDisk}
    PROVE  /\ d \in Disks
           /\ d.sale = disk.sale /\ d.sent = disk.sent /\ d.incomplete = disk.incomplete
           /\ d.pending = disk.pending /\ d.queue = disk.queue /\ d.totals = disk.totals
           /\ d.reversal = disk.reversal \/ {d.reversal, disk.reversal} \subseteq {None, txn.sale}
           /\ disk.reversal = txn.sale => d.reversal = txn.sale \/ txn.was91
           /\ txn.was91 => txn.sale \notin posted
<1>1. /\ disk \in Disks /\ txn.sale \in Sales
      /\ txn.was91 => txn.sale \notin posted /\ disk.reversal \in {None, txn.sale}
    BY DEF PInv, Known, TypeOK, Placed, Current, InSale, UploadPCs, Staged, Resulted, ResultPCs
<1>2. /\ CommitDisk \in Disks
      /\ CommitDisk.sale = disk.sale /\ CommitDisk.sent = disk.sent /\ CommitDisk.incomplete = disk.incomplete
      /\ CommitDisk.pending = disk.pending /\ CommitDisk.queue = disk.queue /\ CommitDisk.totals = disk.totals
      /\ CommitDisk.reversal = IF txn.was91 THEN None ELSE disk.reversal
    BY <1>1 DEF CommitDisk, ReversalCleared, Disks, None
<1>3. CASE d = CommitDisk
    BY <1>1, <1>2, <1>3
<1>4. CASE d = ReversalSet(CommitDisk, txn.sale) /\ ~txn.was91
    BY <1>1, <1>2, <1>4, SetTyped DEF None, Sales
<1> QED BY <1>3, <1>4

LEMMA CommitPlain ==
    ASSUME PInv, pc = "commit", pc' \in {"stored", "copy"},
           UNCHANGED <<disk, txn, totals, revCount, waived, ret, feed, job, answer, books, told, counters>>,
           txn.error = "removed" \/ OnlineResult(txn)
    PROVE  PInv'
<1> USE DEF books, counters
<1>1. InSale /\ txn.sale = started /\ started \in Sales /\ TypeOK /\ job = "sale"
    BY DEF PInv, Known, Current, Placed, InSale, UploadPCs
<1>2. TypeOK'
    BY <1>1 DEF TypeOK, PCs
<1>3. SaleFrame
    BY <1>1 DEF SaleFrame, InSale, StoredPCs
<1>4. IsApproved(txn) /\ txn.error # "removed" => Online(txn)
    BY DEF IsApproved, OnlineResult, Online
<1>5. ~Online(txn) => (txn.sale \in posted => Reversed(txn.sale)') /\ ~IsApproved(txn')
    <2>1. ~Online(txn) => ~IsApproved(txn)
        BY <1>4 DEF IsApproved
    <2>2. IsApproved(txn') <=> IsApproved(txn)
        BY DEF IsApproved
    <2> QED BY <2>1, <2>2 DEF PInv, Staged, Outcome, ResultPCs, Reversed, GivenUp
<1> QED BY <1>2, <1>3, <1>5, CommitFrame

LEMMA CommitUnstored ==
    ASSUME PInv, pc = "commit", pc' \in {"stored", "copy"}, revCount' \in BOOLEAN,
           UNCHANGED <<totals, waived, ret, feed, job, answer, books, told, counters>>,
           ~OnlineResult(txn), txn.error # "removed",
           disk' \in {CommitDisk, IF revCount /\ ~txn.was91 THEN ReversalSet(CommitDisk, txn.sale) ELSE CommitDisk},
           \/ txn' = txn /\ ~txn.needs
           \/ txn.needs /\ txn' = [txn EXCEPT !.sent = FALSE, !.error = "system"]
    PROVE  PInv'
<1> USE DEF books, counters
<1>1. InSale /\ txn.sale = started /\ started \in Sales /\ TypeOK /\ txn \in Txns /\ job = "sale"
    BY DEF PInv, Known, Current, Placed, InSale, UploadPCs, TypeOK
<1>2. /\ txn' \in Txns /\ txn'.sale = txn.sale /\ txn'.printed = txn.printed /\ txn'.signed = txn.signed
      /\ (txn' = txn /\ ~txn.needs) \/ txn'.error = "system"
    BY <1>1 DEF Txns, Errors
<1>3. TypeOK'
    BY <1>1, <1>2, CommitKeeps DEF TypeOK, PCs
<1>4. SaleFrame
    BY <1>1, <1>2, CommitKeeps DEF SaleFrame, InSale, StoredPCs
<1>5. ~Online(txn)
    BY DEF Online, OnlineResult, Approvals
<1>6. ~IsApproved(txn')
    <2>1. CASE txn' = txn /\ ~txn.needs
        <3>1. txn.error # "efb"
            BY <2>1 DEF PInv, Staged, Resulted, ResultPCs
        <3> QED BY <2>1, <3>1 DEF IsApproved, OnlineResult, Approvals
    <2>2. CASE txn'.error = "system"
        BY <2>2 DEF IsApproved
    <2> QED BY <1>2, <2>1, <2>2
<1>7. txn.sale \in posted => Reversed(txn.sale)'
    <2>1. txn.sale \in posted => Reversed(txn.sale)
        BY <1>5 DEF PInv, Staged, Outcome, ResultPCs
    <2>2. /\ disk.reversal = txn.sale => disk'.reversal = txn.sale \/ txn.was91
          /\ txn.was91 => txn.sale \notin posted
        BY CommitKeeps
    <2> QED BY <2>1, <2>2, <1>2 DEF Reversed, GivenUp
<1> QED BY <1>2, <1>3, <1>4, <1>5, <1>6, <1>7, CommitFrame

\* the advice of the current sale is stored
LEMMA CommitStores ==
    ASSUME PInv, pc = "commit", pc' = "stored", revCount' \in BOOLEAN, txn.needs, txn.error # "removed",
           UNCHANGED <<waived, ret, feed, job, answer, books, told, counters>>,
           txn' = [txn EXCEPT !.sent = FALSE],
           AdviceStored(IF revCount /\ ~txn.was91 THEN ReversalSet(CommitDisk, txn.sale) ELSE CommitDisk)
    PROVE  PInv'
<1> USE DEF books, counters
<1> DEFINE d == IF revCount /\ ~txn.was91 THEN ReversalSet(CommitDisk, txn.sale) ELSE CommitDisk
           new == [sale |-> txn.sale, repeat |-> FALSE, debit |-> txn.rc # "Z1"]
<1>1. /\ InSale /\ txn.sale = started /\ started \in Sales /\ TypeOK /\ txn \in Txns /\ job = "sale"
      /\ started \in 1 .. MaxSales /\ Closed = started - 1 /\ totals \in Totals /\ totals.count <= started - 1
      /\ disk.sale = started /\ disk.pending /\ told[started] = "nothing"
      /\ ~Queued(txn.sale) /\ txn.sale \notin advised /\ ~ret /\ disk \in Disks
    BY NotYet DEF PInv, Known, Current, Placed, Bounded, InSale, UploadPCs, StoredPCs, TypeOK, Closed, Sales
<1>2. /\ d \in Disks
      /\ d.sale = disk.sale /\ d.sent = disk.sent /\ d.incomplete = disk.incomplete
      /\ d.pending = disk.pending /\ d.queue = disk.queue /\ d.totals = disk.totals
      /\ d.reversal = disk.reversal \/ {d.reversal, disk.reversal} \subseteq {None, txn.sale}
      /\ disk.reversal = txn.sale => d.reversal = txn.sale \/ txn.was91
      /\ txn.was91 => txn.sale \notin posted
    BY CommitKeeps
<1>3. /\ totals' = [totals EXCEPT !.count = @ + 1]
      /\ disk' = [d EXCEPT !.queue = @ \cup {new}, !.totals = totals']
    BY DEF AdviceStored
<1>4. totals' \in Totals /\ totals'.count = totals.count + 1
    BY <1>1, <1>3, PurchaseAssumption DEF Totals
<1>5. new \in Advices /\ new.sale = started /\ ~new.repeat /\ (new.debit <=> txn.rc # "Z1")
    BY <1>1 DEF Advices
<1> HIDE DEF d, new
<1>6. /\ disk' \in Disks /\ disk'.sale = started /\ disk'.pending
      /\ disk'.reversal = d.reversal /\ disk'.queue = disk.queue \cup {new} /\ disk'.totals = totals'
    BY <1>1, <1>2, <1>3, <1>4, <1>5 DEF Disks
<1>7. /\ txn' \in Txns /\ txn'.sale = txn.sale /\ txn'.error = txn.error /\ txn'.rc = txn.rc
      /\ txn'.printed = txn.printed /\ txn'.signed = txn.signed
    BY <1>1 DEF Txns
<1>8. TypeOK'
    BY <1>1, <1>4, <1>6, <1>7 DEF TypeOK, PCs
<1>9. InSale' /\ Closed' = started /\ ~ret'
    BY <1>1 DEF InSale, Closed, StoredPCs
<1>10. Placed' /\ Current'
    BY <1>1, <1>6, <1>7, <1>9 DEF Placed, Current, UploadPCs
<1>11. Begun'
    <2>1. disk'.reversal <= started
        BY <1>1, <1>2, <1>6, PurchaseAssumption DEF PInv, Known, Begun, None
    <2>2. \A s \in Sales : s \in advised => s <= started
        BY <1>1, PurchaseAssumption DEF PInv, Known, Begun, Sales
    <2> QED BY <2>1, <2>2, <1>1, <1>6, <1>9 DEF PInv, Known, Begun
<1>12. Single' /\ Bounded'
    <2>1. disk.queue \subseteq Advices /\ \A a \in disk.queue : a.sale <= started - 1
        BY <1>1 DEF PInv, Known, Single, Disks
    <2>2. \A a \in disk.queue : a.sale # started /\ a.sale <= started
        BY <2>1, <1>1, PurchaseAssumption DEF Advices, Sales
    <2>3. Single'
        BY <2>2, <1>1, <1>5, <1>6, <1>9 DEF PInv, Known, Single
    <2>4. Bounded'
        BY <1>1, <1>4, <1>6, <1>9, PurchaseAssumption DEF Bounded, Totals
    <2> QED BY <2>3, <2>4
<1>13. /\ \A s \in Sales \ {started} : Queued(s)' <=> Queued(s)
       /\ Queued(started)' <=> txn.rc # "Z1"
    BY <1>1, <1>5, <1>6 DEF Queued
<1>14. \A s \in Sales : s \in posted /\ Reversed(s) => Reversed(s)'
    <2>1. \A s \in Sales \ {started} : d.reversal = s <=> disk.reversal = s
        BY <1>1, <1>2 DEF None, Sales
    <2> QED BY <2>1, <1>1, <1>2, <1>6 DEF Reversed, GivenUp
<1>15. ~Online(txn) /\ (txn.sale \in posted => Reversed(txn.sale))
    BY DEF PInv, Staged, Outcome, Online, ResultPCs
<1>16. Books'
    <2>0. \A s \in Sales : GivenUp(s)' <=> GivenUp(s)
        BY DEF GivenUp
    <2>1. Once'
        <3> SUFFICES ASSUME NEW s \in Sales, s \in posted
                     PROVE  /\ Queued(s)' => Reversed(s)'
                            /\ s \in advised => GivenUp(s)
                            /\ \A a \in disk'.queue : a.sale = s /\ a.debit /\ a.repeat => GivenUp(s)
            BY <2>0 DEF Once
        <3>1. CASE s = started
            <4>1. \A a \in disk'.queue : a.sale = s /\ a.debit => ~a.repeat
                BY <3>1, <1>1, <1>5, <1>6 DEF Queued
            <4> QED BY <3>1, <4>1, <1>1, <1>14, <1>15
        <3>2. CASE s # started
            BY <3>2, <1>5, <1>6, <1>13, <1>14 DEF PInv, Books, Once
        <3> QED BY <3>1, <3>2
    <2>2. Declined'
        BY <1>1, <1>13, <1>14 DEF PInv, Books, Declined
    <2>3. Approved'
        <3>1. \A s \in Sales \ {started} : disk'.reversal = s => disk.reversal = s
            BY <1>1, <1>2, <1>6 DEF None, Sales
        <3> QED BY <3>1, <1>1, <1>13 DEF PInv, Books, Approved
    <2>4. Cancelled'
        BY <1>1, <1>13, <1>14 DEF PInv, Books, Cancelled
    <2> QED BY <2>1, <2>2, <2>3, <2>4 DEF Books
<1>17. /\ IsApproved(txn) \/ (txn.error = "card" /\ txn.rc = "Z1")
       /\ txn.error = "efb" => txn.rc = "08"
       /\ txn.printed \/ txn.signed
    BY DEF PInv, Staged, Resulted, ResultPCs
<1>18. Staged'
    <2>1. Held'
        BY <1>1, <1>7, <1>14, <1>15 DEF Held
    <2>2. Printed'
        BY <1>1, <1>7, <1>17 DEF Printed, IsApproved
    <2>3. IsApproved(txn') <=> IsApproved(txn)
        BY <1>7 DEF IsApproved
    <2>4. IsApproved(txn) <=> txn.rc # "Z1"
        BY <1>17 DEF IsApproved, Approvals
    <2>5. Agreed'
        BY <2>3, <2>4, <1>1, <1>7, <1>9, <1>13, <1>14, <1>15 DEF Agreed
    <2> QED BY <2>1, <2>2, <2>5 DEF Staged, Before, Requested, Outcome, Resulted, BeforePCs, RequestPCs, ResultPCs
<1> QED BY <1>8, <1>10, <1>11, <1>12, <1>16, <1>18 DEF PInv, Known

LEMMA CommitStep == ASSUME PInv, Commit PROVE PInv'
<1>1. pc = "commit" /\ revCount \in BOOLEAN
    BY DEF Commit, PInv, Known, TypeOK
<1>2. CASE /\ txn.error = "removed" \/ OnlineResult(txn)
           /\ pc' \in {"stored", "copy"}
           /\ UNCHANGED <<disk, txn, totals, revCount, waived, ret, feed, job, answer, books, told, counters>>
    BY <1>1, <1>2, CommitPlain
<1>3. CASE /\ txn.needs /\ txn' = [txn EXCEPT !.sent = FALSE] /\ txn.error # "removed"
           /\ pc' = "stored" /\ revCount' = (revCount /\ ~txn.was91)
           /\ UNCHANGED <<waived, ret, feed, job, answer, books, told, counters>>
           /\ AdviceStored(IF revCount /\ ~txn.was91 THEN ReversalSet(CommitDisk, txn.sale) ELSE CommitDisk)
    BY <1>1, <1>3, CommitStores
<1>4. CASE /\ ~OnlineResult(txn) /\ txn.error # "removed" /\ pc' \in {"stored", "copy"}
           /\ revCount' = (revCount /\ ~txn.was91)
           /\ UNCHANGED <<totals, waived, ret, feed, job, answer, books, told, counters>>
           /\ disk' \in {CommitDisk, IF revCount /\ ~txn.was91 THEN ReversalSet(CommitDisk, txn.sale)
                                                              ELSE CommitDisk}
           /\ \/ txn' = txn /\ ~txn.needs
              \/ txn.needs /\ txn' = [txn EXCEPT !.sent = FALSE, !.error = "system"]
    BY <1>1, <1>4, CommitUnstored
<1> QED BY <1>2, <1>3, <1>4 DEF Commit, Goto, CommitDisk

-----------------------------------------------------------------------------
(* The power. *)

\* a debit of the current sale has its reversal, or the restart will set it
LEMMA DebitIsKnown ==
    ASSUME PInv, InSale, txn.sale \in posted
    PROVE  Reversed(txn.sale) \/ (disk.reversal = None /\ disk.sent)
<1>1. pc \in PCs /\ pc # "idle" /\ pc # "advice"
    BY DEF PInv, Known, TypeOK, Placed, InSale
<1>2. CASE pc \in BeforePCs
    BY <1>2 DEF PInv, Staged, Before
<1>3. CASE pc \in RequestPCs
    BY <1>3 DEF PInv, Staged, Requested, Reversed, Refused, GivenUp
<1>4. CASE pc \in ResultPCs
    BY <1>4 DEF PInv, Staged, Outcome
<1>5. CASE pc \in StoredPCs
    BY <1>5 DEF PInv, Staged, Held
<1> QED BY <1>1, <1>2, <1>3, <1>4, <1>5 DEF PCs, BeforePCs, RequestPCs, ResultPCs, StoredPCs

LEMMA PowerFailStep == ASSUME PInv, PowerFail PROVE PInv'
<1> DEFINE interrupted == disk.incomplete \/ disk.pending
           set == /\ disk.incomplete /\ disk.reversal = None /\ disk.sent
           refused == set /\ disk.totals.repeat
           late == /\ disk.sale # None /\ disk.pending
                   /\ ~disk.incomplete \/ Of(disk.sale, disk.queue) # {}
<1>0. /\ started \in 0 .. MaxSales /\ disk.sale \in 0 .. MaxSales /\ started \in Int /\ disk.sale \in Int
      /\ disk.sale <= started /\ disk.reversal <= started
    <2>1. started \in 0 .. MaxSales /\ disk.sale \in Sales \cup {None}
        BY DEF PInv, Known, TypeOK, Disks
    <2>2. disk.sale \in 0 .. MaxSales
        BY <2>1, PurchaseAssumption DEF Sales, None
    <2> QED BY <2>1, <2>2, PurchaseAssumption DEF PInv, Known, Begun
<1>1. /\ TypeOK /\ disk \in Disks
      /\ waived \in [Sales -> SUBSET Causes] /\ told \in [Sales -> Tellings]
      /\ disk.pending <=> InSale
      /\ InSale => /\ disk.sale = started /\ txn.sale = started /\ started \in Sales
                   /\ told[started] = "nothing" /\ started \notin advised
      /\ ~InSale /\ disk.incomplete /\ disk.sale # None => told[disk.sale] = "power fail"
    BY DEF PInv, Known, TypeOK, Current, Single
<1>2. Closed \in Int /\ Closed <= started /\ started \in Int
    BY <1>0 DEF Closed
<1>3. ~InSale' /\ Closed' = started /\ started' = started
    BY DEF PowerFail, Goto, InSale, Closed
<1>4. /\ disk' \in Disks /\ disk'.sale = disk.sale /\ ~disk'.pending
      /\ disk'.incomplete = disk.incomplete
      /\ disk'.queue = disk.queue /\ disk'.totals = disk.totals
      /\ disk'.reversal = IF set /\ ~disk.totals.repeat THEN disk.sale ELSE disk.reversal
    <2>1. disk' = IF interrupted THEN Completed(disk.totals.repeat) ELSE disk
        BY DEF PowerFail
    <2>2. CASE interrupted
        BY <2>1, <2>2, <1>1 DEF Completed, Disks
    <2>3. CASE ~interrupted
        BY <2>1, <2>3, <1>1 DEF Disks
    <2> QED BY <2>2, <2>3
<1>5. /\ waived' \in [Sales -> SUBSET Causes]
      /\ \A s \in Sales : waived[s] \subseteq waived'[s] /\ (s # disk.sale => waived'[s] = waived[s])
      /\ disk.sale \in Sales /\ refused => "refused" \in waived'[disk.sale]
      /\ disk.sale \in Sales /\ late => "late" \in waived'[disk.sale]
    <2>1. waived' = [s \in Sales |-> waived[s]
                        \cup (IF s = disk.sale /\ refused THEN {"refused"} ELSE {})
                        \cup (IF s = disk.sale /\ late THEN {"late"} ELSE {})]
        BY DEF PowerFail
    <2> HIDE DEF refused, late
    <2> QED BY <2>1, <1>1 DEF Causes
<1>6. /\ told' \in [Sales -> Tellings]
      /\ InSale => told' = [told EXCEPT ![started] = "power fail"]
      /\ ~InSale => told' = told
    <2>1. told' = IF interrupted /\ disk.pending /\ disk.sale # None
                  THEN [told EXCEPT ![disk.sale] = "power fail"] ELSE told
        BY DEF PowerFail
    <2>2. InSale => started # None
        BY <1>1 DEF Sales, None
    <2>3. "power fail" \in Tellings
        BY DEF Tellings
    <2>4. CASE InSale
        BY <2>1, <2>2, <2>3, <2>4, <1>1
    <2>5. CASE ~InSale
        BY <2>1, <2>5, <1>1
    <2> QED BY <2>4, <2>5
<1>7. TypeOK'
    <2>1. /\ totals' \in Totals /\ revCount' \in BOOLEAN /\ feed' \in BOOLEAN /\ ret' \in BOOLEAN
          /\ txn' \in Txns /\ pc' \in PCs /\ job' \in Jobs /\ answer' \in Verdicts \cup {"none"}
        BY <1>1 DEF PowerFail, Goto, Disks, PCs, Jobs, NoTxn, Txns, Cards, Errors, Codes
    <2>2. failures' \in 0 .. MaxFailures
        <3>1. failures \in 0 .. MaxFailures /\ failures < MaxFailures /\ failures' = failures + 1
            BY <1>1 DEF PowerFail, TypeOK
        <3> QED BY <3>1, PurchaseAssumption
    <2>3. UNCHANGED <<posted, advised, started, retries>>
        BY DEF PowerFail, books
    <2> QED BY <2>1, <2>2, <2>3, <1>1, <1>4, <1>5, <1>6 DEF TypeOK
<1>8. Placed'
    BY DEF PowerFail, Goto, Placed, UploadPCs
<1>9. Current'
    <2>1. disk'.incomplete /\ disk'.sale # None => told'[disk'.sale] = "power fail"
        BY <1>1, <1>4, <1>6
    <2> QED BY <2>1, <1>3, <1>4 DEF Current
<1>10. Begun'
    <2>1. \A s \in Sales : s > started => told'[s] = "nothing" /\ waived'[s] = {}
        <3> SUFFICES ASSUME NEW s \in Sales, s > started PROVE told'[s] = "nothing" /\ waived'[s] = {}
            OBVIOUS
        <3>1. s # started /\ s # disk.sale
            <4>1. s \in Int
                BY PurchaseAssumption DEF Sales
            <4> QED BY <4>1, <1>0
        <3> QED BY <3>1, <1>1, <1>5, <1>6 DEF PInv, Known, Begun
    <2>2. \A s \in Sales : s \in advised => s <= started
        BY <1>2 DEF PInv, Known, Begun, Sales
    <2>3. posted' = posted /\ advised' = advised
        BY DEF PowerFail, books
    <2>4. disk'.reversal <= started
        BY <1>0, <1>4
    <2> QED BY <2>1, <2>2, <2>3, <2>4, <1>0, <1>3, <1>4 DEF PInv, Known, Begun
<1>11. Single' /\ Bounded'
    <2>1. disk.queue \subseteq Advices /\ disk.totals \in Totals /\ totals' = disk.totals
        BY <1>1 DEF Disks, PowerFail
    <2>2. \A a \in disk.queue : a.sale <= started
        BY <2>1, <1>2 DEF PInv, Known, Single, Advices, Sales
    <2>3. disk.totals.count <= started
        BY <2>1, <1>2 DEF PInv, Known, Bounded, Totals
    <2> QED BY <2>1, <2>2, <2>3, <1>3, <1>4 DEF PInv, Known, Single, Bounded
<1>12. /\ posted' = posted /\ advised' = advised
       /\ \A s \in Sales : /\ Queued(s)' <=> Queued(s)
                           /\ GivenUp(s) => GivenUp(s)'
                           /\ Reversed(s) => Reversed(s)'
    <2>1. posted' = posted /\ advised' = advised
        BY DEF PowerFail, books
    <2>2. \A s \in Sales : GivenUp(s) => GivenUp(s)'
        BY <1>5, GivenUpStays
    <2>3. \A s \in Sales : disk.reversal = s => disk'.reversal = s
        BY <1>4 DEF None, Sales
    <2> QED BY <2>1, <2>2, <2>3, <1>4 DEF Queued, Reversed
<1>13. Once'
    BY <1>4, <1>12 DEF PInv, Books, Once
<1>14. Declined'
    BY <1>1, <1>5, <1>6, <1>12 DEF PInv, Books, Declined
<1>15. Approved'
    <2> SUFFICES ASSUME NEW s \in Sales, told'[s] = "approved"
                 PROVE  \/ s \in posted /\ disk'.reversal # s
                        \/ s \in advised \/ Queued(s)
                        \/ waived'[s] \cap {"discarded", "unsent", "journal"} # {}
        BY <1>12 DEF Approved
    <2>1. told[s] = "approved" /\ (InSale => s # started)
        BY <1>1, <1>6
    <2>2. disk'.reversal = s => disk.reversal = s
        <3>1. disk'.reversal = s /\ disk.reversal # s => s = disk.sale /\ disk.incomplete
            BY <1>4
        <3>2. s # None
            BY DEF None, Sales
        <3> QED BY <3>1, <3>2, <2>1, <1>1
    <2> QED BY <2>1, <2>2, <1>5 DEF PInv, Books, Approved
<1>16. Cancelled'
    <2> SUFFICES ASSUME NEW s \in Sales, told'[s] = "power fail", "late" \notin waived'[s]
                 PROVE  (s \in posted => Reversed(s)') /\ s \notin advised /\ ~Queued(s)
        BY <1>12 DEF Cancelled
    <2>1. CASE InSale /\ s = started
        <3>1. ~late /\ disk.sale = s /\ s \in Sales /\ disk.pending /\ s # None
            <4>1. disk.sale = s /\ disk.pending
                BY <2>1, <1>1
            <4>2. s # None
                BY SaleIsSome
            <4>3. ~late
                <5> HIDE DEF late
                <5> QED BY <4>1, <1>5
            <4> QED BY <4>1, <4>2, <4>3
        <3>2. disk.incomplete /\ Of(s, disk.queue) = {}
            BY <3>1
        <3>3. ~Queued(s)
            BY <3>2 DEF Of, Queued
        <3>4. s \in posted => Reversed(s) \/ (disk.reversal = None /\ disk.sent)
            BY <2>1, <1>1, DebitIsKnown
        <3>5. disk.reversal = None /\ disk.sent => Reversed(s)'
            <4>1. CASE disk.totals.repeat
                BY <4>1, <3>1, <3>2, <1>5 DEF Reversed, GivenUp
            <4>2. CASE ~disk.totals.repeat
                BY <4>2, <3>1, <3>2, <1>4 DEF Reversed
            <4> QED BY <4>1, <4>2
        <3> QED BY <3>3, <3>4, <3>5, <2>1, <1>1, <1>12
    <2>2. CASE ~(InSale /\ s = started)
        <3>1. told[s] = "power fail"
            BY <2>2, <1>1, <1>6
        <3> QED BY <3>1, <1>5, <1>12 DEF PInv, Books, Cancelled
    <2> QED BY <2>1, <2>2
<1>17. Staged'
    BY <1>3 DEF PowerFail, Goto, Staged, Before, Requested, Outcome, Resulted, Held, Printed, Agreed,
        RequestPCs, ResultPCs, StoredPCs
<1> QED BY <1>7, <1>8, <1>9, <1>10, <1>11, <1>13, <1>14, <1>15, <1>16, <1>17 DEF PInv, Known, Books

-----------------------------------------------------------------------------
(* The beginning, and a step that changes nothing. *)

LEMMA InitInv == Init => PInv
<1> SUFFICES ASSUME Init PROVE PInv
    OBVIOUS
<1> USE DEF Init
<1>1. /\ disk \in Disks /\ disk.queue = {} /\ disk.reversal = None /\ disk.sale = None
      /\ ~disk.pending /\ ~disk.incomplete /\ disk.totals.count = 0 /\ totals.count = 0
    BY PurchaseAssumption DEF Disks, Totals, None
<1>2. TypeOK
    <2>1. txn \in Txns
        BY DEF Txns, NoTxn, Cards, Errors, Codes
    <2>2. totals \in Totals
        BY PurchaseAssumption DEF Totals
    <2>3. told \in [Sales -> Tellings] /\ waived \in [Sales -> SUBSET Causes]
        BY DEF Tellings
    <2>4. started \in 0 .. MaxSales /\ retries \in 0 .. MaxRetries /\ failures \in 0 .. MaxFailures
        BY PurchaseAssumption
    <2> QED BY <1>1, <2>1, <2>2, <2>3, <2>4 DEF TypeOK, PCs, Jobs
<1>3. ~InSale /\ Closed = 0
    BY DEF InSale, Closed
<1>4. Placed /\ Current /\ Begun /\ Single /\ Bounded
    BY <1>1, <1>3 DEF Placed, Current, Begun, Single, Bounded, UploadPCs, None
<1>5. Books
    BY <1>1 DEF Books, Once, Declined, Approved, Cancelled
<1>6. Staged
    BY <1>3 DEF Staged, Before, Requested, Outcome, Resulted, Held, Printed, Agreed,
        RequestPCs, ResultPCs, StoredPCs
<1> QED BY <1>2, <1>4, <1>5, <1>6 DEF PInv, Known

LEMMA StutterInv == ASSUME PInv, UNCHANGED vars PROVE PInv'
<1> USE DEF vars
<1>1. TypeOK' /\ Placed' /\ Current' /\ Begun' /\ Single' /\ Bounded'
    <2>1. TypeOK'
        BY DEF PInv, Known, TypeOK
    <2>2. Placed' /\ Current'
        BY DEF PInv, Known, Placed, Current, InSale
    <2>3. Begun' /\ Single' /\ Bounded'
        BY DEF PInv, Known, Begun, Single, Bounded, InSale, Closed
    <2> QED BY <2>1, <2>2, <2>3
<1>2. Books'
    BY DEF PInv, Books, Once, Declined, Approved, Cancelled, Queued, Reversed, GivenUp
<1>3. Staged'
    BY DEF PInv, Staged, Before, Requested, Outcome, Resulted, Held, Printed, Agreed,
        InSale, Refused, Online, Queued, Reversed, GivenUp, IsApproved
<1> QED BY <1>1, <1>2, <1>3 DEF PInv, Known

-----------------------------------------------------------------------------
(* The uploads. *)

\* what an upload does to the files and the books
UploadFrame ==
    /\ told' = told /\ started' = started /\ ret' = ret
    /\ disk'.sale = disk.sale /\ disk'.pending = disk.pending /\ disk'.incomplete = disk.incomplete
    /\ disk' \in Disks /\ totals' \in Totals /\ waived' \in [Sales -> SUBSET Causes]
    /\ totals'.count <= Closed /\ disk'.totals.count <= Closed
    /\ posted' \subseteq posted /\ posted \ posted' \subseteq {disk.reversal}
    /\ advised' \subseteq Sales /\ advised \subseteq advised'
    /\ disk'.reversal \in {disk.reversal, None}
    /\ \A s \in Sales : waived[s] \subseteq waived'[s] /\ (s > started => waived'[s] = waived[s])
    /\ \A s \in posted' : Reversed(s) => Reversed(s)'
    /\ \A s \in Sales : Queued(s)' => Queued(s)
    /\ \A s \in advised' : s \in advised \/ (Queued(s) /\ (s \in posted => GivenUp(s)'))
    /\ \A s \in Sales : Queued(s) => Queued(s)' \/ s \in advised' \/ "discarded" \in waived'[s]
    /\ \A a \in disk'.queue : /\ \E b \in disk.queue : a.sale = b.sale
                              /\ a.debit /\ a.repeat /\ a.sale \in posted => GivenUp(a.sale)'
    /\ \A a, b \in disk'.queue : a.sale = b.sale => a = b

LEMMA UploadBooks ==
    ASSUME PInv, UploadFrame, Closed' = Closed, InSale' <=> InSale, pc \notin StoredPCs
    PROVE  Books' /\ Begun' /\ Single' /\ Bounded'
<1>1. /\ posted \subseteq Sales /\ disk \in Disks
      /\ InSale => started \in Sales /\ Closed = started - 1 /\ started \in 1 .. MaxSales
    BY DEF PInv, Known, TypeOK, Current, Closed, Sales
<1>2. \A s \in Sales : GivenUp(s) => GivenUp(s)'
    BY GivenUpStays DEF UploadFrame
<1>3. Once'
    <2> SUFFICES ASSUME NEW s \in Sales, s \in posted'
                 PROVE  /\ Queued(s)' => Reversed(s)'
                        /\ s \in advised' => GivenUp(s)'
                        /\ \A a \in disk'.queue : a.sale = s /\ a.debit /\ a.repeat => GivenUp(s)'
        BY DEF Once
    <2>1. s \in posted
        BY DEF UploadFrame
    <2>2. Queued(s)' => Reversed(s)'
        BY <2>1 DEF UploadFrame, PInv, Books, Once
    <2>3. s \in advised' => GivenUp(s)'
        BY <2>1, <1>2 DEF UploadFrame, PInv, Books, Once
    <2>4. \A a \in disk'.queue : a.sale = s /\ a.debit /\ a.repeat => GivenUp(s)'
        BY <2>1 DEF UploadFrame
    <2> QED BY <2>2, <2>3, <2>4
<1>4. Declined'
    <2> SUFFICES ASSUME NEW s \in Sales, told[s] = "declined"
                 PROVE  /\ s \in posted' => Reversed(s)'
                        /\ s \in advised' \/ Queued(s)' => "receipt" \in waived'[s]
        BY DEF Declined, UploadFrame
    <2>1. s \in advised' \/ Queued(s)' => s \in advised \/ Queued(s)
        BY DEF UploadFrame
    <2> QED BY <2>1 DEF PInv, Books, Declined, UploadFrame
<1>5. Approved'
    <2> SUFFICES ASSUME NEW s \in Sales, told[s] = "approved"
                 PROVE  \/ s \in posted' /\ disk'.reversal # s
                        \/ s \in advised' \/ Queued(s)'
                        \/ waived'[s] \cap {"discarded", "unsent", "journal"} # {}
        BY DEF Approved, UploadFrame
    <2>1. waived[s] \subseteq waived'[s]
        BY DEF UploadFrame
    <2>2. CASE s \in posted /\ disk.reversal # s
        BY <2>2, SaleIsSome DEF UploadFrame
    <2>3. CASE s \in advised \/ Queued(s)
        BY <2>3 DEF UploadFrame
    <2>4. CASE waived[s] \cap {"discarded", "unsent", "journal"} # {}
        BY <2>4, <2>1
    <2> QED BY <2>2, <2>3, <2>4 DEF PInv, Books, Approved
<1>6. Cancelled'
    <2> SUFFICES ASSUME NEW s \in Sales, told[s] = "power fail", "late" \notin waived'[s]
                 PROVE  (s \in posted' => Reversed(s)') /\ s \notin advised' /\ ~Queued(s)'
        BY DEF Cancelled, UploadFrame
    <2>1. "late" \notin waived[s]
        BY DEF UploadFrame
    <2>2. (s \in posted => Reversed(s)) /\ s \notin advised /\ ~Queued(s)
        BY <2>1 DEF PInv, Books, Cancelled
    <2> QED BY <2>2 DEF UploadFrame
<1>7. \A s \in Sales : Queued(s) => s <= Closed
    BY DEF PInv, Known, Single, Queued
<1>8. Begun'
    <2>1. disk'.sale <= started' /\ disk'.reversal <= started'
        <3>1. started \in 0 .. MaxSales
            BY DEF PInv, Known, TypeOK
        <3>2. None <= started
            BY <3>1, PurchaseAssumption DEF None
        <3> QED BY <3>2 DEF PInv, Known, Begun, UploadFrame
    <2>2. \A s \in Sales : s \in posted' => s <= started'
        BY DEF PInv, Known, Begun, UploadFrame
    <2>3. \A s \in Sales : s \in advised' => s <= Closed'
        BY <1>7 DEF PInv, Known, Begun, UploadFrame
    <2>4. \A s \in Sales : s > started' => told'[s] = "nothing" /\ waived'[s] = {}
        BY DEF PInv, Known, Begun, UploadFrame
    <2> QED BY <2>1, <2>2, <2>3, <2>4 DEF Begun
<1>9. Single'
    <2>1. \A a \in disk'.queue : a.sale <= Closed'
        BY DEF PInv, Known, Single, UploadFrame
    <2>2. InSale => started \notin advised' /\ \A a \in disk'.queue : a.sale # started
        <3>1. InSale => ~(started <= Closed)
            BY <1>1, PurchaseAssumption
        <3>2. InSale => started \notin advised /\ ~Queued(started)
            BY <3>1, <1>1, <1>7 DEF PInv, Known, Single
        <3>3. InSale => \A a \in disk'.queue : a.sale # started
            BY <3>1, <2>1 DEF UploadFrame
        <3> QED BY <3>2, <3>3 DEF UploadFrame
    <2> QED BY <2>1, <2>2 DEF Single, UploadFrame
<1>10. Bounded'
    BY DEF Bounded, UploadFrame
<1> QED BY <1>3, <1>4, <1>5, <1>6, <1>8, <1>9, <1>10 DEF Books

\* where an upload for a sale, a feed or a logon goes on
UploadEnds ==
    \/ UploadGoesOn /\ (job # "files" => disk'.reversal = None)
    \/ \E error \in {"comms", "system"} : UploadFails(error)
    \/ pc' = "repeat" /\ disk'.reversal = None /\ UNCHANGED <<txn, job>>

LEMMA UploadStep ==
    ASSUME PInv, pc \in UploadPCs, UploadFrame, UploadEnds, revCount' \in BOOLEAN,
           UNCHANGED <<feed, answer, retries, failures>>
    PROVE  PInv'
<1> USE DEF Goto
<1>1. /\ TypeOK /\ txn \in Txns /\ job \in Jobs /\ pc \notin StoredPCs /\ pc # "idle" /\ (InSale <=> job = "sale")
      /\ InSale => txn.sale = started /\ started \in Sales /\ disk.sale = started
                   /\ disk.pending /\ told[started] = "nothing" /\ ~ret
                   /\ txn.sale \notin posted' /\ ~txn.needs /\ ~txn.was91
                   /\ txn.rc \in {"none", "52", "55"} /\ txn.error \in {"none", "erc"}
    BY DEF PInv, Known, TypeOK, Current, Staged, Before, BeforePCs, UploadPCs, StoredPCs, InSale, UploadFrame
<1>2. /\ txn' \in Txns /\ txn'.sale = txn.sale /\ txn'.needs = txn.needs /\ txn'.was91 = txn.was91
      /\ txn'.rc = txn.rc
      /\ txn'.error \in {txn.error, "none", "comms", "system"}
    <2>1. \/ txn' = txn
          \/ \E e \in {"none", "comms", "system"} : txn' = [txn EXCEPT !.error = e]
        <3>1. CASE UploadGoesOn
            BY <3>1, <1>1 DEF UploadGoesOn, Jobs
        <3>2. CASE \E error \in {"comms", "system"} : UploadFails(error)
            BY <3>2, <1>1 DEF UploadFails, Aborted, Jobs
        <3> QED BY <3>1, <3>2 DEF UploadEnds
    <2> QED BY <2>1, <1>1 DEF Txns, Errors
<1>3. /\ job = "sale" => job' = "sale" /\ \/ pc' = "build" /\ txn'.error = "none" /\ disk'.reversal = None
                                          \/ pc' = "efb" /\ txn'.error = "comms"
                                          \/ pc' = "final" /\ txn'.error \in {"none", "system"}
                                          \/ pc' = "repeat" /\ disk'.reversal = None /\ txn' = txn
      /\ job # "sale" => \/ pc' = "advice" /\ job' = "feed" /\ disk'.reversal = None
                         \/ pc' = "idle" /\ job' = job
                         \/ pc' = "repeat" /\ (job' = "files" \/ (job' = job /\ disk'.reversal = None))
    <2>1. CASE UploadGoesOn /\ (job # "files" => disk'.reversal = None)
        BY <2>1, <1>1 DEF UploadGoesOn, Jobs, Txns
    <2>2. ASSUME NEW error \in {"comms", "system"}, UploadFails(error)
          PROVE  /\ job = "sale" => job' = "sale" /\ \/ pc' = "efb" /\ txn'.error = "comms"
                                                     \/ pc' = "final" /\ txn'.error \in {"none", "system"}
                 /\ job # "sale" => \/ pc' = "idle" /\ job' = job
                                    \/ pc' = "repeat" /\ job' = "files"
        BY <2>2, <1>1 DEF UploadFails, Aborted, Jobs, Txns
    <2>3. CASE pc' = "repeat" /\ disk'.reversal = None /\ UNCHANGED <<txn, job>>
        BY <2>3
    <2> QED BY <2>1, <2>2, <2>3 DEF UploadEnds
<1>4. (InSale' <=> InSale) /\ pc' \notin StoredPCs /\ pc' \notin RequestPCs /\ pc' \in PCs /\ job' \in Jobs
      /\ (pc' \in ResultPCs => pc' \in {"efb", "final"} /\ job = "sale")
      /\ pc' \notin {"unable", "second", "commit"}
    <2>1. CASE job = "sale"
        BY <2>1, <1>1, <1>3 DEF InSale, StoredPCs, RequestPCs, ResultPCs, PCs, Jobs
    <2>2. CASE job # "sale"
        <3>1. job' # "sale" /\ job' \in Jobs
            BY <2>2, <1>1, <1>3 DEF Jobs
        <3> QED BY <2>2, <3>1, <1>1, <1>3 DEF InSale, StoredPCs, RequestPCs, ResultPCs, PCs
    <2> QED BY <2>1, <2>2
<1>5. TypeOK'
    <2>1. posted' \subseteq Sales /\ started' \in 0 .. MaxSales /\ ret' \in BOOLEAN
        BY <1>1 DEF TypeOK, UploadFrame
    <2> QED BY <2>1, <1>1, <1>2, <1>4 DEF TypeOK, UploadFrame
<1>6. Placed'
    <2>1. CASE job = "sale"
        BY <2>1, <1>3 DEF Placed, UploadPCs
    <2>2. CASE job # "sale"
        BY <2>2, <1>3 DEF Placed, UploadPCs
    <2> QED BY <2>1, <2>2
<1>7. Current'
    <2>1. CASE InSale
        BY <2>1, <1>1, <1>2, <1>4 DEF Current, UploadFrame
    <2>2. CASE ~InSale
        BY <2>2, <1>4 DEF PInv, Known, Current, UploadFrame
    <2> QED BY <2>1, <2>2
<1>8. Closed' = Closed
    BY <1>1, <1>4 DEF Closed, UploadFrame
<1>9. Before'
    <2>1. InSale /\ pc' \in BeforePCs => /\ txn'.error \in {"none", "erc"}
                                         /\ pc' = "build" => txn'.error = "none"
        BY <1>1, <1>3 DEF BeforePCs
    <2> QED BY <2>1, <1>1, <1>2, <1>4 DEF Before
<1>10. Outcome' /\ Resulted'
    <2>1. CASE pc' \in ResultPCs
        <3>1. InSale /\ pc' \in {"efb", "final"} /\ txn'.error \in {"none", "comms", "system"}
              /\ (pc' = "efb" => txn'.error = "comms")
            BY <2>1, <1>1, <1>3, <1>4
        <3>2. ~Online(txn')
            BY <3>1, <1>1, <1>2 DEF Online, Approvals
        <3>3. Outcome'
            BY <3>1, <3>2, <1>1, <1>2 DEF Outcome
        <3>4. Resulted'
            BY <3>1, <1>1, <1>2 DEF Resulted
        <3> QED BY <3>3, <3>4
    <2> QED BY <2>1 DEF Outcome, Resulted
<1>11. Requested' /\ Held' /\ Printed' /\ Agreed'
    BY <1>4 DEF Requested, Held, Printed, Agreed, StoredPCs
<1> QED BY <1>1, <1>4, <1>5, <1>6, <1>7, <1>8, <1>9, <1>10, <1>11, UploadBooks DEF PInv, Known, Staged

\* the reversal goes, or does not, or cannot be built
LEMMA ReversalUploaded ==
    ASSUME PInv, ReversalFails \/ ReversalSent \/ ReversalDiscarded \/ SkipReversal PROVE PInv'
<1> USE DEF Goto, ram, books, counters
<1>1. /\ pc = "reversal" /\ pc \in UploadPCs /\ disk \in Disks /\ totals \in Totals
      /\ waived \in [Sales -> SUBSET Causes] /\ posted \subseteq Sales /\ advised \subseteq Sales
      /\ revCount \in BOOLEAN /\ totals.count <= Closed /\ disk.totals.count <= Closed
      /\ \A a, b \in disk.queue : a.sale = b.sale => a = b
      /\ disk.reversal # None => disk.reversal \in Sales /\ disk.reversal <= started
    BY DEF PInv, Known, TypeOK, Bounded, Single, Begun, UploadPCs, Disks,
           ReversalFails, ReversalSent, ReversalDiscarded, SkipReversal
<1>2. Recounted \in Totals /\ Recounted.count <= Closed
    BY RecountTyped DEF PInv
<1>3. \A s \in Sales : s <= started => ~(s > started)
    <2>1. started \in Int
        BY PurchaseAssumption DEF PInv, Known, TypeOK
    <2> QED BY <2>1, PurchaseAssumption DEF Sales
<1>4. \A a \in disk.queue : a.debit /\ a.repeat /\ a.sale \in posted => GivenUp(a.sale)
    BY <1>1 DEF PInv, Books, Once
<1>5. CASE ReversalFails
    <2> USE DEF ReversalFails
    <2>1. disk' = disk /\ waived' = waived /\ advised' = advised /\ posted' \in {posted, posted \ {disk.reversal}}
          /\ totals' \in {totals, Recounted}
        BY <1>5
    <2>2. UploadFrame
        BY <2>1, <1>1, <1>2, <1>4, <1>5 DEF UploadFrame, Queued, Reversed, GivenUp
    <2>3. UploadEnds
        BY <1>5 DEF UploadEnds
    <2> QED BY <2>2, <2>3, <1>1, <1>5, UploadStep
<1>6. CASE ReversalSent
    <2> USE DEF ReversalSent
    <2>1. /\ disk' \in Disks /\ disk'.reversal = None /\ disk'.queue = disk.queue /\ disk'.totals = disk.totals
          /\ disk'.sale = disk.sale /\ disk'.pending = disk.pending /\ disk'.incomplete = disk.incomplete
        BY <1>1, <1>6 DEF ReversalCleared, Disks, None
    <2>2. \A s \in posted' : Reversed(s) => Reversed(s)'
        BY <1>6 DEF Reversed, GivenUp
    <2>3. UploadFrame
        BY <2>1, <2>2, <1>1, <1>2, <1>4, <1>6 DEF UploadFrame, Queued, GivenUp
    <2>4. UploadEnds
        BY <2>1, <1>6 DEF UploadEnds
    <2> QED BY <2>3, <2>4, <1>1, <1>6, UploadStep
<1>7. CASE ReversalDiscarded
    <2> USE DEF ReversalDiscarded
    <2>1. /\ disk' \in Disks /\ disk'.reversal = None /\ disk'.queue = disk.queue /\ disk'.totals = disk.totals
          /\ disk'.sale = disk.sale /\ disk'.pending = disk.pending /\ disk'.incomplete = disk.incomplete
        BY <1>1, <1>7 DEF ReversalCleared, Disks, None
    <2>2. /\ waived' \in [Sales -> SUBSET Causes] /\ "discarded" \in waived'[disk.reversal]
          /\ \A s \in Sales : waived[s] \subseteq waived'[s] /\ (s # disk.reversal => waived'[s] = waived[s])
        BY <1>1, <1>7 DEF Waive, Causes
    <2>3. \A s \in Sales : (GivenUp(s) => GivenUp(s)') /\ (Reversed(s) => Reversed(s)')
        BY <2>2 DEF Reversed, GivenUp
    <2>4. UploadFrame
        <3>1. \A s \in Sales : s > started => waived'[s] = waived[s]
            BY <2>2, <1>1, <1>3, <1>7
        <3>2. \A a \in disk.queue : a.debit /\ a.repeat /\ a.sale \in posted => GivenUp(a.sale)'
            BY <2>3, <1>1, <1>4
        <3> QED BY <2>1, <2>2, <2>3, <3>1, <3>2, <1>1, <1>7 DEF UploadFrame, Queued
    <2>5. UploadEnds
        BY <2>1, <1>7 DEF UploadEnds
    <2> QED BY <2>4, <2>5, <1>1, <1>7, UploadStep
<1>8. CASE SkipReversal
    <2> USE DEF SkipReversal
    <2>1. UploadFrame
        BY <1>1, <1>4, <1>8 DEF UploadFrame, Queued, Reversed, GivenUp
    <2>2. UploadEnds
        BY <1>8 DEF UploadEnds
    <2> QED BY <2>1, <2>2, <1>1, <1>8, UploadStep
<1> QED BY <1>5, <1>6, <1>7, <1>8

\* one advice of the queue is taken up; a debit of its sale must have been given up
LEMMA AdviceFrame ==
    ASSUME PInv, NEW a \in disk.queue,
           a.debit /\ a.sale \in posted => GivenUp(a.sale),
           UNCHANGED <<told, started, ret, posted>>,
           \/ AdviceSettled(a)
           \/ \E error \in {"comms", "system"}, delivered \in BOOLEAN : AdviceFails(a, error, delivered)
    PROVE  /\ UploadFrame /\ revCount' \in BOOLEAN
           /\ AdviceSettled(a) => disk'.reversal = None
           /\ ~AdviceSettled(a) => disk'.reversal = disk.reversal
<1>1. /\ disk \in Disks /\ totals \in Totals /\ disk.queue \subseteq Advices
      /\ waived \in [Sales -> SUBSET Causes] /\ posted \subseteq Sales /\ advised \subseteq Sales
      /\ revCount \in BOOLEAN /\ totals.count <= Closed /\ disk.totals.count <= Closed
      /\ \A b, c \in disk.queue : b.sale = c.sale => b = c
      /\ disk.reversal # None => disk.reversal \in Sales /\ disk.reversal <= started
    BY DEF PInv, Known, TypeOK, Bounded, Single, Begun, Disks
<1>2. /\ a \in Advices /\ a.sale \in Sales /\ a.sale <= started /\ started \in Int
      /\ \A s \in Sales : s <= started => ~(s > started)
    <2>1. started \in Int /\ Closed \in Int /\ Closed <= started
        <3>1. started \in Int
            BY PurchaseAssumption DEF PInv, Known, TypeOK
        <3> QED BY <3>1 DEF Closed
    <2>2. a.sale <= Closed /\ a.sale \in Sales
        BY <1>1 DEF PInv, Known, Single, Advices
    <2> QED BY <2>1, <2>2, <1>1, PurchaseAssumption DEF Sales
<1>3. /\ Cardinality(disk.queue) - 1 \in 0 .. MaxSales /\ Cardinality(disk.queue) - 1 <= Closed
      /\ Recounted \in Totals /\ Recounted.count <= Closed
    <2>1. Cardinality(disk.queue \ {a}) = Cardinality(disk.queue) - 1 /\ IsFiniteSet(disk.queue \ {a})
        BY CountBound, FS_RemoveElement DEF PInv
    <2>2. Cardinality(disk.queue \ {a}) \in Nat
        BY <2>1, FS_CardinalityType
    <2> QED BY <2>1, <2>2, CountBound, RecountTyped, PurchaseAssumption DEF PInv
<1>4. \A b \in disk.queue : b.debit /\ b.repeat /\ b.sale \in posted => GivenUp(b.sale)
    BY <1>1 DEF PInv, Books, Once
<1>5. Queued(a.sale) <=> a.debit
    BY <1>1 DEF Queued
<1>6. CASE AdviceSettled(a)
    <2> DEFINE t == [count |-> Cardinality(disk.queue) - 1, repeat |-> FALSE]
    <2>1. t \in Totals /\ t.count <= Closed
        BY <1>3 DEF Totals
    <2>2. totals' = t /\ disk' = [ReversalCleared(disk) EXCEPT !.queue = @ \ {a}, !.totals = t]
          /\ advised' = (IF a.debit THEN advised \cup {a.sale} ELSE advised) /\ revCount' = FALSE
          /\ WaiveIf(disk.reversal # None, disk.reversal, "cleared")
        BY <1>6 DEF AdviceSettled, Debited
    <2> HIDE DEF t
    <2>3. /\ disk' \in Disks /\ disk'.reversal = None /\ disk'.queue = disk.queue \ {a} /\ disk'.totals = t
          /\ disk'.sale = disk.sale /\ disk'.pending = disk.pending /\ disk'.incomplete = disk.incomplete
        BY <2>1, <2>2, <1>1 DEF ReversalCleared, Disks, None
    <2>4. /\ waived' \in [Sales -> SUBSET Causes]
          /\ \A s \in Sales : waived[s] \subseteq waived'[s] /\ (s # disk.reversal => waived'[s] = waived[s])
          /\ disk.reversal # None => "cleared" \in waived'[disk.reversal]
        BY <2>2, <1>1, WaiveEffect DEF Causes
    <2>5. \A s \in Sales : (GivenUp(s) => GivenUp(s)') /\ (Reversed(s) => Reversed(s)')
        BY <2>4, SaleIsSome DEF Reversed, GivenUp
    <2>6. \A s \in Sales : s > started => waived'[s] = waived[s]
        BY <2>4, <1>1, <1>2, SaleIsSome
    <2>7. \A s \in Sales : /\ Queued(s)' => Queued(s)
                           /\ Queued(s) => Queued(s)' \/ s \in advised'
        <3>1. \A s \in Sales : Queued(s)' => Queued(s)
            BY <2>3 DEF Queued
        <3>2. ASSUME NEW s \in Sales, Queued(s) PROVE Queued(s)' \/ s \in advised'
            <4>1. PICK b \in disk.queue : b.sale = s /\ b.debit
                BY <3>2 DEF Queued
            <4>2. CASE b = a
                BY <4>1, <4>2, <2>2
            <4>3. CASE b # a
                BY <4>1, <4>3, <2>3 DEF Queued
            <4> QED BY <4>2, <4>3
        <3> QED BY <3>1, <3>2
    <2>8. \A b \in disk'.queue : /\ \E c \in disk.queue : b.sale = c.sale
                                 /\ b.debit /\ b.repeat /\ b.sale \in posted => GivenUp(b.sale)'
        BY <2>3, <2>5, <1>1, <1>4
    <2>9. /\ advised' \subseteq Sales /\ advised \subseteq advised'
          /\ \A s \in advised' : s \in advised \/ (Queued(s) /\ (s \in posted => GivenUp(s)'))
        BY <2>2, <2>5, <1>1, <1>2, <1>5
    <2>10. UploadFrame
        BY <2>1, <2>2, <2>3, <2>4, <2>5, <2>6, <2>7, <2>8, <2>9, <1>1 DEF UploadFrame
    <2> QED BY <2>2, <2>3, <2>10, <1>6
<1>7. ASSUME NEW error \in {"comms", "system"}, NEW delivered \in BOOLEAN, AdviceFails(a, error, delivered)
      PROVE  UploadFrame /\ revCount' \in BOOLEAN /\ disk'.reversal = disk.reversal
    <2> DEFINE gone == a.sale \in Unbuildable /\ a.repeat
               marked == [a EXCEPT !.repeat = TRUE]
    <2>1. /\ disk' = [disk EXCEPT !.queue = IF gone THEN @ \ {a} ELSE Marked(a)]
          /\ totals' = [(IF delivered THEN Recounted ELSE totals) EXCEPT !.repeat = TRUE]
          /\ advised' = (IF delivered /\ a.debit THEN advised \cup {a.sale} ELSE advised)
          /\ WaiveIf(gone, a.sale, "discarded") /\ revCount' = revCount
        BY <1>7 DEF AdviceFails, Debited
    <2>2. marked \in Advices /\ marked.sale = a.sale /\ (marked.debit <=> a.debit)
        BY <1>2 DEF Advices
    <2> HIDE DEF gone, marked
    <2>3. totals' \in Totals /\ totals'.count <= Closed
        <3>1. ASSUME NEW t \in Totals, t.count <= Closed
              PROVE  [t EXCEPT !.repeat = TRUE] \in Totals /\ [t EXCEPT !.repeat = TRUE].count <= Closed
            BY <3>1 DEF Totals
        <3> QED BY <3>1, <2>1, <1>1, <1>3
    <2>4. disk'.queue = IF gone THEN disk.queue \ {a} ELSE (disk.queue \ {a}) \cup {marked}
        BY <2>1, <1>1 DEF Marked, marked, Disks
    <2>5. disk'.queue \subseteq Advices
        BY <2>2, <2>4, <1>1
    <2>6. /\ disk' \in Disks /\ disk'.reversal = disk.reversal /\ disk'.totals = disk.totals
          /\ disk'.sale = disk.sale /\ disk'.pending = disk.pending /\ disk'.incomplete = disk.incomplete
        BY <2>1, <2>4, <2>5, <1>1 DEF Disks
    <2>7. /\ waived' \in [Sales -> SUBSET Causes]
          /\ \A s \in Sales : waived[s] \subseteq waived'[s] /\ (s # a.sale => waived'[s] = waived[s])
          /\ gone => "discarded" \in waived'[a.sale]
        BY <2>1, <1>1, <1>2, WaiveEffect DEF Causes
    <2>8. \A s \in Sales : (GivenUp(s) => GivenUp(s)') /\ (Reversed(s) => Reversed(s)')
        BY <2>6, <2>7 DEF Reversed, GivenUp
    <2>9. \A s \in Sales : s > started => waived'[s] = waived[s]
        BY <2>7, <1>2
    <2>10. \A s \in Sales : /\ Queued(s)' => Queued(s)
                            /\ Queued(s) => Queued(s)' \/ "discarded" \in waived'[s]
        <3>1. ASSUME NEW s \in Sales, Queued(s)' PROVE Queued(s)
            <4>1. PICK b \in disk'.queue : b.sale = s /\ b.debit
                BY <3>1 DEF Queued
            <4>2. b \in disk.queue \/ b = marked
                BY <4>1, <2>4
            <4> QED BY <4>1, <4>2, <2>2 DEF Queued
        <3>2. ASSUME NEW s \in Sales, Queued(s) PROVE Queued(s)' \/ "discarded" \in waived'[s]
            <4>1. PICK b \in disk.queue : b.sale = s /\ b.debit
                BY <3>2 DEF Queued
            <4>2. CASE b # a
                BY <4>1, <4>2, <2>4 DEF Queued
            <4>3. CASE b = a /\ gone
                BY <4>1, <4>3, <2>7
            <4>4. CASE b = a /\ ~gone
                BY <4>1, <4>4, <2>2, <2>4 DEF Queued
            <4> QED BY <4>2, <4>3, <4>4
        <3> QED BY <3>1, <3>2
    <2>11. \A b \in disk'.queue : /\ \E c \in disk.queue : b.sale = c.sale
                                  /\ b.debit /\ b.repeat /\ b.sale \in posted => GivenUp(b.sale)'
        <3> SUFFICES ASSUME NEW b \in disk'.queue
                     PROVE  /\ \E c \in disk.queue : b.sale = c.sale
                            /\ b.debit /\ b.repeat /\ b.sale \in posted => GivenUp(b.sale)'
            OBVIOUS
        <3>1. CASE b \in disk.queue
            BY <3>1, <2>8, <1>1, <1>4
        <3>2. CASE b = marked
            BY <3>2, <2>2, <2>8, <1>1
        <3> QED BY <3>1, <3>2, <2>4
    <2>12. \A b, c \in disk'.queue : b.sale = c.sale => b = c
        <3>1. \A b \in disk.queue \ {a} : b.sale # a.sale
            BY <1>1
        <3> QED BY <3>1, <2>2, <2>4, <1>1
    <2>13. /\ advised' \subseteq Sales /\ advised \subseteq advised'
           /\ \A s \in advised' : s \in advised \/ (Queued(s) /\ (s \in posted => GivenUp(s)'))
        BY <2>1, <2>8, <1>1, <1>2, <1>5
    <2>14. UploadFrame
        BY <2>3, <2>6, <2>7, <2>8, <2>9, <2>10, <2>11, <2>12, <2>13, <1>1 DEF UploadFrame
    <2> QED BY <2>1, <2>6, <2>14, <1>1
<1> QED BY <1>6, <1>7

\* nothing to transmit
LEMMA NothingFrame ==
    ASSUME PInv, UNCHANGED <<told, started, ret, posted, disk, waived, revCount, advised>>,
           \/ \E q : NothingToSend(q)
           \/ totals' = Recounted
    PROVE  UploadFrame /\ revCount' \in BOOLEAN
<1>1. /\ disk \in Disks /\ totals \in Totals /\ advised \subseteq Sales /\ posted \subseteq Sales
      /\ waived \in [Sales -> SUBSET Causes]
      /\ revCount \in BOOLEAN /\ totals.count <= Closed /\ disk.totals.count <= Closed
      /\ \A b, c \in disk.queue : b.sale = c.sale => b = c
    BY DEF PInv, Known, TypeOK, Bounded, Single, Disks
<1>2. totals' \in Totals /\ totals'.count <= Closed
    <2>1. CASE totals' = Recounted
        BY <2>1, RecountTyped DEF PInv
    <2>2. CASE totals' = [totals EXCEPT !.repeat = FALSE, !.count = IF job = "feed" THEN 0 ELSE @]
        <3>1. 0 <= Closed /\ 0 \in 0 .. MaxSales
            BY CountBound, PurchaseAssumption DEF PInv
        <3> QED BY <2>2, <3>1, <1>1 DEF Totals
    <2> QED BY <2>1, <2>2 DEF NothingToSend
<1>3. \A a \in disk.queue : a.debit /\ a.repeat /\ a.sale \in posted => GivenUp(a.sale)
    BY <1>1 DEF PInv, Books, Once
<1> QED BY <1>1, <1>2, <1>3 DEF UploadFrame, Queued, Reversed, GivenUp

LEMMA SendRepeatStep == ASSUME PInv, SendRepeat PROVE PInv'
<1> USE DEF counters
<1>1. pc = "repeat" /\ pc \in UploadPCs /\ (job # "files" => disk.reversal = None)
    BY DEF SendRepeat, PInv, Known, Placed, UploadPCs
<1>2. UNCHANGED <<ret, feed, answer, posted, told, started, retries, failures>>
    BY DEF SendRepeat
<1>3. ASSUME NEW q, NothingToSend(q), UploadGoesOn PROVE PInv'
    <2>1. UNCHANGED <<disk, waived, revCount, advised>>
        BY <1>3 DEF NothingToSend
    <2>2. UploadFrame /\ revCount' \in BOOLEAN
        BY <2>1, <1>2, <1>3, NothingFrame
    <2>3. UploadEnds
        BY <2>1, <1>1, <1>3 DEF UploadEnds
    <2> QED BY <2>2, <2>3, <1>1, <1>2, UploadStep
<1>4. ASSUME NEW a \in disk.queue, a.repeat,
             \/ AdviceSettled(a) /\ UploadGoesOn
             \/ \E error \in {"comms", "system"}, delivered \in BOOLEAN :
                    AdviceFails(a, error, delivered) /\ UploadFails(error)
      PROVE  PInv'
    <2>1. a.debit /\ a.sale \in posted => GivenUp(a.sale)
        <3>1. posted \subseteq Sales
            BY DEF PInv, Known, TypeOK
        <3> QED BY <3>1, <1>4 DEF PInv, Books, Once
    <2>2. UploadFrame /\ revCount' \in BOOLEAN /\ (AdviceSettled(a) => disk'.reversal = None)
        BY <2>1, <1>2, <1>4, AdviceFrame
    <2>3. UploadEnds
        BY <2>2, <1>4 DEF UploadEnds
    <2> QED BY <2>2, <2>3, <1>1, <1>2, UploadStep
<1> QED BY <1>3, <1>4 DEF SendRepeat, Oldest, Repeats

LEMMA SendAdviceStep == ASSUME PInv, SendAdvice PROVE PInv'
<1> USE DEF counters, Goto
<1>1. pc = "advice" /\ job = "feed" /\ disk.reversal = None /\ ~InSale /\ pc' = "idle" /\ job' = job /\ ~InSale'
    BY DEF SendAdvice, PInv, Known, Placed, InSale
<1>2. UNCHANGED <<ret, feed, answer, posted, told, started, retries, failures, txn>>
    BY DEF SendAdvice
<1>3. UploadFrame /\ revCount' \in BOOLEAN
    <2>1. CASE \/ totals' = Recounted /\ UNCHANGED <<disk, waived, revCount, advised>>
               \/ NothingToSend(disk.queue)
        <3>1. UNCHANGED <<disk, waived, revCount, advised>>
            BY <2>1 DEF NothingToSend
        <3> QED BY <2>1, <3>1, <1>2, NothingFrame
    <2>2. ASSUME NEW a \in disk.queue,
                 \/ AdviceSettled(a)
                 \/ \E error \in {"comms", "system"}, delivered \in BOOLEAN : AdviceFails(a, error, delivered)
          PROVE  UploadFrame /\ revCount' \in BOOLEAN
        <3>1. a.debit /\ a.sale \in posted => GivenUp(a.sale)
            <4>1. a.debit => Queued(a.sale)
                BY DEF Queued
            <4>2. posted \subseteq Sales
                BY DEF PInv, Known, TypeOK
            <4> QED BY <4>1, <4>2, <1>1, SaleIsSome DEF PInv, Books, Once, Reversed
        <3> QED BY <2>2, <3>1, <1>2, AdviceFrame
    <2> QED BY <2>1, <2>2 DEF SendAdvice, Oldest
<1>4. Closed' = Closed
    BY <1>1, <1>2 DEF Closed
<1>5. TypeOK'
    <2>1. posted' \subseteq Sales /\ txn' \in Txns
        BY <1>2 DEF PInv, Known, TypeOK
    <2> QED BY <2>1, <1>1, <1>2, <1>3 DEF PInv, Known, TypeOK, UploadFrame, PCs, Jobs
<1>6. Placed' /\ Current'
    BY <1>1, <1>3 DEF PInv, Known, Placed, Current, UploadFrame, UploadPCs
<1>7. Staged'
    BY <1>1 DEF Staged, Before, Requested, Outcome, Resulted, Held, Printed, Agreed,
        RequestPCs, ResultPCs, StoredPCs
<1>8. pc \notin StoredPCs
    BY <1>1 DEF StoredPCs
<1> QED BY <1>1, <1>3, <1>4, <1>5, <1>6, <1>7, <1>8, UploadBooks DEF PInv, Known

-----------------------------------------------------------------------------
(* The theorems. *)

LEMMA NextInv == ASSUME PInv, Next PROVE PInv'
<1>1. ASSUME Upload PROVE PInv'
    BY <1>1, ReversalUploaded, SendRepeatStep, SendAdviceStep DEF Upload
<1>2. ASSUME Authorisation PROVE PInv'
    BY <1>2, CancelSaleStep, CardDecidesStep, AuthoriseStep, ConnectStep, BuildFailsStep, BuildRequestStep,
       TransmitStep, TransmitFailsStep, MarkSentStep, AnswerMissedStep, HostApprovesStep, HostDeclinesStep,
       IssuerUnavailableStep, RetryAccountStep, RetryPinStep, FallbackStep, CardDecidesUnableStep,
       SecondGenACStep, CardPulledStep
       DEF Authorisation
<1>3. ASSUME Finalisation PROVE PInv'
    BY <1>3, FinaliseStep, PrintReceiptStep, SignatureStep, CommitStep, MarkStoredStep, CustomerCopyStep,
       JournalStep, CloseStep, RespondStep
       DEF Finalisation
<1> QED BY <1>1, <1>2, <1>3, BeginSaleStep, IdleStep, PowerFailStep DEF Next, Terminal

LEMMA Invariance == Spec => []PInv
<1>1. PInv /\ [Next]_vars => PInv'
    BY NextInv, StutterInv
<1> QED BY InitInv, <1>1, PTL DEF Spec

\* The variables of the model stay within their types: a count never goes below
\* zero, nor above the number of sales (saf_totals, txn.h).
THEOREM TypeCorrect == Spec => []TypeOK
<1>1. PInv => TypeOK
    BY DEF PInv, Known
<1> QED BY Invariance, <1>1, PTL

\* No card is debited for the request and for the advice of one sale, unless its
\* reversal was given up (reversal.c, saf.c, txn.c).
THEOREM DebitsOnce == Spec => []NoDoubleDebit
<1>1. PInv => NoDoubleDebit
    BY DEF PInv, Books, Once, NoDoubleDebit
<1> QED BY Invariance, <1>1, PTL

\* What the POS was told is declined is not debited in the end (txn_finalisation,
\* the reversal that is set for it).
THEOREM DeclinesHold == Spec => []DeclinedNotCharged
<1>1. PInv => DeclinedNotCharged
    BY DEF PInv, Books, Declined, Reversed, DeclinedNotCharged
<1> QED BY Invariance, <1>1, PTL

\* What the POS was told is approved is debited, or its advice is on the way
\* (txn_commit, saf_add_record).
THEOREM ApprovalsHold == Spec => []ApprovedStands
<1>1. PInv => ApprovedStands
    BY DEF PInv, Books, Approved, ApprovedStands
<1> QED BY Invariance, <1>1, PTL

\* What the POS was told was cancelled by a power failure is not debited, unless
\* the sale was stored by then (CompleteTxn, power_on.c).
THEOREM PowerFailCancels == Spec => []CancelledByPowerFail
<1>1. PInv => CancelledByPowerFail
    BY DEF PInv, Books, Cancelled, Reversed, Debits, CancelledByPowerFail
<1> QED BY Invariance, <1>1, PTL

\* While a request is under way the reversal on file is its own (reversal_set
\* before comms_transmit, msgAS2805.c).
THEOREM ReversalKept == Spec => []ReversalIsOwn
<1>1. PInv => ReversalIsOwn
    BY DEF PInv, Staged, Requested, Refused, RequestPCs, ReversalIsOwn
<1> QED BY Invariance, <1>1, PTL
===============================================================================
