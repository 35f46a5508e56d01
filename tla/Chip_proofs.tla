---------------------------- MODULE Chip_proofs -----------------------------
(***************************************************************************)
(* Theorems about Chip, for every bound on the reads of the card.          *)
(***************************************************************************)
EXTENDS Chip, FiniteSetTheorems, TLAPS

Reading == {"capture", "kernel", "upload"}
Exchanging == {"transmit", "await"}

\* one request at most for every docked read, and one for the stripe
Budget ==
    LET room == IF IsChip THEN txn.reads ELSE txn.reads + 1 IN
    /\ pc = "capture" => txn.request <= txn.reads
    /\ pc \in {"kernel", "upload"} => txn.request < room
    /\ pc \notin Reading => txn.request <= room
    /\ pc \in Exchanging => txn.request # 0
    /\ pc \in {"kernel", "second", "result"} => IsChip
    /\ pc = "second" => local # "none"
    /\ pc # "over" => advices = 0

\* what stands is the last request, and its reversal is on file until the card
\* has accepted the host's approval
Standing ==
    /\ stands \subseteq {txn.request}
    /\ pc \in Exchanging => stands = {} /\ reversal = {txn.request}
    /\ pc \in Reading \cup {"efb"} /\ stands # {} => reversal = {txn.request}
    /\ pc = "second" /\ stands # {} =>
          reversal = {txn.request} \/ (local = "approved" /\ reversal = {})
    /\ pc = "result" /\ stands # {} =>
          reversal = {txn.request} \/ (txn.error = "none" /\ res = "none")

\* only a cash sale leaves the loop around the limit on reads
Bounded ==
    ~setup.cash =>
        /\ txn.reads <= 3
        /\ pc = "capture" => txn.reads <= 2
        /\ txn.error # "no_cashout" /\ res # "no_cashout"

IInv == TypeOK /\ Budget /\ Standing /\ Bounded

-----------------------------------------------------------------------------

(* A reversal file holds at most one request. *)
LEMMA FileHoldsOne ==
  ASSUME NEW x
  PROVE  Cardinality({x}) <= 1 /\ Cardinality({}) <= 1
<1>1. Cardinality({x}) = 1
  BY FS_Singleton
<1>2. Cardinality({}) = 0
  BY FS_EmptySet
<1> QED
  BY <1>1, <1>2

(* reversal_set keeps the original or stores the current request. *)
LEMMA ReversalSetKeeps ==
  ASSUME TypeOK
  PROVE  /\ ReversalSet(reversal) \in {reversal, {txn.request}}
         /\ ReversalSet(reversal) \subseteq Requests \cup {Earlier, Unsent}
         /\ Cardinality(ReversalSet(reversal)) <= 1
<1>1. txn.request \in Requests \cup {Earlier, Unsent}
  BY ChipAssumption DEF TypeOK, Txns, Requests, Unsent
<1> QED
  BY <1>1, FileHoldsOne DEF ReversalSet, TypeOK

USE ChipAssumption DEF Goto, Harmed, books

(* What the steps put into a transaction is of the types they have. *)
LEMMA ConstantTypes ==
  /\ "none" \in Errors /\ "erc" \in Errors /\ "no_response" \in Errors /\ "z1" \in Errors /\ "system" \in Errors /\ "removed" \in Errors
  /\ "blank" \in Codes /\ "00" \in Codes /\ "Y1" \in Codes /\ "Z1" \in Codes
  /\ Verdicts \subseteq Codes /\ "forced_icc" \in States
BY DEF Errors, KernelErrors, Codes, Verdicts, States

(* Presenting or pulling the card keeps the types; the bound on reads is Dock's. *)
LEMMA CaptureTypes ==
  ASSUME TypeOK, Budget, Capture \/ Pull
  PROVE  TypeOK'
<1>1. CASE Dock
  <2>1. txn' = [txn EXCEPT !.card = "chip", !.error = "none", !.rc = "blank", !.reads = txn.reads + 1]
    BY <1>1 DEF Dock, CleanSlate, TypeOK, Txns
  <2>2. txn.reads + 1 \in 0 .. MaxDocks
    BY <1>1 DEF Dock, TypeOK, Txns
  <2>3. txn' \in Txns
    BY <2>1, <2>2 DEF TypeOK, Txns, Errors, Codes
  <2> QED
    BY <1>1, <2>3 DEF Dock, TypeOK, PCs
<1>2. CASE Swipe
  <2>1. \E state \in States, print \in BOOLEAN :
           txn' = [txn EXCEPT !.card = "mag", !.error = "none", !.rc = "blank",
                              !.state = state, !.print = print]
    <3>1. CASE txn' = [CleanSlate("mag") EXCEPT !.state = "forced_icc"]
      <4>1. txn' = [txn EXCEPT !.card = "mag", !.error = "none", !.rc = "blank",
                               !.state = "forced_icc", !.print = txn.print]
        BY <3>1 DEF CleanSlate, TypeOK, Txns
      <4>2. txn.print \in BOOLEAN
        BY DEF TypeOK, Txns
      <4> QED
        BY <4>1, <4>2, ConstantTypes
    <3>2. CASE txn' = [CleanSlate("mag") EXCEPT !.print = TRUE]
      <4>1. txn' = [txn EXCEPT !.card = "mag", !.error = "none", !.rc = "blank",
                               !.state = txn.state, !.print = TRUE]
        BY <3>2 DEF CleanSlate, TypeOK, Txns
      <4>2. txn.state \in States
        BY DEF TypeOK, Txns
      <4> QED
        BY <4>1, <4>2
    <3> QED
      BY <1>2, <3>1, <3>2 DEF Swipe
  <2>2. txn' \in Txns
    BY <2>1, ConstantTypes DEF TypeOK, Txns
  <2> QED
    BY <1>2, <2>2 DEF Swipe, TypeOK, PCs
<1>3. CASE GiveUp
  <2>1. PICK e \in {"timeout", "pos_cancel"} : txn' = [CleanSlate("none") EXCEPT !.error = e]
    BY <1>3 DEF GiveUp
  <2>2. CleanSlate("none") \in Txns
    BY DEF CleanSlate, TypeOK, Txns, Errors, Codes
  <2>3. e \in Errors
    BY DEF Errors, KernelErrors
  <2>4. txn' \in Txns
    BY <2>1, <2>2, <2>3 DEF Txns
  <2> QED
    BY <1>3, <2>4 DEF GiveUp, TypeOK, PCs
<1>4. CASE Pull
  BY <1>4 DEF Pull, TypeOK
<1> QED
  BY <1>1, <1>2, <1>3, <1>4 DEF Capture

(* The kernel's steps keep the types. *)
LEMMA KernelTypes ==
  ASSUME TypeOK, Budget, Kernel
  PROVE  TypeOK'
<1>1. CASE CardDecides
  <2>1. txn' \in Txns
    BY <1>1, ConstantTypes DEF CardDecides, TypeOK, Txns
  <2> QED
    BY <1>1, <2>1 DEF CardDecides, TypeOK, Errors, PCs
<1>2. CASE ReadFails
  BY <1>2 DEF ReadFails, TypeOK, Txns, PCs, Errors, KernelErrors
<1>3. CASE GoOnline
  BY <1>3 DEF GoOnline, TypeOK, Txns, PCs
<1>4. CASE SecondCryptogram
  <2>1. txn' \in Txns
    <3>1. CASE CardAccepts
      <4>1. CASE local = "unable"
        <5>1. txn' = [txn EXCEPT !.rc = "00", !.needs = TRUE, !.error = "none", !.print = TRUE]
          BY <3>1, <4>1 DEF CardAccepts
        <5> QED
          BY <5>1, ConstantTypes DEF TypeOK, Txns
      <4>2. CASE local # "unable"
        BY <3>1, <4>2, ConstantTypes DEF CardAccepts, TypeOK, Txns
      <4> QED
        BY <4>1, <4>2
    <3>2. CASE CardDeclines
      <4>1. local \in {"unable", "approved", "declined"}
        BY <1>4 DEF SecondCryptogram, Budget, TypeOK
      <4> QED
        BY <3>2, <4>1 DEF CardDeclines, TypeOK, Txns, Codes, Errors
    <3> QED
      BY <1>4, <3>1, <3>2 DEF SecondCryptogram
  <2>2. reversal' \in {reversal, ReversalSet(reversal)}
    BY <1>4 DEF SecondCryptogram, CardAccepts, CardDeclines
  <2>3. res' \in Errors
    BY <1>4, <2>1 DEF SecondCryptogram, Handled, Txns, Errors
  <2> QED
    BY <1>4, <2>1, <2>2, <2>3, ReversalSetKeeps DEF SecondCryptogram, TypeOK, PCs
<1>5. CASE KernelFails
  <2>1. PICK e \in {"removed", "faulty", "swipe", "aborted"}, error \in Errors :
           /\ SecondFails(e, error)
           /\ slot' = (slot /\ e # "removed")
           /\ Harmed(error = "none" /\ txn.needs, "wiped")
           /\ res' = Handled(txn'.error, e)
    BY <1>5 DEF KernelFails, TypeOK, Txns, Errors, KernelErrors
  <2>2. e \in Errors
    BY DEF Errors, KernelErrors
  <2>3. txn' \in Txns
    BY <2>1, <2>2 DEF SecondFails, TypeOK, Txns
  <2>4. reversal' \in {reversal, ReversalSet(reversal)}
    BY <2>1 DEF SecondFails
  <2>5. res' \in Errors
    BY <2>1, <2>2, <2>3 DEF Handled, Txns
  <2>6. harm' \subseteq Causes
    BY <2>1 DEF TypeOK, Causes
  <2> QED
    BY <1>5, <2>1, <2>3, <2>4, <2>5, <2>6, ReversalSetKeeps DEF KernelFails, TypeOK, PCs
<1> QED
  BY <1>1, <1>2, <1>3, <1>4, <1>5 DEF Kernel

(* The exchange with the host keeps the types: a request is a new one (Budget). *)
LEMMA HostTypes ==
  ASSUME TypeOK, Budget, Host
  PROVE  TypeOK'
<1> DEFINE debited == stands \cup {txn.request}
<1>0. pc = "await" => debited \subseteq Requests
  <2>1. txn.request \in 0 .. MaxDocks + 1
    BY DEF TypeOK, Txns
  <2>2. pc = "await" => txn.request # 0
    BY DEF Budget, Exchanging
  <2>3. pc = "await" => txn.request \in Requests
    BY <2>1, <2>2 DEF Requests
  <2> QED
    BY <2>3 DEF TypeOK
<1>1. CASE NoConnection
  BY <1>1 DEF NoConnection, FallBack, Errors, TypeOK, Txns, PCs
<1>2. CASE ReversalTaken
  BY <1>2, FileHoldsOne DEF ReversalTaken, TypeOK
<1>3. CASE UploadFails
  BY <1>3 DEF UploadFails, Abandon, Errors, Causes, TypeOK, Txns, PCs
<1>4. CASE RemovedBefore
  BY <1>4 DEF RemovedBefore, Abandon, Errors, KernelErrors, TypeOK, Txns, PCs
<1>5. CASE SendRequest
  <2>1. txn.request + 1 \in Requests
    BY <1>5 DEF SendRequest, CreateRequest, TypeOK, Txns, Budget, Requests
  <2>2. txn' \in Txns
    BY <1>5, <2>1 DEF SendRequest, CreateRequest, TypeOK, Txns, Requests
  <2>3. harm' \subseteq Causes
    BY <1>5 DEF SendRequest, TypeOK, Causes
  <2>4. reversal' \subseteq Requests /\ Cardinality(reversal') <= 1
    BY <1>5, <2>1, FileHoldsOne DEF SendRequest, CreateRequest
  <2> QED
    BY <1>5, <2>2, <2>3, <2>4 DEF SendRequest, TypeOK, PCs
<1>6. CASE Transmit
  <2>1. txn' \in Txns
    <3>1. \/ txn' = [txn EXCEPT !.sent = TRUE, !.needs = FALSE]
          \/ txn' = [txn EXCEPT !.error = "no_response"]
      BY <1>6 DEF Transmit
    <3> QED
      BY <3>1, ConstantTypes DEF TypeOK, Txns
  <2>2. reversal' \in {reversal, {}}
    BY <1>6 DEF Transmit
  <2>3. pc' \in PCs /\ local' = local
    BY <1>6 DEF Transmit, FallBack, PCs
  <2> QED
    BY <1>6, <2>1, <2>2, <2>3, FileHoldsOne DEF Transmit, TypeOK
<1>7. CASE NoAnswer
  <2>1. txn' \in Txns
    BY <1>7 DEF NoAnswer, Abandon, Errors, KernelErrors, TypeOK, Txns
  <2>2. stands' \in {stands, debited}
    BY <1>7 DEF NoAnswer, Debits
  <2>3. pc' \in PCs /\ local' \in {local, "declined"}
    BY <1>7 DEF NoAnswer, Abandon, FallBack, PCs
  <2> QED
    BY <1>0, <1>7, <2>1, <2>2, <2>3, ReversalSetKeeps DEF NoAnswer, TypeOK
<1>8. CASE BadAnswer
  <2>1. txn' \in Txns
    <3>1. PICK rc \in {"blank", "00"} : txn' = [txn EXCEPT !.error = "system", !.rc = rc]
      BY <1>8 DEF BadAnswer
    <3> QED
      BY <3>1, ConstantTypes DEF TypeOK, Txns
  <2>2. stands' \in {stands, debited}
    BY <1>8 DEF BadAnswer, Debits
  <2> QED
    BY <1>0, <1>8, <2>1, <2>2, ReversalSetKeeps DEF BadAnswer, TypeOK, PCs, Errors
<1>9. CASE AnswerAfterRemoval
  <2>1. txn' \in Txns
    <3>1. PICK verdict \in Verdicts : txn' = [txn EXCEPT !.error = "removed", !.rc = verdict]
      BY <1>9 DEF AnswerAfterRemoval
    <3>2. verdict \in Codes
      BY ConstantTypes
    <3> QED
      BY <3>1, <3>2, ConstantTypes DEF TypeOK, Txns
  <2>2. stands' \in {stands, debited}
    BY <1>9 DEF AnswerAfterRemoval, Debits
  <2> QED
    BY <1>0, <1>9, <2>1, <2>2, ReversalSetKeeps DEF AnswerAfterRemoval, TypeOK, PCs
<1>10. CASE Answered
  <2>1. txn' \in Txns
    <3>1. PICK verdict \in Verdicts :
             \/ txn' = [txn EXCEPT !.error = "none", !.rc = verdict]
             \/ txn' = [txn EXCEPT !.error = "erc", !.rc = verdict]
             \/ txn' = [txn EXCEPT !.error = "none", !.rc = verdict, !.backup = verdict]
      BY <1>10 DEF Answered
    <3>2. verdict \in Codes
      BY ConstantTypes
    <3> QED
      BY <3>1, <3>2, ConstantTypes DEF TypeOK, Txns
  <2>2. stands' \in {stands, debited}
    BY <1>10 DEF Answered, Debits
  <2>3. pc' \in PCs /\ local' \in {local, "approved", "declined"}
    BY <1>10 DEF Answered, Decided, FallBack, PCs
  <2> QED
    BY <1>0, <1>10, <2>1, <2>2, <2>3, FileHoldsOne DEF Answered, TypeOK
<1>11. CASE EFB
  <2>1. [txn EXCEPT !.rc = "T", !.error = "erc"] \in Txns
    BY DEF TypeOK, Txns, Errors, Codes
  <2>2. [txn EXCEPT !.rc = "TE", !.error = "no_cashout"] \in Txns
    BY DEF TypeOK, Txns, Errors, Codes
  <2>3. [txn EXCEPT !.error = "removed"] \in Txns
    BY DEF TypeOK, Txns, Errors, KernelErrors
  <2>4. [txn EXCEPT !.rc = "Z3"] \in Txns /\ [txn EXCEPT !.rc = "Z3", !.error = "unable"] \in Txns
    BY DEF TypeOK, Txns, Errors, Codes
  <2>5. Manual \in Txns
    BY DEF Manual, TypeOK, Txns, Errors, Codes
  <2>6. EfbApproved \in Txns
    BY DEF EfbApproved, TypeOK, Txns, Errors, Codes
  <2>7. txn' \in Txns
    BY <1>11, <2>1, <2>2, <2>3, <2>4, <2>5, <2>6 DEF EFB, Refusals
  <2>8. pc' \in PCs /\ local' \in {local, "unable"}
    BY <1>11 DEF EFB, Decided, PCs
  <2> QED
    BY <1>11, <2>7, <2>8 DEF EFB, TypeOK
<1> QED
  BY <1>1, <1>2, <1>3, <1>4, <1>5, <1>6, <1>7, <1>8, <1>9, <1>10, <1>11 DEF Host

(* What the capture result leads to keeps the types. *)
LEMMA ProcessTypes ==
  ASSUME TypeOK, Budget, Process
  PROVE  TypeOK'
<1> USE DEF TypeOK, Txns, PCs, Ends, CaptureAgain, NoFurtherEffect, Outcome, Errors, KernelErrors
<1>1. CASE Interrupted
  BY <1>1 DEF Interrupted
<1>2. CASE NoCashout
  BY <1>2 DEF NoCashout, States
<1>3. CASE ReadLimit
  BY <1>3 DEF ReadLimit, Causes
<1>4. CASE CardPulled
  BY <1>4, ReversalSetKeeps DEF CardPulled
<1>5. CASE PresentAgain
  BY <1>5 DEF PresentAgain, States
<1>6. CASE TechnicalFallback
  BY <1>6 DEF TechnicalFallback, States
<1>7. CASE Settled
  BY <1>7 DEF Settled
<1> QED
  BY <1>1, <1>2, <1>3, <1>4, <1>5, <1>6, <1>7 DEF Process

\* the fields the finalisation leaves alone, and its only error
Like(t, u) == /\ u.request = t.request /\ u.reads = t.reads /\ u.card = t.card
              /\ u.error \in {t.error, "saf_full"}

(* What txn_finalisation does to the transaction before it is committed. *)
LEMMA FinalTransaction ==
  ASSUME txn \in Txns, NEW full \in BOOLEAN
  PROVE  LET t == Refused(Mapped(Printed), full) IN t \in Txns /\ Like(txn, t)
<1>1. Printed \in Txns /\ Like(txn, Printed)
  BY DEF Printed, Txns, Like
<1>2. ASSUME NEW t \in Txns
      PROVE  Mapped(t) \in Txns /\ Like(t, Mapped(t))
  <2>1. [t EXCEPT !.rc = "00", !.needs = TRUE] \in Txns
    BY DEF Txns, Codes
  <2>2. Like(t, t) /\ Like(t, [t EXCEPT !.rc = "00", !.needs = TRUE])
    BY DEF Txns, Like
  <2> QED
    BY <2>1, <2>2 DEF Mapped
<1>3. ASSUME NEW t \in Txns
      PROVE  Refused(t, full) \in Txns /\ Like(t, Refused(t, full))
  <2> DEFINE e == IF t.rc = "Z1" THEN t.error ELSE "saf_full"
  <2>1. e \in Errors
    BY DEF Txns, Errors
  <2>2. [t EXCEPT !.needs = FALSE, !.error = e] \in Txns
    BY <2>1 DEF Txns
  <2>3. Like(t, t) /\ Like(t, [t EXCEPT !.needs = FALSE, !.error = e])
    BY DEF Txns, Like
  <2> QED
    BY <2>2, <2>3 DEF Refused
<1> QED
  BY <1>1, <1>2, <1>3 DEF Like

(* The finalisation keeps the types: it stores one advice at most (Budget). *)
LEMMA FinaliseTypes ==
  ASSUME TypeOK, Budget, Finalise
  PROVE  TypeOK'
<1>4. PICK t \in Txns, file \in {reversal, ReversalSet(reversal)} :
         /\ \/ Commit(t, file)
            \/ txn' = t /\ reversal' = file /\ UNCHANGED advices
         /\ told' \in {"approved", "declined"}
  <2>1. PICK full \in BOOLEAN :
           LET t == Refused(Mapped(Printed), full)
               file == IF NeedsReversal THEN ReversalSet(reversal) ELSE reversal
           IN /\ IF Commits(t) THEN Commit(t, file)
                 ELSE txn' = t /\ reversal' = file /\ UNCHANGED advices
              /\ told' = IF ToldApproved(t) THEN "approved" ELSE "declined"
    BY DEF Finalise
  <2>2. Refused(Mapped(Printed), full) \in Txns
    BY FinalTransaction DEF TypeOK
  <2> QED
    BY <2>1, <2>2
<1>5. txn' \in Txns
  BY <1>4 DEF Commit, Txns
<1>6. reversal' \in {{}, reversal, ReversalSet(reversal)}
  BY <1>4 DEF Commit
<1>7. advices' \in 0 .. 1
  <2>1. advices = 0
    BY DEF Finalise, Budget
  <2> QED
    BY <1>4, <2>1 DEF Commit
<1> QED
  BY <1>4, <1>5, <1>6, <1>7, ReversalSetKeeps, FileHoldsOne DEF Finalise, TypeOK, PCs

(* Every step keeps the types. *)
LEMMA StepTypes ==
  ASSUME TypeOK, Budget, [Next]_vars
  PROVE  TypeOK'
<1>1. CASE Over \/ UNCHANGED vars
  BY <1>1 DEF Over, vars, TypeOK
<1> QED
  BY <1>1, CaptureTypes, KernelTypes, HostTypes, ProcessTypes, FinaliseTypes DEF Next

-----------------------------------------------------------------------------

(* What every step does to the fields the invariant speaks of. *)
LEMMA CaptureStep ==
  ASSUME IInv, Capture \/ Pull
  PROVE  Budget' /\ Standing' /\ Bounded'
<1> USE DEF Reading, Exchanging, IsChip
<1>0. txn \in Txns
  BY DEF IInv, TypeOK
<1>1. CASE Dock
  <2>1. /\ txn'.request = txn.request /\ txn'.reads = txn.reads + 1
        /\ txn'.card = "chip" /\ txn'.error = "none"
    BY <1>0, <1>1 DEF Dock, CleanSlate, Txns
  <2> QED
    BY <1>0, <1>1, <2>1 DEF Dock, Txns, IInv, Budget, Standing, Bounded
<1>2. CASE Swipe
  <2>1. /\ txn'.request = txn.request /\ txn'.reads = txn.reads
        /\ txn'.card = "mag" /\ txn'.error = "none"
    BY <1>0, <1>2 DEF Swipe, CleanSlate, Txns
  <2> QED
    BY <1>0, <1>2, <2>1 DEF Swipe, Txns, IInv, Budget, Standing, Bounded
<1>3. CASE GiveUp
  <2>1. /\ txn'.request = txn.request /\ txn'.reads = txn.reads
        /\ txn'.card = "none" /\ txn'.error # "no_cashout"
    BY <1>0, <1>3 DEF GiveUp, CleanSlate, Txns
  <2> QED
    BY <1>0, <1>3, <2>1 DEF GiveUp, Txns, IInv, Budget, Standing, Bounded
<1>4. CASE Pull
  BY <1>4 DEF Pull, IInv, Budget, Standing, Bounded
<1> QED
  BY <1>1, <1>2, <1>3, <1>4 DEF Capture

(* A kernel error after the host's approval sets the reversal (emv_cb.c). *)
LEMMA KernelStep ==
  ASSUME IInv, Kernel
  PROVE  Budget' /\ Standing' /\ Bounded'
<1> USE DEF Reading, Exchanging, IsChip
<1>0. txn \in Txns
  BY DEF IInv, TypeOK
<1> DEFINE Same == txn'.request = txn.request /\ txn'.reads = txn.reads /\ txn'.card = txn.card
<1>1. CASE CardDecides
  <2>1. Same /\ txn'.error \in {txn.error, "z1"}
    BY <1>0, <1>1 DEF CardDecides, Txns
  <2> QED
    BY <1>0, <1>1, <2>1 DEF CardDecides, Txns, IInv, Budget, Standing, Bounded
<1>2. CASE ReadFails
  <2>1. Same /\ txn'.error \in {txn.error, "removed", "timeout", "faulty"}
    BY <1>0, <1>2 DEF ReadFails, Txns
  <2>2. res' # "no_cashout"
    BY <1>2 DEF ReadFails, KernelErrors
  <2> QED
    BY <1>0, <1>2, <2>1, <2>2 DEF ReadFails, Txns, IInv, Budget, Standing, Bounded
<1>3. CASE GoOnline
  <2>1. Same /\ txn'.error = txn.error
    BY <1>0, <1>3 DEF GoOnline, Txns
  <2> QED
    BY <1>0, <1>3, <2>1 DEF GoOnline, Txns, IInv, Budget, Standing, Bounded
<1>4. CASE SecondCryptogram
  <2>1. local \in {"unable", "approved", "declined"}
    BY <1>4 DEF SecondCryptogram, IInv, Budget, TypeOK
  <2>2. CASE local # "declined" /\ CardAccepts
    <3>1. Same /\ txn'.error = "none"
      BY <1>0, <2>2 DEF CardAccepts, Txns
    <3>2. res' = "none"
      BY <1>4, <3>1 DEF SecondCryptogram, Handled, Overriding
    <3> QED
      BY <1>0, <1>4, <2>2, <3>1, <3>2 DEF SecondCryptogram, CardAccepts, ReversalSet, Txns, IInv, Budget, Standing, Bounded
  <2>3. CASE CardDeclines
    <3>1. Same /\ txn'.error \in {txn.error, "z4", "erc"}
      BY <1>0, <2>1, <2>3 DEF CardDeclines, Txns
    <3>2. txn.error # "no_cashout" => res' # "no_cashout"
      BY <1>4, <3>1 DEF SecondCryptogram, Handled, Overriding
    <3> QED
      BY <1>0, <1>4, <2>3, <3>1, <3>2 DEF SecondCryptogram, CardDeclines, ReversalSet, Txns, IInv, Budget, Standing, Bounded
  <2> QED
    BY <1>4, <2>2, <2>3 DEF SecondCryptogram
<1>5. CASE KernelFails
  <2>1. PICK e \in {"removed", "faulty", "swipe", "aborted"}, error \in {"removed", txn.error, "none"} :
           SecondFails(e, error) /\ res' = Handled(txn'.error, e)
    BY <1>5 DEF KernelFails
  <2>2. Same /\ txn'.error \in {e, error}
    BY <1>0, <2>1 DEF SecondFails, Txns
  <2>3. txn.error # "no_cashout" => txn'.error # "no_cashout" /\ res' # "no_cashout"
    BY <2>1, <2>2 DEF Handled, Overriding
  <2>4. stands # {} => reversal' = {txn.request}
    BY <1>5, <2>1 DEF KernelFails, SecondFails, ReversalSet, IInv, Standing
  <2> QED
    BY <1>0, <1>5, <2>2, <2>3, <2>4 DEF KernelFails, Txns, IInv, Budget, Standing, Bounded
<1> QED
  BY <1>1, <1>2, <1>3, <1>4, <1>5 DEF Kernel

(* A request is created only when the reversal of the one before was taken. *)
LEMMA HostStep ==
  ASSUME IInv, Host
  PROVE  Budget' /\ Standing' /\ Bounded'
<1> USE DEF Reading, Exchanging, IsChip
<1>0. txn \in Txns
  BY DEF IInv, TypeOK
<1> DEFINE Same == txn'.request = txn.request /\ txn'.reads = txn.reads /\ txn'.card = txn.card
<1>1. CASE NoConnection
  <2>1. Same /\ txn'.error = "no_response"
    BY <1>0, <1>1 DEF NoConnection, Txns
  <2> QED
    BY <1>0, <1>1, <2>1 DEF NoConnection, FallBack, Txns, IInv, Budget, Standing, Bounded
<1>2. CASE ReversalTaken
  <2>1. stands' = {}
    BY <1>2 DEF ReversalTaken, IInv, Standing
  <2> QED
    BY <1>2, <2>1 DEF ReversalTaken, IInv, Budget, Standing, Bounded
<1>3. CASE UploadFails
  <2>1. Same /\ txn'.error = "comms"
    BY <1>0, <1>3 DEF UploadFails, Abandon, Txns
  <2> QED
    BY <1>0, <1>3, <2>1 DEF UploadFails, Abandon, Txns, IInv, Budget, Standing, Bounded
<1>4. CASE RemovedBefore
  <2>1. Same /\ txn'.error = "removed"
    BY <1>0, <1>4 DEF RemovedBefore, Abandon, Txns
  <2> QED
    BY <1>0, <1>4, <2>1 DEF RemovedBefore, Abandon, Txns, IInv, Budget, Standing, Bounded
<1>5. CASE SendRequest
  <2>1. /\ txn'.request = txn.request + 1 /\ txn'.reads = txn.reads
        /\ txn'.card = txn.card /\ txn'.error = txn.error
    BY <1>0, <1>5 DEF SendRequest, CreateRequest, Txns
  <2>2. stands = {} /\ reversal' = {txn.request + 1}
    BY <1>5 DEF SendRequest, CreateRequest, IInv, Standing
  <2> QED
    <3>1. Budget'
      <4>1. txn.request \in Nat /\ txn.reads \in Nat
        BY <1>0 DEF Txns
      <4>2. pc = "upload" /\ pc' = "transmit" /\ advices' = advices
        BY <1>5 DEF SendRequest, CreateRequest
      <4>3. txn.request < (IF IsChip THEN txn.reads ELSE txn.reads + 1) /\ advices = 0
        BY <4>2 DEF IInv, Budget
      <4>4. IsChip' = IsChip
        BY <2>1
      <4>5. txn'.request <= (IF IsChip' THEN txn'.reads ELSE txn'.reads + 1)
        BY <2>1, <4>1, <4>3
      <4>6. txn'.request # 0
        BY <2>1, <4>1
      <4> HIDE DEF IsChip
      <4> QED
        BY <4>2, <4>3, <4>5, <4>6 DEF Budget
    <3>2. Standing'
      BY <1>5, <2>1, <2>2 DEF SendRequest, Standing
    <3>3. Bounded'
      BY <1>5, <2>1 DEF SendRequest, IInv, Bounded
    <3> QED
      BY <3>1, <3>2, <3>3
<1>6. CASE Transmit
  <2>1. Same /\ txn'.error \in {txn.error, "no_response"}
    BY <1>0, <1>6 DEF Transmit, Txns
  <2>2. stands = {}
    BY <1>6 DEF Transmit, IInv, Standing
  <2>3. pc' \in {"await", "efb"} /\ (pc' = "await" => reversal' = reversal)
    BY <1>6 DEF Transmit, FallBack
  <2> QED
    BY <1>0, <1>6, <2>1, <2>2, <2>3 DEF Transmit, Txns, IInv, Budget, Standing, Bounded
<1>7. CASE NoAnswer \/ AnswerAfterRemoval
  <2>1. Same /\ txn'.error \in {"no_response", "removed"}
    BY <1>0, <1>7 DEF NoAnswer, Abandon, AnswerAfterRemoval, Txns
  <2>2. stands' \subseteq {txn.request} /\ reversal' = {txn.request}
    BY <1>7 DEF NoAnswer, AnswerAfterRemoval, Debits, ReversalSet, IInv, Standing
  <2>3. pc' \in {"efb", "second", "final"}
    BY <1>7 DEF NoAnswer, FallBack, Abandon, AnswerAfterRemoval
  <2>4. pc' = "second" => IsChip /\ local' = "declined"
    BY <1>7 DEF NoAnswer, FallBack, Abandon, AnswerAfterRemoval, Removed
  <2> QED
    BY <1>0, <1>7, <2>1, <2>2, <2>3, <2>4
       DEF NoAnswer, AnswerAfterRemoval, Txns, IInv, Budget, Standing, Bounded
<1>8. CASE BadAnswer
  <2>1. Same /\ txn'.error = "system"
    BY <1>0, <1>8 DEF BadAnswer, Txns
  <2>2. stands' \subseteq {txn.request} /\ reversal' = {txn.request}
    BY <1>8 DEF BadAnswer, Debits, ReversalSet, IInv, Standing
  <2> QED
    BY <1>0, <1>8, <2>1, <2>2 DEF BadAnswer, Txns, IInv, Budget, Standing, Bounded
<1>9. CASE Answered
  <2>1. Same /\ txn'.error \in {"none", "erc"}
    BY <1>0, <1>9 DEF Answered, Txns
  <2>2. stands' \subseteq {txn.request} /\ reversal' = {}
    BY <1>9 DEF Answered, Debits, IInv, Standing
  <2>3. \/ pc' \in {"second", "final"} /\ (pc' = "second" => IsChip /\ local' = "approved")
        \/ pc' \in {"second", "final", "efb"} /\ stands' = stands
             /\ (pc' = "second" => IsChip /\ local' = "declined")
    BY <1>9 DEF Answered, Decided, FallBack, Debits, Approvals
  <2>4. stands = {}
    BY <1>9 DEF Answered, IInv, Standing
  <2> QED
    BY <1>0, <1>9, <2>1, <2>2, <2>3, <2>4 DEF Answered, Txns, IInv, Budget, Standing, Bounded
<1>10. CASE EFB
  <2>1. Same
    BY <1>0, <1>10 DEF EFB, Refusals, Manual, EfbApproved, Txns
  <2>2. ~setup.cash => txn'.error \in {txn.error, "removed", "erc", "unable", "efb"}
    BY <1>0, <1>10 DEF EFB, Refusals, Manual, EfbApproved, Txns
  <2> QED
    BY <1>0, <1>10, <2>1, <2>2 DEF EFB, Decided, Txns, IInv, Budget, Standing, Bounded
<1> QED
  BY <1>1, <1>2, <1>3, <1>4, <1>5, <1>6, <1>7, <1>8, <1>9, <1>10 DEF Host

(* Back to the capture only with nothing that stands unreversed. *)
LEMMA ProcessStep ==
  ASSUME IInv, Process
  PROVE  Budget' /\ Standing' /\ Bounded'
<1> USE DEF Reading, Exchanging, IsChip
<1>0. txn \in Txns
  BY DEF IInv, TypeOK
<1> DEFINE Same == txn'.request = txn.request /\ txn'.reads = txn.reads /\ txn'.card = txn.card
<1>1. CASE pc' = "final"
  <2>1. Same
    BY <1>0, <1>1 DEF Process, Interrupted, NoCashout, ReadLimit, CardPulled, PresentAgain,
       TechnicalFallback, Settled, Ends, CaptureAgain, Txns
  <2>2. txn.error # "no_cashout" /\ res # "no_cashout" => txn'.error # "no_cashout"
    BY <1>0, <1>1 DEF Process, Interrupted, NoCashout, ReadLimit, CardPulled, PresentAgain,
       TechnicalFallback, Settled, Ends, CaptureAgain, Txns, Outcome
  <2>3. pc = "result" /\ UNCHANGED <<setup, res, stands, advices>>
    BY DEF Process, Interrupted, NoCashout, ReadLimit, CardPulled, PresentAgain,
       TechnicalFallback, Settled, InContact, Contact, NoFurtherEffect
  <2> QED
    BY <1>0, <1>1, <2>1, <2>2, <2>3 DEF Txns, IInv, Budget, Standing, Bounded
<1>2. CASE pc' # "final"
  <2>1. /\ pc = "result" /\ pc' = "capture"
        /\ UNCHANGED <<setup, res, reversal, stands, advices>>
    BY <1>2 DEF Process, Interrupted, NoCashout, ReadLimit, CardPulled, PresentAgain,
       TechnicalFallback, Settled, InContact, Contact, NoFurtherEffect, Ends, CaptureAgain
  <2>2. Same /\ txn'.error = txn.error
    BY <1>0, <1>2 DEF Process, Interrupted, NoCashout, ReadLimit, CardPulled, PresentAgain,
       TechnicalFallback, Settled, Ends, CaptureAgain, Txns
  <2>3. \/ Outcome = "no_cashout"
        \/ Outcome \in {"again", "swipe", "faulty"} /\ txn.reads <= 2
    BY <1>0, <1>2 DEF Process, Interrupted, NoCashout, ReadLimit, CardPulled, PresentAgain,
       TechnicalFallback, Settled, InContact, Contact, Ends, TooManyReads, Txns
  <2>4. res # "none"
    BY <2>3 DEF Outcome
  <2>5. ~setup.cash => txn.reads <= 2
    BY <2>3 DEF Outcome, IInv, Bounded
  <2> QED
    BY <1>0, <1>2, <2>1, <2>2, <2>4, <2>5 DEF Txns, IInv, Budget, Standing, Bounded
<1> QED
  BY <1>1, <1>2

(* The finalisation leaves the request and the reads alone. *)
LEMMA FinaliseStep ==
  ASSUME IInv, Finalise
  PROVE  Budget' /\ Standing' /\ Bounded'
<1> USE DEF Reading, Exchanging, IsChip
<1>0. txn \in Txns
  BY DEF IInv, TypeOK
<1>1. PICK t \in Txns : Like(txn, t) /\ (txn' = t \/ \E sent : txn' = [t EXCEPT !.sent = sent])
  BY <1>0, FinalTransaction DEF Finalise, Commit
<1>2. Like(txn, txn')
  BY <1>1 DEF Txns, Like
<1> QED
  BY <1>0, <1>2 DEF Finalise, Like, Txns, IInv, Budget, Standing, Bounded

(* The invariant holds initially. *)
LEMMA InvInit ==
  Init => IInv
<1> SUFFICES ASSUME Init
             PROVE  IInv
  OBVIOUS
<1>0. /\ txn.card = "none" /\ txn.request = 0 /\ txn.reads = 0 /\ txn.error = "none"
      /\ pc = "capture" /\ stands = {} /\ advices = 0 /\ res = "none"
  BY DEF Init
<1>1. txn \in Txns
  <2>1. "none" \in Errors /\ "blank" \in Codes /\ "standard" \in States /\ 0 \in 0 .. MaxDocks
        /\ 0 \in 0 .. MaxDocks + 1
    BY DEF Errors, Codes, States
  <2> QED
    BY <2>1 DEF Init, Txns
<1>2. reversal \subseteq Requests \cup {Earlier, Unsent} /\ Cardinality(reversal) <= 1
  BY FileHoldsOne DEF Init
<1>3. TypeOK
  <2>1. /\ setup \in [cash : BOOLEAN, fallback : BOOLEAN]
        /\ slot = FALSE /\ local = "none" /\ told = "nothing" /\ harm = {}
    BY DEF Init
  <2>2. slot \in BOOLEAN /\ stands \subseteq Requests /\ harm \subseteq Causes
    BY <1>0, <2>1
  <2>3. pc \in PCs /\ res \in Errors /\ advices \in 0 .. 1
    BY <1>0 DEF PCs, Errors
  <2>4. local \in {"none", "approved", "declined", "unable"} /\ told \in {"nothing", "approved", "declined"}
    BY <2>1
  <2> QED
    BY <1>1, <1>2, <2>1, <2>2, <2>3, <2>4 DEF TypeOK
<1>4. Budget /\ Standing /\ Bounded
  BY <1>0 DEF Budget, Standing, Bounded, Reading, Exchanging, IsChip
<1> QED
  BY <1>3, <1>4 DEF IInv

(* Every step keeps the invariant. *)
LEMMA InvStep ==
  IInv /\ [Next]_vars => IInv'
<1> SUFFICES ASSUME IInv, [Next]_vars
             PROVE  IInv'
  OBVIOUS
<1>1. TypeOK'
  BY StepTypes DEF IInv
<1>2. CASE Over \/ UNCHANGED vars
  BY <1>2 DEF Over, vars, IInv, TypeOK, Budget, Standing, Bounded, IsChip
<1>3. CASE Capture \/ Pull \/ Kernel \/ Host \/ Process \/ Finalise
  BY <1>1, <1>3, CaptureStep, KernelStep, HostStep, ProcessStep, FinaliseStep DEF IInv
<1> QED
  BY <1>2, <1>3 DEF Next

-----------------------------------------------------------------------------

(* The inductive invariant holds in every reachable state. *)
THEOREM InvHolds == Spec => []IInv
BY InvInit, InvStep, PTL DEF Spec

(* Every variable keeps its type: however the reads and exchanges interleave, *)
(* the reversal file names one request at most (reversal.c), and no sale       *)
(* creates more requests than it has reads or stores more than one advice.     *)
THEOREM TypeCorrect == Spec => []TypeOK
<1>1. IInv => TypeOK
  BY DEF IInv
<1> QED
  BY <1>1, InvHolds, PTL

(* However often a docked card may be read, no two requests of one sale stand  *)
(* at the host: a request is created only once the reversal of the one before  *)
(* was taken (txn.c:6158), and every way out of an approval that leads back to *)
(* the capture has set that reversal.                                          *)
THEOREM RequestStandsOnce == Spec => []OneRequestStands
<1>1. IInv => OneRequestStands
  <2>1. stands \subseteq {txn.request} => stands = {} \/ stands = {txn.request}
    OBVIOUS
  <2> QED
    BY <2>1, FileHoldsOne DEF IInv, Standing, OneRequestStands
<1> QED
  BY <1>1, InvHolds, PTL

(* "endless cards reads" (txn.c:2240): a sale without cash never goes back to  *)
(* the capture after its third docked read; only the way back a cash sale      *)
(* takes (txn.c:2874) does not pass the limit.                                 *)
THEOREM ReadsAreBounded == Spec => []ReadsEnd
<1>1. IInv => ReadsEnd
  BY DEF IInv, Bounded, ReadsEnd
<1> QED
  BY <1>1, InvHolds, PTL

-----------------------------------------------------------------------------
(* The books: what the POS is told against what the card is charged.        *)

\* a request the card is charged for
Live == stands # {} /\ reversal # {txn.request}
Waived(cause) == cause \in harm

\* the codes of an approval, by the host, the fallback or the card
Debitable == Approvals \cup {"Y1"}

\* an advice an earlier read left to be sent
Kept == txn.needs => Waived("wiped")

\* the code of an earlier 91 takes no reversal that something depends on
Old91 == txn.backup = "91" => stands = {} \/ Waived("stale91")

AtHost ==
    /\ pc \in {"capture", "kernel", "upload", "transmit", "efb"} => Kept
    /\ pc = "await" => ~txn.needs /\ txn.sent
    /\ pc \in {"kernel", "upload", "transmit", "await"} => txn.rc = "blank"
    /\ pc \in {"upload", "transmit", "await", "efb", "second"} => txn.print
    /\ pc = "efb" => txn.rc = "blank" \/ (txn.rc = "91" /\ txn.backup = "91")
    /\ pc \in {"kernel", "upload", "transmit", "await"} => txn.error = "none"
    /\ pc = "efb" => txn.error \in {"none", "no_response"}
    /\ pc \in {"transmit", "await"} /\ txn.backup = "91" => Waived("stale91")

AtSecond ==
    pc = "second" =>
        \/ /\ local = "approved"
           /\ txn.error = "none" /\ txn.rc \in Approvals /\ txn.sent /\ ~txn.needs
           /\ stands = {txn.request} /\ reversal = {}
        \/ /\ local = "declined" /\ Kept
           /\ \/ txn.rc = "blank" /\ txn.error = "comms" /\ Waived("unsent")
              \/ txn.rc = "51" /\ txn.error = "erc"
              \/ txn.rc \notin {"Y1", "Z1"} /\ txn.error = "removed" /\ ~slot
        \/ /\ local = "unable"
           /\ txn.error = "efb" /\ txn.rc = "08" /\ txn.needs
        \/ /\ local = "unable" /\ Kept
           /\ \/ /\ txn.rc \in {"T", "91", "Z3", "TE"}
                 /\ txn.error \in {"none", "no_response", "erc", "unable", "no_cashout"}
              \/ txn.rc \notin {"Y1", "Z1"} /\ txn.error = "removed" /\ ~slot
           /\ txn.error = "erc" => txn.rc \in {"T", "91"}
           /\ txn.error = "unable" => txn.rc = "Z3"

AtResult ==
    pc = "result" =>
        /\ Live => reversal = {} /\ txn.sent /\ txn.rc \in Approvals /\ ~txn.needs
        /\ res = "efb" => txn.error = "efb" /\ txn.rc = "08" /\ txn.needs /\ txn.print
        /\ res = "none" /\ txn.rc \in Debitable => txn.print /\ (txn.needs \/ Live)
        /\ res = "none" /\ txn.rc = "blank" => Waived("unsent")
        /\ txn.error = "z4" => txn.rc = "Z4"
        /\ txn.error = "unable" => txn.rc = "Z3"
        /\ txn.error = "erc" => txn.rc \notin Debitable
        /\ res = "no_cashout" => txn.error = "no_cashout"
        /\ res # "none" => txn.rc # "Z1"
        /\ res \notin {"z4", "unable"}
        /\ txn.rc = "Y1" => txn.needs
        /\ txn.needs /\ ~Waived("wiped") /\ txn.rc # "Z1" =>
              \/ res = "efb" \/ (res = "none" /\ txn.rc \in Debitable)
              \/ res = "removed" /\ ~slot

AtFinal ==
    pc = "final" =>
        /\ Live => reversal = {} /\ txn.sent /\ txn.rc \in Approvals /\ ~txn.needs
                   /\ txn.error \in {"none", "limit"}
        /\ txn.error = "efb" => txn.rc = "08" /\ txn.needs /\ txn.print
        /\ txn.error = "none" /\ txn.rc \in Debitable => txn.print /\ (txn.needs \/ Live)
        /\ txn.error = "none" /\ txn.rc = "blank" => Waived("unsent")
        /\ txn.error = "erc" => txn.rc \notin Debitable
        /\ txn.rc = "Y1" => txn.needs
        /\ txn.needs /\ ~Waived("wiped") /\ ~Waived("limit") /\ txn.rc # "Z1" =>
              \/ txn.error \in {"efb", "removed"}
              \/ txn.error = "none" /\ txn.rc \in Debitable

AtOver ==
    /\ pc # "over" => told = "nothing"
    /\ DeclinedNotCharged /\ ApprovedChargesOnce

\* what each stage owes the next, up to what the POS is told
Books == Old91 /\ AtHost /\ AtSecond /\ AtResult /\ AtFinal /\ AtOver

(* A clean slate forgets the code and the error, not an earlier 91 or an advice. *)
LEMMA CaptureBooks ==
  ASSUME IInv, Books, Capture \/ Pull
  PROVE  Books'
<1>0. txn \in Txns
  BY DEF IInv, TypeOK
<1>1. CASE Dock
  <2>1. /\ txn'.backup = txn.backup /\ txn'.needs = txn.needs /\ txn'.rc = "blank" /\ txn'.error = "none"
        /\ txn'.request = txn.request
    BY <1>0, <1>1 DEF Dock, CleanSlate, Txns
  <2> QED
    BY <1>1, <2>1 DEF Dock, Books, Old91, AtHost, AtSecond, AtResult, AtFinal, AtOver, Kept, Waived,
       DeclinedNotCharged, ApprovedChargesOnce
<1>2. CASE Swipe
  <2>1. /\ txn'.backup = txn.backup /\ txn'.needs = txn.needs /\ txn'.rc = "blank" /\ txn'.error = "none"
        /\ txn'.request = txn.request /\ (pc' = "upload" => txn'.print)
    BY <1>0, <1>2 DEF Swipe, CleanSlate, Txns
  <2> QED
    BY <1>2, <2>1 DEF Swipe, Books, Old91, AtHost, AtSecond, AtResult, AtFinal, AtOver, Kept, Waived,
       DeclinedNotCharged, ApprovedChargesOnce
<1>3. CASE GiveUp
  <2>1. /\ txn'.backup = txn.backup /\ txn'.needs = txn.needs /\ txn'.rc = "blank"
        /\ txn'.error \in {"timeout", "pos_cancel"} /\ txn'.request = txn.request
    BY <1>0, <1>3 DEF GiveUp, CleanSlate, Txns
  <2>2. ~Live'
    BY <1>3, <2>1 DEF GiveUp, Live, IInv, Standing, Reading
  <2> QED
    BY <1>3, <2>1, <2>2 DEF GiveUp, Books, Old91, AtHost, AtSecond, AtResult, AtFinal, AtOver, Kept, Waived,
       DeclinedNotCharged, ApprovedChargesOnce
<1>4. CASE Pull
  <2>1. ~slot' /\ UNCHANGED <<txn, pc, res, local, stands, reversal, advices, told, harm>>
    BY <1>4 DEF Pull
  <2> QED
    <3>1. Old91' /\ AtHost' /\ AtFinal'
      BY <2>1 DEF Books, Old91, AtHost, AtFinal, Kept, Waived, Live
    <3>2. AtSecond' /\ AtResult'
      BY <2>1 DEF Books, AtSecond, AtResult, Kept, Waived, Live
    <3>3. AtOver'
      BY <2>1 DEF Books, AtOver, DeclinedNotCharged, ApprovedChargesOnce, Charges
    <3> QED
      BY <3>1, <3>2, <3>3 DEF Books
<1> QED
  BY <1>1, <1>2, <1>3, <1>4 DEF Capture

(* The second cryptogram decides: an approval the card declines is reversed. *)
LEMMA SecondBooks ==
  ASSUME IInv, Books, SecondCryptogram
  PROVE  Books'
<1>0. txn \in Txns /\ pc = "second" /\ slot /\ pc' = "result" /\ slot'
      /\ UNCHANGED <<local, stands, advices, told, harm>>
  BY DEF IInv, TypeOK, SecondCryptogram
<1> USE DEF Waived, Kept
<1> DEFINE Same == txn'.request = txn.request /\ txn'.sent = txn.sent /\ txn'.backup = txn.backup /\ txn'.print
<1>1. CASE local = "approved" /\ CardAccepts
  <2>1. Same /\ txn'.error = "none" /\ txn'.rc = txn.rc /\ txn'.needs = txn.needs /\ reversal' = reversal
    BY <1>0, <1>1 DEF CardAccepts, Txns
  <2>2. res' = "none"
    BY <2>1 DEF SecondCryptogram, Handled, Overriding
  <2>3. /\ txn.rc \in Approvals /\ txn.sent /\ ~txn.needs
        /\ stands = {txn.request} /\ reversal = {}
    BY <1>0, <1>1 DEF Books, AtSecond
  <2> QED
    BY <1>0, <2>1, <2>2, <2>3 DEF Books, Old91, AtHost, AtSecond, AtResult, AtFinal, AtOver, Live,
       DeclinedNotCharged, ApprovedChargesOnce, Debitable, Approvals
<1>2. CASE local = "approved" /\ CardDeclines
  <2>1. Same /\ txn'.error = "z4" /\ txn'.rc = "Z4" /\ txn'.needs = txn.needs /\ ~txn'.needs
    BY <1>0, <1>2 DEF CardDeclines, Txns, Books, AtSecond
  <2>2. res' = "none"
    BY <2>1 DEF SecondCryptogram, Handled, Overriding
  <2>3. reversal' = {txn.request}
    BY <1>0, <1>2 DEF CardDeclines, ReversalSet, Books, AtSecond
  <2> QED
    BY <1>0, <2>1, <2>2, <2>3 DEF Books, Old91, AtHost, AtSecond, AtResult, AtFinal, AtOver, Live,
       DeclinedNotCharged, ApprovedChargesOnce, Debitable, Approvals
<1>3. CASE local = "declined" /\ CardDeclines
  <2>1. Same /\ txn'.error = "erc" /\ txn'.rc = txn.rc /\ txn'.needs = txn.needs /\ reversal' = reversal
    BY <1>0, <1>3 DEF CardDeclines, Txns
  <2>2. res' = "none"
    BY <2>1 DEF SecondCryptogram, Handled, Overriding
  <2>3. \/ txn.rc = "blank" /\ Waived("unsent")
        \/ txn.rc = "51"
    BY <1>0, <1>3 DEF Books, AtSecond
  <2>4. ~Live' /\ Kept'
    BY <1>0, <1>3, <2>1 DEF IInv, Standing, Live, Books, AtSecond
  <2> QED
    BY <1>0, <2>1, <2>2, <2>3, <2>4 DEF Books, Old91, AtHost, AtSecond, AtResult, AtFinal, AtOver,
       DeclinedNotCharged, ApprovedChargesOnce, Debitable, Approvals
<1>4. CASE local = "unable" /\ CardAccepts
  <2>1. Same /\ txn'.error = "none" /\ txn'.rc = "00" /\ txn'.needs
    BY <1>0, <1>4 DEF CardAccepts, Txns
  <2>2. res' = "none"
    BY <2>1 DEF SecondCryptogram, Handled, Overriding
  <2>3. ~Live'
    BY <1>0, <1>4, <2>1 DEF CardAccepts, ReversalSet, IInv, Standing, Live
  <2> QED
    BY <1>0, <2>1, <2>2, <2>3 DEF Books, Old91, AtHost, AtSecond, AtResult, AtFinal, AtOver,
       DeclinedNotCharged, ApprovedChargesOnce, Debitable, Approvals
<1>5. CASE local = "unable" /\ CardDeclines
  <2>1. Same /\ txn'.error = txn.error /\ txn'.rc = txn.rc /\ txn'.needs = txn.needs
    BY <1>0, <1>5 DEF CardDeclines, Txns
  <2>2. res' = Handled(txn.error, "none")
    BY <2>1 DEF SecondCryptogram
  <2>3. ~Live'
    BY <1>0, <1>5, <2>1 DEF CardDeclines, ReversalSet, IInv, Standing, Live
  <2>4. CASE txn.error = "efb" /\ txn.rc = "08" /\ txn.needs
    <3>1. res' = "efb"
      BY <2>2, <2>4 DEF Handled, Overriding
    <3> QED
      BY <1>0, <2>1, <2>3, <2>4, <3>1 DEF Books, Old91, AtHost, AtSecond, AtResult, AtFinal, AtOver,
         DeclinedNotCharged, ApprovedChargesOnce, Debitable, Approvals
  <2>5. CASE /\ Kept /\ txn.rc \in {"T", "91", "Z3", "TE"}
             /\ txn.error \in {"none", "no_response", "erc", "unable", "no_cashout"}
             /\ txn.error = "unable" => txn.rc = "Z3"
    <3>1. res' \in {"none", "no_cashout"} /\ (res' = "no_cashout" => txn.error = "no_cashout")
      BY <2>2, <2>5 DEF Handled, Overriding
    <3> QED
      BY <1>0, <2>1, <2>3, <2>5, <3>1 DEF Books, Old91, AtHost, AtSecond, AtResult, AtFinal, AtOver,
         DeclinedNotCharged, ApprovedChargesOnce, Debitable, Approvals
  <2> QED
    BY <1>0, <1>5, <2>4, <2>5 DEF Books, AtSecond
<1>6. local \in {"approved", "declined", "unable"}
  BY <1>0 DEF Books, AtSecond
<1> QED
  BY <1>1, <1>2, <1>3, <1>4, <1>5, <1>6 DEF SecondCryptogram

(* A kernel error at the second cryptogram: an approval is reversed, an error of  *)
(* the fallback may be wiped.                                                     *)
LEMMA KernelFailsBooks ==
  ASSUME IInv, Books, KernelFails
  PROVE  Books'
<1>0. txn \in Txns /\ pc = "second" /\ pc' = "result"
      /\ UNCHANGED <<local, stands, advices, told>>
  BY DEF IInv, TypeOK, KernelFails
<1> USE DEF Waived, Kept
<1>1. PICK e \in {"removed", "faulty", "swipe", "aborted"}, error \in {"removed", txn.error, "none"} :
         /\ slot' = (slot /\ e # "removed")
         /\ e = "removed" => error = "removed"
         /\ e # "removed" => slot /\ error \in {txn.error, "none"}
         /\ SecondFails(e, error)
         /\ Harmed(error = "none" /\ txn.needs, "wiped")
         /\ res' = Handled(txn'.error, e)
  BY DEF KernelFails
<1>2. /\ txn'.request = txn.request /\ txn'.sent = txn.sent /\ txn'.backup = txn.backup
      /\ txn'.rc = txn.rc /\ txn'.needs = txn.needs
  BY <1>0, <1>1 DEF SecondFails, Txns
<1>3. txn'.error \in {e, error} /\ (txn'.error # e => local # "approved")
  BY <1>0, <1>1 DEF SecondFails, Txns
<1>4. ~Live'
  BY <1>0, <1>1, <1>2 DEF SecondFails, ReversalSet, Live, IInv, Standing
<1>5. harm \subseteq harm'
  BY <1>1
<1>6. res' \notin {"none", "z4", "unable"} /\ (res' \in {"efb", "no_cashout"} => txn'.error = res')
  BY <1>1 DEF Handled, Overriding
<1>7. txn.rc \notin {"Y1", "Z1"} /\ txn.print
  BY <1>0 DEF Books, AtSecond, AtHost, Approvals
<1>8. txn'.needs /\ ~Waived("wiped")' => res' = "efb" \/ (res' = "removed" /\ ~slot')
  <2>1. CASE local = "unable" /\ txn.error = "efb"
    <3>1. txn'.error = (IF e = "faulty" /\ error \notin Overriding THEN e ELSE error)
      BY <1>0, <1>1, <2>1 DEF SecondFails, Txns
    <3>2. CASE e = "removed"
      BY <1>1, <3>1, <3>2 DEF Handled, Overriding
    <3>3. CASE e # "removed" /\ error = "none"
      BY <1>1, <1>2, <3>3
    <3>4. CASE e # "removed" /\ error = "efb"
      BY <1>1, <3>1, <3>4 DEF Handled, Overriding
    <3> QED
      BY <1>1, <2>1, <3>2, <3>3, <3>4
  <2>2. CASE ~(local = "unable" /\ txn.error = "efb")
    BY <1>0, <1>2, <1>5, <2>2 DEF Books, AtSecond
  <2> QED
    BY <2>1, <2>2
<1>9. /\ txn'.error # "z4"
      /\ txn'.error = "unable" => txn.rc = "Z3"
      /\ txn'.error = "erc" => txn.rc \notin Debitable
      /\ txn'.error = "efb" => txn.rc = "08" /\ txn.needs
  BY <1>0, <1>1, <1>3 DEF Books, AtSecond, Debitable, Approvals
<1>10. txn'.print
  <2>1. txn'.print \in {txn.print, TRUE}
    BY <1>0, <1>1 DEF SecondFails, Txns
  <2> QED
    BY <1>7, <2>1
<1>11. AtResult'
  BY <1>2, <1>4, <1>6, <1>7, <1>8, <1>9, <1>10 DEF AtResult
<1>12. Old91'
  BY <1>0, <1>2, <1>5 DEF Books, Old91
<1> QED
  BY <1>0, <1>11, <1>12 DEF Books, AtHost, AtSecond, AtFinal, AtOver, DeclinedNotCharged, ApprovedChargesOnce

(* The kernel's steps keep the books. *)
LEMMA KernelBooks ==
  ASSUME IInv, Books, Kernel
  PROVE  Books'
<1>0. txn \in Txns
  BY DEF IInv, TypeOK
<1> USE DEF Waived, Kept
<1>1. CASE CardDecides
  <2>1. /\ txn'.backup = txn.backup /\ txn'.needs /\ txn'.print /\ txn'.request = txn.request
        /\ \/ txn'.rc = "Y1" /\ txn'.error = "none"
           \/ txn'.rc = "Z1" /\ txn'.error = "z1"
    BY <1>0, <1>1 DEF CardDecides, Txns, Books, AtHost
  <2>2. ~Live'
    BY <1>1, <2>1 DEF CardDecides, Live, IInv, Standing, Reading
  <2> QED
    BY <1>1, <2>1, <2>2 DEF CardDecides, Books, Old91, AtHost, AtSecond, AtResult, AtFinal, AtOver,
       DeclinedNotCharged, ApprovedChargesOnce, Debitable
<1>2. CASE ReadFails
  <2>1. /\ txn'.backup = txn.backup /\ txn'.needs = txn.needs /\ txn'.rc = "blank" /\ txn'.request = txn.request
        /\ txn'.error \in {"none", "removed", "timeout", "faulty"}
    BY <1>0, <1>2 DEF ReadFails, Txns, Books, AtHost
  <2>2. ~Live'
    BY <1>2, <2>1 DEF ReadFails, Live, IInv, Standing, Reading
  <2>3. res' \in KernelErrors
    BY <1>2 DEF ReadFails
  <2> QED
    BY <1>2, <2>1, <2>2, <2>3 DEF ReadFails, Books, Old91, AtHost, AtSecond, AtResult, AtFinal, AtOver,
       DeclinedNotCharged, ApprovedChargesOnce, Debitable, Approvals, KernelErrors
<1>3. CASE GoOnline
  <2>1. /\ txn'.backup = txn.backup /\ txn'.needs = txn.needs /\ txn'.rc = txn.rc /\ txn'.print
        /\ txn'.error = txn.error
    BY <1>0, <1>3 DEF GoOnline, Txns
  <2> QED
    BY <1>3, <2>1 DEF GoOnline, Books, Old91, AtHost, AtSecond, AtResult, AtFinal, AtOver,
       DeclinedNotCharged, ApprovedChargesOnce
<1>4. CASE SecondCryptogram
  BY <1>0, <1>4, SecondBooks
<1>5. CASE KernelFails
  BY <1>0, <1>5, KernelFailsBooks
<1> QED
  BY <1>1, <1>2, <1>3, <1>4, <1>5 DEF Kernel

(* The exchange with the host keeps the books. *)
LEMMA HostBooks ==
  ASSUME IInv, Books, Host
  PROVE  Books'
<1>0. txn \in Txns
  BY DEF IInv, TypeOK
<1> USE DEF Waived, Kept
<1> DEFINE Same == /\ txn'.request = txn.request /\ txn'.backup = txn.backup /\ txn'.sent = txn.sent
                   /\ txn'.needs = txn.needs /\ txn'.print = txn.print
<1>1. CASE NoConnection
  <2>1. Same /\ txn'.rc = txn.rc /\ txn'.error = "no_response"
    BY <1>0, <1>1 DEF NoConnection, Txns
  <2> QED
    BY <1>1, <2>1 DEF NoConnection, FallBack, Books, Old91, AtHost, AtSecond, AtResult, AtFinal, AtOver,
       DeclinedNotCharged, ApprovedChargesOnce
<1>2. CASE ReversalTaken
  <2>1. stands' = {}
    BY <1>2 DEF ReversalTaken, IInv, Standing, Reading
  <2> QED
    BY <1>2, <2>1 DEF ReversalTaken, Books, Old91, AtHost, AtSecond, AtResult, AtFinal, AtOver,
       DeclinedNotCharged, ApprovedChargesOnce
<1>3. CASE UploadFails
  <2>1. Same /\ txn'.rc = "blank" /\ txn'.error = "comms" /\ pc = "upload"
    BY <1>0, <1>3 DEF UploadFails, Abandon, Txns, Books, AtHost
  <2>2. ~Live'
    BY <1>3, <2>1 DEF UploadFails, Live, IInv, Standing, Reading
  <2>3. IF IsChip THEN pc' = "second" /\ local' = "declined" ELSE pc' = "final"
    BY <1>3 DEF UploadFails, Abandon
  <2>4. harm' = (IF IsChip THEN harm \cup {"unsent"} ELSE harm)
    BY <1>3 DEF UploadFails
  <2> QED
    BY <1>3, <2>1, <2>2, <2>3, <2>4 DEF UploadFails, Books, Old91, AtHost, AtSecond, AtResult, AtFinal, AtOver,
       DeclinedNotCharged, ApprovedChargesOnce, Debitable, Approvals
<1>4. CASE RemovedBefore
  <2>1. Same /\ txn'.rc = "blank" /\ txn'.error = "removed" /\ pc = "upload"
    BY <1>0, <1>4 DEF RemovedBefore, Abandon, Txns, Books, AtHost
  <2>2. ~Live' /\ ~slot' /\ pc' = "second" /\ local' = "declined"
    BY <1>4, <2>1 DEF RemovedBefore, Removed, Abandon, Live, IInv, Standing, Reading
  <2> QED
    BY <1>4, <2>1, <2>2 DEF RemovedBefore, Books, Old91, AtHost, AtSecond, AtResult, AtFinal, AtOver,
       DeclinedNotCharged, ApprovedChargesOnce
<1>5. CASE SendRequest
  <2>1. /\ txn'.backup = txn.backup /\ txn'.rc = txn.rc /\ txn'.needs = txn.needs
        /\ txn'.error = txn.error /\ txn'.print = txn.print
    BY <1>0, <1>5 DEF SendRequest, CreateRequest, Txns
  <2>2. pc = "upload" /\ pc' = "transmit" /\ harm \subseteq harm' /\ stands' = stands /\ stands = {}
    BY <1>5 DEF SendRequest, CreateRequest, IInv, Standing, Reading
  <2> QED
    BY <1>5, <2>1, <2>2 DEF SendRequest, Books, Old91, AtHost, AtSecond, AtResult, AtFinal, AtOver,
       DeclinedNotCharged, ApprovedChargesOnce
<1>6. CASE Transmit
  <2>1. /\ txn'.backup = txn.backup /\ txn'.rc = txn.rc /\ txn'.print = txn.print
        /\ \/ pc' = "await" /\ txn'.sent /\ ~txn'.needs /\ txn'.error = txn.error
           \/ pc' = "efb" /\ txn'.needs = txn.needs /\ txn'.error = "no_response"
    BY <1>0, <1>6 DEF Transmit, FallBack, Txns
  <2> QED
    BY <1>6, <2>1 DEF Transmit, Books, Old91, AtHost, AtSecond, AtResult, AtFinal, AtOver,
       DeclinedNotCharged, ApprovedChargesOnce
<1>11. CASE EFB
  <2>1. /\ txn'.backup \in {txn.backup, txn.rc} /\ txn'.request = txn.request
        /\ txn'.print = txn.print /\ txn'.sent = txn.sent
    BY <1>0, <1>11 DEF EFB, Refusals, Manual, EfbApproved, Txns
  <2>2. \/ Removed /\ txn'.error = "removed" /\ txn'.rc = txn.rc /\ txn'.needs = txn.needs
        \/ ~Removed /\ txn'.error = "erc" /\ txn'.rc \in {"T", "91"} /\ txn'.needs = txn.needs
        \/ ~Removed /\ txn'.error = "no_cashout" /\ txn'.rc = "TE" /\ txn'.needs = txn.needs
        \/ IsChip /\ ~Removed /\ txn'.error \in {txn.error, "unable"} /\ txn'.rc = "Z3" /\ txn'.needs = txn.needs
        \/ ~Removed /\ txn'.error = "efb" /\ txn'.rc = "08" /\ txn'.needs
    BY <1>0, <1>11 DEF EFB, Refusals, Manual, EfbApproved, Txns
  <2>3. /\ txn.rc = "blank" \/ (txn.rc = "91" /\ txn.backup = "91")
        /\ txn.error \in {"none", "no_response"} /\ txn.print
    BY <1>11 DEF EFB, Books, AtHost
  <2>4. ~Live'
    BY <1>11, <2>1 DEF EFB, Live, IInv, Standing
  <2>5. IF IsChip THEN pc' = "second" /\ local' = "unable" ELSE pc' = "final"
    BY <1>11 DEF EFB, Decided
  <2>7. txn.needs => "wiped" \in harm
    BY <1>11 DEF EFB, Books, AtHost
  <2>8. Old91'
    BY <1>11, <2>1, <2>3 DEF EFB, Books, Old91
  <2>9. AtSecond'
    BY <1>11, <2>2, <2>3, <2>5, <2>7 DEF EFB, AtSecond, Removed
  <2>10. AtFinal'
    BY <1>11, <2>1, <2>2, <2>3, <2>4, <2>5, <2>7 DEF EFB, AtFinal, Removed, Debitable, Approvals
  <2> QED
    BY <1>11, <2>1, <2>3, <2>5, <2>8, <2>9, <2>10 DEF EFB, Books, AtHost, AtResult, AtOver,
       DeclinedNotCharged, ApprovedChargesOnce
<1>12. pc = "await" => ~txn.needs /\ txn.sent /\ txn.print /\ txn.rc = "blank" /\ txn.error = "none"
                       /\ (txn.backup = "91" => "stale91" \in harm)
                       /\ stands = {} /\ reversal = {txn.request}
  BY DEF Books, AtHost, IInv, Standing, Exchanging
<1> DEFINE Kind == UNCHANGED <<advices, told, harm>> /\ pc = "await" /\ Same
<1>7. CASE NoAnswer
  <2>1. Kind /\ txn'.rc = txn.rc /\ txn'.error \in {"no_response", "removed"}
    BY <1>0, <1>7 DEF NoAnswer, Abandon, Txns
  <2>2. stands' \subseteq {txn.request} /\ reversal' = {txn.request}
    BY <1>7, <1>12 DEF NoAnswer, Debits, ReversalSet
  <2>3. \/ pc' = "efb" /\ txn'.error = "no_response"
        \/ pc' = "second" /\ local' = "declined" /\ ~slot' /\ txn'.error = "removed"
    BY <1>0, <1>7 DEF NoAnswer, FallBack, Abandon, Removed, Txns
  <2>4. Old91'
    BY <1>12, <2>1, <2>2 DEF Books, Old91
  <2> QED
    BY <1>7, <1>12, <2>1, <2>3, <2>4 DEF Books, AtHost, AtSecond, AtResult, AtFinal, AtOver,
       DeclinedNotCharged, ApprovedChargesOnce
<1>8. CASE BadAnswer
  <2>1. Kind /\ txn'.rc \in {"blank", "00"} /\ txn'.error = "system" /\ ~txn'.needs
    BY <1>0, <1>8, <1>12 DEF BadAnswer, Txns
  <2>2. stands' \subseteq {txn.request} /\ reversal' = {txn.request} /\ ~Live'
    BY <1>8, <1>12, <2>1 DEF BadAnswer, Debits, ReversalSet, Live
  <2>3. pc' \in {"result", "final"} /\ res' = "system"
    BY <1>8 DEF BadAnswer
  <2>4. Old91'
    BY <1>12, <2>1, <2>2 DEF Books, Old91
  <2> QED
    BY <1>8, <1>12, <2>1, <2>2, <2>3, <2>4 DEF Books, AtHost, AtSecond, AtResult, AtFinal, AtOver,
       DeclinedNotCharged, ApprovedChargesOnce, Debitable, Approvals
<1>9. CASE AnswerAfterRemoval
  <2>1. Kind /\ txn'.rc \in Verdicts /\ txn'.error = "removed" /\ ~slot'
    BY <1>0, <1>9 DEF AnswerAfterRemoval, Removed, Verdicts, Txns
  <2>2. stands' \subseteq {txn.request} /\ reversal' = {txn.request}
    BY <1>9, <1>12 DEF AnswerAfterRemoval, Debits, ReversalSet
  <2>3. pc' = "second" /\ local' = "declined"
    BY <1>9 DEF AnswerAfterRemoval
  <2>4. Old91'
    BY <1>12, <2>1, <2>2 DEF Books, Old91
  <2> QED
    BY <1>9, <1>12, <2>1, <2>3, <2>4 DEF Books, AtHost, AtSecond, AtResult, AtFinal, AtOver,
       DeclinedNotCharged, ApprovedChargesOnce, Verdicts
<1>10. CASE Answered
  <2>1. PICK verdict \in Verdicts :
          /\ Debits(verdict)
          /\ \/ /\ verdict \in Approvals
                /\ txn' = [txn EXCEPT !.error = "none", !.rc = verdict]
                /\ Decided("approved")
             \/ /\ verdict = "51"
                /\ txn' = [txn EXCEPT !.error = "erc", !.rc = verdict]
                /\ Decided("declined")
             \/ /\ verdict = "91"
                /\ txn' = [txn EXCEPT !.error = "none", !.rc = verdict, !.backup = verdict]
                /\ FallBack
    BY <1>10 DEF Answered
  <2>2. pc = "await" /\ reversal' = {} /\ UNCHANGED <<advices, told, harm>>
    BY <1>10 DEF Answered
  <2>3. txn'.request = txn.request /\ txn'.sent /\ ~txn'.needs /\ txn'.print
    BY <1>0, <1>12, <2>1, <2>2 DEF Txns
  <2>4. CASE verdict \in Approvals
    <3>1. txn'.error = "none" /\ txn'.rc \in Approvals /\ txn'.backup = txn.backup
      BY <1>0, <2>1, <2>4 DEF Txns, Approvals
    <3>2. stands' = {txn'.request}
      BY <1>12, <2>1, <2>2, <2>3, <2>4 DEF Debits
    <3>3. IF IsChip THEN pc' = "second" /\ local' = "approved" ELSE pc' = "final"
      BY <2>1, <2>4 DEF Decided, Approvals
    <3>4. Live'
      BY <2>2, <3>2 DEF Live
    <3> QED
      BY <1>12, <2>2, <2>3, <3>1, <3>2, <3>3, <3>4 DEF Books, Old91, AtHost, AtSecond, AtResult, AtFinal,
         AtOver, DeclinedNotCharged, ApprovedChargesOnce, Debitable, Approvals
  <2>5. CASE verdict = "51"
    <3>1. txn'.error = "erc" /\ txn'.rc = "51" /\ txn'.backup = txn.backup
      BY <1>0, <2>1, <2>5 DEF Txns, Approvals
    <3>2. stands' = {} /\ ~Live'
      BY <1>12, <2>1, <2>2, <2>5 DEF Debits, Approvals, Live
    <3>3. IF IsChip THEN pc' = "second" /\ local' = "declined" ELSE pc' = "final"
      BY <2>1, <2>5 DEF Decided, Approvals
    <3> QED
      BY <1>12, <2>2, <2>3, <3>1, <3>2, <3>3 DEF Books, Old91, AtHost, AtSecond, AtResult, AtFinal,
         AtOver, DeclinedNotCharged, ApprovedChargesOnce, Debitable, Approvals
  <2>6. CASE verdict = "91"
    <3>1. txn'.error = "none" /\ txn'.rc = "91" /\ txn'.backup = "91"
      BY <1>0, <2>1, <2>6 DEF Txns, Approvals
    <3>2. stands' = {} /\ pc' = "efb"
      BY <1>12, <2>1, <2>2, <2>6 DEF Debits, Approvals, FallBack
    <3> QED
      BY <1>12, <2>2, <2>3, <3>1, <3>2 DEF Books, Old91, AtHost, AtSecond, AtResult, AtFinal,
         AtOver, DeclinedNotCharged, ApprovedChargesOnce
  <2> QED
    BY <2>4, <2>5, <2>6 DEF Verdicts, Approvals
<1> QED
  BY <1>1, <1>2, <1>3, <1>4, <1>5, <1>6, <1>7, <1>8, <1>9, <1>10, <1>11 DEF Host

(* The capture result keeps the books: what an approval left behind goes to the    *)
(* finalisation, to a reversal or, at the limit on reads, to harm.                *)
LEMMA ProcessBooks ==
  ASSUME IInv, Books, Process
  PROVE  Books'
<1>0. txn \in Txns
  BY DEF IInv, TypeOK
<1> USE DEF Waived, Kept
<1> DEFINE Same == /\ txn'.request = txn.request /\ txn'.backup = txn.backup /\ (txn'.sent <=> txn.sent)
                   /\ (txn'.needs <=> txn.needs) /\ (txn'.print <=> txn.print) /\ txn'.rc = txn.rc
           Kind == /\ pc = "result" /\ UNCHANGED <<setup, slot, res, local, stands, advices, told>>
                   /\ Same /\ harm \subseteq harm' /\ harm' \subseteq harm \cup {"limit"}
<1>1. Kind
  BY <1>0 DEF Process, Interrupted, NoCashout, ReadLimit, CardPulled, PresentAgain,
       TechnicalFallback, Settled, InContact, Contact, NoFurtherEffect, Ends, CaptureAgain, Txns
<1>2. stands # {} => reversal = {txn.request} \/ (txn.error = "none" /\ res = "none")
  BY <1>1 DEF IInv, Standing
<1>3. Old91' /\ AtOver'
  <2>1. stands' = stands /\ reversal' \in {reversal, ReversalSet(reversal)} /\ pc' # "over"
    BY <1>1 DEF Process, Interrupted, NoCashout, ReadLimit, CardPulled, PresentAgain,
       TechnicalFallback, Settled, InContact, Contact, Ends, CaptureAgain
  <2> QED
    BY <1>1, <2>1 DEF Books, Old91, AtOver, DeclinedNotCharged, ApprovedChargesOnce
<1>4. CASE pc' # "final"
  <2>1. /\ pc' = "capture"
        /\ Outcome \in {"no_cashout", "again", "swipe", "faulty"}
    BY <1>4 DEF Process, Interrupted, NoCashout, ReadLimit, CardPulled, PresentAgain,
       TechnicalFallback, Settled, Ends, CaptureAgain
  <2>2. txn.needs => "wiped" \in harm
    BY <1>1, <2>1 DEF Outcome, Books, AtResult
  <2> QED
    BY <1>1, <1>3, <2>1, <2>2 DEF Books, AtHost, AtSecond, AtResult, AtFinal, Debitable, Approvals
<1>5. ASSUME Interrupted, pc' = "final" PROVE AtFinal'
  <2>1. txn'.error \in {"timeout", "system", "erc"} /\ (txn'.error = "erc" => txn.error = "erc")
    BY <1>0, <1>5 DEF Interrupted, Ends, Txns
  <2>2. res \in {"timeout", "system"} /\ reversal' = reversal
    BY <1>5 DEF Interrupted, Outcome
  <2>3. ~Live'
    BY <1>1, <1>2, <2>2 DEF Live
  <2> QED
    BY <1>1, <1>5, <2>1, <2>2, <2>3 DEF Books, AtResult, AtFinal, Debitable, Approvals
<1>6. ASSUME NoCashout, pc' = "final" PROVE AtFinal'
  <2>1. res = "no_cashout" /\ reversal' = reversal /\ txn'.error = txn.error
    BY <1>0, <1>6 DEF NoCashout, Outcome, Ends, CaptureAgain, Txns
  <2>2. ~Live' /\ txn'.error = "no_cashout"
    BY <1>1, <1>2, <2>1 DEF Live, Books, AtResult
  <2> QED
    BY <1>1, <1>6, <2>1, <2>2 DEF Books, AtResult, AtFinal, Debitable, Approvals
<1>7. ASSUME ReadLimit PROVE AtFinal'
  <2>1. /\ txn'.error = "limit" /\ reversal' = reversal /\ pc' = "final"
        /\ txn.needs /\ txn.rc # "Z1" => "limit" \in harm'
    BY <1>0, <1>7 DEF ReadLimit, Ends, Txns
  <2> QED
    BY <1>1, <2>1 DEF Books, AtResult, AtFinal, Live, Debitable, Approvals
<1>8. ASSUME CardPulled PROVE AtFinal'
  <2>1. txn'.error = "removed" /\ pc' = "final"
    BY <1>0, <1>8 DEF CardPulled, Ends, Txns
  <2>2. ~Live'
    <3>1. CASE Live
      BY <1>1, <1>8, <3>1 DEF CardPulled, ReversalSet, Books, AtResult, Live
    <3>2. CASE ~Live
      BY <1>1, <1>8, <3>2 DEF CardPulled, ReversalSet, Live
    <3> QED
      BY <3>1, <3>2
  <2> QED
    BY <1>1, <2>1, <2>2 DEF Books, AtResult, AtFinal, Debitable, Approvals
<1>9. ASSUME TechnicalFallback, pc' = "final" PROVE AtFinal'
  <2>1. txn'.error = "limit" /\ reversal' = reversal /\ res = "faulty"
    BY <1>0, <1>9 DEF TechnicalFallback, CaptureAgain, Ends, Outcome, Txns
  <2>2. ~Live'
    BY <1>1, <1>2, <2>1 DEF Live
  <2> QED
    BY <1>1, <1>9, <2>1, <2>2 DEF Books, AtResult, AtFinal, Debitable, Approvals
<1>10. ASSUME Settled PROVE AtFinal'
  <2>1. /\ txn'.error = Outcome /\ reversal' = reversal /\ pc' = "final" /\ slot
        /\ Outcome \in {"none", "efb", "z4", "unable", "aborted"}
    BY <1>0, <1>10 DEF Settled, Contact, Ends, Txns
  <2>2. Live' <=> Live
    BY <1>1, <2>1 DEF Live
  <2>3. CASE Outcome \in {"z4", "unable"}
    <3>1. txn.rc \in {"Z3", "Z4"} /\ ~Live
      BY <1>1, <1>2, <2>3 DEF Outcome, Live, Books, AtResult, Approvals
    <3> QED
      BY <1>1, <2>1, <2>2, <2>3, <3>1 DEF Books, AtResult, AtFinal, Debitable, Approvals
  <2>4. CASE Outcome \notin {"z4", "unable"}
    <3>1. Outcome = res
      BY <2>4 DEF Outcome
    <3>2. Live => res = "none"
      BY <1>2 DEF Live
    <3> QED
      BY <1>1, <2>1, <2>2, <3>1, <3>2 DEF Books, AtResult, AtFinal, Debitable, Approvals
  <2> QED
    BY <2>3, <2>4
<1>11. CASE pc' = "final"
  <2>1. AtFinal'
    BY <1>5, <1>6, <1>7, <1>8, <1>9, <1>10, <1>11 DEF Process, PresentAgain, CaptureAgain
  <2> QED
    BY <1>3, <1>11, <2>1 DEF Books, AtHost, AtSecond, AtResult
<1> QED
  BY <1>4, <1>11

(* What the finalisation decides from: an offline approval by the card becomes *)
(* an approval to be sent, and is refused if the batch is full.                *)
LEMMA FinalFields ==
  ASSUME txn \in Txns, NEW full \in BOOLEAN
  PROVE  LET t == Refused(Mapped(Printed), full)
             owed == txn.rc = "Y1" \/ txn.needs
         IN /\ t.backup = txn.backup /\ t.request = txn.request
            /\ t.rc = IF txn.rc = "Y1" THEN "00" ELSE txn.rc
            /\ t.needs <=> owed /\ ~full
            /\ t.error = IF owed /\ full /\ txn.rc # "Z1" THEN "saf_full" ELSE txn.error
            /\ (txn.print /\ txn.error # "pos_cancel") \/ (txn.sent /\ txn.error # "none") => t.print
<1>1. /\ Printed \in Txns
      /\ Printed.backup = txn.backup /\ Printed.request = txn.request
      /\ Printed.rc = txn.rc /\ Printed.needs = txn.needs /\ Printed.error = txn.error
      /\ (txn.print /\ txn.error # "pos_cancel") \/ (txn.sent /\ txn.error # "none") => Printed.print
  BY DEF Printed, Txns
<1> DEFINE p == Printed
           m == Mapped(p)
           t == Refused(m, full)
<1>2. /\ m \in Txns /\ m.backup = p.backup /\ m.request = p.request /\ m.error = p.error
      /\ m.print = p.print
      /\ m.rc = IF p.rc = "Y1" THEN "00" ELSE p.rc
      /\ m.needs <=> p.rc = "Y1" \/ p.needs
  <2> HIDE DEF p
  <2>1. CASE p.rc = "Y1"
    <3>1. m = [p EXCEPT !.rc = "00", !.needs = TRUE]
      BY <2>1 DEF Mapped
    <3>2. m \in Txns
      BY <1>1, <3>1 DEF p, Txns, Codes
    <3> QED
      BY <1>1, <2>1, <3>1, <3>2 DEF p, Txns
  <2>2. CASE p.rc # "Y1"
    BY <1>1, <2>2 DEF p, Mapped
  <2> QED
    BY <2>1, <2>2
<1>3. /\ t.backup = m.backup /\ t.request = m.request /\ t.print = m.print /\ t.rc = m.rc
      /\ t.needs <=> m.needs /\ ~full
      /\ t.error = IF m.needs /\ full /\ m.rc # "Z1" THEN "saf_full" ELSE m.error
  <2> HIDE DEF m
  <2> QED
    BY <1>2 DEF Refused, Txns
<1> HIDE DEF m, t
<1>4. m.rc = "Z1" <=> txn.rc = "Z1"
  BY <1>1, <1>2
<1>5. t.needs <=> (txn.rc = "Y1" \/ txn.needs) /\ ~full
  BY <1>1, <1>2, <1>3
<1>6. t.error = IF (txn.rc = "Y1" \/ txn.needs) /\ full /\ txn.rc # "Z1" THEN "saf_full" ELSE txn.error
  BY <1>1, <1>2, <1>3, <1>4
<1> QED
  BY <1>1, <1>2, <1>3, <1>5, <1>6 DEF m, t

(* The finalisation settles the books. *)
LEMMA FinaliseBooks ==
  ASSUME IInv, Books, Finalise
  PROVE  Books'
<1>0. /\ txn \in Txns /\ pc = "final" /\ pc' = "over" /\ advices = 0
      /\ UNCHANGED <<stands, harm>>
  BY DEF IInv, TypeOK, Budget, Finalise
<1> USE DEF Waived
<1> DEFINE file == IF NeedsReversal THEN ReversalSet(reversal) ELSE reversal
           owed == txn.rc = "Y1" \/ txn.needs
<1>1. PICK full \in BOOLEAN :
         LET t == Refused(Mapped(Printed), full)
         IN /\ IF Commits(t) THEN Commit(t, file)
               ELSE txn' = t /\ reversal' = file /\ UNCHANGED advices
            /\ told' = IF ToldApproved(t) THEN "approved" ELSE "declined"
  BY DEF Finalise
<1> DEFINE t == Refused(Mapped(Printed), full)
<1>2. /\ t.backup = txn.backup /\ t.request = txn.request
      /\ t.rc = IF txn.rc = "Y1" THEN "00" ELSE txn.rc
      /\ t.needs <=> owed /\ ~full
      /\ t.error = IF owed /\ full /\ txn.rc # "Z1" THEN "saf_full" ELSE txn.error
      /\ (txn.print /\ txn.error # "pos_cancel") \/ (txn.sent /\ txn.error # "none") => t.print
  BY <1>0, FinalFields
<1>3. t \in Txns
  BY <1>0, FinalTransaction
<1>4. /\ IF Commits(t) THEN Commit(t, file)
         ELSE txn' = t /\ reversal' = file /\ UNCHANGED advices
      /\ told' = IF ToldApproved(t) THEN "approved" ELSE "declined"
  BY <1>1
<1> HIDE DEF t
<1>5. txn'.backup = txn.backup
  BY <1>2, <1>3, <1>4 DEF Commit, Txns
<1>6. Old91'
  BY <1>0, <1>5 DEF Books, Old91
<1> DEFINE stored == Commits(t) /\ t.needs /\ t.rc \notin {"91", "Z1"}
<1>7. advices' = IF stored THEN 1 ELSE 0
  BY <1>0, <1>2, <1>4 DEF Commit, Commits
<1>8. reversal' \in {file, {}} /\ (reversal' # file => txn.backup = "91" /\ Commits(t)
                                     /\ ~(t.error \in {"none", "erc"} /\ ~t.needs /\ t.rc # "91"))
  BY <1>2, <1>4 DEF Commit
<1> HIDE DEF stored, file
<1>9. AtFinal
  BY DEF Books
<1>10. stands = {} \/ stands = {txn.request}
  BY DEF IInv, Standing
<1>11. Charges' = Cardinality(stands \ reversal') + advices'
  BY <1>0 DEF Charges
<1>12. CASE Live
  <2>1. /\ reversal = {} /\ txn.sent /\ txn.rc \in Approvals /\ ~txn.needs
        /\ txn.error \in {"none", "limit"} /\ stands = {txn.request}
    BY <1>0, <1>9, <1>10, <1>12 DEF AtFinal, Live
  <2>2. ~t.needs /\ t.rc = txn.rc /\ t.error = txn.error
    BY <1>2, <2>1 DEF Approvals
  <2>3. advices' = 0
    BY <1>7, <2>2 DEF stored
  <2>4. CASE txn.error = "none"
    <3>1. file = {}
      BY <2>1, <2>4 DEF file, NeedsReversal
    <3>2. told' = "approved"
      BY <1>4, <2>1, <2>2, <2>4 DEF ToldApproved
    <3>3. stands \ reversal' = {txn.request}
      BY <1>8, <2>1, <3>1
    <3>4. Charges' = 1
      <4>1. Cardinality({txn.request}) = 1
        BY FS_Singleton
      <4>2. Cardinality(stands \ reversal') = 1
        BY <3>3, <4>1, Zenon
      <4>3. 1 + 0 = 1
        OBVIOUS
      <4> QED
        BY <1>11, <2>3, <4>2, <4>3, Zenon
    <3> QED
      BY <1>0, <1>6, <3>2, <3>4 DEF Books, AtHost, AtSecond, AtResult, AtFinal, AtOver,
         DeclinedNotCharged, ApprovedChargesOnce
  <2>5. CASE txn.error = "limit"
    <3>1. file = {txn.request}
      BY <2>1, <2>5 DEF file, NeedsReversal, ReversalSet
    <3>2. told' = "declined"
      BY <1>4, <2>1, <2>2, <2>5 DEF ToldApproved
    <3>3. stands \ reversal' = {} \/ "stale91" \in harm'
      BY <1>0, <1>8, <2>1, <3>1 DEF Books, Old91
    <3>4. Charges' = 0 \/ "stale91" \in harm'
      BY <1>11, <2>3, <3>3, FS_EmptySet
    <3> QED
      BY <1>0, <1>6, <3>2, <3>4 DEF Books, AtHost, AtSecond, AtResult, AtFinal, AtOver,
         DeclinedNotCharged, ApprovedChargesOnce
  <2> QED
    BY <2>1, <2>4, <2>5
<1>13. CASE ~Live
  <2>1. stands = {} \/ reversal = {txn.request}
    BY <1>13 DEF Live
  <2>2. stands \ reversal' = {} \/ "stale91" \in harm'
    <3>1. stands = {} \/ file = {txn.request}
      BY <2>1 DEF file, ReversalSet
    <3> QED
      BY <1>0, <1>8, <1>10, <3>1 DEF Books, Old91
  <2>3. Charges' = advices' \/ "stale91" \in harm'
    BY <1>7, <1>11, <2>2, FS_EmptySet
  <2>4. told' = "approved" /\ advices' = 0 => "unsent" \in harm'
    <3> SUFFICES ASSUME told' = "approved", "unsent" \notin harm'
                 PROVE  stored
      BY <1>7
    <3>1. ToldApproved(t)
      BY <1>4
    <3>2. /\ t.error \in {"efb", "none"} /\ t.error = txn.error
          /\ txn.rc \in Debitable /\ txn.needs /\ txn.print
      BY <1>0, <1>2, <1>9, <1>13, <3>1 DEF ToldApproved, AtFinal, Debitable, Approvals
    <3>3. ~full
      BY <1>2, <3>2 DEF Debitable, Approvals
    <3> QED
      BY <1>2, <3>2, <3>3 DEF stored, Commits, Debitable, Approvals
  <2>5. told' = "declined" /\ advices' = 1 => "wiped" \in harm' \/ "limit" \in harm'
    <3> SUFFICES ASSUME told' = "declined", stored, "wiped" \notin harm', "limit" \notin harm'
                 PROVE  FALSE
      BY <1>7
    <3>1. ~ToldApproved(t)
      BY <1>4
    <3>2. t.needs /\ t.rc \notin {"91", "Z1"} /\ t.error # "removed"
      BY DEF stored, Commits
    <3>3. owed /\ ~full /\ t.error = txn.error /\ txn.rc # "Z1"
      BY <1>2, <3>2
    <3>4. txn.error = "efb" \/ (txn.error = "none" /\ txn.rc \in Debitable)
      BY <1>0, <1>9, <3>2, <3>3 DEF AtFinal
    <3> QED
      BY <1>2, <3>1, <3>3, <3>4 DEF ToldApproved, Debitable, Approvals
  <2>6. told' \in {"approved", "declined"} /\ advices' \in {0, 1}
    BY <1>4, <1>7
  <2>7. DeclinedNotCharged' /\ ApprovedChargesOnce'
    BY <2>3, <2>4, <2>5, <2>6 DEF DeclinedNotCharged, ApprovedChargesOnce
  <2> QED
    BY <1>0, <1>6, <2>7 DEF Books, AtHost, AtSecond, AtResult, AtFinal, AtOver
<1> QED
  BY <1>12, <1>13

(* Every step keeps the books. *)
LEMMA BooksStep ==
  IInv /\ Books /\ [Next]_vars => Books'
<1> SUFFICES ASSUME IInv, Books, [Next]_vars
             PROVE  Books'
  OBVIOUS
<1>1. CASE Over \/ UNCHANGED vars
  <2>1. UNCHANGED vars
    BY <1>1 DEF Over
  <2>2. Old91' /\ AtHost' /\ AtSecond' /\ AtResult' /\ AtFinal'
    BY <2>1 DEF vars, Books, Old91, AtHost, AtSecond, AtResult, AtFinal, Kept, Waived, Live, Debitable, Approvals
  <2>3. AtOver'
    BY <2>1 DEF vars, Books, AtOver, DeclinedNotCharged, ApprovedChargesOnce, Charges
  <2> QED
    BY <2>2, <2>3 DEF Books
<1> QED
  BY <1>1, CaptureBooks, KernelBooks, HostBooks, ProcessBooks, FinaliseBooks DEF Next

(* The books hold in every reachable state. *)
LEMMA BooksHold ==
  Spec => []Books
<1>1. Init => Books
  BY DEF Init, Books, Old91, AtHost, AtSecond, AtResult, AtFinal, AtOver, Kept, Waived,
     DeclinedNotCharged, ApprovedChargesOnce
<1> QED
  BY <1>1, InvHolds, BooksStep, PTL DEF Spec

(* A sale of which the POS is told that it failed charges nobody: whichever read  *)
(* got the approval, its request is reversed by a way of its own (card pulled,    *)
(* kernel error, Z4, JIRA PIRPIN-2270 in txn_finalisation) and its advice is not   *)
(* stored, but for the three causes named in the property.                        *)
THEOREM DeclinedIsFree == Spec => []DeclinedNotCharged
<1>1. Books => DeclinedNotCharged
  BY DEF Books, AtOver
<1> QED
  BY <1>1, BooksHold, PTL

(* A sale of which the POS is told that it was approved charges the card exactly   *)
(* once, by the request or by the advice, but for the two causes named.           *)
THEOREM ApprovedIsChargedOnce == Spec => []ApprovedChargesOnce
<1>1. Books => ApprovedChargesOnce
  BY DEF Books, AtOver
<1> QED
  BY <1>1, BooksHold, PTL
=============================================================================
