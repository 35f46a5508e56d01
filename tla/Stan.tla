-------------------------------- MODULE Stan --------------------------------
(***************************************************************************)
(* System trace audit numbers (STANs): the counter that numbers what goes  *)
(* to the host, and the numbers that sales, reversals and advices keep for *)
(* their repeats.  msgAS2805.c counts and writes them into messages,       *)
(* reversal.c and saf.c store them, txn.c makes a PIN block under one.     *)
(*                                                                         *)
(* The counter is in RAM and in a file.  Which records exist is modelled   *)
(* in SafQueue and Purchase; here a transaction is a number, and the SAF   *)
(* flag `repeat pending' may come back from its file either way.           *)
(***************************************************************************)
EXTENDS Integers, Sequences, FiniteSets, SequencesExt

CONSTANTS
    MaxStan,      \* 999999, the largest STAN of six digits
    FirstStans,   \* values of the counter at the start
    MaxSales,     \* bound: transactions
    MaxAttempts,  \* bound: requests sent for one of them (PIN retries)
    MaxLogons,    \* bound: logons
    MaxFailures   \* bound: power failures

ASSUME StanAssumption ==
    /\ MaxStan \in Nat \ {0} /\ FirstStans \subseteq 1 .. MaxStan
    /\ MaxSales \in Nat /\ MaxAttempts \in Nat
    /\ MaxLogons \in Nat /\ MaxFailures \in Nat

None == 0
Ids == 1 .. MaxSales
\* terminal.stan += 1 can leave the six digits, once for every advice
Stans == 0 .. MaxStan + MaxSales

VARIABLES
    stan,       \* terminal.stan
    stanFile,   \* STAN_FILE
    sale,       \* the current transaction: its STANs, in RAM and saved
    pin,        \* the STAN its PIN block was made under
    reversal,   \* the reversal file
    queue,      \* the SAF batch: advices and the STANs they keep
    trickle,    \* txn_trickle: an advice on its way
    repeat,     \* saf_totals.fields.saf_repeat_pending
    lastRev,    \* last_reversal_stan, static in msgAS2805.c
    pc,         \* where the thread is
    seen,       \* the messages the host has got
    hostLast,   \* the STAN of the newest of them, which a logon answers
    counts,     \* sales, attempts, logons, failures so far
    harm        \* "unsaved": the power took a number given out that no file had;
                \* "logon": a logon set the counter back to a number still in use;
                \* "digits": the counter passed MaxStan;
                \* "unnamed": a sale was sent while a repeat was pending

vars == <<stan, stanFile, sale, pin, reversal, queue, trickle, repeat, lastRev, pc,
          seen, hostLast, counts, harm>>
host == <<seen, hostLast>>
counter == <<stan, stanFile>>

-----------------------------------------------------------------------------
Sales == [id : Ids \cup {None}, stan : Stans, orig : Stans, sent : BOOLEAN, incomplete : BOOLEAN]
NoSale == [id |-> None, stan |-> 0, orig |-> 0, sent |-> FALSE, incomplete |-> FALSE]
Reversals == [id : Ids \cup {None}, stan : Stans, orig : Stans]
NoReversal == [id |-> None, stan |-> 0, orig |-> 0]
Advices == [id : Ids, stan : Stans, repeat : BOOLEAN]
NoAdvice == [id |-> None, stan |-> 0, repeat |-> FALSE]
Messages == [kind : {"sale", "reversal", "advice"}, id : Ids, stan : Stans, orig : Stans]

\* Mutation: the counter starts again at zero
NextStan_FromZero(s) == IF s >= MaxStan THEN 0 ELSE s + 1

\* terminal_increment_stan, which saves the counter
NextStan(s) == IF s >= MaxStan THEN 1 ELSE s + 1
Counted(s) == stan' = s /\ stanFile' = s

\* six digits of it go into a message
Digits(s) == s % (MaxStan + 1)

\* the host gets a message, or the line loses it
Received(m) ==
    /\ seen' = seen \cup {m}
    /\ hostLast' = IF m \in seen THEN hostLast ELSE m.stan
Lost == UNCHANGED host

Repeats == {i \in DOMAIN queue : queue[i].repeat}
Head1 == CHOOSE i \in DOMAIN queue : Repeats = {} \/ i \in Repeats

\* reversal_set: a new reversal takes the next number; one that is there stays
SetReversal(s, at) ==
    IF repeat \/ reversal # NoReversal
    THEN UNCHANGED reversal /\ IF at = stan THEN UNCHANGED counter ELSE Counted(at)
    ELSE reversal' = [id |-> s.id, stan |-> at, orig |-> s.orig] /\ Counted(NextStan(at))

-----------------------------------------------------------------------------
(* A sale. *)

\* the PIN is entered; txn_pin_generate_pinblock uses the counter
EnterPin ==
    /\ pc = "idle" /\ counts.sales < MaxSales
    /\ counts' = [counts EXCEPT !.sales = @ + 1, !.attempts = 1]
    /\ sale' = [NoSale EXCEPT !.id = counts.sales + 1, !.incomplete = TRUE]
    /\ pin' = Digits(stan)
    /\ pc' = "clear"
    /\ UNCHANGED <<trickle, counter, reversal, queue, repeat, lastRev, host, harm>>

\* a declined PIN may be entered again
RetryPin ==
    /\ pc = "final" /\ counts.attempts < MaxAttempts
    /\ counts' = [counts EXCEPT !.attempts = @ + 1]
    /\ pin' = Digits(stan)
    /\ pc' = "clear"
    /\ UNCHANGED <<trickle, counter, sale, reversal, queue, repeat, lastRev, host, harm>>

\* reversal_send leaves nothing to clear
NothingToClear ==
    /\ pc = "clear" /\ reversal = NoReversal /\ Repeats = {}
    /\ repeat' = (repeat /\ queue = <<>>)
    /\ pc' = "send"
    /\ UNCHANGED <<trickle, counter, sale, pin, reversal, queue, lastRev, host, counts, harm>>

\* no connection: the transaction falls back
NoConnection ==
    /\ pc = "clear"
    /\ pc' = "fallback"
    /\ UNCHANGED <<trickle, counter, sale, pin, reversal, queue, repeat, lastRev, host, counts, harm>>

\* Mutation: the original number is kept from an earlier attempt
CreateSale_OldOriginal ==
    LET named == [sale EXCEPT !.stan = Digits(stan),
                              !.orig = IF repeat \/ reversal # NoReversal \/ @ # 0 THEN @ ELSE Digits(stan)]
    IN /\ pc = "send"
       /\ sale' = named
       /\ SetReversal(named, NextStan(stan))
       /\ harm' = IF repeat THEN harm \cup {"unnamed"} ELSE harm
       /\ pc' = "transmit"
       /\ UNCHANGED <<trickle, pin, queue, repeat, lastRev, host, counts>>

\* msgAS2805_create takes the number, reversal_store_original_stan keeps it for
\* the reversal, which is set before anything is transmitted
CreateSale ==
    LET named == [sale EXCEPT !.stan = Digits(stan),
                              !.orig = IF repeat \/ reversal # NoReversal THEN @ ELSE Digits(stan)]
    IN /\ pc = "send"
       /\ sale' = named
       /\ SetReversal(named, NextStan(stan))
       /\ harm' = IF repeat THEN harm \cup {"unnamed"} ELSE harm
       /\ pc' = "transmit"
       /\ UNCHANGED <<trickle, pin, queue, repeat, lastRev, host, counts>>

SaleMessage == [kind |-> "sale", id |-> sale.id, stan |-> sale.stan, orig |-> pin]

\* what reports a failure may have been delivered all the same
TransmitFails ==
    /\ pc = "transmit"
    /\ Received(SaleMessage) \/ Lost
    /\ reversal' = NoReversal
    /\ pc' = "fallback"
    /\ UNCHANGED <<trickle, counter, sale, pin, queue, repeat, lastRev, counts, harm>>

TransmitSale ==
    /\ pc = "transmit"
    /\ Received(SaleMessage) \/ Lost
    /\ sale' = [sale EXCEPT !.sent = TRUE]
    /\ pc' = "await"
    /\ UNCHANGED <<trickle, counter, pin, reversal, queue, repeat, lastRev, counts, harm>>

AnswerSale ==
    /\ pc = "await" /\ SaleMessage \in seen
    /\ reversal' = NoReversal
    /\ pc' = "final"
    /\ UNCHANGED <<trickle, counter, sale, pin, queue, repeat, lastRev, host, counts, harm>>

NoAnswer ==
    /\ pc = "await"
    /\ SetReversal(sale, stan)
    /\ pc' = "fallback"
    /\ UNCHANGED <<trickle, sale, pin, queue, repeat, lastRev, host, counts, harm>>

\* approved offline, or not
Fallback ==
    /\ pc = "fallback"
    /\ queue' \in {queue, Append(queue, [id |-> sale.id, stan |-> sale.stan, repeat |-> FALSE])}
    /\ sale' = NoSale
    /\ pc' = "idle"
    /\ UNCHANGED <<trickle, counter, pin, reversal, repeat, lastRev, host, counts, harm>>

\* finished, or reversed after the answer: by the card, a declined signature, a
\* pulled card or a receipt that was not printed
Finish ==
    /\ pc = "final"
    /\ SetReversal(sale, stan) \/ UNCHANGED <<reversal, counter>>
    /\ sale' = NoSale
    /\ pc' = "idle"
    /\ UNCHANGED <<trickle, pin, queue, repeat, lastRev, host, counts, harm>>

-----------------------------------------------------------------------------
(* Reversals and advices. *)

ReversalMessage ==
    [kind |-> "reversal", id |-> reversal.id, stan |-> Digits(reversal.stan), orig |-> reversal.orig]

\* Mutation: the reversal is sent under the counter
SendReversal_NewStan(back) ==
    /\ pc \in {"idle", "clear"} /\ reversal # NoReversal
    /\ lastRev' = reversal.stan
    /\ Counted(NextStan(stan))
    /\ \/ /\ Received(ReversalMessage)
          /\ reversal' = NoReversal
          /\ pc' = back
       \/ /\ Received(ReversalMessage) \/ Lost
          /\ UNCHANGED reversal
          /\ pc' = IF pc = "idle" THEN "idle" ELSE "fallback"
    /\ UNCHANGED <<trickle, sale, pin, queue, repeat, counts, harm>>

\* message_wow_420 keeps the reversal's own number, also in its repeats
SendReversal(back) ==
    /\ pc \in {"idle", "clear"} /\ reversal # NoReversal
    /\ lastRev' = reversal.stan
    /\ \/ /\ Received(ReversalMessage)
          /\ reversal' = NoReversal
          /\ pc' = back
       \/ /\ Received(ReversalMessage) \/ Lost
          /\ UNCHANGED reversal
          /\ pc' = IF pc = "idle" THEN "idle" ELSE "fallback"
    /\ UNCHANGED <<trickle, counter, sale, pin, queue, repeat, counts, harm>>

AdviceMessage(a) == [kind |-> "advice", id |-> a.id, stan |-> Digits(a.stan), orig |-> 0]

\* an advice or a repeat that was answered, or not: it stays as a repeat
Uploaded(i, a, back) ==
    \/ /\ Received(AdviceMessage(a))
       /\ queue' = RemoveAt(queue, i)
       /\ repeat' = FALSE
       /\ reversal' = NoReversal
       /\ pc' = back
    \/ /\ Received(AdviceMessage(a)) \/ Lost
       /\ queue' = [queue EXCEPT ![i] = a]
       /\ repeat' = TRUE
       /\ UNCHANGED reversal
       /\ pc' = IF pc = "clear" THEN "fallback" ELSE "idle"

\* Mutation: the repeat takes the next number
SendRepeat_NewStan(back) ==
    /\ pc \in {"idle", "clear"} /\ reversal = NoReversal /\ Repeats # {}
    /\ Uploaded(Head1, [queue[Head1] EXCEPT !.stan = stan], back)
    /\ Counted(NextStan(stan))
    /\ UNCHANGED <<trickle, sale, pin, lastRev, counts, harm>>

\* a 0221 goes with the number stored in its record
SendRepeat(back) ==
    /\ pc \in {"idle", "clear"} /\ reversal = NoReversal /\ Repeats # {}
    /\ Uploaded(Head1, queue[Head1], back)
    /\ UNCHANGED <<trickle, counter, sale, pin, lastRev, counts, harm>>

\* saf_send_single stores the number a 0220 will get before it is sent
StoreStan ==
    /\ pc = "idle" /\ reversal = NoReversal /\ Repeats = {} /\ queue # <<>>
    /\ queue' = [queue EXCEPT ![1].repeat = TRUE, ![1].stan = stan]
    /\ pc' = "advice"
    /\ UNCHANGED <<trickle, counter, sale, pin, reversal, repeat, lastRev, host, counts, harm>>

\* no connection: the counter goes on in RAM, past six digits if it must
AdviceNotSent ==
    /\ pc = "advice"
    /\ stan' = stan + 1
    /\ repeat' = TRUE
    /\ harm' = IF stan >= MaxStan THEN harm \cup {"digits"} ELSE harm
    /\ pc' = "idle"
    /\ UNCHANGED <<trickle, stanFile, sale, pin, reversal, queue, lastRev, host, counts>>

\* message_wow_220 steps over the number of the last reversal
SendAdvice ==
    LET s == IF stan = lastRev THEN NextStan(stan) ELSE stan
        a == [queue[1] EXCEPT !.stan = s]
    IN /\ pc = "advice"
       /\ Counted(NextStan(s))
       /\ Received(AdviceMessage(a)) \/ Lost
       /\ trickle' = a
       /\ pc' = "answer"
       /\ UNCHANGED <<sale, pin, reversal, queue, repeat, lastRev, counts, harm>>

\* saf_send: what was answered goes, what was not is written back as a repeat
FinishAdvice ==
    /\ pc = "answer"
    /\ \/ /\ AdviceMessage(trickle) \in seen
          /\ queue' = Tail(queue)
          /\ repeat' = FALSE
          /\ reversal' = NoReversal
       \/ /\ queue' = [queue EXCEPT ![1] = trickle]
          /\ repeat' = TRUE
          /\ UNCHANGED reversal
    /\ trickle' = NoAdvice
    /\ pc' = "idle"
    /\ UNCHANGED <<counter, sale, pin, lastRev, host, counts, harm>>

-----------------------------------------------------------------------------
(* Logons and the power. *)

Outstanding == {queue[i].stan : i \in Repeats}
                 \cup (IF reversal = NoReversal THEN {} ELSE {reversal.stan})

\* s was given out at or after t
AtOrAfter(s, t) == (s - t) % MaxStan <= MaxStan \div 2

\* Mutation: nothing is added for the reversal
Logon_NoRoomForReversal ==
    LET s == NextStan(NextStan(hostLast))
    IN /\ pc = "idle" /\ counts.logons < MaxLogons
       /\ Counted(s)
       /\ counts' = [counts EXCEPT !.logons = @ + 1]
       /\ harm' = IF \E o \in {queue[i].stan : i \in Repeats} : AtOrAfter(o, s) THEN harm \cup {"logon"} ELSE harm
       /\ UNCHANGED <<trickle, sale, pin, reversal, queue, repeat, lastRev, pc, host>>

\* wow_process_file_data: a 170 sets the counter from the host's number
Logon ==
    LET t == NextStan(NextStan(hostLast))
        s == IF reversal # NoReversal THEN NextStan(t) ELSE t
    IN /\ pc = "idle" /\ counts.logons < MaxLogons
       /\ Counted(s)
       /\ counts' = [counts EXCEPT !.logons = @ + 1]
       /\ harm' = IF \E o \in Outstanding : AtOrAfter(o, s) THEN harm \cup {"logon"} ELSE harm
       /\ UNCHANGED <<trickle, sale, pin, reversal, queue, repeat, lastRev, pc, host>>

\* a 101 takes a number of its own
KeyChange ==
    /\ pc = "idle" /\ counts.logons < MaxLogons
    /\ Counted(NextStan(stan))
    /\ hostLast' \in {stan, hostLast}
    /\ counts' = [counts EXCEPT !.logons = @ + 1]
    /\ UNCHANGED <<trickle, sale, pin, reversal, queue, repeat, lastRev, pc, seen, harm>>

\* CompleteTxn reverses a sale that was sent and has no reversal; the flag is
\* whatever the totals file says
PowerFail ==
    /\ counts.failures < MaxFailures
    /\ counts' = [counts EXCEPT !.failures = @ + 1]
    /\ repeat' \in {repeat, FALSE}
    /\ IF sale.incomplete /\ sale.sent /\ reversal = NoReversal /\ ~repeat'
       THEN /\ reversal' = [id |-> sale.id, stan |-> stanFile, orig |-> sale.orig]
            /\ Counted(NextStan(stanFile))
       ELSE UNCHANGED <<reversal, stanFile>> /\ stan' = stanFile
    /\ sale' = NoSale
    /\ lastRev' = 0 /\ trickle' = NoAdvice
    /\ pc' = "idle"
    /\ harm' = IF pc = "advice" \/ stan # stanFile \/ (pc = "answer" /\ trickle # queue[1])
               THEN harm \cup {"unsaved"} ELSE harm
    /\ UNCHANGED <<pin, queue, host>>

-----------------------------------------------------------------------------
Init ==
    /\ stan \in FirstStans /\ stanFile = stan
    /\ sale = NoSale /\ pin = 0
    /\ reversal = NoReversal /\ queue = <<>> /\ trickle = NoAdvice /\ repeat = FALSE
    /\ lastRev = 0
    /\ pc = "idle"
    /\ seen = {} /\ hostLast = IF stan = 1 THEN MaxStan ELSE stan - 1
    /\ counts = [sales |-> 0, attempts |-> 0, logons |-> 0, failures |-> 0]
    /\ harm = {}

SaleStep == EnterPin \/ RetryPin \/ NothingToClear \/ NoConnection \/ CreateSale
              \/ TransmitFails \/ TransmitSale \/ AnswerSale \/ NoAnswer \/ Fallback \/ Finish

UploadStep ==
    \/ LET back == IF pc = "idle" THEN "idle" ELSE "send"
       IN SendReversal(back) \/ SendRepeat(back)
    \/ StoreStan \/ AdviceNotSent \/ SendAdvice \/ FinishAdvice

Next == SaleStep \/ UploadStep \/ Logon \/ KeyChange \/ PowerFail

Spec == Init /\ [][Next]_vars

-----------------------------------------------------------------------------
(* Properties. *)

TypeOK ==
    /\ stan \in Stans \ {0} /\ stanFile \in 1 .. MaxStan
    /\ sale \in Sales /\ pin \in Stans
    /\ reversal \in Reversals /\ queue \in Seq(Advices) /\ trickle \in Advices \cup {NoAdvice} /\ repeat \in BOOLEAN
    /\ lastRev \in Stans
    /\ pc \in {"idle", "clear", "send", "transmit", "await", "fallback", "final",
              "advice", "answer"}
    /\ seen \subseteq Messages /\ hostLast \in Stans
    /\ harm \subseteq {"unsaved", "logon", "digits", "unnamed"}

\* Two messages of the terminal that are not repeats of each other carry
\* different numbers, so that the host never takes one for the other.
StanUnique ==
    harm \subseteq {"unnamed"} => \A m, n \in seen : m.stan = n.stan => m.kind = n.kind /\ m.id = n.id

\* Unless the power took a number no file had, an advice the host has under one
\* number never reaches it under another: its repeats can be recognised.
RepeatKeepsStan ==
    "unsaved" \notin harm =>
        \A m, n \in seen : m.kind = "advice" /\ n.kind = "advice" /\ m.id = n.id => m.stan = n.stan

\* A reversal names, as its original, the last request the host may have for the
\* transaction.
ReversalNamesItsSale ==
    harm \cap {"unnamed", "digits"} = {} =>
        \A r \in seen : r.kind = "reversal" =>
            /\ r.orig # 0
            /\ \A m \in seen : m.kind = "sale" /\ m.id = r.id /\ AtOrAfter(m.stan, r.orig) => m.stan = r.orig

\* The PIN block of a request was made under the number the request carries,
\* whatever was uploaded between the PIN and the request.
PinUnderItsStan ==
    \A m \in seen : m.kind = "sale" => m.orig = m.stan
=============================================================================
