----------------------------- MODULE Stan_proofs -----------------------------
(***************************************************************************)
(* Theorems about Stan, for any counter, any number of transactions,       *)
(* attempts, logons and power failures: a PIN block is under the number of *)
(* its request, an advice goes to the host under one number, a reversal    *)
(* names the sale it undoes, and, as long as fewer than half of the        *)
(* numbers are given out, no two messages have the same one.               *)
(***************************************************************************)
EXTENDS Stan, TLAPS

SalePCs == {"clear", "send", "transmit", "await", "fallback", "final"}
InSale == pc \in SalePCs

\* the transactions that may have an advice
Done == IF InSale THEN counts.sales - 1 ELSE counts.sales

Counts == [sales : Nat, attempts : Nat, logons : Nat, failures : Nat]
Typed == TypeOK /\ counts \in Counts /\ counts.sales <= MaxSales

\* a transaction has a number of its own, and one advice at most
Numbered ==
    /\ InSale => sale.id = counts.sales /\ counts.sales # 0
    /\ \A i \in DOMAIN queue : queue[i].id <= Done
    /\ \A m \in seen : m.kind = "advice" => m.id <= Done
    /\ \A i, j \in DOMAIN queue : queue[i].id = queue[j].id => i = j
    /\ Len(queue) <= Done

\* one advice at most waits as a repeat: the one an upload is busy with
Busy ==
    /\ \A i, j \in Repeats : i = j
    /\ pc \in {"advice", "answer"} => 1 \in Repeats
    /\ pc = "answer" => trickle \in Advices /\ trickle.id = queue[1].id /\ trickle.repeat

\* each advice lets the counter go past six digits once
Room ==
    stan <= MaxStan + Done - Len(queue) + (IF Repeats = {} THEN 0 ELSE 1)
                    - (IF pc = "advice" THEN 1 ELSE 0)

\* what the host has of an advice that waits is what the record says
Recognised ==
    "unsaved" \notin harm =>
        \A m \in seen, i \in DOMAIN queue : m.kind = "advice" /\ m.id = queue[i].id =>
            /\ queue[i].repeat
            /\ pc = "advice" => i # 1
            /\ m.stan = Digits(IF pc = "answer" /\ i = 1 THEN trickle.stan ELSE queue[i].stan)

\* the counter stands still between the PIN and the request
PinKept ==
    /\ pc \in {"clear", "send"} => pin = Digits(stan)
    /\ pc = "transmit" => sale.stan = pin

\* a reversal is of a transaction that was begun
Named ==
    /\ reversal # NoReversal => reversal.id # None
    /\ sale.incomplete => sale.id # None

SInv == /\ Typed /\ Named /\ Numbered /\ Busy /\ Room
        /\ Recognised /\ RepeatKeepsStan
        /\ PinKept /\ PinUnderItsStan

-----------------------------------------------------------------------------
(* Numbers. *)

LEMMA NextStanBound ==
    \A s \in Nat : /\ NextStan(s) \in 1 .. MaxStan /\ NextStan(s) \in Nat
                   /\ NextStan(s) \in Stans /\ NextStan(s) # 0 /\ NextStan(s) <= MaxStan
BY StanAssumption DEF NextStan, Stans

LEMMA DigitsBound == \A s \in Nat : Digits(s) \in 0 .. MaxStan /\ Digits(s) \in Stans
BY StanAssumption DEF Digits, Stans

LEMMA SmallStans == 0 \in Stans /\ \A s \in 1 .. MaxStan : s \in Stans /\ s \in Nat /\ s # 0 /\ s <= MaxStan
BY StanAssumption DEF Stans

LEMMA StansNat == Stans \subseteq Nat
BY StanAssumption DEF Stans

LEMMA NothingTyped ==
    /\ NoSale \in Sales /\ NoSale.id = None /\ ~NoSale.incomplete
    /\ NoReversal \in Reversals
BY SmallStans DEF NoSale, NoReversal, Sales, Reversals

LEMMA DoneNat == ASSUME Typed, Numbered PROVE Done \in Nat /\ Done <= MaxSales
BY StanAssumption DEF Typed, Numbered, Done, Counts

\* a step that leaves the counter within six digits leaves room
LEMMA RoomBelow ==
    ASSUME queue \in Seq(Advices), Done \in Nat, Len(queue) <= Done, stan \in 0 .. MaxStan,
           pc = "advice" => Repeats # {}
    PROVE  Room
<1>1. MaxStan \in Nat /\ Len(queue) \in Nat
    BY StanAssumption
<1> QED BY <1>1 DEF Room

\* the first of the repeats is one of them
LEMMA HeadIsRepeat == ASSUME Repeats # {} PROVE Head1 \in Repeats /\ Head1 \in DOMAIN queue
<1>1. PICK r \in Repeats : TRUE
    OBVIOUS
<1>2. \E i \in DOMAIN queue : Repeats = {} \/ i \in Repeats
    BY <1>1 DEF Repeats
<1>3. Head1 \in DOMAIN queue /\ (Repeats = {} \/ Head1 \in Repeats)
    BY <1>2 DEF Head1
<1> QED BY <1>3

LEMMA Joined ==
    ASSUME NEW S, NEW a \in Seq(S), NEW b \in Seq(S)
    PROVE  /\ a \o b \in Seq(S) /\ Len(a \o b) = Len(a) + Len(b)
           /\ \A i \in 1 .. Len(a) + Len(b) : (a \o b)[i] = IF i <= Len(a) THEN a[i] ELSE b[i - Len(a)]
OBVIOUS

\* a removal moves what follows up by one
LEMMA Removed ==
    ASSUME queue \in Seq(Advices), NEW h \in DOMAIN queue
    PROVE  /\ RemoveAt(queue, h) \in Seq(Advices)
           /\ Len(RemoveAt(queue, h)) = Len(queue) - 1
           /\ \A i \in DOMAIN RemoveAt(queue, h) :
                 LET k == IF i < h THEN i ELSE i + 1
                 IN k \in DOMAIN queue /\ k # h /\ RemoveAt(queue, h)[i] = queue[k]
<1>1. Len(queue) \in Nat /\ h \in 1 .. Len(queue)
    OBVIOUS
<1>2. SubSeq(queue, 1, h - 1) \in Seq(Advices) /\ Len(SubSeq(queue, 1, h - 1)) = h - 1
      /\ \A i \in 1 .. h - 1 : SubSeq(queue, 1, h - 1)[i] = queue[i]
    BY <1>1
<1>3. SubSeq(queue, h + 1, Len(queue)) \in Seq(Advices)
      /\ Len(SubSeq(queue, h + 1, Len(queue))) = Len(queue) - h
      /\ \A i \in 1 .. Len(queue) - h : SubSeq(queue, h + 1, Len(queue))[i] = queue[h + i]
    BY <1>1
<1> DEFINE a == SubSeq(queue, 1, h - 1)
           b == SubSeq(queue, h + 1, Len(queue))
<1>4. a \o b \in Seq(Advices) /\ Len(a \o b) = Len(queue) - 1
      /\ \A i \in 1 .. Len(queue) - 1 : (a \o b)[i] = IF i < h THEN a[i] ELSE b[i - (h - 1)]
    <2>1. a \in Seq(Advices) /\ b \in Seq(Advices) /\ Len(a) = h - 1 /\ Len(b) = Len(queue) - h
        BY <1>2, <1>3
    <2> HIDE DEF a, b
    <2> QED BY <1>1, <2>1, Joined
<1>5. DOMAIN (a \o b) = 1 .. Len(queue) - 1
    <2> HIDE DEF a, b
    <2> QED BY <1>1, <1>4
<1>6. ASSUME NEW i \in 1 .. Len(queue) - 1
      PROVE  LET k == IF i < h THEN i ELSE i + 1
             IN k \in DOMAIN queue /\ k # h /\ (a \o b)[i] = queue[k]
    <2> HIDE DEF a, b
    <2>1. CASE i < h
        <3>1. i \in 1 .. h - 1 /\ i \in DOMAIN queue /\ i # h
            BY <2>1, <1>1, <1>6
        <3>2. a[i] = queue[i]
            BY <3>1, <1>2 DEF a
        <3>3. (a \o b)[i] = a[i]
            BY <2>1, <1>4, <1>6
        <3> QED BY <2>1, <3>1, <3>2, <3>3
    <2>2. CASE ~(i < h)
        <3>1. i - (h - 1) \in 1 .. Len(queue) - h
            BY <2>2, <1>1, <1>6
        <3>2. b[i - (h - 1)] = queue[h + (i - (h - 1))]
            BY <3>1, <1>3 DEF b
        <3>3. h + (i - (h - 1)) = i + 1
            BY <1>1, <1>6
        <3> QED BY <2>2, <3>2, <3>3, <1>1, <1>4, <1>6
    <2> QED BY <2>1, <2>2
<1>7. RemoveAt(queue, h) = a \o b
    BY DEF RemoveAt
<1> HIDE DEF a, b
<1> QED BY <1>4, <1>5, <1>6, <1>7

LEMMA TailRemoves ==
    ASSUME queue \in Seq(Advices), queue # <<>>
    PROVE  /\ Tail(queue) \in Seq(Advices) /\ Len(Tail(queue)) = Len(queue) - 1
           /\ \A i \in DOMAIN Tail(queue) : i + 1 \in DOMAIN queue /\ i + 1 # 1 /\ Tail(queue)[i] = queue[i + 1]
OBVIOUS

-----------------------------------------------------------------------------
(* Steps that leave the batch alone. *)

StillQueue ==
    /\ queue' = queue /\ harm \subseteq harm'
    /\ \A m \in seen' : m.kind = "advice" => m \in seen
    /\ counts' \in Counts /\ counts'.sales <= MaxSales /\ Done <= Done'
    /\ InSale' => sale'.id = counts'.sales /\ counts'.sales # 0
    /\ pc' \notin {"advice", "answer"}
    /\ stan' <= MaxStan \/ stan' = stan
    /\ pc = "advice" => "unsaved" \in harm'
    /\ pc = "answer" => "unsaved" \in harm' \/ trickle = queue[1]

LEMMA FrameBooks ==
    ASSUME SInv, TypeOK', StillQueue
    PROVE  Typed' /\ Numbered' /\ Busy' /\ Room' /\ Recognised' /\ RepeatKeepsStan'
<1>1. queue \in Seq(Advices) /\ Done \in Nat /\ Done' \in Int /\ counts.sales \in Nat /\ Repeats' = Repeats
    BY DoneNat DEF SInv, Typed, TypeOK, StillQueue, Done, Counts, Repeats
<1>2. \A i \in DOMAIN queue : queue[i] \in Advices /\ queue[i].id \in Int
    <2>1. \A i \in DOMAIN queue : queue[i] \in Advices
        BY <1>1
    <2>2. \A a \in Advices : a.id \in Int
        BY StanAssumption DEF Advices, Ids
    <2> QED BY <2>1, <2>2
<1>3. \A m \in seen' : m.id \in Int
    BY StanAssumption DEF TypeOK, Messages, Ids
<1>4. Len(queue) \in Nat
    BY <1>1
<1>5. Typed'
    BY DEF Typed, StillQueue
<1>6. Numbered'
    BY <1>1, <1>2, <1>3, <1>4 DEF SInv, Numbered, StillQueue
<1>7. Busy'
    BY <1>1 DEF SInv, Busy, StillQueue
<1>8. Room'
    <2>1. stan \in Int /\ stan' \in Int /\ MaxStan \in Nat
        BY StansNat, StanAssumption DEF SInv, Typed, TypeOK
    <2>2. CASE stan' = stan
        BY <2>1, <2>2, <1>1, <1>4 DEF SInv, Room, StillQueue
    <2>3. CASE stan' <= MaxStan
        BY <2>1, <2>3, <1>1, <1>4, <1>6 DEF Room, StillQueue, Numbered
    <2> QED BY <2>2, <2>3 DEF StillQueue
<1>9. Recognised'
    <2> SUFFICES ASSUME "unsaved" \notin harm', NEW m \in seen', NEW i \in DOMAIN queue,
                        m.kind = "advice", m.id = queue[i].id
                 PROVE  queue[i].repeat /\ m.stan = Digits(queue[i].stan)
        BY DEF Recognised, StillQueue
    <2>1. "unsaved" \notin harm /\ m \in seen
        BY DEF StillQueue
    <2> QED BY <2>1 DEF SInv, Recognised, StillQueue
<1>10. RepeatKeepsStan'
    BY DEF SInv, RepeatKeepsStan, StillQueue
<1> QED BY <1>5, <1>6, <1>7, <1>8, <1>9, <1>10

LEMMA SetReversalKeeps ==
    ASSUME Typed, NEW s \in Sales, NEW at \in Stans, SetReversal(s, at),
           at <= MaxStan \/ at = stan, at # 0
    PROVE  /\ reversal' \in Reversals
           /\ stan' \in Stans \ {0} /\ stanFile' \in 1 .. MaxStan
           /\ stan' <= MaxStan \/ stan' = stan
<1>1. at \in Nat /\ stan \in Stans \ {0} /\ stanFile \in 1 .. MaxStan /\ reversal \in Reversals
    BY StansNat DEF Typed, TypeOK
<1>2. NextStan(at) \in 1 .. MaxStan
    BY <1>1, NextStanBound
<1>3. \A t \in 1 .. MaxStan : t \in Stans \ {0} /\ t <= MaxStan
    BY SmallStans
<1>4. CASE repeat \/ reversal # NoReversal
    BY <1>1, <1>3, <1>4, StanAssumption DEF SetReversal, Counted, counter
<1>5. CASE ~(repeat \/ reversal # NoReversal)
    <2>1. reversal' = [id |-> s.id, stan |-> at, orig |-> s.orig] /\ Counted(NextStan(at))
        BY <1>5 DEF SetReversal
    <2>2. reversal' \in Reversals
        BY <2>1 DEF Reversals, Sales
    <2> QED BY <2>1, <2>2, <1>2, <1>3 DEF Counted
<1> QED BY <1>4, <1>5

LEMMA SetReversalNamed ==
    ASSUME Named, NEW s \in Sales, s.id # None, NEW at, SetReversal(s, at)
    PROVE  reversal' # NoReversal => reversal'.id # None
BY DEF Named, SetReversal

LEMMA SaleMessageTyped ==
    ASSUME Typed, sale.id # None
    PROVE  /\ SaleMessage \in Messages /\ SaleMessage.kind = "sale" /\ SaleMessage.stan = sale.stan
           /\ SaleMessage.orig = pin
BY DEF Typed, TypeOK, Sales, Messages, SaleMessage, None

LEMMA ReceivedTyped ==
    ASSUME Typed, NEW m \in Messages, Received(m) \/ Lost
    PROVE  seen' \subseteq Messages /\ hostLast' \in Stans /\ seen' \subseteq seen \cup {m}
BY DEF Typed, TypeOK, Received, Lost, host, Messages

LEMMA EnterPinStep == ASSUME SInv, EnterPin PROVE SInv'
<1>1. TypeOK /\ counts \in Counts /\ counts.sales <= MaxSales /\ StanAssumption /\ stan \in Nat
    BY StanAssumption, StansNat DEF SInv, Typed, TypeOK
<1>2. counts.sales + 1 \in Ids /\ counts.sales + 1 # None /\ counts.sales \in Nat
    BY <1>1 DEF EnterPin, Counts, Ids, None
<1>3. counts'.sales = counts.sales + 1 /\ counts' \in Counts /\ counts'.sales <= MaxSales
    <2>1. counts' = [counts EXCEPT !.sales = counts.sales + 1, !.attempts = 1]
        BY DEF EnterPin
    <2>2. counts' = [sales |-> counts.sales + 1, attempts |-> 1, logons |-> counts.logons, failures |-> counts.failures]
        BY <1>1, <2>1 DEF Counts
    <2>3. counts' \in Counts /\ counts'.sales = counts.sales + 1
        BY <1>1, <1>2, <2>2 DEF Counts
    <2>4. counts.sales < MaxSales
        BY DEF EnterPin
    <2> QED BY <1>1, <1>2, <2>3, <2>4, StanAssumption
<1>4. sale' = [id |-> counts.sales + 1, stan |-> 0, orig |-> 0, sent |-> FALSE, incomplete |-> TRUE]
    BY DEF EnterPin, NoSale
<1>5. sale' \in Sales /\ sale'.id = counts.sales + 1 /\ counts'.sales = counts.sales + 1 /\ counts' \in Counts
      /\ counts'.sales <= MaxSales
    BY <1>1, <1>2, <1>3, <1>4, SmallStans DEF Sales
<1>6. TypeOK'
    BY <1>1, DigitsBound, NothingTyped, <1>5 DEF TypeOK, EnterPin, counter, host, Sales, None
<1>7. StillQueue
    BY <1>1, <1>2, <1>5 DEF SInv, Numbered, StillQueue, Done, InSale, SalePCs, Counts, EnterPin, host, counter
<1>8. PinKept' /\ PinUnderItsStan'
    BY <1>1
       DEF SInv, PinKept, PinUnderItsStan, EnterPin, counter, host, Lost, Received
<1>9. Named'
    BY <1>2, <1>5 DEF SInv, Named, EnterPin
<1> QED BY <1>6, <1>7, <1>8, <1>9, FrameBooks DEF SInv

LEMMA RetryPinStep == ASSUME SInv, RetryPin PROVE SInv'
<1>1. TypeOK /\ counts \in Counts /\ counts.sales <= MaxSales /\ StanAssumption /\ stan \in Nat
    BY StanAssumption, StansNat DEF SInv, Typed, TypeOK
<1>2. TypeOK'
    BY <1>1, DigitsBound, NothingTyped DEF TypeOK, RetryPin, counter, host, Sales, None
<1>3. StillQueue
    BY <1>1 DEF SInv, Numbered, StillQueue, Done, InSale, SalePCs, Counts, RetryPin, host, counter
<1>4. PinKept' /\ PinUnderItsStan'
    BY <1>1
       DEF SInv, PinKept, PinUnderItsStan, RetryPin, counter, host, Lost, Received
<1>5. Named'
    BY NothingTyped DEF SInv, Named, Numbered, InSale, SalePCs, None, RetryPin
<1> QED BY <1>2, <1>3, <1>4, <1>5, FrameBooks DEF SInv

LEMMA NothingToClearStep == ASSUME SInv, NothingToClear PROVE SInv'
<1>1. TypeOK /\ counts \in Counts /\ counts.sales <= MaxSales /\ StanAssumption /\ stan \in Nat
    BY StanAssumption, StansNat DEF SInv, Typed, TypeOK
<1>2. TypeOK'
    BY <1>1, DigitsBound, NothingTyped DEF TypeOK, NothingToClear, counter, host, Sales, None
<1>3. StillQueue
    BY <1>1 DEF SInv, Numbered, StillQueue, Done, InSale, SalePCs, Counts, NothingToClear, host, counter
<1>4. PinKept' /\ PinUnderItsStan'
    BY <1>1
       DEF SInv, PinKept, PinUnderItsStan, NothingToClear, counter, host, Lost, Received
<1>5. Named'
    BY NothingTyped DEF SInv, Named, Numbered, InSale, SalePCs, None, NothingToClear
<1> QED BY <1>2, <1>3, <1>4, <1>5, FrameBooks DEF SInv

LEMMA NoConnectionStep == ASSUME SInv, NoConnection PROVE SInv'
<1>1. TypeOK /\ counts \in Counts /\ counts.sales <= MaxSales /\ StanAssumption /\ stan \in Nat
    BY StanAssumption, StansNat DEF SInv, Typed, TypeOK
<1>2. TypeOK'
    BY <1>1, DigitsBound, NothingTyped DEF TypeOK, NoConnection, counter, host, Sales, None
<1>3. StillQueue
    BY <1>1 DEF SInv, Numbered, StillQueue, Done, InSale, SalePCs, Counts, NoConnection, host, counter
<1>4. PinKept' /\ PinUnderItsStan'
    BY <1>1
       DEF SInv, PinKept, PinUnderItsStan, NoConnection, counter, host, Lost, Received
<1>5. Named'
    BY NothingTyped DEF SInv, Named, Numbered, InSale, SalePCs, None, NoConnection
<1> QED BY <1>2, <1>3, <1>4, <1>5, FrameBooks DEF SInv

LEMMA CreateSaleStep == ASSUME SInv, CreateSale PROVE SInv'
<1>1. TypeOK /\ counts \in Counts /\ counts.sales <= MaxSales /\ StanAssumption /\ stan \in Nat
    BY StanAssumption, StansNat DEF SInv, Typed, TypeOK
<1> DEFINE named == [sale EXCEPT !.stan = Digits(stan),
                               !.orig = IF repeat \/ reversal # NoReversal THEN @ ELSE Digits(stan)]
<1>2. NextStan(stan) \in Stans /\ NextStan(stan) # 0 /\ (NextStan(stan) <= MaxStan \/ NextStan(stan) = stan)
    BY <1>1, NextStanBound, SmallStans DEF TypeOK, Stans
<1>3. named \in Sales
    BY <1>1, DigitsBound DEF TypeOK, Sales
<1>4. named.id # None
    BY DEF SInv, Numbered, InSale, SalePCs, None, CreateSale
<1>5. /\ reversal' \in Reversals /\ stan' \in Stans \ {0} /\ stanFile' \in 1 .. MaxStan
      /\ stan' <= MaxStan \/ stan' = stan
    BY <1>1, <1>2, <1>3, SetReversalKeeps DEF CreateSale, Typed
<1>6. TypeOK'
    BY <1>1, DigitsBound, NothingTyped, <1>3, <1>5 DEF TypeOK, CreateSale, counter, host, Sales, None
<1>7. StillQueue
    BY <1>1, <1>3, <1>5 DEF SInv, Numbered, StillQueue, Done, InSale, SalePCs, Counts, CreateSale, host, counter
<1>8. PinKept' /\ PinUnderItsStan'
    BY <1>1, <1>3
       DEF SInv, PinKept, PinUnderItsStan, CreateSale, counter, host, Lost, Received
<1>9. Named'
    BY <1>3, <1>4, SetReversalNamed DEF SInv, Named, CreateSale
<1> QED BY <1>6, <1>7, <1>8, <1>9, FrameBooks DEF SInv

LEMMA TransmitFailsStep == ASSUME SInv, TransmitFails PROVE SInv'
<1>1. TypeOK /\ counts \in Counts /\ counts.sales <= MaxSales /\ StanAssumption /\ stan \in Nat
    BY StanAssumption, StansNat DEF SInv, Typed, TypeOK
<1>2. sale.id # None
    BY DEF SInv, Numbered, InSale, SalePCs, TransmitFails, None
<1>3. /\ SaleMessage \in Messages /\ SaleMessage.kind = "sale" /\ SaleMessage.stan = sale.stan
      /\ SaleMessage.orig = pin
    BY <1>2, SaleMessageTyped DEF SInv
<1>4. seen' \subseteq Messages /\ hostLast' \in Stans /\ seen' \subseteq seen \cup {SaleMessage}
    BY <1>3, ReceivedTyped DEF SInv, TransmitFails
<1>5. TypeOK'
    BY <1>1, DigitsBound, NothingTyped, <1>4, SmallStans, StansNat DEF TypeOK, TransmitFails, counter, host, Sales, None, Stans
<1>6. StillQueue
    BY <1>1, <1>3, <1>4 DEF SInv, Numbered, StillQueue, Done, InSale, SalePCs, Counts, TransmitFails, host, counter
<1>7. PinKept' /\ PinUnderItsStan'
    BY <1>1, <1>3, <1>4
       DEF SInv, PinKept, PinUnderItsStan, TransmitFails, counter, host, Lost, Received
<1>8. Named'
    BY NothingTyped DEF SInv, Named, Numbered, InSale, SalePCs, None, TransmitFails
<1> QED BY <1>5, <1>6, <1>7, <1>8, FrameBooks DEF SInv

LEMMA TransmitSaleStep == ASSUME SInv, TransmitSale PROVE SInv'
<1>1. TypeOK /\ counts \in Counts /\ counts.sales <= MaxSales /\ StanAssumption /\ stan \in Nat
    BY StanAssumption, StansNat DEF SInv, Typed, TypeOK
<1>2. sale.id # None
    BY DEF SInv, Numbered, InSale, SalePCs, TransmitSale, None
<1>3. /\ SaleMessage \in Messages /\ SaleMessage.kind = "sale" /\ SaleMessage.stan = sale.stan
      /\ SaleMessage.orig = pin
    BY <1>2, SaleMessageTyped DEF SInv
<1>4. seen' \subseteq Messages /\ hostLast' \in Stans /\ seen' \subseteq seen \cup {SaleMessage}
    BY <1>3, ReceivedTyped DEF SInv, TransmitSale
<1>5. TypeOK'
    BY <1>1, DigitsBound, NothingTyped, <1>4, SmallStans, StansNat DEF TypeOK, TransmitSale, counter, host, Sales, None
<1>6. StillQueue
    BY <1>1, <1>3, <1>4 DEF SInv, Numbered, StillQueue, Done, InSale, SalePCs, Counts, TransmitSale, host, counter
<1>7. PinKept' /\ PinUnderItsStan'
    BY <1>1, <1>3, <1>4
       DEF SInv, PinKept, PinUnderItsStan, TransmitSale, counter, host, Lost, Received
<1>8. Named'
    BY NothingTyped DEF SInv, Named, Numbered, InSale, SalePCs, None, TransmitSale
<1> QED BY <1>5, <1>6, <1>7, <1>8, FrameBooks DEF SInv

LEMMA AnswerSaleStep == ASSUME SInv, AnswerSale PROVE SInv'
<1>1. TypeOK /\ counts \in Counts /\ counts.sales <= MaxSales /\ StanAssumption /\ stan \in Nat
    BY StanAssumption, StansNat DEF SInv, Typed, TypeOK
<1>2. TypeOK'
    BY <1>1, DigitsBound, NothingTyped DEF TypeOK, AnswerSale, counter, host, Sales, None, Stans
<1>3. StillQueue
    BY <1>1 DEF SInv, Numbered, StillQueue, Done, InSale, SalePCs, Counts, AnswerSale, host, counter
<1>4. PinKept' /\ PinUnderItsStan'
    BY <1>1
       DEF SInv, PinKept, PinUnderItsStan, AnswerSale, counter, host, Lost, Received
<1>5. Named'
    BY NothingTyped DEF SInv, Named, Numbered, InSale, SalePCs, None, AnswerSale
<1> QED BY <1>2, <1>3, <1>4, <1>5, FrameBooks DEF SInv

LEMMA NoAnswerStep == ASSUME SInv, NoAnswer PROVE SInv'
<1>1. TypeOK /\ counts \in Counts /\ counts.sales <= MaxSales /\ StanAssumption /\ stan \in Nat
    BY StanAssumption, StansNat DEF SInv, Typed, TypeOK
<1>2. stan \in Stans /\ stan # 0 /\ (stan <= MaxStan \/ stan = stan)
    BY <1>1, NextStanBound, SmallStans DEF TypeOK, Stans
<1>3. sale \in Sales
    BY <1>1, DigitsBound DEF TypeOK, Sales
<1>4. sale.id # None
    BY DEF SInv, Numbered, InSale, SalePCs, None, NoAnswer
<1>5. /\ reversal' \in Reversals /\ stan' \in Stans \ {0} /\ stanFile' \in 1 .. MaxStan
      /\ stan' <= MaxStan \/ stan' = stan
    BY <1>1, <1>2, <1>3, SetReversalKeeps DEF NoAnswer, Typed
<1>6. TypeOK'
    BY <1>1, DigitsBound, NothingTyped, <1>5 DEF TypeOK, NoAnswer, counter, host, Sales, None
<1>7. StillQueue
    BY <1>1, <1>5 DEF SInv, Numbered, StillQueue, Done, InSale, SalePCs, Counts, NoAnswer, host, counter
<1>8. PinKept' /\ PinUnderItsStan'
    BY <1>1
       DEF SInv, PinKept, PinUnderItsStan, NoAnswer, counter, host, Lost, Received
<1>9. Named'
    BY <1>3, <1>4, SetReversalNamed DEF SInv, Named, NoAnswer
<1> QED BY <1>6, <1>7, <1>8, <1>9, FrameBooks DEF SInv

LEMMA FinishStep == ASSUME SInv, Finish PROVE SInv'
<1>1. TypeOK /\ counts \in Counts /\ counts.sales <= MaxSales /\ StanAssumption /\ stan \in Nat
    BY StanAssumption, StansNat DEF SInv, Typed, TypeOK
<1>2. sale \in Sales
    BY <1>1 DEF TypeOK
<1>3. sale.id # None
    BY DEF SInv, Numbered, InSale, SalePCs, None, Finish
<1>4. stan \in Stans /\ stan # 0
    BY <1>1 DEF TypeOK
<1>5. /\ reversal' \in Reversals /\ stan' \in Stans \ {0} /\ stanFile' \in 1 .. MaxStan
      /\ stan' <= MaxStan \/ stan' = stan
    <2>1. CASE SetReversal(sale, stan)
        BY <1>1, <1>4, <2>1, SetReversalKeeps DEF Typed, TypeOK
    <2>2. CASE UNCHANGED <<reversal, counter>>
        BY <1>1, <2>2 DEF TypeOK, counter
    <2> QED BY <2>1, <2>2 DEF Finish
<1>6. TypeOK'
    BY <1>1, DigitsBound, NothingTyped, <1>5 DEF TypeOK, Finish, counter, host, Sales, None, Stans
<1>7. StillQueue
    BY <1>1, <1>5 DEF SInv, Numbered, StillQueue, Done, InSale, SalePCs, Counts, Finish, host, counter
<1>8. PinKept' /\ PinUnderItsStan'
    BY <1>1
       DEF SInv, PinKept, PinUnderItsStan, Finish, counter, host, Lost, Received
<1>9. Named'
    BY <1>2, <1>3, SetReversalNamed, NothingTyped DEF SInv, Named, Finish, counter
<1> QED BY <1>6, <1>7, <1>8, <1>9, FrameBooks DEF SInv

LEMMA LogonStep == ASSUME SInv, Logon PROVE SInv'
<1>1. TypeOK /\ counts \in Counts /\ counts.sales <= MaxSales /\ StanAssumption /\ stan \in Nat
    BY StanAssumption, StansNat DEF SInv, Typed, TypeOK
<1>2. hostLast \in Nat
    BY <1>1, StansNat DEF TypeOK
<1>3. NextStan(NextStan(hostLast)) \in 1 .. MaxStan /\ NextStan(NextStan(NextStan(hostLast))) \in 1 .. MaxStan
    <2>1. NextStan(hostLast) \in 1 .. MaxStan
        BY <1>2, NextStanBound
    <2>2. NextStan(NextStan(hostLast)) \in 1 .. MaxStan
        BY <2>1, NextStanBound
    <2> QED BY <2>2, NextStanBound
<1>4. stan' \in Stans \ {0} /\ stanFile' \in 1 .. MaxStan /\ stan' <= MaxStan
    BY <1>3, SmallStans, StanAssumption DEF Logon, Counted
<1>5. TypeOK'
    BY <1>1, DigitsBound, NothingTyped, <1>4 DEF TypeOK, Logon, counter, host, Sales, None
<1>6. StillQueue
    BY <1>1, <1>4 DEF SInv, Numbered, StillQueue, Done, InSale, SalePCs, Counts, Logon, host, counter
<1>7. PinKept' /\ PinUnderItsStan'
    BY <1>1
       DEF SInv, PinKept, PinUnderItsStan, Logon, counter, host, Lost, Received
<1>8. Named'
    BY NothingTyped DEF SInv, Named, Numbered, InSale, SalePCs, None, Logon
<1> QED BY <1>5, <1>6, <1>7, <1>8, FrameBooks DEF SInv

LEMMA KeyChangeStep == ASSUME SInv, KeyChange PROVE SInv'
<1>1. TypeOK /\ counts \in Counts /\ counts.sales <= MaxSales /\ StanAssumption /\ stan \in Nat
    BY StanAssumption, StansNat DEF SInv, Typed, TypeOK
<1>2. NextStan(stan) \in 1 .. MaxStan
    BY <1>1, NextStanBound
<1>3. stan' \in Stans \ {0} /\ stanFile' \in 1 .. MaxStan /\ stan' <= MaxStan
    BY <1>2, SmallStans, StanAssumption DEF KeyChange, Counted
<1>4. TypeOK'
    BY <1>1, DigitsBound, NothingTyped, <1>3 DEF TypeOK, KeyChange, counter, host, Sales, None
<1>5. StillQueue
    BY <1>1, <1>3 DEF SInv, Numbered, StillQueue, Done, InSale, SalePCs, Counts, KeyChange, host, counter
<1>6. PinKept' /\ PinUnderItsStan'
    BY <1>1
       DEF SInv, PinKept, PinUnderItsStan, KeyChange, counter, host, Lost, Received
<1>7. Named'
    BY NothingTyped DEF SInv, Named, Numbered, InSale, SalePCs, None, KeyChange
<1> QED BY <1>4, <1>5, <1>6, <1>7, FrameBooks DEF SInv

LEMMA PowerFailStep == ASSUME SInv, PowerFail PROVE SInv'
<1>1. TypeOK /\ counts \in Counts /\ counts.sales <= MaxSales /\ StanAssumption /\ stan \in Nat
    BY StanAssumption, StansNat DEF SInv, Typed, TypeOK
<1>2. NextStan(stanFile) \in 1 .. MaxStan /\ stanFile \in 1 .. MaxStan /\ stanFile \in Stans
    BY <1>1, NextStanBound, SmallStans DEF TypeOK
<1>3. stan' \in Stans \ {0} /\ stanFile' \in 1 .. MaxStan /\ stan' <= MaxStan /\ reversal' \in Reversals
    BY <1>1, <1>2, SmallStans, StanAssumption DEF TypeOK, PowerFail, Counted, Sales, Reversals
<1>4. TypeOK'
    BY <1>1, DigitsBound, NothingTyped, <1>3, SmallStans DEF TypeOK, PowerFail, counter, host, Sales, None, NoAdvice, Stans
<1>5. StillQueue
    <2>1. counts' \in Counts /\ counts'.sales = counts.sales /\ Done <= Done'
        BY <1>1 DEF Counts, PowerFail, Done, InSale, SalePCs
    <2>2. queue' = queue /\ seen' = seen /\ pc' = "idle" /\ harm \subseteq harm'
        BY DEF PowerFail, host
    <2>3. pc \in {"advice", "answer"} => "unsaved" \in harm' \/ (pc = "answer" /\ trickle = queue[1])
        BY DEF PowerFail
    <2> QED BY <1>1, <1>3, <2>1, <2>2, <2>3 DEF StillQueue, InSale, SalePCs
<1>6. PinKept' /\ PinUnderItsStan'
    BY <1>1
       DEF SInv, PinKept, PinUnderItsStan, PowerFail, counter, host, Lost, Received
<1>7. Named'
    BY NothingTyped DEF SInv, Named, Numbered, InSale, SalePCs, None, PowerFail
<1> QED BY <1>4, <1>5, <1>6, <1>7, FrameBooks DEF SInv

LEMMA SendReversalStep ==
    ASSUME SInv, NEW back, SendReversal(back), back = IF pc = "idle" THEN "idle" ELSE "send" PROVE SInv'
<1>1. TypeOK /\ counts \in Counts /\ counts.sales <= MaxSales /\ StanAssumption /\ stan \in Nat
    BY StanAssumption, StansNat DEF SInv, Typed, TypeOK
<1>2. reversal.id # None /\ reversal \in Reversals
    BY <1>1 DEF SendReversal, SInv, Named, TypeOK
<1>3. ReversalMessage \in Messages /\ ReversalMessage.kind = "reversal"
    BY <1>2, DigitsBound, StansNat DEF ReversalMessage, Messages, Reversals, None
<1>4. seen' \subseteq Messages /\ hostLast' \in Stans /\ seen' \subseteq seen \cup {ReversalMessage}
    BY <1>3, ReceivedTyped DEF SInv, SendReversal
<1>5. TypeOK'
    BY <1>1, <1>2, <1>4 DEF TypeOK, SendReversal, counter, NoReversal, Reversals, Stans, None
<1>6. StillQueue
    BY <1>1, <1>3, <1>4 DEF SInv, Numbered, StillQueue, Done, InSale, SalePCs, Counts, SendReversal, host, counter
<1>7. PinKept' /\ PinUnderItsStan'
    BY <1>1, <1>3, <1>4 DEF SInv, PinKept, PinUnderItsStan, SendReversal, counter
<1>8. Named'
    BY DEF SInv, Named, SendReversal
<1> QED BY <1>5, <1>6, <1>7, <1>8, FrameBooks DEF SInv

-----------------------------------------------------------------------------
(* Steps on the batch. *)

LEMMA QueueTyped ==
    ASSUME SInv
    PROVE  /\ queue \in Seq(Advices) /\ Len(queue) \in Nat /\ DOMAIN queue = 1 .. Len(queue)
           /\ Done \in Nat /\ Done <= MaxSales /\ MaxSales \in Nat /\ MaxStan \in Nat
           /\ stan \in Nat /\ stan # 0 /\ trickle \in Advices \cup {NoAdvice}
           /\ \A i \in DOMAIN queue : queue[i] \in Advices /\ queue[i].id \in Nat /\ queue[i].stan \in Nat
           /\ \A m \in seen : m.id \in Nat
<1>1. queue \in Seq(Advices) /\ stan \in Stans \ {0} /\ seen \subseteq Messages /\ trickle \in Advices \cup {NoAdvice}
    BY DEF SInv, Typed, TypeOK
<1>2. \A i \in DOMAIN queue : queue[i] \in Advices
    BY <1>1
<1>3. \A a \in Advices : a.id \in Nat /\ a.stan \in Nat
    <2>1. \A a \in Advices : a.id \in Ids /\ a.stan \in Stans
        BY DEF Advices
    <2>2. Ids \subseteq Nat
        BY StanAssumption DEF Ids
    <2> QED BY <2>1, <2>2, StansNat
<1>4. \A m \in Messages : m.id \in Nat
    BY StanAssumption DEF Messages, Ids
<1>5. Done \in Nat /\ Done <= MaxSales
    BY DoneNat DEF SInv
<1> QED BY <1>1, <1>2, <1>3, <1>4, <1>5, StansNat, StanAssumption

LEMMA AdviceMessageTyped ==
    ASSUME NEW a \in Advices
    PROVE  /\ AdviceMessage(a) \in Messages /\ AdviceMessage(a).kind = "advice"
           /\ AdviceMessage(a).id = a.id /\ AdviceMessage(a).stan = Digits(a.stan)
BY DigitsBound, SmallStans, StansNat DEF AdviceMessage, Advices, Messages

\* the thread has sent m for the record at h, or got the answer to it
Uploads(h, m) ==
    /\ h \in Repeats /\ (pc = "answer" => h = 1) /\ pc # "advice"
    /\ m.kind = "advice" /\ m.id = queue[h].id /\ seen' \subseteq seen \cup {m}
    /\ "unsaved" \notin harm =>
          \A n \in seen : n.kind = "advice" /\ n.id = m.id => n.stan = m.stan
    /\ pc' \notin {"advice", "answer"} /\ harm' = harm /\ sale' = sale
    /\ counts' = counts /\ stan' = stan /\ (InSale' <=> InSale)

LEMMA UploadHeard ==
    ASSUME SInv, NEW h, NEW m, Uploads(h, m)
    PROVE  /\ h \in DOMAIN queue /\ Repeats = {h} /\ Done' = Done /\ RepeatKeepsStan'
           /\ \A n \in seen' : n.kind = "advice" => n.id <= Done
           /\ \A n \in seen' : n.kind = "advice" /\ n.id # queue[h].id => n \in seen
           /\ "unsaved" \notin harm => \A n \in seen' : n.kind = "advice" /\ n.id = m.id => n.stan = m.stan
<1>1. h \in DOMAIN queue /\ Repeats = {h}
    BY DEF Uploads, Repeats, SInv, Busy
<1>2. Done' = Done
    BY DEF Uploads, Done
<1>3. \A n \in seen' : n.kind = "advice" => n.id <= Done
    BY <1>1 DEF Uploads, SInv, Numbered
<1>4. RepeatKeepsStan'
    BY DEF Uploads, SInv, RepeatKeepsStan
<1> QED BY <1>1, <1>2, <1>3, <1>4 DEF Uploads

\* an advice that was answered leaves the batch
LEMMA UploadAnswered ==
    ASSUME SInv, NEW h, NEW m, Uploads(h, m),
           queue' \in Seq(Advices), Len(queue') = Len(queue) - 1,
           \A i \in DOMAIN queue' :
                 LET k == IF i < h THEN i ELSE i + 1
                 IN k \in DOMAIN queue /\ k # h /\ queue'[i] = queue[k]
    PROVE  Numbered' /\ Busy' /\ Room' /\ Recognised' /\ RepeatKeepsStan'
<1> DEFINE K(i) == IF i < h THEN i ELSE i + 1
<1>1. /\ h \in DOMAIN queue /\ Repeats = {h} /\ Done' = Done /\ RepeatKeepsStan'
      /\ \A n \in seen' : n.kind = "advice" => n.id <= Done
      /\ \A n \in seen' : n.kind = "advice" /\ n.id # queue[h].id => n \in seen
    BY UploadHeard
<1>2. \A i \in DOMAIN queue' : K(i) \in DOMAIN queue /\ K(i) # h /\ queue'[i] = queue[K(i)]
    OBVIOUS
<1>3. \A i, j \in DOMAIN queue' : K(i) = K(j) => i = j
    BY <1>1, QueueTyped
<1>4. Len(queue) \in Nat /\ Done \in Nat /\ MaxStan \in Nat /\ stan \in Nat
    BY QueueTyped
<1> HIDE DEF K
<1>5. Numbered'
    <2>1. \A i, j \in DOMAIN queue' : queue'[i].id = queue'[j].id => i = j
        BY <1>2, <1>3 DEF SInv, Numbered
    <2>2. \A i \in DOMAIN queue' : queue'[i].id <= Done
        BY <1>2 DEF SInv, Numbered
    <2> QED BY <1>1, <1>4, <2>1, <2>2 DEF SInv, Numbered, Uploads
<1>6. Repeats' = {}
    BY <1>1, <1>2 DEF Repeats
<1>7. Busy'
    BY <1>6 DEF Busy, Uploads
<1>8. Room'
    BY <1>1, <1>4, <1>6 DEF SInv, Room, Uploads
<1>9. Recognised'
    <2> SUFFICES ASSUME "unsaved" \notin harm, NEW n \in seen', NEW i \in DOMAIN queue',
                        n.kind = "advice", n.id = queue'[i].id
                 PROVE  queue'[i].repeat /\ n.stan = Digits(queue'[i].stan)
        BY DEF Recognised, Uploads
    <2>1. queue'[i] = queue[K(i)] /\ K(i) \in DOMAIN queue /\ K(i) # h
        BY <1>2
    <2>2. n \in seen
        BY <1>1, <2>1 DEF SInv, Numbered
    <2> QED BY <2>1, <2>2 DEF SInv, Recognised, Uploads
<1> QED BY <1>1, <1>5, <1>7, <1>8, <1>9

\* one that was not is written back as it was sent
LEMMA UploadStays ==
    ASSUME SInv, NEW h, NEW m, Uploads(h, m), NEW a \in Advices,
           a.repeat, a.id = queue[h].id, m.stan = Digits(a.stan),
           queue' = [queue EXCEPT ![h] = a]
    PROVE  Numbered' /\ Busy' /\ Room' /\ Recognised' /\ RepeatKeepsStan'
<1>1. /\ h \in DOMAIN queue /\ Repeats = {h} /\ Done' = Done /\ RepeatKeepsStan'
      /\ \A n \in seen' : n.kind = "advice" => n.id <= Done
      /\ \A n \in seen' : n.kind = "advice" /\ n.id # queue[h].id => n \in seen
      /\ "unsaved" \notin harm => \A n \in seen' : n.kind = "advice" /\ n.id = m.id => n.stan = m.stan
    BY UploadHeard
<1>2. queue \in Seq(Advices) /\ Len(queue) \in Nat /\ Done \in Nat /\ MaxStan \in Nat /\ stan \in Nat
    BY QueueTyped
<1>3. DOMAIN queue' = DOMAIN queue /\ Len(queue') = Len(queue)
    BY <1>1, <1>2
<1>4. \A i \in DOMAIN queue : queue'[i] = IF i = h THEN a ELSE queue[i]
    BY <1>1, <1>2
<1>5. Numbered'
    BY <1>1, <1>3, <1>4 DEF SInv, Numbered, Uploads
<1>6. Repeats' = {h}
    BY <1>1, <1>3, <1>4 DEF Repeats
<1>7. Busy'
    BY <1>6 DEF Busy, Uploads
<1>8. Room'
    BY <1>1, <1>2, <1>3, <1>6 DEF SInv, Room, Uploads
<1>9. Recognised'
    <2> SUFFICES ASSUME "unsaved" \notin harm, NEW n \in seen', NEW i \in DOMAIN queue,
                        n.kind = "advice", n.id = queue'[i].id
                 PROVE  queue'[i].repeat /\ n.stan = Digits(queue'[i].stan)
        BY <1>3 DEF Recognised, Uploads
    <2>1. CASE i = h
        BY <2>1, <1>1, <1>4 DEF Uploads
    <2>2. CASE i # h
        <3>1. queue'[i] = queue[i] /\ n \in seen
            BY <2>2, <1>1, <1>4 DEF SInv, Numbered
        <3> QED BY <2>2, <3>1 DEF SInv, Recognised, Uploads
    <2> QED BY <2>1, <2>2
<1> QED BY <1>1, <1>5, <1>7, <1>8, <1>9

LEMMA FallbackStep == ASSUME SInv, Fallback PROVE SInv'
<1>1. /\ queue \in Seq(Advices) /\ Len(queue) \in Nat /\ DOMAIN queue = 1 .. Len(queue)
      /\ Done \in Nat /\ MaxStan \in Nat /\ stan \in Nat /\ counts.sales \in Nat
      /\ \A i \in DOMAIN queue : queue[i].id \in Nat
      /\ \A m \in seen : m.id \in Nat
    BY QueueTyped DEF SInv, Typed, Counts
<1>2. Done = counts.sales - 1 /\ Done' = counts.sales /\ sale.id = counts.sales /\ sale.id # None /\ sale \in Sales
    BY DEF SInv, Typed, TypeOK, Numbered, Fallback, Done, InSale, SalePCs, None
<1>3. CASE queue' = queue
    <2>1. TypeOK'
        BY <1>3, NothingTyped DEF SInv, Typed, TypeOK, Fallback, counter, host
    <2>2. StillQueue
        BY <1>1, <1>2, <1>3 DEF SInv, Typed, StillQueue, Fallback, InSale, SalePCs, counter, host
    <2>3. Named' /\ PinKept' /\ PinUnderItsStan'
        BY NothingTyped DEF SInv, Named, PinKept, PinUnderItsStan, Fallback, host
    <2> QED BY <2>1, <2>2, <2>3, FrameBooks DEF SInv
<1>4. ASSUME NEW a, a = [id |-> sale.id, stan |-> sale.stan, repeat |-> FALSE], queue' = Append(queue, a)
      PROVE  SInv'
    <2>1. a \in Advices /\ a.id = counts.sales /\ ~a.repeat
        BY <1>2, <1>4 DEF Advices, Sales
    <2>2. /\ queue' \in Seq(Advices) /\ Len(queue') = Len(queue) + 1 /\ DOMAIN queue' = 1 .. Len(queue) + 1
          /\ \A i \in DOMAIN queue' : queue'[i] = IF i \in DOMAIN queue THEN queue[i] ELSE a
        BY <1>1, <1>4, <2>1
    <2>3. TypeOK' /\ Typed'
        BY <2>2, NothingTyped DEF SInv, Typed, TypeOK, Fallback, counter, host
    <2>4. Repeats' = Repeats
        BY <1>1, <2>1, <2>2 DEF Repeats
    <2>5. Named' /\ PinKept' /\ PinUnderItsStan'
        BY NothingTyped DEF SInv, Named, PinKept, PinUnderItsStan, Fallback, host
    <2>6. \A i \in DOMAIN queue' : i \notin DOMAIN queue => i = Len(queue) + 1
        BY <1>1, <2>2
    <2>7. Numbered'
        <3>1. \A i, j \in DOMAIN queue' : queue'[i].id = queue'[j].id => i = j
            BY <1>1, <1>2, <2>1, <2>2, <2>6 DEF SInv, Numbered
        <3>2. \A i \in DOMAIN queue' : queue'[i].id <= Done'
            BY <1>1, <1>2, <2>1, <2>2 DEF SInv, Numbered
        <3>3. \A m \in seen : m.kind = "advice" => m.id <= Done'
            BY <1>1, <1>2 DEF SInv, Numbered
        <3>4. Len(queue') <= Done'
            BY <1>1, <1>2, <2>2 DEF SInv, Numbered
        <3> QED BY <3>1, <3>2, <3>3, <3>4 DEF Numbered, Fallback, InSale, SalePCs, host
    <2>8. Busy' /\ Room'
        <3>1. Busy'
            BY <2>4 DEF SInv, Busy, Fallback
        <3>2. stan <= MaxStan + (counts.sales - 1) - Len(queue) + (IF Repeats = {} THEN 0 ELSE 1) - 0
            BY <1>2 DEF SInv, Room, Fallback
        <3>3. stan' = stan /\ pc' = "idle"
            BY DEF Fallback, counter
        <3>4. MaxStan + (counts.sales - 1) - Len(queue) + (IF Repeats = {} THEN 0 ELSE 1) - 0
              = MaxStan + Done' - Len(queue') + (IF Repeats' = {} THEN 0 ELSE 1) - 0
            BY <1>1, <1>2, <2>2, <2>4
        <3>5. Room'
            BY <3>2, <3>3, <3>4 DEF Room
        <3> QED BY <3>1, <3>5
    <2>9. Recognised'
        <3> SUFFICES ASSUME "unsaved" \notin harm, NEW m \in seen, NEW i \in DOMAIN queue',
                            m.kind = "advice", m.id = queue'[i].id
                     PROVE  queue'[i].repeat /\ m.stan = Digits(queue'[i].stan)
            BY DEF Recognised, Fallback, host
        <3>1. i \in DOMAIN queue
            BY <1>1, <1>2, <2>1, <2>2 DEF SInv, Numbered
        <3> QED BY <3>1, <2>2 DEF SInv, Recognised, Fallback
    <2>10. RepeatKeepsStan'
        BY DEF SInv, RepeatKeepsStan, Fallback, host
    <2> QED BY <2>3, <2>5, <2>7, <2>8, <2>9, <2>10 DEF SInv
<1> QED BY <1>3, <1>4 DEF Fallback

LEMMA SendRepeatStep ==
    ASSUME SInv, NEW back, SendRepeat(back), back = IF pc = "idle" THEN "idle" ELSE "send" PROVE SInv'
<1> DEFINE a == queue[Head1]
           m == AdviceMessage(a)
<1>1. Head1 \in Repeats /\ Head1 \in DOMAIN queue
    BY HeadIsRepeat DEF SendRepeat
<1>2. /\ queue \in Seq(Advices) /\ DOMAIN queue = 1 .. Len(queue) /\ a \in Advices /\ a.repeat
      /\ TypeOK /\ stan \in Stans
    BY <1>1, QueueTyped DEF Repeats, SInv, Typed, TypeOK
<1>3. /\ m \in Messages /\ m.kind = "advice" /\ m.id = a.id /\ m.stan = Digits(a.stan)
    BY <1>2, AdviceMessageTyped
<1> HIDE DEF m
<1>4. Received(m) \/ Lost
    BY DEF SendRepeat, Uploaded, m
<1>5. seen' \subseteq Messages /\ hostLast' \in Stans /\ seen' \subseteq seen \cup {m}
    BY <1>3, <1>4, ReceivedTyped DEF SInv
<1>6. Uploads(Head1, m)
    <2>1. "unsaved" \notin harm => \A n \in seen : n.kind = "advice" /\ n.id = m.id => n.stan = m.stan
        BY <1>1, <1>3 DEF SInv, Recognised, SendRepeat
    <2>2. pc' \in {back, "fallback", "idle"} /\ (pc' = "idle" <=> pc = "idle")
        BY DEF SendRepeat, Uploaded
    <2>3. InSale' <=> InSale
        BY <2>2 DEF InSale, SalePCs, SendRepeat
    <2> QED BY <1>1, <1>3, <1>5, <2>1, <2>2, <2>3 DEF Uploads, SendRepeat, counter
<1>7. \/ queue' = RemoveAt(queue, Head1) /\ reversal' = NoReversal
      \/ queue' = [queue EXCEPT ![Head1] = a] /\ reversal' = reversal
    BY DEF SendRepeat, Uploaded
<1>8. queue' \in Seq(Advices)
    <2>1. RemoveAt(queue, Head1) \in Seq(Advices)
        BY <1>1, <1>2, Removed
    <2>2. [queue EXCEPT ![Head1] = a] \in Seq(Advices)
        <3> HIDE DEF a
        <3> QED BY <1>1, <1>2
    <2> QED BY <1>7, <2>1, <2>2
<1>9. TypeOK'
    BY <1>2, <1>5, <1>7, <1>8, NothingTyped DEF TypeOK, SendRepeat, Uploaded, counter
<1>10. Typed'
    BY <1>9 DEF SInv, Typed, SendRepeat
<1>11. Numbered' /\ Busy' /\ Room' /\ Recognised' /\ RepeatKeepsStan'
    <2>1. CASE queue' = RemoveAt(queue, Head1)
        BY <1>1, <1>2, <1>6, <2>1, Removed, UploadAnswered
    <2>2. CASE queue' = [queue EXCEPT ![Head1] = a]
        BY <1>2, <1>3, <1>6, <2>2, UploadStays
    <2> QED BY <1>7, <2>1, <2>2
<1>12. Named'
    BY <1>7 DEF SInv, Named, SendRepeat
<1>13. PinKept' /\ PinUnderItsStan'
    <2>1. pc' \in {"send", "fallback", "idle"} /\ (pc' = "send" => pc = "clear")
        BY DEF SendRepeat, Uploaded
    <2> QED BY <2>1, <1>3, <1>5 DEF SInv, PinKept, PinUnderItsStan, SendRepeat, counter
<1> QED BY <1>10, <1>11, <1>12, <1>13 DEF SInv

LEMMA StoreStanStep == ASSUME SInv, StoreStan PROVE SInv'
<1>1. /\ queue \in Seq(Advices) /\ Len(queue) \in Nat /\ DOMAIN queue = 1 .. Len(queue) /\ 1 \in DOMAIN queue
      /\ Done \in Nat /\ MaxStan \in Nat /\ stan \in Nat /\ queue[1] \in Advices
    BY QueueTyped DEF StoreStan
<1> DEFINE a == [queue[1] EXCEPT !.repeat = TRUE, !.stan = stan]
<1>2. a \in Advices /\ a.id = queue[1].id /\ a.repeat
    BY <1>1 DEF Advices, SInv, Typed, TypeOK
<1>3. queue' = [queue EXCEPT ![1] = a]
    BY <1>1 DEF StoreStan
<1> HIDE DEF a
<1>4. /\ queue' \in Seq(Advices) /\ Len(queue') = Len(queue) /\ DOMAIN queue' = DOMAIN queue
      /\ \A i \in DOMAIN queue : queue'[i] = IF i = 1 THEN a ELSE queue[i]
    BY <1>1, <1>2, <1>3
<1>5. Typed'
    BY <1>4 DEF SInv, Typed, TypeOK, StoreStan, counter, host
<1>6. Repeats = {} /\ Repeats' = {1} /\ Done' = Done
    BY <1>1, <1>2, <1>4 DEF Repeats, StoreStan, Done, InSale, SalePCs
<1>7. Numbered' /\ Busy'
    BY <1>2, <1>4, <1>6 DEF SInv, Numbered, Busy, StoreStan, InSale, SalePCs, host
<1>8. Room'
    BY <1>1, <1>4, <1>6 DEF SInv, Room, StoreStan, counter
<1>9. Recognised' /\ RepeatKeepsStan'
    <2>1. "unsaved" \notin harm =>
              \A m \in seen, i \in DOMAIN queue : m.kind = "advice" => m.id # queue[i].id
        BY <1>6 DEF SInv, Recognised, Repeats
    <2>2. \A i \in DOMAIN queue' : i \in DOMAIN queue /\ queue'[i].id = queue[i].id
        BY <1>2, <1>4
    <2> QED BY <2>1, <2>2 DEF SInv, Recognised, RepeatKeepsStan, StoreStan, host
<1>10. Named' /\ PinKept' /\ PinUnderItsStan'
    BY DEF SInv, Named, PinKept, PinUnderItsStan, StoreStan, host
<1> QED BY <1>5, <1>7, <1>8, <1>9, <1>10 DEF SInv

LEMMA AdviceNotSentStep == ASSUME SInv, AdviceNotSent PROVE SInv'
<1>1. /\ queue \in Seq(Advices) /\ Len(queue) \in Nat /\ DOMAIN queue = 1 .. Len(queue)
      /\ Done \in Nat /\ Done <= MaxSales /\ MaxSales \in Nat /\ MaxStan \in Nat /\ stan \in Nat
    BY QueueTyped
<1>2. Repeats' = Repeats /\ Repeats # {} /\ Done' = Done /\ stan' = stan + 1
    BY DEF SInv, Busy, AdviceNotSent, Repeats, Done, InSale, SalePCs
<1>3. Room'
    BY <1>1, <1>2 DEF SInv, Room, AdviceNotSent
<1>4. Len(queue) >= 1
    BY <1>1, <1>2 DEF SInv, Busy, AdviceNotSent, Repeats
<1>5. stan' \in Stans \ {0}
    BY <1>1, <1>2, <1>3, <1>4 DEF Room, AdviceNotSent, Stans
<1>6. Typed'
    BY <1>5 DEF SInv, Typed, TypeOK, AdviceNotSent, host
<1>7. Numbered' /\ Busy'
    BY <1>2 DEF SInv, Numbered, Busy, AdviceNotSent, InSale, SalePCs, host
<1>8. Recognised' /\ RepeatKeepsStan'
    BY DEF SInv, Recognised, RepeatKeepsStan, AdviceNotSent, host
<1>9. Named' /\ PinKept' /\ PinUnderItsStan'
    BY DEF SInv, Named, PinKept, PinUnderItsStan, AdviceNotSent, host
<1> QED BY <1>3, <1>6, <1>7, <1>8, <1>9 DEF SInv

LEMMA SendAdviceStep == ASSUME SInv, SendAdvice PROVE SInv'
<1> DEFINE s == IF stan = lastRev THEN NextStan(stan) ELSE stan
           a == [queue[1] EXCEPT !.stan = s]
           m == AdviceMessage(a)
<1>1. /\ queue \in Seq(Advices) /\ Len(queue) \in Nat /\ DOMAIN queue = 1 .. Len(queue)
      /\ Done \in Nat /\ MaxStan \in Nat /\ stan \in Nat /\ TypeOK /\ stan \in Stans
    BY QueueTyped DEF SInv, Typed, TypeOK
<1>2. 1 \in DOMAIN queue /\ 1 \in Repeats /\ queue[1] \in Advices /\ queue[1].repeat
    BY QueueTyped DEF SInv, Busy, SendAdvice, Repeats
<1>3. s \in Nat /\ s \in Stans
    BY <1>1, NextStanBound
<1> HIDE DEF s
<1>4. a \in Advices /\ a.id = queue[1].id /\ a.repeat
    BY <1>2, <1>3 DEF Advices
<1>5. Counted(NextStan(s)) /\ (Received(m) \/ Lost) /\ trickle' = a
    BY DEF SendAdvice, s
<1> HIDE DEF a
<1>6. m \in Messages /\ m.kind = "advice" /\ m.id = queue[1].id /\ m.stan = Digits(a.stan)
    BY <1>4, AdviceMessageTyped
<1> HIDE DEF m
<1>7. seen' \subseteq Messages /\ hostLast' \in Stans /\ seen' \subseteq seen \cup {m}
    BY <1>5, <1>6, ReceivedTyped DEF SInv
<1>8. stan' \in 1 .. MaxStan /\ stanFile' \in 1 .. MaxStan /\ stan' \in Stans \ {0} /\ stan' <= MaxStan
    BY <1>3, <1>5, NextStanBound, SmallStans DEF Counted
<1>9. TypeOK' /\ Typed'
    BY <1>1, <1>4, <1>5, <1>7, <1>8 DEF SInv, Typed, TypeOK, SendAdvice
<1>10. Repeats' = Repeats /\ Done' = Done
    BY DEF SendAdvice, Repeats, Done, InSale, SalePCs
<1>11. Numbered' /\ Busy'
    BY <1>2, <1>4, <1>5, <1>6, <1>7, <1>10 DEF SInv, Numbered, Busy, SendAdvice, InSale, SalePCs
<1>12. Room'
    BY <1>1, <1>2, <1>8, <1>10 DEF Room, SendAdvice, SInv, Numbered
<1>13. "unsaved" \notin harm => \A n \in seen' : n.kind = "advice" /\ n.id = queue[1].id => n = m
    BY <1>2, <1>7 DEF SInv, Recognised, SendAdvice
<1>14. Recognised'
    <2> SUFFICES ASSUME "unsaved" \notin harm, NEW n \in seen', NEW i \in DOMAIN queue,
                        n.kind = "advice", n.id = queue[i].id
                 PROVE  queue[i].repeat /\ n.stan = Digits(IF i = 1 THEN a.stan ELSE queue[i].stan)
        BY <1>5 DEF Recognised, SendAdvice
    <2>1. CASE i = 1
        BY <2>1, <1>2, <1>6, <1>13
    <2>2. CASE i # 1
        <3>1. n \in seen
            BY <2>2, <1>2, <1>6, <1>7 DEF SInv, Numbered
        <3> QED BY <2>2, <3>1 DEF SInv, Recognised, SendAdvice
    <2> QED BY <2>1, <2>2
<1>15. RepeatKeepsStan'
    BY <1>6, <1>7, <1>13 DEF SInv, RepeatKeepsStan, SendAdvice
<1>16. Named' /\ PinKept' /\ PinUnderItsStan'
    BY <1>6, <1>7 DEF SInv, Named, PinKept, PinUnderItsStan, SendAdvice
<1> QED BY <1>9, <1>11, <1>12, <1>14, <1>15, <1>16 DEF SInv

LEMMA FinishAdviceStep == ASSUME SInv, FinishAdvice PROVE SInv'
<1> DEFINE m == AdviceMessage(trickle)
<1>1. /\ 1 \in Repeats /\ queue[1].repeat /\ trickle \in Advices /\ trickle.id = queue[1].id /\ trickle.repeat
      /\ pc = "answer" /\ queue \in Seq(Advices) /\ 1 \in DOMAIN queue /\ TypeOK
    BY QueueTyped DEF SInv, Typed, Busy, FinishAdvice, Repeats
<1>2. m.kind = "advice" /\ m.id = queue[1].id /\ m.stan = Digits(trickle.stan)
    BY <1>1, AdviceMessageTyped
<1> HIDE DEF m
<1>3. Uploads(1, m)
    <2>1. "unsaved" \notin harm => \A n \in seen : n.kind = "advice" /\ n.id = m.id => n.stan = m.stan
        BY <1>1, <1>2 DEF SInv, Recognised
    <2> QED BY <1>1, <1>2, <2>1 DEF Uploads, FinishAdvice, InSale, SalePCs, counter, host
<1>4. \/ queue' = Tail(queue) /\ reversal' = NoReversal
      \/ queue' = [queue EXCEPT ![1] = trickle] /\ reversal' = reversal
    BY DEF FinishAdvice
<1>5. queue # <<>> /\ \A i \in DOMAIN Tail(queue) : i >= 1
    BY <1>1
<1>6. queue' \in Seq(Advices)
    BY <1>1, <1>4, <1>5, TailRemoves
<1>7. Typed'
    BY <1>1, <1>4, <1>6, NothingTyped DEF SInv, Typed, TypeOK, FinishAdvice, counter, host
<1>8. Numbered' /\ Busy' /\ Room' /\ Recognised' /\ RepeatKeepsStan'
    <2>1. CASE queue' = Tail(queue)
        <3>1. /\ Len(queue') = Len(queue) - 1
              /\ \A i \in DOMAIN queue' : /\ ~(i < 1) /\ i + 1 \in DOMAIN queue /\ i + 1 # 1
                                          /\ queue'[i] = queue[i + 1]
            BY <2>1, <1>1, <1>5, TailRemoves
        <3> QED BY <3>1, <1>3, <1>6, UploadAnswered
    <2>2. CASE queue' = [queue EXCEPT ![1] = trickle]
        BY <1>1, <1>2, <1>3, <2>2, UploadStays
    <2> QED BY <1>4, <2>1, <2>2
<1>9. Named' /\ PinKept' /\ PinUnderItsStan'
    BY <1>4 DEF SInv, Named, PinKept, PinUnderItsStan, FinishAdvice, host
<1> QED BY <1>7, <1>8, <1>9 DEF SInv

-----------------------------------------------------------------------------
(* The theorems on PIN blocks and advices. *)

LEMMA InitInv == Init => SInv
<1> SUFFICES ASSUME Init PROVE SInv
    OBVIOUS
<1>1. stan \in 1 .. MaxStan /\ queue = <<>> /\ seen = {} /\ pc = "idle" /\ counts.sales = 0
    BY StanAssumption DEF Init
<1>2. stan \in Nat /\ MaxStan \in 1 .. MaxStan /\ (stan # 1 => stan - 1 \in 1 .. MaxStan)
    BY <1>1, StanAssumption
<1>3. TypeOK
    <2>1. stan \in Stans \ {0} /\ stanFile \in 1 .. MaxStan /\ hostLast \in Stans
        BY <1>1, <1>2, SmallStans DEF Init
    <2>2. queue \in Seq(Advices) /\ seen \subseteq Messages /\ harm \subseteq {"unsaved", "logon", "digits", "unnamed"}
        BY DEF Init
    <2> QED BY <2>1, <2>2, SmallStans, NothingTyped DEF Init, TypeOK
<1>4. Typed
    BY <1>3, StanAssumption DEF Init, Typed, Counts
<1>5. DOMAIN queue = {} /\ Len(queue) = 0 /\ Repeats = {} /\ Done = 0
    BY <1>1 DEF Repeats, Done, InSale, SalePCs
<1>6. Numbered /\ Busy
    BY <1>1, <1>5 DEF Numbered, Busy, InSale, SalePCs
<1>7. Room
    BY <1>1, <1>2, <1>5, StanAssumption DEF Room
<1>8. Named /\ Recognised /\ RepeatKeepsStan /\ PinKept /\ PinUnderItsStan
    BY <1>1, NothingTyped DEF Init, Named, Recognised, RepeatKeepsStan, PinKept, PinUnderItsStan
<1> QED BY <1>4, <1>6, <1>7, <1>8 DEF SInv

LEMMA StutterInv == ASSUME SInv, UNCHANGED vars PROVE SInv'
BY DEF SInv, Typed, TypeOK, Named, Numbered, Busy, Room, Recognised, RepeatKeepsStan, PinKept,
       PinUnderItsStan, Done, InSale, Repeats, vars

LEMMA NextInv == ASSUME SInv, Next PROVE SInv'
<1>1. ASSUME SaleStep PROVE SInv'
    BY <1>1, EnterPinStep, RetryPinStep, NothingToClearStep, NoConnectionStep, CreateSaleStep,
       TransmitFailsStep, TransmitSaleStep, AnswerSaleStep, NoAnswerStep, FallbackStep, FinishStep
       DEF SaleStep
<1>2. ASSUME UploadStep PROVE SInv'
    BY <1>2, SendReversalStep, SendRepeatStep, StoreStanStep, AdviceNotSentStep, SendAdviceStep,
       FinishAdviceStep DEF UploadStep
<1> QED BY <1>1, <1>2, LogonStep, KeyChangeStep, PowerFailStep DEF Next

LEMMA Invariance == Spec => []SInv
<1>1. SInv /\ [Next]_vars => SInv'
    BY NextInv, StutterInv
<1> QED BY InitInv, <1>1, PTL DEF Spec

\* The variables stay within their types: the counter leaves the six digits of
\* a message at most once for every advice (terminal.stan += 1 in saf_send_single).
THEOREM TypeCorrect == Spec => []TypeOK
<1>1. SInv => TypeOK
    BY DEF SInv, Typed
<1> QED BY Invariance, <1>1, PTL

\* An advice reaches the host under one number, in its repeats too, unless the
\* power took a number no file had (message_wow_220, saf_send).
THEOREM RepeatsRecognised == Spec => []RepeatKeepsStan
<1>1. SInv => RepeatKeepsStan
    BY DEF SInv
<1> QED BY Invariance, <1>1, PTL

\* The PIN block of a request is under the number of the request, whatever was
\* uploaded in between (txn_pin_generate_pinblock, msgAS2805_create).
THEOREM PinsDecrypt == Spec => []PinUnderItsStan
<1>1. SInv => PinUnderItsStan
    BY DEF SInv
<1> QED BY Invariance, <1>1, PTL

-----------------------------------------------------------------------------
(* A reversal names the request it takes back.                             *)

\* the counter does not come half round within the requests of a transaction
AttemptsFit == MaxAttempts # 0 /\ 4 * MaxAttempts <= MaxStan

Numbers == 1 .. MaxStan

\* how many numbers after x the number s comes
Gap(s, x) == (s - x) % MaxStan

\* no request of the transaction was heard after the one under o
Latest(o, id, heard) ==
    /\ o \in Numbers
    /\ \A m \in heard : m.kind = "sale" /\ m.id = id => m.stan = o \/ ~AtOrAfter(m.stan, o)

\* who may have been heard of: a reversal of the transaction under way only once
\* its request is past
Begun ==
    /\ \A m \in seen : m.id <= counts.sales
    /\ reversal.id <= counts.sales /\ sale.id <= counts.sales
    /\ pc \in {"clear", "send", "final"} => reversal.id # counts.sales
    /\ pc = "send" => reversal = NoReversal
    /\ InSale => \A r \in seen : r.kind = "reversal" => r.id # counts.sales

\* the counter has moved by two numbers at most for every request of the transaction
Requested == IF pc \in {"clear", "send"} THEN counts.attempts - 1 ELSE counts.attempts
Followed ==
    /\ InSale => counts.attempts \in 1 .. MaxAttempts
    /\ InSale /\ pc # "fallback" =>
            \A m \in seen : m.kind = "sale" /\ m.id = sale.id =>
                m.stan \in Numbers /\ Gap(stan, m.stan) \in 1 .. 2 * Requested
    /\ pc = "transmit" => Gap(stan, sale.stan) \in 1 .. 2

\* the last of its requests is the original of a transaction and of its reversal
Originals ==
    /\ stan <= MaxStan
    /\ reversal # NoReversal => Latest(reversal.orig, reversal.id, seen)
    /\ \A r \in seen : r.kind = "reversal" => Latest(r.orig, r.id, seen)
    /\ pc \in {"transmit", "await", "final"} \/ sale.sent => Latest(sale.orig, sale.id, seen)
    /\ pc = "transmit" => sale.orig = sale.stan
    /\ pc = "transmit" => reversal = NoReversal \/ reversal.orig = sale.stan
    /\ Followed

OInv == Begun /\ (harm \cap {"unnamed", "digits"} = {} => Originals)

LEMMA RequestsTyped ==
    ASSUME SInv
    PROVE  /\ counts.sales \in Nat /\ counts.attempts \in Nat /\ sale.id \in Nat /\ reversal.id \in Nat
           /\ stan \in Nat \ {0} /\ MaxStan \in Nat \ {0} /\ MaxAttempts \in Nat
           /\ \A m \in seen : m.id \in Nat
           /\ InSale => sale.id = counts.sales /\ counts.sales # 0
<1>1. sale \in Sales /\ reversal \in Reversals /\ counts \in Counts /\ stan \in Stans \ {0}
    BY DEF SInv, Typed, TypeOK
<1>2. \A x \in Ids \cup {None} : x \in Nat
    BY StanAssumption DEF Ids, None
<1>3. sale.id \in Nat /\ reversal.id \in Nat
    <2>1. sale.id \in Ids \cup {None} /\ reversal.id \in Ids \cup {None}
        BY <1>1 DEF Sales, Reversals
    <2> QED BY <2>1, <1>2
<1>4. counts.sales \in Nat /\ counts.attempts \in Nat
    BY <1>1 DEF Counts
<1>5. \A m \in seen : m.id \in Nat
    BY QueueTyped
<1>6. InSale => sale.id = counts.sales /\ counts.sales # 0
    BY DEF SInv, Numbered
<1> QED BY <1>1, <1>3, <1>4, <1>5, <1>6, StansNat, StanAssumption

LEMMA NothingOriginal == NoSale.id = 0 /\ ~NoSale.sent /\ NoReversal.id = 0
BY DEF NoSale, NoReversal, None

\* what is heard beside the requests of a transaction changes nothing of them
LEMMA LatestKept ==
    ASSUME NEW o, NEW id, NEW h, NEW g, Latest(o, id, h),
           \A m \in g : m.kind = "sale" => m \in h \/ m.id # id \/ m.stan = o
    PROVE  Latest(o, id, g)
BY DEF Latest

-----------------------------------------------------------------------------
(* Steps that take no number for a request and deliver none.               *)

QuietHost ==
    /\ \A m \in seen' : m.kind = "sale" => m \in seen
    /\ \A m \in seen' : m \in seen \/ m.id <= counts.sales
    /\ \A r \in seen' : r.kind = "reversal" =>
            r \in seen \/ /\ pc \in {"idle", "clear"} /\ reversal # NoReversal
                          /\ r.id = reversal.id /\ r.orig = reversal.orig
    /\ counts'.sales = counts.sales /\ counts'.attempts = counts.attempts

QuietRecords ==
    /\ sale' = sale \/ sale' = NoSale
    /\ \/ reversal' \in {reversal, NoReversal}
       \/ /\ pc' \in {"idle", "fallback"} /\ (pc \in {"await", "final"} \/ sale.sent)
          /\ reversal'.id = sale.id /\ reversal'.orig = sale.orig
    /\ harm \subseteq harm'
    /\ stan' <= MaxStan \/ stan' = stan \/ "digits" \in harm'

QuietThread ==
    /\ pc' \notin {"clear", "transmit", "await"}
    /\ pc' = "send" => pc = "clear"
    /\ pc' = "final" => pc = "await"
    /\ pc' \in {"send", "final"} => sale' = sale /\ stan' = stan /\ reversal' = NoReversal
    /\ pc' = "fallback" => InSale

LEMMA QuietBegun ==
    ASSUME SInv, Begun, QuietHost, QuietRecords, QuietThread
    PROVE  Begun'
<1>1. /\ counts.sales \in Nat /\ counts'.sales = counts.sales
      /\ (InSale => counts.sales # 0) /\ (InSale' => InSale)
    BY RequestsTyped DEF QuietHost, QuietThread, InSale, SalePCs
<1>2. \A m \in seen' : m.id <= counts.sales
    BY DEF Begun, QuietHost
<1>3. reversal'.id <= counts.sales /\ sale'.id <= counts.sales
    <2>1. 0 <= counts.sales
        BY <1>1
    <2> QED BY <2>1, NothingOriginal DEF Begun, QuietRecords
<1>4. pc' \in {"clear", "send", "final"} => reversal' = NoReversal /\ reversal'.id # counts.sales
    BY <1>1, NothingOriginal DEF QuietThread, InSale, SalePCs
<1>5. InSale' => \A r \in seen' : r.kind = "reversal" => r.id # counts.sales
    <2> SUFFICES ASSUME InSale', NEW r \in seen', r.kind = "reversal"
                 PROVE  r.id # counts.sales
        OBVIOUS
    <2>1. InSale
        BY <1>1
    <2>2. CASE r \in seen
        BY <2>1, <2>2 DEF Begun
    <2>3. CASE r \notin seen
        BY <2>1, <2>3 DEF Begun, QuietHost, InSale, SalePCs
    <2> QED BY <2>2, <2>3
<1> QED BY <1>1, <1>2, <1>3, <1>4, <1>5 DEF Begun

LEMMA QuietOriginals ==
    ASSUME SInv, Begun, Originals, QuietHost, QuietRecords, QuietThread, "digits" \notin harm'
    PROVE  Originals'
<1>1. stan' <= MaxStan
    BY DEF Originals, QuietRecords
<1>2. reversal' # NoReversal => Latest(reversal'.orig, reversal'.id, seen')
    <2>1. ASSUME reversal' # NoReversal PROVE Latest(reversal'.orig, reversal'.id, seen)
        BY <2>1 DEF Originals, QuietRecords
    <2> QED BY <2>1, LatestKept DEF QuietHost
<1>3. \A r \in seen' : r.kind = "reversal" => Latest(r.orig, r.id, seen')
    <2>1. \A r \in seen' : r.kind = "reversal" => Latest(r.orig, r.id, seen)
        BY DEF Originals, QuietHost
    <2> QED BY <2>1, LatestKept DEF QuietHost
<1>4. pc' \in {"transmit", "await", "final"} \/ sale'.sent => Latest(sale'.orig, sale'.id, seen')
    <2>1. pc' \in {"transmit", "await", "final"} \/ sale'.sent => Latest(sale'.orig, sale'.id, seen)
        BY NothingOriginal DEF Originals, QuietRecords, QuietThread
    <2> QED BY <2>1, LatestKept DEF QuietHost
<1>5. Followed'
    <2>1. InSale' => counts'.attempts \in 1 .. MaxAttempts
        BY DEF Originals, Followed, QuietHost, QuietThread, InSale, SalePCs
    <2>2. ASSUME InSale', pc' # "fallback", NEW m \in seen', m.kind = "sale", m.id = sale'.id
          PROVE  m.stan \in Numbers /\ Gap(stan', m.stan) \in 1 .. 2 * Requested'
        <3>1. pc' \in {"send", "final"} /\ m \in seen /\ sale' = sale /\ stan' = stan
            BY <2>2 DEF QuietHost, QuietThread, InSale, SalePCs
        <3>2. InSale /\ pc # "fallback"
            BY <3>1 DEF QuietThread, InSale, SalePCs
        <3>3. Requested' = Requested
            BY <3>1 DEF QuietHost, QuietThread, Requested
        <3> QED BY <2>2, <3>1, <3>2, <3>3 DEF Originals, Followed
    <2> QED BY <2>1, <2>2 DEF Followed, QuietThread, Gap
<1> QED BY <1>1, <1>2, <1>3, <1>4, <1>5 DEF Originals, QuietThread

LEMMA QuietKeeps ==
    ASSUME SInv, OInv, QuietHost, QuietRecords, QuietThread
    PROVE  OInv'
<1>1. harm \cap {"unnamed", "digits"} \subseteq harm' \cap {"unnamed", "digits"}
    BY DEF QuietRecords
<1> QED BY <1>1, QuietBegun, QuietOriginals DEF OInv

QuietNext ==
    \/ NothingToClear \/ NoConnection \/ AnswerSale \/ NoAnswer \/ Fallback \/ Finish
    \/ UploadStep \/ Logon \/ KeyChange \/ PowerFail

LEMMA SetReversalQuiet ==
    ASSUME SetReversal(sale, stan), stan \in Nat
    PROVE  /\ \/ reversal' = reversal
              \/ reversal'.id = sale.id /\ reversal'.orig = sale.orig
           /\ stan' <= MaxStan \/ stan' = stan
<1>1. CASE repeat \/ reversal # NoReversal
    BY <1>1 DEF SetReversal, counter
<1>2. CASE ~(repeat \/ reversal # NoReversal)
    BY <1>2, NextStanBound DEF SetReversal, Counted
<1> QED BY <1>1, <1>2

LEMMA UploadQuiet ==
    ASSUME SInv, Begun, UploadStep
    PROVE  QuietHost /\ QuietRecords /\ QuietThread
<1>1. /\ counts.sales \in Nat /\ stan \in Nat \ {0} /\ lastRev \in Nat
      /\ Done \in Nat /\ Done <= counts.sales
    BY RequestsTyped, QueueTyped, StansNat DEF SInv, Typed, TypeOK, Done
<1>2. CASE SendReversal(IF pc = "idle" THEN "idle" ELSE "send")
    <2>1. seen' \subseteq seen \cup {ReversalMessage}
        BY <1>2 DEF SendReversal, Received, Lost, host
    <2>2. QuietHost
        BY <1>2, <2>1 DEF Begun, QuietHost, SendReversal, ReversalMessage
    <2>3. QuietRecords
        BY <1>2 DEF QuietRecords, SendReversal, counter
    <2>4. QuietThread
        BY <1>2 DEF QuietThread, SendReversal, counter, InSale, SalePCs
    <2> QED BY <2>2, <2>3, <2>4
<1>3. CASE SendRepeat(IF pc = "idle" THEN "idle" ELSE "send")
    <2>1. Head1 \in DOMAIN queue /\ queue[Head1] \in Advices /\ queue[Head1].id <= Done
        BY <1>3, HeadIsRepeat, QueueTyped DEF SendRepeat, SInv, Numbered
    <2>2. seen' \subseteq seen \cup {AdviceMessage(queue[Head1])}
        BY <1>3 DEF SendRepeat, Uploaded, Received, Lost, host
    <2>3. AdviceMessage(queue[Head1]).kind = "advice" /\ AdviceMessage(queue[Head1]).id <= counts.sales
        <3>1. queue[Head1].id \in Nat
            BY <2>1, QueueTyped
        <3> QED BY <1>1, <2>1, <3>1, AdviceMessageTyped
    <2>4. QuietHost
        BY <1>3, <2>2, <2>3 DEF QuietHost, SendRepeat
    <2>5. QuietRecords
        BY <1>3 DEF QuietRecords, SendRepeat, Uploaded, counter
    <2>6. QuietThread
        BY <1>3 DEF QuietThread, SendRepeat, Uploaded, counter, InSale, SalePCs
    <2> QED BY <2>4, <2>5, <2>6
<1>4. CASE StoreStan
    BY <1>4 DEF QuietHost, QuietRecords, QuietThread, StoreStan, counter, host
<1>5. CASE AdviceNotSent
    <2>1. stan' <= MaxStan \/ "digits" \in harm'
        BY <1>1, <1>5, StanAssumption DEF AdviceNotSent
    <2> QED BY <2>1, <1>5 DEF QuietHost, QuietRecords, QuietThread, AdviceNotSent, host
<1>6. CASE SendAdvice
    <2> DEFINE s == IF stan = lastRev THEN NextStan(stan) ELSE stan
               a == [queue[1] EXCEPT !.stan = s]
    <2>1. 1 \in DOMAIN queue /\ queue[1] \in Advices /\ queue[1].id <= Done /\ queue[1].id \in Nat
        BY <1>6, QueueTyped DEF SInv, Busy, SendAdvice, Repeats, Numbered
    <2>2. s \in Nat /\ s \in Stans
        BY <1>1, NextStanBound DEF SInv, Typed, TypeOK
    <2> HIDE DEF s
    <2>3. a \in Advices /\ a.id = queue[1].id
        BY <2>1, <2>2 DEF Advices
    <2>4. Counted(NextStan(s)) /\ (Received(AdviceMessage(a)) \/ Lost)
        BY <1>6 DEF SendAdvice, s
    <2> HIDE DEF a
    <2>5. seen' \subseteq seen \cup {AdviceMessage(a)}
        BY <2>4 DEF Received, Lost, host
    <2>6. AdviceMessage(a).kind = "advice" /\ AdviceMessage(a).id <= counts.sales
        BY <1>1, <2>1, <2>3, AdviceMessageTyped
    <2>7. stan' <= MaxStan
        BY <2>2, <2>4, NextStanBound DEF Counted
    <2>8. QuietHost
        BY <1>6, <2>5, <2>6 DEF QuietHost, SendAdvice
    <2>9. QuietRecords
        BY <1>6, <2>7 DEF QuietRecords, SendAdvice
    <2>10. QuietThread
        BY <1>6 DEF QuietThread, SendAdvice
    <2> QED BY <2>8, <2>9, <2>10
<1>7. CASE FinishAdvice
    BY <1>7 DEF QuietHost, QuietRecords, QuietThread, FinishAdvice, counter, host
<1> QED BY <1>2, <1>3, <1>4, <1>5, <1>6, <1>7 DEF UploadStep

LEMMA QuietSteps ==
    ASSUME SInv, Begun, QuietNext
    PROVE  QuietHost /\ QuietRecords /\ QuietThread
<1>1. counts.sales \in Nat /\ stan \in Nat \ {0} /\ counts \in Counts
    BY RequestsTyped DEF SInv, Typed
<1>2. CASE NothingToClear
    BY <1>2 DEF QuietHost, QuietRecords, QuietThread, NothingToClear, counter, host
<1>3. CASE NoConnection
    BY <1>3 DEF QuietHost, QuietRecords, QuietThread, NoConnection, counter, host, InSale, SalePCs
<1>4. CASE AnswerSale
    BY <1>4 DEF QuietHost, QuietRecords, QuietThread, AnswerSale, counter, host
<1>5. CASE NoAnswer
    BY <1>1, <1>5, SetReversalQuiet DEF QuietHost, QuietRecords, QuietThread, NoAnswer, host, InSale, SalePCs
<1>6. CASE Fallback
    BY <1>6 DEF QuietHost, QuietRecords, QuietThread, Fallback, counter, host
<1>7. CASE Finish
    BY <1>1, <1>7, SetReversalQuiet DEF QuietHost, QuietRecords, QuietThread, Finish, counter, host
<1>8. CASE UploadStep
    BY <1>8, UploadQuiet
<1>9. CASE Logon
    <2>1. stan' <= MaxStan
        <3>1. hostLast \in Nat
            BY StansNat DEF SInv, Typed, TypeOK
        <3>2. \A t \in Nat : NextStan(t) \in Nat /\ NextStan(t) <= MaxStan
            BY NextStanBound
        <3> QED BY <1>9, <3>1, <3>2 DEF Logon, Counted
    <2>2. counts'.sales = counts.sales /\ counts'.attempts = counts.attempts
        BY <1>1, <1>9 DEF Logon, Counts
    <2> QED BY <2>1, <2>2, <1>9 DEF QuietHost, QuietRecords, QuietThread, Logon, host
<1>10. CASE KeyChange
    <2>1. stan' <= MaxStan
        BY <1>1, <1>10, NextStanBound DEF KeyChange, Counted
    <2>2. counts'.sales = counts.sales /\ counts'.attempts = counts.attempts
        BY <1>1, <1>10 DEF KeyChange, Counts
    <2> QED BY <2>1, <2>2, <1>10 DEF QuietHost, QuietRecords, QuietThread, KeyChange
<1>11. CASE PowerFail
    <2>1. stan' <= MaxStan
        <3>1. stanFile \in 1 .. MaxStan /\ stanFile \in Nat /\ stanFile <= MaxStan
            BY StanAssumption DEF SInv, Typed, TypeOK
        <3> QED BY <1>11, <3>1, NextStanBound DEF PowerFail, Counted
    <2>2. counts'.sales = counts.sales /\ counts'.attempts = counts.attempts
        BY <1>1, <1>11 DEF PowerFail, Counts
    <2>3. QuietRecords
        BY <2>1, <1>11 DEF QuietRecords, PowerFail
    <2> QED BY <2>2, <2>3, <1>11 DEF QuietHost, QuietThread, PowerFail, host
<1> QED BY <1>2, <1>3, <1>4, <1>5, <1>6, <1>7, <1>8, <1>9, <1>10, <1>11 DEF QuietNext

-----------------------------------------------------------------------------
(* The requests themselves.                                                *)

\* the counter goes on by one, and comes round after MaxStan
LEMMA GapNext ==
    ASSUME NEW s \in Numbers, NEW x \in Numbers
    PROVE  /\ Gap(s, x) \in 0 .. MaxStan - 1
           /\ Gap(s, x) + 1 < MaxStan => Gap(NextStan(s), x) = Gap(s, x) + 1
           /\ NextStan(s) \in Numbers
<1> DEFINE N == MaxStan
<1>1. N \in Nat \ {0} /\ s \in 1 .. N /\ x \in 1 .. N
    BY StanAssumption DEF Numbers
<1>2. Gap(s, x) = (s - x) % N /\ NextStan(s) = (IF s >= N THEN 1 ELSE s + 1)
      /\ Gap(NextStan(s), x) = (NextStan(s) - x) % N
    BY DEF Gap, NextStan
<1> HIDE DEF N
<1>3. \A y \in 0 .. N - 1 : y % N = y
    BY <1>1
<1>4. \A y \in Int : -N <= y /\ y < 0 => y % N = y + N
    BY <1>1
<1>5. CASE s >= x
    <2>1. Gap(s, x) = s - x
        BY <1>1, <1>2, <1>3, <1>5
    <2>2. CASE s >= N
        BY <1>1, <1>2, <1>3, <1>4, <2>1, <2>2 DEF Numbers, N
    <2>3. CASE ~(s >= N)
        BY <1>1, <1>2, <1>3, <2>1, <2>3, <1>5 DEF Numbers, N
    <2> QED BY <2>2, <2>3
<1>6. CASE ~(s >= x)
    <2>1. Gap(s, x) = s - x + N
        BY <1>1, <1>2, <1>4, <1>6
    <2>2. NextStan(s) = s + 1
        BY <1>1, <1>2, <1>6
    <2> QED BY <1>1, <1>2, <1>3, <1>4, <1>6, <2>1, <2>2 DEF Numbers, N
<1> QED BY <1>5, <1>6

LEMMA GapTwice ==
    ASSUME NEW s \in Numbers, NEW x \in Numbers, Gap(s, x) + 2 < MaxStan
    PROVE  Gap(NextStan(NextStan(s)), x) = Gap(s, x) + 2
<1>1. MaxStan \in Nat /\ Gap(s, x) \in Nat /\ Gap(s, x) + 1 < MaxStan
    BY GapNext, StanAssumption
<1>2. NextStan(s) \in Numbers /\ Gap(NextStan(s), x) = Gap(s, x) + 1
    BY <1>1, GapNext
<1>3. Gap(NextStan(NextStan(s)), x) = Gap(NextStan(s), x) + 1
    BY <1>1, <1>2, GapNext
<1> QED BY <1>1, <1>2, <1>3

LEMMA GapSelf == \A s \in Numbers : Gap(s, s) = 0
BY StanAssumption DEF Gap, Numbers

\* what is a few numbers back is not at or after the counter
LEMMA BehindIsBefore ==
    ASSUME NEW s \in Numbers, NEW x \in Numbers, Gap(s, x) # 0, 2 * Gap(s, x) < MaxStan
    PROVE  ~AtOrAfter(x, s)
<1> DEFINE N == MaxStan
<1>1. N \in Nat \ {0} /\ s \in 1 .. N /\ x \in 1 .. N
    BY StanAssumption DEF Numbers
<1>2. Gap(s, x) = (s - x) % N /\ (AtOrAfter(x, s) <=> (x - s) % N <= N \div 2)
    BY DEF Gap, AtOrAfter
<1>3. Gap(s, x) # 0 /\ 2 * Gap(s, x) < N
    OBVIOUS
<1> HIDE DEF N
<1>4. \A y \in 0 .. N - 1 : y % N = y
    BY <1>1
<1>5. \A y \in Int : -N <= y /\ y < 0 => y % N = y + N
    BY <1>1
<1>6. N \div 2 \in Nat /\ 2 * (N \div 2) <= N
    BY <1>1
<1>7. CASE s > x
    BY <1>1, <1>2, <1>3, <1>4, <1>5, <1>6, <1>7
<1>8. CASE s <= x
    BY <1>1, <1>2, <1>3, <1>4, <1>5, <1>6, <1>8
<1> QED BY <1>1, <1>7, <1>8

LEMMA EnterPinOriginals == ASSUME AttemptsFit, SInv, OInv, EnterPin PROVE OInv'
<1>1. /\ counts.sales \in Nat /\ reversal.id \in Nat /\ MaxAttempts \in Nat /\ counts \in Counts
      /\ \A m \in seen : m.id \in Nat
    BY RequestsTyped DEF SInv, Typed
<1>2. counts'.sales = counts.sales + 1 /\ counts'.attempts = 1
    BY <1>1 DEF EnterPin, Counts
<1>3. sale' = [id |-> counts.sales + 1, stan |-> 0, orig |-> 0, sent |-> FALSE, incomplete |-> TRUE]
    BY DEF EnterPin, NoSale
<1>4. sale'.id = counts.sales + 1 /\ ~sale'.sent
    BY <1>3
<1>5. \A m \in seen : m.id <= counts.sales + 1 /\ m.id # counts.sales + 1
    BY <1>1 DEF OInv, Begun
<1>6. reversal.id <= counts.sales + 1 /\ reversal.id # counts.sales + 1
    BY <1>1 DEF OInv, Begun
<1>7. Begun'
    BY <1>1, <1>2, <1>4, <1>5, <1>6 DEF Begun, EnterPin, host
<1>8. ASSUME Originals PROVE Originals'
    <2>1. 1 \in 1 .. MaxAttempts
        BY <1>1 DEF AttemptsFit
    <2>2. Followed'
        BY <1>2, <1>4, <1>5, <2>1 DEF Followed, EnterPin, host
    <2> QED BY <1>4, <1>8, <2>2 DEF Originals, EnterPin, host, counter
<1> QED BY <1>7, <1>8 DEF OInv, EnterPin

LEMMA RetryPinOriginals == ASSUME AttemptsFit, SInv, OInv, RetryPin PROVE OInv'
<1>1. counts.sales \in Nat /\ counts.attempts \in Nat /\ MaxAttempts \in Nat /\ counts \in Counts
    BY RequestsTyped DEF SInv, Typed
<1>2. counts'.sales = counts.sales /\ counts'.attempts = counts.attempts + 1 /\ counts.attempts < MaxAttempts
    BY <1>1 DEF RetryPin, Counts
<1>3. Begun'
    BY <1>2 DEF OInv, Begun, RetryPin, InSale, SalePCs, host
<1>4. ASSUME Originals PROVE Originals'
    <2>1. Requested' = Requested
        BY <1>1, <1>2 DEF Requested, RetryPin
    <2>2. InSale /\ counts'.attempts \in 1 .. MaxAttempts
        BY <1>1, <1>2, <1>4 DEF Originals, Followed, RetryPin, InSale, SalePCs
    <2>3. Followed'
        BY <1>4, <2>1, <2>2 DEF Originals, Followed, RetryPin, InSale, host, counter
    <2> QED BY <1>4, <2>3 DEF Originals, RetryPin, host, counter
<1> QED BY <1>3, <1>4 DEF OInv, RetryPin

LEMMA CreateSaleOriginals == ASSUME AttemptsFit, SInv, OInv, CreateSale PROVE OInv'
<1> DEFINE named == [sale EXCEPT !.stan = Digits(stan),
                               !.orig = IF repeat \/ reversal # NoReversal THEN @ ELSE Digits(stan)]
<1>1. /\ counts.sales \in Nat /\ counts.attempts \in Nat /\ MaxAttempts \in Nat
      /\ sale \in Sales /\ sale.id = counts.sales /\ stan \in Nat \ {0} /\ MaxStan \in Nat \ {0}
      /\ InSale
    BY RequestsTyped DEF SInv, Typed, TypeOK, InSale, SalePCs, CreateSale
<1>2. pc = "send" /\ pc' = "transmit" /\ reversal = NoReversal /\ sale' = named
      /\ SetReversal(named, NextStan(stan)) /\ seen' = seen /\ counts' = counts
    BY DEF CreateSale, host, OInv, Begun
<1>3. named.id = sale.id /\ named.stan = Digits(stan) /\ (~repeat => named.orig = Digits(stan))
    BY <1>1, <1>2 DEF Sales
<1> HIDE DEF named
<1>4. reversal'.id <= counts.sales
    BY <1>1, <1>2, <1>3, NothingOriginal DEF SetReversal
<1>5. Begun'
    BY <1>1, <1>2, <1>3, <1>4 DEF OInv, Begun, InSale, SalePCs
<1>6. ASSUME Originals, ~repeat PROVE Originals'
    <2>1. stan \in Numbers /\ Digits(stan) = stan
        BY <1>1, <1>6 DEF Originals, Numbers, Digits
    <2>2. /\ named.stan = stan /\ named.orig = stan
          /\ reversal' = [id |-> named.id, stan |-> NextStan(stan), orig |-> stan]
          /\ stan' = NextStan(NextStan(stan))
        BY <1>2, <1>3, <1>6, <2>1 DEF SetReversal, Counted
    <2>3. counts.attempts \in 1 .. MaxAttempts /\ 4 * MaxAttempts <= MaxStan
        BY <1>1, <1>6 DEF Originals, Followed, AttemptsFit
    <2>4. 2 * (counts.attempts - 1) + 2 < MaxStan
        BY <1>1, <2>3
    <2>5. ASSUME NEW m \in seen, m.kind = "sale", m.id = sale.id
          PROVE  /\ ~AtOrAfter(m.stan, stan)
                 /\ m.stan \in Numbers /\ Gap(stan', m.stan) \in 1 .. 2 * counts.attempts
        <3>1. m.stan \in Numbers /\ Gap(stan, m.stan) \in 1 .. 2 * (counts.attempts - 1)
            BY <1>1, <1>2, <1>6, <2>5 DEF Originals, Followed, Requested
        <3>2. Gap(stan, m.stan) \in Nat /\ Gap(stan, m.stan) + 2 < MaxStan
            BY <1>1, <2>3, <2>4, <3>1
        <3>3. Gap(stan', m.stan) = Gap(stan, m.stan) + 2
            BY <1>1, <2>1, <2>2, <3>1, <3>2, GapTwice
        <3>4. 2 * Gap(stan, m.stan) < MaxStan /\ Gap(stan, m.stan) # 0
            BY <1>1, <2>3, <3>1
        <3>5. ~AtOrAfter(m.stan, stan)
            BY <2>1, <3>1, <3>4, BehindIsBefore
        <3>6. Gap(stan, m.stan) + 2 \in 1 .. 2 * counts.attempts
            BY <1>1, <2>3, <3>1
        <3> QED BY <3>1, <3>3, <3>5, <3>6
    <2>6. Gap(stan', stan) = 2
        <3>1. MaxStan >= 4
            BY <1>1, <2>3
        <3>2. Gap(stan, stan) = 0 /\ 0 + 2 < MaxStan
            BY <1>1, <2>1, <3>1, GapSelf
        <3> QED BY <2>1, <2>2, <3>2, GapTwice
    <2>7. stan' <= MaxStan
        BY <1>1, <2>1, <2>2, NextStanBound
    <2>8. Latest(stan, sale.id, seen)
        BY <2>1, <2>5 DEF Latest
    <2>9. Followed'
        BY <1>1, <1>2, <1>3, <2>2, <2>3, <2>5, <2>6 DEF Followed, Requested
    <2> QED BY <1>2, <1>3, <1>6, <2>2, <2>7, <2>8, <2>9 DEF Originals
<1>7. repeat => "unnamed" \in harm'
    BY DEF CreateSale
<1>8. harm \subseteq harm'
    BY DEF CreateSale
<1> QED BY <1>5, <1>6, <1>7, <1>8 DEF OInv

\* the host gets the request, or the line loses it
LEMMA RequestHeard ==
    ASSUME SInv, OInv, pc = "transmit", Received(SaleMessage) \/ Lost,
           counts' = counts, stan' = stan, harm' = harm, pc' \in {"await", "fallback"},
           sale'.id = sale.id, sale'.stan = sale.stan, sale'.orig = sale.orig,
           reversal' \in {reversal, NoReversal}
    PROVE  OInv'
<1>1. /\ counts.sales \in Nat /\ counts.attempts \in Nat /\ sale.id = counts.sales /\ InSale
      /\ InSale' /\ counts.sales # 0
    BY RequestsTyped DEF InSale, SalePCs
<1>2. seen' \subseteq seen \cup {SaleMessage}
    BY DEF Received, Lost, host
<1>3. SaleMessage.kind = "sale" /\ SaleMessage.id = counts.sales /\ SaleMessage.stan = sale.stan
    BY <1>1 DEF SaleMessage
<1>4. Begun'
    BY <1>1, <1>2, <1>3, NothingOriginal DEF OInv, Begun
<1>5. ASSUME Originals PROVE Originals'
    <2>1. Latest(sale.orig, sale.id, seen) /\ sale.orig = sale.stan /\ sale.stan \in Numbers
        BY <1>5 DEF Originals, Latest
    <2>2. Latest(sale.orig, sale.id, seen')
        BY <1>2, <1>3, <2>1, LatestKept
    <2>3. reversal' # NoReversal => Latest(reversal'.orig, reversal'.id, seen')
        <3>1. reversal' # NoReversal => /\ Latest(reversal'.orig, reversal'.id, seen)
                                        /\ reversal'.orig = sale.stan
            BY <1>5 DEF Originals
        <3> QED BY <1>2, <1>3, <3>1, LatestKept
    <2>4. \A r \in seen' : r.kind = "reversal" => Latest(r.orig, r.id, seen')
        <3>1. \A r \in seen' : r.kind = "reversal" => r \in seen /\ r.id # counts.sales
            BY <1>1, <1>2, <1>3 DEF OInv, Begun
        <3>2. \A r \in seen' : r.kind = "reversal" => Latest(r.orig, r.id, seen)
            BY <3>1, <1>5 DEF Originals
        <3> QED BY <1>2, <1>3, <3>1, <3>2, LatestKept
    <2>5. Followed'
        <3>1. counts.attempts \in 1 .. MaxAttempts /\ Gap(stan, sale.stan) \in 1 .. 2
            BY <1>1, <1>5 DEF Originals, Followed
        <3>2. Gap(stan, sale.stan) \in 1 .. 2 * counts.attempts
            BY <1>1, <3>1
        <3>3. Requested = counts.attempts /\ Requested' = counts.attempts
            BY DEF Requested
        <3>4. \A m \in seen : m.kind = "sale" /\ m.id = sale.id =>
                  m.stan \in Numbers /\ Gap(stan, m.stan) \in 1 .. 2 * counts.attempts
            BY <1>1, <1>5, <3>3 DEF Originals, Followed
        <3>5. \A m \in seen' : m.kind = "sale" /\ m.id = sale.id =>
                  m.stan \in Numbers /\ Gap(stan, m.stan) \in 1 .. 2 * counts.attempts
            BY <1>2, <1>3, <2>1, <3>2, <3>4
        <3> QED BY <3>1, <3>3, <3>5 DEF Followed
    <2> QED BY <1>5, <2>2, <2>3, <2>4, <2>5 DEF Originals
<1> QED BY <1>4, <1>5 DEF OInv

LEMMA TransmitOriginals == ASSUME SInv, OInv, TransmitFails \/ TransmitSale PROVE OInv'
<1>1. sale \in Sales
    BY DEF SInv, Typed, TypeOK
<1>2. CASE TransmitFails
    BY <1>2, RequestHeard DEF TransmitFails, counter
<1>3. CASE TransmitSale
    <2>1. sale'.id = sale.id /\ sale'.stan = sale.stan /\ sale'.orig = sale.orig
        BY <1>1, <1>3 DEF TransmitSale, Sales
    <2> QED BY <1>3, <2>1, RequestHeard DEF TransmitSale, counter
<1> QED BY <1>2, <1>3

LEMMA InitOriginals == Init => OInv
<1> SUFFICES ASSUME Init PROVE OInv
    OBVIOUS
<1>1. stan \in 1 .. MaxStan /\ seen = {} /\ pc = "idle" /\ counts.sales = 0 /\ sale = NoSale /\ reversal = NoReversal
    BY StanAssumption DEF Init
<1>2. stan <= MaxStan
    BY <1>1, StanAssumption
<1>3. ~InSale
    BY <1>1 DEF InSale, SalePCs
<1>4. Begun
    BY <1>1, <1>3, NothingOriginal DEF Begun
<1>5. Originals
    BY <1>1, <1>2, <1>3, NothingOriginal DEF Originals, Followed
<1> QED BY <1>4, <1>5 DEF OInv

LEMMA NextOriginals == ASSUME AttemptsFit, SInv, OInv, Next PROVE OInv'
<1>1. CASE QuietNext
    BY <1>1, QuietSteps, QuietKeeps DEF OInv
<1>2. CASE ~QuietNext
    BY <1>2, EnterPinOriginals, RetryPinOriginals, CreateSaleOriginals, TransmitOriginals
       DEF Next, SaleStep, QuietNext
<1> QED BY <1>1, <1>2

LEMMA StutterOriginals == ASSUME OInv, UNCHANGED vars PROVE OInv'
BY DEF OInv, Begun, Originals, Followed, Requested, InSale, vars

\* If the counter cannot come half round within the requests of one transaction,
\* a reversal names, as its original, the last request of it that the host may
\* have (reversal_store_original_stan, reversal_set, CompleteTxn).
THEOREM OriginalsNamed == AttemptsFit => (Spec => []ReversalNamesItsSale)
<1> SUFFICES ASSUME AttemptsFit PROVE Spec => []ReversalNamesItsSale
    OBVIOUS
<1>1. Init => SInv /\ OInv
    BY InitInv, InitOriginals
<1>2. SInv /\ OInv /\ [Next]_vars => SInv' /\ OInv'
    BY NextInv, StutterInv, NextOriginals, StutterOriginals
<1>3. SInv /\ OInv => ReversalNamesItsSale
    <2> SUFFICES ASSUME OInv, harm \cap {"unnamed", "digits"} = {},
                        NEW r \in seen, r.kind = "reversal"
                 PROVE  /\ r.orig # 0
                        /\ \A m \in seen : m.kind = "sale" /\ m.id = r.id /\ AtOrAfter(m.stan, r.orig)
                              => m.stan = r.orig
        BY DEF ReversalNamesItsSale
    <2>1. Latest(r.orig, r.id, seen)
        BY DEF OInv, Originals
    <2> QED BY <2>1 DEF Latest, Numbers
<1> QED BY <1>1, <1>2, <1>3, PTL DEF Spec

-----------------------------------------------------------------------------
(* No number is given out twice while there are numbers enough.            *)

\* the numbers a transaction may take: two for every request, one for a reversal
PerSale == 2 * (MaxAttempts + 1) + 1
SalesTake(n) == PerSale * n
Sending == pc \in {"transmit", "await", "final"}
Reserve ==
    IF pc \in {"clear", "send"} THEN 1 + 2 * (MaxAttempts + 2 - counts.attempts)
    ELSE IF Sending THEN 1 + 2 * (MaxAttempts + 1 - counts.attempts)
    ELSE 0

\* two for every advice that was taken for an upload
AdvicesTaken ==
    Done - Len(queue) + (IF Repeats = {} THEN 0 ELSE 1) - (IF pc = "advice" THEN 1 ELSE 0)

\* how many numbers there can be since the first that is remembered
Spent == SalesTake(counts.sales) - Reserve + 2 * AdvicesTaken + counts.failures
           + 2 * counts.logons + 1

\* all that can ever be: half of the numbers are enough
Total == SalesTake(MaxSales) + 2 * MaxSales + MaxFailures + 2 * MaxLogons + 1
NumbersSuffice == 2 * (Total + 4) <= MaxStan

\* x was given out, and is one of the last a numbers before s
Aged(x, s, a) == x \in Numbers /\ Gap(s, x) \in 1 .. a
Newest(x, s, heard) == \A m \in heard : Gap(s, x) <= Gap(s, m.stan)
OwnNumber(kind, id, x, heard) == \A m \in heard : m.stan = x => m.kind = kind /\ m.id = id

\* a message the host may have, and that goes again under its number
Waiting(kind, id, x, s, a, heard) ==
    Aged(x, s, a) /\ Newest(x, s, heard) /\ OwnNumber(kind, id, x, heard)

\* what the host has heard
Heard(s, a, heard, last) ==
    /\ \A m \in heard : Aged(m.stan, s, a)
    /\ Aged(last, s, a) /\ Newest(last, s, heard)
    /\ \A m, n \in heard : m.stan = n.stan => m.kind = n.kind /\ m.id = n.id

\* one message at most waits, and nothing is sent before it
Exclusive ==
    /\ reversal # NoReversal \/ sale.sent \/ pc = "send" \/ Sending => Repeats = {}
    /\ pc \in {"send", "advice", "answer"} => reversal = NoReversal
    /\ pc \in {"idle", "advice", "answer"} => ~sale.sent

Within ==
    /\ counts.attempts <= MaxAttempts + 1 /\ (InSale => counts.attempts >= 1)
    /\ counts.logons <= MaxLogons /\ counts.failures <= MaxFailures

Unique ==
    /\ stan \in Numbers
    /\ Heard(stan, Spent, seen, hostLast)
    /\ pc = "transmit" =>
          /\ Waiting("sale", sale.id, sale.stan, stan, Spent, seen)
          /\ reversal # NoReversal => Gap(stan, reversal.stan) < Gap(stan, sale.stan)
    /\ reversal # NoReversal => Waiting("reversal", reversal.id, reversal.stan, stan, Spent, seen)
    /\ pc \notin {"advice", "answer"} =>
          \A i \in Repeats : Waiting("advice", queue[i].id, queue[i].stan, stan, Spent, seen)
    /\ pc = "advice" => queue[1].stan = stan
    /\ pc = "answer" => Waiting("advice", trickle.id, trickle.stan, stan, Spent, seen)

UInv == Exclusive /\ Within /\ (harm \subseteq {"unnamed"} => Unique)

LEMMA SalesTaken ==
    /\ PerSale \in Nat
    /\ \A n \in Nat : SalesTake(n) \in Nat /\ SalesTake(n + 1) = SalesTake(n) + PerSale
    /\ \A n \in Nat : n <= MaxSales => SalesTake(n) <= SalesTake(MaxSales)
<1>1. PerSale \in Nat /\ MaxSales \in Nat
    BY StanAssumption DEF PerSale
<1>2. \A n \in Nat : SalesTake(n) = PerSale * n /\ SalesTake(n + 1) = PerSale * (n + 1)
    BY DEF SalesTake
<1>3. \A p, n, m \in Nat : n <= m => p * n <= p * m
    OBVIOUS
<1>4. \A p, n \in Nat : p * n \in Nat /\ p * (n + 1) = p * n + p
    OBVIOUS
<1> HIDE DEF SalesTake
<1> QED BY <1>1, <1>2, <1>3, <1>4 DEF SalesTake

-----------------------------------------------------------------------------
(* The counter moves, and the host hears.                                  *)

\* t comes k numbers after s
Goes(k, s, t) ==
    \/ k = 0 /\ t = s
    \/ k = 1 /\ t = NextStan(s)
    \/ k = 2 /\ t = NextStan(NextStan(s))

LEMMA GoesOn ==
    ASSUME NEW s \in Numbers, NEW k, NEW t, Goes(k, s, t)
    PROVE  /\ k \in 0 .. 2 /\ t \in Numbers
           /\ \A x \in Numbers : Gap(s, x) \in Nat /\ (Gap(s, x) + 2 < MaxStan => Gap(t, x) = Gap(s, x) + k)
<1>1. k \in 0 .. 2
    BY DEF Goes
<1>2. NextStan(s) \in Numbers /\ NextStan(NextStan(s)) \in Numbers
    BY GapNext
<1>3. t \in Numbers
    BY <1>2 DEF Goes
<1>4. ASSUME NEW x \in Numbers PROVE Gap(s, x) \in Nat /\ Gap(s, x) < MaxStan
    BY GapNext, StanAssumption
<1>5. ASSUME NEW x \in Numbers, Gap(s, x) + 2 < MaxStan PROVE Gap(t, x) = Gap(s, x) + k
    <2>1. Gap(s, x) + 1 < MaxStan
        BY <1>4, <1>5, StanAssumption
    <2>2. CASE k = 0 /\ t = s
        BY <2>2, <1>4
    <2>3. CASE k = 1 /\ t = NextStan(s)
        BY <2>1, <2>3, GapNext
    <2>4. CASE k = 2 /\ t = NextStan(NextStan(s))
        BY <1>5, <2>4, GapTwice
    <2> QED BY <2>2, <2>3, <2>4 DEF Goes
<1> QED BY <1>1, <1>3, <1>4, <1>5

\* from the number s on, x is k further behind
Shifted(x, k, s, t, b) == Gap(t, x) = Gap(s, x) + k /\ Gap(t, x) \in 1 .. b

LEMMA HeardShifts ==
    ASSUME NEW s, NEW t, NEW a, NEW b, NEW heard, NEW last, NEW k \in Int,
           Heard(s, a, heard, last), Shifted(last, k, s, t, b),
           \A m \in heard : Shifted(m.stan, k, s, t, b)
    PROVE  Heard(t, b, heard, last)
<1>1. \A m \in heard : Aged(m.stan, t, b)
    BY DEF Heard, Aged, Shifted
<1>2. Aged(last, t, b)
    BY DEF Heard, Aged, Shifted
<1>3. Newest(last, t, heard)
    <2> SUFFICES ASSUME NEW m \in heard PROVE Gap(t, last) <= Gap(t, m.stan)
        BY DEF Newest
    <2>1. Gap(s, last) \in Int /\ Gap(s, m.stan) \in Int /\ Gap(s, last) <= Gap(s, m.stan)
        BY DEF Heard, Aged, Newest
    <2>2. Gap(t, last) = Gap(s, last) + k /\ Gap(t, m.stan) = Gap(s, m.stan) + k
        BY DEF Shifted
    <2> QED BY <2>1, <2>2
<1> QED BY <1>1, <1>2, <1>3 DEF Heard

LEMMA WaitingShifts ==
    ASSUME NEW s, NEW t, NEW a, NEW b, NEW heard, NEW last, NEW k \in Int,
           Heard(s, a, heard, last), \A m \in heard : Shifted(m.stan, k, s, t, b),
           NEW kind, NEW id, NEW x, Waiting(kind, id, x, s, a, heard), Shifted(x, k, s, t, b)
    PROVE  Waiting(kind, id, x, t, b, heard)
<1>1. Aged(x, t, b)
    BY DEF Waiting, Aged, Shifted
<1>2. Newest(x, t, heard)
    <2> SUFFICES ASSUME NEW m \in heard PROVE Gap(t, x) <= Gap(t, m.stan)
        BY DEF Newest
    <2>1. Gap(s, x) \in Int /\ Gap(s, m.stan) \in Int /\ Gap(s, x) <= Gap(s, m.stan)
        BY DEF Heard, Waiting, Aged, Newest
    <2>2. Gap(t, x) = Gap(s, x) + k /\ Gap(t, m.stan) = Gap(s, m.stan) + k
        BY DEF Shifted
    <2> QED BY <2>1, <2>2
<1> QED BY <1>1, <1>2 DEF Waiting

\* a message that waits reaches the host
LEMMA HostHears ==
    ASSUME NEW s, NEW a, NEW heard, NEW last, NEW more, NEW newer, NEW m,
           Heard(s, a, heard, last), Waiting(m.kind, m.id, m.stan, s, a, heard),
           \/ more = heard \cup {m} /\ newer = (IF m \in heard THEN last ELSE m.stan)
           \/ more = heard /\ newer = last
    PROVE  Heard(s, a, more, newer) /\ Waiting(m.kind, m.id, m.stan, s, a, more)
<1>1. CASE more = heard /\ newer = last
    BY <1>1
<1>2. CASE more = heard \cup {m} /\ newer = (IF m \in heard THEN last ELSE m.stan)
    <2>1. \A n \in more : n \in heard \/ n = m
        BY <1>2
    <2>2. Aged(m.stan, s, a) /\ Gap(s, m.stan) \in Int
        BY DEF Waiting, Aged
    <2>3. \A n \in more : Aged(n.stan, s, a)
        BY <2>1, <2>2 DEF Heard
    <2>4. Aged(newer, s, a)
        BY <1>2, <2>2 DEF Heard
    <2>5. Newest(m.stan, s, more)
        BY <2>1, <2>2 DEF Waiting, Newest
    <2>6. Newest(newer, s, more)
        <3>1. CASE m \in heard
            <4>1. more = heard /\ newer = last
                BY <1>2, <3>1
            <4> QED BY <4>1 DEF Heard
        <3>2. CASE m \notin heard
            BY <1>2, <3>2, <2>5
        <3> QED BY <3>1, <3>2
    <2>7. \A n, p \in more : n.stan = p.stan => n.kind = p.kind /\ n.id = p.id
        BY <2>1 DEF Heard, Waiting, OwnNumber
    <2>8. OwnNumber(m.kind, m.id, m.stan, more)
        BY <2>1 DEF Waiting, OwnNumber
    <2> QED BY <2>2, <2>3, <2>4, <2>5, <2>6, <2>7, <2>8 DEF Heard, Waiting
<1> QED BY <1>1, <1>2

-----------------------------------------------------------------------------
(* There are numbers enough.                                               *)

LEMMA NumbersTyped ==
    ASSUME SInv
    PROVE  /\ counts.sales \in Nat /\ counts.attempts \in Nat /\ counts.logons \in Nat /\ counts.failures \in Nat
           /\ counts.sales <= MaxSales
           /\ MaxSales \in Nat /\ MaxAttempts \in Nat /\ MaxLogons \in Nat /\ MaxFailures \in Nat
           /\ MaxStan \in Nat /\ MaxStan # 0
           /\ queue \in Seq(Advices) /\ Len(queue) \in Nat /\ DOMAIN queue = 1 .. Len(queue)
           /\ Done \in Nat /\ Done <= MaxSales /\ Len(queue) <= Done
           /\ Repeats # {} => Len(queue) >= 1
<1>1. Len(queue) \in Nat /\ DOMAIN queue = 1 .. Len(queue)
    BY QueueTyped
<1>2. Repeats # {} => Len(queue) >= 1
    BY <1>1 DEF Repeats
<1> QED BY <1>1, <1>2, QueueTyped, StanAssumption DEF SInv, Typed, Counts, Numbered

LEMMA SpentBound ==
    ASSUME NumbersSuffice, SInv, Within
    PROVE  /\ Spent \in Nat /\ Spent <= Total /\ Total \in Nat /\ 2 * (Total + 4) <= MaxStan
           /\ Spent + 2 < MaxStan /\ MaxStan \in Nat
           /\ Reserve \in Nat /\ AdvicesTaken \in Int
<1>1. /\ counts.attempts \in Nat /\ counts.logons \in Nat /\ counts.failures \in Nat
      /\ MaxAttempts \in Nat /\ MaxLogons \in Nat /\ MaxFailures \in Nat
      /\ counts.attempts <= MaxAttempts + 1 /\ counts.logons <= MaxLogons /\ counts.failures <= MaxFailures
      /\ (InSale => counts.attempts >= 1)
    BY NumbersTyped DEF Within
<1>2. Reserve \in Nat /\ (InSale => Reserve <= PerSale) /\ (~InSale => Reserve = 0)
    BY <1>1 DEF Reserve, PerSale, InSale, SalePCs, Sending
<1>3. AdvicesTaken \in Int /\ AdvicesTaken <= MaxSales /\ AdvicesTaken >= 0
    <2>1. pc = "advice" => Repeats # {}
        BY DEF SInv, Busy
    <2>2. Done \in Nat /\ Done <= MaxSales /\ MaxSales \in Nat /\ Len(queue) \in Nat /\ Len(queue) <= Done
          /\ (Repeats # {} => Len(queue) >= 1)
        BY NumbersTyped
    <2> QED BY <2>1, <2>2 DEF AdvicesTaken
<1>4. /\ SalesTake(counts.sales) \in Nat /\ SalesTake(MaxSales) \in Nat
      /\ SalesTake(counts.sales) <= SalesTake(MaxSales) /\ MaxSales \in Nat
    BY NumbersTyped, SalesTaken
<1>5. Reserve <= SalesTake(counts.sales)
    <2>1. CASE InSale
        <3>1. counts.sales \in Nat /\ counts.sales - 1 \in Nat
            BY <2>1, NumbersTyped DEF SInv, Numbered
        <3>2. SalesTake(counts.sales - 1) \in Nat /\ SalesTake((counts.sales - 1) + 1) = SalesTake(counts.sales - 1) + PerSale
            BY <3>1, SalesTaken
        <3>3. (counts.sales - 1) + 1 = counts.sales
            BY <3>1
        <3> QED BY <1>2, <1>4, <2>1, <3>2, <3>3, SalesTaken
    <2>2. CASE ~InSale
        BY <1>2, <1>4, <2>2
    <2> QED BY <2>1, <2>2
<1>6. Spent \in Nat
    BY <1>1, <1>2, <1>3, <1>4, <1>5 DEF Spent
<1>7. Spent <= Total /\ Total \in Nat
    BY <1>1, <1>2, <1>3, <1>4, <1>5 DEF Spent, Total
<1>8. 2 * (Total + 4) <= MaxStan /\ MaxStan \in Nat
    BY NumbersTyped DEF NumbersSuffice
<1>9. Spent + 2 < MaxStan
    BY <1>6, <1>7, <1>8
<1> QED BY <1>2, <1>3, <1>6, <1>7, <1>8, <1>9

\* the counter goes on by k numbers that nothing was heard under
LEMMA CounterMoves ==
    ASSUME NumbersSuffice, SInv, Within, Unique, NEW k, NEW t, Goes(k, stan, t),
           NEW b \in Int, b >= Spent + k
    PROVE  /\ t \in Numbers /\ k \in 0 .. 2
           /\ Heard(t, b, seen, hostLast)
           /\ \A kind, id, x : Waiting(kind, id, x, stan, Spent, seen) => Waiting(kind, id, x, t, b, seen)
           /\ \A kind, id : k # 0 => Waiting(kind, id, stan, t, b, seen)
           /\ \A kind, id : k = 2 => Waiting(kind, id, NextStan(stan), t, b, seen)
           /\ k = 2 => Gap(t, NextStan(stan)) = 1 /\ Gap(t, stan) = 2
<1>1. /\ Spent \in Nat /\ Spent + 2 < MaxStan /\ MaxStan \in Nat
      /\ stan \in Numbers /\ Heard(stan, Spent, seen, hostLast)
    BY SpentBound DEF Unique
<1>2. /\ k \in 0 .. 2 /\ t \in Numbers
      /\ \A x \in Numbers : Gap(stan, x) \in Nat /\ (Gap(stan, x) + 2 < MaxStan => Gap(t, x) = Gap(stan, x) + k)
    BY <1>1, GoesOn
<1>3. ASSUME NEW x, Aged(x, stan, Spent) PROVE Shifted(x, k, stan, t, b)
    <2>1. x \in Numbers /\ Gap(stan, x) \in 1 .. Spent
        BY <1>3 DEF Aged
    <2>2. Gap(stan, x) + 2 < MaxStan
        BY <1>1, <2>1
    <2>3. Gap(t, x) = Gap(stan, x) + k
        BY <1>2, <2>1, <2>2
    <2>4. Gap(t, x) \in 1 .. b
        BY <1>1, <1>2, <2>1, <2>3
    <2> QED BY <2>3, <2>4 DEF Shifted
<1>4. Shifted(hostLast, k, stan, t, b) /\ \A m \in seen : Shifted(m.stan, k, stan, t, b)
    BY <1>1, <1>3 DEF Heard
<1>5. k \in Int
    BY <1>2
<1>6. Heard(t, b, seen, hostLast)
    BY <1>1, <1>4, <1>5, HeardShifts
<1>7. \A kind, id, x : Waiting(kind, id, x, stan, Spent, seen) => Waiting(kind, id, x, t, b, seen)
    <2> SUFFICES ASSUME NEW kind, NEW id, NEW x, Waiting(kind, id, x, stan, Spent, seen)
                 PROVE  Waiting(kind, id, x, t, b, seen)
        OBVIOUS
    <2>1. Shifted(x, k, stan, t, b)
        BY <1>3 DEF Waiting
    <2> QED BY <1>1, <1>4, <1>5, <2>1, WaitingShifts
<1>8. ASSUME NEW x \in Numbers, Gap(t, x) \in 1 .. k, NEW kind, NEW id
      PROVE  Waiting(kind, id, x, t, b, seen)
    <2>1. Aged(x, t, b)
        BY <1>1, <1>2, <1>8 DEF Aged
    <2>2. ASSUME NEW m \in seen PROVE Gap(t, x) < Gap(t, m.stan)
        <3>1. Gap(stan, m.stan) \in 1 .. Spent /\ Gap(t, m.stan) = Gap(stan, m.stan) + k
            BY <1>1, <1>4, <2>2 DEF Heard, Aged, Shifted
        <3> QED BY <1>1, <1>2, <1>8, <3>1
    <2>3. Newest(x, t, seen)
        <3> SUFFICES ASSUME NEW m \in seen PROVE Gap(t, x) <= Gap(t, m.stan)
            BY DEF Newest
        <3>1. Gap(t, x) < Gap(t, m.stan) /\ Gap(t, m.stan) \in Int
            BY <1>4, <2>2 DEF Shifted
        <3> QED BY <1>2, <1>8, <3>1
    <2>4. OwnNumber(kind, id, x, seen)
        <3> SUFFICES ASSUME NEW m \in seen, m.stan = x PROVE FALSE
            BY DEF OwnNumber
        <3>1. Gap(t, x) < Gap(t, x)
            BY <2>2
        <3> QED BY <1>2, <1>8, <3>1
    <2> QED BY <2>1, <2>3, <2>4 DEF Waiting
<1>9. Gap(stan, stan) = 0 /\ 0 + 2 < MaxStan
    BY <1>1, GapSelf
<1>10. Gap(t, stan) = 0 + k
    BY <1>1, <1>2, <1>9
<1>11. \A kind, id : k # 0 => Waiting(kind, id, stan, t, b, seen)
    <2>1. k # 0 => Gap(t, stan) \in 1 .. k
        BY <1>2, <1>10
    <2> QED BY <1>1, <1>8, <2>1
<1>12. k = 2 => Gap(t, NextStan(stan)) = 1
    <2> SUFFICES ASSUME k = 2 PROVE Gap(t, NextStan(stan)) = 1
        OBVIOUS
    <2>1. t = NextStan(NextStan(stan)) /\ NextStan(stan) \in Numbers
        BY <1>1, GapNext DEF Goes
    <2>2. Gap(NextStan(stan), NextStan(stan)) = 0 /\ 0 + 1 < MaxStan
        BY <1>1, <2>1, GapSelf
    <2>3. Gap(t, NextStan(stan)) = 0 + 1
        BY <2>1, <2>2, GapNext
    <2> QED BY <2>3
<1>13. \A kind, id : k = 2 => Waiting(kind, id, NextStan(stan), t, b, seen)
    <2>1. NextStan(stan) \in Numbers
        BY <1>1, GapNext
    <2>2. k = 2 => Gap(t, NextStan(stan)) \in 1 .. k
        BY <1>12
    <2> QED BY <1>8, <2>1, <2>2
<1>14. k = 2 => Gap(t, stan) = 2
    BY <1>2, <1>10
<1> QED BY <1>2, <1>6, <1>7, <1>11, <1>12, <1>13, <1>14

-----------------------------------------------------------------------------
(* The batch, and what waits in it.                                        *)

LEMMA RepeatLeaves ==
    ASSUME SInv, NEW h \in Repeats, queue' = RemoveAt(queue, h) \/ (h = 1 /\ queue' = Tail(queue))
    PROVE  Repeats' = {} /\ Len(queue') = Len(queue) - 1 /\ Repeats = {h}
<1>1. queue \in Seq(Advices) /\ h \in DOMAIN queue /\ \A i \in Repeats : i = h
    BY QueueTyped DEF Repeats, SInv, Busy
<1>2. /\ Len(queue') = Len(queue) - 1
      /\ \A i \in DOMAIN queue' : \E k \in DOMAIN queue : k # h /\ queue'[i] = queue[k]
    <2>1. CASE queue' = RemoveAt(queue, h)
        <3>1. /\ Len(queue') = Len(queue) - 1
              /\ \A i \in DOMAIN queue' : LET k == IF i < h THEN i ELSE i + 1
                                          IN k \in DOMAIN queue /\ k # h /\ queue'[i] = queue[k]
            BY <1>1, <2>1, Removed
        <3> QED BY <3>1
    <2>2. CASE h = 1 /\ queue' = Tail(queue)
        <3>1. queue # <<>>
            BY <1>1
        <3> QED BY <1>1, <2>2, <3>1, TailRemoves
    <2> QED BY <2>1, <2>2
<1>3. Repeats' = {}
    BY <1>1, <1>2 DEF Repeats
<1> QED BY <1>1, <1>2, <1>3

LEMMA FallbackBatch ==
    ASSUME SInv, Fallback
    PROVE  /\ Repeats' = Repeats /\ \A i \in Repeats : queue'[i] = queue[i]
           /\ Len(queue') = Len(queue) \/ Len(queue') = Len(queue) + 1
<1> DEFINE a == [id |-> sale.id, stan |-> sale.stan, repeat |-> FALSE]
<1>1. queue \in Seq(Advices) /\ Len(queue) \in Nat /\ DOMAIN queue = 1 .. Len(queue)
    BY QueueTyped
<1>2. a \in Advices /\ ~a.repeat
    BY DEF SInv, Typed, TypeOK, Numbered, Fallback, InSale, SalePCs, Sales, Advices, None
<1>3. queue' = queue \/ queue' = Append(queue, a)
    BY DEF Fallback
<1> HIDE DEF a
<1>4. CASE queue' = queue
    BY <1>4 DEF Repeats
<1>5. CASE queue' = Append(queue, a)
    <2>1. /\ Len(queue') = Len(queue) + 1 /\ DOMAIN queue' = 1 .. Len(queue) + 1
          /\ \A i \in DOMAIN queue' : queue'[i] = IF i \in DOMAIN queue THEN queue[i] ELSE a
        BY <1>1, <1>2, <1>5
    <2>2. DOMAIN queue \subseteq DOMAIN queue'
        BY <1>1, <2>1
    <2> QED BY <1>2, <2>1, <2>2 DEF Repeats
<1> QED BY <1>3, <1>4, <1>5

\* an advice that was sent is written back under the number it was sent with
LEMMA AnswerBatch ==
    ASSUME SInv, pc = "answer", queue' = [queue EXCEPT ![1] = trickle]
    PROVE  /\ Repeats' = {1} /\ Repeats = {1} /\ Len(queue') = Len(queue) /\ queue'[1] = trickle
<1>1. queue \in Seq(Advices) /\ 1 \in Repeats /\ trickle \in Advices /\ trickle.repeat /\ \A i \in Repeats : i = 1
    BY QueueTyped DEF SInv, Busy
<1>2. 1 \in DOMAIN queue
    BY <1>1 DEF Repeats
<1>3. DOMAIN queue' = DOMAIN queue /\ Len(queue') = Len(queue) /\ \A i \in DOMAIN queue : queue'[i] = IF i = 1 THEN trickle ELSE queue[i]
    BY <1>1, <1>2
<1> QED BY <1>1, <1>2, <1>3 DEF Repeats

\* the first of the batch is taken for an upload
LEMMA StoreBatch ==
    ASSUME SInv, StoreStan
    PROVE  Repeats = {} /\ Repeats' = {1} /\ Len(queue') = Len(queue) /\ queue'[1].stan = stan
<1>1. queue \in Seq(Advices) /\ Len(queue) \in Nat /\ DOMAIN queue = 1 .. Len(queue) /\ 1 \in DOMAIN queue
      /\ queue[1] \in Advices /\ stan \in Stans /\ Repeats = {}
    BY QueueTyped DEF StoreStan, SInv, Typed, TypeOK
<1> DEFINE a == [queue[1] EXCEPT !.repeat = TRUE, !.stan = stan]
<1>2. a \in Advices /\ a.repeat /\ a.stan = stan
    BY <1>1 DEF Advices
<1>3. queue' = [queue EXCEPT ![1] = a]
    BY <1>1 DEF StoreStan
<1> HIDE DEF a
<1>4. DOMAIN queue' = DOMAIN queue /\ Len(queue') = Len(queue) /\ \A i \in DOMAIN queue : queue'[i] = IF i = 1 THEN a ELSE queue[i]
    BY <1>1, <1>2, <1>3
<1> QED BY <1>1, <1>2, <1>4 DEF Repeats

\* the record of a repeat stays, or leaves the batch when it was answered
LEMMA SendRepeatBatch ==
    ASSUME SInv, NEW back, SendRepeat(back)
    PROVE  /\ Head1 \in DOMAIN queue /\ Repeats = {Head1} /\ queue[Head1] \in Advices
           /\ \/ Repeats' = {} /\ Len(queue') = Len(queue) - 1 /\ reversal' = NoReversal
                   /\ Received(AdviceMessage(queue[Head1])) /\ pc' = back
              \/ queue' = queue /\ Repeats' = Repeats /\ reversal' = reversal
                   /\ (Received(AdviceMessage(queue[Head1])) \/ Lost)
                   /\ pc' = IF pc = "clear" THEN "fallback" ELSE "idle"
<1>1. Head1 \in Repeats /\ Head1 \in DOMAIN queue /\ queue \in Seq(Advices) /\ queue[Head1] \in Advices
    BY HeadIsRepeat, QueueTyped DEF SendRepeat
<1>2. Repeats = {Head1}
    BY <1>1 DEF SInv, Busy
<1>3. CASE queue' = RemoveAt(queue, Head1) /\ Received(AdviceMessage(queue[Head1])) /\ reversal' = NoReversal /\ pc' = back
    BY <1>1, <1>2, <1>3, RepeatLeaves
<1>4. CASE /\ queue' = [queue EXCEPT ![Head1] = queue[Head1]] /\ reversal' = reversal
           /\ Received(AdviceMessage(queue[Head1])) \/ Lost
           /\ pc' = IF pc = "clear" THEN "fallback" ELSE "idle"
    <2>1. queue' = queue
        BY <1>1, <1>4
    <2> QED BY <1>1, <1>2, <1>4, <2>1 DEF Repeats
<1> QED BY <1>3, <1>4 DEF SendRepeat, Uploaded

LEMMA WithinKept == ASSUME SInv, Within, Next PROVE Within'
<1>1. /\ counts \in Counts /\ counts.attempts \in Nat /\ counts.logons \in Nat /\ counts.failures \in Nat
      /\ MaxAttempts \in Nat /\ MaxLogons \in Nat /\ MaxFailures \in Nat
    BY NumbersTyped DEF SInv, Typed
<1>2. CASE EnterPin
    BY <1>1, <1>2 DEF Within, EnterPin, Counts
<1>3. CASE RetryPin
    BY <1>1, <1>3 DEF Within, RetryPin, Counts
<1>4. CASE Logon \/ KeyChange
    BY <1>1, <1>4 DEF Within, Logon, KeyChange, Counts, InSale, SalePCs
<1>5. CASE PowerFail
    BY <1>1, <1>5 DEF Within, PowerFail, Counts, InSale, SalePCs
<1>6. CASE UploadStep
    <2>1. counts' = counts /\ (InSale' => InSale)
        BY <1>6 DEF UploadStep, SendReversal, SendRepeat, Uploaded, StoreStan, AdviceNotSent, SendAdvice,
                    FinishAdvice, InSale, SalePCs
    <2> QED BY <2>1 DEF Within
<1>7. CASE NothingToClear \/ NoConnection \/ CreateSale \/ TransmitFails \/ TransmitSale
             \/ AnswerSale \/ NoAnswer \/ Fallback \/ Finish
    <2>1. counts' = counts /\ (InSale' => InSale)
        BY <1>7 DEF NothingToClear, NoConnection, CreateSale, TransmitFails, TransmitSale, AnswerSale,
                    NoAnswer, Fallback, Finish, InSale, SalePCs
    <2> QED BY <2>1 DEF Within
<1> QED BY <1>2, <1>3, <1>4, <1>5, <1>6, <1>7 DEF Next, SaleStep

LEMMA ExclusiveKept == ASSUME SInv, Exclusive, Next PROVE Exclusive'
<1>1. ~NoSale.sent /\ sale \in Sales
    BY NothingOriginal DEF SInv, Typed, TypeOK
<1>2. CASE EnterPin
    <2>1. ~sale'.sent
        BY <1>2 DEF EnterPin, NoSale
    <2> QED BY <1>2, <2>1 DEF Exclusive, Sending, EnterPin, Repeats
<1>3. CASE RetryPin \/ NothingToClear \/ NoConnection \/ AnswerSale
    BY <1>3 DEF Exclusive, Sending, RetryPin, NothingToClear, NoConnection, AnswerSale, Repeats
<1>4. CASE CreateSale
    BY <1>4 DEF Exclusive, Sending, CreateSale, Repeats
<1>5. CASE TransmitFails \/ TransmitSale
    BY <1>5 DEF Exclusive, Sending, TransmitFails, TransmitSale, Repeats
<1>6. CASE NoAnswer \/ Finish
    BY <1>1, <1>6 DEF Exclusive, Sending, NoAnswer, Finish, Repeats
<1>7. CASE Fallback
    <2>1. Repeats' = Repeats
        BY <1>7, FallbackBatch
    <2> QED BY <1>1, <1>7, <2>1 DEF Exclusive, Sending, Fallback
<1>8. CASE SendReversal(IF pc = "idle" THEN "idle" ELSE "send")
    <2>1. Repeats' = {} /\ pc' \in {"idle", "fallback", "send"} /\ sale' = sale
        BY <1>8 DEF Exclusive, SendReversal, Repeats
    <2>2. pc' = "idle" => ~sale'.sent
        BY <1>8 DEF Exclusive, SendReversal
    <2>3. pc' = "send" => reversal' = NoReversal
        BY <1>8 DEF SendReversal
    <2> QED BY <2>1, <2>2, <2>3 DEF Exclusive
<1>9. CASE SendRepeat(IF pc = "idle" THEN "idle" ELSE "send")
    <2>1. Repeats # {} /\ reversal = NoReversal /\ sale' = sale
        BY <1>9 DEF SendRepeat
    <2>2. ~sale.sent
        BY <2>1 DEF Exclusive
    <2>3. reversal' = NoReversal /\ pc' \in {"idle", "fallback", "send"} /\ (pc' = "send" => Repeats' = {})
        BY <1>9, <2>1, SendRepeatBatch DEF SendRepeat
    <2> QED BY <2>1, <2>2, <2>3 DEF Exclusive, Sending
<1>10. CASE StoreStan
    BY <1>10 DEF Exclusive, Sending, StoreStan
<1>11. CASE AdviceNotSent \/ SendAdvice
    BY <1>11 DEF Exclusive, Sending, AdviceNotSent, SendAdvice
<1>12. CASE FinishAdvice
    BY <1>12 DEF Exclusive, Sending, FinishAdvice
<1>13. CASE Logon \/ KeyChange
    BY <1>13 DEF Exclusive, Sending, Logon, KeyChange, Repeats
<1>14. CASE PowerFail
    BY <1>1, <1>14 DEF Exclusive, Sending, PowerFail, Repeats
<1> QED BY <1>2, <1>3, <1>4, <1>5, <1>6, <1>7, <1>8, <1>9, <1>10, <1>11, <1>12, <1>13, <1>14
        DEF Next, SaleStep, UploadStep

LEMMA HarmGrows == ASSUME Next PROVE harm \subseteq harm'
<1>1. CASE SaleStep
    BY <1>1 DEF SaleStep, EnterPin, RetryPin, NothingToClear, NoConnection, CreateSale, TransmitFails,
                TransmitSale, AnswerSale, NoAnswer, Fallback, Finish
<1>2. CASE UploadStep
    BY <1>2 DEF UploadStep, SendReversal, SendRepeat, StoreStan, AdviceNotSent, SendAdvice, FinishAdvice
<1>3. CASE Logon \/ KeyChange \/ PowerFail
    BY <1>3 DEF Logon, KeyChange, PowerFail
<1> QED BY <1>1, <1>2, <1>3 DEF Next

-----------------------------------------------------------------------------
(* Steps that give out a number at most and deliver nothing.               *)

LEMMA MovesKeep ==
    ASSUME NumbersSuffice, SInv, Within, Unique,
           NEW k, Goes(k, stan, stan'), Spent' \in Int, Spent' >= Spent + k,
           seen' = seen, hostLast' = hostLast \/ (k # 0 /\ hostLast' = stan),
           pc' \notin {"transmit", "advice", "answer"},
           reversal' \in {reversal, NoReversal} \/ (k # 0 /\ reversal'.stan = stan),
           \A i \in Repeats' : \/ k # 0 /\ queue'[i].stan = stan
                               \/ Waiting("advice", queue'[i].id, queue'[i].stan, stan, Spent, seen)
    PROVE  Unique'
<1>1. /\ stan' \in Numbers /\ Heard(stan', Spent', seen, hostLast)
      /\ \A kind, id, x : Waiting(kind, id, x, stan, Spent, seen) => Waiting(kind, id, x, stan', Spent', seen)
      /\ \A kind, id : k # 0 => Waiting(kind, id, stan, stan', Spent', seen)
    BY CounterMoves
<1>2. Heard(stan', Spent', seen', hostLast')
    <2>1. CASE hostLast' = hostLast
        BY <1>1, <2>1
    <2>2. CASE k # 0 /\ hostLast' = stan
        <3>1. Waiting("sale", 0, stan, stan', Spent', seen)
            BY <1>1, <2>2
        <3> QED BY <1>1, <2>2, <3>1 DEF Heard, Waiting
    <2> QED BY <2>1, <2>2
<1>3. reversal' # NoReversal => Waiting("reversal", reversal'.id, reversal'.stan, stan', Spent', seen')
    <2>1. CASE reversal' \in {reversal, NoReversal}
        BY <1>1, <2>1 DEF Unique
    <2>2. CASE k # 0 /\ reversal'.stan = stan
        BY <1>1, <2>2
    <2> QED BY <2>1, <2>2
<1>4. \A i \in Repeats' : Waiting("advice", queue'[i].id, queue'[i].stan, stan', Spent', seen')
    BY <1>1
<1> QED BY <1>1, <1>2, <1>3, <1>4 DEF Unique

\* it grows with what is given out of a reserve, and with what advices, failures
\* and logons may take
LEMMA SpentGrows ==
    ASSUME SInv, counts'.sales = counts.sales, counts'.failures \in Int, counts'.logons \in Int,
           Reserve \in Int, AdvicesTaken \in Int, Reserve' \in Int, AdvicesTaken' \in Int
    PROVE  /\ Spent \in Int /\ Spent' \in Int
           /\ Spent' = Spent + (Reserve - Reserve') + 2 * (AdvicesTaken' - AdvicesTaken)
                         + (counts'.failures - counts.failures) + 2 * (counts'.logons - counts.logons)
<1>1. counts.logons \in Nat /\ counts.failures \in Nat /\ SalesTake(counts.sales) \in Nat
    BY NumbersTyped, SalesTaken
<1>2. Spent = SalesTake(counts.sales) - Reserve + 2 * AdvicesTaken + counts.failures + 2 * counts.logons + 1
    BY DEF Spent
<1>3. Spent' = SalesTake(counts.sales) - Reserve' + 2 * AdvicesTaken' + counts'.failures + 2 * counts'.logons + 1
    BY DEF Spent
<1>4. ASSUME NEW s \in Int, NEW g \in Int, NEW m \in Int, NEW x \in Int, NEW y \in Int, NEW a \in Int, NEW b \in Int,
             NEW h \in Int, NEW p \in Int
      PROVE  /\ s - y + 2 * b + h + 2 * p + 1 \in Int /\ s - x + 2 * a + g + 2 * m + 1 \in Int
             /\ s - y + 2 * b + h + 2 * p + 1
                  = (s - x + 2 * a + g + 2 * m + 1) + (x - y) + 2 * (b - a) + (h - g) + 2 * (p - m)
    BY ONLY <1>4
<1>5. /\ SalesTake(counts.sales) \in Int /\ counts.failures \in Int /\ counts.logons \in Int
      /\ Reserve \in Int /\ Reserve' \in Int /\ AdvicesTaken \in Int /\ AdvicesTaken' \in Int
      /\ counts'.failures \in Int /\ counts'.logons \in Int
    BY <1>1
<1> QED BY ONLY <1>2, <1>3, <1>4, <1>5

LEMMA SpentFrame ==
    ASSUME SInv, counts' = counts, Reserve \in Int, AdvicesTaken \in Int, NEW r \in Int, NEW n \in Int,
           Reserve' \in Int, AdvicesTaken' \in Int, Reserve' <= Reserve - r, AdvicesTaken' >= AdvicesTaken + n
    PROVE  Spent' \in Int /\ \A k \in Int : k <= r + (n + n) => Spent' >= Spent + k
<1>1. /\ counts'.sales = counts.sales /\ counts'.failures \in Int /\ counts'.logons \in Int
      /\ counts'.failures - counts.failures = 0 /\ counts'.logons - counts.logons = 0
    BY NumbersTyped
<1>2. /\ Spent \in Int /\ Spent' \in Int
      /\ Spent' = Spent + (Reserve - Reserve') + 2 * (AdvicesTaken' - AdvicesTaken)
                    + (counts'.failures - counts.failures) + 2 * (counts'.logons - counts.logons)
    BY <1>1, SpentGrows
<1>3. Spent' = Spent + (Reserve - Reserve') + 2 * (AdvicesTaken' - AdvicesTaken) + 0 + 2 * 0
    BY ONLY <1>1, <1>2
<1>4. ASSUME NEW s \in Int, NEW x \in Int, NEW y \in Int, NEW a \in Int, NEW b \in Int, y <= x - r, b >= a + n
      PROVE  \A k \in Int : k <= r + (n + n) => s + (x - y) + 2 * (b - a) + 0 + 2 * 0 >= s + k
    BY ONLY <1>4, r \in Int, n \in Int
<1>5. /\ Spent \in Int /\ Reserve \in Int /\ Reserve' \in Int /\ AdvicesTaken \in Int /\ AdvicesTaken' \in Int
      /\ Reserve' <= Reserve - r /\ AdvicesTaken' >= AdvicesTaken + n
    BY <1>2
<1>6. \A k \in Int : k <= r + (n + n) => Spent' >= Spent + k
    BY ONLY <1>3, <1>4, <1>5
<1> QED BY <1>2, <1>6

LEMMA StillUnique ==
    ASSUME NumbersSuffice, SInv, Within, Unique,
           EnterPin \/ RetryPin \/ NothingToClear \/ NoConnection \/ AnswerSale \/ Fallback
    PROVE  Unique'
<1>1. /\ counts \in Counts /\ counts.sales \in Nat /\ counts.attempts \in Nat
      /\ counts.logons \in Nat /\ counts.failures \in Nat
      /\ MaxAttempts \in Nat /\ Done \in Nat /\ Len(queue) \in Nat
      /\ counts.attempts <= MaxAttempts + 1 /\ SalesTake(counts.sales) \in Nat
    BY NumbersTyped, SalesTaken DEF SInv, Typed, Within
<1>2. Goes(0, stan, stan')
    BY DEF Goes, EnterPin, RetryPin, NothingToClear, NoConnection, AnswerSale, Fallback, counter
<1>3. /\ seen' = seen /\ hostLast' = hostLast /\ reversal' \in {reversal, NoReversal}
      /\ pc' \notin {"transmit", "advice", "answer"} /\ pc \notin {"advice", "answer"}
    BY DEF EnterPin, RetryPin, NothingToClear, NoConnection, AnswerSale, Fallback, host
<1>4. Repeats' = Repeats /\ \A i \in Repeats : queue'[i] = queue[i]
    <2>1. CASE Fallback
        BY <2>1, FallbackBatch
    <2>2. CASE ~Fallback
        BY <2>2 DEF EnterPin, RetryPin, NothingToClear, NoConnection, AnswerSale, Repeats
    <2> QED BY <2>1, <2>2
<1>5. Spent' \in Int /\ Spent' >= Spent + 0
    <2>1. CASE EnterPin
        <3>1. /\ counts'.sales = counts.sales + 1 /\ counts'.attempts = 1
              /\ counts'.logons = counts.logons /\ counts'.failures = counts.failures
            BY <1>1, <2>1 DEF EnterPin, Counts
        <3>2. SalesTake(counts'.sales) = SalesTake(counts.sales) + PerSale /\ PerSale = 2 * (MaxAttempts + 1) + 1
            BY <1>1, <3>1, SalesTaken DEF PerSale
        <3>3. Done = counts.sales /\ Done' = counts.sales /\ queue' = queue /\ pc = "idle" /\ pc' = "clear"
            BY <1>1, <2>1, <3>1 DEF Done, EnterPin, InSale, SalePCs
        <3>4. Reserve = 0 /\ Reserve' = 1 + 2 * (MaxAttempts + 2 - 1)
            BY <3>1, <3>3 DEF Reserve, Sending
        <3>5. AdvicesTaken' = AdvicesTaken /\ AdvicesTaken \in Int
            BY <1>1, <1>4, <3>3 DEF AdvicesTaken
        <3>6. Spent = SalesTake(counts.sales) - 0 + 2 * AdvicesTaken + counts.failures + 2 * counts.logons + 1
            BY <3>4 DEF Spent
        <3>7. Spent' = (SalesTake(counts.sales) + (2 * (MaxAttempts + 1) + 1)) - (1 + 2 * (MaxAttempts + 2 - 1))
                         + 2 * AdvicesTaken + counts.failures + 2 * counts.logons + 1
            BY <3>1, <3>2, <3>4, <3>5 DEF Spent
        <3>8. ASSUME NEW s \in Int, NEW a \in Int, NEW f \in Int, NEW l \in Int, NEW m \in Int
              PROVE  LET was == s - 0 + 2 * a + f + 2 * l + 1
                         is  == (s + (2 * (m + 1) + 1)) - (1 + 2 * (m + 2 - 1)) + 2 * a + f + 2 * l + 1
                     IN  is \in Int /\ is >= was + 0
            BY ONLY <3>8
        <3>9. /\ SalesTake(counts.sales) \in Int /\ AdvicesTaken \in Int
              /\ counts.failures \in Int /\ counts.logons \in Int /\ MaxAttempts \in Int
            BY <1>1, <3>5
        <3> QED BY ONLY <3>6, <3>7, <3>8, <3>9
    <2>2. CASE RetryPin
        <3>1. /\ counts'.sales = counts.sales /\ counts'.attempts = counts.attempts + 1
              /\ counts'.logons = counts.logons /\ counts'.failures = counts.failures
            BY <1>1, <2>2 DEF RetryPin, Counts
        <3>2. Done = counts.sales - 1 /\ Done' = counts.sales - 1 /\ queue' = queue /\ pc = "final" /\ pc' = "clear"
            BY <1>1, <2>2, <3>1 DEF Done, RetryPin, InSale, SalePCs
        <3>3. Reserve' = Reserve /\ Reserve \in Int
            BY <1>1, <3>1, <3>2 DEF Reserve, Sending
        <3>4. AdvicesTaken' = AdvicesTaken /\ AdvicesTaken \in Int
            BY <1>1, <1>4, <3>2 DEF AdvicesTaken
        <3>5. counts'.sales = counts.sales /\ counts'.failures \in Int /\ counts'.logons \in Int
              /\ counts'.failures - counts.failures = 0 /\ counts'.logons - counts.logons = 0
            BY <1>1, <3>1
        <3>6. /\ Spent \in Int /\ Spent' \in Int
              /\ Spent' = Spent + (Reserve - Reserve') + 2 * (AdvicesTaken' - AdvicesTaken)
                            + (counts'.failures - counts.failures) + 2 * (counts'.logons - counts.logons)
            BY <3>3, <3>4, <3>5, SpentGrows
        <3> QED BY <3>3, <3>4, <3>5, <3>6
    <2>3. CASE NothingToClear \/ NoConnection \/ AnswerSale
        <3>1. counts' = counts /\ queue' = queue /\ pc # "advice" /\ pc' # "advice" /\ (InSale' <=> InSale)
            BY <2>3 DEF NothingToClear, NoConnection, AnswerSale, InSale, SalePCs
        <3>2. \/ pc = "clear" /\ pc' \in {"send", "fallback"}
              \/ pc = "await" /\ pc' = "final"
            BY <2>3 DEF NothingToClear, NoConnection, AnswerSale
        <3>3. Reserve' \in Nat /\ Reserve \in Nat /\ Reserve' <= Reserve
            <4>1. counts'.attempts = counts.attempts
                BY <3>1
            <4>2. CASE pc = "clear" /\ pc' \in {"send", "fallback"}
                BY <1>1, <4>1, <4>2 DEF Reserve, Sending
            <4>3. CASE pc = "await" /\ pc' = "final"
                BY <1>1, <4>1, <4>3 DEF Reserve, Sending
            <4> QED BY <3>2, <4>2, <4>3
        <3>4. AdvicesTaken' = AdvicesTaken /\ AdvicesTaken \in Int
            BY <1>1, <1>4, <3>1 DEF AdvicesTaken, Done
        <3>5. Reserve' <= Reserve - 0 /\ AdvicesTaken' >= AdvicesTaken + 0 /\ 0 <= 0 + (0 + 0)
            BY <3>3, <3>4
        <3> QED BY <3>1, <3>3, <3>4, <3>5, SpentFrame
    <2>4. CASE Fallback
        <3>1. counts' = counts /\ pc = "fallback" /\ pc' = "idle" /\ Done = counts.sales - 1 /\ Done' = counts.sales
            BY <2>4 DEF Fallback, Done, InSale, SalePCs
        <3>2. Reserve' = 0 /\ Reserve = 0
            BY <3>1 DEF Reserve, Sending
        <3>3. Len(queue') = Len(queue) \/ Len(queue') = Len(queue) + 1
            BY <2>4, FallbackBatch
        <3>4. AdvicesTaken' \in Int /\ AdvicesTaken \in Int /\ AdvicesTaken' >= AdvicesTaken
            <4>1. Len(queue') \in Nat /\ Len(queue') <= Len(queue) + 1 /\ Done' = Done + 1
                BY <1>1, <3>1, <3>3
            <4>2. AdvicesTaken = Done - Len(queue) + (IF Repeats = {} THEN 0 ELSE 1) - 0
                BY <3>1 DEF AdvicesTaken
            <4>3. AdvicesTaken' = Done' - Len(queue') + (IF Repeats = {} THEN 0 ELSE 1) - 0
                BY <1>4, <3>1 DEF AdvicesTaken
            <4> QED BY <1>1, <4>1, <4>2, <4>3
        <3>5. Reserve \in Int /\ Reserve' \in Int /\ Reserve' <= Reserve - 0 /\ AdvicesTaken' >= AdvicesTaken + 0 /\ 0 <= 0 + (0 + 0)
            BY <3>2, <3>4
        <3> QED BY <3>1, <3>2, <3>4, <3>5, SpentFrame
    <2> QED BY <2>1, <2>2, <2>3, <2>4
<1>6. \A i \in Repeats' : Waiting("advice", queue'[i].id, queue'[i].stan, stan, Spent, seen)
    BY <1>3, <1>4 DEF Unique
<1> QED BY <1>2, <1>3, <1>5, <1>6, MovesKeep

LEMMA DigitsOfNumber == \A x \in Numbers : Digits(x) = x
BY StanAssumption DEF Numbers, Digits

LEMMA SpentTyped ==
    ASSUME NumbersSuffice, SInv, Within
    PROVE  /\ Reserve \in Int /\ Reserve >= 0 /\ AdvicesTaken \in Int
           /\ Done \in Int /\ Len(queue) \in Int /\ counts.sales \in Int
           /\ MaxAttempts \in Int /\ counts.attempts \in Int /\ counts.attempts <= MaxAttempts + 1
<1>1. Reserve \in Nat /\ AdvicesTaken \in Int
    BY SpentBound
<1>2. /\ Done \in Nat /\ Len(queue) \in Nat /\ counts.sales \in Nat
      /\ MaxAttempts \in Nat /\ counts.attempts \in Nat /\ counts.attempts <= MaxAttempts + 1
    BY NumbersTyped DEF Within
<1> QED BY <1>1, <1>2

\* a step of the thread that leaves the batch alone and takes no advice
LEMMA AdvicesStay ==
    ASSUME NumbersSuffice, SInv, Within, queue' = queue, counts'.sales = counts.sales,
           pc # "advice", pc' # "advice", InSale' => InSale
    PROVE  AdvicesTaken' \in Int /\ AdvicesTaken' >= AdvicesTaken + 0
<1>1. Repeats' = Repeats
    BY DEF Repeats
<1>2. Done \in Int /\ Len(queue) \in Int /\ counts.sales \in Int
    BY SpentTyped
<1>3. Done' \in Int /\ Done' >= Done
    BY <1>2 DEF Done
<1>4. AdvicesTaken = Done - Len(queue) + (IF Repeats = {} THEN 0 ELSE 1) - 0
    BY DEF AdvicesTaken
<1>5. AdvicesTaken' = Done' - Len(queue) + (IF Repeats = {} THEN 0 ELSE 1) - 0
    BY <1>1 DEF AdvicesTaken
<1> QED BY <1>2, <1>3, <1>4, <1>5

LEMMA CreateSaleUnique ==
    ASSUME NumbersSuffice, SInv, Within, Exclusive, Unique, CreateSale
    PROVE  Unique'
<1> DEFINE named == [sale EXCEPT !.stan = Digits(stan),
                               !.orig = IF repeat \/ reversal # NoReversal THEN @ ELSE Digits(stan)]
<1>1. /\ pc = "send" /\ pc' = "transmit" /\ reversal = NoReversal /\ sale' = named
      /\ SetReversal(named, NextStan(stan)) /\ seen' = seen /\ hostLast' = hostLast /\ counts' = counts
      /\ queue' = queue /\ Repeats = {} /\ Repeats' = {} /\ InSale /\ InSale'
    BY DEF CreateSale, host, Exclusive, Repeats, InSale, SalePCs
<1>2. stan \in Numbers /\ sale \in Sales
    BY DEF Unique, SInv, Typed, TypeOK
<1>3. named.id = sale.id /\ named.stan = stan
    BY <1>2, DigitsOfNumber DEF Sales
<1> HIDE DEF named
<1>4. \/ Goes(1, stan, stan') /\ reversal' = NoReversal
      \/ Goes(2, stan, stan') /\ reversal'.stan = NextStan(stan)
    BY <1>1 DEF SetReversal, Counted, counter, Goes
<1>5. Spent' \in Int /\ Spent' >= Spent + 1 /\ Spent' >= Spent + 2
    <2>1. AdvicesTaken' \in Int /\ AdvicesTaken' >= AdvicesTaken + 0 /\ Reserve \in Int /\ AdvicesTaken \in Int
        BY <1>1, AdvicesStay, SpentTyped
    <2>2. Reserve' \in Int /\ Reserve' <= Reserve - 2
        BY <1>1, SpentTyped DEF Reserve, Sending
    <2>3. counts' = counts
        BY <1>1
    <2>4. Spent' \in Int /\ \A k \in Int : k <= 2 + (0 + 0) => Spent' >= Spent + k
        BY <2>1, <2>2, <2>3, SpentFrame
    <2> QED BY <2>4
<1>6. CASE Goes(1, stan, stan') /\ reversal' = NoReversal
    <2>1. /\ stan' \in Numbers /\ Heard(stan', Spent', seen, hostLast)
          /\ Waiting("sale", sale.id, stan, stan', Spent', seen)
        BY <1>5, <1>6, CounterMoves
    <2> QED BY <1>1, <1>3, <1>6, <2>1 DEF Unique
<1>7. CASE Goes(2, stan, stan') /\ reversal'.stan = NextStan(stan)
    <2>1. /\ stan' \in Numbers /\ Heard(stan', Spent', seen, hostLast)
          /\ Waiting("sale", sale.id, stan, stan', Spent', seen)
          /\ Waiting("reversal", reversal'.id, NextStan(stan), stan', Spent', seen)
          /\ Gap(stan', NextStan(stan)) = 1 /\ Gap(stan', stan) = 2
        BY <1>5, <1>7, CounterMoves
    <2> QED BY <1>1, <1>3, <1>7, <2>1 DEF Unique
<1> QED BY <1>4, <1>6, <1>7

LEMMA SetReversalGoes ==
    ASSUME NEW s, SetReversal(s, stan)
    PROVE  \/ Goes(0, stan, stan') /\ reversal' = reversal
           \/ Goes(1, stan, stan') /\ reversal'.stan = stan
BY DEF SetReversal, Counted, counter, Goes

LEMMA ReversedUnique ==
    ASSUME NumbersSuffice, SInv, Within, Exclusive, Unique, NoAnswer \/ Finish
    PROVE  Unique'
<1>1. /\ pc \in {"await", "final"} /\ pc' \in {"fallback", "idle"}
      /\ seen' = seen /\ hostLast' = hostLast /\ counts' = counts
      /\ queue' = queue /\ Repeats = {} /\ Repeats' = {} /\ InSale
    BY DEF NoAnswer, Finish, host, Exclusive, Sending, Repeats, InSale, SalePCs
<1>2. \/ Goes(0, stan, stan') /\ reversal' = reversal
      \/ Goes(1, stan, stan') /\ reversal'.stan = stan
    BY SetReversalGoes DEF NoAnswer, Finish, Goes, counter
<1>3. Spent' \in Int /\ Spent' >= Spent + 0 /\ Spent' >= Spent + 1
    <2>1. AdvicesTaken' \in Int /\ AdvicesTaken' >= AdvicesTaken + 0 /\ Reserve \in Int /\ AdvicesTaken \in Int
        BY <1>1, AdvicesStay, SpentTyped
    <2>2. Reserve' \in Int /\ Reserve' <= Reserve - 1
        BY <1>1, SpentTyped DEF Reserve, Sending
    <2>3. Spent' \in Int /\ \A k \in Int : k <= 1 + (0 + 0) => Spent' >= Spent + k
        BY <1>1, <2>1, <2>2, SpentFrame
    <2> QED BY <2>3
<1>4. CASE Goes(0, stan, stan') /\ reversal' = reversal
    BY <1>1, <1>3, <1>4, MovesKeep
<1>5. CASE Goes(1, stan, stan') /\ reversal'.stan = stan
    BY <1>1, <1>3, <1>5, MovesKeep
<1> QED BY <1>2, <1>4, <1>5

LEMMA KeyChangeUnique ==
    ASSUME NumbersSuffice, SInv, Within, Unique, KeyChange
    PROVE  Unique'
<1>1. /\ pc = "idle" /\ pc' = "idle" /\ seen' = seen /\ hostLast' \in {stan, hostLast}
      /\ queue' = queue /\ Repeats' = Repeats /\ reversal' = reversal /\ InSale' = InSale
    BY DEF KeyChange, Repeats, InSale
<1>2. Goes(1, stan, stan')
    BY DEF KeyChange, Counted, Goes
<1>3. Spent' \in Int /\ Spent' >= Spent + 1
    <2>1. /\ counts'.sales = counts.sales /\ counts'.failures = counts.failures
          /\ counts'.logons = counts.logons + 1
          /\ counts'.failures \in Int /\ counts'.logons \in Int
          /\ counts'.failures - counts.failures = 0 /\ counts'.logons - counts.logons = 1
        BY NumbersTyped DEF KeyChange, Counts, SInv, Typed
    <2>5. counts'.sales = counts.sales /\ counts'.failures \in Int /\ counts'.logons \in Int
        BY <2>1
    <2>2. AdvicesTaken' \in Int /\ AdvicesTaken' >= AdvicesTaken + 0 /\ Reserve \in Int /\ AdvicesTaken \in Int
        BY <1>1, <2>1, AdvicesStay, SpentTyped
    <2>3. Reserve' \in Int /\ Reserve' <= Reserve - 0
        BY <1>1, SpentTyped DEF Reserve, Sending
    <2>4. /\ Spent \in Int /\ Spent' \in Int
          /\ Spent' = Spent + (Reserve - Reserve') + 2 * (AdvicesTaken' - AdvicesTaken)
                        + (counts'.failures - counts.failures) + 2 * (counts'.logons - counts.logons)
        BY <2>2, <2>3, <2>5, SpentGrows
    <2> QED BY <2>1, <2>2, <2>3, <2>4
<1>4. \A i \in Repeats' : Waiting("advice", queue'[i].id, queue'[i].stan, stan, Spent, seen)
    BY <1>1 DEF Unique
<1> QED BY <1>1, <1>2, <1>3, <1>4, MovesKeep

LEMMA PowerFailUnique ==
    ASSUME NumbersSuffice, SInv, Within, Exclusive, Unique, PowerFail, harm' \subseteq {"unnamed"}
    PROVE  Unique'
<1>1. /\ pc' = "idle" /\ seen' = seen /\ hostLast' = hostLast /\ queue' = queue /\ Repeats' = Repeats
      /\ ~InSale'
    BY DEF PowerFail, host, Repeats, InSale, SalePCs
<1>2. pc # "advice" /\ stan = stanFile /\ (pc = "answer" => trickle = queue[1])
    BY DEF PowerFail
<1>3. \/ Goes(0, stan, stan') /\ reversal' = reversal
      \/ Goes(1, stan, stan') /\ reversal'.stan = stan
    BY <1>2 DEF PowerFail, Goes, Counted
<1>4. Spent' \in Int /\ Spent' >= Spent + 0 /\ Spent' >= Spent + 1
    <2>1. /\ counts'.sales = counts.sales /\ counts'.failures = counts.failures + 1
          /\ counts'.logons = counts.logons
          /\ counts'.failures \in Int /\ counts'.logons \in Int
          /\ counts'.failures - counts.failures = 1 /\ counts'.logons - counts.logons = 0
        BY NumbersTyped DEF PowerFail, Counts, SInv, Typed
    <2>5. counts'.sales = counts.sales /\ counts'.failures \in Int /\ counts'.logons \in Int
        BY <2>1
    <2>2. AdvicesTaken' \in Int /\ AdvicesTaken' >= AdvicesTaken + 0 /\ Reserve \in Int /\ AdvicesTaken \in Int
        BY <1>1, <1>2, <2>1, AdvicesStay, SpentTyped
    <2>3. Reserve' \in Int /\ Reserve' <= Reserve - 0
        BY <1>1, SpentTyped DEF Reserve, Sending
    <2>4. /\ Spent \in Int /\ Spent' \in Int
          /\ Spent' = Spent + (Reserve - Reserve') + 2 * (AdvicesTaken' - AdvicesTaken)
                        + (counts'.failures - counts.failures) + 2 * (counts'.logons - counts.logons)
        BY <2>2, <2>3, <2>5, SpentGrows
    <2> QED BY <2>1, <2>2, <2>3, <2>4
<1>5. \A i \in Repeats : Waiting("advice", queue[i].id, queue[i].stan, stan, Spent, seen)
    <2>1. CASE pc = "answer"
        <3>1. \A i \in Repeats : i = 1
            BY <2>1 DEF SInv, Busy
        <3>2. Waiting("advice", queue[1].id, queue[1].stan, stan, Spent, seen)
            BY <1>2, <2>1 DEF Unique
        <3> QED BY <3>1, <3>2
    <2>2. CASE pc # "answer"
        BY <1>2, <2>2 DEF Unique
    <2> QED BY <2>1, <2>2
<1>6. CASE Goes(0, stan, stan') /\ reversal' = reversal
    BY <1>1, <1>4, <1>5, <1>6, MovesKeep
<1>7. CASE Goes(1, stan, stan') /\ reversal'.stan = stan
    BY <1>1, <1>4, <1>5, <1>7, MovesKeep
<1> QED BY <1>3, <1>6, <1>7

-----------------------------------------------------------------------------
(* Steps on which the host hears something.                                *)

LEMMA HearsKeep ==
    ASSUME NumbersSuffice, SInv, Within, Unique,
           stan' = stan, Spent' \in Int, Spent' >= Spent + 0,
           NEW m, Waiting(m.kind, m.id, m.stan, stan, Spent, seen), Received(m) \/ Lost,
           pc' \notin {"transmit", "advice", "answer"},
           \/ reversal' = NoReversal
           \/ /\ reversal' = reversal
              /\ reversal # NoReversal =>
                    \/ m.kind = "reversal" /\ m.id = reversal.id /\ m.stan = reversal.stan
                    \/ Gap(stan, reversal.stan) < Gap(stan, m.stan),
           \A i \in Repeats' : m.kind = "advice" /\ queue'[i].id = m.id /\ queue'[i].stan = m.stan
    PROVE  Unique'
<1>1. /\ stan \in Numbers /\ Heard(stan, Spent', seen, hostLast)
      /\ \A kind, id, x : Waiting(kind, id, x, stan, Spent, seen) => Waiting(kind, id, x, stan, Spent', seen)
    <2>1. Goes(0, stan, stan)
        BY DEF Goes
    <2> QED BY <2>1, CounterMoves
<1>2. \/ seen' = seen \cup {m} /\ hostLast' = (IF m \in seen THEN hostLast ELSE m.stan)
      \/ seen' = seen /\ hostLast' = hostLast
    BY DEF Received, Lost, host
<1>3. Waiting(m.kind, m.id, m.stan, stan, Spent', seen)
    BY <1>1
<1>4. Heard(stan, Spent', seen', hostLast') /\ Waiting(m.kind, m.id, m.stan, stan, Spent', seen')
    BY <1>1, <1>2, <1>3, HostHears
<1>5. reversal' # NoReversal => Waiting("reversal", reversal'.id, reversal'.stan, stan, Spent', seen')
    <2> SUFFICES ASSUME reversal # NoReversal, reversal' = reversal
                 PROVE  Waiting("reversal", reversal.id, reversal.stan, stan, Spent', seen')
        OBVIOUS
    <2>1. CASE m.kind = "reversal" /\ m.id = reversal.id /\ m.stan = reversal.stan
        BY <1>4, <2>1
    <2>2. CASE Gap(stan, reversal.stan) < Gap(stan, m.stan)
        <3>1. Waiting("reversal", reversal.id, reversal.stan, stan, Spent', seen)
            BY <1>1 DEF Unique
        <3>2. \A n \in seen' : n \in seen \/ n = m
            BY <1>2
        <3>3. Gap(stan, reversal.stan) \in Int /\ Gap(stan, m.stan) \in Int
            BY <1>4, <3>1 DEF Waiting, Aged
        <3>4. m.stan # reversal.stan /\ Gap(stan, reversal.stan) <= Gap(stan, m.stan)
            BY <2>2, <3>3
        <3> QED BY <3>1, <3>2, <3>4 DEF Waiting, Newest, OwnNumber
    <2> QED BY <2>1, <2>2
<1>6. \A i \in Repeats' : Waiting("advice", queue'[i].id, queue'[i].stan, stan, Spent', seen')
    BY <1>4
<1> QED BY <1>1, <1>4, <1>5, <1>6 DEF Unique

LEMMA TransmitUnique ==
    ASSUME NumbersSuffice, SInv, Within, Exclusive, Unique, TransmitFails \/ TransmitSale
    PROVE  Unique'
<1>1. /\ pc = "transmit" /\ pc' \in {"fallback", "await"} /\ stan' = stan /\ counts' = counts
      /\ queue' = queue /\ Repeats = {} /\ Repeats' = {} /\ InSale
      /\ Received(SaleMessage) \/ Lost
      /\ reversal' \in {NoReversal, reversal}
    BY DEF TransmitFails, TransmitSale, Exclusive, Sending, Repeats, InSale, SalePCs, counter
<1>2. SaleMessage.kind = "sale" /\ SaleMessage.id = sale.id /\ SaleMessage.stan = sale.stan
    BY DEF SaleMessage
<1>3. Waiting(SaleMessage.kind, SaleMessage.id, SaleMessage.stan, stan, Spent, seen)
    BY <1>1, <1>2 DEF Unique
<1>4. reversal # NoReversal => Gap(stan, reversal.stan) < Gap(stan, SaleMessage.stan)
    BY <1>1, <1>2 DEF Unique
<1>5. Spent' \in Int /\ Spent' >= Spent + 0
    <2>1. AdvicesTaken' \in Int /\ AdvicesTaken' >= AdvicesTaken + 0 /\ Reserve \in Int /\ AdvicesTaken \in Int
        BY <1>1, AdvicesStay, SpentTyped
    <2>2. Reserve' \in Int /\ Reserve' <= Reserve - 0
        BY <1>1, SpentTyped DEF Reserve, Sending
    <2>3. counts' = counts
        BY <1>1
    <2>4. Spent' \in Int /\ \A k \in Int : k <= 0 + (0 + 0) => Spent' >= Spent + k
        BY <2>1, <2>2, <2>3, SpentFrame
    <2> QED BY <2>4
<1> QED BY <1>1, <1>3, <1>4, <1>5, HearsKeep

LEMMA SendReversalUnique ==
    ASSUME NumbersSuffice, SInv, Within, Exclusive, Unique,
           SendReversal(IF pc = "idle" THEN "idle" ELSE "send")
    PROVE  Unique'
<1>1. /\ pc \in {"idle", "clear"} /\ pc' \in {"idle", "send", "fallback"} /\ (pc' = "idle" <=> pc = "idle")
      /\ stan' = stan /\ counts' = counts /\ queue' = queue /\ Repeats = {} /\ Repeats' = {}
      /\ reversal # NoReversal /\ reversal' \in {NoReversal, reversal}
      /\ Received(ReversalMessage) \/ Lost
    BY DEF SendReversal, Exclusive, Repeats, counter
<1>2. Waiting("reversal", reversal.id, reversal.stan, stan, Spent, seen) /\ reversal.stan \in Numbers
    BY <1>1 DEF Unique, Waiting, Aged
<1>3. ReversalMessage.kind = "reversal" /\ ReversalMessage.id = reversal.id /\ ReversalMessage.stan = reversal.stan
    BY <1>2, DigitsOfNumber DEF ReversalMessage
<1>4. Waiting(ReversalMessage.kind, ReversalMessage.id, ReversalMessage.stan, stan, Spent, seen)
    BY <1>2, <1>3
<1>5. Spent' \in Int /\ Spent' >= Spent + 0
    <2>1. pc # "advice" /\ pc' # "advice" /\ (InSale' => InSale)
        BY <1>1 DEF InSale, SalePCs
    <2>2. AdvicesTaken' \in Int /\ AdvicesTaken' >= AdvicesTaken + 0 /\ Reserve \in Int /\ AdvicesTaken \in Int
        BY <1>1, <2>1, AdvicesStay, SpentTyped
    <2>3. Reserve' \in Int /\ Reserve' <= Reserve - 0
        BY <1>1, SpentTyped DEF Reserve, Sending
    <2>4. counts' = counts
        BY <1>1
    <2>5. Spent' \in Int /\ \A k \in Int : k <= 0 + (0 + 0) => Spent' >= Spent + k
        BY <2>2, <2>3, <2>4, SpentFrame
    <2> QED BY <2>5
<1> QED BY <1>1, <1>3, <1>4, <1>5, HearsKeep

LEMMA SendRepeatUnique ==
    ASSUME NumbersSuffice, SInv, Within, Exclusive, Unique,
           SendRepeat(IF pc = "idle" THEN "idle" ELSE "send")
    PROVE  Unique'
<1> DEFINE a == queue[Head1]
           m == AdviceMessage(a)
<1>1. /\ pc \in {"idle", "clear"} /\ pc' \in {"idle", "send", "fallback"} /\ (pc' = "idle" <=> pc = "idle")
      /\ stan' = stan /\ counts' = counts
      /\ Repeats = {Head1} /\ a \in Advices /\ reversal' = NoReversal
      /\ Received(m) \/ Lost
      /\ \/ Repeats' = {} /\ Len(queue') = Len(queue) - 1
         \/ queue' = queue /\ Repeats' = Repeats
    BY SendRepeatBatch DEF SendRepeat, counter
<1>2. Waiting("advice", a.id, a.stan, stan, Spent, seen) /\ a.stan \in Numbers
    BY <1>1 DEF Unique, Waiting, Aged
<1>3. m.kind = "advice" /\ m.id = a.id /\ m.stan = a.stan
    BY <1>1, <1>2, DigitsOfNumber, AdviceMessageTyped
<1> HIDE DEF m
<1>4. Waiting(m.kind, m.id, m.stan, stan, Spent, seen)
    BY <1>2, <1>3
<1>5. Spent' \in Int /\ Spent' >= Spent + 0
    <2>1. Reserve \in Int /\ AdvicesTaken \in Int /\ Done \in Int /\ Len(queue) \in Int
        BY SpentTyped
    <2>2. AdvicesTaken' \in Int /\ AdvicesTaken' >= AdvicesTaken + 0
        <3>1. Done' = Done
            BY <1>1 DEF Done, InSale, SalePCs
        <3>2. AdvicesTaken = Done - Len(queue) + 1 - 0
            BY <1>1 DEF AdvicesTaken
        <3>3. AdvicesTaken' = Done - Len(queue') + (IF Repeats' = {} THEN 0 ELSE 1) - 0
            BY <1>1, <3>1 DEF AdvicesTaken
        <3>4. CASE Repeats' = {} /\ Len(queue') = Len(queue) - 1
            BY <2>1, <3>2, <3>3, <3>4
        <3>5. CASE queue' = queue /\ Repeats' = Repeats
            <4>1. Repeats' # {} /\ Len(queue') = Len(queue)
                BY <1>1, <3>5
            <4> QED BY <2>1, <3>2, <3>3, <4>1
        <3> QED BY <1>1, <3>4, <3>5
    <2>3. Reserve' \in Int /\ Reserve' <= Reserve - 0
        BY <1>1, SpentTyped DEF Reserve, Sending
    <2>4. counts' = counts
        BY <1>1
    <2>5. Spent' \in Int /\ \A k \in Int : k <= 0 + (0 + 0) => Spent' >= Spent + k
        BY <2>1, <2>2, <2>3, <2>4, SpentFrame
    <2> QED BY <2>5
<1>6. \A i \in Repeats' : m.kind = "advice" /\ queue'[i].id = m.id /\ queue'[i].stan = m.stan
    BY <1>1, <1>3
<1> QED BY <1>1, <1>4, <1>5, <1>6, HearsKeep

-----------------------------------------------------------------------------
(* The upload of an advice.                                                *)

LEMMA StoreStanUnique ==
    ASSUME NumbersSuffice, SInv, Within, Exclusive, Unique, StoreStan
    PROVE  Unique'
<1>1. /\ pc = "idle" /\ pc' = "advice" /\ stan' = stan /\ counts' = counts /\ seen' = seen /\ hostLast' = hostLast
      /\ reversal' = NoReversal
    BY DEF StoreStan, counter, host
<1>2. Repeats = {} /\ Repeats' = {1} /\ Len(queue') = Len(queue) /\ queue'[1].stan = stan
    BY StoreBatch
<1>3. Spent' \in Int /\ Spent' >= Spent + 0
    <2>1. Reserve \in Int /\ AdvicesTaken \in Int /\ Done \in Int /\ Len(queue) \in Int
        BY SpentTyped
    <2>2. Done' = Done
        BY <1>1 DEF Done, InSale, SalePCs
    <2>3. AdvicesTaken = Done - Len(queue) + 0 - 0
        BY <1>1, <1>2 DEF AdvicesTaken
    <2>4. AdvicesTaken' = Done - Len(queue) + 1 - 1
        BY <1>1, <1>2, <2>2 DEF AdvicesTaken
    <2>5. AdvicesTaken' \in Int /\ AdvicesTaken' >= AdvicesTaken + 0
        BY <2>1, <2>3, <2>4
    <2>6. Reserve' \in Int /\ Reserve' <= Reserve - 0
        BY <1>1, SpentTyped DEF Reserve, Sending
    <2>7. counts' = counts
        BY <1>1
    <2>8. Spent' \in Int /\ \A k \in Int : k <= 0 + (0 + 0) => Spent' >= Spent + k
        BY <2>1, <2>5, <2>6, <2>7, SpentFrame
    <2> QED BY <2>8
<1>4. stan' \in Numbers /\ Heard(stan', Spent', seen', hostLast')
    <2>1. Goes(0, stan, stan)
        BY DEF Goes
    <2> QED BY <1>1, <1>3, <2>1, CounterMoves
<1> QED BY <1>1, <1>2, <1>4 DEF Unique

\* an advice that was tried counts for two numbers
LEMMA AdviceTried ==
    ASSUME NumbersSuffice, SInv, Within, pc = "advice", pc' \in {"idle", "answer"},
           counts' = counts, queue' = queue
    PROVE  Spent' \in Int /\ Spent' >= Spent + 1 /\ Spent' >= Spent + 2
<1>1. Reserve \in Int /\ AdvicesTaken \in Int /\ Done \in Int /\ Len(queue) \in Int
    BY SpentTyped
<1>2. Done' = Done /\ Repeats' = Repeats
    BY DEF Done, InSale, SalePCs, Repeats
<1>3. AdvicesTaken = Done - Len(queue) + (IF Repeats = {} THEN 0 ELSE 1) - 1
    BY DEF AdvicesTaken
<1>4. AdvicesTaken' = Done - Len(queue) + (IF Repeats = {} THEN 0 ELSE 1) - 0
    BY <1>2 DEF AdvicesTaken
<1>5. AdvicesTaken' \in Int /\ AdvicesTaken' >= AdvicesTaken + 1
    BY <1>1, <1>3, <1>4
<1>6. Reserve' \in Int /\ Reserve' <= Reserve - 0
    BY SpentTyped DEF Reserve, Sending
<1>7. Spent' \in Int /\ \A k \in Int : k <= 0 + (1 + 1) => Spent' >= Spent + k
    BY <1>1, <1>5, <1>6, SpentFrame
<1> QED BY <1>7

LEMMA AdviceNotSentUnique ==
    ASSUME NumbersSuffice, SInv, Within, Exclusive, Unique, AdviceNotSent, harm' \subseteq {"unnamed"}
    PROVE  Unique'
<1>1. /\ pc = "advice" /\ pc' = "idle" /\ counts' = counts /\ seen' = seen /\ hostLast' = hostLast
      /\ queue' = queue /\ Repeats' = Repeats /\ reversal' = reversal
    BY DEF AdviceNotSent, host, Repeats
<1>2. Goes(1, stan, stan')
    BY DEF AdviceNotSent, Goes, NextStan
<1>3. Spent' \in Int /\ Spent' >= Spent + 1
    BY <1>1, AdviceTried
<1>4. \A i \in Repeats' : queue'[i].stan = stan
    <2>1. \A i \in Repeats : i = 1
        BY <1>1 DEF SInv, Busy
    <2> QED BY <1>1, <2>1 DEF Unique
<1> QED BY <1>1, <1>2, <1>3, <1>4, MovesKeep

LEMMA SendAdviceUnique ==
    ASSUME NumbersSuffice, SInv, Within, Exclusive, Unique, SendAdvice
    PROVE  Unique'
<1> DEFINE s == IF stan = lastRev THEN NextStan(stan) ELSE stan
           a == [queue[1] EXCEPT !.stan = s]
           m == AdviceMessage(a)
<1>1. /\ pc = "advice" /\ pc' = "answer" /\ counts' = counts /\ queue' = queue /\ reversal' = NoReversal
      /\ Counted(NextStan(s)) /\ (Received(m) \/ Lost) /\ trickle' = a
    BY DEF SendAdvice, Exclusive
<1>2. stan \in Numbers /\ queue[1] \in Advices
    BY QueueTyped, <1>1 DEF Unique, SInv, Busy, Repeats
<1>3. s \in Numbers
    BY <1>2, GapNext
<1>4. \/ s = stan /\ Goes(1, stan, stan')
      \/ s = NextStan(stan) /\ Goes(2, stan, stan')
    BY <1>1 DEF Counted, Goes
<1> HIDE DEF s
<1>5. a \in Advices /\ a.stan = s
    <2>1. s \in Stans
        BY <1>3, SmallStans DEF Numbers
    <2> QED BY <1>2, <2>1 DEF Advices
<1> HIDE DEF a
<1>6. m.kind = "advice" /\ m.id = a.id /\ m.stan = s
    BY <1>3, <1>5, DigitsOfNumber, AdviceMessageTyped
<1> HIDE DEF m
<1>7. Spent' \in Int /\ Spent' >= Spent + 1 /\ Spent' >= Spent + 2
    BY <1>1, AdviceTried
<1>8. /\ stan' \in Numbers /\ Heard(stan', Spent', seen, hostLast)
      /\ Waiting("advice", a.id, s, stan', Spent', seen)
    <2>1. CASE s = stan /\ Goes(1, stan, stan')
        BY <1>7, <2>1, CounterMoves
    <2>2. CASE s = NextStan(stan) /\ Goes(2, stan, stan')
        BY <1>7, <2>2, CounterMoves
    <2> QED BY <1>4, <2>1, <2>2
<1>9. \/ seen' = seen \cup {m} /\ hostLast' = (IF m \in seen THEN hostLast ELSE m.stan)
      \/ seen' = seen /\ hostLast' = hostLast
    BY <1>1 DEF Received, Lost, host
<1>10. Waiting(m.kind, m.id, m.stan, stan', Spent', seen)
    BY <1>6, <1>8
<1>11. Heard(stan', Spent', seen', hostLast') /\ Waiting(m.kind, m.id, m.stan, stan', Spent', seen')
    BY <1>8, <1>9, <1>10, HostHears
<1>12. Waiting("advice", trickle'.id, trickle'.stan, stan', Spent', seen')
    BY <1>1, <1>5, <1>6, <1>11
<1> QED BY <1>1, <1>8, <1>11, <1>12 DEF Unique

LEMMA FinishAdviceUnique ==
    ASSUME NumbersSuffice, SInv, Within, Exclusive, Unique, FinishAdvice
    PROVE  Unique'
<1>1. /\ pc = "answer" /\ pc' = "idle" /\ stan' = stan /\ counts' = counts /\ seen' = seen /\ hostLast' = hostLast
      /\ reversal' \in {NoReversal, reversal}
    BY DEF FinishAdvice, host, counter
<1>2. 1 \in Repeats /\ \A i \in Repeats : i = 1
    BY <1>1 DEF SInv, Busy
<1>3. \/ Repeats' = {} /\ Len(queue') = Len(queue) - 1
      \/ Repeats' = {1} /\ Len(queue') = Len(queue) /\ queue'[1] = trickle
    <2>1. CASE queue' = Tail(queue)
        BY <1>2, <2>1, RepeatLeaves
    <2>2. CASE queue' = [queue EXCEPT ![1] = trickle]
        BY <1>1, <2>2, AnswerBatch
    <2> QED BY <2>1, <2>2 DEF FinishAdvice
<1>4. Spent' \in Int /\ Spent' >= Spent + 0
    <2>1. Reserve \in Int /\ AdvicesTaken \in Int /\ Done \in Int /\ Len(queue) \in Int
        BY SpentTyped
    <2>2. Done' = Done
        BY <1>1 DEF Done, InSale, SalePCs
    <2>3. AdvicesTaken = Done - Len(queue) + 1 - 0
        BY <1>1, <1>2 DEF AdvicesTaken
    <2>4. AdvicesTaken' = Done - Len(queue') + (IF Repeats' = {} THEN 0 ELSE 1) - 0
        BY <1>1, <2>2 DEF AdvicesTaken
    <2>5. AdvicesTaken' \in Int /\ AdvicesTaken' >= AdvicesTaken + 0
        BY <1>3, <2>1, <2>3, <2>4
    <2>6. Reserve' \in Int /\ Reserve' <= Reserve - 0
        BY <1>1, SpentTyped DEF Reserve, Sending
    <2>7. counts' = counts
        BY <1>1
    <2>8. Spent' \in Int /\ \A k \in Int : k <= 0 + (0 + 0) => Spent' >= Spent + k
        BY <2>1, <2>5, <2>6, <2>7, SpentFrame
    <2> QED BY <2>8
<1>5. Goes(0, stan, stan')
    BY <1>1 DEF Goes
<1>6. \A i \in Repeats' : Waiting("advice", queue'[i].id, queue'[i].stan, stan, Spent, seen)
    BY <1>1, <1>3 DEF Unique
<1> QED BY <1>1, <1>4, <1>5, <1>6, MovesKeep

-----------------------------------------------------------------------------
(* A logon sets the counter back.                                          *)

LEMMA GapValue ==
    \A s, x \in Numbers : Gap(s, x) = IF s >= x THEN s - x ELSE s - x + MaxStan
<1> SUFFICES ASSUME NEW s \in Numbers, NEW x \in Numbers
             PROVE  Gap(s, x) = IF s >= x THEN s - x ELSE s - x + MaxStan
    OBVIOUS
<1> DEFINE N == MaxStan
<1>1. N \in Nat \ {0} /\ s \in 1 .. N /\ x \in 1 .. N
    BY StanAssumption DEF Numbers
<1>2. Gap(s, x) = (s - x) % N
    BY DEF Gap
<1> HIDE DEF N
<1>3. \A y \in 0 .. N - 1 : y % N = y
    BY <1>1
<1>4. \A y \in Int : -N <= y /\ y < 0 => y % N = y + N
    BY <1>1
<1>5. CASE s >= x
    BY <1>1, <1>2, <1>3, <1>5 DEF N
<1>6. CASE ~(s >= x)
    BY <1>1, <1>2, <1>4, <1>6 DEF N
<1> QED BY <1>5, <1>6

\* what the number h is behind s instead of t, every number is
LEMMA SetBack ==
    ASSUME NEW t \in Numbers, NEW s \in Numbers, NEW h \in Numbers, NEW x \in Numbers, NEW d \in Int,
           d = Gap(t, x) - Gap(t, h) + Gap(s, h), d < MaxStan, d > -MaxStan
    PROVE  /\ d >= 0 => Gap(s, x) = d
           /\ d <= 0 => Gap(x, s) = -d
<1> DEFINE N == MaxStan
<1>1. N \in Nat \ {0} /\ t \in 1 .. N /\ s \in 1 .. N /\ h \in 1 .. N /\ x \in 1 .. N
    BY StanAssumption DEF Numbers
<1>2. /\ Gap(t, x) = IF t >= x THEN t - x ELSE t - x + N
      /\ Gap(t, h) = IF t >= h THEN t - h ELSE t - h + N
      /\ Gap(s, h) = IF s >= h THEN s - h ELSE s - h + N
      /\ Gap(s, x) = IF s >= x THEN s - x ELSE s - x + N
      /\ Gap(x, s) = IF x >= s THEN x - s ELSE x - s + N
    BY GapValue
<1>3. d < N /\ d > -N /\ d \in Int /\ d = Gap(t, x) - Gap(t, h) + Gap(s, h)
    OBVIOUS
<1> HIDE DEF N
<1>4. d \in {s - x, s - x + N, s - x - N, s - x + N + N}
    BY <1>1, <1>2, <1>3
<1> QED BY <1>1, <1>2, <1>3, <1>4

LEMMA LogonUnique ==
    ASSUME NumbersSuffice, SInv, Within, Exclusive, Unique, Logon, harm' \subseteq {"unnamed"}
    PROVE  Unique'
<1>1. /\ pc = "idle" /\ pc' = "idle" /\ seen' = seen /\ hostLast' = hostLast
      /\ queue' = queue /\ Repeats' = Repeats /\ reversal' = reversal /\ InSale' = InSale
    BY DEF Logon, host, Repeats, InSale
<1>2. /\ Spent \in Nat /\ Spent <= Total /\ Total \in Nat /\ 2 * (Total + 4) <= MaxStan /\ MaxStan \in Nat
      /\ stan \in Numbers /\ Heard(stan, Spent, seen, hostLast)
      /\ hostLast \in Numbers /\ Gap(stan, hostLast) \in 1 .. Spent
    BY SpentBound DEF Unique, Heard, Aged
<1>3. Spent' \in Int /\ Spent' >= Spent + 2
    <2>1. /\ counts'.sales = counts.sales /\ counts'.failures = counts.failures
          /\ counts'.logons = counts.logons + 1
          /\ counts'.failures \in Int /\ counts'.logons \in Int
          /\ counts'.failures - counts.failures = 0 /\ counts'.logons - counts.logons = 1
        BY NumbersTyped DEF Logon, Counts, SInv, Typed
    <2>2. counts'.sales = counts.sales /\ counts'.failures \in Int /\ counts'.logons \in Int
        BY <2>1
    <2>3. AdvicesTaken' \in Int /\ AdvicesTaken' >= AdvicesTaken + 0 /\ Reserve \in Int /\ AdvicesTaken \in Int
        BY <1>1, <2>1, AdvicesStay, SpentTyped
    <2>4. Reserve' \in Int /\ Reserve' <= Reserve - 0
        BY <1>1, SpentTyped DEF Reserve, Sending
    <2>5. /\ Spent \in Int /\ Spent' \in Int
          /\ Spent' = Spent + (Reserve - Reserve') + 2 * (AdvicesTaken' - AdvicesTaken)
                        + (counts'.failures - counts.failures) + 2 * (counts'.logons - counts.logons)
        BY <2>2, <2>3, <2>4, SpentGrows
    <2> QED BY <2>1, <2>3, <2>4, <2>5
<1>4. stan' \in Numbers /\ Gap(stan', hostLast) \in 2 .. 3
    <2> DEFINE t == NextStan(NextStan(hostLast))
    <2>1. Gap(hostLast, hostLast) = 0 /\ 0 + 2 < MaxStan /\ 2 + 1 < MaxStan
        BY <1>2, GapSelf
    <2>2. t \in Numbers /\ Gap(t, hostLast) = 0 + 2
        BY <1>2, <2>1, GapNext, GapTwice
    <2>3. stan' = t \/ stan' = NextStan(t)
        BY DEF Logon, Counted
    <2> HIDE DEF t
    <2>4. NextStan(t) \in Numbers /\ Gap(NextStan(t), hostLast) = 2 + 1
        BY <1>2, <2>1, <2>2, GapNext
    <2> QED BY <2>2, <2>3, <2>4
<1> DEFINE k == Gap(stan', hostLast) - Gap(stan, hostLast)
<1>5. k \in Int /\ k <= 2 /\ k >= 2 - Spent
    BY <1>2, <1>4
<1>6. ASSUME NEW x \in Numbers, Gap(stan, x) \in 1 .. Spent,
             Gap(stan, x) >= Gap(stan, hostLast) \/ ~AtOrAfter(x, stan')
      PROVE  Shifted(x, k, stan, stan', Spent')
    <2> DEFINE d == Gap(stan, x) + k
    <2>1. /\ d \in Int /\ d <= Spent + 2 /\ d < MaxStan /\ d > -MaxStan
          /\ d = Gap(stan, x) - Gap(stan, hostLast) + Gap(stan', hostLast)
        BY <1>2, <1>4, <1>5, <1>6
    <2> HIDE DEF d
    <2>2. (d >= 0 => Gap(stan', x) = d) /\ (d <= 0 => Gap(x, stan') = -d)
        BY <1>2, <1>4, <1>6, <2>1, SetBack
    <2>3. d >= 1
        <3>1. CASE Gap(stan, x) >= Gap(stan, hostLast)
            BY <1>2, <1>4, <1>6, <2>1, <3>1
        <3>2. CASE ~AtOrAfter(x, stan')
            <4> SUFFICES ASSUME d <= 0 PROVE FALSE
                BY <2>1
            <4>1. (x - stan') % MaxStan = -d
                BY <2>2 DEF Gap
            <4>2. -d <= Spent
                BY <1>2, <1>4, <1>6, <2>1
            <4>3. \A y \in Int : 2 * y <= MaxStan => y <= MaxStan \div 2
                BY <1>2
            <4>4. -d <= MaxStan \div 2
                BY <1>2, <2>1, <4>2, <4>3
            <4> QED BY <3>2, <4>1, <4>4 DEF AtOrAfter
        <3> QED BY <1>6, <3>1, <3>2
    <2>4. Gap(stan', x) = Gap(stan, x) + k
        BY <2>1, <2>2, <2>3 DEF d
    <2>5. Gap(stan', x) \in 1 .. Spent'
        BY <1>2, <1>3, <2>1, <2>2, <2>3
    <2> QED BY <2>4, <2>5 DEF Shifted
<1>7. Shifted(hostLast, k, stan, stan', Spent') /\ \A m \in seen : Shifted(m.stan, k, stan, stan', Spent')
    <2>1. \A m \in seen : /\ m.stan \in Numbers /\ Gap(stan, m.stan) \in 1 .. Spent
                          /\ Gap(stan, hostLast) <= Gap(stan, m.stan)
        BY <1>2 DEF Heard, Aged, Newest
    <2>2. \A m \in seen : Gap(stan, m.stan) >= Gap(stan, hostLast)
        BY <1>2, <2>1
    <2>3. Gap(stan, hostLast) >= Gap(stan, hostLast)
        BY <1>2
    <2> HIDE DEF k
    <2> QED BY <1>2, <1>6, <2>1, <2>2, <2>3
<1>8. \A o \in Outstanding : ~AtOrAfter(o, stan')
    BY DEF Logon, Counted
<1> HIDE DEF k
<1>9. Heard(stan', Spent', seen, hostLast)
    BY <1>2, <1>5, <1>7, HeardShifts
<1>10. ASSUME NEW kind, NEW id, NEW x \in Outstanding, Waiting(kind, id, x, stan, Spent, seen)
       PROVE  Waiting(kind, id, x, stan', Spent', seen)
    <2>1. Shifted(x, k, stan, stan', Spent')
        BY <1>6, <1>8, <1>10 DEF Waiting, Aged
    <2> QED BY <1>2, <1>5, <1>7, <1>10, <2>1, WaitingShifts
<1>11. reversal # NoReversal => Waiting("reversal", reversal.id, reversal.stan, stan', Spent', seen)
    BY <1>10 DEF Unique, Outstanding
<1>12. \A i \in Repeats : Waiting("advice", queue[i].id, queue[i].stan, stan', Spent', seen)
    BY <1>1, <1>10 DEF Unique, Outstanding
<1> QED BY <1>1, <1>4, <1>9, <1>11, <1>12 DEF Unique

-----------------------------------------------------------------------------
(* The invariant. *)

LEMMA InitUnique == ASSUME NumbersSuffice, Init PROVE UInv
<1>1. /\ stan \in 1 .. MaxStan /\ seen = {} /\ pc = "idle" /\ reversal = NoReversal /\ sale = NoSale
      /\ queue = <<>> /\ hostLast = (IF stan = 1 THEN MaxStan ELSE stan - 1)
      /\ counts.sales = 0 /\ counts.attempts = 0 /\ counts.logons = 0 /\ counts.failures = 0
    BY StanAssumption DEF Init
<1>2. Repeats = {} /\ Done = 0 /\ Len(queue) = 0 /\ ~InSale
    BY <1>1 DEF Repeats, Done, InSale, SalePCs
<1>3. Exclusive
    BY <1>1, <1>2, NothingOriginal DEF Exclusive, Sending
<1>4. Within
    BY <1>1, <1>2, StanAssumption DEF Within
<1>5. Spent = 1
    <2>1. Reserve = 0 /\ AdvicesTaken = 0
        <3>1. Reserve = 0
            BY <1>1 DEF Reserve, Sending
        <3>2. AdvicesTaken = 0 - 0 + 0 - 0
            BY <1>1, <1>2 DEF AdvicesTaken
        <3> QED BY <3>1, <3>2
    <2>2. SalesTake(0) = 0
        BY SalesTaken DEF SalesTake
    <2> QED BY <1>1, <2>1, <2>2 DEF Spent
<1>6. stan \in Numbers /\ hostLast \in Numbers /\ Gap(stan, hostLast) = 1
    <2>1. stan \in Numbers /\ hostLast \in Numbers
        BY <1>1, StanAssumption DEF Numbers
    <2>2. Spent <= Total /\ 2 * (Total + 4) <= MaxStan /\ Total \in Nat
        BY <1>4, InitInv, SpentBound
    <2>3. Gap(stan, hostLast) = IF stan >= hostLast THEN stan - hostLast ELSE stan - hostLast + MaxStan
        BY <2>1, GapValue
    <2> QED BY <1>1, <2>1, <2>2, <2>3, StanAssumption DEF Numbers
<1>7. Unique
    BY <1>1, <1>2, <1>5, <1>6 DEF Unique, Heard, Aged, Newest
<1> QED BY <1>3, <1>4, <1>7 DEF UInv

LEMMA NextUnique == ASSUME NumbersSuffice, SInv, UInv, Next PROVE UInv'
<1>1. Within /\ Exclusive /\ Within' /\ Exclusive' /\ harm \subseteq harm'
    BY WithinKept, ExclusiveKept, HarmGrows DEF UInv
<1>2. ASSUME harm' \subseteq {"unnamed"} PROVE Unique'
    <2>1. Unique
        BY <1>1, <1>2 DEF UInv
    <2>2. CASE SaleStep
        BY <1>1, <2>1, <2>2, StillUnique, CreateSaleUnique, TransmitUnique, ReversedUnique DEF SaleStep
    <2>3. CASE UploadStep
        BY <1>1, <1>2, <2>1, <2>3, SendReversalUnique, SendRepeatUnique, StoreStanUnique, AdviceNotSentUnique,
           SendAdviceUnique, FinishAdviceUnique DEF UploadStep
    <2> QED BY <1>1, <1>2, <2>1, <2>2, <2>3, LogonUnique, KeyChangeUnique, PowerFailUnique DEF Next
<1> QED BY <1>1, <1>2 DEF UInv

LEMMA StutterUnique == ASSUME UInv, UNCHANGED vars PROVE UInv'
<1>1. /\ pc' = pc /\ sale' = sale /\ counts' = counts /\ queue' = queue /\ harm' = harm /\ seen' = seen
      /\ reversal' = reversal /\ stan' = stan /\ hostLast' = hostLast /\ trickle' = trickle
    BY DEF vars
<1>2. Repeats' = Repeats /\ Sending' = Sending /\ InSale' = InSale
    BY <1>1 DEF Repeats, Sending, InSale
<1>3. Spent' = Spent
    BY <1>1, <1>2 DEF Spent, Reserve, AdvicesTaken, Done
<1> QED BY <1>1, <1>2, <1>3 DEF UInv, Exclusive, Within, Unique

\* If all that the transactions, advices, logons and power failures can take is
\* less than half of the numbers, two messages that are not repeats of each other
\* have different ones: the reversal is numbered before its sale is sent, a 0220
\* steps over it and a logon leaves room for it (reversal_set, message_wow_220,
\* wow_process_file_data).
THEOREM NumbersUnique == NumbersSuffice => (Spec => []StanUnique)
<1> SUFFICES ASSUME NumbersSuffice PROVE Spec => []StanUnique
    OBVIOUS
<1>1. Init => SInv /\ UInv
    BY InitInv, InitUnique
<1>2. SInv /\ UInv /\ [Next]_vars => SInv' /\ UInv'
    BY NextInv, StutterInv, NextUnique, StutterUnique
<1>3. SInv /\ UInv => StanUnique
    BY DEF UInv, Unique, Heard, StanUnique
<1> QED BY <1>1, <1>2, <1>3, PTL DEF Spec
=============================================================================
