---------------------------- MODULE Wallet_proofs ----------------------------
(***************************************************************************)
(* Theorems about Wallet, for any number of queries, sessions, sales and   *)
(* power failures: what the POS is told of a sale is what the wallet did,  *)
(* and a customer is given his own number and the session he scanned.      *)
(***************************************************************************)
EXTENDS Wallet, FiniteSetTheorems, TLAPS

Tellings == {"nothing", "approved", "declined", "unanswered", "unprinted", "power fail"}
Decided == {"approved", "declined"}
Commands == {"StartSession", "RefreshQR", "Cancel", "Delete", "DigitalPayment"}
IsPayment(m) == m.cmd = "DigitalPayment"
IsRequest(m) == m = [cmd |-> m.cmd, nr |-> m.nr] /\ (m = NoMsg \/ m.cmd \in Commands)

\* what holds whatever the app and the power do: the shape of the data
Shaped ==
    /\ told \in [Sales -> Tellings]
    /\ sale = [nr |-> sale.nr, rc |-> sale.rc] /\ sale.nr \in 0 .. MaxSales
    /\ app = [doing |-> app.doing, polls |-> app.polls]
    /\ sess = [state |-> sess.state, id |-> sess.id, rewards |-> sess.rewards, nfc |-> sess.nfc]
    /\ IsRequest(req) /\ IsRequest(app.doing)

\* the sessions are numbered in order, and a code is shown once its session is open
Numbered ==
    /\ Cardinality(Sessions) \in Nat /\ Sessions = 1 .. Cardinality(Sessions)
    /\ shown \in {None} \cup Sessions
    /\ rsp.cmd = "qr" => rsp.nr \in Sessions
    /\ rsp.cmd = "rewards" => app.polls = None

\* what the place the thread is at says of the rest
Placed ==
    /\ pc \in {"pay", "receipts"} => sale.nr \in Sales
    /\ pc = "reset" => req.cmd \in {"Cancel", "Delete"}
    /\ pc = "poll" => sess.rewards = None
    /\ then \in {"idle", "poll", "tell"}

\* only sales that began are asked for, paid or told
Begun ==
    /\ IsPayment(req) => req.nr \in 1 .. sale.nr
    /\ IsPayment(app.doing) => app.doing.nr \in 1 .. sale.nr
    /\ paid \subseteq 1 .. sale.nr
    /\ \A k \in Sales : k > sale.nr => told[k] = "nothing"

\* the thread is outside the poll of a session, and goes there by a reset only
OutsidePoll ==
    \/ pc \in {"idle", "tap", "check", "tell", "pay", "receipts", "delete"}
    \/ pc = "answer" /\ (sess.rewards # None \/ ~sess.nfc)

\* no code on the screen belongs to a session the app still polls
Unscanned ==
    /\ OutsidePoll => app.polls = None \/ app.polls # shown
    /\ pc = "reset" => /\ app.doing = NoMsg \/ app.doing.cmd \in {"Cancel", "Delete"}
                       /\ rsp # NoMsg \/ app.doing # NoMsg => app.polls = None

\* an answer to the payment is the only answer there can be
Paying ==
    pc = "pay" =>
        /\ req = Msg("DigitalPayment", sale.nr)
        /\ \/ rsp = NoMsg /\ app.doing \in {NoMsg, req} /\ sale.nr \notin paid
              /\ (seen <=> app.doing = req)
           \/ /\ app.doing = NoMsg /\ seen
              /\ \/ rsp.cmd = "paid" /\ sale.nr \in paid
                 \/ rsp.cmd \in {"declined", "failed"} /\ sale.nr \notin paid

\* the code kept for the receipt is what the wallet did, and stays so
Kept ==
    pc = "receipts" =>
        \/ sale.rc = "TO"
        \/ /\ req = NoMsg /\ app.doing = NoMsg
           /\ sale.rc = "00" <=> sale.nr \in paid

\* a sale that was decided is not asked for any more
Closed ==
    /\ IsPayment(req) => told[req.nr] \notin Decided
    /\ IsPayment(app.doing) => told[app.doing.nr] \notin Decided

Told ==
    \A k \in Sales : /\ told[k] = "approved" => k \in paid
                     /\ told[k] = "declined" => k \notin paid

Known == Shaped /\ Numbered /\ Placed /\ Begun
Honest == Unscanned /\ Paying /\ Kept /\ Closed /\ Told
WInv == Known /\ (Misread \/ Honest)

-----------------------------------------------------------------------------
(* Initially, and when nothing happens. *)

LEMMA InitInv == Init => WInv
<1> SUFFICES ASSUME Init PROVE WInv
    OBVIOUS
<1>1. Shaped
    BY WalletAssumption DEF Init, Shaped, Tellings, NoSale, None, Idle, NoSession, IsRequest, NoMsg
<1>2. Sessions = {} /\ Cardinality(Sessions) = 0
    <2>1. Sessions = {}
        BY DEF Init, Sessions
    <2> QED BY <2>1, FS_EmptySet
<1>3. Numbered
    BY <1>2 DEF Init, Numbered, NoMsg, None
<1>4. Placed
    BY DEF Init, Placed
<1>5. Begun
    BY DEF Init, Begun, NoMsg, Idle, IsPayment, NoSale, None
<1>6. Honest
    <2>1. Unscanned
        BY DEF Init, Unscanned, OutsidePoll, Idle, None
    <2>2. Paying /\ Kept /\ Closed
        BY DEF Init, Paying, Kept, Closed, NoMsg, Idle, IsPayment
    <2>3. Told
        BY DEF Init, Told
    <2> QED BY <2>1, <2>2, <2>3 DEF Honest
<1> QED BY <1>1, <1>3, <1>4, <1>5, <1>6 DEF WInv, Known

LEMMA StutterInv == WInv /\ UNCHANGED vars => WInv'
BY DEF vars, WInv, Known, Honest, Shaped, Numbered, Placed, Begun, Unscanned, Paying, Kept,
    Closed, Told, Misread, OutsidePoll, IsRequest, IsPayment, Sessions

-----------------------------------------------------------------------------
(* The app. *)

LEMMA TakesStep == ASSUME WInv, AppTakes PROVE WInv'
<1> USE DEF AppTakes, bounds, terminal, pos, None
<1>1. Shaped'
    BY DEF WInv, Known, Shaped, IsRequest
<1>2. Numbered'
    BY DEF WInv, Known, Numbered, Sessions
<1>3. Placed'
    BY DEF WInv, Known, Placed
<1>4. Begun'
    BY DEF WInv, Known, Begun, IsPayment
<1>5. ASSUME ~Misread' PROVE Honest'
    <2>1. Honest
        BY <1>5 DEF WInv, Misread
    <2>2. Unscanned'
        <3>1. OutsidePoll' <=> OutsidePoll
            BY DEF OutsidePoll
        <3>2. OutsidePoll => app'.polls = None \/ app'.polls # shown'
            BY <2>1 DEF Honest, Unscanned
        <3>3. pc = "reset" => app'.polls = None /\ app'.doing.cmd \in {"Cancel", "Delete"}
            BY DEF WInv, Known, Placed
        <3> QED BY <3>1, <3>2, <3>3 DEF Unscanned
    <2>3. Paying'
        BY <2>1 DEF Honest, Paying
    <2>4. Kept'
        BY <2>1 DEF Honest, Kept
    <2>5. Closed' /\ Told'
        BY <2>1 DEF Honest, Closed, Told, IsPayment
    <2> QED BY <2>2, <2>3, <2>4, <2>5 DEF Honest
<1> QED BY <1>1, <1>2, <1>3, <1>4, <1>5 DEF WInv, Known

\* what the app may answer to what it was asked
LEMMA OutcomeOf ==
    ASSUME NEW m, IsRequest(m), m # NoMsg, NEW a \in Outcomes(m)
    PROVE /\ a.cmd \notin {"none", "rewards"}
          /\ a.cmd = "qr" => m.cmd = "StartSession" /\ a.nr = Cardinality(Sessions) + 1
          /\ a.cmd = "paid" => m.cmd = "DigitalPayment" /\ a.nr = m.nr
          /\ m.cmd = "DigitalPayment" => a.cmd \in {"paid", "declined", "failed"}
<1>1. m.cmd \in Commands
    BY DEF IsRequest
<1>2. CASE m.cmd = "StartSession"
    BY <1>2 DEF Outcomes, Msg, None
<1>3. CASE m.cmd = "RefreshQR"
    BY <1>3 DEF Outcomes, Msg, None
<1>4. CASE m.cmd \in {"Cancel", "Delete"}
    BY <1>4 DEF Outcomes, Msg, None
<1>5. CASE m.cmd = "DigitalPayment"
    BY <1>5 DEF Outcomes, Msg, None
<1> QED BY <1>1, <1>2, <1>3, <1>4, <1>5 DEF Commands

LEMMA AnswersStep == ASSUME WInv, AppAnswers PROVE WInv'
<1> USE DEF bounds, terminal, pos, None
<1>1. PICK a \in Outcomes(app.doing) :
        /\ rsp' = a
        /\ app' = [doing |-> NoMsg, polls |-> IF a.cmd = "qr" THEN a.nr ELSE app.polls]
        /\ opened' = IF a.cmd = "qr"
                     THEN [n \in Sessions \cup {a.nr} |->
                            IF n = a.nr THEN app.doing.nr ELSE opened[n]]
                     ELSE opened
        /\ paid' = IF a.cmd = "paid" THEN paid \cup {a.nr} ELSE paid
    BY DEF AppAnswers
<1>2. /\ app.doing # NoMsg
      /\ UNCHANGED <<req, seen, shown, sess, pc, then, sale, told, harm>>
    BY DEF AppAnswers
<1>3. /\ a.cmd \notin {"none", "rewards"}
      /\ a.cmd = "qr" => app.doing.cmd = "StartSession" /\ a.nr = Cardinality(Sessions) + 1
      /\ a.cmd = "paid" => app.doing.cmd = "DigitalPayment" /\ a.nr = app.doing.nr
      /\ app.doing.cmd = "DigitalPayment" => a.cmd \in {"paid", "declined", "failed"}
    BY <1>2, OutcomeOf DEF WInv, Known, Shaped
<1>4. Shaped'
    BY <1>1, <1>2 DEF WInv, Known, Shaped, IsRequest, NoMsg
<1>5. Numbered' /\ (a.cmd = "qr" => a.nr \notin Sessions)
    <2> DEFINE n == Cardinality(Sessions)
    <2>1. n \in Nat /\ Sessions = 1 .. n /\ shown \in {None} \cup Sessions
        BY DEF WInv, Known, Numbered
    <2>2. CASE a.cmd = "qr"
        <3>1. Sessions' = 1 .. n + 1 /\ n + 1 \notin Sessions
            BY <1>1, <1>3, <2>1, <2>2 DEF Sessions
        <3>2. Cardinality(1 .. n + 1) = n + 1
            BY <2>1, FS_Interval
        <3> QED BY <1>1, <1>2, <1>3, <2>1, <2>2, <3>1, <3>2 DEF Numbered
    <2>3. CASE a.cmd # "qr"
        BY <1>1, <1>2, <1>3, <2>1, <2>3 DEF Numbered, Sessions
    <2> QED BY <2>2, <2>3
<1>6. Placed'
    BY <1>1, <1>2 DEF WInv, Known, Placed
<1>7. Begun'
    BY <1>1, <1>2, <1>3 DEF WInv, Known, Begun, IsPayment, NoMsg
<1>8. ASSUME ~Misread' PROVE Honest'
    <2>1. Honest
        BY <1>2, <1>8 DEF WInv, Misread
    <2>2. Unscanned'
        <3>1. OutsidePoll' <=> OutsidePoll
            BY <1>2 DEF OutsidePoll
        <3>2. OutsidePoll => app'.polls = None \/ app'.polls # shown'
            BY <1>1, <1>2, <1>3, <1>5, <2>1 DEF Honest, Unscanned, WInv, Known, Numbered
        <3>3. pc = "reset" => app'.polls = None
            BY <1>1, <1>2, <1>3, <2>1 DEF Honest, Unscanned
        <3> QED BY <1>1, <1>2, <3>1, <3>2, <3>3 DEF Unscanned
    <2>3. Paying'
        <3> SUFFICES ASSUME pc = "pay" PROVE Paying'
            BY <1>2 DEF Paying
        <3>1. req = Msg("DigitalPayment", sale.nr) /\ app.doing = req /\ sale.nr \notin paid /\ seen
            BY <1>2, <2>1 DEF Honest, Paying
        <3> QED BY <1>1, <1>2, <1>3, <3>1 DEF Paying, Msg
    <2>4. Kept'
        BY <1>2, <2>1 DEF Honest, Kept
    <2>5. Closed'
        BY <1>1, <1>2, <2>1 DEF Honest, Closed, IsPayment, NoMsg
    <2>6. Told'
        BY <1>1, <1>2, <1>3, <2>1 DEF Honest, Told, Closed, IsPayment, Decided
    <2> QED BY <2>2, <2>3, <2>4, <2>5, <2>6 DEF Honest
<1> QED BY <1>4, <1>5, <1>6, <1>7, <1>8 DEF WInv, Known

LEMMA ScansStep == ASSUME WInv, AppScans PROVE WInv'
<1> USE DEF AppScans, bounds, terminal, pos, None
<1>1. Shaped'
    BY DEF WInv, Known, Shaped, IsRequest
<1>2. Numbered'
    BY DEF WInv, Known, Numbered, Sessions, Msg, Shaped
<1>3. Placed' /\ Begun'
    BY DEF WInv, Known, Placed, Begun, IsPayment, Shaped
<1>4. ASSUME ~Misread' PROVE Honest'
    <2>1. Honest
        BY <1>4 DEF WInv, Misread
    <2>2. ~OutsidePoll
        BY <2>1 DEF Honest, Unscanned
    <2>3. Unscanned'
        BY <2>1 DEF Honest, Unscanned, WInv, Known, Shaped
    <2>4. pc \notin {"pay", "receipts"}
        BY <2>2 DEF OutsidePoll
    <2>5. Paying' /\ Kept'
        BY <2>4 DEF Paying, Kept
    <2>6. Closed' /\ Told'
        BY <2>1 DEF Honest, Closed, Told, IsPayment, WInv, Known, Shaped
    <2> QED BY <2>3, <2>5, <2>6 DEF Honest
<1> QED BY <1>1, <1>2, <1>3, <1>4 DEF WInv, Known

-----------------------------------------------------------------------------
(* A session is reset: the app is asked to end it, and the thread waits.    *)

LEMMA ResetStep ==
    ASSUME WInv, NEW delete, NEW next \in {"idle", "poll", "tell"},
           ResetSession(sess, delete, next),
           UNCHANGED <<wallet, shown, sale, told>>
    PROVE  WInv'
<1> USE DEF wallet, None
<1>1. PICK m \in {Msg("Delete", sess.id), Msg("Cancel", 0)} : Written(m)
    BY DEF ResetSession, Ask
<1>2. pc' = "reset" /\ then' = next /\ sess' = [sess EXCEPT !.state = "idle"]
    BY DEF ResetSession
<1>3. /\ rsp' = NoMsg /\ req' = m /\ seen' = FALSE
      /\ m.cmd \in {"Cancel", "Delete"} /\ m = [cmd |-> m.cmd, nr |-> m.nr]
      /\ Misread \/ app.doing # NoMsg => Misread'
    BY <1>1 DEF Written, Msg, Misread
<1>4. Shaped'
    BY <1>2, <1>3 DEF WInv, Known, Shaped, IsRequest, Commands
<1>5. Numbered'
    BY <1>3 DEF WInv, Known, Numbered, Sessions, NoMsg
<1>6. Placed' /\ Begun'
    BY <1>2, <1>3 DEF WInv, Known, Placed, Begun, IsPayment
<1>7. ASSUME ~Misread' PROVE Honest'
    <2>1. Honest /\ app.doing = NoMsg
        BY <1>3, <1>7 DEF WInv
    <2>2. Unscanned' /\ Paying' /\ Kept'
        BY <1>2, <1>3, <2>1 DEF Unscanned, OutsidePoll, Paying, Kept
    <2>3. Closed' /\ Told'
        BY <1>3, <2>1 DEF Honest, Closed, Told, IsPayment, NoMsg
    <2> QED BY <2>2, <2>3 DEF Honest
<1> QED BY <1>4, <1>5, <1>6, <1>7 DEF WInv, Known

\* the actions that are nothing but such a reset
LEMMA ResetSteps ==
    ASSUME WInv,
           \/ \E kind \in {"qr", "nfc"} : BeginQuery(kind)
           \/ QrInvalid \/ QrTimesOut \/ RewardsFailed
           \/ pc = "poll" /\ PosEvent
           \/ sess.rewards = None /\ sess.nfc /\ CheckPaymentSession
           \/ CheckEnds \/ PayWithCard \/ RemoveCommand
    PROVE  WInv'
<1>1. UNCHANGED <<wallet, shown, sale, told>>
    BY DEF BeginQuery, QrInvalid, QrTimesOut, RewardsFailed, PosEvent, CheckPaymentSession,
           CheckEnds, PayWithCard, RemoveCommand, pos
<1>2. \E delete \in BOOLEAN, next \in {"idle", "poll", "tell"} : ResetSession(sess, delete, next)
    BY DEF BeginQuery, QrInvalid, QrTimesOut, RewardsFailed, PosEvent, CheckPaymentSession,
           CheckEnds, PayWithCard, RemoveCommand, SessionFails
<1> QED BY <1>1, <1>2, ResetStep

LEMMA FinishStep == ASSUME WInv, FinishSale PROVE WInv'
<1> USE DEF wallet, None
<1>1. PICK printed \in BOOLEAN :
        told' = [told EXCEPT ![sale.nr] =
                    CASE sale.rc = "TO" -> "unanswered"
                      [] sale.rc = "00" /\ ~printed -> "unprinted"
                      [] sale.rc = "00" /\ printed -> "approved"
                      [] OTHER -> "declined"]
    BY DEF FinishSale
<1>2. /\ rsp' = NoMsg /\ req' = Msg("Cancel", 0) /\ seen' = FALSE
      /\ Misread \/ app.doing # NoMsg => Misread'
      /\ pc = "receipts" /\ pc' = "reset" /\ then' = "idle"
      /\ sess' = [sess EXCEPT !.state = "idle"]
      /\ UNCHANGED <<app, opened, paid, shown, sale>>
    BY DEF FinishSale, ResetSession, Ask, Written, Misread
<1>3. /\ told \in [Sales -> Tellings] /\ sale.nr \in Sales
      /\ \A k \in Sales \ {sale.nr} : told'[k] = told[k]
    BY <1>1, <1>2 DEF WInv, Known, Shaped, Placed
<1>4. /\ told' \in [Sales -> Tellings]
      /\ told'[sale.nr] = "approved" => sale.rc = "00"
      /\ told'[sale.nr] = "declined" => sale.rc # "00" /\ sale.rc # "TO"
    BY <1>1, <1>3 DEF Tellings
<1>5. Shaped'
    BY <1>2, <1>4 DEF WInv, Known, Shaped, IsRequest, Commands, Msg
<1>6. Numbered' /\ Placed'
    BY <1>2 DEF WInv, Known, Numbered, Placed, Sessions, NoMsg, Msg
<1>7. Begun'
    <2>1. \A k \in Sales : k > sale.nr => told'[k] = "nothing"
        BY <1>3 DEF WInv, Known, Begun, Sales
    <2> QED BY <1>2, <2>1 DEF WInv, Known, Begun, IsPayment, Msg
<1>8. ASSUME ~Misread' PROVE Honest'
    <2>1. Honest /\ app.doing = NoMsg
        BY <1>2, <1>8 DEF WInv
    <2>2. Unscanned' /\ Paying' /\ Kept'
        BY <1>2, <2>1 DEF Unscanned, OutsidePoll, Paying, Kept
    <2>3. Closed'
        BY <1>2, <2>1 DEF Closed, IsPayment, NoMsg, Msg
    <2>4. Told'
        BY <1>2, <1>3, <1>4, <2>1 DEF Honest, Told, Kept
    <2> QED BY <2>2, <2>3, <2>4 DEF Honest
<1> QED BY <1>5, <1>6, <1>7, <1>8 DEF WInv, Known

-----------------------------------------------------------------------------
(* The other requests. *)

\* a code is asked for in the poll
LEMMA CodeStep == ASSUME WInv, StartSession \/ Rotate PROVE WInv'
<1> USE DEF wallet, pos, None
<1>1. PICK create \in BOOLEAN : SendGenerateQR(create)
    BY DEF StartSession, Rotate
<1>2. pc = "poll" /\ UNCHANGED <<app, opened, paid, shown, sale, told, pc, then>>
    BY DEF StartSession, Rotate
<1>3. /\ rsp' = NoMsg /\ sess' = [sess EXCEPT !.state = "qr"]
      /\ req'.cmd \in {"StartSession", "RefreshQR"} /\ req' = [cmd |-> req'.cmd, nr |-> req'.nr]
      /\ Misread \/ app.doing # NoMsg => Misread'
    BY <1>1 DEF SendGenerateQR, Written, Msg, Misread
<1>4. Shaped'
    BY <1>2, <1>3 DEF WInv, Known, Shaped, IsRequest, Commands
<1>5. Numbered'
    BY <1>2, <1>3 DEF WInv, Known, Numbered, Sessions, NoMsg
<1>6. Placed' /\ Begun'
    BY <1>2, <1>3 DEF WInv, Known, Shaped, Placed, Begun, IsPayment
<1>7. ASSUME ~Misread' PROVE Honest'
    <2>1. Honest /\ app.doing = NoMsg
        BY <1>3, <1>7 DEF WInv
    <2>2. Unscanned' /\ Paying' /\ Kept'
        BY <1>2 DEF Unscanned, OutsidePoll, Paying, Kept
    <2>3. Closed' /\ Told'
        BY <1>2, <1>3, <2>1 DEF Honest, Closed, Told, IsPayment, NoMsg
    <2> QED BY <2>2, <2>3 DEF Honest
<1> QED BY <1>4, <1>5, <1>6, <1>7 DEF WInv, Known

LEMMA PayStep == ASSUME WInv, Pay PROVE WInv'
<1> USE DEF wallet, pos, None
<1>1. /\ rsp' = NoMsg /\ req' = Msg("DigitalPayment", sale.nr + 1) /\ seen' = FALSE
      /\ Misread \/ app.doing # NoMsg => Misread'
      /\ pc = "idle" /\ pc' = "pay"
      /\ sale.nr < MaxSales /\ sale' = [nr |-> sale.nr + 1, rc |-> "blank"]
      /\ UNCHANGED <<app, opened, paid, shown, told, sess, then>>
    BY DEF Pay, Ask, Written, Misread
<1>2. sale.nr \in 0 .. MaxSales /\ MaxSales \in Nat
    BY WalletAssumption DEF WInv, Known, Shaped
<1>3. Shaped'
    BY <1>1, <1>2 DEF WInv, Known, Shaped, IsRequest, Commands, Msg
<1>4. Numbered'
    BY <1>1 DEF WInv, Known, Numbered, Sessions, NoMsg
<1>5. Placed'
    BY <1>1, <1>2 DEF WInv, Known, Placed, Sales
<1>6. Begun'
    BY <1>1, <1>2 DEF WInv, Known, Begun, IsPayment, Msg, Sales
<1>7. ASSUME ~Misread' PROVE Honest'
    <2>1. Honest /\ app.doing = NoMsg
        BY <1>1, <1>7 DEF WInv
    <2>2. Unscanned'
        BY <1>1, <2>1 DEF Honest, Unscanned, OutsidePoll
    <2>3. sale.nr + 1 \notin paid /\ told[sale.nr + 1] = "nothing"
        BY <1>1, <1>2 DEF WInv, Known, Begun, Sales
    <2>4. Paying' /\ Kept'
        BY <1>1, <2>1, <2>3 DEF Paying, Kept, NoMsg, Msg
    <2>5. Closed' /\ Told'
        BY <1>1, <2>1, <2>3 DEF Honest, Closed, Told, IsPayment, NoMsg, Decided, Msg
    <2> QED BY <2>2, <2>4, <2>5 DEF Honest
<1> QED BY <1>3, <1>4, <1>5, <1>6, <1>7 DEF WInv, Known

LEMMA DeleteStep == ASSUME WInv, DeleteCommand PROVE WInv'
<1> USE DEF wallet, pos, None
<1>1. /\ rsp' = NoMsg /\ req' = Msg("Delete", psi)
      /\ Misread \/ app.doing # NoMsg => Misread'
      /\ pc = "idle" /\ pc' = "delete"
      /\ UNCHANGED <<app, opened, paid, shown, told, sess, then, sale>>
    BY DEF DeleteCommand, Ask, Written, Misread
<1>2. Shaped'
    BY <1>1 DEF WInv, Known, Shaped, IsRequest, Commands, Msg
<1>3. Numbered'
    BY <1>1 DEF WInv, Known, Numbered, Sessions, NoMsg
<1>4. Placed' /\ Begun'
    BY <1>1 DEF WInv, Known, Placed, Begun, IsPayment, Msg
<1>5. ASSUME ~Misread' PROVE Honest'
    <2>1. Honest /\ app.doing = NoMsg
        BY <1>1, <1>5 DEF WInv
    <2>2. Unscanned' /\ Paying' /\ Kept'
        BY <1>1, <2>1 DEF Honest, Unscanned, OutsidePoll, Paying, Kept
    <2>3. Closed' /\ Told'
        BY <1>1, <2>1 DEF Honest, Closed, Told, IsPayment, NoMsg, Msg
    <2> QED BY <2>2, <2>3 DEF Honest
<1> QED BY <1>2, <1>3, <1>4, <1>5 DEF WInv, Known

-----------------------------------------------------------------------------
(* An answer is read, or none comes. *)

LEMMA ReadStep ==
    ASSUME WInv,
           \/ ResetAnswered \/ QrReceived \/ RewardsReceived \/ OtherAnswer
           \/ rsp # NoMsg /\ Deleted
    PROVE  WInv'
<1> USE DEF wallet, terminal, pos, None
<1>1. /\ rsp # NoMsg /\ req' = NoMsg /\ rsp' \in {rsp, NoMsg} /\ seen' = FALSE
      /\ UNCHANGED <<app, opened, paid, sale, told>>
      /\ Misread => Misread'
    BY DEF ResetAnswered, QrReceived, RewardsReceived, OtherAnswer, Deleted, Received, Misread
<1>2. /\ then \in {"idle", "poll", "tell"} /\ shown \in {0} \cup Sessions
      /\ sess = [state |-> sess.state, id |-> sess.id, rewards |-> sess.rewards, nfc |-> sess.nfc]
      /\ rsp.cmd = "qr" => rsp.nr \in Sessions
      /\ rsp.cmd = "rewards" => app.polls = 0
      /\ pc = "poll" => sess.rewards = 0
    BY DEF WInv, Known, Shaped, Placed, Numbered
<1>3. /\ sess' = [state |-> sess'.state, id |-> sess'.id, rewards |-> sess'.rewards,
                  nfc |-> sess'.nfc]
      /\ shown' \in {0} \cup Sessions
      /\ then' \in {"idle", "poll", "tell"}
      /\ pc' \in {"idle", "poll", "tell", "check", "answer"}
      /\ pc' = "poll" => sess'.rewards = 0
    <2>1. CASE ResetAnswered
        BY <1>1, <1>2, <2>1 DEF ResetAnswered, Resumed, NoSession
    <2>2. CASE QrReceived
        BY <1>1, <1>2, <2>2 DEF QrReceived
    <2>3. CASE RewardsReceived
        BY <1>1, <1>2, <2>3 DEF RewardsReceived
    <2>4. CASE OtherAnswer
        BY <1>1, <1>2, <2>4 DEF OtherAnswer, Awaiting
    <2>5. CASE Deleted
        BY <1>1, <1>2, <2>5 DEF Deleted
    <2> QED BY <2>1, <2>2, <2>3, <2>4, <2>5
<1>4. Shaped'
    BY <1>1, <1>3 DEF WInv, Known, Shaped, IsRequest, NoMsg
<1>5. Numbered'
    BY <1>1, <1>3 DEF WInv, Known, Numbered, Sessions, NoMsg
<1>6. Placed' /\ Begun'
    BY <1>1, <1>3 DEF WInv, Known, Placed, Begun, IsPayment, NoMsg
<1>7. ASSUME ~Misread' PROVE Honest'
    <2>1. Honest
        BY <1>1, <1>7 DEF WInv
    <2>2. OutsidePoll' => app.polls = 0 \/ app.polls # shown'
        <3>1. CASE ResetAnswered
            BY <1>1, <2>1, <3>1 DEF ResetAnswered, Honest, Unscanned
        <3>2. CASE QrReceived
            BY <3>2 DEF QrReceived, OutsidePoll
        <3>3. CASE RewardsReceived
            BY <1>2, <3>3 DEF RewardsReceived
        <3>4. CASE OtherAnswer
            BY <2>1, <3>4 DEF OtherAnswer, OutsidePoll, Honest, Unscanned
        <3>5. CASE Deleted
            BY <2>1, <3>5 DEF Deleted, OutsidePoll, Honest, Unscanned
        <3> QED BY <3>1, <3>2, <3>3, <3>4, <3>5
    <2>3. Unscanned' /\ Paying' /\ Kept'
        BY <1>1, <1>3, <2>2 DEF Unscanned, Paying, Kept
    <2>4. Closed' /\ Told'
        BY <1>1, <2>1 DEF Honest, Closed, Told, IsPayment, NoMsg
    <2> QED BY <2>3, <2>4 DEF Honest
<1> QED BY <1>4, <1>5, <1>6, <1>7 DEF WInv, Known

LEMMA PayAnsweredStep == ASSUME WInv, PayAnswered PROVE WInv'
<1> USE DEF wallet, pos, None
<1>1. /\ rsp # NoMsg /\ req' = NoMsg /\ rsp' = NoMsg
      /\ pc = "pay" /\ pc' = "receipts"
      /\ sale' = [sale EXCEPT !.rc = ResponseCode(rsp.cmd)]
      /\ UNCHANGED <<app, opened, paid, shown, told, sess, then, harm>>
    BY DEF PayAnswered, Received
<1>2. sale' = [nr |-> sale.nr, rc |-> ResponseCode(rsp.cmd)]
    BY <1>1 DEF WInv, Known, Shaped
<1>3. Shaped'
    BY <1>1, <1>2 DEF WInv, Known, Shaped, IsRequest, NoMsg
<1>4. Numbered'
    BY <1>1 DEF WInv, Known, Numbered, Sessions, NoMsg
<1>5. Placed' /\ Begun'
    BY <1>1, <1>2 DEF WInv, Known, Placed, Begun, IsPayment, NoMsg
<1>6. ASSUME ~Misread' PROVE Honest'
    <2>1. Honest
        BY <1>1, <1>6 DEF WInv, Misread
    <2>2. Unscanned' /\ Paying'
        BY <1>1, <2>1 DEF Honest, Unscanned, OutsidePoll, Paying
    <2>3. Kept'
        <3>1. /\ app.doing = NoMsg
              /\ \/ rsp.cmd = "paid" /\ sale.nr \in paid
                 \/ rsp.cmd \in {"declined", "failed"} /\ sale.nr \notin paid
            BY <1>1, <2>1 DEF Honest, Paying
        <3>2. ResponseCode(rsp.cmd) = "00" <=> sale.nr \in paid
            BY <3>1 DEF ResponseCode
        <3> QED BY <1>1, <1>2, <3>1, <3>2 DEF Kept
    <2>4. Closed' /\ Told'
        BY <1>1, <2>1 DEF Honest, Closed, Told, IsPayment, NoMsg
    <2> QED BY <2>2, <2>3, <2>4 DEF Honest
<1> QED BY <1>3, <1>4, <1>5, <1>6 DEF WInv, Known

LEMMA PayTimesOutStep == ASSUME WInv, PayTimesOut PROVE WInv'
<1> USE DEF mail, wallet, pos, None
<1>1. sale' = [nr |-> sale.nr, rc |-> "TO"]
    BY DEF PayTimesOut, WInv, Known, Shaped
<1>2. /\ pc = "pay" /\ pc' = "receipts"
      /\ UNCHANGED <<req, rsp, seen, app, opened, paid, shown, told, sess, then, harm>>
    BY DEF PayTimesOut
<1>3. Shaped'
    BY <1>1, <1>2 DEF WInv, Known, Shaped, IsRequest
<1>4. Numbered'
    BY <1>2 DEF WInv, Known, Numbered, Sessions
<1>5. Placed' /\ Begun'
    BY <1>1, <1>2 DEF WInv, Known, Placed, Begun, IsPayment
<1>6. ASSUME ~Misread' PROVE Honest'
    <2>1. Honest
        BY <1>2, <1>6 DEF WInv, Misread
    <2>2. Unscanned' /\ Paying' /\ Kept'
        BY <1>1, <1>2, <2>1 DEF Honest, Unscanned, OutsidePoll, Paying, Kept
    <2>3. Closed' /\ Told'
        BY <1>2, <2>1 DEF Honest, Closed, Told, IsPayment
    <2> QED BY <2>2, <2>3 DEF Honest
<1> QED BY <1>3, <1>4, <1>5, <1>6 DEF WInv, Known

\* the reset is not answered: what follows may be misread
LEMMA ResetTimesOutStep == ASSUME WInv, ResetTimesOut PROVE WInv'
<1> USE DEF mail, wallet, pos, None
<1>1. /\ UNCHANGED <<req, rsp, seen, app, opened, paid, shown, told, sale>>
      /\ sess' = NoSession /\ pc' = then /\ then' = "idle"
    BY DEF ResetTimesOut, Resumed
<1>2. Misread'
    BY DEF ResetTimesOut, Misread
<1>3. Shaped' /\ Numbered'
    BY <1>1 DEF WInv, Known, Shaped, Numbered, IsRequest, Sessions, NoSession
<1>4. Placed' /\ Begun'
    BY <1>1 DEF WInv, Known, Placed, Begun, IsPayment, NoSession
<1> QED BY <1>2, <1>3, <1>4 DEF WInv, Known

-----------------------------------------------------------------------------
(* The thread moves on. *)

LEMMA MoveStep ==
    ASSUME WInv,
           \/ BeginQuery("plain") \/ Tap \/ Tell
           \/ pc = "tap" /\ PosEvent
           \/ ~(sess.rewards = None /\ sess.nfc) /\ CheckPaymentSession
           \/ rsp = NoMsg /\ Deleted
    PROVE  WInv'
<1> USE DEF mail, wallet, pos, None
<1>1. UNCHANGED <<req, rsp, seen, app, opened, paid, shown, sale, told, then, harm>>
    BY DEF BeginQuery, Tap, Tell, PosEvent, CheckPaymentSession, Deleted, Received
<1>2. /\ sess = [state |-> sess.state, id |-> sess.id, rewards |-> sess.rewards, nfc |-> sess.nfc]
      /\ pc = "poll" => sess.rewards = 0
    BY DEF WInv, Known, Shaped, Placed
<1>3. /\ sess' = [state |-> sess'.state, id |-> sess'.id, rewards |-> sess'.rewards,
                  nfc |-> sess'.nfc]
      /\ pc' \in {"idle", "tap", "tell", "check", "answer"}
      /\ OutsidePoll' => OutsidePoll
    BY <1>2 DEF BeginQuery, Tap, Tell, PosEvent, CheckPaymentSession, Deleted, OutsidePoll
<1>4. Shaped' /\ Numbered'
    BY <1>1, <1>3 DEF WInv, Known, Shaped, Numbered, IsRequest, Sessions
<1>5. Placed' /\ Begun'
    BY <1>1, <1>3 DEF WInv, Known, Placed, Begun, IsPayment
<1>6. ASSUME ~Misread' PROVE Honest'
    <2>1. Honest
        BY <1>1, <1>6 DEF WInv, Misread
    <2>2. Unscanned' /\ Paying' /\ Kept'
        BY <1>1, <1>3, <2>1 DEF Honest, Unscanned, Paying, Kept
    <2>3. Closed' /\ Told'
        BY <1>1, <2>1 DEF Honest, Closed, Told, IsPayment
    <2> QED BY <2>2, <2>3 DEF Honest
<1> QED BY <1>4, <1>5, <1>6 DEF WInv, Known

\* the power fails: both sides start again, and the files stay
LEMMA PowerStep == ASSUME WInv, PowerFail PROVE WInv'
<1> USE DEF None
<1>1. /\ sess' = NoSession /\ app' = Idle /\ pc' = "idle" /\ then' = "idle"
      /\ UNCHANGED <<req, rsp, opened, shown, sale, paid>>
      /\ told' = IF pc \in {"pay", "receipts"} THEN [told EXCEPT ![sale.nr] = "power fail"]
                 ELSE told
      /\ Misread => Misread'
    BY DEF PowerFail, Misread
<1>2. /\ told' \in [Sales -> Tellings]
      /\ \A k \in Sales : told'[k] = told[k] \/ (k = sale.nr /\ told'[k] = "power fail")
    BY <1>1 DEF WInv, Known, Shaped, Placed, Tellings
<1>3. Shaped'
    BY <1>1, <1>2 DEF WInv, Known, Shaped, IsRequest, NoSession, Idle, NoMsg
<1>4. Numbered' /\ Placed'
    BY <1>1 DEF WInv, Known, Numbered, Placed, Sessions, Idle
<1>5. Begun'
    <2>1. \A k \in Sales : k > sale.nr => k # sale.nr /\ told[k] = "nothing"
        BY DEF WInv, Known, Begun, Shaped, Sales
    <2>2. \A k \in Sales : k > sale.nr => told'[k] = "nothing"
        BY <1>2, <2>1
    <2> QED BY <1>1, <2>2 DEF WInv, Known, Begun, IsPayment, Idle, NoMsg
<1>6. ASSUME ~Misread' PROVE Honest'
    <2>1. Honest
        BY <1>1, <1>6 DEF WInv
    <2>2. Unscanned' /\ Paying' /\ Kept'
        BY <1>1 DEF Unscanned, Paying, Kept, Idle
    <2>3. Closed'
        <3>1. IsPayment(req) => req.nr \in Sales
            BY WalletAssumption DEF WInv, Known, Begun, Shaped, Sales
        <3> QED BY <1>1, <1>2, <2>1, <3>1 DEF Honest, Closed, IsPayment, Idle, NoMsg, Decided
    <2>4. Told'
        BY <1>1, <1>2, <2>1 DEF Honest, Told
    <2> QED BY <2>2, <2>3, <2>4 DEF Honest
<1> QED BY <1>3, <1>4, <1>5, <1>6 DEF WInv, Known

-----------------------------------------------------------------------------
LEMMA NextInv == WInv /\ [Next]_vars => WInv'
<1> SUFFICES ASSUME WInv, Next PROVE WInv'
    BY StutterInv
<1>1. CASE App
    BY <1>1, TakesStep, AnswersStep, ScansStep DEF App
<1>2. CASE Query
    <2>1. CASE \E kind \in {"qr", "nfc", "plain"} : BeginQuery(kind)
        BY <2>1, ResetSteps, MoveStep
    <2>2. CASE QrInvalid \/ QrTimesOut \/ RewardsFailed \/ CheckEnds
        BY <2>2, ResetSteps
    <2>3. CASE StartSession \/ Rotate
        BY <2>3, CodeStep
    <2>4. CASE QrReceived \/ RewardsReceived \/ OtherAnswer
        BY <2>4, ReadStep
    <2>5. CASE PosEvent
        <3>1. pc = "tap" \/ pc = "poll"
            BY <2>5 DEF PosEvent
        <3> QED BY <2>5, <3>1, ResetSteps, MoveStep
    <2>6. CASE CheckPaymentSession
        BY <2>6, ResetSteps, MoveStep
    <2>7. CASE Tap \/ Tell
        BY <2>7, MoveStep
    <2> QED BY <1>2, <2>1, <2>2, <2>3, <2>4, <2>5, <2>6, <2>7 DEF Query
<1>3. CASE Sale
    <2>1. CASE PayWithCard \/ RemoveCommand
        BY <2>1, ResetSteps
    <2>2. CASE Deleted
        BY <2>2, ReadStep, MoveStep
    <2> QED BY <1>3, <2>1, <2>2, PayStep, PayAnsweredStep, PayTimesOutStep, FinishStep,
               DeleteStep DEF Sale
<1>4. CASE ResetAnswered
    BY <1>4, ReadStep
<1> QED BY <1>1, <1>2, <1>3, <1>4, ResetTimesOutStep, PowerStep DEF Next

LEMMA Invariant == Spec => []WInv
BY InitInv, NextInv, PTL DEF Spec

\* Whatever the number of queries, sessions, sales and power failures, a sale
\* the POS was told is approved was paid by the wallet and one it was told is
\* declined was not, unless an answer may belong to an earlier request
\* (Wally_DoTransaction and the reset that follows it).
THEOREM ToldAsPaid == Spec => []PaidAsTold
<1>1. WInv => PaidAsTold
    BY DEF WInv, Honest, Told, PaidAsTold
<1> QED BY <1>1, Invariant, PTL

-----------------------------------------------------------------------------
(* What a customer is given: his own number, and the session he scanned.    *)

\* the thread serves a query, or will when the reset is answered
Serving == pc \in {"tap", "poll", "answer", "check", "tell"} \/ (pc = "reset" /\ then # "idle")

\* a session that is named is open, a session is asked for for a customer, and
\* a query that is served has one
Typed ==
    /\ TypeOK
    /\ app.polls \in {None} \cup Sessions
    /\ rsp.cmd \in {"qr", "fresh", "rewards"} => rsp.nr \in Sessions
    /\ req.cmd = "StartSession" => req.nr \in Customers
    /\ app.doing.cmd = "StartSession" => app.doing.nr \in Customers
    /\ Serving => query.nr # None

\* a code on its way or on the screen is for the customer of the query
ForThisCustomer ==
    /\ req.cmd = "StartSession" => req.nr = query.nr
    /\ app.doing.cmd = "StartSession" => app.doing.nr = query.nr
    /\ rsp.cmd = "qr" => opened[rsp.nr] = query.nr /\ app.polls = rsp.nr
    /\ sess.id # None => shown = sess.id /\ opened[sess.id] = query.nr

\* the app polls the session on the screen, or the one it has just opened, and
\* works on nothing once it has answered
InTurn ==
    /\ sess.id # None /\ rsp.cmd # "qr" => app.polls \in {None, sess.id}
    /\ app.doing # NoMsg => seen
    /\ rsp.cmd \in {"qr", "fresh"} => app.doing = NoMsg /\ seen
    /\ sess.state = "rewards" => /\ app.doing = NoMsg /\ req = NoMsg /\ sess.id # None
                                 /\ rsp # NoMsg => rsp = Msg("rewards", sess.id)

\* the wallet is on for the queries that show a code, and only those
Scanned ==
    /\ pc = "poll" => \/ sess.state = "idle" /\ sess.id = None
                      \/ sess.state # "idle" /\ ForThisCustomer /\ InTurn
    /\ pc \in {"tap", "check"} => ~edp
    /\ pc = "answer" /\ edp => sess.rewards # None \/ sess.nfc
    /\ pc \in {"answer", "tell"} /\ edp /\ sess.rewards # None =>
            sess.id = sess.rewards /\ opened[sess.id] = query.nr

\* a rewards number is read where it is asked for, and is the customer's own
Own ==
    /\ OutsidePoll => rsp.cmd # "rewards"
    /\ pc \in {"answer", "check", "tell"} \/ (pc = "reset" /\ then = "tell") =>
            loyalty \in {None, query.nr}
    /\ given.number \in {None, given.served}

RInv ==
    /\ Typed
    /\ "late" \in harm \/ Scanned
    /\ harm # {} \/ Own

\* TypeOK, part by part
MailTypes == req \in Requests /\ rsp \in Answers /\ seen \in BOOLEAN
WalletTypes ==
    /\ app \in [doing : Requests, polls : 0 .. MaxSessions]
    /\ Sessions \subseteq 1 .. MaxSessions
    /\ \A n \in Sessions : opened[n] \in Customers
    /\ paid \subseteq Sales
ShownTypes ==
    /\ shown \in {None} \cup Sessions
    /\ sess \in [state : {"idle", "qr", "rewards"}, id : {None} \cup Sessions,
                 rewards : {None} \cup Sessions, nfc : BOOLEAN]
    /\ psi \in {None} \cup Sessions
QueryTypes ==
    /\ edp \in BOOLEAN
    /\ query \in [nr : {None} \cup Customers, kind : {"qr", "nfc", "plain"}]
    /\ loyalty \in {None} \cup Customers
    /\ given \in [served : {None} \cup Customers, number : {None} \cup Customers]
Places == {"idle", "reset", "tap", "poll", "answer", "check", "tell", "pay", "receipts", "delete"}
ThreadTypes == asked \in Requests /\ pc \in Places /\ then \in {"idle", "poll", "tell"}
SaleTypes ==
    /\ sale \in [nr : {None} \cup Sales, rc : {"blank", "00", "01", "RA", "TO"}]
    /\ told \in [Sales -> Tellings]
BoundTypes ==
    /\ rotations \in 0 .. MaxRotations /\ failures \in 0 .. MaxFailures
    /\ harm \subseteq Harms

LEMMA TypeParts ==
    TypeOK <=> /\ MailTypes /\ WalletTypes /\ ShownTypes /\ QueryTypes /\ ThreadTypes
               /\ SaleTypes /\ BoundTypes
BY DEF TypeOK, MailTypes, WalletTypes, ShownTypes, QueryTypes, ThreadTypes, SaleTypes, BoundTypes,
    Tellings, Places

LEMMA TypePartsNext ==
    TypeOK' <=> /\ MailTypes' /\ WalletTypes' /\ ShownTypes' /\ QueryTypes' /\ ThreadTypes'
                /\ SaleTypes' /\ BoundTypes'
BY DEF TypeOK, MailTypes, WalletTypes, ShownTypes, QueryTypes, ThreadTypes, SaleTypes, BoundTypes,
    Tellings, Places

(* What is left alone keeps its type. *)
LEMMA FrameTypes ==
    ASSUME TypeOK, Sessions \subseteq Sessions'
    PROVE  /\ UNCHANGED mail => MailTypes'
           /\ UNCHANGED wallet => WalletTypes'
           /\ UNCHANGED <<shown, sess, psi>> => ShownTypes'
           /\ UNCHANGED <<edp, query, loyalty, given>> => QueryTypes'
           /\ UNCHANGED <<asked, pc, then>> => ThreadTypes'
           /\ UNCHANGED <<sale, told>> => SaleTypes'
           /\ UNCHANGED <<bounds, harm>> => BoundTypes'
<1> USE TypeParts
<1>1. UNCHANGED mail => MailTypes'
    BY DEF MailTypes, mail
<1>2. UNCHANGED wallet => WalletTypes'
    BY DEF WalletTypes, wallet, Sessions
<1>3. UNCHANGED <<shown, sess, psi>> => ShownTypes'
    <2> SUFFICES ASSUME UNCHANGED <<shown, sess, psi>> PROVE ShownTypes'
        OBVIOUS
    <2>1. shown' \in {None} \cup Sessions' /\ psi' \in {None} \cup Sessions'
        BY DEF ShownTypes
    <2>2. sess' \in [state : {"idle", "qr", "rewards"}, id : {None} \cup Sessions',
                     rewards : {None} \cup Sessions', nfc : BOOLEAN]
        BY DEF ShownTypes
    <2> QED BY <2>1, <2>2 DEF ShownTypes
<1>4. UNCHANGED <<edp, query, loyalty, given>> => QueryTypes'
    BY DEF QueryTypes
<1>5. UNCHANGED <<asked, pc, then>> => ThreadTypes'
    BY DEF ThreadTypes
<1>6. UNCHANGED <<sale, told>> => SaleTypes'
    BY DEF SaleTypes
<1>7. UNCHANGED <<bounds, harm>> => BoundTypes'
    BY DEF BoundTypes, bounds
<1> QED BY <1>1, <1>2, <1>3, <1>4, <1>5, <1>6, <1>7

LEMMA InitRInv == Init => RInv
<1> SUFFICES ASSUME Init PROVE RInv
    OBVIOUS
<1>1. Sessions = {}
    BY DEF Init, Sessions
<1>2. TypeOK
    <2> USE DEF Init, None
    <2>1. MailTypes
        BY DEF MailTypes, Requests, Answers, Numbers, NoMsg
    <2>2. WalletTypes
        BY <1>1, WalletAssumption DEF WalletTypes, Idle, NoMsg, Requests, Numbers
    <2>3. ShownTypes
        BY DEF ShownTypes, NoSession
    <2>4. QueryTypes
        BY DEF QueryTypes
    <2>5. ThreadTypes
        BY DEF ThreadTypes, Places, Requests, Numbers, NoMsg
    <2>6. SaleTypes
        BY DEF SaleTypes, NoSale, Tellings
    <2>7. BoundTypes
        BY WalletAssumption DEF BoundTypes
    <2> QED BY <2>1, <2>2, <2>3, <2>4, <2>5, <2>6, <2>7, TypeParts
<1>3. Typed
    BY <1>2 DEF Init, Typed, Serving, NoMsg, Idle, None
<1>4. Scanned /\ Own
    BY DEF Init, Scanned, Own, NoMsg, None
<1> QED BY <1>3, <1>4 DEF RInv

LEMMA StutterRInv == RInv /\ UNCHANGED vars => RInv'
<1> SUFFICES ASSUME RInv, UNCHANGED vars PROVE RInv'
    OBVIOUS
<1>1. Sessions' = Sessions
    BY DEF vars, Sessions
<1>2. Typed'
    <2>1. TypeOK'
        <3>1. UNCHANGED <<mail, wallet, bounds>>
            BY DEF vars, mail, wallet, bounds
        <3> QED BY <1>1, <3>1, FrameTypes, TypePartsNext DEF vars, RInv, Typed
    <2> QED BY <1>1, <2>1 DEF vars, RInv, Typed, Serving
<1>3. (Scanned' <=> Scanned) /\ (Own' <=> Own)
    BY DEF vars, Scanned, Own, ForThisCustomer, InTurn, OutsidePoll
<1> QED BY <1>2, <1>3 DEF vars, RInv

LEMMA NoneIsNoSession == TypeOK => None \notin Sessions
<1>1. None \notin 1 .. MaxSessions
    BY DEF None
<1> QED BY <1>1 DEF TypeOK

LEMMA NoneIsPolled == None \in 0 .. MaxSessions
BY WalletAssumption DEF None

(* The messages the program writes. *)
LEMMA Messages ==
    ASSUME TypeOK
    PROVE  /\ NoMsg \in Requests /\ NoMsg \in Answers
           /\ Msg("Cancel", None) \in Requests /\ Msg("RefreshQR", None) \in Requests
           /\ \A n \in {None} \cup Sessions : Msg("Delete", n) \in Requests
           /\ \A n \in Customers : Msg("StartSession", n) \in Requests
           /\ \A n \in Sales : Msg("DigitalPayment", n) \in Requests
BY DEF TypeOK, Requests, Answers, Numbers, NoMsg, Msg, None

(* A request that is written takes the answer away. *)
LEMMA WrittenMail ==
    ASSUME TypeOK, NEW m \in Requests, Written(m)
    PROVE  /\ req' = m /\ rsp' = NoMsg /\ seen' = FALSE
           /\ req' \in Requests /\ rsp' \in Answers /\ seen' \in BOOLEAN
           /\ harm' \subseteq Harms /\ harm \subseteq harm'
           /\ "late" \notin harm' => app.doing = NoMsg
<1>1. NoMsg \in Answers
    BY Messages
<1>2. harm \subseteq Harms /\ "late" \in Harms
    BY DEF TypeOK, Harms
<1> QED BY <1>1, <1>2 DEF Written

-----------------------------------------------------------------------------
(* The app. *)

LEMMA TakesKeeps == ASSUME WInv, RInv, AppTakes PROVE RInv'
<1> USE DEF AppTakes, terminal, pos, bounds
<1>1. Sessions' = Sessions /\ OutsidePoll' = OutsidePoll
    BY DEF Sessions, OutsidePoll
<1>2. Typed /\ TypeOK
    BY DEF RInv, Typed
<1>3. /\ req \in Requests /\ app.polls \in {None} \cup Sessions /\ app.polls \in 0 .. MaxSessions
      /\ app'.doing = req /\ app'.polls \in {None, app.polls}
      /\ app' = [doing |-> app'.doing, polls |-> app'.polls]
    BY <1>2 DEF Typed, TypeOK
<1>4. None \in 0 .. MaxSessions
    BY NoneIsPolled
<1>5. app' \in [doing : Requests, polls : 0 .. MaxSessions]
    BY <1>3, <1>4
<1>6. TypeOK'
    <2>1. MailTypes' /\ WalletTypes'
        BY <1>1, <1>2, <1>5, TypeParts DEF MailTypes, WalletTypes
    <2> QED BY <1>1, <1>2, <2>1, FrameTypes, TypePartsNext
<1>7. Typed'
    BY <1>1, <1>2, <1>3, <1>6 DEF Typed, Serving
<1>8. Scanned => Scanned'
    <2> SUFFICES ASSUME Scanned PROVE Scanned'
        OBVIOUS
    <2>1. ASSUME pc = "poll", sess.state # "idle" PROVE ForThisCustomer' /\ InTurn'
        <3>1. ForThisCustomer /\ InTurn
            BY <2>1 DEF Scanned
        <3>2. rsp.cmd \notin {"qr", "fresh"} /\ sess.state # "rewards"
            BY <3>1 DEF InTurn
        <3>3. ForThisCustomer'
            BY <1>3, <3>1, <3>2 DEF ForThisCustomer
        <3>4. InTurn'
            BY <1>3, <3>1, <3>2 DEF InTurn
        <3> QED BY <3>3, <3>4
    <2> QED BY <2>1 DEF Scanned
<1>9. Own => Own'
    BY <1>1 DEF Own
<1> QED BY <1>7, <1>8, <1>9 DEF RInv

LEMMA OutcomeTyped ==
    ASSUME WInv, Typed, app.doing # NoMsg, NEW a \in Outcomes(app.doing)
    PROVE  /\ a \in Answers /\ a.cmd \notin {"none", "rewards"}
           /\ a.cmd = "qr" => /\ app.doing.cmd = "StartSession"
                              /\ a.nr = Cardinality(Sessions) + 1 /\ a.nr \in 1 .. MaxSessions
           /\ a.cmd = "fresh" => a.nr = app.polls /\ a.nr # None
           /\ a.cmd = "paid" => a.nr \in Sales
<1> DEFINE m == app.doing
<1>1. /\ IsRequest(m) /\ m # NoMsg /\ m.cmd \in Commands
      /\ Cardinality(Sessions) \in Nat /\ app.polls \in {None} \cup Sessions
      /\ Sessions \subseteq 1 .. MaxSessions
    BY DEF WInv, Known, Shaped, Numbered, Typed, TypeOK, IsRequest
<1>2. m.cmd = "DigitalPayment" => m.nr \in Sales
    BY WalletAssumption DEF WInv, Known, Shaped, Begun, IsPayment, Sales
<1> HIDE DEF m
<1> USE DEF Answers, Numbers, Msg, None
<1>3. CASE m.cmd = "StartSession"
    <2>1. CASE a.cmd = "qr"
        <3>1. Cardinality(Sessions) < MaxSessions /\ a = Msg("qr", Cardinality(Sessions) + 1)
            BY <1>3, <2>1 DEF Outcomes, m
        <3>2. a.nr \in 1 .. MaxSessions
            BY <1>1, <3>1, WalletAssumption
        <3> QED BY <1>3, <3>1, <3>2 DEF m
    <2>2. CASE a.cmd # "qr"
        <3>1. a = Msg("failed", None)
            BY <1>3, <2>2 DEF Outcomes, m
        <3> QED BY <3>1
    <2> QED BY <2>1, <2>2
<1>4. CASE m.cmd = "RefreshQR"
    BY <1>1, <1>4 DEF Outcomes, m
<1>5. CASE m.cmd \in {"Cancel", "Delete"}
    BY <1>5 DEF Outcomes, m
<1>6. CASE m.cmd = "DigitalPayment"
    BY <1>2, <1>6 DEF Outcomes, m
<1> QED BY <1>1, <1>3, <1>4, <1>5, <1>6 DEF Commands

LEMMA AnswersKeeps == ASSUME WInv, RInv, AppAnswers PROVE RInv'
<1> USE DEF terminal, pos, bounds
<1>1. PICK a \in Outcomes(app.doing) :
        /\ rsp' = a
        /\ app' = [doing |-> NoMsg, polls |-> IF a.cmd = "qr" THEN a.nr ELSE app.polls]
        /\ opened' = IF a.cmd = "qr"
                     THEN [n \in Sessions \cup {a.nr} |->
                            IF n = a.nr THEN app.doing.nr ELSE opened[n]]
                     ELSE opened
        /\ paid' = IF a.cmd = "paid" THEN paid \cup {a.nr} ELSE paid
    BY DEF AppAnswers
<1>2. app.doing # NoMsg /\ UNCHANGED <<req, seen, terminal, pos, bounds, harm>>
    BY DEF AppAnswers
<1>3. Typed /\ TypeOK
    BY DEF RInv, Typed
<1>4. /\ a \in Answers /\ a.cmd \notin {"none", "rewards"}
      /\ a.cmd = "qr" => /\ app.doing.cmd = "StartSession"
                         /\ a.nr = Cardinality(Sessions) + 1 /\ a.nr \in 1 .. MaxSessions
      /\ a.cmd = "fresh" => a.nr = app.polls /\ a.nr # None
      /\ a.cmd = "paid" => a.nr \in Sales
    BY <1>2, <1>3, OutcomeTyped
<1>5. /\ Sessions' = IF a.cmd = "qr" THEN Sessions \cup {a.nr} ELSE Sessions
      /\ \A n \in Sessions : n \in Sessions' /\ opened'[n] = opened[n]
      /\ a.cmd = "qr" => a.nr \in Sessions' /\ opened'[a.nr] = app.doing.nr
    <2>1. a.cmd = "qr" => a.nr \notin Sessions
        BY <1>4 DEF WInv, Known, Numbered
    <2> QED BY <1>1, <2>1 DEF Sessions
<1>6. Sessions' \subseteq 1 .. MaxSessions /\ \A n \in Sessions' : opened'[n] \in Customers
    BY <1>3, <1>4, <1>5 DEF Typed, TypeOK
<1>7. app'.doing = NoMsg /\ app'.polls \in {None} \cup Sessions'
    BY <1>1, <1>3, <1>5 DEF Typed
<1>8. app' \in [doing : Requests, polls : 0 .. MaxSessions]
    <2>1. NoMsg \in Requests
        BY <1>3, Messages
    <2>2. app'.polls \in 0 .. MaxSessions
        <3>1. 1 .. MaxSessions \subseteq 0 .. MaxSessions
            OBVIOUS
        <3> QED BY <1>6, <1>7, <3>1, NoneIsPolled
    <2> QED BY <1>1, <1>7, <2>1, <2>2
<1>9. paid' \subseteq Sales
    BY <1>1, <1>3, <1>4 DEF TypeOK
<1>10. TypeOK'
    <2>1. MailTypes'
        BY <1>1, <1>2, <1>3, <1>4, TypeParts DEF MailTypes
    <2>2. WalletTypes'
        BY <1>6, <1>8, <1>9 DEF WalletTypes
    <2> QED BY <1>2, <1>3, <1>5, <2>1, <2>2, FrameTypes, TypePartsNext
<1>11. Typed'
    BY <1>1, <1>2, <1>3, <1>4, <1>5, <1>7, <1>10 DEF Typed, Serving, NoMsg
<1>12. Scanned => Scanned'
    <2> SUFFICES ASSUME Scanned PROVE Scanned'
        OBVIOUS
    <2>1. sess.id # None => sess.id \in Sessions
        BY <1>3 DEF TypeOK
    <2>2. ASSUME pc = "poll", sess.state # "idle" PROVE ForThisCustomer' /\ InTurn'
        <3>1. ForThisCustomer /\ InTurn
            BY <2>2 DEF Scanned
        <3>2. sess.state # "rewards" /\ seen /\ rsp.cmd # "qr"
            BY <1>2, <3>1 DEF InTurn
        <3>3. ForThisCustomer'
            BY <1>1, <1>2, <1>4, <1>5, <2>1, <3>1 DEF ForThisCustomer, NoMsg
        <3>4. InTurn'
            BY <1>1, <1>2, <3>1, <3>2 DEF InTurn
        <3> QED BY <3>3, <3>4
    <2> QED BY <1>2, <1>5, <2>1, <2>2 DEF Scanned
<1>13. Own => Own'
    BY <1>1, <1>2, <1>4 DEF Own, OutsidePoll
<1> QED BY <1>2, <1>11, <1>12, <1>13 DEF RInv

LEMMA ScansKeeps == ASSUME WInv, RInv, AppScans PROVE RInv'
<1> USE DEF AppScans, terminal, pos, bounds
<1>1. Sessions' = Sessions
    BY DEF Sessions
<1>2. Typed /\ TypeOK
    BY DEF RInv, Typed
<1>3. /\ app.doing = NoMsg /\ app.polls \in Sessions /\ app.polls = shown /\ app.polls # None
      /\ rsp' = Msg("rewards", app.polls)
      /\ app' = [doing |-> NoMsg, polls |-> None]
    BY <1>2 DEF Typed, TypeOK
<1>4. app' \in [doing : Requests, polls : 0 .. MaxSessions] /\ rsp' \in Answers
    <2>1. NoMsg \in Requests /\ app.polls \in Numbers
        BY <1>2, <1>3, Messages DEF TypeOK, Numbers
    <2>2. app' \in [doing : Requests, polls : 0 .. MaxSessions]
        BY <1>3, <2>1, NoneIsPolled
    <2>3. rsp' \in Answers
        BY <1>3, <2>1 DEF Answers, Msg
    <2> QED BY <2>2, <2>3
<1>5. TypeOK'
    <2>1. MailTypes' /\ WalletTypes'
        BY <1>1, <1>2, <1>4, TypeParts DEF MailTypes, WalletTypes
    <2> QED BY <1>1, <1>2, <2>1, FrameTypes, TypePartsNext
<1>6. Typed'
    BY <1>1, <1>2, <1>3, <1>5 DEF Typed, Serving, Msg, NoMsg
<1>7. Scanned => Scanned'
    <2> SUFFICES ASSUME Scanned PROVE Scanned'
        OBVIOUS
    <2>1. ASSUME pc = "poll", sess.state # "idle" PROVE ForThisCustomer' /\ InTurn'
        <3>1. ForThisCustomer /\ InTurn
            BY <2>1 DEF Scanned
        <3>2. ForThisCustomer'
            BY <1>3, <3>1 DEF ForThisCustomer, Msg, NoMsg
        <3>3. InTurn'
            BY <1>3, <3>1 DEF InTurn, ForThisCustomer, Msg
        <3> QED BY <3>2, <3>3
    <2> QED BY <2>1 DEF Scanned
<1>8. ASSUME harm = {}, Own PROVE Own'
    <2>1. Unscanned
        BY <1>8 DEF WInv, Misread, Honest
    <2>2. ~OutsidePoll'
        BY <1>3, <2>1 DEF Unscanned, OutsidePoll
    <2> QED BY <1>8, <2>2 DEF Own
<1> QED BY <1>6, <1>7, <1>8 DEF RInv

-----------------------------------------------------------------------------
(* The requests of the terminal. *)

LEMMA ResetKeeps ==
    ASSUME WInv, RInv, NEW delete, NEW next \in {"idle", "poll", "tell"},
           ResetSession(sess, delete, next),
           UNCHANGED <<wallet, shown, psi, given, sale, bounds>>,
           edp' \in BOOLEAN, loyalty' \in {None} \cup Customers, told' \in [Sales -> Tellings],
           query' \in [nr : {None} \cup Customers, kind : {"qr", "nfc", "plain"}],
           next # "idle" => query'.nr # None,
           Own /\ next = "tell" => loyalty' \in {None, query'.nr}
    PROVE  RInv'
<1>1. Typed /\ TypeOK
    BY DEF RInv, Typed
<1>2. Sessions' = Sessions
    BY DEF wallet, Sessions
<1>3. sess.id \in {None} \cup Sessions
    BY <1>1 DEF TypeOK
<1>4. PICK m \in {Msg("Delete", sess.id), Msg("Cancel", None)} : Ask(m)
    BY DEF ResetSession
<1>5. m \in Requests /\ m.cmd # "StartSession"
    <2>1. m \in Requests
        BY <1>1, <1>3, <1>4, Messages
    <2> QED BY <1>4, <2>1 DEF Msg
<1>6. pc' = "reset" /\ then' = next /\ sess' = [sess EXCEPT !.state = "idle"] /\ asked' = m
    BY <1>4 DEF ResetSession, Ask
<1>7. /\ req' = m /\ rsp' = NoMsg /\ MailTypes'
      /\ harm' \subseteq Harms /\ harm \subseteq harm'
    BY <1>1, <1>4, <1>5, WrittenMail DEF Ask, MailTypes
<1>8. TypeOK'
    <2>1. ShownTypes'
        <3>1. shown' \in {None} \cup Sessions' /\ psi' \in {None} \cup Sessions'
            BY <1>1, <1>2, TypeParts DEF ShownTypes
        <3>2. sess' \in [state : {"idle", "qr", "rewards"}, id : {None} \cup Sessions',
                         rewards : {None} \cup Sessions', nfc : BOOLEAN]
            BY <1>1, <1>2, <1>6, TypeParts DEF ShownTypes
        <3> QED BY <3>1, <3>2 DEF ShownTypes
    <2>2. QueryTypes'
        BY <1>1, TypeParts DEF QueryTypes
    <2>3. ThreadTypes'
        BY <1>5, <1>6 DEF ThreadTypes, Places
    <2>4. SaleTypes'
        BY <1>1, TypeParts DEF SaleTypes
    <2>5. BoundTypes'
        BY <1>1, <1>7, TypeParts DEF BoundTypes, bounds
    <2> QED BY <1>1, <1>2, <1>7, <2>1, <2>2, <2>3, <2>4, <2>5, FrameTypes, TypePartsNext
<1>9. Typed'
    BY <1>1, <1>2, <1>5, <1>6, <1>7, <1>8 DEF Typed, Serving, wallet, NoMsg
<1>10. Scanned'
    BY <1>6 DEF Scanned
<1>11. Own => Own'
    BY <1>6 DEF Own, OutsidePoll
<1> QED BY <1>7, <1>9, <1>10, <1>11 DEF RInv

LEMMA ResetsKeep ==
    ASSUME WInv, RInv,
           \/ QrInvalid \/ QrTimesOut \/ RewardsFailed
           \/ pc = "poll" /\ PosEvent
           \/ sess.rewards = None /\ sess.nfc /\ CheckPaymentSession
           \/ CheckEnds \/ PayWithCard \/ RemoveCommand
    PROVE  RInv'
<1>1. Typed /\ TypeOK
    BY DEF RInv, Typed
<1>2. /\ UNCHANGED <<wallet, shown, query, loyalty, psi, given, told, sale, bounds>>
      /\ edp' \in {edp, TRUE}
    BY DEF QrInvalid, QrTimesOut, RewardsFailed, PosEvent, CheckPaymentSession,
           CheckEnds, PayWithCard, RemoveCommand, pos
<1>3. PICK next \in {"idle", "poll", "tell"} :
        /\ \E delete \in BOOLEAN : ResetSession(sess, delete, next)
        /\ next # "idle" => pc \in {"poll", "answer", "check"}
        /\ next = "tell" => pc \in {"answer", "check"}
    BY DEF QrInvalid, QrTimesOut, RewardsFailed, PosEvent, CheckPaymentSession,
           CheckEnds, PayWithCard, RemoveCommand, SessionFails
<1>4. /\ edp' \in BOOLEAN /\ loyalty' \in {None} \cup Customers /\ told' \in [Sales -> Tellings]
      /\ query' \in [nr : {None} \cup Customers, kind : {"qr", "nfc", "plain"}]
    BY <1>1, <1>2, TypeParts DEF QueryTypes, SaleTypes
<1>5. next # "idle" => query'.nr # None
    BY <1>1, <1>2, <1>3 DEF Typed, Serving
<1>6. Own /\ next = "tell" => loyalty' \in {None, query'.nr}
    BY <1>2, <1>3 DEF Own
<1> QED BY <1>2, <1>3, <1>4, <1>5, <1>6, ResetKeeps

LEMMA BeginsKeep ==
    ASSUME WInv, RInv, NEW kind \in {"qr", "nfc", "plain"}, BeginQuery(kind)
    PROVE  RInv'
<1>1. Typed /\ TypeOK
    BY DEF RInv, Typed
<1>2. /\ query' = [nr |-> query.nr + 1, kind |-> kind] /\ query.nr < MaxQueries
      /\ edp' = (kind # "plain") /\ loyalty' = None /\ pc = "idle"
      /\ UNCHANGED <<wallet, shown, psi, given, told, sale, bounds>>
    BY DEF BeginQuery, pos
<1>3. /\ query' \in [nr : {None} \cup Customers, kind : {"qr", "nfc", "plain"}]
      /\ query'.nr # None
    <2>1. query.nr \in {None} \cup Customers
        BY <1>1 DEF TypeOK
    <2>2. query.nr + 1 \in Customers /\ query.nr + 1 # None
        BY <1>2, <2>1, WalletAssumption DEF Customers, None
    <2> QED BY <1>2, <2>2
<1>4. edp' \in BOOLEAN /\ loyalty' \in {None} \cup Customers /\ told' \in [Sales -> Tellings]
    BY <1>1, <1>2, TypeParts DEF SaleTypes
<1>5. CASE kind # "plain"
    <2>1. ResetSession(sess, TRUE, "poll")
        BY <1>5 DEF BeginQuery
    <2> QED BY <1>2, <1>3, <1>4, <2>1, ResetKeeps
<1>6. CASE kind = "plain"
    <2>1. pc' = "tap" /\ UNCHANGED <<mail, sess, asked, then, harm>>
        BY <1>6 DEF BeginQuery
    <2>2. Sessions' = Sessions
        BY <1>2 DEF wallet, Sessions
    <2>3. TypeOK'
        <3>1. QueryTypes'
            BY <1>1, <1>2, <1>3, <1>4, TypeParts DEF QueryTypes
        <3>2. ThreadTypes'
            BY <1>1, <2>1, TypeParts DEF ThreadTypes, Places
        <3> QED BY <1>1, <1>2, <2>1, <2>2, <3>1, <3>2, FrameTypes, TypePartsNext
    <2>4. Typed'
        BY <1>1, <1>2, <1>3, <2>1, <2>2, <2>3 DEF Typed, mail, wallet
    <2>5. Scanned'
        BY <1>2, <1>6, <2>1 DEF Scanned
    <2>6. Own => Own'
        BY <1>2, <2>1 DEF Own, OutsidePoll, mail
    <2> QED BY <2>1, <2>4, <2>5, <2>6 DEF RInv
<1> QED BY <1>5, <1>6

LEMMA FinishKeeps == ASSUME WInv, RInv, FinishSale PROVE RInv'
<1>1. Typed /\ TypeOK
    BY DEF RInv, Typed
<1>2. /\ UNCHANGED <<wallet, shown, edp, query, loyalty, psi, given, sale, bounds>>
      /\ ResetSession(sess, FALSE, "idle")
    BY DEF FinishSale
<1>3. told' \in [Sales -> Tellings]
    <2>1. PICK printed \in BOOLEAN :
            told' = [told EXCEPT ![sale.nr] =
                        CASE sale.rc = "TO" -> "unanswered"
                          [] sale.rc = "00" /\ ~printed -> "unprinted"
                          [] sale.rc = "00" /\ printed -> "approved"
                          [] OTHER -> "declined"]
        BY DEF FinishSale
    <2>2. told \in [Sales -> Tellings]
        BY DEF WInv, Known, Shaped
    <2> QED BY <2>1, <2>2 DEF Tellings
<1>4. /\ edp' \in BOOLEAN /\ loyalty' \in {None} \cup Customers
      /\ query' \in [nr : {None} \cup Customers, kind : {"qr", "nfc", "plain"}]
    BY <1>1, <1>2, TypeParts DEF QueryTypes
<1> QED BY <1>2, <1>3, <1>4, ResetKeeps

LEMMA CodeKeeps == ASSUME WInv, RInv, StartSession \/ Rotate PROVE RInv'
<1>1. Typed /\ TypeOK
    BY DEF RInv, Typed
<1>2. PICK create \in BOOLEAN : SendGenerateQR(create)
    BY DEF StartSession, Rotate
<1>3. /\ pc = "poll" /\ UNCHANGED <<wallet, shown, edp, query, loyalty, asked, pc, then, pos, sale>>
      /\ failures' = failures /\ rotations' \in 0 .. MaxRotations
      /\ sess.state \in {"idle", "rewards"}
    <2>1. rotations \in 0 .. MaxRotations
        BY <1>1, TypeParts DEF BoundTypes
    <2>2. rotations < MaxRotations => rotations + 1 \in 0 .. MaxRotations
        BY <2>1, WalletAssumption
    <2>3. CASE StartSession
        BY <2>1, <2>3 DEF StartSession, bounds
    <2>4. CASE Rotate
        BY <2>2, <2>4 DEF Rotate
    <2> QED BY <2>3, <2>4
<1>4. Sessions' = Sessions
    BY <1>3 DEF wallet, Sessions
<1>5. query.nr \in Customers /\ pc' = "poll"
    BY <1>1, <1>3 DEF Typed, Serving, TypeOK
<1>6. PICK m \in {Msg("StartSession", query.nr), Msg("RefreshQR", None)} : Written(m)
    BY <1>2 DEF SendGenerateQR
<1>7. m \in Requests /\ (m.cmd = "StartSession" => m.nr = query.nr) /\ m # NoMsg
    <2>1. m \in Requests
        BY <1>1, <1>5, <1>6, Messages
    <2> QED BY <1>6, <2>1 DEF Msg, NoMsg
<1>8. /\ req' = m /\ rsp' = NoMsg /\ seen' = FALSE /\ MailTypes'
      /\ harm' \subseteq Harms /\ harm \subseteq harm'
      /\ "late" \notin harm' => app.doing = NoMsg
    BY <1>1, <1>6, <1>7, WrittenMail DEF MailTypes
<1>9. sess' = [sess EXCEPT !.state = "qr"]
    BY <1>2 DEF SendGenerateQR
<1>10. /\ sess \in [state : {"idle", "qr", "rewards"}, id : {None} \cup Sessions,
                    rewards : {None} \cup Sessions, nfc : BOOLEAN]
       /\ sess'.state = "qr" /\ sess'.id = sess.id
    BY <1>1, <1>9 DEF TypeOK
<1>11. TypeOK'
    <2>1. ShownTypes'
        <3>1. shown' \in {None} \cup Sessions' /\ psi' \in {None} \cup Sessions'
            BY <1>1, <1>3, <1>4, TypeParts DEF ShownTypes, pos
        <3>2. sess' \in [state : {"idle", "qr", "rewards"}, id : {None} \cup Sessions',
                         rewards : {None} \cup Sessions', nfc : BOOLEAN]
            BY <1>4, <1>9, <1>10
        <3> QED BY <3>1, <3>2 DEF ShownTypes
    <2>2. BoundTypes'
        BY <1>1, <1>3, <1>8, TypeParts DEF BoundTypes
    <2> QED BY <1>1, <1>3, <1>4, <1>8, <2>1, <2>2, FrameTypes, TypePartsNext DEF pos
<1>12. Typed'
    BY <1>1, <1>3, <1>4, <1>5, <1>7, <1>8, <1>11 DEF Typed, Serving, wallet, NoMsg
<1>13. ASSUME Scanned, "late" \notin harm' PROVE Scanned'
    <2>1. app'.doing = NoMsg /\ app' = app /\ opened' = opened
        BY <1>3, <1>8, <1>13 DEF wallet
    <2>2. pc' = "poll" /\ rsp'.cmd = "none" /\ req' = m
        BY <1>5, <1>8 DEF NoMsg
    <2>3. CASE sess.state = "idle"
        <3>1. sess'.id = None
            BY <1>3, <1>10, <1>13, <2>3 DEF Scanned
        <3>2. ForThisCustomer' /\ InTurn'
            BY <1>3, <1>7, <1>10, <2>1, <2>2, <3>1 DEF ForThisCustomer, InTurn, NoMsg
        <3> QED BY <1>10, <2>2, <3>2 DEF Scanned
    <2>4. CASE sess.state = "rewards"
        <3>1. ForThisCustomer /\ InTurn /\ rsp = NoMsg
            BY <1>3, <1>13, <2>4 DEF Scanned, StartSession, Rotate
        <3>2. ForThisCustomer'
            BY <1>3, <1>7, <1>10, <2>1, <2>2, <3>1 DEF ForThisCustomer, NoMsg
        <3>3. InTurn'
            BY <1>3, <1>10, <2>1, <2>2, <3>1 DEF InTurn, NoMsg
        <3> QED BY <1>10, <2>2, <3>2, <3>3 DEF Scanned
    <2> QED BY <1>3, <2>3, <2>4
<1>14. Own => Own'
    BY <1>3 DEF Own, OutsidePoll, pos
<1> QED BY <1>8, <1>12, <1>13, <1>14 DEF RInv

\* the requests outside a query
LEMMA AsksKeep == ASSUME WInv, RInv, Pay \/ DeleteCommand PROVE RInv'
<1>1. Typed /\ TypeOK
    BY DEF RInv, Typed
<1>2. /\ UNCHANGED <<wallet, shown, sess, query, loyalty, then, pos, bounds>>
      /\ edp' \in {edp, TRUE} /\ pc = "idle" /\ pc' \in {"pay", "delete"}
    BY DEF Pay, DeleteCommand
<1>3. Sessions' = Sessions
    BY <1>2 DEF wallet, Sessions
<1>4. sale.nr \in {None} \cup Sales /\ psi \in {None} \cup Sessions
    BY <1>1 DEF TypeOK
<1>5. PICK m \in {Msg("DigitalPayment", sale.nr + 1), Msg("Delete", psi)} :
        /\ Ask(m) /\ m \in Requests
        /\ sale' \in [nr : {None} \cup Sales, rc : {"blank", "00", "01", "RA", "TO"}]
    <2>1. CASE Pay
        <3>1. sale.nr + 1 \in Sales
            BY <1>4, <2>1, WalletAssumption DEF Pay, Sales, None
        <3>2. Msg("DigitalPayment", sale.nr + 1) \in Requests
            BY <1>1, <3>1, Messages
        <3> QED BY <2>1, <3>1, <3>2 DEF Pay
    <2>2. CASE DeleteCommand
        <3>1. Msg("Delete", psi) \in Requests
            BY <1>1, <1>4, Messages
        <3> QED BY <1>1, <2>2, <3>1 DEF DeleteCommand, TypeOK
    <2> QED BY <2>1, <2>2
<1>6. /\ req' = m /\ rsp' = NoMsg /\ MailTypes' /\ asked' = m
      /\ harm' \subseteq Harms /\ harm \subseteq harm'
    BY <1>1, <1>5, WrittenMail DEF MailTypes, Ask
<1>7. m.cmd # "StartSession"
    BY <1>5 DEF Msg
<1>8. TypeOK'
    <2>1. QueryTypes'
        BY <1>1, <1>2, TypeParts DEF QueryTypes, pos
    <2>2. ThreadTypes'
        BY <1>1, <1>2, <1>5, <1>6, TypeParts DEF ThreadTypes, Places
    <2>3. SaleTypes'
        BY <1>1, <1>2, <1>5, TypeParts DEF SaleTypes, pos
    <2>4. BoundTypes'
        BY <1>1, <1>2, <1>6, TypeParts DEF BoundTypes, bounds
    <2> QED BY <1>1, <1>2, <1>3, <1>6, <2>1, <2>2, <2>3, <2>4, FrameTypes, TypePartsNext DEF pos
<1>9. Typed'
    BY <1>1, <1>2, <1>3, <1>6, <1>7, <1>8 DEF Typed, Serving, wallet, NoMsg
<1>10. Scanned'
    BY <1>2 DEF Scanned
<1>11. Own => Own'
    BY <1>2, <1>6 DEF Own, pos, NoMsg
<1> QED BY <1>6, <1>9, <1>10, <1>11 DEF RInv

-----------------------------------------------------------------------------
(* The answers. *)

\* an answer that is read
LEMMA ReceivedMail ==
    ASSUME TypeOK, NEW keep, Received(keep)
    PROVE  /\ rsp # NoMsg /\ req' = NoMsg /\ rsp' \in {rsp, NoMsg} /\ seen' = FALSE
           /\ ~keep => rsp' = NoMsg
           /\ MailTypes'
<1>1. NoMsg \in Requests /\ NoMsg \in Answers /\ rsp \in Answers
    BY Messages DEF TypeOK
<1> QED BY <1>1 DEF Received, MailTypes

LEMMA ResetEndKeeps == ASSUME WInv, RInv, ResetAnswered \/ ResetTimesOut PROVE RInv'
<1>1. Typed /\ TypeOK
    BY DEF RInv, Typed
<1>2. /\ UNCHANGED <<wallet, shown, edp, query, loyalty, asked, pos, sale, bounds>>
      /\ pc = "reset" /\ sess' = NoSession /\ pc' = then /\ then' = "idle"
    BY DEF ResetAnswered, ResetTimesOut, Resumed
<1>3. Sessions' = Sessions
    BY <1>2 DEF wallet, Sessions
<1>4. /\ MailTypes' /\ rsp' \in {rsp, NoMsg} /\ req' \in {req, NoMsg}
      /\ harm' \subseteq Harms /\ harm \subseteq harm'
      /\ harm' = {} => rsp'.cmd # "rewards"
    <2>1. harm \subseteq Harms /\ "stray" \in Harms /\ "unheard" \in Harms
        BY <1>1 DEF TypeOK, Harms
    <2>2. CASE ResetAnswered
        <3>1. /\ MailTypes' /\ rsp' \in {rsp, NoMsg} /\ req' = NoMsg
              /\ asked.cmd # "Cancel" => rsp' = NoMsg
            BY <1>1, <2>2, ReceivedMail DEF ResetAnswered
        <3>2. harm' = IF asked.cmd = "Cancel" /\ rsp.cmd # "ok" THEN harm \cup {"stray"} ELSE harm
            BY <2>2 DEF ResetAnswered
        <3> QED BY <2>1, <3>1, <3>2 DEF NoMsg
    <2>3. CASE ResetTimesOut
        BY <1>1, <2>1, <2>3, TypeParts DEF ResetTimesOut, MailTypes, mail
    <2> QED BY <2>2, <2>3
<1>5. then \in {"idle", "poll", "tell"}
    BY <1>1 DEF TypeOK
<1>6. TypeOK'
    <2>1. ShownTypes'
        <3>1. shown' \in {None} \cup Sessions' /\ psi' \in {None} \cup Sessions'
            BY <1>1, <1>2, <1>3, TypeParts DEF ShownTypes, pos
        <3>2. NoSession \in [state : {"idle", "qr", "rewards"}, id : {None} \cup Sessions',
                             rewards : {None} \cup Sessions', nfc : BOOLEAN]
            BY DEF NoSession
        <3> QED BY <1>2, <3>1, <3>2 DEF ShownTypes
    <2>2. ThreadTypes'
        BY <1>1, <1>2, <1>5, TypeParts DEF ThreadTypes, Places
    <2>3. BoundTypes'
        BY <1>1, <1>2, <1>4, TypeParts DEF BoundTypes, bounds
    <2> QED BY <1>1, <1>2, <1>3, <1>4, <2>1, <2>2, <2>3, FrameTypes, TypePartsNext DEF pos
<1>7. Typed'
    BY <1>1, <1>2, <1>3, <1>4, <1>5, <1>6 DEF Typed, Serving, wallet, NoMsg
<1>8. Scanned'
    BY <1>2, <1>5 DEF Scanned, NoSession, None
<1>9. ASSUME Own, harm' = {} PROVE Own'
    BY <1>2, <1>4, <1>5, <1>9 DEF Own, pos
<1> QED BY <1>4, <1>7, <1>8, <1>9 DEF RInv

LEMMA QrKeeps == ASSUME WInv, RInv, QrReceived PROVE RInv'
<1>1. Typed /\ TypeOK
    BY DEF RInv, Typed
<1>2. /\ UNCHANGED <<wallet, edp, query, loyalty, asked, pc, then, pos, sale, bounds, harm>>
      /\ pc = "poll" /\ sess.state = "qr"
      /\ rsp.cmd = "qr" \/ (rsp.cmd = "fresh" /\ sess.id # None)
      /\ sess' = [sess EXCEPT !.state = "rewards", !.id = IF rsp.cmd = "qr" THEN rsp.nr ELSE @]
      /\ shown' = IF rsp.cmd = "qr" THEN rsp.nr ELSE shown
    BY DEF QrReceived
<1>3. Sessions' = Sessions /\ app' = app /\ opened' = opened
    BY <1>2 DEF wallet, Sessions
<1>4. rsp' = NoMsg /\ req' = NoMsg /\ seen' = FALSE /\ MailTypes'
    BY <1>1, ReceivedMail DEF QrReceived
<1>5. /\ rsp.nr \in Sessions
      /\ sess \in [state : {"idle", "qr", "rewards"}, id : {None} \cup Sessions,
                   rewards : {None} \cup Sessions, nfc : BOOLEAN]
    BY <1>1, <1>2 DEF Typed, TypeOK
<1>6. sess'.state = "rewards" /\ sess'.id = IF rsp.cmd = "qr" THEN rsp.nr ELSE sess.id
    BY <1>2, <1>5
<1>7. TypeOK'
    <2>1. ShownTypes'
        <3>1. shown' \in {None} \cup Sessions' /\ psi' \in {None} \cup Sessions'
            BY <1>1, <1>2, <1>3, <1>5, TypeParts DEF ShownTypes, pos
        <3>2. sess' \in [state : {"idle", "qr", "rewards"}, id : {None} \cup Sessions',
                         rewards : {None} \cup Sessions', nfc : BOOLEAN]
            BY <1>2, <1>3, <1>5
        <3> QED BY <3>1, <3>2 DEF ShownTypes
    <2> QED BY <1>1, <1>2, <1>3, <1>4, <2>1, FrameTypes, TypePartsNext DEF pos
<1>8. Typed'
    BY <1>1, <1>2, <1>3, <1>4, <1>7 DEF Typed, Serving, NoMsg
<1>9. ASSUME Scanned PROVE Scanned'
    <2>1. ForThisCustomer /\ InTurn
        BY <1>2, <1>9 DEF Scanned
    <2>2. app.doing = NoMsg
        BY <1>2, <2>1 DEF InTurn
    <2>3. rsp.nr # None
        BY <1>1, <1>5, NoneIsNoSession
    <2>4. sess'.id # None /\ shown' = sess'.id /\ opened[sess'.id] = query.nr
        BY <1>2, <1>6, <2>1, <2>3 DEF ForThisCustomer
    <2>5. app.polls \in {None, sess'.id}
        BY <1>2, <1>6, <2>1 DEF ForThisCustomer, InTurn
    <2>6. ForThisCustomer'
        BY <1>2, <1>3, <1>4, <2>2, <2>4 DEF ForThisCustomer, NoMsg
    <2>7. InTurn'
        BY <1>3, <1>4, <2>2, <2>4, <2>5 DEF InTurn, NoMsg
    <2> QED BY <1>2, <1>6, <2>6, <2>7 DEF Scanned
<1>10. Own => Own'
    BY <1>2 DEF Own, OutsidePoll, pos
<1> QED BY <1>2, <1>8, <1>9, <1>10 DEF RInv

LEMMA RewardsKeep == ASSUME WInv, RInv, RewardsReceived PROVE RInv'
<1>1. Typed /\ TypeOK
    BY DEF RInv, Typed
<1>2. /\ UNCHANGED <<wallet, shown, edp, query, asked, then, pos, sale, bounds, harm>>
      /\ Awaiting /\ rsp.cmd = "rewards"
      /\ sess' = [sess EXCEPT !.state = "idle", !.rewards = rsp.nr]
      /\ loyalty' = opened[rsp.nr] /\ pc' = "answer"
    BY DEF RewardsReceived
<1>3. Sessions' = Sessions /\ app' = app /\ opened' = opened
    BY <1>2 DEF wallet, Sessions
<1>4. rsp' = NoMsg /\ req' = NoMsg /\ MailTypes'
    BY <1>1, ReceivedMail DEF RewardsReceived
<1>5. /\ rsp.nr \in Sessions /\ loyalty' \in Customers
      /\ sess \in [state : {"idle", "qr", "rewards"}, id : {None} \cup Sessions,
                   rewards : {None} \cup Sessions, nfc : BOOLEAN]
    BY <1>1, <1>2 DEF Typed, TypeOK
<1>6. sess'.rewards = rsp.nr /\ sess'.id = sess.id /\ rsp.nr # None
    <2>1. rsp.nr # None
        BY <1>1, <1>5, NoneIsNoSession
    <2> QED BY <1>2, <1>5, <2>1
<1>7. pc \in {"poll", "check"} /\ (pc = "poll" => sess.state = "rewards")
    BY <1>2 DEF Awaiting
<1>8. TypeOK'
    <2>1. ShownTypes'
        <3>1. shown' \in {None} \cup Sessions' /\ psi' \in {None} \cup Sessions'
            BY <1>1, <1>2, <1>3, TypeParts DEF ShownTypes, pos
        <3>2. sess' \in [state : {"idle", "qr", "rewards"}, id : {None} \cup Sessions',
                         rewards : {None} \cup Sessions', nfc : BOOLEAN]
            BY <1>2, <1>3, <1>5
        <3> QED BY <3>1, <3>2 DEF ShownTypes
    <2>2. QueryTypes'
        BY <1>1, <1>2, <1>5, TypeParts DEF QueryTypes, pos
    <2>3. ThreadTypes'
        BY <1>1, <1>2, TypeParts DEF ThreadTypes, Places
    <2> QED BY <1>1, <1>2, <1>3, <1>4, <2>1, <2>2, <2>3, FrameTypes, TypePartsNext DEF pos
<1>9. Typed'
    BY <1>1, <1>2, <1>3, <1>4, <1>7, <1>8 DEF Typed, Serving, NoMsg
<1>10. ASSUME Scanned, pc = "poll"
       PROVE  /\ rsp.nr = sess.id /\ opened[sess.id] = query.nr
    <2>1. ForThisCustomer /\ InTurn
        BY <1>7, <1>10 DEF Scanned
    <2>2. rsp = Msg("rewards", sess.id) /\ sess.id # None
        BY <1>2, <1>7, <1>10, <2>1 DEF InTurn, NoMsg
    <2> QED BY <2>1, <2>2 DEF ForThisCustomer, Msg
<1>11. ASSUME Scanned PROVE Scanned'
    <2>1. CASE pc = "poll"
        BY <1>2, <1>3, <1>6, <1>10, <1>11, <2>1 DEF Scanned
    <2>2. CASE pc = "check"
        BY <1>2, <1>11, <2>2 DEF Scanned
    <2> QED BY <1>7, <2>1, <2>2
<1>12. ASSUME Own, harm = {} PROVE Own'
    <2>1. pc = "poll" /\ Scanned
        BY <1>2, <1>7, <1>12 DEF Own, OutsidePoll, RInv
    <2>2. loyalty' = query.nr
        BY <1>2, <1>10, <2>1
    <2> QED BY <1>2, <1>4, <1>12, <2>2 DEF Own, pos, NoMsg
<1> QED BY <1>2, <1>9, <1>11, <1>12 DEF RInv

LEMMA OthersKeep ==
    ASSUME WInv, RInv, OtherAnswer \/ PayAnswered \/ PayTimesOut \/ Deleted
    PROVE  RInv'
<1>1. Typed /\ TypeOK
    BY DEF RInv, Typed
<1>2. /\ UNCHANGED <<wallet, shown, sess, edp, query, loyalty, asked, then, pos, bounds, harm>>
      /\ \/ Awaiting /\ pc' = pc
         \/ pc \in {"pay", "delete"} /\ pc' \in {"receipts", "idle"}
      /\ sale' \in [nr : {None} \cup Sales, rc : {"blank", "00", "01", "RA", "TO"}]
    <2>1. sale \in [nr : {None} \cup Sales, rc : {"blank", "00", "01", "RA", "TO"}]
        BY <1>1 DEF TypeOK
    <2>2. \A answer : ResponseCode(answer) \in {"00", "01", "RA"}
        BY DEF ResponseCode
    <2>3. CASE OtherAnswer
        BY <2>1, <2>3 DEF OtherAnswer, terminal
    <2>4. CASE PayAnswered
        BY <2>1, <2>2, <2>4 DEF PayAnswered
    <2>5. CASE PayTimesOut
        BY <2>1, <2>5 DEF PayTimesOut
    <2>6. CASE Deleted
        BY <2>1, <2>6 DEF Deleted
    <2> QED BY <2>3, <2>4, <2>5, <2>6
<1>3. Sessions' = Sessions /\ app' = app /\ opened' = opened
    BY <1>2 DEF wallet, Sessions
<1>4. /\ MailTypes' /\ rsp' \in {rsp, NoMsg} /\ req' \in {req, NoMsg}
      /\ Awaiting /\ pc' = pc => rsp' = NoMsg /\ req' = NoMsg
    <2>1. CASE UNCHANGED mail
        <3>1. ~ (Awaiting /\ pc' = pc)
            BY <2>1, <1>1, ReceivedMail DEF OtherAnswer, PayAnswered, PayTimesOut, Deleted, Awaiting, mail
        <3> QED BY <1>1, <2>1, <3>1, FrameTypes, <1>3 DEF mail
    <2>2. CASE Received(FALSE)
        BY <1>1, <2>2, ReceivedMail
    <2> QED BY <2>1, <2>2 DEF OtherAnswer, PayAnswered, PayTimesOut, Deleted
<1>5. TypeOK'
    <2>1. ThreadTypes'
        BY <1>1, <1>2, TypeParts DEF ThreadTypes, Places
    <2>2. SaleTypes'
        BY <1>1, <1>2, TypeParts DEF SaleTypes, pos
    <2> QED BY <1>1, <1>2, <1>3, <1>4, <2>1, <2>2, FrameTypes, TypePartsNext DEF pos
<1>6. Typed'
    BY <1>1, <1>2, <1>3, <1>4, <1>5 DEF Typed, Serving, NoMsg
<1>7. ASSUME Scanned PROVE Scanned'
    <2>1. CASE pc \in {"pay", "delete"}
        BY <1>2, <2>1 DEF Scanned, Awaiting
    <2>2. CASE pc = "check" /\ pc' = pc
        BY <1>2, <1>7, <2>2 DEF Scanned
    <2>3. CASE pc = "poll" /\ sess.state = "rewards" /\ pc' = pc
        <3>1. ForThisCustomer /\ InTurn
            BY <1>7, <2>3 DEF Scanned
        <3>2. rsp' = NoMsg /\ req' = NoMsg
            BY <1>4, <2>3 DEF Awaiting
        <3>3. rsp.cmd # "qr" /\ app.doing = NoMsg
            BY <2>3, <3>1 DEF InTurn, Msg, NoMsg
        <3>4. ForThisCustomer'
            BY <1>2, <1>3, <3>1, <3>2, <3>3 DEF ForThisCustomer, NoMsg
        <3>5. InTurn'
            BY <1>2, <1>3, <3>1, <3>2, <3>3 DEF InTurn, NoMsg
        <3> QED BY <1>2, <2>3, <3>4, <3>5 DEF Scanned
    <2> QED BY <1>2, <2>1, <2>2, <2>3 DEF Awaiting
<1>8. Own => Own'
    <2>1. OutsidePoll' => OutsidePoll
        BY <1>2 DEF OutsidePoll
    <2> QED BY <1>2, <1>4, <2>1 DEF Own, pos, Awaiting, NoMsg
<1> QED BY <1>2, <1>6, <1>7, <1>8 DEF RInv

-----------------------------------------------------------------------------
(* The query goes on, and the power fails. *)

LEMMA TapKeeps == ASSUME WInv, RInv, Tap PROVE RInv'
<1>1. Typed /\ TypeOK
    BY DEF RInv, Typed
<1>2. /\ UNCHANGED <<mail, wallet, shown, edp, query, asked, then, pos, sale, bounds, harm>>
      /\ pc = "tap" \/ (pc = "poll" /\ sess.state # "idle")
      /\ loyalty' = query.nr /\ pc' = "answer"
      /\ sess' = [sess EXCEPT !.nfc = (pc = "poll")]
    BY DEF Tap
<1>3. Sessions' = Sessions /\ opened' = opened
    BY <1>2 DEF wallet, Sessions
<1>4. sess \in [state : {"idle", "qr", "rewards"}, id : {None} \cup Sessions,
                rewards : {None} \cup Sessions, nfc : BOOLEAN]
    BY <1>1 DEF TypeOK
<1>5. sess'.id = sess.id /\ sess'.rewards = sess.rewards /\ (pc = "poll" => sess'.nfc)
    BY <1>2, <1>4
<1>6. TypeOK'
    <2>1. ShownTypes'
        <3>1. shown' \in {None} \cup Sessions' /\ psi' \in {None} \cup Sessions'
            BY <1>1, <1>2, <1>3, TypeParts DEF ShownTypes, pos
        <3>2. sess' \in [state : {"idle", "qr", "rewards"}, id : {None} \cup Sessions',
                         rewards : {None} \cup Sessions', nfc : BOOLEAN]
            BY <1>2, <1>3, <1>4
        <3> QED BY <3>1, <3>2 DEF ShownTypes
    <2>2. QueryTypes'
        <3>1. loyalty' \in {None} \cup Customers
            BY <1>1, <1>2 DEF TypeOK
        <3> QED BY <1>1, <1>2, <3>1, TypeParts DEF QueryTypes, pos
    <2>3. ThreadTypes'
        BY <1>1, <1>2, TypeParts DEF ThreadTypes, Places
    <2> QED BY <1>1, <1>2, <1>3, <2>1, <2>2, <2>3, FrameTypes, TypePartsNext DEF pos
<1>7. Typed'
    BY <1>1, <1>2, <1>3, <1>6 DEF Typed, Serving, mail, wallet
<1>8. ASSUME Scanned PROVE Scanned'
    <2>1. CASE pc = "tap"
        BY <1>2, <1>8, <2>1 DEF Scanned
    <2>2. CASE pc = "poll"
        <3>1. sess'.rewards = None /\ sess'.nfc
            BY <1>5, <2>2 DEF WInv, Known, Placed
        <3> QED BY <1>2, <3>1 DEF Scanned
    <2> QED BY <1>2, <2>1, <2>2
<1>9. ASSUME Own PROVE Own'
    <2>1. OutsidePoll' => OutsidePoll
        <3>1. CASE pc = "tap"
            BY <3>1 DEF OutsidePoll
        <3>2. CASE pc = "poll"
            <4>1. sess'.rewards = None /\ sess'.nfc
                BY <1>5, <3>2 DEF WInv, Known, Placed
            <4> QED BY <1>2, <4>1 DEF OutsidePoll, None
        <3> QED BY <1>2, <3>1, <3>2
    <2> QED BY <1>2, <1>9, <2>1 DEF Own, pos, mail
<1> QED BY <1>2, <1>7, <1>8, <1>9 DEF RInv

LEMMA MovesKeep ==
    ASSUME WInv, RInv,
           \/ pc = "tap" /\ PosEvent
           \/ ~(sess.rewards = None /\ sess.nfc) /\ CheckPaymentSession
           \/ Tell
    PROVE  RInv'
<1>1. Typed /\ TypeOK
    BY DEF RInv, Typed
<1>2. /\ UNCHANGED <<mail, wallet, shown, sess, edp, query, loyalty, asked, then, told, sale,
                     bounds, harm>>
      /\ \/ pc = "tap" /\ pc' = "idle" /\ UNCHANGED <<psi, given>>
         \/ pc = "answer" /\ sess.rewards # None /\ pc' = "tell" /\ UNCHANGED <<psi, given>>
         \/ pc = "answer" /\ sess.rewards = None /\ ~sess.nfc /\ pc' = "check"
            /\ UNCHANGED <<psi, given>>
         \/ /\ pc = "tell" /\ pc' = "idle"
            /\ psi' = IF edp /\ sess.rewards # None THEN sess.id ELSE None
            /\ given' = [served |-> query.nr, number |-> loyalty]
    BY DEF PosEvent, CheckPaymentSession, Tell, pos
<1>3. Sessions' = Sessions /\ opened' = opened
    BY <1>2 DEF wallet, Sessions
<1>4. psi' \in {None} \cup Sessions /\ given' \in [served : {None} \cup Customers,
                                                  number : {None} \cup Customers]
    <2>1. /\ psi \in {None} \cup Sessions /\ sess.id \in {None} \cup Sessions
          /\ given \in [served : {None} \cup Customers, number : {None} \cup Customers]
          /\ query.nr \in {None} \cup Customers /\ loyalty \in {None} \cup Customers
        BY <1>1 DEF TypeOK
    <2> QED BY <1>2, <2>1
<1>5. TypeOK'
    <2>1. ShownTypes'
        BY <1>1, <1>2, <1>3, <1>4, TypeParts DEF ShownTypes
    <2>2. QueryTypes'
        BY <1>1, <1>2, <1>4, TypeParts DEF QueryTypes
    <2>3. ThreadTypes'
        BY <1>1, <1>2, TypeParts DEF ThreadTypes, Places
    <2> QED BY <1>1, <1>2, <1>3, <2>1, <2>2, <2>3, FrameTypes, TypePartsNext
<1>6. Typed'
    BY <1>1, <1>2, <1>3, <1>5 DEF Typed, Serving, mail, wallet
<1>7. ASSUME Scanned PROVE Scanned'
    BY <1>2, <1>3, <1>7 DEF Scanned
<1>8. ASSUME Own PROVE Own'
    <2>1. OutsidePoll' => OutsidePoll
        BY <1>2 DEF OutsidePoll
    <2>2. given'.number \in {None, given'.served}
        BY <1>2, <1>8 DEF Own
    <2>3. pc' \in {"answer", "check", "tell"} => loyalty' \in {None, query'.nr}
        BY <1>2, <1>8 DEF Own
    <2>4. pc' # "reset"
        BY <1>2
    <2> QED BY <1>2, <1>8, <2>1, <2>2, <2>3, <2>4 DEF Own, mail
<1> QED BY <1>2, <1>6, <1>7, <1>8 DEF RInv

LEMMA PowerKeeps == ASSUME WInv, RInv, PowerFail PROVE RInv'
<1>1. Typed /\ TypeOK
    BY DEF RInv, Typed
<1>2. /\ UNCHANGED <<req, rsp, opened, shown, query, loyalty, asked, psi, given, sale, paid,
                     rotations>>
      /\ sess' = NoSession /\ edp' = FALSE /\ seen' = FALSE /\ app' = Idle
      /\ pc' = "idle" /\ then' = "idle" /\ harm' = harm \cup {"cut"}
      /\ failures < MaxFailures /\ failures' = failures + 1
      /\ told' = IF pc \in {"pay", "receipts"} THEN [told EXCEPT ![sale.nr] = "power fail"]
                 ELSE told
    BY DEF PowerFail
<1>3. Sessions' = Sessions
    BY <1>2 DEF Sessions
<1>4. TypeOK'
    <2>1. MailTypes'
        BY <1>1, <1>2, TypeParts DEF MailTypes
    <2>2. WalletTypes'
        <3>1. app' \in [doing : Requests, polls : 0 .. MaxSessions]
            BY <1>1, <1>2, Messages, NoneIsPolled DEF Idle
        <3> QED BY <1>1, <1>2, <1>3, <3>1, TypeParts DEF WalletTypes
    <2>3. ShownTypes'
        <3>1. shown' \in {None} \cup Sessions' /\ psi' \in {None} \cup Sessions'
            BY <1>1, <1>2, <1>3, TypeParts DEF ShownTypes
        <3>2. NoSession \in [state : {"idle", "qr", "rewards"}, id : {None} \cup Sessions',
                             rewards : {None} \cup Sessions', nfc : BOOLEAN]
            BY DEF NoSession
        <3> QED BY <1>2, <3>1, <3>2 DEF ShownTypes
    <2>4. QueryTypes'
        BY <1>1, <1>2, TypeParts DEF QueryTypes
    <2>5. ThreadTypes'
        BY <1>1, <1>2, TypeParts DEF ThreadTypes, Places
    <2>6. SaleTypes'
        BY <1>1, <1>2, TypeParts DEF SaleTypes, Tellings
    <2>7. BoundTypes'
        <3>1. failures' \in 0 .. MaxFailures /\ rotations' \in 0 .. MaxRotations
            <4>1. failures \in 0 .. MaxFailures /\ rotations' \in 0 .. MaxRotations
                BY <1>1, <1>2, TypeParts DEF BoundTypes
            <4>2. failures < MaxFailures /\ MaxFailures \in Nat
                BY <1>2, WalletAssumption
            <4>3. failures + 1 \in 0 .. MaxFailures
                BY <4>1, <4>2
            <4> QED BY <1>2, <4>1, <4>3
        <3>2. harm' \subseteq Harms
            BY <1>1, <1>2, TypeParts DEF BoundTypes, Harms
        <3> QED BY <3>1, <3>2 DEF BoundTypes
    <2> QED BY <2>1, <2>2, <2>3, <2>4, <2>5, <2>6, <2>7, TypePartsNext
<1>5. Typed'
    BY <1>1, <1>2, <1>3, <1>4 DEF Typed, Serving, Idle, NoMsg
<1>6. Scanned'
    BY <1>2 DEF Scanned
<1>7. harm' # {}
    BY <1>2
<1> QED BY <1>5, <1>6, <1>7 DEF RInv

LEMMA NextRInv == WInv /\ RInv /\ [Next]_vars => RInv'
<1> SUFFICES ASSUME WInv, RInv, Next PROVE RInv'
    BY StutterRInv
<1>1. CASE App
    BY <1>1, TakesKeeps, AnswersKeeps, ScansKeeps DEF App
<1>2. CASE Query
    <2>1. CASE \E kind \in {"qr", "nfc", "plain"} : BeginQuery(kind)
        BY <2>1, BeginsKeep
    <2>2. CASE QrInvalid \/ QrTimesOut \/ RewardsFailed \/ CheckEnds
        BY <2>2, ResetsKeep
    <2>3. CASE StartSession \/ Rotate
        BY <2>3, CodeKeeps
    <2>4. CASE PosEvent
        <3>1. pc = "tap" \/ pc = "poll"
            BY <2>4 DEF PosEvent
        <3> QED BY <2>4, <3>1, ResetsKeep, MovesKeep
    <2>5. CASE CheckPaymentSession
        BY <2>5, ResetsKeep, MovesKeep
    <2>6. CASE QrReceived \/ RewardsReceived \/ OtherAnswer
        BY <2>6, QrKeeps, RewardsKeep, OthersKeep
    <2>7. CASE Tap \/ Tell
        BY <2>7, TapKeeps, MovesKeep
    <2> QED BY <1>2, <2>1, <2>2, <2>3, <2>4, <2>5, <2>6, <2>7 DEF Query
<1>3. CASE Sale
    <2>1. CASE PayWithCard \/ RemoveCommand
        BY <2>1, ResetsKeep
    <2>2. CASE Pay \/ DeleteCommand
        BY <2>2, AsksKeep
    <2>3. CASE PayAnswered \/ PayTimesOut \/ Deleted
        BY <2>3, OthersKeep
    <2> QED BY <1>3, <2>1, <2>2, <2>3, FinishKeeps DEF Sale
<1> QED BY <1>1, <1>2, <1>3, ResetEndKeeps, PowerKeeps DEF Next

LEMMA RInvariant == Spec => []RInv
<1>1. Init => WInv /\ RInv
    BY InitInv, InitRInv
<1>2. (WInv /\ RInv) /\ [Next]_vars => (WInv /\ RInv)'
    BY NextInv, NextRInv
<1> QED BY <1>1, <1>2, PTL DEF Spec

\* No session, message, code or number leaves its type: what is named in either
\* file, in l_sSessionData or to the POS is a session the app opened, and what
\* is asked for is a customer's or a sale's (Wally.c).
THEOREM TypeCorrect == Spec => []TypeOK
<1>1. RInv => TypeOK
    BY DEF RInv, Typed
<1> QED BY <1>1, RInvariant, PTL

\* The loyalty number a query is answered with is that of the customer it was
\* asked for, unless an answer was lost, late or another's, or the power failed
\* (Wally_SessionFunc_AwaitRewardsId, the loyalty file, the answer to a J8 query).
THEOREM RewardsStayOwn == Spec => []RewardsAreOwn
<1>1. RInv => RewardsAreOwn
    BY DEF RInv, Own, RewardsAreOwn
<1> QED BY <1>1, RInvariant, PTL

\* The session the POS is given with a rewards number is the one whose code this
\* customer scanned, also after resets that were not answered, answers read as
\* another's and power failures, as long as no request was written while the
\* app worked on another (Wally_CheckPaymentSession).
THEOREM ScannedIsGiven == Spec => []ScannedSessionGiven
<1>1. RInv => ScannedSessionGiven
    BY DEF RInv, Scanned, ScannedSessionGiven
<1> QED BY <1>1, RInvariant, PTL
=============================================================================
