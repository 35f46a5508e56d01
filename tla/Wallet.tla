------------------------------- MODULE Wallet -------------------------------
(***************************************************************************)
(* Everyday Pay (Wally.c): a query card J8 shows the QR code of a payment  *)
(* session and waits for the customer to scan it or to tap a pass; a sale  *)
(* may then be paid out of that session.  Terminal and wallet app exchange *)
(* one request and one answer file.  An answer does not say what it        *)
(* answers, so that every read depends on what was written and deleted     *)
(* before.                                                                 *)
(*                                                                         *)
(* A customer is the number of the query that serves him; a session is the *)
(* number the app gives it.  The app is external: it takes one request at  *)
(* a time, and answers it whenever it likes.                               *)
(***************************************************************************)
EXTENDS Integers, FiniteSets

CONSTANTS
    MaxQueries,   \* bound: J8 queries
    MaxSessions,  \* bound: sessions the app opens
    MaxRotations, \* bound: QR codes renewed
    MaxSales,     \* bound: sales paid out of a session
    MaxFailures   \* bound: power failures

ASSUME WalletAssumption ==
    /\ MaxQueries \in Nat /\ MaxSessions \in Nat /\ MaxRotations \in Nat
    /\ MaxSales \in Nat /\ MaxFailures \in Nat

VARIABLES
    req,      \* WALLY_REQ_FILENAME
    rsp,      \* WALLY_RSP_FILENAME
    seen,     \* the app has taken the request in the file
    app,      \* the app: the request it works on, the session it polls
    opened,   \* the customer each session was opened for
    shown,    \* the session whose code was last on the screen
    sess,     \* l_sSessionData
    edp,      \* TERM_EDP_ACTIVE
    query,    \* the query under way or last: its customer, its kind
    loyalty,  \* LOYALTY_FILE: whose number it holds, 0 without one
    asked,    \* the request Wally_WaitForResponse waits for
    pc, then, \* where the thread is, and where it goes after a reset
    psi,      \* the session the POS was given with a rewards number, or 0
    given,    \* the answer to the last query: customer served, number given
    sale,     \* the sale under way
    told,     \* what the POS was told of each sale
    paid,     \* the sales the wallet paid
    rotations, failures, \* counters
    harm      \* see below

vars == <<req, rsp, seen, app, opened, shown, sess, edp, query, loyalty, asked,
          pc, then, psi, given, sale, told, paid, rotations, failures, harm>>
mail == <<req, rsp, seen>>
wallet == <<app, opened, paid>>
terminal == <<shown, sess, edp, query, loyalty, asked, pc, then, sale>>
pos == <<psi, given, told>>
bounds == <<rotations, failures>>

(* harm: "late"  a request was written while the app worked on another;     *)
(*       "stray" another answer was read as that to a Cancel, and left in   *)
(*               the file;                                                  *)
(*       "unheard" a reset was not answered: the app may poll on;           *)
(*       "cut"   the power failed.                                          *)
Harms == {"late", "stray", "unheard", "cut"}

Customers == 1 .. MaxQueries
Sales == 1 .. MaxSales
None == 0

Numbers == {None} \cup Customers \cup 1 .. MaxSessions \cup Sales

NoMsg == [cmd |-> "none", nr |-> None]
Requests == [cmd : {"none", "StartSession", "RefreshQR", "Cancel", "Delete", "DigitalPayment"},
             nr : Numbers]
\* "qr" and "fresh": a code for a new and for the same session; "ok": success
\* and nothing else; "failed": "success" is false
Answers == [cmd : {"none", "qr", "fresh", "rewards", "ok", "failed", "paid", "declined"},
            nr : Numbers]
Msg(cmd, nr) == [cmd |-> cmd, nr |-> nr]

NoSession == [state |-> "idle", id |-> None, rewards |-> None, nfc |-> FALSE]
NoSale == [nr |-> None, rc |-> "blank"]
Idle == [doing |-> NoMsg, polls |-> None]

-----------------------------------------------------------------------------
(* The two files. *)

\* Wally_WriteJSONRequestFile: the old answer goes, the old request is replaced
Written(m) ==
    /\ rsp' = NoMsg
    /\ req' = m
    /\ seen' = FALSE
    /\ harm' = IF app.doing # NoMsg THEN harm \cup {"late"} ELSE harm

\* mutant: the answer stays in the file
Received_Left(keep) ==
    /\ rsp # NoMsg
    /\ req' = NoMsg
    /\ rsp' = rsp
    /\ seen' = FALSE

\* an answer is read: the request is deleted, taken by the app or not
Received(keep) ==
    /\ rsp # NoMsg
    /\ req' = NoMsg
    /\ rsp' = IF keep THEN rsp ELSE NoMsg
    /\ seen' = FALSE

Ask(m) == Written(m) /\ asked' = m

\* Wally_SessionFunc_ResetSessionData up to its wait; what it does after it is
\* in ResetAnswered and ResetTimesOut
ResetSession(s, delete, next) ==
    /\ Ask(IF delete /\ s.id # None THEN Msg("Delete", s.id) ELSE Msg("Cancel", None))
    /\ sess' = [s EXCEPT !.state = "idle"]
    /\ pc' = "reset"
    /\ then' = next

\* Wally_SessionFunc_SendGenerateQRRequest
SendGenerateQR(create) ==
    /\ Written(IF create THEN Msg("StartSession", query.nr) ELSE Msg("RefreshQR", None))
    /\ sess' = [sess EXCEPT !.state = "qr"]

-----------------------------------------------------------------------------
(* The wallet app. *)

AppTakes ==
    /\ req # NoMsg /\ ~seen /\ app.doing = NoMsg
    /\ seen' = TRUE
    /\ app' = [doing |-> req, polls |-> IF req.cmd = "RefreshQR" THEN app.polls ELSE None]
    /\ UNCHANGED <<req, rsp, opened, paid, terminal, pos, bounds, harm>>

Sessions == DOMAIN opened

Outcomes(m) ==
    CASE m.cmd = "StartSession" ->
            IF Cardinality(Sessions) < MaxSessions
            THEN {Msg("qr", Cardinality(Sessions) + 1), Msg("failed", None)}
            ELSE {Msg("failed", None)}
      [] m.cmd = "RefreshQR" ->
            IF app.polls # None THEN {Msg("fresh", app.polls), Msg("failed", None)}
            ELSE {Msg("failed", None)}
      [] m.cmd = "Cancel" -> {Msg("ok", None)}
      [] m.cmd = "Delete" -> {Msg("ok", None), Msg("failed", None)}
      [] m.cmd = "DigitalPayment" ->
            {Msg("paid", m.nr), Msg("declined", m.nr), Msg("failed", None)}

AppAnswers ==
    /\ app.doing # NoMsg
    /\ \E a \in Outcomes(app.doing) :
        /\ rsp' = a
        /\ app' = [doing |-> NoMsg, polls |-> IF a.cmd = "qr" THEN a.nr ELSE app.polls]
        /\ opened' = IF a.cmd = "qr"
                     THEN [n \in Sessions \cup {a.nr} |->
                            IF n = a.nr THEN app.doing.nr ELSE opened[n]]
                     ELSE opened
        /\ paid' = IF a.cmd = "paid" THEN paid \cup {a.nr} ELSE paid
    /\ UNCHANGED <<req, seen, terminal, pos, bounds, harm>>

\* the customer has scanned the code of the session the app polls
AppScans ==
    /\ app.doing = NoMsg /\ app.polls # None /\ app.polls = shown
    /\ rsp' = Msg("rewards", app.polls)
    /\ app' = [app EXCEPT !.polls = None]
    /\ UNCHANGED <<req, seen, opened, paid, terminal, pos, bounds, harm>>

-----------------------------------------------------------------------------
(* A session is reset: its request, the wait, and what follows. *)

\* what the thread goes on with once the session data are clear
Resumed ==
    /\ sess' = NoSession
    /\ pc' = then
    /\ then' = "idle"

ResetAnswered ==
    /\ pc = "reset"
    /\ Received(asked.cmd = "Cancel")
    /\ harm' = IF asked.cmd = "Cancel" /\ rsp.cmd # "ok" THEN harm \cup {"stray"} ELSE harm
    /\ Resumed
    /\ UNCHANGED <<wallet, shown, edp, query, loyalty, asked, pos, sale, bounds>>

ResetTimesOut ==
    /\ pc = "reset" /\ rsp = NoMsg
    /\ harm' = harm \cup {"unheard"}
    /\ Resumed
    /\ UNCHANGED <<mail, wallet, shown, edp, query, loyalty, asked, pos, sale, bounds>>

-----------------------------------------------------------------------------
(* A query.  Its kind: "qr" shows a code, "nfc" a code and the reader,     *)
(* "plain" is one without the wallet and reads a pass.                     *)

BeginQuery(kind) ==
    /\ pc = "idle" /\ query.nr < MaxQueries
    /\ query' = [nr |-> query.nr + 1, kind |-> kind]
    /\ edp' = (kind # "plain")
    /\ loyalty' = None
    /\ IF kind = "plain"
       THEN pc' = "tap" /\ UNCHANGED <<mail, sess, asked, then, harm>>
       ELSE ResetSession(sess, TRUE, "poll")
    /\ UNCHANGED <<wallet, shown, pos, sale, bounds>>

StartSession ==
    /\ pc = "poll" /\ sess.state = "idle"
    /\ SendGenerateQR(TRUE)
    /\ UNCHANGED <<wallet, shown, edp, query, loyalty, asked, pc, then, pos, sale, bounds>>

\* an error resets the session; with the reader on, the poll reports it as a POS
\* event, and the query goes on with another session (mal_nfc_DoVasActivation)
SessionFails(s, invalid) ==
    ResetSession(s, TRUE, IF invalid /\ query.kind = "qr" THEN "idle" ELSE "poll")

\* mutant: a new session keeps the number of the first
QrReceived_OldId ==
    /\ pc = "poll" /\ sess.state = "qr"
    /\ Received(FALSE)
    /\ rsp.cmd = "qr" \/ (rsp.cmd = "fresh" /\ sess.id # None)
    /\ sess' = [sess EXCEPT !.state = "rewards", !.id = IF @ = None THEN rsp.nr ELSE @]
    /\ shown' = IF rsp.cmd = "qr" THEN rsp.nr ELSE shown
    /\ UNCHANGED <<wallet, edp, query, loyalty, asked, pc, then, pos, sale, bounds, harm>>

QrReceived ==
    /\ pc = "poll" /\ sess.state = "qr"
    /\ Received(FALSE)
    /\ rsp.cmd = "qr" \/ (rsp.cmd = "fresh" /\ sess.id # None)
    /\ sess' = [sess EXCEPT !.state = "rewards", !.id = IF rsp.cmd = "qr" THEN rsp.nr ELSE @]
    /\ shown' = IF rsp.cmd = "qr" THEN rsp.nr ELSE shown
    /\ UNCHANGED <<wallet, edp, query, loyalty, asked, pc, then, pos, sale, bounds, harm>>

QrInvalid ==
    /\ pc = "poll" /\ sess.state = "qr"
    /\ rsp # NoMsg /\ rsp.cmd # "qr" /\ ~(rsp.cmd = "fresh" /\ sess.id # None)
    /\ SessionFails(sess, TRUE)
    /\ UNCHANGED <<wallet, shown, edp, query, loyalty, pos, sale, bounds>>

QrTimesOut ==
    /\ pc = "poll" /\ sess.state = "qr" /\ rsp = NoMsg
    /\ SessionFails(sess, FALSE)
    /\ UNCHANGED <<wallet, shown, edp, query, loyalty, pos, sale, bounds>>

\* Wally_SessionFunc_AwaitRewardsId: run by the poll, and by the last chance
\* check before the answer, which ignores its errors
Awaiting == pc = "check" \/ (pc = "poll" /\ sess.state = "rewards")

RewardsReceived ==
    /\ Awaiting
    /\ Received(FALSE)
    /\ rsp.cmd = "rewards"
    /\ sess' = [sess EXCEPT !.state = "idle", !.rewards = rsp.nr]
    /\ loyalty' = opened[rsp.nr]
    /\ pc' = "answer"
    /\ UNCHANGED <<wallet, shown, edp, query, asked, then, pos, sale, bounds, harm>>

OtherAnswer ==
    /\ Awaiting
    /\ Received(FALSE)
    /\ rsp.cmd # "rewards"
    /\ rsp.cmd # "failed" \/ pc = "check"
    /\ UNCHANGED <<wallet, terminal, pos, bounds, harm>>

RewardsFailed ==
    /\ pc = "poll" /\ sess.state = "rewards" /\ rsp.cmd = "failed"
    /\ SessionFails(sess, TRUE)
    /\ UNCHANGED <<wallet, shown, edp, query, loyalty, pos, sale, bounds>>

\* a timer is up: a new session, or another code for this one
Rotate ==
    /\ pc = "poll" /\ sess.state = "rewards" /\ rsp = NoMsg
    /\ rotations < MaxRotations
    /\ rotations' = rotations + 1
    /\ \E create \in BOOLEAN : SendGenerateQR(create)
    /\ UNCHANGED <<wallet, shown, edp, query, loyalty, asked, pc, then, pos, sale, failures>>

\* a pass is tapped
Tap ==
    /\ pc = "tap" \/ (pc = "poll" /\ query.kind = "nfc" /\ sess.state # "idle")
    /\ loyalty' = query.nr
    /\ sess' = [sess EXCEPT !.nfc = (pc = "poll")]
    /\ pc' = "answer"
    /\ UNCHANGED <<mail, wallet, shown, edp, query, asked, then, pos, sale, bounds, harm>>

\* a command or a disconnection ends the query, which is not answered
PosEvent ==
    /\ pc \in {"tap", "poll"}
    /\ IF pc = "tap" THEN pc' = "idle" /\ UNCHANGED <<mail, sess, asked, then, harm>>
       ELSE ResetSession(sess, FALSE, "idle")
    /\ UNCHANGED <<wallet, shown, edp, query, loyalty, pos, sale, bounds>>

\* Wally_CheckPaymentSession
CheckPaymentSession ==
    /\ pc = "answer"
    /\ CASE sess.rewards # None -> pc' = "tell" /\ UNCHANGED <<mail, sess, asked, then, harm>>
         [] sess.rewards = None /\ sess.nfc -> ResetSession(sess, TRUE, "tell")
         [] OTHER -> pc' = "check" /\ UNCHANGED <<mail, sess, asked, then, harm>>
    /\ UNCHANGED <<wallet, shown, edp, query, loyalty, pos, sale, bounds>>

CheckEnds ==
    /\ pc = "check"
    /\ ResetSession(sess, TRUE, "tell")
    /\ UNCHANGED <<wallet, shown, edp, query, loyalty, pos, sale, bounds>>

Tell ==
    /\ pc = "tell"
    /\ psi' = IF edp /\ sess.rewards # None THEN sess.id ELSE None
    /\ given' = [served |-> query.nr, number |-> loyalty]
    /\ pc' = "idle"
    /\ UNCHANGED <<mail, wallet, shown, sess, edp, query, loyalty, asked, then, told,
                   sale, bounds, harm>>

-----------------------------------------------------------------------------
(* A sale, and the commands about a session. *)

\* Wally_DoTransaction; the POS names the session it was given
Pay ==
    /\ pc = "idle" /\ psi # None /\ edp /\ sale.nr < MaxSales
    /\ sale' = [nr |-> sale.nr + 1, rc |-> "blank"]
    /\ Ask(Msg("DigitalPayment", sale.nr + 1))
    /\ pc' = "pay"
    /\ UNCHANGED <<wallet, shown, sess, edp, query, loyalty, then, pos, bounds>>

\* mutants: an answer is an approval unless it says it failed; it is the code
ResponseCode_AnySuccess(answer) == IF answer = "failed" THEN "RA" ELSE "00"
ResponseCode_Verbatim(answer) == answer

ResponseCode(answer) ==
    CASE answer = "paid" -> "00"
      [] answer = "declined" -> "01"
      [] OTHER -> "RA"

PayAnswered ==
    /\ pc = "pay"
    /\ Received(FALSE)
    /\ sale' = [sale EXCEPT !.rc = ResponseCode(rsp.cmd)]
    /\ pc' = "receipts"
    /\ UNCHANGED <<wallet, shown, sess, edp, query, loyalty, asked, then, pos, bounds, harm>>

PayTimesOut ==
    /\ pc = "pay" /\ rsp = NoMsg
    /\ sale' = [sale EXCEPT !.rc = "TO"]
    /\ pc' = "receipts"
    /\ UNCHANGED <<mail, wallet, shown, sess, edp, query, loyalty, asked, then, pos, bounds, harm>>

\* the receipts are printed or fail, which sets no reversal, and the POS is told
FinishSale ==
    /\ pc = "receipts"
    /\ \E printed \in BOOLEAN :
        told' = [told EXCEPT ![sale.nr] =
                    CASE sale.rc = "TO" -> "unanswered"
                      [] sale.rc = "00" /\ ~printed -> "unprinted"
                      [] sale.rc = "00" /\ printed -> "approved"
                      [] OTHER -> "declined"]
    /\ ResetSession(sess, FALSE, "idle")
    /\ UNCHANGED <<wallet, shown, edp, query, loyalty, psi, given, sale, bounds>>

\* a sale with a card after a query with the wallet
PayWithCard ==
    /\ pc = "idle" /\ edp
    /\ ResetSession(sess, TRUE, "idle")
    /\ UNCHANGED <<wallet, shown, edp, query, loyalty, pos, sale, bounds>>

\* the customer removes the wallet at the POS's request: Wally_RewardsRemoveDialogue
RemoveCommand ==
    /\ pc = "idle" /\ psi # None
    /\ edp' = TRUE
    /\ ResetSession(sess, TRUE, "idle")
    /\ UNCHANGED <<wallet, shown, query, loyalty, pos, sale, bounds>>

\* the POS has a session deleted
DeleteCommand ==
    /\ pc = "idle" /\ psi # None
    /\ edp' = TRUE
    /\ Ask(Msg("Delete", psi))
    /\ pc' = "delete"
    /\ UNCHANGED <<wallet, shown, sess, query, loyalty, then, pos, sale, bounds>>

Deleted ==
    /\ pc = "delete"
    /\ Received(FALSE) \/ (rsp = NoMsg /\ UNCHANGED mail)
    /\ pc' = "idle"
    /\ UNCHANGED <<wallet, shown, sess, edp, query, loyalty, asked, then, pos, sale, bounds, harm>>

PowerFail ==
    /\ failures < MaxFailures
    /\ failures' = failures + 1
    /\ sess' = NoSession
    /\ edp' = FALSE
    /\ seen' = FALSE
    /\ app' = Idle
    /\ pc' = "idle" /\ then' = "idle"
    /\ told' = IF pc \in {"pay", "receipts"} THEN [told EXCEPT ![sale.nr] = "power fail"] ELSE told
    /\ harm' = harm \cup {"cut"}
    /\ UNCHANGED <<req, rsp, opened, shown, query, loyalty, asked, psi, given, sale, paid, rotations>>

-----------------------------------------------------------------------------
Init ==
    /\ req = NoMsg /\ rsp = NoMsg /\ seen = FALSE
    /\ app = Idle /\ opened = <<>> /\ shown = None
    /\ sess = NoSession /\ edp = FALSE
    /\ query = [nr |-> None, kind |-> "plain"]
    /\ loyalty = None /\ asked = NoMsg
    /\ pc = "idle" /\ then = "idle"
    /\ psi = None /\ given = [served |-> None, number |-> None]
    /\ sale = NoSale /\ told = [k \in Sales |-> "nothing"] /\ paid = {}
    /\ rotations = 0 /\ failures = 0
    /\ harm = {}

App == AppTakes \/ AppAnswers \/ AppScans

Query ==
    \/ \E kind \in {"qr", "nfc", "plain"} : BeginQuery(kind)
    \/ StartSession \/ QrReceived \/ QrInvalid \/ QrTimesOut
    \/ RewardsReceived \/ OtherAnswer \/ RewardsFailed \/ Rotate
    \/ Tap \/ PosEvent \/ CheckPaymentSession \/ CheckEnds \/ Tell

Sale ==
    \/ Pay \/ PayAnswered \/ PayTimesOut \/ FinishSale \/ PayWithCard
    \/ RemoveCommand \/ DeleteCommand \/ Deleted

Next == App \/ Query \/ Sale \/ ResetAnswered \/ ResetTimesOut \/ PowerFail

Spec == Init /\ [][Next]_vars

-----------------------------------------------------------------------------
(* Properties. *)

TypeOK ==
    /\ req \in Requests /\ rsp \in Answers /\ seen \in BOOLEAN
    /\ app \in [doing : Requests, polls : 0 .. MaxSessions]
    /\ Sessions \subseteq 1 .. MaxSessions
    /\ \A n \in Sessions : opened[n] \in Customers
    /\ shown \in {None} \cup Sessions
    /\ sess \in [state : {"idle", "qr", "rewards"}, id : {None} \cup Sessions,
                 rewards : {None} \cup Sessions, nfc : BOOLEAN]
    /\ edp \in BOOLEAN
    /\ query \in [nr : {None} \cup Customers, kind : {"qr", "nfc", "plain"}]
    /\ loyalty \in {None} \cup Customers
    /\ asked \in Requests
    /\ pc \in {"idle", "reset", "tap", "poll", "answer", "check", "tell", "pay",
               "receipts", "delete"}
    /\ then \in {"idle", "poll", "tell"}
    /\ psi \in {None} \cup Sessions
    /\ given \in [served : {None} \cup Customers, number : {None} \cup Customers]
    /\ sale \in [nr : {None} \cup Sales, rc : {"blank", "00", "01", "RA", "TO"}]
    /\ told \in [Sales -> {"nothing", "approved", "declined", "unanswered",
                           "unprinted", "power fail"}]
    /\ paid \subseteq Sales
    /\ rotations \in 0 .. MaxRotations /\ failures \in 0 .. MaxFailures
    /\ harm \subseteq Harms

\* The app may still answer an earlier request, or a session given up.
Misread == "late" \in harm \/ "unheard" \in harm

\* A sale the POS was told is approved was paid by the wallet, and one it was
\* told is declined was not, unless an answer may belong to an earlier request.
\* (Not told either way: a payment not answered in time, one whose receipt
\* failed, one cut by a power failure.)
PaidAsTold ==
    \A k \in Sales :
        /\ told[k] = "approved" => k \in paid \/ Misread
        /\ told[k] = "declined" => k \notin paid \/ Misread

\* The loyalty number given for a customer is his own.
RewardsAreOwn ==
    given.number # None => given.number = given.served \/ harm # {}

\* The session that comes with a rewards number is the one whose code this
\* customer scanned.
ScannedSessionGiven ==
    pc = "tell" /\ sess.rewards # None /\ edp =>
        \/ sess.id = sess.rewards /\ opened[sess.id] = query.nr
        \/ "late" \in harm
=============================================================================
