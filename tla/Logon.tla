-------------------------------- MODULE Logon --------------------------------
(***************************************************************************)
(* The logon state machine of logon.c with the handlers that move it: the  *)
(* answers in msgAS2805.c (SetLogonState, wow_remap_rc), the callers in    *)
(* Main.c, txn.c, config.c and pceft_commands.c, the file update, and the  *)
(* start-up of terminal.c and power_on.c.                                  *)
(*                                                                         *)
(* terminal.logon_state and last_logon_state are in RAM, the first also in *)
(* the terminal file; the keys are in the crypto unit and at the host, and *)
(* are modelled by whether the two agree.  The parameter files are one     *)
(* downloadable file and one that the TMS has placed (a preloaded CPAT).   *)
(* The enumeration of the states is not in the repository; both orders of  *)
(* the two that comparisons may tell apart are tried (setup.filesFirst).   *)
(***************************************************************************)
EXTENDS Integers, FiniteSets

CONSTANTS
    Settings,     \* the settings to start with, of Setups below
    MaxLanes,     \* bound: changes of the terminal id
    MaxFailures   \* bound: power failures

Ladder == {"rsa", "ktm", "kek"}
States == Ladder \cup {"files", "required", "session", "logged"}
\* response codes; N2 stands for 12 as well
Codes == {"00", "N2", "N3", "96", "other"}
\* txn.host_rc_asc as the last answer left it, when that could be taken for news
Stale(code) == IF code \in {"N2", "N3", "96"} THEN code ELSE "none"
Callers == {"idle", "pos", "gate", "send", "end", "daily"}
Results == {"ok", "comms", "error"}
Setups == [mode : {"switch", "then", "only"}, live : BOOLEAN,
           filesFirst : BOOLEAN, unreadable : BOOLEAN]

ASSUME LogonAssumption ==
    /\ Settings \subseteq Setups
    /\ MaxLanes \in Nat /\ MaxFailures \in Nat

VARIABLES
    setup,    \* ss_lfd_..._config, LIVE_PINPAD, the enumeration, an unreadable CPAT
    logon,    \* terminal.logon_state
    last,     \* terminal.last_logon_state
    saved,    \* the logon state in the terminal file
    rc,       \* txn.host_rc_asc
    file,     \* the parameter file: present, and UpdateRequired
    reload,   \* ss_wow_reload_ctls_params
    kek, ses, \* the key encryption key, the session keys: terminal and host agree
    lane,     \* a logon was answered since the terminal id changed
    pc, job,  \* where the thread is; the parameters and locals of logon_request
    counts,   \* lane changes and power failures so far
    harm      \* "rolledback": a logon without an answer was undone;
              \* "unsaved": the power took a lower state that was in RAM only;
              \* "stale": an old response code was taken for the answer;
              \* "ignored": an upload that fails ends the logon without a trace

vars == <<setup, logon, last, saved, rc, file, reload, kek, ses, lane, pc, job, counts, harm>>
keys == <<kek, ses, lane>>
files == <<file, reload>>
rest == <<setup, counts>>

Jobs == [from : Callers \cup {"none"}, download : BOOLEAN, second : BOOLEAN,
         msg : States \cup {"none"}, src : {"none", "lfd", "switch"}, res : Results]
NoJob == [from |-> "none", download |-> FALSE, second |-> FALSE, msg |-> "none", src |-> "none",
          res |-> "ok"]

Rank(s) ==
    CASE s = "rsa" -> 1 [] s = "ktm" -> 2 [] s = "kek" -> 3
      [] s = "files" -> IF setup.filesFirst THEN 4 ELSE 5
      [] s = "required" -> IF setup.filesFirst THEN 5 ELSE 4
      [] s = "session" -> 6 [] s = "logged" -> 7
Lower(s, t) == IF Rank(s) < Rank(t) THEN s ELSE t

-----------------------------------------------------------------------------
(* What an answer does to the state. *)

\* SetLogonState
SetLogonState(msg, crypto) ==
    CASE msg \in Ladder \cup {"required"} -> "rsa"
      [] OTHER -> CASE logon = "logged" -> "session"
                    [] logon = "session" /\ ~crypto -> "required"
                    [] OTHER -> "rsa"

\* The end of logon_send: it looks at txn.host_rc_asc also when nothing answered.
Sent(state, code, err) ==
    CASE code = "N2" -> [logon |-> "rsa", res |-> "error"]
      [] code = "N3" -> [logon |-> "files", res |-> err]
      [] code = "96" -> [logon |-> state, res |-> "error"]
      [] OTHER -> [logon |-> state, res |-> IF err = "ok" /\ code # "00" THEN "error" ELSE err]

Session(r) == IF r.res = "ok" THEN "logged" ELSE r.logon

\* Mutation: a key encryption key that failed leaves the state where it was
AfterSend_KekStays(m, r, download) ==
    CASE m = "rsa" -> IF r.res = "ok" THEN "ktm" ELSE r.logon
      [] m = "ktm" -> IF r.res = "ok" THEN "kek" ELSE "rsa"
      [] m = "kek" -> "required"
      [] m = "session" -> Session(r)
      [] OTHER -> IF r.res = "ok" /\ (r.logon # "files" \/ ~download) THEN "logged" ELSE r.logon

\* what logon_request makes of the result, by the message it sent
AfterSend(m, r, download) ==
    CASE m = "rsa" -> IF r.res = "ok" THEN "ktm" ELSE r.logon
      [] m = "ktm" -> IF r.res = "ok" THEN "kek" ELSE "rsa"
      [] m = "kek" -> IF r.res = "ok" THEN "required" ELSE "rsa"
      [] m = "session" -> Session(r)
      [] m = "required" ->
            IF r.res = "ok" /\ (r.logon # "files" \/ ~download) THEN "logged" ELSE r.logon

Loop == pc' = "logon"
Exit(res) == pc' = "exit" /\ job' = [job EXCEPT !.res = res, !.msg = "none", !.src = "none"]

Continue(m, r) ==
    /\ logon' = AfterSend(m, r, job.download)
    /\ IF r.res # "ok" \/ m = "session"
       THEN Exit(r.res)
       ELSE IF m = "required" /\ setup.mode = "only" /\ logon' # "logged"
       THEN pc' = "tms" /\ job' = [job EXCEPT !.msg = "none"]
       ELSE Loop /\ job' = [job EXCEPT !.msg = "none"]

-----------------------------------------------------------------------------
(* logon_request: one message of the loop, and what may come of it. *)

SendLogon ==
    /\ pc = "logon" /\ logon \notin {"logged", "files"}
    /\ job' = [job EXCEPT !.msg = logon]
    /\ logon' = IF logon = "ktm" THEN "rsa" ELSE logon
    /\ pc' = "sent"
    /\ UNCHANGED <<last, saved, rc, files, keys, rest, harm>>

\* no connection, or no answer although the host has changed its keys
LogonUnanswered ==
    /\ pc = "sent"
    /\ \E heard \in BOOLEAN, err \in {"comms", "error"} :
        /\ kek' = (kek /\ ~(heard /\ job.msg = "kek"))
        /\ ses' = (ses /\ ~(heard /\ job.msg \in {"kek", "required", "session"}))
        /\ Continue(job.msg, Sent(logon, rc, err))
    /\ harm' = IF job.msg \in {"ktm", "kek"} \/ rc \notin {"N2", "N3"} THEN harm ELSE harm \cup {"stale"}
    /\ UNCHANGED <<last, saved, rc, files, lane, rest>>

\* 191 and 192 approved, 193 approved and its check values right
LadderStep ==
    /\ pc = "sent" /\ job.msg \in Ladder
    /\ rc' = "none"
    /\ IF job.msg = "kek" THEN kek' = TRUE /\ ses' = FALSE ELSE UNCHANGED <<kek, ses>>
    /\ Continue(job.msg, [logon |-> logon, res |-> "ok"])
    /\ UNCHANGED <<last, saved, files, lane, rest, harm>>

\* 170 approved: new session keys; the host says which files are out of date
LogonApproved ==
    /\ pc = "sent" /\ job.msg = "required" /\ kek
    /\ ses' = TRUE /\ lane' = TRUE /\ harm' = {}
    /\ \E old \in BOOLEAN :
        /\ rc' = IF old THEN "N3" ELSE "none"
        /\ file' = [file EXCEPT !.update = old]
        /\ Continue("required", [logon |-> IF old THEN "files" ELSE logon, res |-> "ok"])
    /\ UNCHANGED <<last, saved, reload, kek, rest>>

\* 170 answered with keys under another key encryption key: ERR_KVC_ERROR
LogonWrongKeys ==
    /\ pc = "sent" /\ job.msg = "required" /\ ~kek
    /\ ses' = FALSE
    /\ \E old \in BOOLEAN :
        /\ rc' = IF old THEN "N3" ELSE "none"
        /\ file' = [file EXCEPT !.update = old]
        /\ Continue("required", [logon |-> IF old THEN "files" ELSE logon, res |-> "error"])
    /\ UNCHANGED <<last, saved, reload, kek, lane, rest, harm>>

\* 170 answered without keys: the host did not accept the proof
LogonUnproven ==
    /\ pc = "sent" /\ job.msg = "required" /\ ~kek
    /\ rc' \in {"N2", "none"}
    /\ Continue("required", [logon |-> "rsa", res |-> "error"])
    /\ UNCHANGED <<last, saved, files, keys, rest, harm>>

\* 101 approved; the check values are not compared
KeyChange ==
    /\ pc = "sent" /\ job.msg = "session"
    /\ rc' = "none" /\ ses' = kek
    /\ Continue("session", [logon |-> logon, res |-> "ok"])
    /\ UNCHANGED <<last, saved, files, kek, lane, rest, harm>>

\* any of them refused: N2 or 12, another code, or 96
LogonRefused ==
    /\ pc = "sent"
    /\ \/ \E code \in {"N2", "other"} :
            /\ rc' = Stale(code)
            /\ Continue(job.msg, Sent(logon, code, "ok"))
            /\ UNCHANGED <<last, saved>>
       \/ /\ rc' = "96" /\ last' = logon
          /\ LET state == SetLogonState(job.msg, TRUE) IN
             /\ saved' = IF job.msg = "session" THEN state ELSE saved
             /\ Continue(job.msg, Sent(state, "96", "ok"))
    /\ UNCHANGED <<files, keys, rest, harm>>

\* ss_lfd_only_config: the files come from the TMS
ContactTms ==
    /\ pc = "tms"
    /\ \/ logon' = "logged" /\ Exit("ok")
       \/ UNCHANGED logon /\ Exit("error")
    /\ UNCHANGED <<last, saved, rc, files, keys, rest, harm>>

LoggedOn ==
    /\ pc = "logon" /\ logon = "logged"
    /\ Exit("ok")
    /\ UNCHANGED <<logon, last, saved, rc, files, keys, rest, harm>>

-----------------------------------------------------------------------------
(* file_update_required: uploads first, then update_files. *)

\* saf_send fails: return without terminal_save, init.error still fine
UploadFails ==
    /\ pc = "logon" /\ logon = "files"
    /\ harm' = harm \cup {"ignored"}
    /\ pc' = "returned" /\ job' = [job EXCEPT !.res = "ok"]
    /\ UNCHANGED <<logon, last, saved, rc, files, keys, rest>>

Wanted == file.update \/ ~file.present

\* a download that is wanted saves the terminal file first
StartUpdate ==
    /\ pc = "logon" /\ logon = "files"
    /\ logon' = "logged"
    /\ saved' = IF Wanted THEN "logged" ELSE saved
    /\ job' = [job EXCEPT !.src = IF job.second \/ setup.mode = "switch" THEN "switch" ELSE "lfd"]
    /\ pc' = "update"
    /\ UNCHANGED <<last, rc, files, keys, rest, harm>>

\* Reading the files: missing ones end the session (CheckFiles), an unreadable
\* CPAT asks for an update that skips it.
Read(state, present) ==
    CASE ~present -> [logon |-> IF state = "logged" THEN "required" ELSE state, last |-> state]
      [] present /\ setup.unreadable /\ Rank(state) > Rank("files") ->
            [logon |-> "files", last |-> state]
      [] OTHER -> [logon |-> state, last |-> last]

\* what update_files leaves: it reads the files again after a download
Ends(state, again) == IF again THEN Read(state, file'.present) ELSE [logon |-> state, last |-> last]
CtlsInit(again) == reload' \in IF again /\ ~setup.unreadable THEN BOOLEAN ELSE {again}

\* the result of update_files, and what logon_request does with it
Updated(state, res, again) ==
    LET r == Ends(state, again)
        valid == r.logon = "logged" /\ file'.present
    IN  /\ last' = r.last
        /\ CASE job.src = "switch" ->
                  /\ logon' = r.logon
                  /\ IF res = "ok" \/ job.second
                     THEN Loop /\ job' = [job EXCEPT !.src = "none"] ELSE Exit("error")
             [] job.src = "lfd" /\ setup.mode = "then" ->
                  /\ logon' = "required"
                  /\ Loop /\ job' = [job EXCEPT !.src = "none", !.second = TRUE]
             [] OTHER ->
                  /\ logon' = IF valid THEN r.logon ELSE "required"
                  /\ IF valid THEN Loop /\ job' = [job EXCEPT !.src = "none"] ELSE Exit("error")

NothingToUpdate ==
    /\ pc = "update" /\ ~Wanted
    /\ UNCHANGED file
    /\ CtlsInit(reload) /\ Updated("logged", "ok", reload)
    /\ UNCHANGED <<saved, rc, keys, rest, harm>>

Downloaded ==
    /\ pc = "update" /\ Wanted
    /\ file' = [present |-> TRUE, update |-> FALSE]
    /\ saved' = "logged"
    /\ CtlsInit(TRUE) /\ Updated("logged", "ok", TRUE)
    /\ rc' = "none"
    /\ UNCHANGED <<keys, rest, harm>>

\* the TMS has placed files of its own: VIM_ERROR_TMS_CONFIG
TmsConfig ==
    /\ pc = "update" /\ Wanted /\ job.src = "lfd"
    /\ \E got \in BOOLEAN :
        file' = [present |-> file.present \/ got, update |-> file.update /\ ~reload]
    /\ CtlsInit(reload) /\ Updated("logged", "error", reload)
    /\ UNCHANGED <<saved, rc, keys, rest, harm>>

\* no file; the POS may have cancelled, then nothing is read again
DownloadFails ==
    /\ pc = "update" /\ Wanted
    /\ \E again \in {reload, FALSE} :
        /\ file' = [file EXCEPT !.update = @ /\ ~again]
        /\ reload' \in IF again /\ ~setup.unreadable THEN BOOLEAN ELSE {reload}
        /\ Updated("required", "error", again)
    /\ rc' \in {rc, "none"}
    /\ UNCHANGED <<saved, keys, rest, harm>>

-----------------------------------------------------------------------------
(* Around logon_request: ReversalAndSAFProcessing and the direct callers. *)

Undone(state, res) == IF res = "comms" /\ state = "required" THEN last ELSE state

\* logon_request saves the terminal file and returns
SaveState ==
    /\ pc = "exit"
    /\ saved' = logon
    /\ pc' = "returned"
    /\ UNCHANGED <<logon, last, rc, files, keys, rest, job, harm>>

\* Mutation: the locals of the last logon are kept
Back_KeepsJob == pc' = "idle" /\ job' = job
Back == pc' = "idle" /\ job' = NoJob

\* Mutation: a sale goes on after a logon that failed
GoesOn_Always(res) == TRUE
GoesOn(res) == res = "ok"

\* from finalisation and from the daily housekeeping nothing else follows
ReturnDirect ==
    /\ pc = "returned" /\ job.from \in {"end", "daily"}
    /\ Back
    /\ UNCHANGED <<logon, last, saved, rc, files, keys, rest, harm>>

\* ReversalAndSAFProcessing undoes a logon that had no answer; a POS logon ends
\* with logon_finalisation
Return ==
    /\ pc = "returned" /\ job.from \notin {"end", "daily"}
    /\ logon' = Undone(logon, job.res)
    /\ harm' = IF logon' \notin Ladder \cup {logon} THEN harm \cup {"rolledback"} ELSE harm
    /\ IF GoesOn(job.res) THEN pc' = "uploads" /\ UNCHANGED job ELSE Back
    /\ rc' \in IF job.from = "pos" THEN {rc, "none"} ELSE {rc}
    /\ UNCHANGED <<last, saved, files, keys, rest>>

\* A message under the session keys.  76 asks for new ones; wrong keys are met
\* with 96, 98 or a MAC that the terminal does not accept.
Macked ==
    \/ /\ ses /\ UNCHANGED <<logon, last, saved>>
    \/ /\ ses /\ last' = logon /\ logon' = "session" /\ UNCHANGED saved
    \/ /\ ~ses /\ last' = logon
       /\ \E crypto \in BOOLEAN : logon' = SetLogonState("none", crypto)
       /\ saved' = logon'

\* what follows the uploads
Proceed == CASE job.from = "gate" -> pc' = "before" /\ job' = NoJob
             [] job.from = "send" -> pc' = "sale" /\ job' = NoJob
             [] OTHER -> Back

\* reversal_send and saf_send: nothing to send, a message answered, or an error
Uploads ==
    /\ pc = "uploads"
    /\ \/ UNCHANGED <<logon, last, saved>> /\ (Proceed \/ Back)
       \/ Macked /\ IF ses THEN Proceed ELSE Back
    /\ UNCHANGED <<rc, files, keys, rest, harm>>

\* ReversalAndSAFProcessing in state s: refused, a logon first, or uploads
Process(from, download, s) ==
    LET j == [NoJob EXCEPT !.from = from, !.download = download] IN
    /\ logon' = IF s = "ktm" THEN "rsa" ELSE s
    /\ IF s = "rsa" /\ from # "pos" /\ ~setup.live
       THEN Back
       ELSE job' = j /\ pc' = IF s = "logged" THEN "uploads" ELSE "logon"

-----------------------------------------------------------------------------
(* Who starts it. *)

\* the idle timer; a key change still to be made is made here as well
IdleTick ==
    /\ pc = "idle"
    /\ rc' \in {rc, "none"}
    /\ Process("idle", TRUE, logon)
    /\ UNCHANGED <<last, saved, files, keys, rest, harm>>

\* display_idle: an update that was interrupted is a logon again
DisplayIdle ==
    /\ pc = "idle" /\ logon = "files"
    /\ logon' = "required"
    /\ UNCHANGED <<last, saved, rc, files, keys, rest, pc, job, harm>>

\* a logon of the POS, ordinary or RSA, and the menu's RSA logon
PosLogon ==
    /\ pc = "idle"
    /\ \E target \in {"required", "rsa"} :
        /\ last' = logon /\ rc' = "none"
        /\ Process("pos", TRUE, Lower(target, logon))
    /\ UNCHANGED <<saved, files, keys, rest, harm>>

MenuRsaLogon ==
    /\ pc = "idle"
    /\ Process("pos", TRUE, "rsa")
    /\ UNCHANGED <<last, saved, rc, files, keys, rest, harm>>

\* DailyHouseKeeping after a day without transactions
DailyLogon ==
    /\ pc = "idle"
    /\ logon' = CASE logon = "logged" -> "required" [] logon = "ktm" -> "rsa" [] OTHER -> logon
    /\ job' = [NoJob EXCEPT !.from = "daily", !.download = TRUE]
    /\ pc' = "logon"
    /\ UNCHANGED <<last, saved, rc, files, keys, rest, harm>>

\* Mutation: another terminal id asks for new session keys only
NewLane_KeyChange == "session"
NewLane == "rsa"

\* the POS gives the terminal another id
LaneChange ==
    /\ pc = "idle" /\ counts.lanes < MaxLanes
    /\ counts' = [counts EXCEPT !.lanes = @ + 1]
    /\ last' = logon /\ logon' = NewLane /\ saved' = NewLane
    /\ lane' = FALSE
    /\ UNCHANGED <<setup, rc, files, kek, ses, pc, job, harm>>

\* txn_check_tms_logon, which looks for the files first
StartSale ==
    /\ pc = "idle" /\ file.present
    /\ file' = [file EXCEPT !.update = FALSE] /\ rc' = "none"
    /\ Process("gate", FALSE, logon)
    /\ UNCHANGED <<last, saved, reload, keys, rest, harm>>

RefuseSale ==
    /\ pc = "idle" /\ ~file.present
    /\ file' = [file EXCEPT !.update = FALSE] /\ rc' = "none"
    /\ last' = logon
    /\ logon' = IF logon = "logged" THEN "required" ELSE logon
    /\ UNCHANGED <<saved, reload, keys, rest, pc, job, harm>>

\* txn_authorisation_processing asks once more before the request
BeforeRequest ==
    /\ pc = "before"
    /\ Process("send", TRUE, logon)
    /\ UNCHANGED <<last, saved, rc, files, keys, rest, harm>>

\* the request and its answer; new keys are fetched before the sale ends
Request ==
    /\ pc = "sale"
    /\ \/ UNCHANGED <<logon, last, saved, rc>> /\ Back
       \/ /\ Macked /\ rc' \in IF ses THEN {"none", "N2"} ELSE {"none", "96"}
          /\ \/ Back
             \/ /\ ses /\ rc' = "none" /\ logon' = "session"
                /\ job' = [NoJob EXCEPT !.from = "end"] /\ pc' = "logon"
    /\ UNCHANGED <<files, keys, rest, harm>>

-----------------------------------------------------------------------------
(* Start-up. *)

\* Mutation: the start takes a logged on terminal for logged on
Started_AsSaved(s) == IF Rank(s) < Rank("required") THEN "rsa" ELSE s
Started(s) == IF Rank(s) < Rank("required") THEN "rsa" ELSE "required"

\* terminal_load reads the files, power_up demotes the state
Start(s) ==
    /\ logon' = Started(Read(s, file.present).logon)
    /\ last' = logon' /\ saved' = s
    /\ rc' = "none" /\ Back
    /\ file' = [file EXCEPT !.update = FALSE]
    /\ UNCHANGED <<setup, reload, keys>>

\* the reboot of every night saves the terminal file first
NightlyReboot ==
    /\ pc = "idle"
    /\ Start(logon)
    /\ UNCHANGED <<counts, harm>>

PowerFail ==
    /\ counts.failures < MaxFailures
    /\ counts' = [counts EXCEPT !.failures = @ + 1]
    /\ Start(saved)
    /\ harm' = IF logon' # "rsa" /\ logon \in Ladder THEN harm \cup {"unsaved"} ELSE harm

\* a file is lost
FileLost ==
    /\ pc = "idle" /\ file.present /\ counts.failures < MaxFailures
    /\ counts' = [counts EXCEPT !.failures = @ + 1]
    /\ file' = [file EXCEPT !.present = FALSE]
    /\ UNCHANGED <<setup, logon, last, saved, rc, reload, keys, pc, job, harm>>

-----------------------------------------------------------------------------
\* a terminal in service; a change of the terminal id makes it a new one
Init ==
    /\ setup \in Settings
    /\ logon = "logged" /\ last = "logged" /\ saved = "logged"
    /\ kek = TRUE /\ ses = TRUE /\ lane = TRUE
    /\ rc = "none" /\ reload = FALSE
    /\ file = [present |-> TRUE, update |-> FALSE]
    /\ pc = "idle" /\ job = NoJob
    /\ counts = [lanes |-> 0, failures |-> 0]
    /\ harm = {}

Exchange ==
    \/ SendLogon \/ LogonUnanswered \/ LadderStep \/ LogonApproved \/ LogonWrongKeys
    \/ LogonUnproven \/ KeyChange \/ LogonRefused \/ ContactTms \/ LoggedOn
Update ==
    \/ UploadFails \/ StartUpdate \/ NothingToUpdate \/ Downloaded \/ TmsConfig \/ DownloadFails
Thread == Exchange \/ Update \/ SaveState \/ ReturnDirect \/ Return \/ Uploads \/ BeforeRequest \/ Request
Events ==
    \/ IdleTick \/ DisplayIdle \/ PosLogon \/ MenuRsaLogon \/ DailyLogon \/ LaneChange
    \/ StartSale \/ RefuseSale \/ NightlyReboot \/ PowerFail \/ FileLost

Next == Thread \/ Events

Spec == Init /\ [][Next]_vars

-----------------------------------------------------------------------------
(* Properties. *)

\* Types; outside logon_request nothing of one is left.
TypeOK ==
    /\ setup \in Setups
    /\ logon \in States /\ last \in States /\ saved \in States
    /\ rc \in {Stale(code) : code \in Codes}
    /\ file \in [present : BOOLEAN, update : BOOLEAN]
    /\ reload \in BOOLEAN /\ kek \in BOOLEAN /\ ses \in BOOLEAN /\ lane \in BOOLEAN
    /\ pc \in {"idle", "logon", "sent", "tms", "update", "exit", "returned", "uploads", "before", "sale"}
    /\ job \in Jobs /\ (pc = "idle" => job = NoJob)
    /\ counts \in [lanes : 0 .. MaxLanes, failures : 0 .. MaxFailures]
    /\ harm \subseteq {"rolledback", "unsaved", "stale", "ignored"}

\* The terminal is above the key exchange only with the key encryption key the
\* host has, unless the power took a lower state before it was saved, or an old
\* answer was taken for its own.
LadderFirst == logon \notin Ladder => kek \/ harm \cap {"unsaved", "stale"} # {}

\* A terminal that says it is logged on has the session keys the host has,
\* unless a logon without an answer was undone or the ladder was skipped.
LoggedOnInSession == logon = "logged" /\ pc = "idle" => ses \/ harm \cap {"rolledback", "stale", "unsaved"} # {}

\* A request is sent only when logged on, at most a key change outstanding,
\* unless an upload that failed ended the logon before it.
SaleWhenLoggedOn == pc = "sale" => logon \in {"logged", "session"} \/ "ignored" \in harm

\* After a change of the terminal id the first request follows a logon that was
\* answered, unless that logon was undone, an old answer taken for its own, or the
\* ladder was skipped.
SaleInItsLane == pc = "sale" => lane \/ harm \cap {"rolledback", "stale", "unsaved"} # {}
=============================================================================
