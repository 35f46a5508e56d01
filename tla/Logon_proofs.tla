----------------------------- MODULE Logon_proofs -----------------------------
(***************************************************************************)
(* Theorems about Logon, for any set of settings and any number of changes *)
(* of the terminal id and of power failures: the ladder is climbed from    *)
(* below, logged on means the keys and the id of the host, and no request  *)
(* is sent before that.                                                    *)
(***************************************************************************)
EXTENDS Logon, TLAPS

\* the two exemptions of the properties, spelled out
Skipped == "unsaved" \in harm \/ "stale" \in harm
Excused == Skipped \/ "rolledback" \in harm

KeysFirst == logon \notin Ladder => kek \/ Skipped

\* session keys are made under the key encryption key
UnderKek == ses => kek

\* the files may be out of date, but only a logon says so
InSession == logon \in {"files", "logged"} => ses \/ Excused
InLane == logon \in {"files", "session", "logged"} => lane \/ Excused

\* what the thread has in hand at each of its stages
InHand == logon = "files" /\ "ignored" \in harm
AtStage ==
    /\ pc = "sent" => /\ job.msg \in Ladder \cup {"required", "session"}
                      /\ logon = IF job.msg = "ktm" THEN "rsa" ELSE job.msg
    /\ pc = "tms" => logon \notin Ladder /\ (Excused \/ (ses /\ lane))
    /\ pc = "update" => logon = "logged" /\ job.src \in {"lfd", "switch"}
    /\ pc = "exit" /\ job.res = "ok" => logon = "logged"
    /\ pc = "returned" /\ job.res = "ok" => logon = "logged" \/ InHand
    /\ pc \in {"uploads", "sale"} => logon \in {"logged", "session"} \/ InHand

Sound == KeysFirst /\ UnderKek /\ InSession /\ InLane /\ AtStage

LInv == TypeOK /\ Sound

-----------------------------------------------------------------------------
(* What the parts of several actions leave. *)

LEMMA CodeSet == {Stale(code) : code \in Codes} = {"N2", "N3", "96", "none"}
BY DEF Stale, Codes

LEMMA NoJobTyped == NoJob \in Jobs /\ NoJob.res = "ok"
BY DEF NoJob, Jobs, Results

\* after an answer, or without one: on, out, or to the TMS
LEMMA ContinueEnds ==
    ASSUME job \in Jobs, NEW m, NEW r, r.res \in Results, Continue(m, r)
    PROVE  /\ job' \in Jobs
           /\ pc' \in {"exit", "tms", "logon"}
           /\ logon' = AfterSend(m, r, job.download)
           /\ pc' = "exit" => job'.res = r.res /\ (r.res # "ok" \/ m = "session")
           /\ pc' = "tms" => m = "required" /\ r.res = "ok"
<1> USE DEF Continue, Exit, Loop, Jobs
<1>1. CASE r.res # "ok" \/ m = "session"
    BY <1>1
<1>2. CASE ~(r.res # "ok" \/ m = "session")
    BY <1>2
<1> QED BY <1>1, <1>2

\* after an update: another message, or out with an error
LEMMA UpdatedEnds ==
    ASSUME job \in Jobs, NEW state, NEW res, NEW again, Updated(state, res, again)
    PROVE  /\ job' \in Jobs
           /\ pc' \in {"exit", "logon"}
           /\ pc' = "exit" => job'.res = "error"
<1> USE DEF Updated, Exit, Loop, Jobs, Results
<1>1. CASE job.src = "switch"
    BY <1>1
<1>2. CASE job.src = "lfd" /\ setup.mode = "then"
    BY <1>2
<1>3. CASE ~(job.src = "switch") /\ ~(job.src = "lfd" /\ setup.mode = "then")
    BY <1>3
<1> QED BY <1>1, <1>2, <1>3

\* ReversalAndSAFProcessing: out, to a logon, or to the uploads
LEMMA ProcessStarts ==
    ASSUME job \in Jobs, NEW from \in Callers, NEW download \in BOOLEAN, NEW s,
           Process(from, download, s)
    PROVE  /\ job' \in Jobs
           /\ logon' = IF s = "ktm" THEN "rsa" ELSE s
           /\ \/ pc' = "idle" /\ job' = NoJob
              \/ pc' = "logon"
              \/ pc' = "uploads" /\ s = "logged"
BY NoJobTyped DEF Process, Back, Jobs, Callers, NoJob, Results

\* an approved logon that goes to the TMS is one the host has made
Told(m,
    r) == (m = "required" /\ r.res = "ok") => (r.logon \notin Ladder /\ ses' /\ lane')

LEMMA AnsweredStage ==
    ASSUME LInv, NEW r, r.res \in Results, Continue(job.msg, r), Told(job.msg, r)
    PROVE  AtStage'
<1>1. /\ pc' \in {"exit", "tms", "logon"}
      /\ logon' = AfterSend(job.msg, r, job.download)
      /\ pc' = "exit" => job'.res = r.res /\ (r.res # "ok" \/ job.msg = "session")
      /\ pc' = "tms" => job.msg = "required" /\ r.res = "ok"
    BY ContinueEnds DEF LInv, TypeOK
<1>2. pc' = "tms" => logon' \notin Ladder /\ ses' /\ lane'
    BY <1>1 DEF AfterSend, Ladder, Told
<1>3. pc' = "exit" /\ job'.res = "ok" => logon' = "logged"
    BY <1>1 DEF AfterSend, Session
<1> QED BY <1>1, <1>2, <1>3 DEF AtStage

LEMMA UpdatedStage ==
    ASSUME LInv, NEW state, NEW res, NEW again, Updated(state, res, again)
    PROVE  AtStage'
BY UpdatedEnds DEF LInv, TypeOK, AtStage

LEMMA StateAsked ==
    ASSUME NEW m, NEW crypto PROVE SetLogonState(m, crypto) \in {"rsa", "session",
        "required"}
BY DEF SetLogonState

LEMMA AnswerTyped ==
    ASSUME NEW m \in Ladder \cup {"required", "session"}, NEW download \in BOOLEAN,
           NEW r, r.logon \in States
    PROVE  AfterSend(m, r, download) \in States
<1> USE DEF AfterSend, Session
<1>1. {"rsa", "ktm", "kek", "required", "logged"} \subseteq States
    BY DEF States, Ladder
<1>2. CASE m = "rsa" BY <1>1, <1>2
<1>3. CASE m = "ktm" BY <1>1, <1>3
<1>4. CASE m = "kek" BY <1>1, <1>4
<1>5. CASE m = "session" BY <1>1, <1>5
<1>6. CASE m = "required" BY <1>1, <1>6
<1> QED BY <1>2, <1>3, <1>4, <1>5, <1>6 DEF Ladder

LEMMA UpdatedStates ==
    ASSUME LInv, NEW state \in States, NEW res, NEW again, Updated(state, res, again)
    PROVE  logon' \in States /\ last' \in States
<1>1. PICK r : /\ r.logon \in States /\ r.last \in States
              /\ last' = r.last /\ logon' \in {r.logon, "required"}
    <2>1. Ends(state, again).logon \in States /\ Ends(state, again).last \in States
        BY DEF Ends, Read, LInv, TypeOK, States
    <2>2. last' = Ends(state, again).last /\ logon' \in {Ends(state, again).logon,
        "required"}
        BY DEF Updated
    <2> QED BY <2>1, <2>2
<1> QED BY <1>1 DEF States

LEMMA SendLogonStep == ASSUME LInv, SendLogon PROVE LInv'
<1> USE DEF SendLogon, files, keys, rest
<1>1. job' \in Jobs
    BY DEF LInv, TypeOK, Jobs, States, Ladder
<1>2. TypeOK'
    BY <1>1, CodeSet DEF LInv, TypeOK, Sound, AtStage, States, Ladder, Results
<1>3. KeysFirst' /\ UnderKek'
    BY CodeSet DEF LInv, TypeOK, Sound, KeysFirst, UnderKek, InSession, InLane,
        AtStage, InHand, Excused, Skipped, States, Ladder
<1>4. InSession' /\ InLane'
    BY CodeSet DEF LInv, TypeOK, Sound, KeysFirst, UnderKek, InSession, InLane,
        AtStage, InHand, Excused, Skipped, States, Ladder
<1>5. AtStage'
    BY CodeSet DEF LInv, TypeOK, Sound, KeysFirst, UnderKek, InSession, InLane,
        AtStage, InHand, Excused, Skipped, States, Ladder, Jobs
<1> QED BY <1>2, <1>3, <1>4, <1>5 DEF LInv, Sound

LEMMA LogonUnansweredStep == ASSUME LInv, LogonUnanswered PROVE LInv'
<1> USE DEF LogonUnanswered, files, rest
<1>1. PICK r : /\ Continue(job.msg, r) /\ r.res \in Results
              /\ r.logon \in States /\ Told(job.msg, r)
    BY DEF LInv, TypeOK, Sound, AtStage, States, Results, Ladder, Sent, SetLogonState,
        Told
<1>2. /\ job' \in Jobs /\ pc' \in {"exit", "tms", "logon"}
      /\ logon' = AfterSend(job.msg, r, job.download)
    BY <1>1, ContinueEnds DEF LInv, TypeOK
<1>3. TypeOK'
    <2>1. logon' \in States /\ last' \in States /\ saved' \in States
        BY <1>1, <1>2 DEF LInv, TypeOK, Sound, AtStage, States, Ladder, Results,
            AfterSend, Session, Stale
    <2>2. /\ rc' \in {Stale(code) : code \in Codes} /\ setup' \in Setups
          /\ file' \in [present : BOOLEAN, update : BOOLEAN]
        BY CodeSet DEF LInv, TypeOK
    <2>3. reload' \in BOOLEAN /\ kek' \in BOOLEAN /\ ses' \in BOOLEAN /\ lane' \in BOOLEAN
        BY DEF LInv, TypeOK
    <2>4. /\ pc' \in {"idle", "logon", "sent", "tms", "update", "exit", "returned",
                    "uploads", "before", "sale"}
          /\ job' \in Jobs /\ (pc' = "idle" => job' = NoJob)
        BY <1>1, <1>2 DEF LInv, TypeOK
    <2>5. /\ counts' \in [lanes : 0 .. MaxLanes, failures : 0 .. MaxFailures]
          /\ harm' \subseteq {"rolledback", "unsaved", "stale", "ignored"}
        BY DEF LInv, TypeOK
    <2> QED BY <2>1, <2>2, <2>3, <2>4, <2>5 DEF TypeOK
<1>4. KeysFirst' /\ UnderKek'
    BY CodeSet DEF LInv, TypeOK, Sound, KeysFirst, UnderKek, InSession, InLane,
        AtStage, InHand, Excused, Skipped, States, Ladder, Continue, AfterSend,
        Session, Sent, SetLogonState
<1>5. InSession' /\ InLane'
    BY CodeSet DEF LInv, TypeOK, Sound, KeysFirst, UnderKek, InSession, InLane,
        AtStage, InHand, Excused, Skipped, States, Ladder, Continue, AfterSend,
        Session, Sent, SetLogonState
<1>6. AtStage'
    BY <1>1, AnsweredStage
<1> QED BY <1>3, <1>4, <1>5, <1>6 DEF LInv, Sound

LEMMA LadderStepStep == ASSUME LInv, LadderStep PROVE LInv'
<1> USE DEF LadderStep, Ladder, files, rest
<1>1. PICK r : /\ Continue(job.msg, r) /\ r.res \in Results
              /\ r.logon \in States /\ Told(job.msg, r)
    BY DEF LInv, TypeOK, Sound, AtStage, States, Results, Ladder, Sent, SetLogonState,
        Told
<1>2. /\ job' \in Jobs /\ pc' \in {"exit", "tms", "logon"}
      /\ logon' = AfterSend(job.msg, r, job.download)
    BY <1>1, ContinueEnds DEF LInv, TypeOK
<1>3. TypeOK'
    <2>1. logon' \in States /\ last' \in States /\ saved' \in States
        BY <1>1, <1>2 DEF LInv, TypeOK, Sound, AtStage, States, Ladder, Results,
            AfterSend, Session, Stale
    <2>2. /\ rc' \in {Stale(code) : code \in Codes} /\ setup' \in Setups
          /\ file' \in [present : BOOLEAN, update : BOOLEAN]
        BY CodeSet DEF LInv, TypeOK
    <2>3. reload' \in BOOLEAN /\ kek' \in BOOLEAN /\ ses' \in BOOLEAN /\ lane' \in BOOLEAN
        BY DEF LInv, TypeOK
    <2>4. /\ pc' \in {"idle", "logon", "sent", "tms", "update", "exit", "returned",
                    "uploads", "before", "sale"}
          /\ job' \in Jobs /\ (pc' = "idle" => job' = NoJob)
        BY <1>1, <1>2 DEF LInv, TypeOK
    <2>5. /\ counts' \in [lanes : 0 .. MaxLanes, failures : 0 .. MaxFailures]
          /\ harm' \subseteq {"rolledback", "unsaved", "stale", "ignored"}
        BY DEF LInv, TypeOK
    <2> QED BY <2>1, <2>2, <2>3, <2>4, <2>5 DEF TypeOK
<1>4. KeysFirst' /\ UnderKek'
    BY CodeSet DEF LInv, TypeOK, Sound, KeysFirst, UnderKek, InSession, InLane,
        AtStage, InHand, Excused, Skipped, States, Ladder, Continue, AfterSend,
        Session, Sent, SetLogonState
<1>5. InSession' /\ InLane'
    BY CodeSet DEF LInv, TypeOK, Sound, KeysFirst, UnderKek, InSession, InLane,
        AtStage, InHand, Excused, Skipped, States, Ladder, Continue, AfterSend,
        Session, Sent, SetLogonState
<1>6. AtStage'
    BY <1>1, AnsweredStage
<1> QED BY <1>3, <1>4, <1>5, <1>6 DEF LInv, Sound

LEMMA LogonApprovedStep == ASSUME LInv, LogonApproved PROVE LInv'
<1> USE DEF LogonApproved, files, rest
<1>1. PICK r : /\ Continue(job.msg, r) /\ r.res \in Results
              /\ r.logon \in States /\ Told(job.msg, r)
    BY DEF LInv, TypeOK, Sound, AtStage, States, Results, Ladder, Sent, SetLogonState,
        Told
<1>2. /\ job' \in Jobs /\ pc' \in {"exit", "tms", "logon"}
      /\ logon' = AfterSend(job.msg, r, job.download)
    BY <1>1, ContinueEnds DEF LInv, TypeOK
<1>3. TypeOK'
    <2>1. logon' \in States /\ last' \in States /\ saved' \in States
        BY <1>1, <1>2 DEF LInv, TypeOK, Sound, AtStage, States, Ladder, Results,
            AfterSend, Session, Stale
    <2>2. /\ rc' \in {Stale(code) : code \in Codes} /\ setup' \in Setups
          /\ file' \in [present : BOOLEAN, update : BOOLEAN]
        BY CodeSet DEF LInv, TypeOK
    <2>3. reload' \in BOOLEAN /\ kek' \in BOOLEAN /\ ses' \in BOOLEAN /\ lane' \in BOOLEAN
        BY DEF LInv, TypeOK
    <2>4. /\ pc' \in {"idle", "logon", "sent", "tms", "update", "exit", "returned",
                    "uploads", "before", "sale"}
          /\ job' \in Jobs /\ (pc' = "idle" => job' = NoJob)
        BY <1>1, <1>2 DEF LInv, TypeOK
    <2>5. /\ counts' \in [lanes : 0 .. MaxLanes, failures : 0 .. MaxFailures]
          /\ harm' \subseteq {"rolledback", "unsaved", "stale", "ignored"}
        BY DEF LInv, TypeOK
    <2> QED BY <2>1, <2>2, <2>3, <2>4, <2>5 DEF TypeOK
<1>4. KeysFirst' /\ UnderKek'
    BY CodeSet DEF LInv, TypeOK, Sound, KeysFirst, UnderKek, InSession, InLane,
        AtStage, InHand, Excused, Skipped, States, Ladder, Continue, AfterSend,
        Session, Sent, SetLogonState
<1>5. InSession' /\ InLane'
    BY CodeSet DEF LInv, TypeOK, Sound, KeysFirst, UnderKek, InSession, InLane,
        AtStage, InHand, Excused, Skipped, States, Ladder, Continue, AfterSend,
        Session, Sent, SetLogonState
<1>6. AtStage'
    BY <1>1, AnsweredStage
<1> QED BY <1>3, <1>4, <1>5, <1>6 DEF LInv, Sound

LEMMA LogonWrongKeysStep == ASSUME LInv, LogonWrongKeys PROVE LInv'
<1> USE DEF LogonWrongKeys, files, rest
<1>1. PICK r : /\ Continue(job.msg, r) /\ r.res \in Results
              /\ r.logon \in States /\ Told(job.msg, r)
    BY DEF LInv, TypeOK, Sound, AtStage, States, Results, Ladder, Sent, SetLogonState,
        Told
<1>2. /\ job' \in Jobs /\ pc' \in {"exit", "tms", "logon"}
      /\ logon' = AfterSend(job.msg, r, job.download)
    BY <1>1, ContinueEnds DEF LInv, TypeOK
<1>3. TypeOK'
    <2>1. logon' \in States /\ last' \in States /\ saved' \in States
        BY <1>1, <1>2 DEF LInv, TypeOK, Sound, AtStage, States, Ladder, Results,
            AfterSend, Session, Stale
    <2>2. /\ rc' \in {Stale(code) : code \in Codes} /\ setup' \in Setups
          /\ file' \in [present : BOOLEAN, update : BOOLEAN]
        BY CodeSet DEF LInv, TypeOK
    <2>3. reload' \in BOOLEAN /\ kek' \in BOOLEAN /\ ses' \in BOOLEAN /\ lane' \in BOOLEAN
        BY DEF LInv, TypeOK
    <2>4. /\ pc' \in {"idle", "logon", "sent", "tms", "update", "exit", "returned",
                    "uploads", "before", "sale"}
          /\ job' \in Jobs /\ (pc' = "idle" => job' = NoJob)
        BY <1>1, <1>2 DEF LInv, TypeOK
    <2>5. /\ counts' \in [lanes : 0 .. MaxLanes, failures : 0 .. MaxFailures]
          /\ harm' \subseteq {"rolledback", "unsaved", "stale", "ignored"}
        BY DEF LInv, TypeOK
    <2> QED BY <2>1, <2>2, <2>3, <2>4, <2>5 DEF TypeOK
<1>4. KeysFirst' /\ UnderKek'
    BY CodeSet DEF LInv, TypeOK, Sound, KeysFirst, UnderKek, InSession, InLane,
        AtStage, InHand, Excused, Skipped, States, Ladder, Continue, AfterSend,
        Session, Sent, SetLogonState
<1>5. InSession' /\ InLane'
    BY CodeSet DEF LInv, TypeOK, Sound, KeysFirst, UnderKek, InSession, InLane,
        AtStage, InHand, Excused, Skipped, States, Ladder, Continue, AfterSend,
        Session, Sent, SetLogonState
<1>6. AtStage'
    BY <1>1, AnsweredStage
<1> QED BY <1>3, <1>4, <1>5, <1>6 DEF LInv, Sound

LEMMA LogonUnprovenStep == ASSUME LInv, LogonUnproven PROVE LInv'
<1> USE DEF LogonUnproven, files, keys, rest
<1>1. PICK r : /\ Continue(job.msg, r) /\ r.res \in Results
              /\ r.logon \in States /\ Told(job.msg, r)
    BY DEF LInv, TypeOK, Sound, AtStage, States, Results, Ladder, Sent, SetLogonState,
        Told
<1>2. /\ job' \in Jobs /\ pc' \in {"exit", "tms", "logon"}
      /\ logon' = AfterSend(job.msg, r, job.download)
    BY <1>1, ContinueEnds DEF LInv, TypeOK
<1>3. TypeOK'
    <2>1. logon' \in States /\ last' \in States /\ saved' \in States
        BY <1>1, <1>2 DEF LInv, TypeOK, Sound, AtStage, States, Ladder, Results,
            AfterSend, Session, Stale
    <2>2. /\ rc' \in {Stale(code) : code \in Codes} /\ setup' \in Setups
          /\ file' \in [present : BOOLEAN, update : BOOLEAN]
        BY CodeSet DEF LInv, TypeOK
    <2>3. reload' \in BOOLEAN /\ kek' \in BOOLEAN /\ ses' \in BOOLEAN /\ lane' \in BOOLEAN
        BY DEF LInv, TypeOK
    <2>4. /\ pc' \in {"idle", "logon", "sent", "tms", "update", "exit", "returned",
                    "uploads", "before", "sale"}
          /\ job' \in Jobs /\ (pc' = "idle" => job' = NoJob)
        BY <1>1, <1>2 DEF LInv, TypeOK
    <2>5. /\ counts' \in [lanes : 0 .. MaxLanes, failures : 0 .. MaxFailures]
          /\ harm' \subseteq {"rolledback", "unsaved", "stale", "ignored"}
        BY DEF LInv, TypeOK
    <2> QED BY <2>1, <2>2, <2>3, <2>4, <2>5 DEF TypeOK
<1>4. KeysFirst' /\ UnderKek'
    BY CodeSet DEF LInv, TypeOK, Sound, KeysFirst, UnderKek, InSession, InLane,
        AtStage, InHand, Excused, Skipped, States, Ladder, Continue, AfterSend,
        Session, Sent, SetLogonState
<1>5. InSession' /\ InLane'
    BY CodeSet DEF LInv, TypeOK, Sound, KeysFirst, UnderKek, InSession, InLane,
        AtStage, InHand, Excused, Skipped, States, Ladder, Continue, AfterSend,
        Session, Sent, SetLogonState
<1>6. AtStage'
    BY <1>1, AnsweredStage
<1> QED BY <1>3, <1>4, <1>5, <1>6 DEF LInv, Sound

LEMMA KeyChangeStep == ASSUME LInv, KeyChange PROVE LInv'
<1> USE DEF KeyChange, files, rest
<1>1. PICK r : /\ Continue(job.msg, r) /\ r.res \in Results
              /\ r.logon \in States /\ Told(job.msg, r)
    BY DEF LInv, TypeOK, Sound, AtStage, States, Results, Ladder, Sent, SetLogonState,
        Told
<1>2. /\ job' \in Jobs /\ pc' \in {"exit", "tms", "logon"}
      /\ logon' = AfterSend(job.msg, r, job.download)
    BY <1>1, ContinueEnds DEF LInv, TypeOK
<1>3. TypeOK'
    <2>1. logon' \in States /\ last' \in States /\ saved' \in States
        BY <1>1, <1>2 DEF LInv, TypeOK, Sound, AtStage, States, Ladder, Results,
            AfterSend, Session, Stale
    <2>2. /\ rc' \in {Stale(code) : code \in Codes} /\ setup' \in Setups
          /\ file' \in [present : BOOLEAN, update : BOOLEAN]
        BY CodeSet DEF LInv, TypeOK
    <2>3. reload' \in BOOLEAN /\ kek' \in BOOLEAN /\ ses' \in BOOLEAN /\ lane' \in BOOLEAN
        BY DEF LInv, TypeOK
    <2>4. /\ pc' \in {"idle", "logon", "sent", "tms", "update", "exit", "returned",
                    "uploads", "before", "sale"}
          /\ job' \in Jobs /\ (pc' = "idle" => job' = NoJob)
        BY <1>1, <1>2 DEF LInv, TypeOK
    <2>5. /\ counts' \in [lanes : 0 .. MaxLanes, failures : 0 .. MaxFailures]
          /\ harm' \subseteq {"rolledback", "unsaved", "stale", "ignored"}
        BY DEF LInv, TypeOK
    <2> QED BY <2>1, <2>2, <2>3, <2>4, <2>5 DEF TypeOK
<1>4. KeysFirst' /\ UnderKek'
    BY CodeSet DEF LInv, TypeOK, Sound, KeysFirst, UnderKek, InSession, InLane,
        AtStage, InHand, Excused, Skipped, States, Ladder, Continue, AfterSend,
        Session, Sent, SetLogonState
<1>5. InSession' /\ InLane'
    BY CodeSet DEF LInv, TypeOK, Sound, KeysFirst, UnderKek, InSession, InLane,
        AtStage, InHand, Excused, Skipped, States, Ladder, Continue, AfterSend,
        Session, Sent, SetLogonState
<1>6. AtStage'
    BY <1>1, AnsweredStage
<1> QED BY <1>3, <1>4, <1>5, <1>6 DEF LInv, Sound

LEMMA LogonRefusedStep == ASSUME LInv, LogonRefused PROVE LInv'
<1> USE DEF LogonRefused, files, Ladder, keys, rest
<1>1. PICK r : /\ Continue(job.msg, r) /\ r.res \in Results
              /\ r.logon \in States /\ Told(job.msg, r)
    BY DEF LInv, TypeOK, Sound, AtStage, States, Results, Ladder, Sent, SetLogonState,
        Told
<1>2. /\ job' \in Jobs /\ pc' \in {"exit", "tms", "logon"}
      /\ logon' = AfterSend(job.msg, r, job.download)
    BY <1>1, ContinueEnds DEF LInv, TypeOK
<1>3. TypeOK'
    <2>1. logon' \in States
        BY <1>1, <1>2, AnswerTyped DEF LInv, TypeOK, Sound, AtStage, Jobs
    <2>6. last' \in States
        BY DEF LInv, TypeOK
    <2>7. saved' \in States
        BY StateAsked DEF LInv, TypeOK, States
    <2>2. /\ rc' \in {Stale(code) : code \in Codes} /\ setup' \in Setups
          /\ file' \in [present : BOOLEAN, update : BOOLEAN]
        BY CodeSet DEF LInv, TypeOK, Stale
    <2>3. reload' \in BOOLEAN /\ kek' \in BOOLEAN /\ ses' \in BOOLEAN /\ lane' \in BOOLEAN
        BY DEF LInv, TypeOK
    <2>4. /\ pc' \in {"idle", "logon", "sent", "tms", "update", "exit", "returned",
                    "uploads", "before", "sale"}
          /\ job' \in Jobs /\ (pc' = "idle" => job' = NoJob)
        BY <1>1, <1>2 DEF LInv, TypeOK
    <2>5. /\ counts' \in [lanes : 0 .. MaxLanes, failures : 0 .. MaxFailures]
          /\ harm' \subseteq {"rolledback", "unsaved", "stale", "ignored"}
        BY DEF LInv, TypeOK
    <2> QED BY <2>1, <2>2, <2>3, <2>4, <2>5, <2>6, <2>7 DEF TypeOK
<1>4. KeysFirst' /\ UnderKek'
    BY CodeSet DEF LInv, TypeOK, Sound, KeysFirst, UnderKek, InSession, InLane,
        AtStage, InHand, Excused, Skipped, States, Ladder, Continue, AfterSend,
        Session, Sent, SetLogonState
<1>5. InSession' /\ InLane'
    BY CodeSet DEF LInv, TypeOK, Sound, KeysFirst, UnderKek, InSession, InLane,
        AtStage, InHand, Excused, Skipped, States, Ladder, Continue, AfterSend,
        Session, Sent, SetLogonState
<1>6. AtStage'
    BY <1>1, AnsweredStage
<1> QED BY <1>3, <1>4, <1>5, <1>6 DEF LInv, Sound

LEMMA ContactTmsStep == ASSUME LInv, ContactTms PROVE LInv'
<1> USE DEF ContactTms, Exit, files, keys, rest
<1>1. job' \in Jobs
    BY DEF LInv, TypeOK, Jobs, Results
<1>2. TypeOK'
    BY <1>1, CodeSet DEF LInv, TypeOK, Sound, AtStage, States, Ladder, Results
<1>3. KeysFirst' /\ UnderKek'
    BY CodeSet DEF LInv, TypeOK, Sound, KeysFirst, UnderKek, InSession, InLane,
        AtStage, InHand, Excused, Skipped, States, Ladder
<1>4. InSession' /\ InLane'
    BY CodeSet DEF LInv, TypeOK, Sound, KeysFirst, UnderKek, InSession, InLane,
        AtStage, InHand, Excused, Skipped, States, Ladder
<1>5. AtStage'
    BY CodeSet DEF LInv, TypeOK, Sound, KeysFirst, UnderKek, InSession, InLane,
        AtStage, InHand, Excused, Skipped, States, Ladder, Jobs
<1> QED BY <1>2, <1>3, <1>4, <1>5 DEF LInv, Sound

LEMMA LoggedOnStep == ASSUME LInv, LoggedOn PROVE LInv'
<1> USE DEF LoggedOn, Exit, files, keys, rest
<1>1. job' \in Jobs
    BY DEF LInv, TypeOK, Jobs, Results
<1>2. TypeOK'
    BY <1>1, CodeSet DEF LInv, TypeOK, Sound, AtStage, States, Ladder, Results
<1>3. KeysFirst' /\ UnderKek'
    BY CodeSet DEF LInv, TypeOK, Sound, KeysFirst, UnderKek, InSession, InLane,
        AtStage, InHand, Excused, Skipped, States, Ladder
<1>4. InSession' /\ InLane'
    BY CodeSet DEF LInv, TypeOK, Sound, KeysFirst, UnderKek, InSession, InLane,
        AtStage, InHand, Excused, Skipped, States, Ladder
<1>5. AtStage'
    BY CodeSet DEF LInv, TypeOK, Sound, KeysFirst, UnderKek, InSession, InLane,
        AtStage, InHand, Excused, Skipped, States, Ladder, Jobs
<1> QED BY <1>2, <1>3, <1>4, <1>5 DEF LInv, Sound

LEMMA UploadFailsStep == ASSUME LInv, UploadFails PROVE LInv'
<1> USE DEF UploadFails, files, keys, rest
<1>1. job' \in Jobs
    BY DEF LInv, TypeOK, Jobs, Results
<1>2. TypeOK'
    BY <1>1, CodeSet DEF LInv, TypeOK, Sound, AtStage, States, Ladder, Results
<1>3. KeysFirst' /\ UnderKek'
    BY CodeSet DEF LInv, TypeOK, Sound, KeysFirst, UnderKek, InSession, InLane,
        AtStage, InHand, Excused, Skipped, States, Ladder
<1>4. InSession' /\ InLane'
    BY CodeSet DEF LInv, TypeOK, Sound, KeysFirst, UnderKek, InSession, InLane,
        AtStage, InHand, Excused, Skipped, States, Ladder
<1>5. AtStage'
    BY CodeSet DEF LInv, TypeOK, Sound, KeysFirst, UnderKek, InSession, InLane,
        AtStage, InHand, Excused, Skipped, States, Ladder, Jobs
<1> QED BY <1>2, <1>3, <1>4, <1>5 DEF LInv, Sound

LEMMA StartUpdateStep == ASSUME LInv, StartUpdate PROVE LInv'
<1> USE DEF StartUpdate, files, Wanted, keys, rest
<1>1. job' \in Jobs
    BY DEF LInv, TypeOK, Jobs
<1>2. TypeOK'
    BY <1>1, CodeSet DEF LInv, TypeOK, Sound, AtStage, States, Ladder, Results
<1>3. KeysFirst' /\ UnderKek'
    BY CodeSet DEF LInv, TypeOK, Sound, KeysFirst, UnderKek, InSession, InLane,
        AtStage, InHand, Excused, Skipped, States, Ladder
<1>4. InSession' /\ InLane'
    BY CodeSet DEF LInv, TypeOK, Sound, KeysFirst, UnderKek, InSession, InLane,
        AtStage, InHand, Excused, Skipped, States, Ladder
<1>5. AtStage'
    BY CodeSet DEF LInv, TypeOK, Sound, KeysFirst, UnderKek, InSession, InLane,
        AtStage, InHand, Excused, Skipped, States, Ladder, Jobs
<1> QED BY <1>2, <1>3, <1>4, <1>5 DEF LInv, Sound

LEMMA NothingToUpdateStep == ASSUME LInv, NothingToUpdate PROVE LInv'
<1> USE DEF NothingToUpdate, Wanted, CtlsInit, files, keys, rest
<1>1. job' \in Jobs
    BY UpdatedEnds DEF LInv, TypeOK
<1>2. TypeOK'
    <2>1. /\ logon' \in States
          /\ last' \in States
        BY UpdatedStates DEF States
    <2>6. saved' \in States
        BY DEF LInv, TypeOK, States
    <2>2. /\ rc' \in {Stale(code) : code \in Codes} /\ setup' \in Setups
          /\ file' \in [present : BOOLEAN, update : BOOLEAN]
        BY CodeSet DEF LInv, TypeOK
    <2>3. reload' \in BOOLEAN /\ kek' \in BOOLEAN /\ ses' \in BOOLEAN /\ lane' \in BOOLEAN
        BY DEF LInv, TypeOK
    <2>4. /\ pc' \in {"idle", "logon", "sent", "tms", "update", "exit", "returned",
                    "uploads", "before", "sale"}
          /\ job' \in Jobs /\ (pc' = "idle" => job' = NoJob)
        BY <1>1, UpdatedEnds DEF LInv, TypeOK
    <2>5. /\ counts' \in [lanes : 0 .. MaxLanes, failures : 0 .. MaxFailures]
          /\ harm' \subseteq {"rolledback", "unsaved", "stale", "ignored"}
        BY DEF LInv, TypeOK
    <2> QED BY <2>1, <2>2, <2>3, <2>4, <2>5, <2>6 DEF TypeOK
<1>3. KeysFirst' /\ UnderKek'
    BY CodeSet DEF LInv, TypeOK, Sound, KeysFirst, UnderKek, InSession, InLane,
        AtStage, InHand, Excused, Skipped, States, Ladder
<1>4. InSession' /\ InLane'
    BY CodeSet DEF LInv, TypeOK, Sound, KeysFirst, UnderKek, InSession, InLane,
        AtStage, InHand, Excused, Skipped, States, Ladder
<1>5. AtStage'
    BY UpdatedStage
<1> QED BY <1>2, <1>3, <1>4, <1>5 DEF LInv, Sound

LEMMA DownloadedStep == ASSUME LInv, Downloaded PROVE LInv'
<1> USE DEF Downloaded, Wanted, CtlsInit, files, keys, rest
<1>1. job' \in Jobs
    BY UpdatedEnds DEF LInv, TypeOK
<1>2. TypeOK'
    <2>1. /\ logon' \in States
          /\ last' \in States
        BY UpdatedStates DEF States
    <2>6. saved' \in States
        BY DEF LInv, TypeOK, States
    <2>2. /\ rc' \in {Stale(code) : code \in Codes} /\ setup' \in Setups
          /\ file' \in [present : BOOLEAN, update : BOOLEAN]
        BY CodeSet DEF LInv, TypeOK
    <2>3. reload' \in BOOLEAN /\ kek' \in BOOLEAN /\ ses' \in BOOLEAN /\ lane' \in BOOLEAN
        BY DEF LInv, TypeOK
    <2>4. /\ pc' \in {"idle", "logon", "sent", "tms", "update", "exit", "returned",
                    "uploads", "before", "sale"}
          /\ job' \in Jobs /\ (pc' = "idle" => job' = NoJob)
        BY <1>1, UpdatedEnds DEF LInv, TypeOK
    <2>5. /\ counts' \in [lanes : 0 .. MaxLanes, failures : 0 .. MaxFailures]
          /\ harm' \subseteq {"rolledback", "unsaved", "stale", "ignored"}
        BY DEF LInv, TypeOK
    <2> QED BY <2>1, <2>2, <2>3, <2>4, <2>5, <2>6 DEF TypeOK
<1>3. KeysFirst' /\ UnderKek'
    BY CodeSet DEF LInv, TypeOK, Sound, KeysFirst, UnderKek, InSession, InLane,
        AtStage, InHand, Excused, Skipped, States, Ladder
<1>4. InSession' /\ InLane'
    BY CodeSet DEF LInv, TypeOK, Sound, KeysFirst, UnderKek, InSession, InLane,
        AtStage, InHand, Excused, Skipped, States, Ladder
<1>5. AtStage'
    BY UpdatedStage
<1> QED BY <1>2, <1>3, <1>4, <1>5 DEF LInv, Sound

LEMMA TmsConfigStep == ASSUME LInv, TmsConfig PROVE LInv'
<1> USE DEF TmsConfig, Wanted, CtlsInit, files, keys, rest
<1>1. job' \in Jobs
    BY UpdatedEnds DEF LInv, TypeOK
<1>2. TypeOK'
    <2>1. /\ logon' \in States
          /\ last' \in States
        BY UpdatedStates DEF States
    <2>6. saved' \in States
        BY DEF LInv, TypeOK, States
    <2>2. /\ rc' \in {Stale(code) : code \in Codes} /\ setup' \in Setups
          /\ file' \in [present : BOOLEAN, update : BOOLEAN]
        BY CodeSet DEF LInv, TypeOK
    <2>3. reload' \in BOOLEAN /\ kek' \in BOOLEAN /\ ses' \in BOOLEAN /\ lane' \in BOOLEAN
        BY DEF LInv, TypeOK
    <2>4. /\ pc' \in {"idle", "logon", "sent", "tms", "update", "exit", "returned",
                    "uploads", "before", "sale"}
          /\ job' \in Jobs /\ (pc' = "idle" => job' = NoJob)
        BY <1>1, UpdatedEnds DEF LInv, TypeOK
    <2>5. /\ counts' \in [lanes : 0 .. MaxLanes, failures : 0 .. MaxFailures]
          /\ harm' \subseteq {"rolledback", "unsaved", "stale", "ignored"}
        BY DEF LInv, TypeOK
    <2> QED BY <2>1, <2>2, <2>3, <2>4, <2>5, <2>6 DEF TypeOK
<1>3. KeysFirst' /\ UnderKek'
    BY CodeSet DEF LInv, TypeOK, Sound, KeysFirst, UnderKek, InSession, InLane,
        AtStage, InHand, Excused, Skipped, States, Ladder
<1>4. InSession' /\ InLane'
    BY CodeSet DEF LInv, TypeOK, Sound, KeysFirst, UnderKek, InSession, InLane,
        AtStage, InHand, Excused, Skipped, States, Ladder
<1>5. AtStage'
    BY UpdatedStage
<1> QED BY <1>2, <1>3, <1>4, <1>5 DEF LInv, Sound

LEMMA DownloadFailsStep == ASSUME LInv, DownloadFails PROVE LInv'
<1> USE DEF DownloadFails, Wanted, files, keys, rest
<1>1. job' \in Jobs
    BY UpdatedEnds DEF LInv, TypeOK
<1>2. TypeOK'
    <2>1. /\ logon' \in States
          /\ last' \in States
        BY UpdatedStates DEF States
    <2>6. saved' \in States
        BY DEF LInv, TypeOK, States
    <2>2. /\ rc' \in {Stale(code) : code \in Codes} /\ setup' \in Setups
          /\ file' \in [present : BOOLEAN, update : BOOLEAN]
        BY CodeSet DEF LInv, TypeOK
    <2>3. reload' \in BOOLEAN /\ kek' \in BOOLEAN /\ ses' \in BOOLEAN /\ lane' \in BOOLEAN
        BY DEF LInv, TypeOK
    <2>4. /\ pc' \in {"idle", "logon", "sent", "tms", "update", "exit", "returned",
                    "uploads", "before", "sale"}
          /\ job' \in Jobs /\ (pc' = "idle" => job' = NoJob)
        BY <1>1, UpdatedEnds DEF LInv, TypeOK
    <2>5. /\ counts' \in [lanes : 0 .. MaxLanes, failures : 0 .. MaxFailures]
          /\ harm' \subseteq {"rolledback", "unsaved", "stale", "ignored"}
        BY DEF LInv, TypeOK
    <2> QED BY <2>1, <2>2, <2>3, <2>4, <2>5, <2>6 DEF TypeOK
<1>3. KeysFirst' /\ UnderKek'
    BY CodeSet DEF LInv, TypeOK, Sound, KeysFirst, UnderKek, InSession, InLane,
        AtStage, InHand, Excused, Skipped, States, Ladder
<1>4. InSession' /\ InLane'
    BY CodeSet DEF LInv, TypeOK, Sound, KeysFirst, UnderKek, InSession, InLane,
        AtStage, InHand, Excused, Skipped, States, Ladder
<1>5. AtStage'
    BY UpdatedStage
<1> QED BY <1>2, <1>3, <1>4, <1>5 DEF LInv, Sound

LEMMA SaveStateStep == ASSUME LInv, SaveState PROVE LInv'
<1> USE DEF SaveState, files, keys, rest
<1>1. job' \in Jobs
    BY DEF LInv, TypeOK, Jobs
<1>2. TypeOK'
    BY <1>1, CodeSet DEF LInv, TypeOK, Sound, AtStage, States, Ladder, Results
<1>3. KeysFirst' /\ UnderKek'
    BY CodeSet DEF LInv, TypeOK, Sound, KeysFirst, UnderKek, InSession, InLane,
        AtStage, InHand, Excused, Skipped, States, Ladder
<1>4. InSession' /\ InLane'
    BY CodeSet DEF LInv, TypeOK, Sound, KeysFirst, UnderKek, InSession, InLane,
        AtStage, InHand, Excused, Skipped, States, Ladder
<1>5. AtStage'
    BY CodeSet DEF LInv, TypeOK, Sound, KeysFirst, UnderKek, InSession, InLane,
        AtStage, InHand, Excused, Skipped, States, Ladder, Jobs
<1> QED BY <1>2, <1>3, <1>4, <1>5 DEF LInv, Sound

LEMMA ReturnDirectStep == ASSUME LInv, ReturnDirect PROVE LInv'
<1> USE DEF ReturnDirect, Back, NoJob, files, keys, rest
<1>1. job' \in Jobs
    BY NoJobTyped DEF LInv, TypeOK
<1>2. TypeOK'
    BY <1>1, CodeSet DEF LInv, TypeOK, Sound, AtStage, States, Ladder, Results
<1>3. KeysFirst' /\ UnderKek'
    BY CodeSet DEF LInv, TypeOK, Sound, KeysFirst, UnderKek, InSession, InLane,
        AtStage, InHand, Excused, Skipped, States, Ladder
<1>4. InSession' /\ InLane'
    BY CodeSet DEF LInv, TypeOK, Sound, KeysFirst, UnderKek, InSession, InLane,
        AtStage, InHand, Excused, Skipped, States, Ladder
<1>5. AtStage'
    BY CodeSet DEF LInv, TypeOK, Sound, KeysFirst, UnderKek, InSession, InLane,
        AtStage, InHand, Excused, Skipped, States, Ladder, Jobs
<1> QED BY <1>2, <1>3, <1>4, <1>5 DEF LInv, Sound

LEMMA ReturnStep == ASSUME LInv, Return PROVE LInv'
<1> USE DEF Return, Undone, Ladder, GoesOn, Back, NoJob, files, keys, rest
<1>1. job' \in Jobs
    BY NoJobTyped DEF LInv, TypeOK, Jobs, NoJob, Callers, Results
<1>2. TypeOK'
    BY <1>1, CodeSet DEF LInv, TypeOK, Sound, AtStage, States, Ladder, Results
<1>3. KeysFirst' /\ UnderKek'
    BY CodeSet DEF LInv, TypeOK, Sound, KeysFirst, UnderKek, InSession, InLane,
        AtStage, InHand, Excused, Skipped, States, Ladder
<1>4. InSession' /\ InLane'
    BY CodeSet DEF LInv, TypeOK, Sound, KeysFirst, UnderKek, InSession, InLane,
        AtStage, InHand, Excused, Skipped, States, Ladder
<1>5. AtStage'
    BY CodeSet DEF LInv, TypeOK, Sound, KeysFirst, UnderKek, InSession, InLane,
        AtStage, InHand, Excused, Skipped, States, Ladder, Jobs
<1> QED BY <1>2, <1>3, <1>4, <1>5 DEF LInv, Sound

LEMMA UploadsStep == ASSUME LInv, Uploads PROVE LInv'
<1> USE DEF Uploads, Proceed, NoJob, Back, Macked, SetLogonState, Ladder, files, keys,
    rest
<1>1. job' \in Jobs
    BY NoJobTyped DEF LInv, TypeOK
<1>2. TypeOK'
    BY <1>1, CodeSet DEF LInv, TypeOK, Sound, AtStage, States, Ladder, Results
<1>3. KeysFirst' /\ UnderKek'
    BY CodeSet DEF LInv, TypeOK, Sound, KeysFirst, UnderKek, InSession, InLane,
        AtStage, InHand, Excused, Skipped, States, Ladder
<1>4. InSession' /\ InLane'
    BY CodeSet DEF LInv, TypeOK, Sound, KeysFirst, UnderKek, InSession, InLane,
        AtStage, InHand, Excused, Skipped, States, Ladder
<1>5. AtStage'
    BY CodeSet DEF LInv, TypeOK, Sound, KeysFirst, UnderKek, InSession, InLane,
        AtStage, InHand, Excused, Skipped, States, Ladder, Jobs
<1> QED BY <1>2, <1>3, <1>4, <1>5 DEF LInv, Sound

LEMMA BeforeRequestStep == ASSUME LInv, BeforeRequest PROVE LInv'
<1> USE DEF BeforeRequest, Process, NoJob, Back, files, keys, rest
<1>1. job' \in Jobs
    BY NoJobTyped, ProcessStarts DEF LInv, TypeOK, Callers
<1>2. TypeOK'
    BY <1>1, CodeSet DEF LInv, TypeOK, Sound, AtStage, States, Ladder, Results
<1>3. KeysFirst' /\ UnderKek'
    BY CodeSet DEF LInv, TypeOK, Sound, KeysFirst, UnderKek, InSession, InLane,
        AtStage, InHand, Excused, Skipped, States, Ladder
<1>4. InSession' /\ InLane'
    BY CodeSet DEF LInv, TypeOK, Sound, KeysFirst, UnderKek, InSession, InLane,
        AtStage, InHand, Excused, Skipped, States, Ladder
<1>5. AtStage'
    BY CodeSet DEF LInv, TypeOK, Sound, KeysFirst, UnderKek, InSession, InLane,
        AtStage, InHand, Excused, Skipped, States, Ladder, Jobs
<1> QED BY <1>2, <1>3, <1>4, <1>5 DEF LInv, Sound

LEMMA RequestStep == ASSUME LInv, Request PROVE LInv'
<1> USE DEF Request, Back, NoJob, Macked, SetLogonState, Ladder, files, keys, rest
<1>1. job' \in Jobs
    BY NoJobTyped DEF LInv, TypeOK, Jobs, NoJob, Callers, Results
<1>2. TypeOK'
    BY <1>1, CodeSet DEF LInv, TypeOK, Sound, AtStage, States, Ladder, Results
<1>3. KeysFirst' /\ UnderKek'
    BY CodeSet DEF LInv, TypeOK, Sound, KeysFirst, UnderKek, InSession, InLane,
        AtStage, InHand, Excused, Skipped, States, Ladder
<1>4. InSession' /\ InLane'
    BY CodeSet DEF LInv, TypeOK, Sound, KeysFirst, UnderKek, InSession, InLane,
        AtStage, InHand, Excused, Skipped, States, Ladder
<1>5. AtStage'
    BY CodeSet DEF LInv, TypeOK, Sound, KeysFirst, UnderKek, InSession, InLane,
        AtStage, InHand, Excused, Skipped, States, Ladder, Jobs
<1> QED BY <1>2, <1>3, <1>4, <1>5 DEF LInv, Sound

LEMMA IdleTickStep == ASSUME LInv, IdleTick PROVE LInv'
<1> USE DEF IdleTick, Process, NoJob, Back, files, keys, rest
<1>1. job' \in Jobs
    BY NoJobTyped, ProcessStarts DEF LInv, TypeOK, Callers
<1>2. TypeOK'
    BY <1>1, CodeSet DEF LInv, TypeOK, Sound, AtStage, States, Ladder, Results
<1>3. KeysFirst' /\ UnderKek'
    BY CodeSet DEF LInv, TypeOK, Sound, KeysFirst, UnderKek, InSession, InLane,
        AtStage, InHand, Excused, Skipped, States, Ladder
<1>4. InSession' /\ InLane'
    BY CodeSet DEF LInv, TypeOK, Sound, KeysFirst, UnderKek, InSession, InLane,
        AtStage, InHand, Excused, Skipped, States, Ladder
<1>5. AtStage'
    BY CodeSet DEF LInv, TypeOK, Sound, KeysFirst, UnderKek, InSession, InLane,
        AtStage, InHand, Excused, Skipped, States, Ladder, Jobs
<1> QED BY <1>2, <1>3, <1>4, <1>5 DEF LInv, Sound

LEMMA DisplayIdleStep == ASSUME LInv, DisplayIdle PROVE LInv'
<1> USE DEF DisplayIdle, files, keys, rest
<1>1. job' \in Jobs
    BY DEF LInv, TypeOK, Jobs
<1>2. TypeOK'
    BY <1>1, CodeSet DEF LInv, TypeOK, Sound, AtStage, States, Ladder, Results
<1>3. KeysFirst' /\ UnderKek'
    BY CodeSet DEF LInv, TypeOK, Sound, KeysFirst, UnderKek, InSession, InLane,
        AtStage, InHand, Excused, Skipped, States, Ladder
<1>4. InSession' /\ InLane'
    BY CodeSet DEF LInv, TypeOK, Sound, KeysFirst, UnderKek, InSession, InLane,
        AtStage, InHand, Excused, Skipped, States, Ladder
<1>5. AtStage'
    BY CodeSet DEF LInv, TypeOK, Sound, KeysFirst, UnderKek, InSession, InLane,
        AtStage, InHand, Excused, Skipped, States, Ladder, Jobs
<1> QED BY <1>2, <1>3, <1>4, <1>5 DEF LInv, Sound

LEMMA PosLogonStep == ASSUME LInv, PosLogon PROVE LInv'
<1> USE DEF PosLogon, Process, NoJob, Back, Lower, Rank, files, keys, rest
<1>1. job' \in Jobs
    BY NoJobTyped, ProcessStarts DEF LInv, TypeOK, Callers
<1>2. TypeOK'
    BY <1>1, CodeSet DEF LInv, TypeOK, Sound, AtStage, States, Ladder, Results
<1>3. KeysFirst' /\ UnderKek'
    BY CodeSet DEF LInv, TypeOK, Sound, KeysFirst, UnderKek, InSession, InLane,
        AtStage, InHand, Excused, Skipped, States, Ladder
<1>4. InSession' /\ InLane'
    BY CodeSet DEF LInv, TypeOK, Sound, KeysFirst, UnderKek, InSession, InLane,
        AtStage, InHand, Excused, Skipped, States, Ladder
<1>5. AtStage'
    BY CodeSet DEF LInv, TypeOK, Sound, KeysFirst, UnderKek, InSession, InLane,
        AtStage, InHand, Excused, Skipped, States, Ladder, Jobs
<1> QED BY <1>2, <1>3, <1>4, <1>5 DEF LInv, Sound

LEMMA MenuRsaLogonStep == ASSUME LInv, MenuRsaLogon PROVE LInv'
<1> USE DEF MenuRsaLogon, Process, NoJob, Back, files, keys, rest
<1>1. job' \in Jobs
    BY NoJobTyped, ProcessStarts DEF LInv, TypeOK, Callers
<1>2. TypeOK'
    BY <1>1, CodeSet DEF LInv, TypeOK, Sound, AtStage, States, Ladder, Results
<1>3. KeysFirst' /\ UnderKek'
    BY CodeSet DEF LInv, TypeOK, Sound, KeysFirst, UnderKek, InSession, InLane,
        AtStage, InHand, Excused, Skipped, States, Ladder
<1>4. InSession' /\ InLane'
    BY CodeSet DEF LInv, TypeOK, Sound, KeysFirst, UnderKek, InSession, InLane,
        AtStage, InHand, Excused, Skipped, States, Ladder
<1>5. AtStage'
    BY CodeSet DEF LInv, TypeOK, Sound, KeysFirst, UnderKek, InSession, InLane,
        AtStage, InHand, Excused, Skipped, States, Ladder, Jobs
<1> QED BY <1>2, <1>3, <1>4, <1>5 DEF LInv, Sound

LEMMA DailyLogonStep == ASSUME LInv, DailyLogon PROVE LInv'
<1> USE DEF DailyLogon, NoJob, files, keys, rest
<1>1. job' \in Jobs
    BY NoJobTyped DEF LInv, TypeOK, Jobs, NoJob, Callers, Results
<1>2. TypeOK'
    BY <1>1, CodeSet DEF LInv, TypeOK, Sound, AtStage, States, Ladder, Results
<1>3. KeysFirst' /\ UnderKek'
    BY CodeSet DEF LInv, TypeOK, Sound, KeysFirst, UnderKek, InSession, InLane,
        AtStage, InHand, Excused, Skipped, States, Ladder
<1>4. InSession' /\ InLane'
    BY CodeSet DEF LInv, TypeOK, Sound, KeysFirst, UnderKek, InSession, InLane,
        AtStage, InHand, Excused, Skipped, States, Ladder
<1>5. AtStage'
    BY CodeSet DEF LInv, TypeOK, Sound, KeysFirst, UnderKek, InSession, InLane,
        AtStage, InHand, Excused, Skipped, States, Ladder, Jobs
<1> QED BY <1>2, <1>3, <1>4, <1>5 DEF LInv, Sound

LEMMA LaneChangeStep == ASSUME LInv, LaneChange PROVE LInv'
<1> USE DEF LaneChange, NewLane, files
<1>1. job' \in Jobs
    BY DEF LInv, TypeOK, Jobs
<1>2. counts' \in [lanes : 0 .. MaxLanes, failures : 0 .. MaxFailures]
    BY LogonAssumption DEF LInv, TypeOK
<1>3. TypeOK'
    BY <1>1, <1>2, CodeSet DEF LInv, TypeOK, Sound, AtStage, States, Ladder, Results
<1>4. KeysFirst' /\ UnderKek'
    BY CodeSet DEF LInv, TypeOK, Sound, KeysFirst, UnderKek, InSession, InLane,
        AtStage, InHand, Excused, Skipped, States, Ladder
<1>5. InSession' /\ InLane'
    BY CodeSet DEF LInv, TypeOK, Sound, KeysFirst, UnderKek, InSession, InLane,
        AtStage, InHand, Excused, Skipped, States, Ladder
<1>6. AtStage'
    BY CodeSet DEF LInv, TypeOK, Sound, KeysFirst, UnderKek, InSession, InLane,
        AtStage, InHand, Excused, Skipped, States, Ladder, Jobs
<1> QED BY <1>3, <1>4, <1>5, <1>6 DEF LInv, Sound

LEMMA StartSaleStep == ASSUME LInv, StartSale PROVE LInv'
<1> USE DEF StartSale, Process, NoJob, Back, keys, rest
<1>1. job' \in Jobs
    BY NoJobTyped, ProcessStarts DEF LInv, TypeOK, Callers
<1>2. TypeOK'
    <2>1. logon' \in States /\ last' \in States /\ saved' \in States
        BY <1>1 DEF LInv, TypeOK, Sound, AtStage, States, Ladder, Results
    <2>2. /\ rc' \in {Stale(code) : code \in Codes} /\ setup' \in Setups
          /\ file' \in [present : BOOLEAN, update : BOOLEAN]
        BY CodeSet DEF LInv, TypeOK
    <2>3. reload' \in BOOLEAN /\ kek' \in BOOLEAN /\ ses' \in BOOLEAN /\ lane' \in BOOLEAN
        BY DEF LInv, TypeOK
    <2>4. /\ pc' \in {"idle", "logon", "sent", "tms", "update", "exit", "returned",
                    "uploads", "before", "sale"}
          /\ job' \in Jobs /\ (pc' = "idle" => job' = NoJob)
        BY <1>1 DEF LInv, TypeOK
    <2>5. /\ counts' \in [lanes : 0 .. MaxLanes, failures : 0 .. MaxFailures]
          /\ harm' \subseteq {"rolledback", "unsaved", "stale", "ignored"}
        BY DEF LInv, TypeOK
    <2> QED BY <2>1, <2>2, <2>3, <2>4, <2>5 DEF TypeOK
<1>3. KeysFirst' /\ UnderKek'
    BY CodeSet DEF LInv, TypeOK, Sound, KeysFirst, UnderKek, InSession, InLane,
        AtStage, InHand, Excused, Skipped, States, Ladder
<1>4. InSession' /\ InLane'
    BY CodeSet DEF LInv, TypeOK, Sound, KeysFirst, UnderKek, InSession, InLane,
        AtStage, InHand, Excused, Skipped, States, Ladder
<1>5. AtStage'
    BY CodeSet DEF LInv, TypeOK, Sound, KeysFirst, UnderKek, InSession, InLane,
        AtStage, InHand, Excused, Skipped, States, Ladder, Jobs
<1> QED BY <1>2, <1>3, <1>4, <1>5 DEF LInv, Sound

LEMMA RefuseSaleStep == ASSUME LInv, RefuseSale PROVE LInv'
<1> USE DEF RefuseSale, keys, rest
<1>1. job' \in Jobs
    BY DEF LInv, TypeOK, Jobs
<1>2. TypeOK'
    BY <1>1, CodeSet DEF LInv, TypeOK, Sound, AtStage, States, Ladder, Results
<1>3. KeysFirst' /\ UnderKek'
    BY CodeSet DEF LInv, TypeOK, Sound, KeysFirst, UnderKek, InSession, InLane,
        AtStage, InHand, Excused, Skipped, States, Ladder
<1>4. InSession' /\ InLane'
    BY CodeSet DEF LInv, TypeOK, Sound, KeysFirst, UnderKek, InSession, InLane,
        AtStage, InHand, Excused, Skipped, States, Ladder
<1>5. AtStage'
    BY CodeSet DEF LInv, TypeOK, Sound, KeysFirst, UnderKek, InSession, InLane,
        AtStage, InHand, Excused, Skipped, States, Ladder, Jobs
<1> QED BY <1>2, <1>3, <1>4, <1>5 DEF LInv, Sound

LEMMA NightlyRebootStep == ASSUME LInv, NightlyReboot PROVE LInv'
<1> USE DEF NightlyReboot, Start, Started, Rank, files, Read, Back, NoJob, keys
<1>1. job' \in Jobs
    BY NoJobTyped DEF LInv, TypeOK
<1>2. TypeOK'
    BY <1>1, CodeSet DEF LInv, TypeOK, Sound, AtStage, States, Ladder, Results
<1>3. KeysFirst' /\ UnderKek'
    BY CodeSet DEF LInv, TypeOK, Sound, KeysFirst, UnderKek, InSession, InLane,
        AtStage, InHand, Excused, Skipped, States, Ladder
<1>4. InSession' /\ InLane'
    BY CodeSet DEF LInv, TypeOK, Sound, KeysFirst, UnderKek, InSession, InLane,
        AtStage, InHand, Excused, Skipped, States, Ladder
<1>5. AtStage'
    BY CodeSet DEF LInv, TypeOK, Sound, KeysFirst, UnderKek, InSession, InLane,
        AtStage, InHand, Excused, Skipped, States, Ladder, Jobs
<1> QED BY <1>2, <1>3, <1>4, <1>5 DEF LInv, Sound

LEMMA PowerFailStep == ASSUME LInv, PowerFail PROVE LInv'
<1> USE DEF PowerFail, Start, Started, Rank, files, Read, Back, NoJob, keys, Ladder
<1>1. job' \in Jobs
    BY NoJobTyped DEF LInv, TypeOK
<1>2. counts' \in [lanes : 0 .. MaxLanes, failures : 0 .. MaxFailures]
    BY LogonAssumption DEF LInv, TypeOK
<1>3. TypeOK'
    BY <1>1, <1>2, CodeSet DEF LInv, TypeOK, Sound, AtStage, States, Ladder, Results
<1>4. KeysFirst' /\ UnderKek'
    BY CodeSet DEF LInv, TypeOK, Sound, KeysFirst, UnderKek, InSession, InLane,
        AtStage, InHand, Excused, Skipped, States, Ladder
<1>5. InSession' /\ InLane'
    BY CodeSet DEF LInv, TypeOK, Sound, KeysFirst, UnderKek, InSession, InLane,
        AtStage, InHand, Excused, Skipped, States, Ladder
<1>6. AtStage'
    BY CodeSet DEF LInv, TypeOK, Sound, KeysFirst, UnderKek, InSession, InLane,
        AtStage, InHand, Excused, Skipped, States, Ladder, Jobs
<1> QED BY <1>3, <1>4, <1>5, <1>6 DEF LInv, Sound

LEMMA FileLostStep == ASSUME LInv, FileLost PROVE LInv'
<1> USE DEF FileLost, keys
<1>1. job' \in Jobs
    BY DEF LInv, TypeOK, Jobs
<1>2. counts' \in [lanes : 0 .. MaxLanes, failures : 0 .. MaxFailures]
    BY LogonAssumption DEF LInv, TypeOK
<1>3. TypeOK'
    <2>1. logon' \in States /\ last' \in States /\ saved' \in States
        BY <1>1 DEF LInv, TypeOK, Sound, AtStage, States, Ladder, Results
    <2>2. /\ rc' \in {Stale(code) : code \in Codes} /\ setup' \in Setups
          /\ file' \in [present : BOOLEAN, update : BOOLEAN]
        BY CodeSet DEF LInv, TypeOK
    <2>3. reload' \in BOOLEAN /\ kek' \in BOOLEAN /\ ses' \in BOOLEAN /\ lane' \in BOOLEAN
        BY DEF LInv, TypeOK
    <2>4. /\ pc' \in {"idle", "logon", "sent", "tms", "update", "exit", "returned",
                    "uploads", "before", "sale"}
          /\ job' \in Jobs /\ (pc' = "idle" => job' = NoJob)
        BY <1>1 DEF LInv, TypeOK
    <2>5. /\ counts' \in [lanes : 0 .. MaxLanes, failures : 0 .. MaxFailures]
          /\ harm' \subseteq {"rolledback", "unsaved", "stale", "ignored"}
        BY <1>2 DEF LInv, TypeOK
    <2> QED BY <2>1, <2>2, <2>3, <2>4, <2>5 DEF TypeOK
<1>4. KeysFirst' /\ UnderKek'
    BY CodeSet DEF LInv, TypeOK, Sound, KeysFirst, UnderKek, InSession, InLane,
        AtStage, InHand, Excused, Skipped, States, Ladder
<1>5. InSession' /\ InLane'
    BY CodeSet DEF LInv, TypeOK, Sound, KeysFirst, UnderKek, InSession, InLane,
        AtStage, InHand, Excused, Skipped, States, Ladder
<1>6. AtStage'
    BY CodeSet DEF LInv, TypeOK, Sound, KeysFirst, UnderKek, InSession, InLane,
        AtStage, InHand, Excused, Skipped, States, Ladder, Jobs
<1> QED BY <1>3, <1>4, <1>5, <1>6 DEF LInv, Sound

-----------------------------------------------------------------------------
(* The invariant and what follows from it. *)

LEMMA InitInv == Init => LInv
<1> SUFFICES ASSUME Init PROVE LInv
    OBVIOUS
<1> USE DEF Init
<1>1. TypeOK
    <2>1. setup \in Setups /\ counts \in [lanes : 0 .. MaxLanes,
        failures : 0 .. MaxFailures]
        BY LogonAssumption
    <2>2. rc \in {Stale(code) : code \in Codes} /\ job \in Jobs
        BY CodeSet, NoJobTyped
    <2> QED BY <2>1, <2>2 DEF TypeOK, States
<1>2. Sound
    BY DEF Sound, KeysFirst, UnderKek, InSession, InLane, AtStage
<1> QED BY <1>1, <1>2 DEF LInv

LEMMA StutterInv == LInv /\ UNCHANGED vars => LInv'
BY DEF LInv, vars, TypeOK, Sound, KeysFirst, UnderKek, InSession, InLane, AtStage,
    InHand,
       Excused, Skipped

LEMMA NextInv == LInv /\ Next => LInv'
<1> SUFFICES ASSUME LInv, Next PROVE LInv'
    OBVIOUS
<1>1. CASE Exchange
    BY <1>1, SendLogonStep, LogonUnansweredStep, LadderStepStep, LogonApprovedStep,
       LogonWrongKeysStep, LogonUnprovenStep, KeyChangeStep, LogonRefusedStep,
       ContactTmsStep, LoggedOnStep DEF Exchange
<1>2. CASE Update
    BY <1>2, UploadFailsStep, StartUpdateStep, NothingToUpdateStep, DownloadedStep,
       TmsConfigStep, DownloadFailsStep DEF Update
<1>3. CASE SaveState \/ ReturnDirect \/ Return \/ Uploads \/ BeforeRequest \/ Request
    BY <1>3, SaveStateStep, ReturnDirectStep, ReturnStep, UploadsStep,
        BeforeRequestStep,
       RequestStep
<1>4. CASE Events
    BY <1>4, IdleTickStep, DisplayIdleStep, PosLogonStep, MenuRsaLogonStep,
       DailyLogonStep, LaneChangeStep, StartSaleStep, RefuseSaleStep,
       NightlyRebootStep, PowerFailStep, FileLostStep DEF Events
<1> QED BY <1>1, <1>2, <1>3, <1>4 DEF Next, Thread

\* Types and the relation of the logon state to the keys, the terminal id and the
\* place of the thread: every handler of logon.c and its callers keeps it.
THEOREM Invariant == Spec => []LInv
<1>1. LInv /\ [Next]_vars => LInv'
    BY NextInv, StutterInv
<1> QED BY <1>1, InitInv, PTL DEF Spec

\* Outside logon_request nothing of one is left, and every variable has its type.
THEOREM TypeCorrect == Spec => []TypeOK
<1>1. LInv => TypeOK
    BY DEF LInv
<1> QED BY <1>1, Invariant, PTL

LEMMA HarmNamed ==
    /\ Skipped <=> harm \cap {"unsaved", "stale"} # {}
    /\ Excused <=> harm \cap {"rolledback", "stale", "unsaved"} # {}
BY DEF Skipped, Excused

\* The terminal is past the key exchange only with the key encryption key of the
\* host, unless the power took a lower state before it was saved, or an old
\* response code was taken for an answer (logon_request).
THEOREM LadderClimbed == Spec => []LadderFirst
<1>1. LInv => LadderFirst
    BY HarmNamed DEF LInv, Sound, KeysFirst, LadderFirst
<1> QED BY <1>1, Invariant, PTL

\* An idle terminal that says logged on has the session keys of the host, with the
\* same exceptions and that of ReversalAndSAFProcessing undoing a logon.
THEOREM KeysAgree == Spec => []LoggedOnInSession
<1>1. LInv => LoggedOnInSession
    BY HarmNamed DEF LInv, Sound, InSession, LoggedOnInSession
<1> QED BY <1>1, Invariant, PTL

\* No request leaves before the logon, unless an upload that failed ended it.
THEOREM LoggedOnBeforeSale == Spec => []SaleWhenLoggedOn
<1>1. LInv => SaleWhenLoggedOn
    BY DEF LInv, Sound, AtStage, InHand, SaleWhenLoggedOn
<1> QED BY <1>1, Invariant, PTL

\* After a change of the terminal id no request leaves before a logon was
\* answered, with the exceptions of KeysAgree.
THEOREM AnsweredBeforeSale == Spec => []SaleInItsLane
<1>1. LInv => SaleInItsLane
    BY HarmNamed DEF LInv, Sound, InLane, AtStage, InHand, SaleInItsLane
<1> QED BY <1>1, Invariant, PTL
===============================================================================
