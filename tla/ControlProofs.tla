--------------------------- MODULE ControlProofs ---------------------------
(***************************************************************************)
(* Proofs about scripts/arisa_control, for any number of terminals, server *)
(* processes and settings, any interleaving of commands, and any call to   *)
(* the device lost.                                                        *)
(*                                                                         *)
(* All rests on one argument.  A command without an excuse has run alone   *)
(* since it began (Alone), so what it has found out and done on the device *)
(* still holds at each of its later calls (SessionInv); commands that have *)
(* an excuse need no invariant but the bookkeeping of their own state.     *)
(***************************************************************************)
EXTENDS Control, FiniteSetTheorems, TLAPS

ConfigCalls == {"test_config", "open_config", "fill_config", "chmod_config"}

\* The calls a command is made of.
CallsOf(cmd) ==
    {"idle", "report"} \cup
    IF cmd = "install" THEN
        ConfigCalls \cup {"push", "chmod", "verify_binary", "apk", "verify_apk",
                          "appop", "verify_appop"}
    ELSE IF cmd = "start" THEN
        ConfigCalls \cup {"pidof", "test_binary", "load", "launch", "pidof_again"}
    ELSE IF cmd = "stop" THEN {"pidof", "kill", "pidof_again"}
    ELSE IF cmd = "config" THEN ConfigCalls \cup {"load", "menu"}
    ELSE IF cmd = "remove" THEN
        {"pidof", "kill", "find_binary", "rm_binary", "binary_gone"}
    ELSE {"pidof", "kill", "find_binary", "rm_binary", "binary_gone", "find_config",
          "rm_config", "config_gone", "find_apk", "uninstall", "apk_gone"}

\* A session is where its command can be; it carries a change of a setting
\* only from the menu to the end of the write, and other settings than the
\* defaults only then and in the menu.
PlaceInv(me) ==
    /\ me.at \in CallsOf(me.cmd)
    /\ me.key # NoKey => me.cmd = "config" /\ me.at \in ConfigCalls \ {"test_config"}
    /\ me.key = NoKey /\ me.at # "menu" => me.conf = DefaultSettings
    /\ me.cmd = "install" /\ me.failed => me.at = "report"

\* start goes on after pidof only if there is no server.
StartInv(me) ==
    me.cmd = "start" /\ me.at \notin {"idle", "pidof", "pidof_again", "report"} =>
        servers = {}

\* What is about to be written is what was chosen, except for the setting
\* being changed.
WriteInv(me) ==
    /\ me.at = "menu" => me.conf = chosen
    /\ me.at \in {"open_config", "fill_config"} =>
        \A k \in Keys : k # me.key => me.conf[k] = chosen[k]

\* What install has done so far.
InstallInv(me) ==
    me.cmd = "install" /\ me.at # "idle" /\ ~me.failed =>
        /\ me.at \notin {"push", "chmod", "verify_binary"} => binary = "executable"
        /\ me.at \notin {"push", "chmod", "verify_binary", "test_config", "open_config"} =>
            config # Absent
        /\ me.at = "report" => provider = "allowed"

\* What all_remove has done so far.
RemoveInv(me) ==
    me.cmd = "all_remove" /\ me.at # "idle" /\ ~me.failed =>
        /\ me.at \notin {"pidof", "kill", "find_binary", "rm_binary"} => binary = "absent"
        /\ me.at \in {"config_gone", "find_apk", "uninstall", "apk_gone", "report"} =>
            config = Absent
        /\ me.at \in {"apk_gone", "report"} => provider = "absent"

Undisturbed(me) == me.at # "idle" /\ ~me.excuse

SessionInv(me) ==
    /\ PlaceInv(me)
    /\ Undisturbed(me) => StartInv(me) /\ WriteInv(me) /\ InstallInv(me) /\ RemoveInv(me)

\* A command without an excuse is the only one.
Alone ==
    \A s, t \in Sessions : Undisturbed(session[s]) /\ t # s => session[t].at = "idle"

DeviceInv ==
    /\ \A p, q \in servers \ excused : p = q
    /\ SettingsKept

IInv == TypeOK /\ Alone /\ DeviceInv /\ \A s \in Sessions : SessionInv(session[s])

-----------------------------------------------------------------------------
(* One step of one session.                                                *)

Records == [cmd : Commands, at : Calls, conf : Settings, key : Keys \cup {NoKey},
            pids : SUBSET Pids, failed : BOOLEAN, excuse : BOOLEAN]

LEMMA RecordFact ==
  ASSUME TypeOK, NEW s \in Sessions
  PROVE  /\ session \in [Sessions -> Records] /\ session[s] \in Records
         /\ session[s].cmd \in Commands /\ session[s].at \in Calls
         /\ session[s].conf \in Settings /\ session[s].key \in Keys \cup {NoKey}
         /\ session[s].pids \in SUBSET Pids
         /\ session[s].failed \in BOOLEAN /\ session[s].excuse \in BOOLEAN
  BY DEF TypeOK, Records

LEMMA DefaultsFact == DefaultSettings \in Settings
  BY ControlConstants DEF DefaultSettings, Settings

LEMMA MoveFact ==
  ASSUME NEW me \in Records, NEW call \in Calls
  PROVE  /\ Move(me, call) \in Records
         /\ Move(me, call).at = call /\ Move(me, call).cmd = me.cmd
         /\ Move(me, call).pids = me.pids
         /\ Move(me, call).failed = me.failed /\ Move(me, call).excuse = me.excuse
         /\ call # "report" => Move(me, call).conf = me.conf /\ Move(me, call).key = me.key
         /\ call = "report" => /\ Move(me, call).conf = DefaultSettings
                               /\ Move(me, call).key = NoKey
<1> Move(me, call) = IF call = "report"
                     THEN [me EXCEPT !.at = call, !.conf = DefaultSettings, !.key = NoKey]
                     ELSE [me EXCEPT !.at = call]
  BY DEF Move
<1> QED
  BY DefaultsFact DEF Records

\* The session alone changes, and in its record at most what is not listed.
Moved(s, call) ==
    /\ session' = [session EXCEPT ![s] = session'[s]]
    /\ session'[s] \in Records
    /\ session'[s].at = call /\ session'[s].cmd = session[s].cmd
    /\ session'[s].pids = session[s].pids /\ session'[s].excuse = session[s].excuse
    /\ call # "report" => /\ session'[s].conf = session[s].conf
                          /\ session'[s].key = session[s].key
    /\ call = "report" => session'[s].conf = DefaultSettings /\ session'[s].key = NoKey

LEMMA GoFact ==
  ASSUME TypeOK, NEW s \in Sessions, NEW call \in Calls, Go(s, call)
  PROVE  Moved(s, call) /\ session'[s].failed = session[s].failed
<1>1. session' = [session EXCEPT ![s] = Move(session[s], call)]
  BY DEF Go
<1>2. session \in [Sessions -> Records] /\ session[s] \in Records
  BY RecordFact
<1>3. session'[s] = Move(session[s], call)
  BY <1>1, <1>2
<1> QED
  BY <1>1, <1>2, <1>3, MoveFact DEF Moved

LEMMA GoFailedFact ==
  ASSUME TypeOK, NEW s \in Sessions, NEW call \in Calls, GoFailed(s, call)
  PROVE  Moved(s, call) /\ session'[s].failed = TRUE
<1> DEFINE me == [session[s] EXCEPT !.failed = TRUE]
<1>1. session' = [session EXCEPT ![s] = Move(me, call)]
  BY DEF GoFailed
<1>2. session \in [Sessions -> Records] /\ session[s] \in Records
  BY RecordFact
<1>3. session'[s] = Move(me, call)
  BY <1>1, <1>2
<1>4. /\ me \in Records /\ me.cmd = session[s].cmd /\ me.pids = session[s].pids
      /\ me.conf = session[s].conf /\ me.key = session[s].key
      /\ me.excuse = session[s].excuse /\ me.failed = TRUE
  BY <1>2 DEF Records
<1> HIDE DEF me
<1> QED
  BY <1>1, <1>2, <1>3, <1>4, MoveFact DEF Moved

LEMMA FailFact ==
  ASSUME TypeOK, NEW s \in Sessions, Fail(s)
  PROVE  Moved(s, "report") /\ session'[s].failed = TRUE
  BY GoFailedFact DEF Fail, Calls

\* What a question does to its session: nothing but telling it where to go on.
Answered(s, truth, yes, no) ==
    /\ session' = [session EXCEPT ![s] = session'[s]]
    /\ session'[s] \in Records
    /\ session'[s].cmd = session[s].cmd /\ session'[s].pids = session[s].pids
    /\ session'[s].conf = session[s].conf /\ session'[s].key = session[s].key
    /\ session'[s].failed = session[s].failed
    /\ session'[s].at = yes \/ session'[s].at = no
    /\ session'[s].at # yes => ~truth \/ session'[s].excuse
    /\ session'[s].at # no => truth
    /\ session[s].excuse => session'[s].excuse

LEMMA AskFact ==
  ASSUME TypeOK, NEW s \in Sessions, NEW truth \in BOOLEAN,
         NEW yes \in Calls, NEW no \in Calls, Ask(s, truth, yes, no)
  PROVE  Answered(s, truth, yes, no)
<1>1. PICK answer \in {truth, FALSE} :
        session' = [session EXCEPT ![s].at = IF answer THEN yes ELSE no,
                                   ![s].excuse = @ \/ answer # truth]
  BY DEF Ask
<1>2. session \in [Sessions -> Records] /\ session[s] \in Records
  BY RecordFact
<1> DEFINE me == [session[s] EXCEPT !.at = IF answer THEN yes ELSE no,
                                    !.excuse = session[s].excuse \/ answer # truth]
<1>3. session'[s] = me /\ session' = [session EXCEPT ![s] = me]
  BY <1>1, <1>2
<1>4. /\ me \in Records /\ me.cmd = session[s].cmd /\ me.pids = session[s].pids
      /\ me.conf = session[s].conf /\ me.key = session[s].key
      /\ me.failed = session[s].failed
      /\ me.at = IF answer THEN yes ELSE no
      /\ me.excuse = (session[s].excuse \/ answer # truth)
  BY <1>1, <1>2 DEF Records
<1>5. me.at = yes \/ me.at = no
  BY <1>4
<1>6. answer => truth
  BY <1>1
<1>7. ~answer => ~truth \/ me.excuse
  <2>1. ~answer => answer = FALSE
    BY <1>1
  <2> QED
    BY <1>4, <2>1
<1>8. session[s].excuse => me.excuse
  BY <1>4
<1>9. me.at # yes => ~answer
  BY <1>4
<1>10. me.at # no => answer
  BY <1>4
<1> HIDE DEF me
<1>11. session'[s] = me /\ session' = [session EXCEPT ![s] = session'[s]]
  BY <1>3
<1> QED
  BY <1>4, <1>5, <1>6, <1>7, <1>8, <1>9, <1>10, <1>11 DEF Answered

LEMMA RequireFact ==
  ASSUME TypeOK, NEW s \in Sessions, NEW truth \in BOOLEAN, NEW next \in Calls,
         Require(s, truth, next)
  PROVE  \/ truth /\ Moved(s, next) /\ session'[s].failed = session[s].failed
         \/ Moved(s, "report") /\ session'[s].failed = TRUE
  BY GoFact, FailFact DEF Require

-----------------------------------------------------------------------------
(* It is enough to look at the session that makes the call.                *)

Sound(s) ==
    /\ session' = [session EXCEPT ![s] = session'[s]]
    /\ Undisturbed(session[s])' => Undisturbed(session[s])
    /\ TypeOK' /\ DeviceInv' /\ SessionInv(session[s])'

LEMMA OthersStill ==
  ASSUME IInv, NEW s \in Sessions, session[s].at # "idle", Sound(s)
  PROVE  IInv'
<1>1. session \in [Sessions -> Records]
  BY RecordFact DEF IInv
<1>2. \A t \in Sessions : t # s => session'[t] = session[t] /\ ~Undisturbed(session[t])
  BY <1>1 DEF IInv, Alone, Sound
<1>3. Alone'
  BY <1>2 DEF Alone, IInv, Undisturbed, Sound
<1>4. ASSUME NEW t \in Sessions, t # s PROVE SessionInv(session[t])'
  <2>1. PlaceInv(session[t])
    BY DEF IInv, SessionInv
  <2> QED
    BY <1>2, <1>4, <2>1 DEF SessionInv, PlaceInv, Undisturbed
<1> QED
  BY <1>3, <1>4 DEF IInv, Sound

\* Who is about to fill an empty file goes on to do so: s makes another call.
LEMMA TornStill ==
  ASSUME SettingsKept, session \in [Sessions -> Records], NEW s \in Sessions,
         session[s].at # "fill_config",
         session' = [session EXCEPT ![s] = session'[s]],
         config' = config, chosen' = chosen, cut' = cut
  PROVE  SettingsKept'
<1>1. ASSUME config = Torn, cut = FALSE
      PROVE  \E t \in Sessions : session'[t].at = "fill_config"
  <2>1. PICK t \in Sessions : session[t].at = "fill_config"
    BY <1>1 DEF SettingsKept, At
  <2>2. session'[t] = session[t]
    BY <2>1
  <2> QED
    BY <2>1, <2>2
<1>2. config' = Torn => cut' \/ \E t \in Sessions : session'[t].at = "fill_config"
  <2>1. CASE config = Torn /\ cut = FALSE
    BY <1>1, <2>1
  <2>2. CASE config = Torn /\ cut # FALSE
    BY <2>2 DEF SettingsKept, At
  <2> QED
    BY <2>1, <2>2
<1> QED
  BY <1>2 DEF SettingsKept, At

\* A call that leaves the device alone.
LEMMA DeviceStill ==
  ASSUME IInv, NEW s \in Sessions, UNCHANGED <<device, hist>>,
         session[s].at # "fill_config",
         session' = [session EXCEPT ![s] = session'[s]], session'[s] \in Records,
         Undisturbed(session[s])' => Undisturbed(session[s]), SessionInv(session[s])'
  PROVE  Sound(s)
<1>1. session' \in [Sessions -> Records]
  BY RecordFact DEF IInv
<1>2. TypeOK'
  BY <1>1 DEF IInv, TypeOK, Records, device, hist
<1>3. DeviceInv'
  <2>1. SettingsKept'
    BY RecordFact, TornStill DEF IInv, DeviceInv, device, hist
  <2> QED
    BY <2>1 DEF IInv, DeviceInv, device, hist
<1> QED
  BY <1>2, <1>3 DEF Sound

LEMMA MovedSound ==
  ASSUME IInv, NEW s \in Sessions, NEW call \in Calls, UNCHANGED <<device, hist>>,
         session[s].at \notin {"idle", "fill_config"}, Moved(s, call), SessionInv(session[s])'
  PROVE  Sound(s)
  BY DeviceStill DEF Moved, Undisturbed

LEMMA AnsweredSound ==
  ASSUME IInv, NEW s \in Sessions, UNCHANGED <<device, hist>>,
         session[s].at \notin {"idle", "fill_config"},
         NEW truth \in BOOLEAN, NEW yes \in Calls, NEW no \in Calls,
         Answered(s, truth, yes, no), SessionInv(session[s])'
  PROVE  Sound(s)
  BY DeviceStill DEF Answered, Undisturbed

-----------------------------------------------------------------------------
(* Calls that leave the device alone.                                      *)

LEMMA RequireSteps ==
  ASSUME IInv, NEW s \in Sessions,
         TestBinary(s) \/ VerifyBinary(s) \/ VerifyApk(s) \/ VerifyAppop(s)
  PROVE  Sound(s)
<1> USE DEF IInv, SessionInv, PlaceInv, StartInv, WriteInv, InstallInv, RemoveInv,
            Undisturbed, CallsOf, ConfigCalls, Calls, At, device, hist
<1>1. CASE TestBinary(s)
  <2>1. \/ binary = "executable" /\ Moved(s, "test_config")
           /\ session'[s].failed = session[s].failed
        \/ Moved(s, "report") /\ session'[s].failed = TRUE
    BY <1>1, RequireFact DEF TestBinary
  <2>2. SessionInv(session[s])'
    BY <1>1, <2>1 DEF TestBinary, Moved
  <2> QED
    BY <1>1, <2>1, <2>2, MovedSound DEF TestBinary
<1>2. CASE VerifyBinary(s)
  <2>1. \/ binary = "executable" /\ Moved(s, "test_config")
           /\ session'[s].failed = session[s].failed
        \/ Moved(s, "report") /\ session'[s].failed = TRUE
    BY <1>2, RequireFact DEF VerifyBinary
  <2>2. SessionInv(session[s])'
    BY <1>2, <2>1 DEF VerifyBinary, Moved
  <2> QED
    BY <1>2, <2>1, <2>2, MovedSound DEF VerifyBinary
<1>3. CASE VerifyApk(s)
  <2>1. \/ Moved(s, "appop") /\ session'[s].failed = session[s].failed
        \/ Moved(s, "report") /\ session'[s].failed = TRUE
    BY <1>3, RequireFact DEF VerifyApk
  <2>2. SessionInv(session[s])'
    BY <1>3, <2>1 DEF VerifyApk, Moved
  <2> QED
    BY <1>3, <2>1, <2>2, MovedSound DEF VerifyApk
<1>4. CASE VerifyAppop(s)
  <2>1. /\ Moved(s, "report")
        /\ session'[s].failed = TRUE
           \/ (provider = "allowed" /\ session'[s].failed = session[s].failed)
    BY <1>4, RequireFact DEF VerifyAppop
  <2>2. SessionInv(session[s])'
    BY <1>4, <2>1 DEF VerifyAppop, Moved
  <2> QED
    BY <1>4, <2>1, <2>2, MovedSound DEF VerifyAppop
<1> QED
  BY <1>1, <1>2, <1>3, <1>4

LEMMA AskSteps ==
  ASSUME IInv, NEW s \in Sessions,
         TestConfig(s) \/ FindBinary(s) \/ FindConfig(s) \/ FindApk(s)
  PROVE  Sound(s)
<1> USE DEF IInv, SessionInv, PlaceInv, StartInv, WriteInv, InstallInv, RemoveInv,
            Undisturbed, CallsOf, ConfigCalls, Calls, At, device, hist
<1>1. CASE TestConfig(s)
  <2> DEFINE yes == IF session[s].cmd = "install" THEN "apk" ELSE "load"
  <2>1. Answered(s, config # Absent, yes, "open_config") /\ yes \in Calls
    BY <1>1, AskFact DEF TestConfig
  <2>2. SessionInv(session[s])'
    <3> HIDE DEF IInv
    <3>1. SessionInv(session[s]) /\ session[s].at = "test_config" /\ DeviceInv
      BY <1>1 DEF TestConfig, IInv
    <3>2. PlaceInv(session[s])'
      BY <2>1, <3>1 DEF Answered
    <3>3. Undisturbed(session[s])' => StartInv(session[s])' /\ RemoveInv(session[s])'
      BY <1>1, <2>1, <3>1 DEF Answered, TestConfig
    <3>4. Undisturbed(session[s])' => InstallInv(session[s])'
      BY <1>1, <2>1, <3>1 DEF Answered, TestConfig
    <3>5. Undisturbed(session[s])' => WriteInv(session[s])'
      <4>1. session[s].key = NoKey /\ session'[s].conf = DefaultSettings
        BY <2>1, <3>1 DEF Answered
      <4>2. session'[s].at # yes /\ Undisturbed(session[s])' => chosen' = DefaultSettings
        BY <1>1, <2>1, <3>1 DEF Answered, TestConfig, DeviceInv, SettingsKept
      <4> QED
        BY <2>1, <4>1, <4>2 DEF Answered
    <3> QED
      BY <3>2, <3>3, <3>4, <3>5
  <2>3. session[s].at \notin {"idle", "fill_config"} /\ UNCHANGED <<device, hist>>
    BY <1>1 DEF TestConfig
  <2> HIDE DEF yes, IInv, SessionInv
  <2> QED
    BY <2>1, <2>2, <2>3, AnsweredSound
<1>2. CASE FindBinary(s)
  <2>1. Answered(s, binary # "absent", "rm_binary", AfterRemove(s)) /\ AfterRemove(s) \in Calls
    BY <1>2, AskFact DEF FindBinary, AfterRemove
  <2>2. SessionInv(session[s])'
    BY <1>2, <2>1 DEF FindBinary, Answered, AfterRemove
  <2> QED
    BY <1>2, <2>1, <2>2, AnsweredSound DEF FindBinary
<1>3. CASE FindConfig(s)
  <2>1. Answered(s, config # Absent, "rm_config", "find_apk")
    BY <1>3, AskFact DEF FindConfig
  <2>2. SessionInv(session[s])'
    BY <1>3, <2>1 DEF FindConfig, Answered
  <2> QED
    BY <1>3, <2>1, <2>2, AnsweredSound DEF FindConfig
<1>4. CASE FindApk(s)
  <2>1. Answered(s, provider # "absent", "uninstall", "report")
    BY <1>4, AskFact DEF FindApk
  <2>2. SessionInv(session[s])'
    BY <1>4, <2>1 DEF FindApk, Answered
  <2> QED
    BY <1>4, <2>1, <2>2, AnsweredSound DEF FindApk
<1> QED
  BY <1>1, <1>2, <1>3, <1>4
\* What the question after a removal does: it tells the report what it found.
Checked(s, there, next) ==
    /\ session' = [session EXCEPT ![s] = session'[s]]
    /\ session'[s] \in Records
    /\ session'[s].cmd = session[s].cmd /\ session'[s].at = next
    /\ session'[s].conf = session[s].conf /\ session'[s].key = session[s].key
    /\ session[s].failed => session'[s].failed
    /\ session[s].excuse => session'[s].excuse
    /\ there => session'[s].failed \/ session'[s].excuse

LEMMA GoneFact ==
  ASSUME TypeOK, NEW s \in Sessions, NEW there \in BOOLEAN, NEW next \in Calls,
         AskGone(s, there, next)
  PROVE  Checked(s, there, next)
<1>1. PICK answer \in {there, FALSE} :
        session' = [session EXCEPT ![s].at = next,
                                   ![s].failed = @ \/ answer,
                                   ![s].excuse = @ \/ answer # there]
  BY DEF AskGone
<1> DEFINE me == [session[s] EXCEPT !.at = next,
                                    !.failed = session[s].failed \/ answer,
                                    !.excuse = session[s].excuse \/ answer # there]
<1>2. session \in [Sessions -> Records] /\ session[s] \in Records
  BY RecordFact
<1>3. session'[s] = me /\ session' = [session EXCEPT ![s] = me]
  BY <1>1, <1>2
<1>4. /\ me \in Records /\ me.cmd = session[s].cmd /\ me.conf = session[s].conf
      /\ me.key = session[s].key /\ me.at = next
      /\ me.failed = (session[s].failed \/ answer)
      /\ me.excuse = (session[s].excuse \/ answer # there)
  BY <1>1, <1>2 DEF Records
<1>5. /\ session[s].failed => me.failed
      /\ session[s].excuse => me.excuse
      /\ there => me.failed \/ me.excuse
  BY <1>1, <1>4
<1> HIDE DEF me
<1>6. session'[s] = me /\ session' = [session EXCEPT ![s] = session'[s]]
  BY <1>3
<1> QED
  BY <1>4, <1>5, <1>6 DEF Checked

LEMMA GoneSteps ==
  ASSUME IInv, NEW s \in Sessions, BinaryGone(s) \/ ConfigGone(s) \/ ApkGone(s)
  PROVE  Sound(s)
<1>0. TypeOK /\ SessionInv(session[s])
  BY DEF IInv
<1> USE DEF SessionInv, PlaceInv, StartInv, WriteInv, InstallInv, RemoveInv,
            Undisturbed, CallsOf, ConfigCalls, At, device, hist
<1>1. CASE BinaryGone(s)
  <2>1. AfterRemove(s) \in Calls
    BY DEF AfterRemove, Calls
  <2>2. Checked(s, binary # "absent", AfterRemove(s))
    BY <1>0, <1>1, <2>1, GoneFact DEF BinaryGone
  <2>3. SessionInv(session[s])'
    BY <1>0, <1>1, <2>2 DEF BinaryGone, AfterRemove, Checked
  <2> QED
    BY <1>1, <2>2, <2>3, DeviceStill DEF BinaryGone, Checked
<1>2. CASE ConfigGone(s)
  <2>1. Checked(s, config # Absent, "find_apk")
    BY <1>0, <1>2, GoneFact DEF ConfigGone, Calls
  <2>2. SessionInv(session[s])'
    BY <1>0, <1>2, <2>1 DEF ConfigGone, Checked
  <2> QED
    BY <1>2, <2>1, <2>2, DeviceStill DEF ConfigGone, Checked
<1>3. CASE ApkGone(s)
  <2>1. Checked(s, provider # "absent", "report")
    BY <1>0, <1>3, GoneFact DEF ApkGone, Calls
  <2>2. SessionInv(session[s])'
    BY <1>0, <1>3, <2>1 DEF ApkGone, Checked
  <2> QED
    BY <1>3, <2>1, <2>2, DeviceStill DEF ApkGone, Checked
<1> QED
  BY <1>1, <1>2, <1>3

LEMMA PidofSteps ==
  ASSUME IInv, NEW s \in Sessions, Pidof(s) \/ PidofAgain(s)
  PROVE  Sound(s)
<1>0. /\ session \in [Sessions -> Records] /\ session[s] \in Records
      /\ servers \in SUBSET Pids /\ SessionInv(session[s])
  BY RecordFact DEF IInv, TypeOK
<1>1. CASE Pidof(s)
  <2>1. PICK answer \in {servers, {}} :
         session' = [session EXCEPT
           ![s].pids = IF session[s].cmd = "start" THEN {} ELSE answer,
           ![s].excuse = @ \/ answer # servers,
           ![s].at = IF session[s].cmd = "start"
                     THEN IF answer = {} THEN "test_binary" ELSE "report"
                     ELSE IF answer # {} THEN "kill"
                     ELSE IF session[s].cmd = "stop" THEN "report" ELSE "find_binary"]
    BY <1>1 DEF Pidof
  <2> DEFINE found == IF session[s].cmd = "start" THEN {} ELSE answer
             next  == IF session[s].cmd = "start"
                      THEN IF answer = {} THEN "test_binary" ELSE "report"
                      ELSE IF answer # {} THEN "kill"
                      ELSE IF session[s].cmd = "stop" THEN "report" ELSE "find_binary"
             me    == [session[s] EXCEPT !.pids = found, !.at = next,
                         !.excuse = session[s].excuse \/ answer # servers]
  <2>2. session'[s] = me /\ session' = [session EXCEPT ![s] = me]
    BY <1>0, <2>1
  <2>3. /\ me \in Records /\ me.cmd = session[s].cmd /\ me.conf = session[s].conf
        /\ me.key = session[s].key /\ me.failed = session[s].failed
        /\ me.excuse = (session[s].excuse \/ answer # servers)
        /\ me.at = next
    <3>1. found \in SUBSET Pids
      BY <1>0, <2>1
    <3>2. next \in Calls
      BY DEF Calls
    <3> HIDE DEF found, next
    <3> QED
      BY <1>0, <3>1, <3>2 DEF Records
  <2> HIDE DEF me
  <2>4. session' = [session EXCEPT ![s] = session'[s]] /\ session'[s] \in Records
    BY <2>2, <2>3
  <2>5. SessionInv(session[s])'
    BY <1>0, <1>1, <2>2, <2>3 DEF Pidof, SessionInv, PlaceInv, StartInv, WriteInv,
       InstallInv, RemoveInv, Undisturbed, CallsOf, ConfigCalls, At, device, hist
  <2>6. Undisturbed(session[s])' => Undisturbed(session[s])
    BY <1>1, <2>2, <2>3 DEF Pidof, At, Undisturbed
  <2> QED
    BY <1>1, <2>4, <2>5, <2>6, DeviceStill DEF Pidof, At
<1>2. CASE PidofAgain(s)
  <2>1. PICK answer \in {servers, {}} :
         session' = [session EXCEPT
           ![s].at = "report",
           ![s].excuse = @ \/ answer # servers,
           ![s].failed = (session[s].cmd = "start") = (answer = {})]
    BY <1>2 DEF PidofAgain
  <2> DEFINE me == [session[s] EXCEPT
           !.at = "report",
           !.excuse = session[s].excuse \/ answer # servers,
           !.failed = (session[s].cmd = "start") = (answer = {})]
  <2>2. session'[s] = me /\ session' = [session EXCEPT ![s] = me]
    BY <1>0, <2>1
  <2>3. /\ me \in Records /\ me.cmd = session[s].cmd /\ me.conf = session[s].conf
        /\ me.key = session[s].key /\ me.at = "report"
        /\ me.excuse = (session[s].excuse \/ answer # servers)
    BY <1>0, <2>1 DEF Records, Calls
  <2> HIDE DEF me
  <2>4. session' = [session EXCEPT ![s] = session'[s]] /\ session'[s] \in Records
    BY <2>2, <2>3
  <2>5. SessionInv(session[s])'
    BY <1>0, <1>2, <2>2, <2>3 DEF PidofAgain, SessionInv, PlaceInv, StartInv, WriteInv,
       InstallInv, RemoveInv, Undisturbed, CallsOf, ConfigCalls, At, device, hist
  <2>6. Undisturbed(session[s])' => Undisturbed(session[s])
    BY <1>2, <2>2, <2>3 DEF PidofAgain, At, Undisturbed
  <2> QED
    BY <1>2, <2>4, <2>5, <2>6, DeviceStill DEF PidofAgain, At
<1> QED
  BY <1>1, <1>2
LEMMA ConfigSteps ==
  ASSUME IInv, NEW s \in Sessions, ChmodConfig(s) \/ Load(s) \/ Menu(s)
  PROVE  Sound(s)
<1>0. /\ TypeOK /\ session \in [Sessions -> Records] /\ session[s] \in Records
      /\ SessionInv(session[s]) /\ DeviceInv
  BY RecordFact DEF IInv
<1> USE DEF SessionInv, PlaceInv, StartInv, WriteInv, InstallInv, RemoveInv,
            Undisturbed, CallsOf, ConfigCalls, At, device, hist
<1>1. ASSUME Moved(s, "report"), session'[s].failed = TRUE,
             session[s].at \in {"chmod_config", "load", "menu"},
             UNCHANGED <<device, hist>>
      PROVE  SessionInv(session[s])'
  BY <1>0, <1>1 DEF Moved
<1>2. CASE ChmodConfig(s)
  <2> DEFINE next == IF session[s].key # NoKey THEN "report"
                     ELSE IF session[s].cmd = "install" THEN "apk" ELSE "load"
  <2>1. next \in Calls
    BY DEF Calls
  <2>2. \/ Moved(s, next) /\ session'[s].failed = session[s].failed
        \/ Moved(s, "report") /\ session'[s].failed = TRUE
    BY <1>0, <1>2, <2>1, GoFact, FailFact DEF ChmodConfig
  <2>3. SessionInv(session[s])'
    <3>1. CASE Moved(s, next) /\ session'[s].failed = session[s].failed
      BY <1>0, <1>2, <3>1 DEF ChmodConfig, Moved
    <3> QED
      BY <1>1, <1>2, <2>2, <3>1 DEF ChmodConfig
  <2>4. /\ session[s].at \notin {"idle", "fill_config"}
        /\ UNCHANGED <<device, hist>> /\ "report" \in Calls
    BY <1>2 DEF ChmodConfig, Calls
  <2> HIDE DEF next, SessionInv
  <2> QED
    BY <2>1, <2>2, <2>3, <2>4, MovedSound
<1>3. CASE Load(s)
  <2>1. session[s].at = "load" /\ UNCHANGED <<device, hist>> /\ "report" \in Calls
    BY <1>3 DEF Load, Calls
  <2>2. CASE Fail(s)
    <3> HIDE DEF SessionInv
    <3> QED
      BY <1>0, <1>1, <2>1, <2>2, FailFact, MovedSound
  <2>3. CASE /\ config \in Settings
             /\ session' = [session EXCEPT
                  ![s].conf = IF session[s].cmd = "start" THEN @ ELSE config,
                  ![s].at = IF session[s].cmd = "start" THEN "launch" ELSE "menu"]
    <3> DEFINE conf == IF session[s].cmd = "start" THEN session[s].conf ELSE config
               next == IF session[s].cmd = "start" THEN "launch" ELSE "menu"
               me == [session[s] EXCEPT !.conf = conf, !.at = next]
    <3>1. conf \in Settings /\ next \in Calls
      BY <1>0, <2>3 DEF Records, Calls
    <3>2. session'[s] = me /\ session' = [session EXCEPT ![s] = me]
      BY <1>0, <2>3
    <3>3. /\ me \in Records /\ me.cmd = session[s].cmd /\ me.conf = conf
          /\ me.key = session[s].key /\ me.failed = session[s].failed
          /\ me.excuse = session[s].excuse /\ me.at = next
      <4> HIDE DEF conf, next
      <4> QED
        BY <1>0, <3>1 DEF Records
    <3> HIDE DEF me
    <3>4. session' = [session EXCEPT ![s] = session'[s]] /\ session'[s] \in Records
      BY <3>2, <3>3
    <3>5. SessionInv(session[s])'
      BY <1>0, <2>1, <2>3, <3>2, <3>3 DEF DeviceInv, SettingsKept
    <3>6. Undisturbed(session[s])' => Undisturbed(session[s])
      BY <2>1, <3>2, <3>3
    <3> HIDE DEF SessionInv
    <3> QED
      BY <2>1, <3>4, <3>5, <3>6, DeviceStill
  <2> QED
    BY <1>3, <2>2, <2>3 DEF Load
<1>4. CASE Menu(s)
  <2>1. session[s].at = "menu" /\ UNCHANGED <<device, hist>> /\ "report" \in Calls
    BY <1>4 DEF Menu, Calls
  <2>2. CASE Fail(s)
    <3> HIDE DEF SessionInv
    <3> QED
      BY <1>0, <1>1, <2>1, <2>2, FailFact, MovedSound
  <2>3. CASE Go(s, "report")
    <3>1. Moved(s, "report") /\ session'[s].failed = session[s].failed
      BY <1>0, <2>1, <2>3, GoFact
    <3>2. SessionInv(session[s])'
      BY <1>0, <2>1, <3>1 DEF Moved
    <3> HIDE DEF SessionInv
    <3> QED
      BY <2>1, <3>1, <3>2, MovedSound
  <2>4. ASSUME NEW key \in Keys, NEW value \in Values,
               session' = [session EXCEPT ![s].key = key, ![s].conf[key] = value,
                                          ![s].at = "open_config"]
        PROVE  Sound(s)
    <3> DEFINE conf == [session[s].conf EXCEPT ![key] = value]
               me == [session[s] EXCEPT !.key = key, !.conf = conf, !.at = "open_config"]
    <3>1. /\ conf \in Settings /\ "open_config" \in Calls
          /\ \A k \in Keys : k # key => conf[k] = session[s].conf[k]
      BY <1>0 DEF Records, Calls, Settings
    <3>2. session'[s] = me /\ session' = [session EXCEPT ![s] = me]
      BY <1>0, <2>4 DEF Records
    <3>3. /\ me \in Records /\ me.cmd = session[s].cmd /\ me.conf = conf
          /\ me.key = key /\ me.failed = session[s].failed
          /\ me.excuse = session[s].excuse /\ me.at = "open_config"
      <4> HIDE DEF conf
      <4> QED
        BY <1>0, <3>1 DEF Records
    <3> HIDE DEF me, conf
    <3>4. session' = [session EXCEPT ![s] = session'[s]] /\ session'[s] \in Records
      BY <3>2, <3>3
    <3>5. SessionInv(session[s])'
      BY <1>0, <2>1, <3>1, <3>2, <3>3, ControlConstants
    <3>6. Undisturbed(session[s])' => Undisturbed(session[s])
      BY <2>1, <3>2, <3>3
    <3> HIDE DEF SessionInv
    <3> QED
      BY <2>1, <3>4, <3>5, <3>6, DeviceStill
  <2> QED
    BY <1>4, <2>2, <2>3, <2>4 DEF Menu
<1> QED
  BY <1>2, <1>3, <1>4

LEMMA EndStep ==
  ASSUME IInv, NEW s \in Sessions, End(s)
  PROVE  Sound(s)
<1>1. session \in [Sessions -> Records]
  BY RecordFact DEF IInv
<1>2. session' = [session EXCEPT ![s] = Idle] /\ session'[s] = Idle
  BY <1>1 DEF End
<1>3. Idle \in Records
  BY DefaultsFact DEF Idle, Records, Commands, Calls
<1>4. SessionInv(session[s])'
  BY <1>2 DEF SessionInv, PlaceInv, Undisturbed, Idle, CallsOf
<1>5. ~Undisturbed(session[s])'
  BY <1>2 DEF Undisturbed, Idle
<1> QED
  BY <1>2, <1>3, <1>4, <1>5, DeviceStill DEF End, At
-----------------------------------------------------------------------------
(* Calls that change the device.                                           *)

LEMMA TypeStep ==
  ASSUME TypeOK, NEW s \in Sessions,
         session' = [session EXCEPT ![s] = session'[s]], session'[s] \in Records,
         binary' \in {"absent", "pushed", "executable"},
         config' \in Settings \cup {Torn, Absent},
         provider' \in {"absent", "installed", "allowed"},
         servers' \in SUBSET Pids, excused' \in SUBSET servers', chosen' \in Settings,
         cut' \in BOOLEAN
  PROVE  TypeOK'
<1>1. session' \in [Sessions -> Records]
  BY RecordFact
<1> QED
  BY <1>1 DEF TypeOK, Records

\* An order is done and goes on, or may have been done and is reported as failed.
LEMMA MovedFact ==
  ASSUME TypeOK, NEW s \in Sessions, NEW next \in Calls, NEW otherwise \in Calls
  PROVE  /\ Go(s, next) => Moved(s, next) /\ session'[s].failed = session[s].failed
         /\ GoFailed(s, otherwise) => Moved(s, otherwise) /\ session'[s].failed = TRUE
  BY GoFact, GoFailedFact

\* Calls that change the binary or the provider.
LEMMA FileSteps ==
  ASSUME IInv, NEW s \in Sessions,
         Push(s) \/ Chmod(s) \/ Apk(s) \/ Appop(s) \/ RmBinary(s) \/ Uninstall(s)
  PROVE  Sound(s)
<1>0. /\ TypeOK /\ session \in [Sessions -> Records] /\ session[s] \in Records
      /\ SessionInv(session[s]) /\ DeviceInv
  BY RecordFact DEF IInv
<1>1. ASSUME NEW next \in Calls, NEW otherwise \in Calls,
             session[s].at \notin {"idle", "fill_config"},
             \/ Moved(s, next) \/ Moved(s, otherwise),
             UNCHANGED <<config, servers, hist>>,
             binary' \in {"absent", "pushed", "executable"},
             provider' \in {"absent", "installed", "allowed"},
             SessionInv(session[s])'
      PROVE  Sound(s)
  <2>1. /\ session' = [session EXCEPT ![s] = session'[s]] /\ session'[s] \in Records
        /\ session'[s].excuse = session[s].excuse
    BY <1>1 DEF Moved
  <2>2. TypeOK'
    BY <1>0, <1>1, <2>1, TypeStep DEF TypeOK, hist
  <2>3. DeviceInv'
    <3>1. SettingsKept'
      BY <1>0, <1>1, <2>1, TornStill DEF DeviceInv, hist
    <3> QED
      BY <1>0, <1>1, <3>1 DEF DeviceInv, hist
  <2> QED
    BY <1>1, <2>1, <2>2, <2>3 DEF Sound, Undisturbed
<1>2. CASE Push(s)
  <2>1. /\ session[s].at = "push" /\ UNCHANGED <<config, provider, servers, hist>>
        /\ "chmod" \in Calls /\ "report" \in Calls
        /\ binary' \in {"absent", "pushed", "executable"}
        /\ provider' \in {"absent", "installed", "allowed"}
    BY <1>0, <1>2 DEF Push, Order, At, TypeOK, Calls
  <2>2. \/ Moved(s, "chmod") /\ session'[s].failed = session[s].failed
        \/ Moved(s, "report") /\ session'[s].failed = TRUE
    BY <1>0, <1>2, <2>1, MovedFact DEF Push, Order
  <2>3. SessionInv(session[s])'
    BY <1>0, <2>1, <2>2 DEF SessionInv, PlaceInv, StartInv, WriteInv, InstallInv,
       RemoveInv, Undisturbed, CallsOf, ConfigCalls, Moved
  <2> QED
    BY <1>1, <2>1, <2>2, <2>3
<1>3. CASE Chmod(s)
  <2>1. /\ session[s].at = "chmod" /\ UNCHANGED <<config, provider, servers, hist>>
        /\ "verify_binary" \in Calls /\ "report" \in Calls
        /\ binary' \in {"absent", "pushed", "executable"}
        /\ provider' \in {"absent", "installed", "allowed"}
    BY <1>0, <1>3 DEF Chmod, Order, At, TypeOK, Calls
  <2>2. \/ Moved(s, "verify_binary") /\ session'[s].failed = session[s].failed
        \/ Moved(s, "report") /\ session'[s].failed = TRUE
    BY <1>0, <1>3, <2>1, MovedFact DEF Chmod, Order
  <2>3. SessionInv(session[s])'
    BY <1>0, <2>1, <2>2 DEF SessionInv, PlaceInv, StartInv, WriteInv, InstallInv,
       RemoveInv, Undisturbed, CallsOf, ConfigCalls, Moved
  <2> QED
    BY <1>1, <2>1, <2>2, <2>3
<1>4. CASE Apk(s)
  <2>1. /\ session[s].at = "apk" /\ UNCHANGED <<binary, config, servers, hist>>
        /\ "verify_apk" \in Calls /\ "report" \in Calls
        /\ binary' \in {"absent", "pushed", "executable"}
        /\ provider' \in {"absent", "installed", "allowed"}
    BY <1>0, <1>4 DEF Apk, Order, At, TypeOK, Calls
  <2>2. \/ Moved(s, "verify_apk") /\ session'[s].failed = session[s].failed
        \/ Moved(s, "report") /\ session'[s].failed = TRUE
    BY <1>0, <1>4, <2>1, MovedFact DEF Apk, Order
  <2>3. SessionInv(session[s])'
    BY <1>0, <2>1, <2>2 DEF SessionInv, PlaceInv, StartInv, WriteInv, InstallInv,
       RemoveInv, Undisturbed, CallsOf, ConfigCalls, Moved
  <2> QED
    BY <1>1, <2>1, <2>2, <2>3
<1>5. CASE Appop(s)
  <2>1. /\ session[s].at = "appop" /\ UNCHANGED <<binary, config, servers, hist>>
        /\ "verify_appop" \in Calls /\ "report" \in Calls
        /\ binary' \in {"absent", "pushed", "executable"}
        /\ provider' \in {"absent", "installed", "allowed"}
    BY <1>0, <1>5 DEF Appop, Order, At, TypeOK, Calls
  <2>2. \/ Moved(s, "verify_appop") /\ session'[s].failed = session[s].failed
        \/ Moved(s, "report") /\ session'[s].failed = TRUE
    BY <1>0, <1>5, <2>1, MovedFact DEF Appop, Order
  <2>3. SessionInv(session[s])'
    BY <1>0, <2>1, <2>2 DEF SessionInv, PlaceInv, StartInv, WriteInv, InstallInv,
       RemoveInv, Undisturbed, CallsOf, ConfigCalls, Moved
  <2> QED
    BY <1>1, <2>1, <2>2, <2>3
<1>6. CASE RmBinary(s)
  <2>1. /\ session[s].at = "rm_binary" /\ UNCHANGED <<config, provider, servers, hist>>
        /\ "binary_gone" \in Calls /\ AfterRemove(s) \in Calls
        /\ binary' \in {"absent", "pushed", "executable"}
        /\ provider' \in {"absent", "installed", "allowed"}
    BY <1>0, <1>6 DEF RmBinary, Order, At, TypeOK, Calls, AfterRemove
  <2>2. \/ /\ Moved(s, "binary_gone") /\ session'[s].failed = session[s].failed
           /\ binary' = "absent"
        \/ Moved(s, AfterRemove(s)) /\ session'[s].failed = TRUE
    BY <1>0, <1>6, <2>1, MovedFact DEF RmBinary, Order
  <2>3. SessionInv(session[s])'
    BY <1>0, <2>1, <2>2 DEF SessionInv, PlaceInv, StartInv, WriteInv, InstallInv,
       RemoveInv, Undisturbed, CallsOf, ConfigCalls, Moved, AfterRemove
  <2> QED
    BY <1>1, <2>1, <2>2, <2>3
<1>7. CASE Uninstall(s)
  <2>1. /\ session[s].at = "uninstall" /\ UNCHANGED <<binary, config, servers, hist>>
        /\ "apk_gone" \in Calls
        /\ binary' \in {"absent", "pushed", "executable"}
        /\ provider' \in {"absent", "installed", "allowed"}
    BY <1>0, <1>7 DEF Uninstall, Order, At, TypeOK, Calls
  <2>2. /\ Moved(s, "apk_gone")
        /\ \/ session'[s].failed = session[s].failed /\ provider' = "absent"
           \/ session'[s].failed = TRUE
    BY <1>0, <1>7, <2>1, MovedFact DEF Uninstall, Order
  <2>3. SessionInv(session[s])'
    BY <1>0, <2>1, <2>2 DEF SessionInv, PlaceInv, StartInv, WriteInv, InstallInv,
       RemoveInv, Undisturbed, CallsOf, ConfigCalls, Moved
  <2> QED
    BY <1>1, <2>1, <2>2, <2>3
<1> QED
  BY <1>2, <1>3, <1>4, <1>5, <1>6, <1>7
LEMMA ConstantsFact ==
  Absent # Torn /\ Absent \notin Settings /\ Torn \notin Settings /\ NoKey \notin Keys
  BY ControlConstants DEF Settings

\* Calls that change the configuration file.
LEMMA ConfigFileSteps ==
  ASSUME IInv, NEW s \in Sessions, OpenConfig(s) \/ FillConfig(s) \/ RmConfig(s)
  PROVE  Sound(s)
<1>0. /\ TypeOK /\ session \in [Sessions -> Records] /\ session[s] \in Records
      /\ SessionInv(session[s]) /\ DeviceInv
  BY RecordFact DEF IInv
<1>1. ASSUME NEW next \in Calls, NEW otherwise \in Calls, session[s].at # "idle",
             \/ Moved(s, next) \/ Moved(s, otherwise),
             UNCHANGED <<binary, provider, servers, excused>>,
             config' \in Settings \cup {Torn, Absent}, chosen' \in Settings,
             cut' \in BOOLEAN, SettingsKept',
             SessionInv(session[s])'
      PROVE  Sound(s)
  <2>1. /\ session' = [session EXCEPT ![s] = session'[s]] /\ session'[s] \in Records
        /\ session'[s].excuse = session[s].excuse
    BY <1>1 DEF Moved
  <2>2. TypeOK'
    BY <1>0, <1>1, <2>1, TypeStep DEF TypeOK
  <2>3. DeviceInv'
    BY <1>0, <1>1 DEF DeviceInv
  <2> QED
    BY <1>1, <2>1, <2>2, <2>3 DEF Sound, Undisturbed
<1>2. CASE OpenConfig(s)
  <2>1. /\ session[s].at = "open_config"
        /\ UNCHANGED <<binary, provider, servers, excused, chosen>>
        /\ "fill_config" \in Calls /\ "report" \in Calls
    BY <1>2 DEF OpenConfig, At, Calls
  <2>2. \/ /\ Moved(s, "fill_config") /\ session'[s].failed = session[s].failed
           /\ config' = Torn /\ cut' = cut
        \/ /\ Moved(s, "report") /\ session'[s].failed = TRUE
           /\ \/ config' = Torn /\ cut' = TRUE
              \/ config' = config /\ cut' = cut
    BY <1>0, <1>2, <2>1, GoFact, FailFact DEF OpenConfig
  <2>3. config' \in Settings \cup {Torn, Absent} /\ chosen' \in Settings /\ cut' \in BOOLEAN
    BY <1>0, <2>1, <2>2 DEF TypeOK
  <2>5. SettingsKept'
    <3>1. CASE config' = Torn /\ (cut' = TRUE \/ session'[s].at = "fill_config")
      BY <3>1, ConstantsFact DEF SettingsKept, At
    <3>2. CASE config' = config /\ cut' = cut
      BY <1>0, <2>1, <2>2, <3>2, TornStill DEF DeviceInv, Moved
    <3> QED
      BY <2>2, <3>1, <3>2 DEF Moved
  <2>4. SessionInv(session[s])'
    BY <1>0, <2>1, <2>2, ConstantsFact DEF SessionInv, PlaceInv, StartInv, WriteInv,
       InstallInv, RemoveInv, Undisturbed, CallsOf, ConfigCalls, Moved
  <2> QED
    BY <1>1, <2>1, <2>2, <2>3, <2>4, <2>5
<1>3. CASE FillConfig(s)
  <2> DEFINE me == session[s]
             expected == IF me.excuse THEN me.conf
                    ELSE IF me.key # NoKey THEN [chosen EXCEPT ![me.key] = me.conf[me.key]]
                    ELSE chosen
  <2>1. /\ session[s].at = "fill_config" /\ UNCHANGED <<binary, provider, servers, excused>>
        /\ "chmod_config" \in Calls /\ "report" \in Calls
        /\ \/ UNCHANGED <<config, chosen>> /\ (config = Absent \/ cut' = (cut \/ config = Torn))
           \/ config # Absent /\ config' = me.conf /\ chosen' = expected
        /\ cut' \in BOOLEAN
    BY <1>0, <1>3 DEF FillConfig, Order, At, Calls, TypeOK
  <2>2. \/ Moved(s, "chmod_config") /\ session'[s].failed = session[s].failed
        \/ Moved(s, "report") /\ session'[s].failed = TRUE
    BY <1>0, <1>3, <2>1, MovedFact DEF FillConfig, Order
  <2>3. expected = me.conf
    <3>1. CASE me.excuse
      BY <3>1
    <3>2. CASE ~me.excuse
      <4>1. \A k \in Keys : k # me.key => me.conf[k] = chosen[k]
        BY <1>0, <2>1, <3>2 DEF SessionInv, WriteInv, Undisturbed
      <4>2. me.conf \in Settings /\ chosen \in Settings /\ me.key \in Keys \cup {NoKey}
        BY <1>0 DEF Records, TypeOK
      <4>3. CASE me.key = NoKey
        BY <3>2, <4>1, <4>2, <4>3, ConstantsFact DEF Settings
      <4>4. CASE me.key # NoKey
        <5>1. expected = [chosen EXCEPT ![me.key] = me.conf[me.key]]
          BY <3>2, <4>4
        <5>2. \A k \in Keys : expected[k] = me.conf[k]
          BY <4>1, <4>2, <5>1 DEF Settings
        <5>3. expected \in Settings
          BY <4>2, <4>4, <5>1 DEF Settings
        <5> HIDE DEF expected
        <5> QED
          BY <4>2, <5>2, <5>3 DEF Settings
      <4> QED
        BY <4>3, <4>4
    <3> QED
      BY <3>1, <3>2
  <2> HIDE DEF expected
  <2>4. /\ config' \in Settings \cup {Torn, Absent} /\ chosen' \in Settings
        /\ cut' \in BOOLEAN /\ config' = Absent <=> config = Absent
    <3>1. me.conf \in Settings
      BY <1>0 DEF Records
    <3>2. /\ config \in Settings \cup {Torn, Absent} /\ chosen \in Settings
          /\ cut \in BOOLEAN
      BY <1>0 DEF TypeOK
    <3> HIDE DEF me
    <3> QED
      BY <2>1, <2>3, <3>1, <3>2, ConstantsFact
  <2>6. SettingsKept'
    <3>1. CASE config' = me.conf /\ chosen' = expected
      <4>1. me.conf \in Settings
        BY <1>0 DEF Records
      <4> HIDE DEF me
      <4> QED
        BY <2>3, <3>1, <4>1, ConstantsFact DEF SettingsKept
    <3>2. CASE UNCHANGED <<config, chosen>> /\ config = Absent
      BY <1>0, <3>2, ConstantsFact DEF DeviceInv, SettingsKept
    <3>3. CASE UNCHANGED <<config, chosen>> /\ cut' = (cut \/ config = Torn)
      <4>1. config' = Torn => cut'
        BY <3>3
      <4> QED
        BY <1>0, <3>3, <4>1 DEF DeviceInv, SettingsKept
    <3> HIDE DEF me
    <3>4. \/ UNCHANGED <<config, chosen>> /\ config = Absent
          \/ UNCHANGED <<config, chosen>> /\ cut' = (cut \/ config = Torn)
          \/ config' = me.conf /\ chosen' = expected
      BY <2>1
    <3> QED
      BY <3>1, <3>2, <3>3, <3>4
  <2>5. SessionInv(session[s])'
    BY <1>0, <2>1, <2>2, <2>4 DEF SessionInv, PlaceInv, StartInv, WriteInv,
       InstallInv, RemoveInv, Undisturbed, CallsOf, ConfigCalls, Moved
  <2> QED
    <3> HIDE DEF me
    <3>1. session[s].at # "idle" /\ (Moved(s, "chmod_config") \/ Moved(s, "report"))
      BY <2>1, <2>2
    <3> QED
      BY <1>1, <2>1, <2>4, <2>5, <2>6, <3>1
<1>4. CASE RmConfig(s)
  <2>1. /\ session[s].at = "rm_config" /\ UNCHANGED <<binary, provider, servers, excused>>
        /\ "config_gone" \in Calls /\ "find_apk" \in Calls
        /\ \/ UNCHANGED <<config, chosen, cut>>
           \/ config' = Absent /\ chosen' = DefaultSettings /\ cut' = FALSE
    BY <1>4 DEF RmConfig, Order, At, Calls
  <2>2. \/ Moved(s, "config_gone") /\ session'[s].failed = session[s].failed /\ config' = Absent
        \/ Moved(s, "find_apk") /\ session'[s].failed = TRUE
    BY <1>0, <1>4, <2>1, MovedFact DEF RmConfig, Order
  <2>3. /\ config' \in Settings \cup {Torn, Absent} /\ chosen' \in Settings
        /\ cut' \in BOOLEAN
    BY <1>0, <2>1, DefaultsFact DEF TypeOK
  <2>5. SettingsKept'
    <3>1. CASE config' = Absent /\ chosen' = DefaultSettings
      BY <3>1, ConstantsFact DEF SettingsKept
    <3>2. CASE UNCHANGED <<config, chosen, cut>>
      BY <1>0, <2>1, <2>2, <3>2, TornStill DEF DeviceInv, Moved
    <3> QED
      BY <2>1, <3>1, <3>2
  <2>4. SessionInv(session[s])'
    BY <1>0, <2>1, <2>2 DEF SessionInv, PlaceInv, StartInv, WriteInv,
       InstallInv, RemoveInv, Undisturbed, CallsOf, ConfigCalls, Moved
  <2> QED
    BY <1>1, <2>1, <2>2, <2>3, <2>4, <2>5
<1> QED
  BY <1>2, <1>3, <1>4

\* Calls that change which servers there are.
LEMMA ServerSteps ==
  ASSUME IInv, NEW s \in Sessions, Launch(s) \/ Kill(s)
  PROVE  Sound(s)
<1>0. /\ TypeOK /\ session \in [Sessions -> Records] /\ session[s] \in Records
      /\ SessionInv(session[s]) /\ DeviceInv
  BY RecordFact DEF IInv
<1>1. CASE Launch(s)
  <2>1. /\ session[s].at = "launch" /\ UNCHANGED <<files, chosen, cut>>
        /\ Moved(s, "pidof_again") /\ session'[s].failed = session[s].failed
    BY <1>0, <1>1, GoFact DEF Launch, At, Calls
  <2>2. SessionInv(session[s])'
    BY <1>0, <2>1 DEF SessionInv, PlaceInv, StartInv, WriteInv, InstallInv, RemoveInv,
       Undisturbed, CallsOf, ConfigCalls, Moved
  <2>3. /\ servers' \in SUBSET Pids /\ excused' \in SUBSET servers'
        /\ \A p, q \in servers' \ excused' : p = q
    <3>1. CASE UNCHANGED <<servers, excused>>
      BY <1>0, <3>1 DEF TypeOK, DeviceInv
    <3>2. ASSUME NEW p \in Pids \ servers, servers' = servers \cup {p},
                 excused' = IF session[s].excuse THEN excused \cup {p} ELSE excused
          PROVE  /\ servers' \in SUBSET Pids /\ excused' \in SUBSET servers'
                 /\ \A q, r \in servers' \ excused' : q = r
      <4>1. ~session[s].excuse => servers = {}
        BY <1>0, <2>1 DEF SessionInv, PlaceInv, StartInv, Undisturbed, CallsOf, ConfigCalls
      <4> QED
        BY <1>0, <3>2, <4>1 DEF TypeOK, DeviceInv
    <3> QED
      BY <1>1, <3>1, <3>2 DEF Launch
  <2>4. TypeOK'
    BY <1>0, <2>1, <2>3, TypeStep DEF Moved, TypeOK, files
  <2>5. DeviceInv'
    <3>1. SettingsKept'
      BY <1>0, <2>1, TornStill DEF DeviceInv, Moved, files
    <3> QED
      BY <2>3, <3>1 DEF DeviceInv
  <2> QED
    BY <2>1, <2>2, <2>4, <2>5 DEF Sound, Moved, Undisturbed
<1>2. CASE Kill(s)
  <2> DEFINE next == IF session[s].cmd = "stop" THEN "pidof_again" ELSE "find_binary"
             me == [session[s] EXCEPT !.pids = {}, !.at = next]
  <2>1. next \in Calls
    BY DEF Calls
  <2>2. session'[s] = me /\ session' = [session EXCEPT ![s] = me]
    BY <1>0, <1>2 DEF Kill
  <2>3. /\ me \in Records /\ me.cmd = session[s].cmd /\ me.conf = session[s].conf
        /\ me.key = session[s].key /\ me.failed = session[s].failed
        /\ me.excuse = session[s].excuse /\ me.at = next
    <3> HIDE DEF next
    <3> QED
      BY <1>0, <2>1 DEF Records
  <2> HIDE DEF me
  <2>4. session' = [session EXCEPT ![s] = session'[s]] /\ session'[s] \in Records
    BY <2>2, <2>3
  <2>5. SessionInv(session[s])'
    BY <1>0, <1>2, <2>2, <2>3 DEF Kill, At, SessionInv, PlaceInv, StartInv, WriteInv,
       InstallInv, RemoveInv, Undisturbed, CallsOf, ConfigCalls, files
  <2>6. /\ servers' \in SUBSET Pids /\ excused' \in SUBSET servers'
        /\ \A p, q \in servers' \ excused' : p = q
    BY <1>0, <1>2 DEF Kill, TypeOK, DeviceInv
  <2>7. TypeOK'
    BY <1>0, <1>2, <2>4, <2>6, TypeStep DEF Kill, TypeOK, files
  <2>8. DeviceInv'
    <3>1. SettingsKept'
      BY <1>0, <1>2, <2>4, TornStill DEF Kill, At, DeviceInv, files
    <3> QED
      BY <2>6, <3>1 DEF DeviceInv
  <2>9. Undisturbed(session[s])' => Undisturbed(session[s])
    BY <1>2, <2>2, <2>3 DEF Kill, At, Undisturbed
  <2> QED
    BY <2>4, <2>5, <2>7, <2>8, <2>9 DEF Sound
<1> QED
  BY <1>1, <1>2
-----------------------------------------------------------------------------
(* The beginning of a command, and servers that end by themselves.         *)

LEMMA BeginStep ==
  ASSUME IInv, NEW s \in Sessions, NEW cmd \in Commands, Begin(s, cmd)
  PROVE  IInv'
<1> DEFINE others == {t \in Sessions \ {s} : session[t].at # "idle"}
           first == FirstCall(cmd)
           new == [Idle EXCEPT !.cmd = cmd, !.at = first, !.excuse = others # {}]
<1>0. /\ TypeOK /\ DeviceInv /\ session \in [Sessions -> Records]
      /\ \A t \in Sessions : session[t] \in Records /\ PlaceInv(session[t])
  BY RecordFact DEF IInv, SessionInv
<1>1. UNCHANGED <<device, hist>>
  BY DEF Begin
<1>2. /\ first \in Calls /\ first \in CallsOf(cmd)
      /\ first = IF cmd = "install" THEN "push"
                 ELSE IF cmd = "config" THEN "test_config" ELSE "pidof"
  BY DEF FirstCall, Calls, Commands, CallsOf, ConfigCalls
<1>3. session' = [t \in Sessions |->
         IF t = s THEN new
         ELSE IF t \in others THEN [session[t] EXCEPT !.excuse = TRUE]
         ELSE session[t]]
  BY DEF Begin, At
<1>4. /\ new \in Records /\ new.cmd = cmd /\ new.at = first /\ new.key = NoKey
      /\ new.conf = DefaultSettings /\ new.failed = FALSE /\ new.excuse = (others # {})
  <2> HIDE DEF first, others
  <2> QED
    BY <1>2, DefaultsFact DEF Idle, Records, Commands, Calls
<1> HIDE DEF first, new
<1>5. session'[s] = new
  BY <1>3
<1>6. ASSUME NEW t \in Sessions, t # s, t \in others
      PROVE  /\ session'[t] \in Records /\ session'[t].excuse = TRUE
             /\ session'[t].at = session[t].at /\ session'[t].cmd = session[t].cmd
             /\ session'[t].conf = session[t].conf /\ session'[t].key = session[t].key
             /\ session'[t].failed = session[t].failed
  <2>1. session'[t] = [session[t] EXCEPT !.excuse = TRUE]
    BY <1>3, <1>6
  <2>2. session[t] \in Records
    BY <1>0
  <2> QED
    BY <2>1, <2>2 DEF Records
<1>7. ASSUME NEW t \in Sessions, t # s, t \notin others
      PROVE  session'[t] = session[t] /\ session[t].at = "idle"
  BY <1>3, <1>7
<1> HIDE DEF others
<1>8. TypeOK'
  <2>1. \A t \in Sessions : session'[t] \in Records
    BY <1>0, <1>4, <1>5, <1>6, <1>7
  <2>2. session' \in [Sessions -> Records]
    BY <1>3, <2>1
  <2> QED
    BY <1>0, <1>1, <2>2 DEF TypeOK, Records, device, hist
<1>9. DeviceInv'
  <2>1. ASSUME NEW t \in Sessions, session[t].at = "fill_config"
        PROVE  session'[t].at = "fill_config"
    <3>1. t # s
      BY <2>1 DEF Begin, At
    <3> QED
      BY <1>6, <1>7, <2>1, <3>1
  <2>2. SettingsKept'
    BY <1>0, <1>1, <2>1 DEF DeviceInv, SettingsKept, At, device, hist
  <2> QED
    BY <1>0, <1>1, <2>2 DEF DeviceInv, device, hist
<1>10. Alone'
  <2> SUFFICES ASSUME NEW x \in Sessions, NEW y \in Sessions, y # x,
                      Undisturbed(session[x])'
               PROVE  session'[y].at = "idle"
    BY DEF Alone, Undisturbed
  <2>1. x = s
    BY <1>6, <1>7 DEF Undisturbed
  <2>2. others = {}
    BY <1>4, <1>5, <2>1 DEF Undisturbed
  <2> QED
    BY <1>7, <2>1, <2>2
<1>11. ASSUME NEW t \in Sessions PROVE SessionInv(session[t])'
  <2>1. CASE t = s
    BY <1>2, <1>4, <1>5, <2>1 DEF SessionInv, PlaceInv, StartInv, WriteInv, InstallInv,
       RemoveInv, Commands
  <2>2. CASE t # s
    <3>1. PlaceInv(session[t])'
      <4>1. CASE t \in others
        BY <1>0, <1>6, <2>2, <4>1 DEF PlaceInv
      <4>2. CASE t \notin others
        BY <1>0, <1>7, <2>2, <4>2 DEF PlaceInv
      <4> QED
        BY <4>1, <4>2
    <3>2. ~Undisturbed(session[t])'
      BY <1>6, <1>7, <2>2 DEF Undisturbed
    <3> QED
      BY <3>1, <3>2 DEF SessionInv
  <2> QED
    BY <2>1, <2>2
<1> QED
  BY <1>8, <1>9, <1>10, <1>11 DEF IInv

LEMMA ServerEndsStep ==
  ASSUME IInv, NEW p \in Pids, ServerEnds(p)
  PROVE  IInv'
<1>1. /\ UNCHANGED <<files, session, chosen, cut>>
      /\ servers' = servers \ {p} /\ excused' = excused \ {p}
  BY DEF ServerEnds
<1>2. TypeOK'
  BY <1>1 DEF IInv, TypeOK, files
<1>3. DeviceInv'
  BY <1>1 DEF IInv, DeviceInv, SettingsKept, At, files
<1>4. Alone'
  BY <1>1 DEF IInv, Alone, Undisturbed
<1>5. ASSUME NEW s \in Sessions PROVE SessionInv(session[s])'
  <2>1. SessionInv(session[s])
    BY DEF IInv
  <2>2. servers = {} => servers' = {}
    BY <1>1
  <2> QED
    BY <1>1, <2>1, <2>2 DEF SessionInv, PlaceInv, StartInv, WriteInv, InstallInv,
       RemoveInv, Undisturbed, files
<1> QED
  BY <1>2, <1>3, <1>4, <1>5 DEF IInv

-----------------------------------------------------------------------------
LEMMA InvInit == Init => IInv
<1> SUFFICES ASSUME Init PROVE IInv
  OBVIOUS
<1>1. /\ Idle \in Records /\ Idle.at = "idle" /\ Idle.cmd = "stop" /\ Idle.key = NoKey
      /\ Idle.conf = DefaultSettings /\ Idle.failed = FALSE
  BY DefaultsFact DEF Idle, Records, Commands, Calls
<1>2. session \in [Sessions -> Records] /\ \A s \in Sessions : session[s] = Idle
  BY <1>1 DEF Init
<1>3. TypeOK
  BY <1>2, DefaultsFact DEF Init, TypeOK, Records
<1>4. Alone /\ \A s \in Sessions : SessionInv(session[s])
  BY <1>1, <1>2 DEF Alone, Undisturbed, SessionInv, PlaceInv, CallsOf
<1>5. DeviceInv
  BY ConstantsFact DEF Init, DeviceInv, SettingsKept
<1> QED
  BY <1>3, <1>4, <1>5 DEF IInv

LEMMA InvStep == IInv /\ [Next]_vars => IInv'
<1> SUFFICES ASSUME IInv, [Next]_vars PROVE IInv'
  OBVIOUS
<1>1. ASSUME NEW s \in Sessions, NEW cmd \in Commands, Begin(s, cmd) PROVE IInv'
  BY <1>1, BeginStep
<1>2. ASSUME NEW p \in Pids, ServerEnds(p) PROVE IInv'
  BY <1>2, ServerEndsStep
<1>3. ASSUME NEW s \in Sessions, session[s].at # "idle",
             \/ Pidof(s) \/ PidofAgain(s) \/ TestBinary(s) \/ Launch(s) \/ Kill(s)
             \/ TestConfig(s) \/ OpenConfig(s) \/ FillConfig(s) \/ ChmodConfig(s)
             \/ Load(s) \/ Menu(s) \/ Push(s) \/ Chmod(s) \/ VerifyBinary(s) \/ Apk(s)
             \/ VerifyApk(s) \/ Appop(s) \/ VerifyAppop(s) \/ FindBinary(s)
             \/ RmBinary(s) \/ BinaryGone(s) \/ FindConfig(s) \/ RmConfig(s)
             \/ ConfigGone(s) \/ FindApk(s) \/ Uninstall(s) \/ ApkGone(s) \/ End(s)
      PROVE  IInv'
  <2>1. Sound(s)
    BY <1>3, PidofSteps, RequireSteps, AskSteps, GoneSteps, ConfigSteps, EndStep,
       FileSteps, ConfigFileSteps, ServerSteps
  <2> QED
    BY <1>3, <2>1, OthersStill
<1>4. CASE UNCHANGED vars
  <2>1. UNCHANGED <<binary, config, provider, servers, session, excused, chosen, cut>>
    BY <1>4 DEF vars
  <2> QED
    BY <2>1 DEF IInv, TypeOK, Alone, DeviceInv, SettingsKept, At, SessionInv, PlaceInv,
       StartInv, WriteInv, InstallInv, RemoveInv, Undisturbed
<1>5. ASSUME NEW s \in Sessions PROVE session[s].at = "idle" =>
        ~ (\/ Pidof(s) \/ PidofAgain(s) \/ TestBinary(s) \/ Launch(s) \/ Kill(s)
           \/ TestConfig(s) \/ OpenConfig(s) \/ FillConfig(s) \/ ChmodConfig(s)
           \/ Load(s) \/ Menu(s) \/ Push(s) \/ Chmod(s) \/ VerifyBinary(s) \/ Apk(s)
           \/ VerifyApk(s) \/ Appop(s) \/ VerifyAppop(s) \/ FindBinary(s)
           \/ RmBinary(s) \/ BinaryGone(s) \/ FindConfig(s) \/ RmConfig(s)
           \/ ConfigGone(s) \/ FindApk(s) \/ Uninstall(s) \/ ApkGone(s) \/ End(s))
  BY DEF At, Pidof, PidofAgain, TestBinary, Launch, Kill, TestConfig, OpenConfig,
     FillConfig, ChmodConfig, Load, Menu, Push, Chmod, VerifyBinary, Apk, VerifyApk,
     Appop, VerifyAppop, FindBinary, RmBinary, BinaryGone, FindConfig, RmConfig,
     ConfigGone, FindApk, Uninstall, ApkGone, End
<1> QED
  BY <1>1, <1>2, <1>3, <1>4, <1>5 DEF Next

\* However commands interleave, and whichever calls get lost.
THEOREM Invariance == Spec => []IInv
  BY InvInit, InvStep, PTL DEF Spec

\* The script's own variables and the files it writes have the values they are
\* meant to have.
THEOREM TypeCorrect == Spec => []TypeOK
<1>1. IInv => TypeOK
  BY DEF IInv
<1> QED
  BY <1>1, Invariance, PTL

\* There is never a second server, unless a start ran beside another command
\* or lost the answer to a question before its launch.
THEOREM OneServerTheorem == Spec => []OneServer
<1>1. IInv => OneServer
  <2> SUFFICES ASSUME \A p, q \in servers \ excused : p = q PROVE OneServer
    BY DEF IInv, DeviceInv
  <2>1. CASE servers \ excused = {}
    BY <2>1, FS_EmptySet DEF OneServer
  <2>2. ASSUME NEW p \in servers \ excused PROVE OneServer
    <3>1. servers \ excused = {p}
      BY <2>2
    <3>2. Cardinality({p}) = 1
      BY FS_Singleton
    <3> QED
      BY <3>1, <3>2 DEF OneServer
  <2> QED
    BY <2>1, <2>2
<1> QED
  BY <1>1, Invariance, PTL

\* Whatever calls are lost and however commands interleave: a file with
\* contents holds what was chosen, without a file nothing was, and an empty one
\* is being filled or lost its contents to a write that was cut off.
THEOREM SettingsTheorem == Spec => []SettingsKept
<1>1. IInv => SettingsKept
  BY DEF IInv, DeviceInv
<1> QED
  BY <1>1, Invariance, PTL

\* An install that says it succeeded, alone and with no answer lost, has left a
\* binary that runs, a provider that may read files, and a configuration file.
THEOREM InstallTheorem == Spec => []InstalledIsUsable
<1>1. IInv => InstalledIsUsable
  BY DEF IInv, SessionInv, InstallInv, Undisturbed, InstalledIsUsable, Succeeded, At
<1> QED
  BY <1>1, Invariance, PTL

\* An all_remove that says it succeeded, alone and with no answer lost, has left
\* nothing on the device.
THEOREM RemoveTheorem == Spec => []RemovedIsGone
<1>1. IInv => RemovedIsGone
  BY DEF IInv, SessionInv, RemoveInv, Undisturbed, RemovedIsGone, Succeeded, At
<1> QED
  BY <1>1, Invariance, PTL
=============================================================================
