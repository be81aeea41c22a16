------------------------------ MODULE Control ------------------------------
(***************************************************************************)
(* scripts/arisa_control: what an operator at a PC does to the device with *)
(* install, start, stop, config, remove and all_remove.  Every command is  *)
(* a sequence of adb calls, each of which can be lost; the device keeps no *)
(* lock, so commands given from two terminals interleave call by call.     *)
(*                                                                         *)
(* A lost call is of one of two kinds.  A lost order (push, chmod, rm,     *)
(* kill, ...) exits with an error, whether or not the device carried it    *)
(* out.  A lost question (pidof, test, pm path, ...) looks like the answer *)
(* "no", because the script cannot tell an error from a negative answer.   *)
(*                                                                         *)
(* The configuration is abstracted to a value per setting, all of them     *)
(* valid: the script writes no other.                                      *)
(***************************************************************************)
EXTENDS Naturals, FiniteSets

CONSTANTS
    Sessions,      \* terminals
    Pids,          \* bound: server processes at a time
    Keys,          \* settings in the configuration file
    Values,        \* what a setting can be set to
    DefaultValue,  \* its default
    NoKey,         \* no setting is being changed
    Absent,        \* there is no configuration file
    Torn           \* the file is there and empty: its write was cut off

ASSUME ControlConstants ==
    /\ DefaultValue \in Values
    /\ NoKey \notin Keys
    /\ Absent # Torn
    /\ {Absent, Torn} \cap [Keys -> Values] = {}

Settings == [Keys -> Values]
DefaultSettings == [k \in Keys |-> DefaultValue]

Commands == {"install", "start", "stop", "config", "remove", "all_remove"}

\* The call a session makes next; "report" is its last line of output.
Calls == {"idle", "pidof", "kill", "pidof_again", "test_binary", "launch",
          "test_config", "open_config", "fill_config", "chmod_config", "load", "menu",
          "push", "chmod", "verify_binary", "apk", "verify_apk", "appop", "verify_appop",
          "find_binary", "rm_binary", "binary_gone", "find_config", "rm_config",
          "config_gone", "find_apk", "uninstall", "apk_gone", "report"}

VARIABLES
    binary,     \* the server binary: "absent", "pushed" or "executable"
    config,     \* the configuration file: Settings, Torn or Absent
    provider,   \* the file provider: "absent", "installed" or "allowed"
    servers,    \* server processes
    session,    \* session[s]: the command s is in
    excused,    \* history: servers started in a session with an excuse
    chosen,     \* history: the settings the operators have reason to expect
    cut         \* history: the file lost its contents to a write that was cut off

vars == <<binary, config, provider, servers, session, excused, chosen, cut>>

device == <<binary, config, provider, servers>>
files  == <<binary, config, provider>>
hist   == <<excused, chosen, cut>>

TypeOK ==
    /\ binary \in {"absent", "pushed", "executable"}
    /\ config \in Settings \cup {Torn, Absent}
    /\ provider \in {"absent", "installed", "allowed"}
    /\ servers \in SUBSET Pids
    /\ session \in [Sessions ->
         [cmd    : Commands,
          at     : Calls,
          conf   : Settings,            \* CONFIG_ARISA_*
          key    : Keys \cup {NoKey},   \* the setting being changed
          pids   : SUBSET Pids,         \* $pid, while it is needed
          failed : BOOLEAN,             \* what the report will say
          excuse : BOOLEAN]]            \* history: it took a lost question for a "no",
                                        \* or another session was in a command, too
    /\ excused \in SUBSET servers
    /\ chosen \in Settings
    /\ cut \in BOOLEAN

Idle == [cmd |-> "stop", at |-> "idle", conf |-> DefaultSettings, key |-> NoKey,
         pids |-> {}, failed |-> FALSE, excuse |-> FALSE]

Init ==
    /\ binary = "absent" /\ config = Absent /\ provider = "absent" /\ servers = {}
    /\ session = [s \in Sessions |-> Idle]
    /\ excused = {} /\ chosen = DefaultSettings /\ cut = FALSE

At(s, call) == session[s].at = call

\* A session that has only its report to make needs no values any more.
Move(me, call) ==
    IF call = "report"
    THEN [me EXCEPT !.at = call, !.conf = DefaultSettings, !.key = NoKey]
    ELSE [me EXCEPT !.at = call]

Go(s, call) == session' = [session EXCEPT ![s] = Move(@, call)]
GoFailed(s, call) == session' = [session EXCEPT ![s] = Move([@ EXCEPT !.failed = TRUE], call)]
Fail(s) == GoFailed(s, "report")

\* A question answered with the truth, or with "no" because it was lost
Ask(s, truth, yes, no) ==
    \E answer \in {truth, FALSE} :
        session' = [session EXCEPT ![s].at = IF answer THEN yes ELSE no,
                                   ![s].excuse = @ \/ answer # truth]

\* A question whose "yes" is the only way on
Require(s, truth, next) == (truth /\ Go(s, next)) \/ Fail(s)

\* An order: not reported as done unless it was
Order(s, effect, nothing, next, otherwise) ==
    \/ effect /\ Go(s, next)
    \/ (effect \/ nothing) /\ GoFailed(s, otherwise)

-----------------------------------------------------------------------------
(* One command at a time per terminal.                                     *)

FirstCall(cmd) ==
    IF cmd = "install" THEN "push" ELSE IF cmd = "config" THEN "test_config" ELSE "pidof"

\* adb, one device, root and a known architecture: otherwise exit 1.
Begin(s, cmd) ==
    LET others == {t \in Sessions \ {s} : ~At(t, "idle")} IN
    /\ At(s, "idle")
    /\ session' = [t \in Sessions |->
         IF t = s THEN [Idle EXCEPT !.cmd = cmd, !.at = FirstCall(cmd), !.excuse = others # {}]
         ELSE IF t \in others THEN [session[t] EXCEPT !.excuse = TRUE]
         ELSE session[t]]
    /\ UNCHANGED <<device, hist>>

End(s) ==
    /\ At(s, "report")
    /\ session' = [session EXCEPT ![s] = Idle]
    /\ UNCHANGED <<device, hist>>

\* The server ends by itself: it cannot come up, the address is in use, ...
ServerEnds(p) ==
    /\ servers' = servers \ {p} /\ excused' = excused \ {p}
    /\ p \in servers
    /\ UNCHANGED <<files, session, chosen, cut>>

-----------------------------------------------------------------------------
(* start, stop, and the beginning of remove and all_remove.                *)

\* Fault: start does not look whether a server is running.
PidofIgnored(s) ==
    /\ At(s, "pidof")
    /\ \E answer \in {servers, {}} :
         session' = [session EXCEPT
           ![s].pids = IF session[s].cmd = "start" THEN {} ELSE answer,
           ![s].excuse = @ \/ answer # servers,
           ![s].at = IF session[s].cmd = "start" THEN "test_binary"
                     ELSE IF answer # {} THEN "kill"
                     ELSE IF session[s].cmd = "stop" THEN "report" ELSE "find_binary"]
    /\ UNCHANGED <<device, hist>>

\* get_arisa_pid, and what each command makes of the answer
Pidof(s) ==
    /\ At(s, "pidof")
    /\ \E answer \in {servers, {}} :
         session' = [session EXCEPT
           ![s].pids = IF session[s].cmd = "start" THEN {} ELSE answer,
           ![s].excuse = @ \/ answer # servers,
           ![s].at = IF session[s].cmd = "start"
                     THEN IF answer = {} THEN "test_binary" ELSE "report"
                     ELSE IF answer # {} THEN "kill"
                     ELSE IF session[s].cmd = "stop" THEN "report" ELSE "find_binary"]
    /\ UNCHANGED <<device, hist>>

TestBinary(s) ==
    /\ At(s, "test_binary")
    /\ Require(s, binary = "executable", "test_config")
    /\ UNCHANGED <<device, hist>>

\* nohup ... &: the exit status of adb is not looked at.
Launch(s) ==
    /\ At(s, "launch")
    /\ \/ UNCHANGED <<servers, excused>>
       \/ \E p \in Pids \ servers :
            /\ binary = "executable"
            /\ servers' = servers \cup {p}
            /\ excused' = IF session[s].excuse
                          THEN excused \cup {p} ELSE excused
    /\ Go(s, "pidof_again")
    /\ UNCHANGED <<files, chosen, cut>>

\* SIGKILL to the processes found earlier; the exit status is not looked at.
Kill(s) ==
    /\ At(s, "kill")
    /\ \E dead \in {session[s].pids, {}} :
         servers' = servers \ dead /\ excused' = excused \ dead
    /\ session' = [session EXCEPT
         ![s].pids = {},
         ![s].at = IF session[s].cmd = "stop" THEN "pidof_again" ELSE "find_binary"]
    /\ UNCHANGED <<files, chosen, cut>>

\* Two seconds after a start and one after a stop
PidofAgain(s) ==
    /\ At(s, "pidof_again")
    /\ \E answer \in {servers, {}} :
         session' = [session EXCEPT
           ![s].at = "report",
           ![s].excuse = @ \/ answer # servers,
           ![s].failed = (session[s].cmd = "start") = (answer = {})]
    /\ UNCHANGED <<device, hist>>

-----------------------------------------------------------------------------
(* The configuration file: in start, config and install.                   *)

\* Fault: the defaults are written in any case.
TestConfigUnasked(s) ==
    /\ At(s, "test_config")
    /\ Go(s, "open_config")
    /\ UNCHANGED <<device, hist>>

\* ensure_arisa_config: the defaults are written if there is no file.
TestConfig(s) ==
    /\ At(s, "test_config")
    /\ Ask(s, config # Absent, IF session[s].cmd = "install" THEN "apk" ELSE "load",
           "open_config")
    /\ UNCHANGED <<device, hist>>

\* cat > file: the shell empties the file ...
OpenConfig(s) ==
    /\ At(s, "open_config")
    /\ \/ config' = Torn /\ UNCHANGED cut /\ Go(s, "fill_config")
       \/ config' = Torn /\ cut' = TRUE /\ Fail(s)
       \/ UNCHANGED <<config, cut>> /\ Fail(s)
    /\ UNCHANGED <<binary, provider, servers, excused, chosen>>

\* ... and cat writes CONFIG_ARISA_* to it, if it is still linked and the
\* connection lives that long.
FillConfig(s) ==
    LET me == session[s]
        expected == IF me.excuse THEN me.conf
                    ELSE IF me.key # NoKey THEN [chosen EXCEPT ![me.key] = me.conf[me.key]]
                    ELSE chosen
        written == IF config = Absent
                   THEN UNCHANGED <<config, chosen, cut>>
                   ELSE config' = me.conf /\ chosen' = expected /\ cut' = FALSE
        lost == UNCHANGED <<config, chosen>> /\ cut' = (cut \/ config = Torn)
    IN
    /\ At(s, "fill_config")
    /\ Order(s, written, lost, "chmod_config", "report")
    /\ UNCHANGED <<binary, provider, servers, excused>>

\* The server and the script read as root: the mode matters to nobody.
ChmodConfig(s) ==
    /\ At(s, "chmod_config")
    /\ \/ Go(s, IF session[s].key # NoKey THEN "report"
                ELSE IF session[s].cmd = "install" THEN "apk" ELSE "load")
       \/ Fail(s)
    /\ UNCHANGED <<device, hist>>

\* Fault: what was read is not looked at.
LoadUnchecked(s) ==
    /\ At(s, "load")
    /\ session' = [session EXCEPT
         ![s].conf = IF session[s].cmd = "start" THEN @ ELSE config,
         ![s].at = IF session[s].cmd = "start" THEN "launch" ELSE "menu"]
    /\ UNCHANGED <<device, hist>>

\* load_arisa_config fails if nothing can be read.  What start reads goes into
\* the environment of the server, which is not followed further.
Load(s) ==
    /\ At(s, "load")
    /\ \/ /\ config \in Settings
          /\ session' = [session EXCEPT
               ![s].conf = IF session[s].cmd = "start" THEN @ ELSE config,
               ![s].at = IF session[s].cmd = "start" THEN "launch" ELSE "menu"]
       \/ Fail(s)
    /\ UNCHANGED <<device, hist>>

\* One setting is changed to a valid value and confirmed, or none is: an
\* invalid bind address, a "no" and an invalid choice change nothing.
Menu(s) ==
    /\ At(s, "menu")
    /\ \/ \E key \in Keys, value \in Values :
            session' = [session EXCEPT ![s].key = key, ![s].conf[key] = value,
                                       ![s].at = "open_config"]
       \/ Go(s, "report")
       \/ Fail(s)
    /\ UNCHANGED <<device, hist>>

-----------------------------------------------------------------------------
(* install.                                                                *)

\* Download and adb push; the new file is not executable.
Push(s) ==
    /\ At(s, "push")
    /\ Order(s, binary' = "pushed", UNCHANGED binary, "chmod", "report")
    /\ UNCHANGED <<config, provider, servers, hist>>

Chmod(s) ==
    /\ At(s, "chmod")
    /\ Order(s, binary # "absent" /\ binary' = "executable", UNCHANGED binary,
             "verify_binary", "report")
    /\ UNCHANGED <<config, provider, servers, hist>>

VerifyBinary(s) ==
    /\ At(s, "verify_binary")
    /\ Require(s, binary = "executable", "test_config")
    /\ UNCHANGED <<device, hist>>

\* Fault: the grant is forgotten.
ApkOnly(s) ==
    /\ At(s, "apk")
    /\ Order(s, provider' = (IF provider = "absent" THEN "installed" ELSE provider),
             UNCHANGED provider, "report", "report")
    /\ UNCHANGED <<binary, config, servers, hist>>

\* adb install -r keeps what the app was granted before.
Apk(s) ==
    /\ At(s, "apk")
    /\ Order(s, provider' = (IF provider = "absent" THEN "installed" ELSE provider),
             UNCHANGED provider, "verify_apk", "report")
    /\ UNCHANGED <<binary, config, servers, hist>>

VerifyApk(s) ==
    /\ At(s, "verify_apk")
    /\ Require(s, provider # "absent", "appop")
    /\ UNCHANGED <<device, hist>>

\* appops set MANAGE_EXTERNAL_STORAGE allow
Appop(s) ==
    /\ At(s, "appop")
    /\ Order(s, provider # "absent" /\ provider' = "allowed", UNCHANGED provider,
             "verify_appop", "report")
    /\ UNCHANGED <<binary, config, servers, hist>>

VerifyAppop(s) ==
    /\ At(s, "verify_appop")
    /\ Require(s, provider = "allowed", "report")
    /\ UNCHANGED <<device, hist>>

-----------------------------------------------------------------------------
(* remove, and all_remove, which goes on after a failure.                  *)

AfterRemove(s) == IF session[s].cmd = "remove" THEN "report" ELSE "find_config"

\* Is it still there after its removal?
AskGone(s, there, next) ==
    \E answer \in {there, FALSE} :
        session' = [session EXCEPT ![s].at = next,
                                   ![s].failed = @ \/ answer,
                                   ![s].excuse = @ \/ answer # there]

FindBinary(s) ==
    /\ At(s, "find_binary")
    /\ Ask(s, binary # "absent", "rm_binary", AfterRemove(s))
    /\ UNCHANGED <<device, hist>>

RmBinary(s) ==
    /\ At(s, "rm_binary")
    /\ Order(s, binary' = "absent", UNCHANGED binary, "binary_gone", AfterRemove(s))
    /\ UNCHANGED <<config, provider, servers, hist>>

BinaryGone(s) ==
    /\ At(s, "binary_gone")
    /\ AskGone(s, binary # "absent", AfterRemove(s))
    /\ UNCHANGED <<device, hist>>

FindConfig(s) ==
    /\ At(s, "find_config")
    /\ Ask(s, config # Absent, "rm_config", "find_apk")
    /\ UNCHANGED <<device, hist>>

\* Fault: a failed rm is not counted.
RmConfigIgnored(s) ==
    /\ At(s, "rm_config")
    /\ \/ config' = Absent /\ chosen' = DefaultSettings /\ cut' = FALSE /\ Go(s, "config_gone")
       \/ UNCHANGED <<config, chosen, cut>> /\ Go(s, "find_apk")
    /\ UNCHANGED <<binary, provider, servers, excused>>

RmConfig(s) ==
    /\ At(s, "rm_config")
    /\ Order(s, config' = Absent /\ chosen' = DefaultSettings /\ cut' = FALSE,
             UNCHANGED <<config, chosen, cut>>, "config_gone", "find_apk")
    /\ UNCHANGED <<binary, provider, servers, excused>>

ConfigGone(s) ==
    /\ At(s, "config_gone")
    /\ AskGone(s, config # Absent, "find_apk")
    /\ UNCHANGED <<device, hist>>

FindApk(s) ==
    /\ At(s, "find_apk")
    /\ Ask(s, provider # "absent", "uninstall", "report")
    /\ UNCHANGED <<device, hist>>

Uninstall(s) ==
    /\ At(s, "uninstall")
    /\ Order(s, provider' = "absent", UNCHANGED provider, "apk_gone", "apk_gone")
    /\ UNCHANGED <<binary, config, servers, hist>>

ApkGone(s) ==
    /\ At(s, "apk_gone")
    /\ AskGone(s, provider # "absent", "report")
    /\ UNCHANGED <<device, hist>>

-----------------------------------------------------------------------------
Next ==
    \/ \E s \in Sessions :
        \/ \E cmd \in Commands : Begin(s, cmd)
        \/ Pidof(s)
        \/ TestBinary(s)
        \/ Launch(s)
        \/ Kill(s)
        \/ PidofAgain(s)
        \/ TestConfig(s)
        \/ OpenConfig(s)
        \/ FillConfig(s)
        \/ ChmodConfig(s)
        \/ Load(s)
        \/ Menu(s)
        \/ Push(s)
        \/ Chmod(s)
        \/ VerifyBinary(s)
        \/ Apk(s)
        \/ VerifyApk(s)
        \/ Appop(s)
        \/ VerifyAppop(s)
        \/ FindBinary(s)
        \/ RmBinary(s)
        \/ BinaryGone(s)
        \/ FindConfig(s)
        \/ RmConfig(s)
        \/ ConfigGone(s)
        \/ FindApk(s)
        \/ Uninstall(s)
        \/ ApkGone(s)
        \/ End(s)
    \/ \E p \in Pids : ServerEnds(p)

Spec == Init /\ [][Next]_vars

-----------------------------------------------------------------------------
(* Properties.                                                             *)

\* The command of s ends with its message of success, no other command ran
\* beside it, and no lost question misled it.
Succeeded(s, cmd) ==
    /\ At(s, "report")
    /\ session[s].cmd = cmd
    /\ ~session[s].failed /\ ~session[s].excuse

\* Commands given one after the other leave one server at most: a second one
\* takes a start that ran beside another command, or in which a question was
\* lost before the launch (pidof, or the test -f of ensure_arisa_config; the
\* excuse does not tell them apart).
OneServer == Cardinality(servers \ excused) <= 1

\* What becomes of the settings.  A file with contents has what was chosen,
\* setting by setting, whatever failed on the way; without a file there was
\* never one, or all_remove took it.  An empty file is one that a command is
\* about to fill, or one whose write was cut off after the shell emptied it:
\* then every setting is gone, and start and config refuse the file until it
\* is removed.  What was chosen is what the last write says when that command
\* overlapped another or took a lost test -f for a missing file: an update
\* lost that way, or defaults written over settings, are not told apart.
SettingsKept ==
    /\ config \in Settings => config = chosen
    /\ config = Absent => chosen = DefaultSettings
    /\ config = Torn => cut \/ \E s \in Sessions : At(s, "fill_config")

\* After a successful install the binary can be run, the file provider may
\* read the files, and there is a configuration file, whatever else got lost;
\* the file may be a torn one from before, which start then refuses.
InstalledIsUsable ==
    \A s \in Sessions : Succeeded(s, "install") =>
        /\ binary = "executable"
        /\ provider = "allowed"
        /\ config # Absent

\* "Arisa binary, configuration, and file provider were removed successfully"
\* is true unless a question was lost: no lost order goes unnoticed.
RemovedIsGone ==
    \A s \in Sessions : Succeeded(s, "all_remove") =>
        binary = "absent" /\ config = Absent /\ provider = "absent"
=============================================================================
