------------------------------ MODULE Startup ------------------------------
(***************************************************************************)
(* How the server comes up: the configuration and whose KakaoTalk data it  *)
(* opens (src/config.rs), the order of the steps of main                   *)
(* (src/main.rs), the Android VM with its fallbacks                        *)
(* (src/android/art.rs), and the Android user that actions are sent to     *)
(* from then on.  The thread that actions are sent to                      *)
(* (src/android/action.rs) is spawned on the way and attaches to the VM    *)
(* while main goes on: where it cannot, a release build ends the whole     *)
(* process, at whatever point main has reached, serving included.          *)
(*                                                                         *)
(* The device is chosen once and for all in Init.                          *)
(***************************************************************************)
EXTENDS Naturals

CONSTANTS
    WorkUser,     \* Android user id of a second profile, such as 10
    Unset,        \* ARISA_UID is not set or empty
    Nobody,       \* no user
    AbortOnPanic  \* a panic of any thread ends the process (release build)

ASSUME StartupConstants ==
    /\ WorkUser \in Nat \ {0}
    /\ {Unset, Nobody} \cap Nat = {}
    /\ AbortOnPanic \in BOOLEAN

Users == {0, WorkUser}

\* What has to be in order once, whatever else the device is like:
\* "settings"     numbers in ARISA_* parse, referer, preferences and seed read
\* "databases"    temp_dir is made and both databases open
\* "framework"    libandroid_runtime.so
\* "attach"       the action thread attaches and finds the activity manager
\* "address"      ARISA_BIND is a socket address
\* "descriptors"  the descriptors compiled in for reflection decode
\* "port"         the address can be bound
Parts == {"settings", "databases", "framework", "attach", "address", "descriptors", "port"}

\* What dlopen, dlsym and the functions found can come to, per library; of a
\* runtime that is absent as much follows as of one that fails.
HelperStates == {"absent", "fails", "works"}
RuntimeStates == {"fails", "works"}
RegisterStates == {"absent", "fails", "works"}

VARIABLES
    device,     \* the device and its environment; never changes
    step,       \* how far main has come
    appUser,    \* the user whose databases were found, or Nobody
    polling,    \* the poller thread has been spawned
    vms,        \* successful calls of JNI_CreateJavaVM
    worker      \* the action thread: "none", "attaching", "ready" or "gone"

vars == <<device, step, appUser, polling, vms, worker>>

Devices ==
    [uid       : Users \cup {Unset},   \* ARISA_UID
     current   : Users,                \* the user in the foreground
     installed : SUBSET Users,         \* users with KakaoTalk's data
     mirror    : BOOLEAN,              \* /data_mirror is there (Android 11)
     broken    : SUBSET Parts,         \* what is not in order
     helper    : HelperStates,         \* libnativehelper.so
     art       : RuntimeStates,        \* libart.so
     dvm       : RuntimeStates,        \* libdvm.so
     register  : RegisterStates,       \* registerFrameworkNatives
     legacy    : RuntimeStates,        \* WithFramework.registerNatives
     stdin     : BOOLEAN]              \* ARISA_EXIT_ON_STDIN_CLOSE

Steps == {"load", "open", "vm", "libnativehelper", "libart", "libdvm", "register",
          "spawn", "address", "reflection", "listen", "serve", "exited", "stopped"}

TypeOK ==
    /\ device \in Devices
    /\ step \in Steps
    /\ appUser \in Users \cup {Nobody}
    /\ polling \in BOOLEAN
    /\ vms \in 0..1
    /\ worker \in {"none", "attaching", "ready", "gone"}

Init ==
    /\ device \in Devices
    /\ step = "load" /\ appUser = Nobody
    /\ polling = FALSE /\ vms = 0 /\ worker = "none"

Works(p) == p \notin device.broken

Go(next) ==
    /\ step' = next
    /\ UNCHANGED <<device, appUser, polling, vms, worker>>

-----------------------------------------------------------------------------
(* config::load and Database::open.                                        *)

ConfiguredUser == IF device.uid = Unset THEN 0 ELSE device.uid

\* The candidates in their order, each with the user it belongs to.
\* /data/data is user 0's data.
Candidates == <<[user |-> 0, exists |-> 0 \in device.installed],
                [user |-> ConfiguredUser,
                 exists |-> device.mirror /\ ConfiguredUser \in device.installed],
                [user |-> 0, exists |-> device.mirror /\ 0 \in device.installed]>>

FirstExisting ==
    IF \E i \in 1..3 : Candidates[i].exists
    THEN Candidates[CHOOSE i \in 1..3 : /\ Candidates[i].exists
                                       /\ \A j \in 1..(i - 1) : ~Candidates[j].exists].user
    ELSE Nobody

\* find_app_path, and the reads that must succeed after it
Load ==
    /\ step = "load"
    /\ IF FirstExisting = Nobody \/ ~Works("settings")
         THEN Go("exited")
         ELSE /\ appUser' = FirstExisting
              /\ step' = "open"
              /\ UNCHANGED <<device, polling, vms, worker>>

\* create_dir_all, Database::open and start_poller: polling begins before
\* there is a VM.
OpenAndPoll ==
    /\ step = "open"
    /\ IF Works("databases")
         THEN /\ polling' = TRUE
              /\ step' = "vm"
              /\ UNCHANGED <<device, appUser, vms, worker>>
         ELSE Go("exited")

-----------------------------------------------------------------------------
(* create_android_vm.                                                      *)

\* libandroid_runtime.so holds the functions Register needs.
OpenFramework ==
    /\ step = "vm"
    /\ Go(IF Works("framework") THEN "libnativehelper" ELSE "exited")

CreateVm(state, after) ==
    IF state = "works"
    THEN /\ vms' = vms + 1
         /\ step' = "register"
         /\ UNCHANGED <<device, appUser, polling, worker>>
    ELSE Go(after)

\* Fault: any failure of libnativehelper.so falls through to the runtimes.
NativeHelperOrRuntime ==
    /\ step = "libnativehelper"
    /\ CreateVm(device.helper, "libart")

\* libnativehelper.so: without the library or one of its three functions the
\* runtimes are tried; with them, a failure is final.
NativeHelper ==
    /\ step = "libnativehelper"
    /\ CreateVm(device.helper,
                IF device.helper = "absent" THEN "libart" ELSE "exited")

\* Fault: the loop over the runtimes does not return at the first success.
BothRuntimes ==
    /\ step = "libart"
    /\ vms' = IF device.art = "works" THEN vms + 1 ELSE vms
    /\ step' = "libdvm"
    /\ UNCHANGED <<device, appUser, polling, worker>>

LibArt ==
    /\ step = "libart"
    /\ CreateVm(device.art, "libdvm")

LibDvm ==
    /\ step = "libdvm"
    /\ CreateVm(device.dvm, "exited")

\* register_framework_natives: the old name is used only if the new is absent.
Register ==
    /\ step = "register"
    /\ LET state == IF device.register # "absent" THEN device.register ELSE device.legacy
       IN  Go(IF state = "works" THEN "spawn" ELSE "exited")

-----------------------------------------------------------------------------
(* The action thread, and the way from the VM to serving.                  *)

\* ActionProcessor::spawn and start_cleanup
Spawn ==
    /\ step = "spawn"
    /\ worker' = "attaching"
    /\ step' = "address"
    /\ UNCHANGED <<device, appUser, polling, vms>>

\* config.bind.parse
ParseAddress ==
    /\ step = "address"
    /\ Go(IF Works("address") THEN "reflection" ELSE "exited")

\* The reflection service is built from the descriptors compiled in.
BuildReflection ==
    /\ step = "reflection"
    /\ Go(IF Works("descriptors") THEN "listen" ELSE "exited")

\* serve_with_shutdown binds, and serves from then on.
Listen ==
    /\ step = "listen"
    /\ Go(IF Works("port") THEN "serve" ELSE "exited")

\* stdin was closed, and the calls in progress have ended: main returns Ok.
Shutdown ==
    /\ step = "serve"
    /\ device.stdin
    /\ Go("stopped")

Ended == step \in {"exited", "stopped"}

\* attach_current_thread_guard and AndroidHiddenApi::new ...
Attach ==
    /\ worker = "attaching" /\ ~Ended
    /\ Works("attach")
    /\ worker' = "ready"
    /\ UNCHANGED <<device, step, appUser, polling, vms>>

\* ... and their two expects.  Where the panic ends the thread alone, the server
\* goes on and refuses every action (ActionProcessor).
AttachPanic ==
    /\ worker = "attaching" /\ ~Ended
    /\ ~Works("attach")
    /\ worker' = "gone"
    /\ step' = IF AbortOnPanic THEN "exited" ELSE step
    /\ UNCHANGED <<device, appUser, polling, vms>>

\* AndroidHiddenApi: ARISA_UID, or -3 (USER_CURRENT_OR_SELF)
ActionUser == IF device.uid = Unset THEN device.current ELSE device.uid

-----------------------------------------------------------------------------
Next ==
    \/ Load
    \/ OpenAndPoll
    \/ OpenFramework
    \/ NativeHelper
    \/ LibArt
    \/ LibDvm
    \/ Register
    \/ Spawn
    \/ ParseAddress
    \/ BuildReflection
    \/ Listen
    \/ Shutdown
    \/ Attach
    \/ AttachPanic

Spec == Init /\ [][Next]_vars

-----------------------------------------------------------------------------
(* Properties.                                                             *)

\* What main needs to come up: data of user 0 or of the configured user, one
\* working way each to a VM and to the framework's natives, and every part but
\* the action thread, which main does not wait for.
CanServe ==
    /\ device.broken \subseteq {"attach"}
    /\ 0 \in device.installed \/ (device.mirror /\ ConfiguredUser \in device.installed)
    /\ IF device.helper = "absent"
       THEN "works" \in {device.art, device.dvm}
       ELSE device.helper = "works"
    /\ \/ device.register = "works"
       \/ device.register = "absent" /\ device.legacy = "works"

\* The server comes up only where main can come up, with its poller running,
\* one VM in the process and an action thread that is ready or on its way,
\* and then returns only when told to.  It ends in failure only where main
\* cannot come up, or where the thread cannot attach in a release build: then
\* it may have served for a while, and taken actions that nobody works off.
ServesIffItCan ==
    /\ step \in {"serve", "stopped"} =>
          /\ CanServe /\ polling /\ vms = 1 /\ appUser \in device.installed
          /\ worker # "none"
          /\ worker = "ready" => Works("attach")
          /\ worker = "gone" => ~Works("attach") /\ ~AbortOnPanic
    /\ step = "stopped" => device.stdin
    /\ step = "exited" =>
          \/ ~CanServe
          \/ ~Works("attach") /\ worker = "gone" /\ AbortOnPanic

\* README.md on ARISA_UID: it names the Android user for dual messenger, work
\* profile or secure folder.  So the databases read are those of the user the
\* actions are sent to, at least if that user has KakaoTalk in plain sight.
DataOfConfiguredUser ==
    step = "serve" /\ device.uid \in device.installed /\ device.mirror
        => appUser = ActionUser
=============================================================================
