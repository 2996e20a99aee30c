------------------------------ MODULE AppActor ------------------------------
(***************************************************************************)
(* The App actor of oysterpack-core (src/actor/app.rs) and App::run.       *)
(*                                                                         *)
(* App holds an optional Build and an instance id; its handlers answer     *)
(* SetBuild, GetBuild, GetInstanceId, GetAppInstanceInfo, GetLogConfig and *)
(* StopApp one message at a time from its mailbox.  App::run is one        *)
(* future chain on the System's arbiter: send SetBuild(build), then        *)
(* GetAppInstanceInfo, log a Started event to the EventLog actor, run the  *)
(* workflow f, send GetAppInstanceInfo again, log a Stopped event, send    *)
(* StopApp.  Each step is a .then on the previous send's reply.  The       *)
(* workflow f sends App messages of its own and awaits each reply.         *)
(* When StopApp is handled the System stops and nothing else runs.         *)
(*                                                                         *)
(* Logging set-up (init_logging) and the content of the log config and     *)
(* instance id are left out: no property is about them.                    *)
(***************************************************************************)
EXTENDS Naturals, Sequences

CONSTANTS
    Builds,     \* Build values: the one passed to run and others
    RunBuild,   \* the Build passed to App::run
    ThisCrate,  \* PackageId::for_this_crate(), reported while no Build is set
    FMsgs,      \* message kinds the workflow f may send to App
    FSteps      \* bound on the messages f sends before it completes

ASSUME RunBuild \in Builds /\ ThisCrate \notin Builds /\ FSteps \in Nat

NoBuild == "no_build"
NoReply == "no_reply"

Kinds == {"SetBuild", "GetBuild", "GetInstanceId", "GetAppInstanceInfo",
          "GetLogConfig", "StopApp"}

(* The steps of App::run's chain; "await_*" waits for a reply.             *)
RunPcs == {"send_set_build", "await_set_build", "await_info_start",
           "await_log_started", "in_f", "await_info_stop", "await_log_stopped",
           "await_stop"}

VARIABLES
    appBox,     \* App's mailbox: [kind, arg, from]
    logBox,     \* EventLog's mailbox: LogEvent payloads
    build,      \* App.build
    events,     \* the events the EventLog has logged, in order
    running,    \* the System is running
    runPc,      \* where App::run's chain is
    runReply,   \* the reply the chain is waiting on, once it has arrived
    fPc,        \* the workflow: "idle", "await" or "done"
    fReply,     \* the reply f is waiting on, once it has arrived
    fSent       \* messages f has sent

vars == <<appBox, logBox, build, events, running, runPc, runReply, fPc, fReply,
          fSent>>

(* GetAppInstanceInfo: the package id of the Build, or of this crate.      *)
PackageId == IF build = NoBuild THEN ThisCrate ELSE build

Msg(kind, arg, from) == [kind |-> kind, arg |-> arg, from |-> from]

Init ==
    /\ appBox = <<>>
    /\ logBox = <<>>
    /\ build = NoBuild
    /\ events = <<>>
    /\ running = TRUE
    /\ runPc = "send_set_build"
    /\ runReply = NoReply
    /\ fPc = "idle"
    /\ fReply = NoReply
    /\ fSent = 0

(* The reply to a handled message goes back to whoever sent it.            *)
Deliver(from, value) ==
    IF from = "run"
       THEN /\ runReply' = value
            /\ UNCHANGED fReply
       ELSE /\ fReply' = value
            /\ UNCHANGED runReply

AppHandleNoStop ==
    /\ running
    /\ appBox # <<>>
    /\ LET m == Head(appBox) IN
       /\ appBox' = Tail(appBox)
       /\ CASE m.kind = "SetBuild" ->
                 /\ build' = m.arg
                 /\ Deliver(m.from, "unit")
            [] m.kind = "GetAppInstanceInfo" ->
                 /\ Deliver(m.from, PackageId)
                 /\ UNCHANGED build
            [] OTHER ->
                 /\ Deliver(m.from, "unit")
                 /\ UNCHANGED build
    /\ UNCHANGED <<logBox, events, running, runPc, fPc, fSent>>

(* App handles the message at the head of its mailbox.                     *)
AppHandle ==
    /\ running
    /\ appBox # <<>>
    /\ LET m == Head(appBox) IN
       /\ appBox' = Tail(appBox)
       /\ CASE m.kind = "SetBuild" ->
                 /\ build' = m.arg
                 /\ Deliver(m.from, "unit")
                 /\ UNCHANGED running
            [] m.kind = "GetAppInstanceInfo" ->
                 /\ Deliver(m.from, PackageId)
                 /\ UNCHANGED <<build, running>>
            [] m.kind = "StopApp" ->
                 /\ running' = FALSE
                 /\ Deliver(m.from, "unit")
                 /\ UNCHANGED build
            [] OTHER ->
                 /\ Deliver(m.from, "unit")
                 /\ UNCHANGED <<build, running>>
    /\ UNCHANGED <<logBox, events, runPc, fPc, fSent>>

(* EventLog handles a LogEvent and replies to the chain.                   *)
LogHandle ==
    /\ running
    /\ logBox # <<>>
    /\ events' = Append(events, Head(logBox))
    /\ logBox' = Tail(logBox)
    /\ runReply' = "unit"
    /\ UNCHANGED <<appBox, build, running, runPc, fPc, fReply, fSent>>

(* Chain step: app.send(SetBuild(build)).                                  *)
RunSetBuild ==
    /\ running
    /\ runPc = "send_set_build"
    /\ appBox' = Append(appBox, Msg("SetBuild", RunBuild, "run"))
    /\ runPc' = "await_set_build"
    /\ UNCHANGED <<logBox, build, events, running, runReply, fPc, fReply, fSent>>

(* .then(move |_| app.send(GetAppInstanceInfo)).                           *)
RunGetInfo ==
    /\ running
    /\ runPc = "await_set_build"
    /\ runReply # NoReply
    /\ appBox' = Append(appBox, Msg("GetAppInstanceInfo", NoBuild, "run"))
    /\ runReply' = NoReply
    /\ runPc' = "await_info_start"
    /\ UNCHANGED <<logBox, build, events, running, fPc, fReply, fSent>>

RunLogStartedNoAwait ==
    /\ running
    /\ runPc = "await_info_start"
    /\ logBox' = Append(logBox, [kind |-> "started", pkg |-> runReply])
    /\ runReply' = NoReply
    /\ runPc' = "await_log_started"
    /\ UNCHANGED <<appBox, build, events, running, fPc, fReply, fSent>>

(* .then(|info| eventlog.send(LogEvent(started(info.package_id())))).      *)
RunLogStarted ==
    /\ running
    /\ runPc = "await_info_start"
    /\ runReply # NoReply
    /\ logBox' = Append(logBox, [kind |-> "started", pkg |-> runReply])
    /\ runReply' = NoReply
    /\ runPc' = "await_log_started"
    /\ UNCHANGED <<appBox, build, events, running, fPc, fReply, fSent>>

(* .then(|_| f): the workflow starts.                                      *)
RunF ==
    /\ running
    /\ runPc = "await_log_started"
    /\ runReply # NoReply
    /\ runReply' = NoReply
    /\ runPc' = "in_f"
    /\ UNCHANGED <<appBox, logBox, build, events, running, fPc, fReply, fSent>>

(* The workflow sends one App message and awaits its reply.                *)
FSend(kind, arg) ==
    /\ running
    /\ runPc = "in_f"
    /\ fPc = "idle"
    /\ fSent < FSteps
    /\ appBox' = Append(appBox, Msg(kind, arg, "f"))
    /\ fPc' = "await"
    /\ fSent' = fSent + 1
    /\ UNCHANGED <<logBox, build, events, running, runPc, runReply, fReply>>

FRecv ==
    /\ running
    /\ fPc = "await"
    /\ fReply # NoReply
    /\ fPc' = "idle"
    /\ fReply' = NoReply
    /\ UNCHANGED <<appBox, logBox, build, events, running, runPc, runReply, fSent>>

(* The workflow's future resolves.                                         *)
FDone ==
    /\ running
    /\ runPc = "in_f"
    /\ fPc = "idle"
    /\ fPc' = "done"
    /\ UNCHANGED <<appBox, logBox, build, events, running, runPc, runReply, fReply,
                   fSent>>

(* .then(|_| app.send(GetAppInstanceInfo)) once f has completed.           *)
RunGetInfoStop ==
    /\ running
    /\ runPc = "in_f"
    /\ fPc = "done"
    /\ appBox' = Append(appBox, Msg("GetAppInstanceInfo", NoBuild, "run"))
    /\ runPc' = "await_info_stop"
    /\ UNCHANGED <<logBox, build, events, running, runReply, fPc, fReply, fSent>>

(* .then(|info| eventlog.send(LogEvent(stopped(info.package_id())))).      *)
RunLogStopped ==
    /\ running
    /\ runPc = "await_info_stop"
    /\ runReply # NoReply
    /\ logBox' = Append(logBox, [kind |-> "stopped", pkg |-> runReply])
    /\ runReply' = NoReply
    /\ runPc' = "await_log_stopped"
    /\ UNCHANGED <<appBox, build, events, running, fPc, fReply, fSent>>

RunStopNoAwait ==
    /\ running
    /\ runPc = "await_log_stopped"
    /\ appBox' = Append(appBox, Msg("StopApp", NoBuild, "run"))
    /\ runPc' = "await_stop"
    /\ UNCHANGED <<logBox, build, events, running, runReply, fPc, fReply, fSent>>

(* .then(move |_| app.send(StopApp)) once the Stopped event is logged.     *)
RunStop ==
    /\ running
    /\ runPc = "await_log_stopped"
    /\ runReply # NoReply
    /\ appBox' = Append(appBox, Msg("StopApp", NoBuild, "run"))
    /\ runReply' = NoReply
    /\ runPc' = "await_stop"
    /\ UNCHANGED <<logBox, build, events, running, fPc, fReply, fSent>>

(* The System has stopped: System::run returns.                            *)
Stopped ==
    /\ ~running
    /\ UNCHANGED vars

Next ==
    \/ AppHandle
    \/ LogHandle
    \/ RunSetBuild \/ RunGetInfo \/ RunLogStarted \/ RunF
    \/ \E k \in FMsgs, b \in Builds : FSend(k, b)
    \/ FRecv \/ FDone
    \/ RunGetInfoStop \/ RunLogStopped \/ RunStop
    \/ Stopped

Spec == Init /\ [][Next]_vars

(* The arbiter polls every ready future and each actor handles its mailbox; *)
(* the workflow is assumed to finish, as the doc of run requires.          *)
Fairness ==
    /\ WF_vars(AppHandle) /\ WF_vars(LogHandle)
    /\ WF_vars(RunSetBuild \/ RunGetInfo \/ RunLogStarted \/ RunF)
    /\ WF_vars(RunGetInfoStop \/ RunLogStopped \/ RunStop)
    /\ WF_vars(FRecv) /\ WF_vars(FDone)

FairSpec == Spec /\ Fairness

-----------------------------------------------------------------------------
Events == [kind : {"started", "stopped"}, pkg : Builds \cup {ThisCrate}]

Replies == {NoReply, "unit", ThisCrate} \cup Builds

TypeOK ==
    /\ appBox \in Seq([kind : Kinds, arg : Builds \cup {NoBuild},
                       from : {"run", "f"}])
    /\ build \in Builds \cup {NoBuild}
    /\ running \in BOOLEAN
    /\ runPc \in RunPcs
    /\ runReply \in Replies /\ fReply \in Replies
    /\ fPc \in {"idle", "await", "done"}
    /\ fSent \in 0..FSteps
    /\ logBox \in Seq(Events) /\ events \in Seq(Events)
    /\ Len(logBox) + Len(events) <= 2

(* Once the System has stopped, the EventLog has logged exactly the        *)
(* Started event and then the Stopped event, and Started reports the       *)
(* package of the Build passed to run.                                     *)
LifecycleLogged ==
    ~running =>
        /\ Len(events) = 2
        /\ events[1].kind = "started" /\ events[2].kind = "stopped"
        /\ events[1].pkg = RunBuild

(* App::run eventually stops the System.                                   *)
EventuallyStops == <>(~running)
=============================================================================
