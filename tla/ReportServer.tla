----------------------------- MODULE ReportServer -----------------------------
(***************************************************************************)
(* How a report is presented: execwake starts itself a second time as the  *)
(* report server (report_launch.rs), waits a few seconds for the address   *)
(* the server prints, and has it opened by a program it waits for without  *)
(* limit (run_opener); when any of it fails the server is stopped and, for *)
(* a comparison, the text is printed instead.                              *)
(* The server (report.rs) listens from before it prints the address, and   *)
(* ends once no authorized request came for its idle timeout: a timer      *)
(* reads when the last one came, sleeps for what is left, and reads again, *)
(* while requests are accepted, handled and answered.  The time limit is   *)
(* one of handlers only: an answer is written for as long as its client    *)
(* takes to read it.                                                       *)
(*                                                                         *)
(* Time is counted in ticks, and only as far as it matters: how long the   *)
(* launcher waited, how long nothing came, how long the timer sleeps.      *)
(***************************************************************************)
EXTENDS Integers

CONSTANTS
    StartTimeout,  \* ticks the launcher waits for the address
    IdleTimeout    \* ticks without a request after which the server ends

ASSUME TimeoutsAssumption == {StartTimeout, IdleTimeout} \subseteq Nat \ {0}

VARIABLES
    launcher,   \* what the launcher is about to do
    waited,     \* ticks the launcher has been waiting for the address
    outcome,    \* what the reader of the report got
    server,     \* what the server process is about to do
    pipe,       \* what the server printed and the launcher has not read
    given,      \* whether an opener was given the address
    idle,       \* ticks since the last authorized request, up to the timeout
    sleep,      \* ticks the timer still sleeps
    accepted,   \* the requests the server has not answered
    handled     \* those of them whose answer is being written

requestVars == <<accepted, handled>>
serverVars == <<launcher, waited, outcome, server, pipe, given, idle, sleep, requestVars>>

ServerInit ==
    /\ launcher = "deciding"
    /\ waited = 0
    /\ outcome = "none"
    /\ server = "absent"
    /\ pipe = "empty"
    /\ given = FALSE
    /\ idle = 0
    /\ sleep = 0
    /\ accepted = {}
    /\ handled = {}

Alive == server \notin {"absent", "gone"}

\* The launcher ends: with the report opened, without it, or as it is killed.
Presents(what) ==
    /\ launcher' = "done"
    /\ outcome' = what

\* stop_child: the server is killed and waited for.
StopChild ==
    /\ server' = "gone"
    /\ accepted' = {}
    /\ handled' = {}

\* Nobody watches (should_open_report), or the server cannot be started.
PresentText ==
    /\ launcher = "deciding"
    /\ Presents("text")
    /\ UNCHANGED <<waited, server, pipe, given, idle, sleep, requestVars>>

StartServer ==
    /\ launcher = "deciding"
    /\ launcher' = "waiting"
    /\ server' = "loading"
    /\ UNCHANGED <<waited, outcome, pipe, given, idle, sleep, requestVars>>

\* read_server_url gets the line of the server.
ReadUrl ==
    /\ launcher = "waiting"
    /\ pipe = "url"
    /\ pipe' = "empty"
    /\ launcher' = "opening"
    /\ given' = TRUE
    /\ UNCHANGED <<waited, outcome, server, idle, sleep, requestVars>>

StartFails ==
    /\ StopChild
    /\ Presents("text")
    /\ UNCHANGED <<waited, pipe, given, idle, sleep>>

\* The server ended before it printed the line: the line read is no address.
ReadNothing ==
    /\ launcher = "waiting"
    /\ pipe = "empty"
    /\ server = "gone"
    /\ StartFails

\* The address did not come in time; what comes now is not read.
WaitTimesOut ==
    /\ launcher = "waiting"
    /\ waited = StartTimeout
    /\ StartFails

\* run_opener: the opener may be the browser itself, and run as long as it does.
OpenBrowser ==
    /\ launcher = "opening"
    /\ Presents("opened")
    /\ UNCHANGED <<waited, server, pipe, given, idle, sleep, requestVars>>

\* Whatever the page has loaded by then, its server is stopped.
OpenerFails ==
    /\ launcher = "opening"
    /\ StartFails

\* The reader ends the launcher: neither the server nor an opener hears of it.
LauncherKilled ==
    /\ launcher \in {"waiting", "opening"}
    /\ Presents("killed")
    /\ UNCHANGED <<waited, server, pipe, given, idle, sleep, requestVars>>

-----------------------------------------------------------------------------
\* bind, bind_diff: the session is validated or the sessions are compared.
Bind ==
    /\ server = "loading"
    /\ server' = "bound"
    /\ idle' = 0
    /\ UNCHANGED <<launcher, waited, outcome, pipe, given, sleep, requestVars>>

\* The address is printed, unless nobody is left to read it.
PrintUrl ==
    /\ server = "bound"
    /\ IF launcher = "done" THEN server' = "gone" /\ UNCHANGED pipe
                            ELSE server' = "starting" /\ pipe' = "url"
    /\ UNCHANGED <<launcher, waited, outcome, given, idle, sleep, requestVars>>

\* run: the timer starts with a first look at the activity.
Serve ==
    /\ server = "starting"
    /\ server' = "serving"
    /\ sleep' = 0
    /\ UNCHANGED <<launcher, waited, outcome, pipe, given, idle, requestVars>>

\* The session is not valid, the address cannot be bound or printed, or the
\* runtime does not start.
ServerFails ==
    /\ server \in {"loading", "bound", "starting"}
    /\ server' = "gone"
    /\ UNCHANGED <<launcher, waited, outcome, pipe, given, idle, sleep, requestVars>>

\* wait_for_idle
WakeLate ==  \* Mutant of Wake: the timer always sleeps for the whole timeout.
    /\ server = "serving"
    /\ sleep = 0
    /\ IF idle >= IdleTimeout
       THEN server' = "stopping" /\ UNCHANGED sleep
       ELSE sleep' = IdleTimeout /\ UNCHANGED server
    /\ UNCHANGED <<launcher, waited, outcome, pipe, given, idle, requestVars>>
Wake ==
    /\ server = "serving"
    /\ sleep = 0
    /\ IF idle >= IdleTimeout
       THEN server' = "stopping" /\ UNCHANGED sleep
       ELSE sleep' = IdleTimeout - idle /\ UNCHANGED server
    /\ UNCHANGED <<launcher, waited, outcome, pipe, given, idle, requestVars>>

\* A graceful shutdown ends with the last request that was accepted.
ShutDown ==
    /\ server = "stopping"
    /\ accepted = {}
    /\ server' = "gone"
    /\ UNCHANGED <<launcher, waited, outcome, pipe, given, idle, sleep, requestVars>>

\* require_token, open_report: an authorized request is noted as activity.
Accept(request) ==
    /\ server = "serving"
    /\ request \notin accepted
    /\ accepted' = accepted \cup {request}
    /\ idle' = 0
    /\ UNCHANGED <<launcher, waited, outcome, server, pipe, given, sleep, handled>>

\* A handler ends, at the latest after its time limit (limit_request_time).
HandleWhileServing(request) ==  \* Mutant of Handle: the shutdown stops the handlers.
    /\ server = "serving"
    /\ request \in accepted \ handled
    /\ handled' = handled \cup {request}
    /\ UNCHANGED <<launcher, waited, outcome, server, pipe, given, idle, sleep, accepted>>
Handle(request) ==
    /\ request \in accepted \ handled
    /\ handled' = handled \cup {request}
    /\ UNCHANGED <<launcher, waited, outcome, server, pipe, given, idle, sleep, accepted>>

\* The client has read its answer.
Answer(request) ==
    /\ request \in handled
    /\ accepted' = accepted \ {request}
    /\ handled' = handled \ {request}
    /\ UNCHANGED <<launcher, waited, outcome, server, pipe, given, idle, sleep>>

AtMost(n, limit) == IF n > limit THEN limit ELSE n

\* Time passes, but a wait does not last longer than it was meant to.
Tick ==
    /\ launcher = "waiting" => waited < StartTimeout
    /\ waited' = IF launcher = "waiting" THEN waited + 1 ELSE waited
    /\ idle' = IF Alive THEN AtMost(idle + 1, IdleTimeout) ELSE idle
    /\ sleep' = IF sleep > 0 THEN sleep - 1 ELSE 0
    /\ UNCHANGED <<launcher, outcome, server, pipe, given, requestVars>>

LaunchNext == PresentText \/ StartServer \/ ReadUrl \/ ReadNothing \/ WaitTimesOut

OpenerNext == OpenBrowser \/ OpenerFails

ServeNext == Bind \/ PrintUrl \/ Serve \/ Wake \/ ShutDown

=============================================================================
