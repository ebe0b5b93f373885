-------------------------------- MODULE Report --------------------------------
(***************************************************************************)
(* The report as its reader meets it: the launcher, the report server and  *)
(* the table of events in the page the browser shows.  The page asks for   *)
(* the report when it is opened and then for pages of events; the server   *)
(* answers what it accepted, and what it did not accept before it ended    *)
(* fails in the page.                                                      *)
(***************************************************************************)
EXTENDS EventTable, ReportServer

VARIABLE page  \* "closed", then "loading", and "shown" or "failed"

vars == <<tableVars, serverVars, page>>

\* What the page asks for before there is a table.
ReportRequest == [generation |-> -1, query |-> "report", offset |-> 0]

Init ==
    /\ TableInit
    /\ ServerInit
    /\ page = "closed"

\* The browser follows the address it was given to the page (open_report),
\* whether or not its opener has ended.
OpenPage ==
    /\ page = "closed"
    /\ given
    /\ Accept(ReportRequest)
    /\ page' = "loading"
    /\ UNCHANGED tableVars

\* session_api, loadReport: the table is set up with the count of events.
PageOpened ==
    /\ Answer(ReportRequest)
    /\ page' \in {"shown", "failed"}
    /\ UNCHANGED tableVars

\* The server has gone, and the report with it.
PageLost ==
    /\ page = "loading"
    /\ ReportRequest \notin accepted
    /\ page' = "failed"
    /\ UNCHANGED <<tableVars, serverVars>>

TheReader ==
    /\ page = "shown"
    /\ \/ \E q \in DOMAIN Matching : ResetQuery(q)
       \/ \E row \in 0 .. total - 1 : Scroll(row)
    /\ UNCHANGED <<serverVars, page>>

MoveBack ==
    /\ page = "shown"
    /\ Clamp
    /\ UNCHANGED <<serverVars, page>>

AcceptFetch ==
    /\ page = "shown"
    /\ \E fetch \in fetches : Accept(fetch)
    /\ UNCHANGED <<tableVars, page>>

\* limit_request_time: the handler has an answer, or no more time for one.
HandleRequest ==
    /\ \E request \in accepted : Handle(request)
    /\ UNCHANGED <<tableVars, page>>

\* session_events_api: the page of events, or an error.
AnswerFetch ==
    /\ \E fetch \in fetches :
         Answer(fetch) /\ (PageArrives(fetch) \/ FetchFails(fetch))
    /\ UNCHANGED page

\* Nobody listens any more.
Unreachable ==
    /\ page = "shown"
    /\ server \in {"stopping", "gone"}
    /\ \E fetch \in fetches \ accepted : FetchFails(fetch)
    /\ UNCHANGED <<serverVars, page>>

Launching == LaunchNext /\ UNCHANGED <<tableVars, page>>
Opening == OpenerNext /\ UNCHANGED <<tableVars, page>>
Serving == ServeNext /\ UNCHANGED <<tableVars, page>>
Answering == PageOpened \/ AnswerFetch
TimePasses == Tick /\ UNCHANGED <<tableVars, page>>
Accident == (LauncherKilled \/ ServerFails) /\ UNCHANGED <<tableVars, page>>

Next ==
    \/ Launching \/ Opening \/ Serving \/ HandleRequest \/ TimePasses \/ Accident
    \/ OpenPage \/ PageLost \/ TheReader \/ MoveBack \/ AcceptFetch \/ Answering \/ Unreachable

Spec == Init /\ [][Next]_vars

(***************************************************************************)
(* The launcher and the server do what they are about to do, handlers end  *)
(* (each is under a time limit) and time passes.  Nobody has to open the   *)
(* report, to read in it, to let it load or to read what it is answered;   *)
(* and the opener, a program of the desktop, may run for ever.             *)
(***************************************************************************)
FairSpec ==
    /\ Spec
    /\ WF_vars(Launching)
    /\ WF_vars(Serving)
    /\ WF_vars(HandleRequest)
    /\ WF_vars(TimePasses)

\* No server runs in vain.  A reader who is given the text instead of the report
\* is given it when the server is gone (stop_child), however late its address
\* comes; and whatever requests come while the timer of the server sleeps, it
\* wakes no later than when the last of them is as old as the idle timeout
\* (wait_for_idle).
NoneInVain ==
    /\ outcome = "text" => ~Alive
    /\ server = "serving" => idle + sleep <= IdleTimeout

\* Presenting a report ends, and leaves nothing behind.  Some time after the
\* last request the server ends, whichever step of the launch fails or comes
\* too late, whoever is killed and although an opener never ends; only a client
\* that does not read its answer keeps it.  And the launcher comes to its end
\* unless the opener does not: run_opener (report_launch.rs:468) waits for it
\* without limit.
LaunchSettles ==
    /\ []<>(handled = {}) => <>[]~Alive
    /\ []<>(launcher # "opening") => <>[](launcher = "done")
=============================================================================
