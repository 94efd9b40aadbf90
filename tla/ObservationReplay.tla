------------------------- MODULE ObservationReplay -------------------------
(* The driver of a run with external observations: it answers every request   *)
(* of a suspended backend with the next observation of a script, and reports  *)
(* what was requested, how many observations were applied and how it ended.   *)
(*                                                                            *)
(* The backend is left open: a parameter of each action is what it asks or    *)
(* how it ends.  Two backends are driven one after the other.                 *)
EXTENDS Naturals, Sequences

CONSTANTS
    Requests,           \* what a backend may ask: records with a field type
    Values,             \* what a script may answer
    HasThunk(_),        \* typeContainsThunk
    Admits(_, _)        \* valueHasType

VARIABLES
    script,             \* the observations provided
    requests,           \* what was asked so far
    applied,            \* how many observations were applied
    report              \* the observation of the whole run, or NoReport

replayVars == <<script, requests, applied, report>>

NoReport == [tag |-> "none"]
Report(asked, count, result) ==
    [tag |-> "executed", provided |-> Len(script), applied |-> count,
     requests |-> asked, result |-> result]

DriverRejected(code) == [tag |-> "runtime-rejected", code |-> code]

ReplayInit ==
    /\ script \in Seq(Values)
    /\ requests = << >>
    /\ applied = 0
    /\ report = NoReport

Driving == report = NoReport /\ UNCHANGED script
Unanswered == applied = Len(script)
NextObservation == script[applied + 1]

AskAndReport_NotRecorded(request, result) ==
    /\ report' = Report(requests, applied, result)
    /\ UNCHANGED <<requests, applied>>

(* The backend asks and the driver stops with the answer it can give.         *)
AskAndReport(request, result) ==
    /\ requests' = Append(requests, request)
    /\ report' = Report(requests', applied, result)
    /\ UNCHANGED applied

StopForObservation(request) ==
    /\ Driving
    /\ Unanswered
    /\ AskAndReport(request, [tag |-> "suspended", request |-> request])

RefuseThunk(request) ==
    /\ Driving
    /\ ~Unanswered
    /\ HasThunk(request.type)
    /\ AskAndReport(request, DriverRejected("thunk-result-unsupported"))

RefuseType(request) ==
    /\ Driving
    /\ ~Unanswered
    /\ ~HasThunk(request.type)
    /\ ~Admits(NextObservation, request.type)
    /\ AskAndReport(request, DriverRejected("result-type-mismatch"))

Answerable(request) ==
    /\ ~Unanswered
    /\ ~HasThunk(request.type)
    /\ Admits(NextObservation, request.type)

(* The backend takes the observation and runs on.                             *)
ApplyObservation(request) ==
    /\ Driving
    /\ Answerable(request)
    /\ requests' = Append(requests, request)
    /\ applied' = applied + 1
    /\ UNCHANGED report

(* It does not take it: it rejects the run, or is suspended as before.        *)
NotApplied(request, code) ==
    /\ Driving
    /\ Answerable(request)
    /\ AskAndReport(request, DriverRejected(code))

(* The backend is done.                                                       *)
ReportResult(result) ==
    /\ Driving
    /\ result.tag \in {"returned", "runtime-rejected", "inconclusive"}
    /\ report' = Report(requests, applied, result)
    /\ UNCHANGED <<requests, applied>>

(* The program never ran: it was rejected by the decoder or the checker.      *)
RejectProgram(result) ==
    /\ Driving
    /\ requests = << >>
    /\ result.tag \in {"representation-rejected", "check-rejected"}
    /\ report' = Report(requests, applied, result)
    /\ UNCHANGED <<requests, applied>>

DriveNext ==
    /\ report # NoReport
    /\ requests' = << >>
    /\ applied' = 0
    /\ report' = NoReport
    /\ UNCHANGED script

ReplayNext ==
    \/ \E request \in Requests :
          \/ StopForObservation(request) \/ RefuseThunk(request) \/ RefuseType(request)
          \/ ApplyObservation(request)
          \/ \E code : NotApplied(request, code)
    \/ \E result : ReportResult(result) \/ RejectProgram(result)
    \/ DriveNext

ReplaySpec == ReplayInit /\ [][ReplayNext]_replayVars

-----------------------------------------------------------------------------
(* What a reader of a report may rely on, as isKernelEffectRunObservation     *)
(* demands it of every report.                                                *)
Fits(r) ==
    /\ r.applied <= r.provided
    /\ Len(r.requests) \in {r.applied, r.applied + 1}
    /\ r.result.tag = "suspended" =>
          /\ Len(r.requests) = r.applied + 1
          /\ r.provided = r.applied
          /\ r.requests[Len(r.requests)] = r.result.request
    /\ r.result.tag # "suspended" /\ Len(r.requests) = r.applied + 1 =>
          r.result.tag = "runtime-rejected" /\ r.applied < r.provided
    /\ r.result.tag \in {"representation-rejected", "check-rejected"} => r.requests = << >>

(* Every report the driver makes passes the reader's test of it: requests and *)
(* applied observations fit, and an unanswered request ends the report        *)
(* (driveExternalObservations against isKernelEffectRunObservation).          *)
ReplayFits == report # NoReport => Fits(report)
=============================================================================
