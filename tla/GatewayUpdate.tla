---------------------------- MODULE GatewayUpdate ---------------------------
(***************************************************************************)
(* The self-update of the Gateway binary (internal/updatetxn,              *)
(* internal/gatewayupdate and the two update commands): the web process    *)
(* publishes a lease and a request file, an unprivileged fetcher stages    *)
(* the signed release and marks it complete, and a root oneshot replaces   *)
(* the binary under a journal, restarts the service, verifies it against   *)
(* the data plane it saw before and publishes one terminal result.         *)
(*                                                                         *)
(* Only Gateway runs are modelled.  A build stands for the bytes of a      *)
(* binary, its digest and its version; the fingerprint of the data plane   *)
(* (other services' PIDs, modes, inbounds) is a counter that moves when    *)
(* anything in it changes.                                                 *)
(***************************************************************************)
EXTENDS Naturals

CONSTANTS Runs,        \* run identifiers
          Builds,      \* Gateway builds, ordered by version
          Good,        \* builds that start and pass the health checks
          None,
          FaultKinds,  \* the faults the environment may inject
          MaxFaults    \* how many of them in a behaviour

ASSUME RunsAssumption == None \notin Runs
ASSUME BuildsAssumption == Builds \subseteq Nat /\ Good \subseteq Builds
ASSUME FaultsAssumption == MaxFaults \in Nat

VARIABLES lease,       \* the run .update.lease names
          submitting,  \* the run whose request file is not written yet
          asked,       \* per run: what was requested
          requests,    \* request files
          due,         \* the request directory changed: the fetcher starts
          fetching,    \* the run being fetched
          staging,     \* per run: its staging directory and marker
          results,     \* per run: the published terminal result
          journal,     \* journal/active.json
          binary,      \* the installed build
          previous,    \* the build kept for a rollback
          serving,     \* the build aimili-gateway.service runs
          plane,       \* fingerprint of the data plane
          ipc,         \* where the installer is
          run,         \* the run it works on
          outcome,     \* the result it is about to publish
          faults       \* faults injected so far

clientVars == <<lease, submitting, asked>>
fetchVars == <<due, fetching>>
spoolVars == <<requests, staging, results>>
hostVars == <<binary, previous, serving>>
procVars == <<ipc, run, outcome>>
vars == <<clientVars, fetchVars, spoolVars, journal, hostVars, plane, procVars,
          faults>>

Actions == {"apply", "rollback"}
NotAsked == [action |-> "none", build |-> None]
Request == [action : {"apply"}, build : Builds]
           \cup {[action |-> "rollback", build |-> None]}
Stagings == {"none", "partial", "ready", "failed", "consumed"}
\* "restored" is rolled_back with an error code: the switch itself failed
Terminal == {"success", "rolled_back", "restored", "failed", "repair_required"}
Outcomes == Terminal \cup {"none"}
Journals == [run : Runs, action : Actions,
             phase : {"prepared", "stopped", "switched", "started", "verified",
                      "terminal"},
             state : Outcomes, old : Builds, new : Builds, base : Nat]

ASSUME NoneAssumption == None \notin Builds \cup Journals

Published(r) == results[r] # "none"
\* results are compared by state, and both kinds of rolled_back are one state
SameState(a, b) == a = b \/ {a, b} = {"rolled_back", "restored"}
Marked(r) == staging[r] \in {"ready", "failed"}

Fault(kind) == /\ kind \in FaultKinds
               /\ faults < MaxFaults
               /\ faults' = faults + 1

Init == /\ lease = None /\ submitting = None
        /\ asked = [r \in Runs |-> NotAsked]
        /\ requests = {} /\ due = FALSE /\ fetching = None
        /\ staging = [r \in Runs |-> "none"]
        /\ results = [r \in Runs |-> "none"]
        /\ journal = None
        /\ binary \in Good /\ previous \in Good \cup {None}
        /\ serving = binary /\ plane = 0
        /\ ipc = "idle" /\ run = None /\ outcome = "none"
        /\ faults = 0

----------------------------------------------------------------------------
(* updatetxn.Client.Submit, in the Gateway process                         *)

ClientStep == UNCHANGED <<spoolVars, journal, hostVars, plane, procVars>>

\* another run's lease gives way to a new one once its result is terminal and
\* needs no repair; the web page offers newer builds only
SubmitLease(r, request) ==
  /\ serving # None /\ submitting = None
  /\ asked[r] = NotAsked
  /\ lease # None => /\ Published(lease)
                     /\ results[lease] # "repair_required"
  /\ request.action = "apply" => request.build > serving
  /\ lease' = r /\ submitting' = r
  /\ asked' = [asked EXCEPT ![r] = request]
  /\ due' = TRUE
  /\ UNCHANGED <<fetching, faults>> /\ ClientStep

\* the lease is taken back when the request file cannot be written
SubmitRequest ==
  /\ submitting # None
  /\ \/ requests' = requests \cup {submitting} /\ UNCHANGED <<lease, faults>>
     \/ Fault("storage") /\ lease' = None /\ UNCHANGED requests
  /\ submitting' = None /\ due' = TRUE
  /\ UNCHANGED <<asked, fetching, staging, results, journal, hostVars, plane,
                 procVars>>

\* the Gateway dies between the two files
SubmitCrash ==
  /\ submitting # None /\ Fault("submit_crash") /\ submitting' = None
  /\ UNCHANGED <<lease, asked, fetchVars>> /\ ClientStep

----------------------------------------------------------------------------
(* aimili-gateway-update-fetch: started by a change of the request directory *)

FetcherStep == UNCHANGED <<clientVars, requests, results, journal, hostVars,
                           plane, procVars>>
Unfetched == {r \in requests : ~Marked(r)}

\* one request without a marker is served per start
FetchStart ==
  /\ due /\ fetching = None
  /\ due' = FALSE
  /\ \/ \E r \in Unfetched : fetching' = r
     \/ Unfetched = {} /\ UNCHANGED fetching
  /\ UNCHANGED <<staging, faults>> /\ FetcherStep

\* mutant: a failed download leaves no marker
FetchEndSilent ==
  /\ fetching # None
  /\ \/ staging' = [staging EXCEPT ![fetching] = "ready"]
     \/ asked[fetching].action = "apply" /\ UNCHANGED staging
  /\ fetching' = None
  /\ UNCHANGED <<due, faults>> /\ FetcherStep
\* Fetch creates the staging directory exclusively and removes it on an error,
\* which then becomes a marker of its own; a rollback needs only the marker
FetchEnd ==
  /\ fetching # None
  /\ \/ /\ asked[fetching].action = "rollback" \/ staging[fetching] = "none"
        /\ staging' = [staging EXCEPT ![fetching] = "ready"]
     \/ /\ asked[fetching].action = "apply"
        /\ staging' = [staging EXCEPT ![fetching] = "failed"]
  /\ fetching' = None
  /\ UNCHANGED <<due, faults>> /\ FetcherStep

FetchCrash ==
  /\ fetching # None /\ Fault("fetch_crash")
  /\ staging' = [staging EXCEPT ![fetching] =
                   IF asked[fetching].action = "apply" THEN "partial" ELSE @]
  /\ fetching' = None
  /\ UNCHANGED due /\ FetcherStep

----------------------------------------------------------------------------
(* runInstallerAt: the root oneshot, started while a marker exists           *)

InstallerStep == UNCHANGED <<lease, asked, fetching, plane>>
DiskUntouched == UNCHANGED <<submitting, due, spoolVars, journal, hostVars>>

Go(pc) == ipc' = pc /\ UNCHANGED <<run, outcome>>
Conclude(o, pc) == ipc' = pc /\ outcome' = o /\ UNCHANGED run
Exit == ipc' = "idle" /\ run' = None /\ outcome' = "none"

Wake == /\ ipc = "idle" /\ \E r \in Runs : Marked(r)
        /\ Go("scan")
        /\ UNCHANGED faults /\ DiskUntouched /\ InstallerStep

\* an active journal first; else a request with a result, or a staged one
Scan ==
  /\ ipc = "scan"
  /\ \/ /\ journal # None
        /\ ipc' = "recover" /\ run' = journal.run /\ UNCHANGED outcome
     \/ /\ journal = None
        /\ \E r \in requests :
             /\ run' = r
             /\ \/ Published(r) /\ ipc' = "publish" /\ outcome' = results[r]
                \/ /\ ~Published(r) /\ Marked(r)
                   /\ ipc' = "process" /\ UNCHANGED outcome
     \/ /\ journal = None
        /\ \A r \in requests : ~Published(r) /\ ~Marked(r)
        /\ Exit
  /\ UNCHANGED faults /\ DiskUntouched /\ InstallerStep

----------------------------------------------------------------------------
(* Install, Rollback and switchRelease                                     *)

Jrnl(phase, state, old, new, base) ==
  [run |-> run, action |-> asked[run].action, phase |-> phase, state |-> state,
   old |-> old, new |-> new, base |-> base]

\* preflight (signature, space, shadow check, newer version, busy check), the
\* fingerprint, and the journal written before anything else
Process ==
  /\ ipc = "process"
  /\ LET apply == asked[run].action = "apply"
         target == IF apply THEN asked[run].build ELSE previous
         fit == /\ target # None /\ serving # None
                /\ apply => staging[run] = "ready" /\ target > binary
     IN \/ /\ fit
           /\ journal' = Jrnl("prepared", "none", binary, target, plane)
           /\ Go("backup") /\ UNCHANGED faults
        \/ Conclude("failed", "publish") /\ UNCHANGED <<journal, faults>>
        \/ /\ fit /\ Fault("storage")
           /\ Conclude("repair_required", "publish") /\ UNCHANGED journal
  /\ UNCHANGED <<submitting, due, spoolVars, hostVars>> /\ InstallerStep

\* mutant: the running build is not kept
BackupSkipped ==
  /\ ipc = "backup" /\ Go("stop")
  /\ UNCHANGED faults /\ DiskUntouched /\ InstallerStep
\* the running build becomes the one kept; then the candidate is written
Backup ==
  /\ ipc = "backup"
  /\ \/ previous' = binary /\ Go("stop") /\ UNCHANGED faults
     \/ /\ Fault("storage") /\ previous' \in {previous, binary}
        /\ Conclude("repair_required", "terminal")
  /\ UNCHANGED <<submitting, due, spoolVars, journal, binary, serving>>
  /\ InstallerStep

\* systemctl stop; a timeout may hide that it worked
StopService(ok, failed) ==
  \/ serving' = None /\ submitting' = None /\ Go(ok) /\ UNCHANGED faults
  \/ Fault("systemctl") /\ serving' \in {serving, None} /\ Go(failed)
     /\ submitting' = IF serving' = None THEN None ELSE submitting
\* systemctl start
StartService(ok, failed) ==
  \/ serving' = binary /\ Go(ok) /\ UNCHANGED faults
  \/ /\ \/ binary \in Good /\ Fault("systemctl")
        \/ binary \notin Good /\ UNCHANGED faults
     /\ serving' \in {None, binary} /\ Go(failed)

Stop == /\ ipc = "stop" /\ StopService("stopped", "undo")
        /\ UNCHANGED <<due, spoolVars, journal, binary, previous>>
        /\ InstallerStep

\* what is done after each checkpoint
Following == [stopped |-> "replace", switched |-> "start",
              started |-> "verify"]
\* a checkpoint that cannot be written ends the process with no result
Checkpoint ==
  /\ ipc \in {"stopped", "switched", "started", "verified"}
  /\ \/ /\ journal' = [journal EXCEPT !.phase = ipc] /\ UNCHANGED faults
        /\ \/ ipc # "verified" /\ Go(Following[ipc])
           \/ /\ ipc = "verified"
              /\ Conclude(IF journal.action = "rollback"
                            THEN "rolled_back" ELSE "success", "terminal")
     \/ Fault("storage") /\ Exit /\ UNCHANGED journal
  /\ UNCHANGED <<submitting, due, spoolVars, hostVars>> /\ InstallerStep

Replace ==
  /\ ipc = "replace"
  /\ \/ binary' = journal.new /\ Go("switched") /\ UNCHANGED faults
     \/ Fault("storage") /\ Go("undo") /\ UNCHANGED binary
  /\ UNCHANGED <<submitting, due, spoolVars, journal, previous, serving>>
  /\ InstallerStep

Start == /\ ipc = "start" /\ StartService("started", "undo")
         /\ UNCHANGED <<submitting, due, spoolVars, journal, binary, previous>>
         /\ InstallerStep

\* verifyRunning: ready, active, and the data plane as it was before
Verified == serving \in Good /\ plane = journal.base

Verify ==
  /\ ipc = "verify"
  /\ \/ Verified /\ Go("verified") /\ UNCHANGED faults
     \/ ~Verified /\ Go("undo") /\ UNCHANGED faults
     \/ Verified /\ Fault("health") /\ Go("undo")
  /\ DiskUntouched /\ InstallerStep

----------------------------------------------------------------------------
(* rollbackAfterFailure: any failure of it needs a repair                  *)

GiveUp == Conclude("repair_required", "terminal")

Undo == /\ ipc = "undo"
        /\ StopService("undo_replace", "undo_failed")
        /\ UNCHANGED <<due, spoolVars, journal, binary, previous>>
        /\ InstallerStep

UndoReplace ==
  /\ ipc = "undo_replace"
  /\ \/ binary' = previous /\ Go("undo_start") /\ UNCHANGED faults
     \/ Fault("storage") /\ Go("undo_failed") /\ UNCHANGED binary
  /\ UNCHANGED <<submitting, due, spoolVars, journal, previous, serving>>
  /\ InstallerStep

UndoStart ==
  /\ ipc = "undo_start" /\ StartService("undo_verify", "undo_failed")
  /\ UNCHANGED <<submitting, due, spoolVars, journal, binary, previous>>
  /\ InstallerStep

UndoVerify ==
  /\ ipc = "undo_verify"
  /\ \/ Verified /\ Conclude("restored", "terminal") /\ UNCHANGED faults
     \/ ~Verified /\ Go("undo_failed") /\ UNCHANGED faults
     \/ Verified /\ Fault("health") /\ Go("undo_failed")
  /\ DiskUntouched /\ InstallerStep

UndoFailed == /\ ipc = "undo_failed" /\ GiveUp
              /\ UNCHANGED faults /\ DiskUntouched /\ InstallerStep

\* the deferred write of switchRelease, and persistRecovered
TerminalJournal ==
  /\ ipc = "terminal"
  /\ \/ /\ journal' = [journal EXCEPT !.phase = "terminal", !.state = outcome]
        /\ Go("publish") /\ UNCHANGED faults
     \/ Fault("storage") /\ Conclude("repair_required", "publish")
        /\ UNCHANGED journal
  /\ UNCHANGED <<submitting, due, spoolVars, hostVars>> /\ InstallerStep

----------------------------------------------------------------------------
(* Recover: after a crash, from the digests and the service alone          *)

\* mutant: the build kept is not compared with the journal
RecoverAnyPrevious ==
  /\ ipc = "recover"
  /\ IF journal.state = "repair_required"
       THEN Conclude("repair_required", "publish") ELSE Go("recover_start")
  /\ UNCHANGED faults /\ DiskUntouched /\ InstallerStep
\* mutant: a journal that asks for a repair is recovered again
RecoverAgain ==
  /\ ipc = "recover"
  /\ IF previous = journal.old
       THEN Go("recover_start") ELSE Conclude("repair_required", "publish")
  /\ UNCHANGED faults /\ DiskUntouched /\ InstallerStep
\* nothing is guessed: one of two known builds, and the old one kept aside
Recover ==
  /\ ipc = "recover"
  /\ LET known == /\ journal.state # "repair_required"
                  /\ binary \in {journal.old, journal.new}
                  /\ \/ previous = journal.old
                     \/ journal.phase = "prepared" /\ binary = journal.old
     IN \/ /\ known /\ previous' = journal.old
           /\ Go("recover_start") /\ UNCHANGED faults
        \/ /\ ~known /\ UNCHANGED <<previous, faults>>
           /\ Conclude("repair_required", "publish")
        \/ /\ known /\ previous # journal.old /\ Fault("storage")
           /\ Conclude("repair_required", "publish") /\ UNCHANGED previous
  /\ UNCHANGED <<submitting, due, spoolVars, journal, binary, serving>>
  /\ InstallerStep

RecoverStart ==
  /\ ipc = "recover_start"
  /\ \/ serving # None /\ Go("recover_verify") /\ UNCHANGED <<serving, faults>>
     \/ serving = None /\ StartService("recover_verify", "undo")
  /\ UNCHANGED <<submitting, due, spoolVars, journal, binary, previous>>
  /\ InstallerStep

Recovered == IF journal.state # "none" THEN journal.state
             ELSE IF binary = journal.old \/ journal.action = "rollback"
             THEN "rolled_back" ELSE "success"

\* mutant: the digests alone are trusted
RecoverUnverified ==
  /\ ipc = "recover_verify" /\ Conclude(Recovered, "terminal")
  /\ UNCHANGED faults /\ DiskUntouched /\ InstallerStep
\* what is found running must pass the checks, or the old build goes back
RecoverVerify ==
  /\ ipc = "recover_verify"
  /\ \/ Verified /\ Conclude(Recovered, "terminal") /\ UNCHANGED faults
     \/ ~Verified /\ Go("undo") /\ UNCHANGED faults
     \/ Verified /\ Fault("health") /\ Go("undo")
  /\ DiskUntouched /\ InstallerStep

----------------------------------------------------------------------------
(* finishRequest                                                           *)

\* results are created exclusively: another state already there is left alone
Publish ==
  /\ ipc = "publish"
  /\ \/ /\ ~Published(run) /\ results' = [results EXCEPT ![run] = outcome]
        /\ Go("unlink") /\ UNCHANGED faults
     \/ /\ Published(run) /\ UNCHANGED <<results, faults>>
        /\ IF SameState(results[run], outcome) THEN Go("unlink") ELSE Exit
     \/ ~Published(run) /\ Fault("storage") /\ Exit /\ UNCHANGED results
  /\ UNCHANGED <<submitting, due, requests, staging, journal, hostVars>>
  /\ InstallerStep

Unlink == /\ ipc = "unlink"
          /\ requests' = requests \ {run} /\ due' = TRUE
          /\ Go(IF outcome = "repair_required" THEN "keep" ELSE "clean")
          /\ UNCHANGED <<submitting, staging, results, journal, hostVars, faults>>
          /\ InstallerStep

Clean == /\ ipc = "clean"
         /\ staging' = [staging EXCEPT ![run] = "none"] /\ Go("clear")
         /\ UNCHANGED <<submitting, due, requests, results, journal, hostVars,
                        faults>>
         /\ InstallerStep

ClearJournal == /\ ipc = "clear" /\ journal' = None /\ Exit
                /\ UNCHANGED <<submitting, due, spoolVars, hostVars, faults>>
                /\ InstallerStep

\* the marker is renamed so that it starts nothing any more
Keep == /\ ipc = "keep" /\ Exit
        /\ staging' = [staging EXCEPT ![run] =
                         IF Marked(run) THEN "consumed" ELSE @]
        /\ UNCHANGED <<submitting, due, requests, results, journal, hostVars,
                       faults>>
        /\ InstallerStep

----------------------------------------------------------------------------
(* What happens around it                                                  *)

InstallerCrash == /\ ipc # "idle" /\ Fault("installer_crash") /\ Exit
                  /\ DiskUntouched /\ InstallerStep

\* the host restarts: every process gets a new PID
Reboot == /\ Fault("reboot") /\ Exit
          /\ submitting' = None /\ due' = FALSE /\ fetching' = None
          /\ staging' = [r \in Runs |->
                IF r = fetching /\ asked[r].action = "apply"
                  THEN "partial" ELSE staging[r]]
          /\ serving' = binary /\ plane' = plane + 1
          /\ UNCHANGED <<lease, asked, requests, results, journal, binary,
                         previous>>

\* another service restarts, or an administrator changes a mode or an inbound
Drift == /\ Fault("drift") /\ plane' = plane + 1
         /\ UNCHANGED <<clientVars, fetchVars, spoolVars, journal, hostVars,
                        procVars>>

User == \E r \in Runs, request \in Request : SubmitLease(r, request)
Fetcher == FetchStart \/ FetchEnd
Switch == \/ Process \/ Backup \/ Stop \/ Checkpoint \/ Replace \/ Start
          \/ Verify \/ TerminalJournal
Restore == Undo \/ UndoReplace \/ UndoStart \/ UndoVerify \/ UndoFailed
Recovery == Recover \/ RecoverStart \/ RecoverVerify
Finish == Publish \/ Unlink \/ Clean \/ ClearJournal \/ Keep
Installer == Wake \/ Scan \/ Switch \/ Restore \/ Recovery \/ Finish
Faults == SubmitCrash \/ FetchCrash \/ InstallerCrash \/ Reboot \/ Drift

Next == User \/ SubmitRequest \/ Fetcher \/ Installer \/ Faults

Spec == Init /\ [][Next]_vars

\* the Gateway finishes what it was asked; systemd starts both services when
\* their path units fire.  Users and faults are free.
Fairness == /\ WF_vars(SubmitRequest)
            /\ WF_vars(Fetcher)
            /\ WF_vars(Installer)
FairSpec == Spec /\ Fairness

----------------------------------------------------------------------------
(* Properties                                                              *)

\* Every variable keeps its shape.
UTypeOK == /\ lease \in Runs \cup {None} /\ submitting \in Runs \cup {None}
           /\ asked \in [Runs -> Request \cup {NotAsked}]
           /\ requests \subseteq Runs
           /\ due \in BOOLEAN /\ fetching \in Runs \cup {None}
           /\ staging \in [Runs -> Stagings]
           /\ results \in [Runs -> Outcomes]
           /\ journal \in Journals \cup {None}
           /\ binary \in Builds /\ previous \in Builds \cup {None}
           /\ serving \in Builds \cup {None}
           /\ plane \in Nat
           /\ run \in Runs \cup {None} /\ outcome \in Outcomes
           /\ faults \in 0..MaxFaults

\* Between runs the service runs the installed build and that build is good:
\* no interruption, failed restart or failed recovery ends in a host whose
\* Gateway is down or broken and which no journal accounts for.
SettledServes == ipc = "idle" /\ journal = None
                 => serving = binary /\ binary \in Good

\* As long as a switch is accounted for, the good build it started from is on
\* disk, installed or kept aside, wherever the installer dies.
OldBuildKept == journal # None => /\ journal.old \in {binary, previous}
                                  /\ journal.old \in Good

\* The installer works for the run of the active journal and for no other.
JournalIsOwned == journal # None /\ run # None => journal.run = run

\* Once the journal asks for a repair the automation stops: no later start of
\* the installer, in whatever order it crashes and retries, replaces either build.
RepairStops ==
  [][journal # None /\ journal.state = "repair_required"
     => UNCHANGED <<binary, previous>>]_vars

\* Every accepted run gets a result, so that the lease can pass on.
RunsEnd == \A r \in Runs : lease = r ~> Published(r) \/ lease # r

----------------------------------------------------------------------------
(* The inductive invariant behind them                                     *)

\* where the installer works under the journal, and where it has none
Switching == {"backup", "stop", "stopped", "replace", "switched", "start",
              "started", "verify", "verified"}
Restoring == {"undo", "undo_replace", "undo_start", "undo_verify",
              "undo_failed"}
Recovering == {"recover_start", "recover_verify"}
Finishing == {"publish", "unlink", "clean", "clear", "keep"}

\* A journal is open whenever the host is being changed, none before.
Journaled == /\ ipc \in Switching \cup Restoring \cup Recovering
                         \cup {"recover", "terminal"} => journal # None
             /\ ipc = "process" => journal = None

\* The service runs the installed build or is down, down while it is replaced.
Hosted == /\ serving \in {None, binary}
          /\ ipc \in {"stopped", "replace", "undo_replace"} => serving = None

\* Without a journal the service is up; with one, it is up before a result
\* that lets the journal go.
Quiet == journal = None => serving = binary /\ binary \in Good
Concluded == /\ \/ ipc = "verified"
                \/ /\ ipc \in {"terminal"} \cup Finishing
                   /\ outcome # "repair_required"
                => serving = binary /\ binary \in Good
             /\ ipc \in {"clean", "clear"} => outcome # "repair_required"

\* The build kept is the journal's from the backup on.
Kept == /\ ipc = "backup" => binary = journal.old
        /\ ipc \in (Switching \ {"backup"}) \cup Restoring \cup Recovering
           => previous = journal.old

\* After a repair was asked for, only the result is still looked after.
Frozen == journal # None /\ journal.state = "repair_required"
          => ipc \in {"idle", "scan", "recover"} \cup Finishing

\* A request file, and the run in hand, are of something that was asked.
Requested == /\ submitting # None => asked[submitting] \in Request
             /\ \A r \in requests : asked[r] \in Request
             /\ ipc = "process" => run \in Runs /\ asked[run] \in Request

\* All of it, inductive.
UInv == /\ UTypeOK /\ Requested /\ Journaled /\ Hosted /\ Quiet /\ Concluded /\ Kept
        /\ Frozen /\ OldBuildKept /\ JournalIsOwned
============================================================================
