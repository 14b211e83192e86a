---------------------------- MODULE ProjectUpdate ---------------------------
(***************************************************************************)
(* The update of the whole installation (deploy/vps/project_update.py and  *)
(* project_update_boot.py).  The Gateway leaves a request under a lease,   *)
(* an unprivileged fetcher stages a signed release, and a root oneshot on  *)
(* a timer takes a snapshot, replaces every program, restarts the services *)
(* and either publishes the new version or restores the snapshot.  The     *)
(* oneshot is a fixed boot program which runs the update engine named by a *)
(* pointer and falls back to the previous engine when it exits badly.      *)
(*                                                                         *)
(* A file is the release it comes from.  The databases are the schema they *)
(* were migrated to and the identities (inbounds, ports, subscriptions)    *)
(* they hold, a counter that moves when the administrator changes one.     *)
(***************************************************************************)
EXTENDS Naturals, FiniteSets

CONSTANTS Runs,        \* run identifiers
          Releases,    \* versions published with a signed manifest
          MinEngine,   \* updater.minVersion in the manifest of a release
          Ships,       \* version of the engine among the assets of a release
          Engines,     \* versions of update engines
          NFiles,      \* files of install_plan, the last one is config.json
          None,
          FaultKinds,  \* subset of {"fail", "kill", "die", "power"}
          MaxFaults,   \* bound: faults in a behaviour
          MaxChanges   \* bound: changes of identities

ASSUME UpdateAssumption ==
  /\ None \notin Runs /\ None \notin Engines
  /\ Releases \subseteq Nat /\ Engines \subseteq Nat
  /\ \E v \in Releases : \A w \in Releases : w <= v   \* there is a newest one
  /\ MinEngine \in [Releases -> Engines]
  /\ Ships \in [Releases -> Engines]
  /\ NFiles \in Nat \ {0}
  /\ MaxFaults \in Nat /\ MaxChanges \in Nat

VARIABLES
  lease,     \* the run .update.lease names
  asked,     \* requests/<run>.json
  ready,     \* staging/<run>/ready.json
  results,   \* results/<run>.json
  catalog,   \* catalog.json: the versions offered as compatible
  current,   \* current.json: the installed version
  files,     \* the installed programs and config.json
  db,        \* the two databases
  running,   \* the services are up
  journal,   \* active.json
  pointer,   \* update-engines/current.json
  broken,    \* engines that exit with an error whatever they are asked
  pc,        \* where the install worker is
  run,       \* the run it works on
  at,        \* the next file it copies
  faults     \* faults so far

hostVars == <<files, current, db, running>>
workVars == <<pc, run, at>>
vars == <<lease, asked, ready, results, catalog, hostVars, journal, pointer,
          broken, workVars, faults>>
-----------------------------------------------------------------------------
Versions == Releases \union {0}          \* 0: the version installed before
Files == 1..NFiles
DbAt == NFiles + 1                       \* entries of the journal after the
CurrentAt == NFiles + 2                  \* files, in the order of the restore
Dbs == [schema : Versions, ids : 0..MaxChanges]
Requests == {[action |-> "check", version |-> 0]}
            \union [action : {"apply"}, version : Releases]
NotAsked == [action |-> "none", version |-> 0]
States == {"none", "success", "rolled_back", "failed", "repair_required"}
Terminal(r) == results[r] # "none"
Snapshots == [files : [Files -> Versions], db : Dbs, current : Versions]
NoSnapshot == [files |-> [f \in Files |-> 0], db |-> [schema |-> 0, ids |-> 0],
               current |-> 0]
Journals == [run : Runs, phase : {"stopping", "installing"},
             ids : 0..MaxChanges, saved : Snapshots]
ASSUME NoneAssumption == None \notin Journals

Applying == {"stop", "backup", "copy", "start", "check", "current", "finish"}
Undoing == {"resume", "undo_stop", "undo", "undo_start", "undo_check"}
Pcs == {"idle", "main", "unlink", "rolled_back"} \union Applying \union Undoing

Latest == CHOOSE v \in Releases : \A w \in Releases : w <= v
is_newer(v) == v > current
Open == {r \in Runs : asked[r] # NotAsked /\ ~Terminal(r)}

Fault(kind) == kind \in FaultKinds /\ faults < MaxFaults /\ faults' = faults + 1
Finish(r, s) == results' = [results EXCEPT ![r] = s]
Goto(p) == pc' = p /\ UNCHANGED <<run, at>>
Exit == pc' = "idle" /\ run' = None /\ at' = 1

(* The services come up with the programs on disk; the Gateway migrates    *)
(* its database.                                                           *)
Start == /\ running' = TRUE
         /\ db' = [db EXCEPT !.schema = IF files[1] > @ THEN files[1] ELSE @]
Stop == running' = FALSE /\ UNCHANGED db
-----------------------------------------------------------------------------
Init == /\ lease = None /\ asked = [r \in Runs |-> NotAsked]
        /\ ready = [r \in Runs |-> "none"] /\ results = [r \in Runs |-> "none"]
        /\ catalog = {} /\ current = 0
        /\ files = [f \in Files |-> 0] /\ db = [schema |-> 0, ids |-> 0]
        /\ running = TRUE /\ journal = None
        /\ \E e \in Engines :
             /\ pointer = [current |-> e, previous |-> None, failed |-> None]
             /\ broken \in SUBSET (Engines \ {e})
        /\ pc = "idle" /\ run = None /\ at = 1 /\ faults = 0
-----------------------------------------------------------------------------
(* The Gateway and its administrator. *)

(* A lease is given up for another run once its result is terminal and     *)
(* needs no repair; only an offered version can be applied.                *)
Submit(r, request) ==
  /\ running
  /\ asked[r] = NotAsked
  /\ lease # None => Terminal(lease) /\ results[lease] # "repair_required"
  /\ request.action = "apply" => request.version \in catalog
  /\ lease' = r
  /\ asked' = [asked EXCEPT ![r] = request]
  /\ UNCHANGED <<ready, results, catalog, hostVars, journal, pointer, broken,
                 workVars, faults>>

(* A proxy group is created or removed, an inbound changes.                *)
Change ==
  /\ running
  /\ db.ids < MaxChanges
  /\ db' = [db EXCEPT !.ids = @ + 1]
  /\ UNCHANGED <<lease, asked, ready, results, catalog, files, current,
                 running, journal, pointer, broken, workVars, faults>>

\* the network, the size, a digest or the signature
download_failed == Fault("fail")

(* The fetch worker serves the first open request; what it downloads is    *)
(* the requested release or the newest one, or it leaves an error.         *)
fetch(r) ==
  /\ r \in Open /\ ready[r] = "none"
  /\ \/ ready' = [ready EXCEPT ![r] = "ok"] /\ UNCHANGED faults
     \/ download_failed /\ ready' = [ready EXCEPT ![r] = "error"]
  /\ UNCHANGED <<lease, asked, results, catalog, hostVars, journal, pointer,
                 broken, workVars>>
-----------------------------------------------------------------------------
(* The boot program: pointer, fallback and what it records. *)

Quiet == UNCHANGED <<lease, asked, ready, catalog, broken>>

(* The run of the lease gets a result, unless it has one.                  *)
record_failure ==
  IF lease = None \/ (lease # None /\ Terminal(lease)) THEN UNCHANGED results
  ELSE Finish(lease, IF journal # None THEN "repair_required" ELSE "failed")

\* mutant: the previous engine is not compared with failedHash
fall_back_swap ==
  pointer' = IF pointer.previous = None THEN pointer
             ELSE [current |-> pointer.previous, previous |-> pointer.current,
                   failed |-> pointer.current]

(* An engine exited badly: the previous one takes its place, except when   *)
(* that one is known to have failed too.                                   *)
fall_back ==
  pointer' = IF pointer.previous \in {None, pointer.failed} THEN pointer
             ELSE [current |-> pointer.previous, previous |-> pointer.current,
                   failed |-> pointer.current]

(* The timer fires.  A broken engine never reaches the transaction.        *)
boot_main ==
  /\ pc = "idle"
  /\ IF pointer.current \in broken
     THEN fall_back /\ record_failure /\ UNCHANGED workVars
     ELSE pc' = "main" /\ UNCHANGED <<run, at, pointer, results>>
  /\ UNCHANGED <<hostVars, journal, faults>> /\ Quiet
-----------------------------------------------------------------------------
(* main of the engine: recovery first, then the first open request.        *)

\* mutant: a transaction that has installed nothing is left alone
recover_installed ==
  /\ journal # None
  /\ CASE results[journal.run] = "repair_required" \/ journal.phase = "stopping" ->
            Exit /\ UNCHANGED journal
       [] results[journal.run] \notin {"none", "repair_required"} ->
            Exit /\ journal' = None
       [] OTHER -> /\ run' = journal.run /\ at' = 1 /\ UNCHANGED journal
                   /\ pc' = "undo_stop"

(* A published result closes the transaction, a repair_required one keeps  *)
(* it; without a result the transaction is undone.                         *)
recover ==
  /\ journal # None
  /\ CASE results[journal.run] = "repair_required" ->
            Exit /\ UNCHANGED journal
       [] results[journal.run] \notin {"none", "repair_required"} ->
            Exit /\ journal' = None
       [] OTHER -> /\ run' = journal.run /\ at' = 1 /\ UNCHANGED journal
                   /\ pc' = IF journal.phase = "installing" THEN "undo_stop"
                            ELSE "resume"

main_recover ==
  /\ pc = "main"
  /\ recover
  /\ UNCHANGED <<results, hostVars, pointer, faults>> /\ Quiet

promote_engine(v) ==
  /\ Ships[v] # pointer.failed
  /\ IF Ships[v] = pointer.current THEN UNCHANGED pointer
     ELSE pointer' = [current |-> Ships[v], previous |-> pointer.current,
                      failed |-> None]

(* The facts of the host (space, services, schema, platform) may block a   *)
(* release whatever its manifest says, which is a fault here; an engine    *)
(* that is too old may be replaced by the one the release ships.           *)
too_old(v) == pointer.current < MinEngine[v]
upgradable(v) == too_old(v) /\ Ships[v] >= MinEngine[v]
assess_compatibility(v) == ~too_old(v) \/ upgradable(v)

Tag(r) == IF asked[r].action = "check" THEN Latest ELSE asked[r].version

install_check(r) ==
  /\ asked[r].action = "check"
  /\ catalog' = {v \in {Latest} : is_newer(v) /\ assess_compatibility(v)}
  /\ Finish(r, "success") /\ Exit
  /\ UNCHANGED <<journal, pointer>>

install_again(r) ==
  /\ asked[r].action = "apply" /\ Tag(r) = current
  /\ Finish(r, "success") /\ Exit
  /\ UNCHANGED <<catalog, journal, pointer>>

(* The request stays open: the promoted engine takes it up at the next     *)
(* timer.                                                                  *)
install_promote(r) ==
  /\ asked[r].action = "apply" /\ is_newer(Tag(r)) /\ upgradable(Tag(r))
  /\ promote_engine(Tag(r)) /\ Exit
  /\ UNCHANGED <<catalog, journal, results>>

(* apply, up to its journal: the identities are read before the services   *)
(* are stopped.                                                            *)
install_apply(r) ==
  /\ asked[r].action = "apply" /\ is_newer(Tag(r)) /\ ~too_old(Tag(r))
  /\ journal' = [run |-> r, phase |-> "stopping", ids |-> db.ids,
                 saved |-> NoSnapshot]
  /\ pc' = "stop" /\ run' = r /\ at' = 1
  /\ UNCHANGED <<catalog, pointer, results>>

(* Everything that raises before the journal is written. *)
fetch_error(r) == ready[r] = "error" /\ UNCHANGED faults
not_applicable(r) ==
  /\ asked[r].action = "apply" /\ Tag(r) # current
  /\ \/ ~is_newer(Tag(r)) \/ ~assess_compatibility(Tag(r))
     \/ upgradable(Tag(r)) /\ Ships[Tag(r)] = pointer.failed
  /\ UNCHANGED faults
\* the signature or a field of the manifest is wrong
verify_manifest == Fault("fail")
\* an asset is too large or not the one of the manifest
copy_untrusted == Fault("fail")
\* too little space, a service that is down, a damaged or newer database
current_facts == Fault("fail")
\* another layout of the installation, a service that is not active
check_layout == Fault("fail")
\* an archive that does not unpack to the planned files
extract_package == Fault("fail")

refused(r) == \/ fetch_error(r) \/ not_applicable(r) \/ verify_manifest
              \/ /\ asked[r].action = "apply"
                 /\ copy_untrusted \/ current_facts \/ check_layout \/ extract_package

install_refused(r) ==
  /\ refused(r)
  /\ Finish(r, "failed") /\ Exit
  /\ UNCHANGED <<catalog, journal, pointer>>

main_install ==
  /\ pc = "main" /\ journal = None
  /\ \/ Open = {} /\ Exit /\ UNCHANGED <<catalog, journal, pointer, results, faults>>
     \/ \E r \in Open :
          \/ /\ ready[r] = "none" /\ Exit
             /\ UNCHANGED <<catalog, journal, pointer, results, faults>>
          \/ /\ ready[r] = "ok" /\ UNCHANGED faults
             /\ \/ install_check(r) \/ install_again(r)
                \/ install_promote(r) \/ install_apply(r)
          \/ ready[r] # "none" /\ install_refused(r)
  /\ UNCHANGED <<lease, asked, ready, hostVars, broken>>
-----------------------------------------------------------------------------
(* apply, step by step. *)

Working(p) == pc = p /\ Quiet /\ UNCHANGED pointer

apply_stop ==
  /\ Working("stop") /\ Stop /\ Goto("backup")
  /\ UNCHANGED <<results, files, current, journal, faults>>

(* The copies of all the files and databases, then the journal's phase.    *)
apply_backup ==
  /\ Working("backup")
  /\ journal' = [journal EXCEPT !.phase = "installing",
                   !.saved = [files |-> files, db |-> db, current |-> current]]
  /\ Goto("copy")
  /\ UNCHANGED <<results, hostVars, faults>>

apply_copy ==
  /\ Working("copy")
  /\ files' = [files EXCEPT ![at] = asked[run].version]
  /\ UNCHANGED run
  /\ IF at < NFiles THEN at' = at + 1 /\ UNCHANGED pc
     ELSE at' = 1 /\ pc' = "start"
  /\ UNCHANGED <<results, current, db, running, journal, faults>>

(* start_services and wait_health, which may raise for two minutes' worth  *)
(* of reasons: apply_error.                                                *)
apply_start ==
  /\ Working("start") /\ Start /\ Goto("check")
  /\ UNCHANGED <<results, files, current, journal, faults>>

apply_check ==
  /\ Working("check")
  /\ Goto(IF db.ids = journal.ids THEN "current" ELSE "undo_stop")
  /\ UNCHANGED <<results, hostVars, journal, faults>>

apply_current ==
  /\ Working("current")
  /\ current' = asked[run].version
  /\ Goto("finish")
  /\ UNCHANGED <<results, files, db, running, journal, faults>>

apply_finish ==
  /\ Working("finish") /\ Finish(run, "success") /\ Goto("unlink")
  /\ UNCHANGED <<hostVars, journal, faults>>

unlink ==
  /\ Working("unlink") /\ journal' = None /\ Exit
  /\ UNCHANGED <<results, hostVars, faults>>

\* mutant: the services are started again over what was installed
apply_error_restart ==
  /\ pc \in Applying /\ Fault("fail")
  /\ pc' = "resume" /\ at' = 1 /\ UNCHANGED run
  /\ UNCHANGED <<results, hostVars, journal, pointer>> /\ Quiet

(* A step of apply raises: what was installed is undone, or the services   *)
(* are only started again.                                                 *)
apply_error ==
  /\ pc \in Applying /\ Fault("fail")
  /\ pc' = IF journal.phase = "installing" THEN "undo_stop" ELSE "resume"
  /\ at' = 1 /\ UNCHANGED run
  /\ UNCHANGED <<results, hostVars, journal, pointer>> /\ Quiet
-----------------------------------------------------------------------------
(* rollback, and what main and apply do around it. *)

resume ==
  /\ Working("resume") /\ Start /\ Goto("rolled_back")
  /\ UNCHANGED <<results, files, current, journal, faults>>

rollback_stop ==
  /\ Working("undo_stop") /\ Stop /\ Goto("undo")
  /\ UNCHANGED <<results, files, current, journal, faults>>

\* mutant: one entry too many
rollback_copy_past ==
  /\ Working("undo") /\ UNCHANGED run
  /\ files' = IF at \in Files THEN [files EXCEPT ![at] = journal.saved.files[at]]
              ELSE files
  /\ db' = IF at = DbAt THEN journal.saved.db ELSE db
  /\ current' = IF at = CurrentAt THEN journal.saved.current ELSE current
  /\ IF at <= CurrentAt THEN at' = at + 1 /\ UNCHANGED pc
     ELSE at' = 1 /\ pc' = "undo_start"
  /\ UNCHANGED <<results, running, journal, faults>>

\* mutant: current.json is not among the entries
rollback_copy_programs ==
  /\ Working("undo") /\ UNCHANGED <<run, current>>
  /\ files' = IF at \in Files THEN [files EXCEPT ![at] = journal.saved.files[at]]
              ELSE files
  /\ db' = IF at = DbAt THEN journal.saved.db ELSE db
  /\ IF at < CurrentAt THEN at' = at + 1 /\ UNCHANGED pc
     ELSE at' = 1 /\ pc' = "undo_start"
  /\ UNCHANGED <<results, running, journal, faults>>

rollback_copy ==
  /\ Working("undo") /\ UNCHANGED run
  /\ files' = IF at \in Files THEN [files EXCEPT ![at] = journal.saved.files[at]]
              ELSE files
  /\ db' = IF at = DbAt THEN journal.saved.db ELSE db
  /\ current' = IF at = CurrentAt THEN journal.saved.current ELSE current
  /\ IF at < CurrentAt THEN at' = at + 1 /\ UNCHANGED pc
     ELSE at' = 1 /\ pc' = "undo_start"
  /\ UNCHANGED <<results, running, journal, faults>>

rollback_start ==
  /\ Working("undo_start") /\ Start /\ Goto("undo_check")
  /\ UNCHANGED <<results, files, current, journal, faults>>

rollback_check ==
  /\ Working("undo_check")
  /\ IF db.ids = journal.ids THEN Goto("rolled_back") /\ UNCHANGED results
     ELSE Finish(run, "repair_required") /\ Exit
  /\ UNCHANGED <<hostVars, journal, faults>>

rolled_back ==
  /\ Working("rolled_back") /\ Finish(run, "rolled_back") /\ Goto("unlink")
  /\ UNCHANGED <<hostVars, journal, faults>>

(* A step of the rollback raises; the journal stays and no other           *)
(* transaction starts.                                                     *)
rollback_error ==
  /\ pc \in Undoing /\ Fault("fail")
  /\ Finish(run, "repair_required") /\ Exit
  /\ UNCHANGED <<hostVars, journal, pointer>> /\ Quiet
-----------------------------------------------------------------------------
(* Faults of the host. *)

(* systemd ends the unit, engine and boot program, at its time limit.      *)
Kill ==
  /\ pc # "idle" /\ Fault("kill") /\ Exit
  /\ UNCHANGED <<results, hostVars, journal, pointer>> /\ Quiet

(* The engine alone dies; the boot program falls back and records it.      *)
Die ==
  /\ pc # "idle" /\ Fault("die") /\ Exit
  /\ fall_back /\ record_failure
  /\ UNCHANGED <<hostVars, journal>> /\ Quiet

(* Power is lost: the services come up again with what is on the disk.     *)
Power ==
  /\ pc # "idle" /\ Fault("power") /\ Exit
  /\ Start
  /\ UNCHANGED <<results, files, current, journal, pointer>> /\ Quiet
-----------------------------------------------------------------------------
Apply == \/ apply_stop \/ apply_backup \/ apply_copy \/ apply_start
         \/ apply_check \/ apply_current \/ apply_finish \/ unlink
Rollback == \/ resume \/ rollback_stop \/ rollback_copy \/ rollback_start
            \/ rollback_check \/ rolled_back
Worker == boot_main \/ main_recover \/ main_install \/ Apply \/ Rollback

Next == \/ \E r \in Runs, q \in Requests : Submit(r, q)
        \/ Change
        \/ \E r \in Runs : fetch(r)
        \/ Worker
        \/ apply_error \/ rollback_error \/ Kill \/ Die \/ Power

Spec == Init /\ [][Next]_vars
(* Both workers are on timers (OnUnitInactiveSec=5s). *)
FairSpec == Spec /\ WF_vars(Worker) /\ \A r \in Runs : WF_vars(fetch(r))
-----------------------------------------------------------------------------
(* Every variable has its shape.                                           *)
PTypeOK ==
  /\ lease \in Runs \union {None}
  /\ asked \in [Runs -> Requests \union {NotAsked}]
  /\ ready \in [Runs -> {"none", "ok", "error"}]
  /\ results \in [Runs -> States]
  /\ catalog \subseteq Releases /\ current \in Versions
  /\ files \in [Files -> Versions] /\ db \in Dbs /\ running \in BOOLEAN
  /\ journal \in Journals \union {None}
  /\ pointer \in [current : Engines, previous : Engines \union {None},
                  failed : Engines \union {None}]
  /\ broken \subseteq Engines
  /\ pc \in Pcs /\ run \in Runs \union {None} /\ at \in 1..CurrentAt
  /\ faults \in 0..MaxFaults

Whole(v) == files = [f \in Files |-> v] /\ current = v
Served == Whole(current) /\ db.schema <= current /\ running

(* Without a transaction the host runs one release: every program, the     *)
(* configuration and current.json are of it, its database is not newer     *)
(* and the services are up.  A crash, an exception and a restore at any    *)
(* step leave either this or a journal.                                    *)
HostIsWhole == journal = None => Served

(* A closed transaction, whose journal is only left over, is served too.   *)
ClosedIsServed ==
  journal # None /\ Terminal(journal.run)
    /\ results[journal.run] # "repair_required" => Served

(* The worker holds the journal of its own run, and publishes a result     *)
(* last.                                                                   *)
Busy == Applying \union Undoing \union {"rolled_back"}
Holder ==
  /\ pc \in Busy => journal # None /\ run = journal.run /\ ~Terminal(run)
  /\ pc = "unlink" => /\ journal # None /\ run = journal.run
                      /\ Terminal(run) /\ results[run] # "repair_required"
  /\ pc \in {"stop", "backup", "resume"} => journal.phase = "stopping"
  /\ pc \in {"copy", "start", "check", "current", "finish"}
            \union (Undoing \ {"resume"}) => journal.phase = "installing"

(* Until the snapshot is complete nothing is changed; then it is the old   *)
(* release, in all its parts.                                              *)
Old == journal.saved.current
New == asked[journal.run].version
Saved ==
  /\ journal # None => asked[journal.run].action = "apply"
  /\ journal # None /\ journal.phase = "stopping" =>
       Whole(current) /\ db.schema <= current /\ current < New
  /\ journal # None /\ journal.phase = "installing" =>
       /\ journal.saved.files = [f \in Files |-> Old]
       /\ journal.saved.db.schema <= Old
       /\ Old < New

(* How far the copy and the restore have come.                             *)
AtFirst == pc \notin {"copy", "undo"} => at = 1
Copied ==
  /\ pc = "copy" => /\ \A f \in Files : f < at => files[f] = New
                    /\ db.schema <= New
  /\ pc \in {"start", "check", "current", "finish"} =>
       files = [f \in Files |-> New] /\ db.schema <= New
  /\ pc \in {"check", "current", "finish"} => running
  /\ pc = "finish" => current = New
Restored ==
  /\ pc = "undo" => /\ \A f \in Files : f < at => files[f] = Old
                    /\ at > DbAt => db.schema <= Old
  /\ pc \in {"undo_start", "undo_check"} => Whole(Old) /\ db.schema <= Old
  /\ pc = "undo_check" => running
  /\ pc = "rolled_back" => Served /\ current < New

(* The engine that runs is neither the one to fall back to nor the one     *)
(* that failed.                                                            *)
PointerInv == pointer.current \notin {pointer.previous, pointer.failed}

PInv == /\ HostIsWhole /\ ClosedIsServed /\ Holder /\ Saved
        /\ AtFirst /\ Copied /\ Restored /\ PointerInv

(* A terminal result tells what the host runs at that moment: success the  *)
(* requested release, rolled_back the one before it, in all its files.     *)
OutcomeIsServed ==
  [][\A r \in Runs : asked[r].action = "apply" /\ results'[r] # results[r] =>
       /\ results'[r] = "success" => Whole(asked[r].version)' /\ running'
       /\ results'[r] = "rolled_back" =>
            Whole(current)' /\ current' < asked[r].version /\ running'
     ]_vars

(* The engine that failed is not run again until another one was promoted: *)
(* neither the fallback of the boot program nor the release that ships it  *)
(* brings it back.                                                         *)
FailedEngineStaysOut ==
  [][pointer.failed # None => pointer'.current # pointer.failed]_vars

(* Every request gets a result, whatever the fetcher, the engine and the   *)
(* host do a bounded number of times.                                      *)
RunsEnd == \A r \in Runs : (asked[r] # NotAsked) ~> Terminal(r)
=============================================================================
