---------------------------- MODULE ProtocolTxn ----------------------------
(***************************************************************************)
(* scripts/aimili_xui_protocol_transaction.py: the root helper that swaps  *)
(* the public protocol of one logical egress in the running Xray and in    *)
(* the 3x-ui database, under a snapshot directory per operation.           *)
(*                                                                         *)
(* One egress is modelled: operations on different egresses touch other    *)
(* rows and tags.  An inbound is abstracted to its protocol mode, a        *)
(* snapshot to its phase, the two modes it remembers and whether its       *)
(* 180 s lease is still fresh.  The helper is one oneshot process at a     *)
(* time (systemd), so it is a program counter; a crash may happen between  *)
(* any two of its steps and keeps what is on disk.                         *)
(***************************************************************************)
EXTENDS Naturals

CONSTANTS Ops,          \* operation identifiers (random, hence any order)
          Rank,         \* their order as spool file names
          Modes,        \* public protocol modes
          VisionModes,  \* modes whose clients carry flow xtls-rprx-vision
          Absent,       \* the tag is not listed by Xray
          None,         \* no mode recorded
          FaultKinds,   \* the faults the environment may inject
          MaxFaults     \* how many of them in a behaviour

ASSUME OpsAssumption == Rank \in [Ops -> Nat] /\ None \notin Ops
ASSUME ModesAssumption == /\ VisionModes \subseteq Modes
                          /\ Absent \notin Modes
                          /\ None \notin Modes
ASSUME FaultAssumption == MaxFaults \in Nat

VARIABLES live,      \* mode of the inbound Xray serves, or Absent
          row,       \* mode of the inbound row in the 3x-ui database
          snap,      \* per operation: its snapshot directory
          leftover,  \* per operation: rollback-inbound.json exists
          asked,     \* per operation: the modes its apply request names
          requests,  \* request files in the spool
          results,   \* per operation and action: the published result
          hpc,       \* where the helper process is
          job,       \* the request or expired snapshot it works on
          verdict,   \* status it is about to publish
          batch,     \* files of its directory listing still to process
          faults,    \* faults injected so far
          raced      \* history: x-ui restarted in the middle of a rollback

diskVars == <<live, row, snap, leftover>>
spoolVars == <<asked, requests, results, raced>>
procVars == <<hpc, job, verdict, batch>>
vars == <<diskVars, spoolVars, procVars, faults>>

----------------------------------------------------------------------------
(* Files, snapshots and verdicts                                           *)

Acts == {"apply", "finalize", "renew", "rollback"}
ActRank == [apply |-> 1, finalize |-> 2, renew |-> 3, rollback |-> 4,
            recover |-> 5]
Jobs == [op : Ops, act : Acts \cup {"recover"}]
NoJob == [op |-> None, act |-> "none"]

\* phases of snapshot.json; "none" is no directory, "dir" one without the file
WorkingPhases == {"snapshot", "runtime_remove_pending", "runtime_add_pending",
                  "database_pending", "database_committed", "applied"}
RestorePhases == WorkingPhases \cup {"repair_required"}
Tombstones == {"finalized", "rolled_back"}
Phases == {"none", "dir"} \cup RestorePhases \cup Tombstones

Verdicts == {"none", "applied", "renewed", "finalized", "rolled_back",
             "failed", "not_applied", "already_finalized"}

Snap(phase, old, new, fresh) ==
  [phase |-> phase, old |-> old, new |-> new, fresh |-> fresh]
Bare(phase) == Snap(phase, None, None, FALSE)
NotAsked == [old |-> None, new |-> None]

HasSnapshot(op) == snap[op].phase \notin {"none", "dir"}

\* mutant: the listing is processed in any order
PrecedesAny(r, s) == TRUE
\* sorted(glob("*.json")): by operation id, then by action name
Precedes(r, s) == \/ Rank[r.op] < Rank[s.op]
                  \/ /\ Rank[r.op] = Rank[s.op]
                     /\ ActRank[r.act] <= ActRank[s.act]
First(r, files) == r \in files /\ \A s \in files : Precedes(r, s)

Flow(mode) == mode \in VisionModes

Fault(kind) == /\ kind \in FaultKinds
               /\ faults < MaxFaults
               /\ faults' = faults + 1

At(pc) == hpc = pc /\ job.op \in Ops
Goto(pc) == hpc' = pc /\ UNCHANGED <<job, verdict, batch>>
Say(v) == hpc' = "publish" /\ verdict' = v /\ UNCHANGED <<job, batch>>
Phase(phase) == snap' = [snap EXCEPT ![job.op].phase = phase]

----------------------------------------------------------------------------
Init == /\ row \in Modes /\ live = row
        /\ snap = [op \in Ops |-> Bare("none")]
        /\ leftover = [op \in Ops |-> FALSE]
        /\ asked = [op \in Ops |-> NotAsked]
        /\ requests = {}
        /\ results = [op \in Ops |-> [act \in Acts |-> "none"]]
        /\ hpc = "idle" /\ job = NoJob /\ verdict = "none" /\ batch = {}
        /\ faults = 0 /\ raced = FALSE

----------------------------------------------------------------------------
(* The Gateway's side of the spool                                         *)

\* Client.execute: create the request file, or keep the identical one
Publish(op, act) == requests' = requests \cup {[op |-> op, act |-> act]}

SubmitApply(op, old, new) ==
  /\ asked[op] = NotAsked
  /\ [op |-> op, act |-> "rollback"] \notin requests
  /\ results[op]["rollback"] = "none"
  /\ old # new
  /\ asked' = [asked EXCEPT ![op] = [old |-> old, new |-> new]]
  /\ Publish(op, "apply")
  /\ UNCHANGED <<diskVars, results, procVars, faults, raced>>

\* the Gateway has just driven traffic through the new mode; timing: it renews
\* every 60 s until it finalizes, so the 180 s lease is still fresh
SubmitFinalize(op) ==
  /\ results[op]["apply"] = "applied"
  /\ live = asked[op].new /\ row = asked[op].new
  /\ snap[op].fresh
  /\ results[op]["rollback"] = "none"
  /\ [op |-> op, act |-> "rollback"] \notin requests
  /\ Publish(op, "finalize")
  /\ UNCHANGED <<diskVars, asked, results, procVars, faults, raced>>

\* a new heartbeat: results for an older one no longer answer it
SubmitRenew(op) ==
  /\ results[op]["apply"] = "applied"
  /\ [op |-> op, act |-> "renew"] \notin requests
  /\ Publish(op, "renew")
  /\ results' = [results EXCEPT ![op]["renew"] = "none"]
  /\ UNCHANGED <<diskVars, asked, procVars, faults, raced>>

SubmitRollback(op) ==
  /\ Publish(op, "rollback")
  /\ UNCHANGED <<diskVars, asked, results, procVars, faults, raced>>

----------------------------------------------------------------------------
(* process_spool_cycle: the listed requests in order, then recovery        *)

Expired(op) == snap[op].phase \in WorkingPhases /\ ~snap[op].fresh

\* the .path unit fires on a request file, the .timer unit every minute
Wake == /\ hpc = "idle"
        /\ requests # {} \/ \E op \in Ops : Expired(op)
        /\ hpc' = "spool" /\ batch' = requests
        /\ UNCHANGED <<job, verdict, diskVars, spoolVars, faults>>

Take == /\ hpc = "spool"
        /\ \E r \in batch : /\ First(r, batch)
                            /\ job' = r /\ hpc' = r.act
                            /\ batch' = batch \ {r}
        /\ UNCHANGED <<verdict, diskVars, spoolVars, faults>>

\* mutant: recovery forgets to look at the lease
SweepIgnoringLease ==
  /\ hpc = "spool" /\ batch = {}
  /\ hpc' = "sweep"
  /\ batch' = {[op |-> op, act |-> "recover"] :
                 op \in {o \in Ops : snap[o].phase \in WorkingPhases}}
  /\ UNCHANGED <<job, verdict, diskVars, spoolVars, faults>>
\* mutant: only operations that reached "applied" are recovered
SweepApplied ==
  /\ hpc = "spool" /\ batch = {}
  /\ hpc' = "sweep"
  /\ batch' = {[op |-> op, act |-> "recover"] :
                 op \in {o \in Ops : Expired(o) /\ snap[o].phase = "applied"}}
  /\ UNCHANGED <<job, verdict, diskVars, spoolVars, faults>>
\* mutant: recovery does not skip the tombstones
SweepTombstones ==
  /\ hpc = "spool" /\ batch = {}
  /\ hpc' = "sweep"
  /\ batch' = {[op |-> op, act |-> "recover"] :
                 op \in {o \in Ops : HasSnapshot(o) /\ ~snap[o].fresh}}
  /\ UNCHANGED <<job, verdict, diskVars, spoolVars, faults>>
\* recover_pending(min_age_seconds=180): unfinished and expired snapshots
Sweep == /\ hpc = "spool" /\ batch = {}
         /\ hpc' = "sweep"
         /\ batch' = {[op |-> op, act |-> "recover"] :
                        op \in {o \in Ops : Expired(o)}}
         /\ UNCHANGED <<job, verdict, diskVars, spoolVars, faults>>

Recover == /\ hpc = "sweep"
           /\ \E r \in batch : /\ First(r, batch)
                               /\ job' = r /\ hpc' = "rollback_snapshot"
                               /\ batch' = batch \ {r}
           /\ UNCHANGED <<verdict, diskVars, spoolVars, faults>>

Exit == /\ hpc = "sweep" /\ batch = {}
        /\ hpc' = "idle" /\ job' = NoJob /\ verdict' = "none"
        /\ UNCHANGED <<batch, diskVars, spoolVars, faults>>

PublishResult == /\ At("publish")
                 /\ results' = [results EXCEPT ![job.op][job.act] = verdict]
                 /\ hpc' = "unlink"
                 /\ UNCHANGED <<job, verdict, batch, diskVars, asked, requests,
                                faults, raced>>

Unlink == /\ At("unlink")
          /\ requests' = requests \ {job}
          /\ hpc' = "spool" /\ job' = NoJob /\ verdict' = "none"
          /\ UNCHANGED <<batch, diskVars, asked, results, faults, raced>>

----------------------------------------------------------------------------
(* apply                                                                   *)

\* mutant: the request's oldMode is not compared with the row
ApplyAdmitAnyMode ==
  /\ At("apply")
  /\ \/ HasSnapshot(job.op) /\ Say("failed") /\ UNCHANGED snap
     \/ /\ ~HasSnapshot(job.op)
        /\ snap' = [snap EXCEPT ![job.op] = Bare("dir")]
        /\ Goto("apply_snapshot")
  /\ UNCHANGED <<live, row, leftover, spoolVars, faults>>
\* validate_request runs load_target first: the row must still be oldMode
ApplyAdmit ==
  /\ At("apply")
  /\ LET op == job.op
         admitted == row = asked[op].old
     IN \/ /\ ~admitted \/ snap[op].phase = "dir"
           /\ Say("failed") /\ UNCHANGED snap
        \/ /\ admitted /\ HasSnapshot(op)
           /\ Say(IF snap[op].phase = "applied" THEN "applied" ELSE "failed")
           /\ UNCHANGED snap
        \/ /\ admitted /\ snap[op].phase = "none"
           /\ snap' = [snap EXCEPT ![op] = Bare("dir")]
           /\ Goto("apply_snapshot")
  /\ UNCHANGED <<live, row, leftover, spoolVars, faults>>

\* build_template and _new_snapshot; an error here leaves the directory behind
ApplySnapshot ==
  /\ At("apply_snapshot")
  /\ \/ /\ snap' = [snap EXCEPT ![job.op] =
                      Snap("snapshot", row, asked[job.op].new, TRUE)]
        /\ Goto("apply_offline_test") /\ UNCHANGED faults
     \/ Fault("reject") /\ Say("failed") /\ UNCHANGED snap
  /\ UNCHANGED <<live, row, leftover, spoolVars>>

\* every failure of the body below runs _rollback_snapshot
ApplyFails == Goto("rollback_snapshot") /\ UNCHANGED snap

ApplyOfflineTest ==
  /\ At("apply_offline_test")
  /\ \/ /\ Phase("runtime_remove_pending") /\ Goto("apply_remove")
        /\ UNCHANGED faults
     \/ Fault("xray") /\ ApplyFails
  /\ UNCHANGED <<live, row, leftover, spoolVars>>

\* xray api rmi: fails on a missing tag; a timeout may hide that it worked
ApplyRemove ==
  /\ At("apply_remove")
  /\ \/ /\ live # Absent /\ live' = Absent
        /\ Phase("runtime_add_pending") /\ Goto("apply_add")
        /\ UNCHANGED faults
     \/ live = Absent /\ ApplyFails /\ UNCHANGED <<live, faults>>
     \/ Fault("xray") /\ live' \in {live, Absent} /\ ApplyFails
  /\ UNCHANGED <<row, leftover, spoolVars>>

\* xray api adi: fails on a tag that is already there
ApplyAdd ==
  /\ At("apply_add")
  /\ \/ /\ live = Absent /\ live' = snap[job.op].new
        /\ Phase("database_pending") /\ Goto("apply_persist")
        /\ UNCHANGED faults
     \/ live # Absent /\ ApplyFails /\ UNCHANGED <<live, faults>>
     \/ /\ live = Absent /\ Fault("xray")
        /\ live' \in {live, snap[job.op].new} /\ ApplyFails
  /\ UNCHANGED <<row, leftover, spoolVars>>

\* persist_template: one SQLite transaction
ApplyPersist ==
  /\ At("apply_persist")
  /\ \/ /\ row' = snap[job.op].new
        /\ Phase("database_committed") /\ Goto("apply_verify")
        /\ UNCHANGED faults
     \/ Fault("database") /\ ApplyFails /\ UNCHANGED row
  /\ UNCHANGED <<live, leftover, spoolVars>>

\* _verify_applied: the tag is listed (whatever its protocol), the row is new
ApplyVerify ==
  /\ At("apply_verify")
  /\ \/ /\ live # Absent /\ row = snap[job.op].new
        /\ Phase("applied") /\ Say("applied") /\ UNCHANGED faults
     \/ /\ live = Absent \/ row # snap[job.op].new
        /\ ApplyFails /\ UNCHANGED faults
     \/ Fault("xray") /\ ApplyFails
  /\ UNCHANGED <<live, row, leftover, spoolVars>>

----------------------------------------------------------------------------
(* _rollback_snapshot, called by apply, rollback and recover_pending       *)

RollbackFails == Goto("rollback_failed")

\* _validate_rollback_database_boundary: only client flow and auth are compared
Boundary == Flow(row) \in {Flow(snap[job.op].old), Flow(snap[job.op].new)}

RollbackSnapshot ==
  /\ At("rollback_snapshot")
  /\ \/ /\ Boundary /\ snap[job.op].phase = "snapshot"
        /\ Goto("rollback_restore") /\ UNCHANGED leftover
     \/ /\ Boundary /\ snap[job.op].phase # "snapshot" /\ ~leftover[job.op]
        /\ leftover' = [leftover EXCEPT ![job.op] = TRUE]
        /\ Goto("rollback_remove")
     \/ /\ ~Boundary \/ (snap[job.op].phase # "snapshot" /\ leftover[job.op])
        /\ RollbackFails /\ UNCHANGED leftover
  /\ UNCHANGED <<live, row, snap, spoolVars, faults>>

\* finally: old_path.unlink(), on success and on failure
DropTemporary == leftover' = [leftover EXCEPT ![job.op] = FALSE]

RollbackRemove ==
  /\ At("rollback_remove")
  /\ \/ live' = Absent /\ Goto("rollback_add") /\ UNCHANGED <<leftover, faults>>
     \/ /\ Fault("xray") /\ live' \in {live, Absent}
        /\ DropTemporary /\ RollbackFails
  /\ UNCHANGED <<row, snap, spoolVars>>

RollbackAdd ==
  /\ At("rollback_add")
  /\ \/ /\ live = Absent /\ live' = snap[job.op].old
        /\ Goto("rollback_restore") /\ UNCHANGED faults
     \/ live # Absent /\ RollbackFails /\ UNCHANGED <<live, faults>>
     \/ /\ live = Absent /\ Fault("xray")
        /\ live' \in {live, snap[job.op].old} /\ RollbackFails
  /\ DropTemporary
  /\ UNCHANGED <<row, snap, spoolVars>>

\* _database_matches_snapshot, else _restore_database
RollbackRestore ==
  /\ At("rollback_restore")
  /\ \/ /\ row' = snap[job.op].old /\ Goto("rollback_verify")
        /\ UNCHANGED faults
     \/ /\ row # snap[job.op].old /\ Fault("database")
        /\ RollbackFails /\ UNCHANGED row
  /\ UNCHANGED <<live, snap, leftover, spoolVars>>

\* the tag is listed and the row is the remembered one; then the caller's end:
\* apply and recovery delete the directory, rollback leaves a tombstone
RollbackVerify ==
  /\ At("rollback_verify")
  /\ LET op == job.op
         restored == live # Absent /\ row = snap[op].old
     IN \/ /\ restored /\ job.act = "rollback"
           /\ snap' = [snap EXCEPT ![op] = Bare("rolled_back")]
           /\ Say("rolled_back") /\ UNCHANGED <<leftover, faults>>
        \/ /\ restored /\ job.act = "apply"
           /\ snap' = [snap EXCEPT ![op] = Bare("none")]
           /\ DropTemporary /\ Say("failed") /\ UNCHANGED faults
        \/ /\ restored /\ job.act = "recover"
           /\ snap' = [snap EXCEPT ![op] = Bare("none")]
           /\ DropTemporary /\ Goto("sweep") /\ UNCHANGED faults
        \/ ~restored /\ RollbackFails /\ UNCHANGED <<snap, leftover, faults>>
        \/ Fault("xray") /\ RollbackFails /\ UNCHANGED <<snap, leftover>>
  /\ UNCHANGED <<live, row, spoolVars>>

\* apply and recovery quarantine the snapshot, rollback leaves it as it is
RollbackFailed ==
  /\ At("rollback_failed")
  /\ \/ job.act = "rollback" /\ Say("failed") /\ UNCHANGED snap
     \/ job.act = "apply" /\ Phase("repair_required") /\ Say("failed")
     \/ job.act = "recover" /\ Phase("repair_required") /\ Goto("sweep")
  /\ UNCHANGED <<live, row, leftover, spoolVars, faults>>

----------------------------------------------------------------------------
(* finalize, renew, rollback                                               *)

Finalize ==
  /\ At("finalize")
  /\ \/ /\ snap[job.op].phase \in {"applied", "finalized"}
        /\ snap' = [snap EXCEPT ![job.op] = Bare("finalized")]
        /\ Say("finalized")
     \/ /\ snap[job.op].phase \notin {"applied", "finalized"}
        /\ Say("failed") /\ UNCHANGED snap
  /\ UNCHANGED <<live, row, leftover, spoolVars, faults>>

Renew ==
  /\ At("renew")
  /\ \/ /\ snap[job.op].phase = "applied"
        /\ snap' = [snap EXCEPT ![job.op].fresh = TRUE]
        /\ Say("renewed")
     \/ snap[job.op].phase # "applied" /\ Say("failed") /\ UNCHANGED snap
  /\ UNCHANGED <<live, row, leftover, spoolVars, faults>>

Rollback ==
  /\ At("rollback")
  /\ LET phase == snap[job.op].phase
     IN \/ phase \in {"none", "dir"} /\ Say("not_applied")
        \/ phase = "rolled_back" /\ Say("rolled_back")
        \/ phase = "finalized" /\ Say("already_finalized")
        \/ phase \in RestorePhases /\ Goto("rollback_snapshot")
  /\ UNCHANGED <<diskVars, spoolVars, faults>>

----------------------------------------------------------------------------
(* What happens around the helper                                          *)

\* 180 s pass since createdAt or the last renew; timing: one cycle is shorter
\* than what is left of the lease when a finalize request is written
LeaseExpires(op) ==
  /\ snap[op].phase \in WorkingPhases /\ snap[op].fresh
  /\ [op |-> op, act |-> "finalize"] \in requests => hpc = "idle"
  /\ snap' = [snap EXCEPT ![op].fresh = FALSE]
  /\ UNCHANGED <<live, row, leftover, spoolVars, procVars, faults>>

\* the process is killed between two steps; the spool and snapshots stay
HelperCrash == /\ hpc # "idle" /\ Fault("helper_crash")
               /\ hpc' = "idle" /\ job' = NoJob /\ verdict' = "none"
               /\ batch' = {}
               /\ UNCHANGED <<diskVars, spoolVars>>

\* x-ui restarts Xray, which rebuilds the inbound from the database row
XuiRestart == /\ Fault("xui_restart") /\ live' = row
              /\ raced' = (raced \/ hpc = "rollback_restore")
              /\ UNCHANGED <<row, snap, leftover, asked, requests, results,
                             procVars>>

ApplySteps == \/ ApplyAdmit \/ ApplySnapshot \/ ApplyOfflineTest \/ ApplyRemove
              \/ ApplyAdd \/ ApplyPersist \/ ApplyVerify
RollbackSteps == \/ RollbackSnapshot \/ RollbackRemove \/ RollbackAdd
                 \/ RollbackRestore \/ RollbackVerify \/ RollbackFailed
CycleSteps == \/ Wake \/ Take \/ Sweep \/ Recover \/ Exit
              \/ PublishResult \/ Unlink
HelperStep == \/ CycleSteps \/ ApplySteps \/ RollbackSteps
              \/ Finalize \/ Renew \/ Rollback
Environment == \/ HelperCrash \/ XuiRestart
               \/ \E op \in Ops : LeaseExpires(op)
Client == \E op \in Ops :
            \/ \E old, new \in Modes : SubmitApply(op, old, new)
            \/ SubmitFinalize(op) \/ SubmitRenew(op) \/ SubmitRollback(op)

Next == HelperStep \/ Environment \/ Client

Spec == Init /\ [][Next]_vars

----------------------------------------------------------------------------
(* Properties                                                              *)

\* Every variable keeps its shape, and a snapshot the helper may restore from
\* remembers real modes (load_target, _new_snapshot).
ApplyPcs == {"apply_offline_test", "apply_remove", "apply_add",
             "apply_persist", "apply_verify"}
RollbackPcs == {"rollback_snapshot", "rollback_remove", "rollback_add",
                "rollback_restore", "rollback_verify", "rollback_failed"}
HandlerPcs == {"apply", "apply_snapshot", "finalize", "renew", "rollback",
               "publish", "unlink"} \cup ApplyPcs \cup RollbackPcs
Snapshots == [phase : Phases, old : Modes \cup {None},
              new : Modes \cup {None}, fresh : BOOLEAN]
SnapOK == /\ snap \in [Ops -> Snapshots]
          /\ \A op \in Ops : snap[op].phase \in RestorePhases
                              => snap[op].old \in Modes /\ snap[op].new \in Modes
TypeOK == /\ SnapOK
          /\ live \in Modes \cup {Absent}
          /\ row \in Modes
          /\ leftover \in [Ops -> BOOLEAN]
          /\ asked \in [Ops -> [old : Modes \cup {None},
                                new : Modes \cup {None}]]
          /\ requests \subseteq [op : Ops, act : Acts]
          /\ results \in [Ops -> [Acts -> Verdicts]]
          /\ hpc \in {"idle", "spool", "sweep"} \cup HandlerPcs
          /\ job \in Jobs \cup {NoJob}
          /\ verdict \in Verdicts
          /\ batch \subseteq Jobs
          /\ faults \in 0..MaxFaults
          /\ raced \in BOOLEAN

\* A published outcome is the outcome on disk: across crashes, re-run requests
\* and recovery, a "finalized" or "rolled_back" the Gateway may have read stays
\* backed by the tombstone (finalize, rollback and their replays).
ResultsTruthful ==
  \A op \in Ops :
    /\ results[op]["finalize"] = "finalized" => snap[op].phase = "finalized"
    /\ results[op]["rollback"] = "rolled_back" => snap[op].phase = "rolled_back"

\* Once rollback answered operation_not_applied, no request left in the spool
\* brings the operation to "applied" later: Gateway recovery converges to the
\* old mode on that answer alone.
NotAppliedIsFinal ==
  \A op \in Ops : results[op]["rollback"] = "not_applied"
                   => snap[op].phase \notin RestorePhases

\* While one operation is the only one ever asked for, the runtime and the
\* database never disagree without a snapshot on disk that can restore them,
\* wherever the helper is killed and whatever fails. The one exception is an
\* x-ui restart after rollback re-added the old inbound and before it restored
\* the row: Xray is back on the new mode, and the verification that follows
\* reads the tags and the row only.
Alone == \A op1, op2 \in Ops :
           asked[op1] # NotAsked /\ asked[op2] # NotAsked => op1 = op2
CrashSafe == Alone /\ ~raced /\ live # row
             => \E op \in Ops : snap[op].phase \in RestorePhases

\* The helper implements SwitchDecision: an outcome is decided once and told
\* as decided.
Decision == [op \in Ops |-> IF snap[op].phase \in Tombstones
                            THEN snap[op].phase ELSE "open"]
Told == [op \in Ops |->
           IF results[op]["finalize"] = "finalized" THEN "finalized"
           ELSE IF results[op]["rollback"] = "rolled_back" THEN "rolled_back"
           ELSE "open"]
Abstract == INSTANCE SwitchDecision WITH decision <- Decision, told <- Told
DecidedOnce == Abstract!Spec

----------------------------------------------------------------------------
(* The inductive invariant behind the theorems of ProtocolTxnProofs         *)

Asked(op) == asked[op].old \in Modes /\ asked[op].new \in Modes

\* where the helper is tells what it works on and what it found on disk
ControlInv ==
  /\ hpc \in HandlerPcs => job \in Jobs
  /\ hpc = "apply" => job.act = "apply"
  /\ hpc = "apply_snapshot" =>
       job.act = "apply" /\ snap[job.op].phase = "dir" /\ Asked(job.op)
  /\ hpc \in ApplyPcs =>
       job.act = "apply" /\ snap[job.op].phase \in WorkingPhases
  /\ hpc \in RollbackPcs =>
       /\ job.act \in {"apply", "rollback", "recover"}
       /\ snap[job.op].phase \in RestorePhases
  /\ hpc \in {"finalize", "renew", "rollback"} => job.act = hpc

\* a request is for modes that exist
AskedInv == /\ \A r \in requests : r.act = "apply" => Asked(r.op)
            /\ \A r \in batch : r.act = "apply" => Asked(r.op)
            /\ hpc \in HandlerPcs /\ job.act = "apply" => Asked(job.op)

\* recovery never comes back to an operation it has settled
Recovering == hpc = "sweep" \/ (hpc \in RollbackPcs /\ job.act = "recover")
SweepInv ==
  /\ Recovering => \A r \in batch : /\ r.act = "recover"
                                    /\ snap[r.op].phase \in WorkingPhases
                                    /\ hpc # "sweep" => r.op # job.op
  /\ ~Recovering => \A r \in batch : r.act # "recover"

\* what the helper is about to publish is what is on disk
VerdictInv ==
  hpc = "publish" =>
    /\ job.act = "finalize" =>
         (verdict = "finalized" <=> snap[job.op].phase = "finalized")
    /\ job.act = "rollback" =>
         (verdict = "rolled_back" <=> snap[job.op].phase = "rolled_back")

\* Each part of the inductive invariant; together they make ResultsTruthful and
\* the refinement of SwitchDecision inductive.
IInv == /\ TypeOK /\ ControlInv /\ AskedInv /\ SweepInv /\ VerdictInv
        /\ ResultsTruthful

\* The invariant behind NotAppliedIsFinal. A file the helper works on, or has
\* still to read, is in the spool, and it does not meet it twice.
Req(op, act) == [op |-> op, act |-> act]
Busy(r) == hpc \in HandlerPcs /\ job = r
InSpool == /\ \A r \in batch : r.act # "recover" => r \in requests
           /\ hpc \in HandlerPcs /\ job.act # "recover" => job \in requests
           /\ hpc \in HandlerPcs => job \notin batch

\* the helper comes to a rollback after the apply of the same operation
ApplyFirst == \A op \in Ops : Req(op, "apply") \in requests =>
  /\ results[op]["rollback"] = "none" /\ ~Busy(Req(op, "rollback"))
  /\ Req(op, "rollback") \in batch => Req(op, "apply") \in batch \/ Busy(Req(op, "apply"))

\* operation_not_applied is what is on disk when it is about to be published
NothingApplied == hpc = "publish" /\ job.act = "rollback" /\ verdict = "not_applied"
                    => snap[job.op].phase \notin RestorePhases

FInv == InSpool /\ ApplyFirst /\ NothingApplied /\ NotAppliedIsFinal

\* The invariant behind CrashSafe. A directory is made, and an apply answered, for
\* an operation that was asked for; a phase is saved before the effect it announces.
AskedFirst ==
  \A op \in Ops :
    /\ asked[op] # NotAsked => asked[op].old # asked[op].new
    /\ asked[op] = NotAsked => /\ snap[op].phase = "none"
                              /\ results[op]["apply"] # "applied"
                              /\ Req(op, "finalize") \notin requests
PhaseInv ==
  /\ hpc = "apply_offline_test" => snap[job.op].phase = "snapshot"
  /\ hpc \in ApplyPcs \ {"apply_offline_test"}
       => snap[job.op].phase \notin {"snapshot", "applied"}
  /\ hpc \in RollbackPcs /\ job.act = "apply" => snap[job.op].phase # "applied"
  /\ hpc \in {"rollback_remove", "rollback_add"} => snap[job.op].phase # "snapshot"

\* the helper comes to an apply or a finalize before it recovers the operation,
\* and to a finalize before the rollback
RecoverLast ==
  /\ \A r \in batch : r.act = "recover" => ~snap[r.op].fresh
  /\ hpc \in RollbackPcs /\ job.act = "recover" => ~snap[job.op].fresh
  /\ \A op \in Ops, act \in {"apply", "finalize"} : Req(op, act) \in requests =>
       /\ Req(op, "recover") \notin batch
       /\ ~(hpc \in RollbackPcs /\ job = Req(op, "recover"))
       /\ snap[op].phase \in WorkingPhases
            => \/ act = "finalize" /\ snap[op].fresh
               \/ hpc = "idle" \/ Req(op, act) \in batch \/ Busy(Req(op, act))
FinalizeFirst == \A op \in Ops : Req(op, "finalize") \in requests =>
  /\ ~Busy(Req(op, "rollback"))
  /\ Req(op, "rollback") \in batch
       => Req(op, "finalize") \in batch \/ Busy(Req(op, "finalize"))

\* a lone operation goes between the two modes it names, and an apply that was
\* answered, or whose finalize is asked for, is not begun again
ModesInv ==
  /\ \A op \in Ops : snap[op].phase \in RestorePhases
                     => snap[op].old = asked[op].old /\ snap[op].new = asked[op].new
  /\ hpc = "apply_snapshot" => row = asked[job.op].old
  /\ hpc = "publish" /\ job.act = "apply" /\ verdict = "applied" => row = asked[job.op].new
  /\ \A op \in Ops : Req(op, "apply") \in requests =>
       /\ snap[op].phase = "applied" => row = asked[op].new
       /\ results[op]["apply"] = "applied" \/ Req(op, "finalize") \in requests
            => /\ row = asked[op].new
               /\ Busy(Req(op, "apply")) => hpc \in {"apply", "publish", "unlink"}

\* what a lone operation leaves to be served, step by step
ServedInv ==
  /\ \A op \in Ops : snap[op].phase = "snapshot" => live = row /\ row = snap[op].old
  /\ hpc \in {"rollback_restore", "rollback_verify"} => live = snap[job.op].old
  /\ hpc = "rollback_verify" => row = snap[job.op].old
  /\ \A op \in Ops : Req(op, "finalize") \in requests /\ snap[op].phase = "applied"
                     => live = row
  /\ live # row => \E op \in Ops : snap[op].phase \in RestorePhases

CInv == /\ AskedFirst /\ PhaseInv /\ RecoverLast /\ FinalizeFirst
        /\ Alone => ModesInv
        /\ Alone /\ ~raced => ServedInv
============================================================================
