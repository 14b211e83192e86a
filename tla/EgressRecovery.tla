--------------------------- MODULE EgressRecovery ---------------------------
(***************************************************************************)
(* One egress of the engine (the main connection, or the exit of a slot)   *)
(* with its dedicated standby: the OpenVPN processes and the devices they  *)
(* hold, the store of repairs, the life of the standby and the probe that  *)
(* decides its promotion (vpngate_manager.py, egress_repair.py).  ExitSlot *)
(* and MainConnection extend this module with what is particular to each   *)
(* kind of egress.                                                         *)
(*                                                                         *)
(* Every egress has locks, records and devices of its own and meets the    *)
(* others in the pool of candidates only: Nodes are those the others leave.*)
(* A policy-routing table is paired with its device: an exit and its       *)
(* standby swap both together.                                             *)
(***************************************************************************)
EXTENDS Naturals, FiniteSets

CONSTANTS Nodes,      \* candidates
          None,
          Own,        \* slot_device(i), or tun0
          Spares,     \* devices of standbys
          MaxRounds,  \* bound: failed rounds in recoveryBudgetSeconds
          MaxEvents   \* bound: operations, faults of tunnels, restarts,
                      \* standbys that do not come up and attempts that
                      \* find a lock taken

Threads == {"supervisor", "admin", "keeper", "checker"}

ASSUME RecoveryAssumption ==
  /\ None \notin Nodes \union Threads /\ Own \notin Spares /\ Spares # {}
  /\ MaxRounds \in Nat \ {0} /\ MaxEvents \in Nat

VARIABLES
  enabled,   \* the egress: "off" (no such slot), "paused" or "on"
  run,       \* exit_slots[i], or active_openvpn_*
  standby,   \* dedicated_standbys[index]
  resource,  \* device of dedicated_standby_resources[index]
  hold,      \* per device: whose the OpenVPN process on it is, and its marker
  dark,      \* devices whose tunnel forwards nothing
  routed,    \* devices with their policy route
  repair,    \* RepairStore row of the egress
  sbRepair,  \* status of the row of its standby
  rounds,    \* failed rounds since started_at of that row
  usable,    \* candidates that are available and not cooled down
  pc, job,   \* per thread: where it is and what for
  opLock,    \* slot_operation_lock(i), or the runtime mutation lease
  sbLock,    \* standby_operation_lock(index)
  events

recordVars == <<run, standby, resource>>
tunnelVars == <<hold, dark, routed>>
storeVars == <<repair, sbRepair, rounds>>
threadVars == <<pc, job>>
lockVars == <<opLock, sbLock>>
egressVars == <<enabled, recordVars, tunnelVars, storeVars, usable,
                threadVars, lockVars, events>>
-----------------------------------------------------------------------------
Devices == Spares \union {Own}
NoJob == [op |-> "none", node |-> None, back |-> None, dev |-> Own, list |-> {}]

Absent == [st |-> "absent", node |-> None, dev |-> Own]
Record(st, n) == [st |-> st, node |-> n, dev |-> Own]
NoStandby == [st |-> "none", node |-> None, dev |-> Own]

Empty == [as |-> "none", mark |-> "none"]
Held(d) == hold[d] # Empty
RunAlive == run.st = "up" /\ hold[run.dev].as = "run"
StandbyAlive == standby.st # "none" /\ hold[standby.dev].as = "standby"
Registered(d) == \/ RunAlive /\ run.dev = d
                 \/ StandbyAlive /\ standby.dev = d
RunDevice == IF RunAlive THEN {run.dev} ELSE {}
StandbyDevice == IF StandbyAlive THEN {standby.dev} ELSE {}
Without(D) == [d \in Devices |-> IF d \in D THEN Empty ELSE hold[d]]
Forwards(d) == Held(d) /\ d \notin dark /\ d \in routed

(* Processes with a marker that no record names.                           *)
Stray(mark) == {d \in Devices : hold[d].mark = mark /\ ~Registered(d)}

(* pending_candidate_ids: a reservation lasts as long as the dial.         *)
Dialing == {"dialed", "sb_dialed", "sb_check"}
Pending(th) == {job[u].node : u \in {u \in Threads \ {th} : pc[u] \in Dialing}}

At(th, p) == pc[th] = p
Goto(th, p) == pc' = [pc EXCEPT ![th] = p]
Work(th, op, n) == job' = [job EXCEPT ![th] = [NoJob EXCEPT !.op = op, !.node = n]]
Unlocked(l, th) == IF l = th THEN None ELSE l

(* The thread is done: it gives back its locks.  The keeper looks after a  *)
(* waiting egress when its own work is over.                               *)
Done(th) ==
  /\ Goto(th, IF th = "keeper" /\ job[th].op # "resume" THEN "resume" ELSE "idle")
  /\ job' = [job EXCEPT ![th] = NoJob]
  /\ opLock' = Unlocked(opLock, th) /\ sbLock' = Unlocked(sbLock, th)

Event == events < MaxEvents /\ events' = events + 1

EgressInit ==
  /\ run = Absent /\ standby = NoStandby
  /\ \E d \in Spares : resource = d
  /\ hold = [d \in Devices |-> Empty] /\ dark = {} /\ routed = {}
  /\ repair = [st |-> "none", node |-> None]
  /\ sbRepair = "none" /\ rounds = 0
  /\ usable = Nodes
  /\ pc = [th \in Threads |-> "idle"] /\ job = [th \in Threads |-> NoJob]
  /\ opLock = None /\ sbLock = None
  /\ events = 0
-----------------------------------------------------------------------------
(* RepairStore.  A waiting row keeps its budget however often it is        *)
(* confirmed; a healthy one is only replaced for the candidate it names.   *)

wait_for_standby(n, allow) ==
  repair' = IF \/ repair.st \in {"waiting", "manual"}
               \/ repair.st = "healthy" /\ ~allow /\ repair.node # n
            THEN repair ELSE [st |-> "waiting", node |-> n]

mark_healthy(n) == repair' = [st |-> "healthy", node |-> n]
require_manual == repair' = [repair EXCEPT !.st = "manual"]
clear == repair' = [st |-> "none", node |-> None]

sb_healthy == sbRepair' = "healthy" /\ rounds' = 0
sb_clear == sbRepair' = "none" /\ rounds' = 0

\* mutant: the budget starts anew with every round
over_never(n) == {FALSE}

(* now - started_at >= recoveryBudgetSeconds: at any time after the first  *)
(* failed round, at the latest after MaxRounds of them.                    *)
Over(n) == IF n = 0 THEN {FALSE} ELSE IF n >= MaxRounds THEN {TRUE} ELSE BOOLEAN

(* A row that was healthy starts its budget with this failure.             *)
finish_round ==
  /\ rounds' = rounds + 1
  /\ \E over \in IF sbRepair = "healthy" THEN {FALSE} ELSE Over(rounds + 1) :
       sbRepair' = IF over THEN "manual" ELSE "retry"

\* mutant: what a restart has interrupted stays on record as under way
recover_nothing == sbRepair' = sbRepair

(* The rows survive a restart, where an interrupted round may be resumed.  *)
recover_interrupted == sbRepair' = IF sbRepair = "repairing" THEN "retry" ELSE sbRepair
-----------------------------------------------------------------------------
(* The record of the exit and the standby are taken down: the process is   *)
(* stopped and the table of the record, or the one by default, is cleaned. *)

StopRun(record) ==
  /\ run' = record /\ hold' = Without(RunDevice)
  /\ routed' = routed \ {run.dev}

tear_down_dedicated_standby ==
  /\ standby' = NoStandby /\ hold' = Without(StandbyDevice)
  /\ routed' = routed \ {IF standby.st = "none" THEN resource ELSE standby.dev}
-----------------------------------------------------------------------------
(* The keeper: _maintain_standby, one worker per standby.                  *)

KeeperOnly == UNCHANGED <<enabled, run, opLock, events>>

(* _prepare_standby_resource.                                              *)
_prepare_standby_resource(dev) ==
  IF resource \in RunDevice THEN dev \in Spares \ RunDevice ELSE dev = resource

(* begin_round: nothing is dialed once the budget is over.                 *)
begin_round(reaped) ==
  \E over \in IF sbRepair = "healthy" THEN {FALSE} ELSE Over(rounds) :
    IF over
    THEN /\ sbRepair' = "manual" /\ hold' = reaped
         /\ Done("keeper") /\ UNCHANGED <<rounds, standby, routed>>
    ELSE /\ sbRepair' = "repairing"
         /\ rounds' = IF sbRepair = "healthy" THEN 0 ELSE rounds
         /\ standby' = NoStandby
         /\ hold' = [d \in Devices |-> IF d \in StandbyDevice THEN Empty ELSE reaped[d]]
         /\ routed' = routed \ {IF standby.st = "none" THEN resource ELSE standby.dev}
         /\ Goto("keeper", "sb_list") /\ Work("keeper", "round", None)
         /\ sbLock' = "keeper"

\* mutant: a promoted standby is known by its marker only
reap_promoted ==
  Without({d \in Devices : hold[d].mark = "standby" /\ ~(StandbyAlive /\ standby.dev = d)})

(* kill_unregistered_standby_openvpn_processes.                            *)
reap == Without(Stray("standby"))

(* A round of maintenance of an egress that is on.  Nothing is begun while *)
(* an earlier round is on record as not finished.                          *)
maintain_standby ==
  /\ At("keeper", "idle") /\ sbLock = None /\ enabled = "on"
  /\ \/ /\ \/ sbRepair = "manual" /\ hold' = hold
           \/ sbRepair = "repairing" /\ ~StandbyAlive /\ hold' = reap
        /\ Goto("keeper", "resume")
        /\ UNCHANGED <<job, sbLock, standby, routed, sbRepair, rounds>>
     \/ /\ sbRepair # "manual" /\ StandbyAlive /\ hold' = reap
        /\ Goto("keeper", "sb_health") /\ Work("keeper", "round", None)
        /\ sbLock' = "keeper"
        /\ UNCHANGED <<standby, routed, sbRepair, rounds>>
     \/ sbRepair \notin {"manual", "repairing"} /\ ~StandbyAlive /\ begin_round(reap)
  /\ UNCHANGED <<resource, dark, repair, usable>> /\ KeeperOnly

(* The standby of a slot that is not on is taken down.                     *)
retire_standby ==
  /\ At("keeper", "idle") /\ sbLock = None /\ enabled # "on"
  /\ standby # NoStandby \/ sbRepair # "none"
  /\ tear_down_dedicated_standby /\ sb_clear
  /\ UNCHANGED <<resource, dark, repair, usable, threadVars, sbLock>> /\ KeeperOnly

(* The probe of a live standby; misses below the threshold change nothing. *)
probe_standby(next) ==
  LET route == routed \union ({resource} \intersect StandbyDevice)
      ok == /\ StandbyAlive /\ standby.dev \notin dark
            /\ standby.dev \in route
  IN /\ At("keeper", "sb_health")
     /\ \/ /\ ok /\ standby' = [standby EXCEPT !.st = "ready"]
           /\ sb_healthy /\ routed' = route
           /\ IF next = "check"
              THEN /\ Goto("keeper", "check") /\ Work("keeper", "health", None)
                   /\ UNCHANGED sbLock
              ELSE Done("keeper")
           /\ UNCHANGED hold
        \/ ~ok /\ begin_round(hold)
     /\ UNCHANGED <<resource, dark, repair, usable>> /\ KeeperOnly
-----------------------------------------------------------------------------
(* provision_dedicated_standby, by the keeper in a round or by the         *)
(* administrator, who names the candidate (op "assign_sb").                *)

Provisioner == UNCHANGED <<enabled, run, resource, dark, repair, opLock, events>>

InUse(th, pins) == pins \union {run.node, standby.node} \union Pending(th)

(* select_dedicated_standby_candidates: the list of this round.            *)
list_candidates(th, pins) ==
  /\ At(th, "sb_list") /\ Goto(th, "sb_select")
  /\ job' = [job EXCEPT ![th].list = usable \ InUse(th, pins)]
  /\ UNCHANGED <<standby, hold, routed, usable, sbRepair, rounds, sbLock>>
  /\ Provisioner

(* The next of the list that is not in use; that it is not is determined   *)
(* here, its reservation made in the step that follows.  The number of     *)
(* candidates of a round and its budget may end it before the list does.   *)
select_standby(th, pins) ==
  LET left == job[th].list IN
  /\ At(th, "sb_select") /\ enabled # "off"
  /\ \E n \in left :
       /\ job' = [job EXCEPT ![th].node = n, ![th].list = left \ {n}]
       /\ IF n \in InUse(th, pins)
          THEN usable' = usable \ {n} /\ UNCHANGED pc
          ELSE Goto(th, "sb_reserve") /\ UNCHANGED usable
  /\ UNCHANGED <<standby, hold, routed, sbRepair, rounds, sbLock>>
  /\ Provisioner

Exhausted(th) ==
  /\ At(th, "sb_select")
  /\ \/ job[th].list = {} \/ enabled = "off"
     \/ job[th].node # None \/ rounds > 0

finish_standby ==
  /\ Exhausted("keeper") /\ finish_round /\ Done("keeper")
  /\ UNCHANGED <<enabled, run, standby, resource, tunnelVars, repair, usable,
                 events>>

(* What follows a candidate that could not be brought up: the next one, or *)
(* for the administrator the end, in which the old standby may be left.    *)
NextCandidate(th, left) ==
  IF job[th].op # "assign_sb"
  THEN Goto(th, "sb_select") /\ UNCHANGED <<job, sbLock, sbRepair, rounds>>
  ELSE /\ Done(th) /\ UNCHANGED rounds
       /\ sbRepair' = IF left THEN "healthy" ELSE "manual"

(* The old standby is taken down, a stale process with the marker of this  *)
(* standby reaped, and the candidate dialed on a device that must be free. *)
reserve_standby(th) ==
  /\ At(th, "sb_reserve")
  /\ \/ /\ job[th].node \notin Pending(th)
        /\ standby' = NoStandby
        /\ routed' = routed \ {IF standby.st = "none" THEN resource ELSE standby.dev}
        /\ \E dev \in Devices :
             LET reaped == Without(StandbyDevice \union (Stray("standby") \intersect {dev})) IN
             /\ _prepare_standby_resource(dev) /\ resource' = dev
             /\ IF reaped[dev] = Empty
                THEN /\ hold' = [reaped EXCEPT ![dev] = [as |-> "hand", mark |-> "standby"]]
                     /\ dark' = dark \ {dev}
                     /\ Goto(th, "sb_dialed") /\ job' = [job EXCEPT ![th].dev = dev]
                     /\ UNCHANGED <<usable, sbLock, opLock, sbRepair, rounds>>
                ELSE /\ hold' = reaped /\ usable' = usable \ {job[th].node}
                     /\ NextCandidate(th, FALSE) /\ UNCHANGED <<dark, opLock>>
     \/ /\ job[th].node \in Pending(th)
        /\ usable' = usable \ {job[th].node}
        /\ NextCandidate(th, StandbyAlive /\ standby.st = "ready")
        /\ UNCHANGED <<standby, hold, routed, resource, dark, opLock>>
  /\ UNCHANGED <<enabled, run, repair, events>>

(* The tunnel is up: its route, and the record, not yet ready.  Or it is   *)
(* not, or has no route.                                                   *)
register_standby(th) ==
  LET d == job[th].dev IN
  /\ At(th, "sb_dialed")
  /\ \/ /\ Goto(th, "sb_check") /\ routed' = routed \union {d}
        /\ hold' = IF Held(d) THEN [hold EXCEPT ![d].as = "standby"] ELSE hold
        /\ standby' = [st |-> "checking", node |-> job[th].node, dev |-> d]
        /\ UNCHANGED <<usable, job, sbLock, sbRepair, rounds, events>>
     \/ /\ Event /\ hold' = Without({d}) /\ routed' \in {routed, routed \ {d}}
        /\ usable' = usable \ {job[th].node}
        /\ NextCandidate(th, FALSE) /\ UNCHANGED standby
  /\ UNCHANGED <<enabled, run, resource, dark, repair, opLock>>

(* Only a candidate that forwards becomes a ready standby.                 *)
check_standby(th, Ready) ==
  /\ At(th, "sb_check")
  /\ \/ /\ StandbyAlive /\ Forwards(standby.dev)
        /\ standby' = [standby EXCEPT !.st = "ready"] /\ sb_healthy
        /\ Ready
        /\ UNCHANGED <<hold, routed, usable>>
     \/ /\ ~(StandbyAlive /\ Forwards(standby.dev))
        /\ tear_down_dedicated_standby
        /\ usable' = usable \ {job[th].node}
        /\ NextCandidate(th, FALSE) /\ UNCHANGED opLock
  /\ UNCHANGED <<enabled, run, resource, dark, repair, events>>

(* The administrator names a candidate, also one that is cooling down.     *)
assign_dedicated_standby(n, pins) ==
  /\ At("admin", "idle") /\ Event /\ enabled = "on" /\ sbLock = None
  /\ n \notin pins \union {run.node, standby.node} \union Pending("admin")
  /\ sbLock' = "admin" /\ sb_clear
  /\ Goto("admin", "sb_reserve") /\ Work("admin", "assign_sb", n)
  /\ UNCHANGED <<enabled, recordVars, tunnelVars, repair, usable, opLock>>

retry_dedicated_standby ==
  /\ At("admin", "idle") /\ Event /\ enabled = "on" /\ sbLock = None
  /\ sb_clear
  /\ repair' = IF repair.st = "manual" THEN [repair EXCEPT !.st = "waiting"] ELSE repair
  /\ UNCHANGED <<enabled, recordVars, tunnelVars, usable, threadVars, lockVars>>
-----------------------------------------------------------------------------
(* The end of the keeper's round: _resume_waiting_target.                  *)

resume_none ==
  /\ At("keeper", "resume")
  /\ enabled # "on" \/ repair.st # "waiting"
  /\ Goto("keeper", "idle")
  /\ UNCHANGED <<enabled, recordVars, tunnelVars, storeVars, usable, job,
                 lockVars, events>>

resume_manual ==
  /\ At("keeper", "resume") /\ enabled = "on" /\ repair.st = "waiting"
  /\ sbRepair = "manual" /\ require_manual
  /\ Goto("keeper", "idle")
  /\ UNCHANGED <<enabled, recordVars, tunnelVars, sbRepair, rounds, usable,
                 job, lockVars, events>>

(* _healthy_dedicated_standby_index: up to three probes, without its lock. *)
check(th, Otherwise) ==
  LET route == routed \union ({resource} \intersect StandbyDevice)
      ok == /\ StandbyAlive /\ standby.dev \notin dark
            /\ standby.dev \in route
  IN /\ At(th, "check") /\ routed' = route
     /\ standby' = IF StandbyAlive
                   THEN [standby EXCEPT !.st = IF ok THEN "ready" ELSE "degraded"]
                   ELSE standby
     /\ IF ok THEN Goto(th, "take") /\ UNCHANGED <<job, lockVars>> ELSE Otherwise
     /\ UNCHANGED <<enabled, run, resource, hold, dark, storeVars, usable,
                    events>>

Keeper(next, pins) ==
  \/ maintain_standby \/ probe_standby(next)
  \/ list_candidates("keeper", pins) \/ select_standby("keeper", pins)
  \/ finish_standby \/ resume_none \/ resume_manual
Provision(th, Ready) ==
  \/ reserve_standby(th) \/ register_standby(th) \/ check_standby(th, Ready)
-----------------------------------------------------------------------------
(* Faults and the pool. *)

(* The process ends, or its device is lost and it is reaped for that.      *)
die(d) ==
  /\ Event /\ Held(d) /\ hold' = Without({d})
  /\ UNCHANGED <<enabled, recordVars, dark, routed, storeVars, usable,
                 threadVars, lockVars>>

(* The process stays and its tunnel forwards nothing.                      *)
darken(d) ==
  /\ Event /\ Held(d) /\ d \notin dark /\ dark' = dark \union {d}
  /\ UNCHANGED <<enabled, recordVars, hold, routed, storeVars, usable,
                 threadVars, lockVars>>

(* A cool-down ends, or the pool has tested the candidate again.           *)
refresh(n) ==
  /\ n \notin usable /\ usable' = usable \union {n}
  /\ UNCHANGED <<enabled, recordVars, tunnelVars, storeVars, threadVars,
                 lockVars, events>>

(* A restart of the engine: what it left running is killed at the start,   *)
(* with the routes of its tables, and its thread th comes first.           *)
restart(th, p, j) ==
  /\ Event
  /\ run' = Absent /\ standby' = NoStandby /\ resource' \in Spares
  /\ hold' = Without(Devices) /\ dark' = {} /\ routed' = {}
  /\ recover_interrupted
  /\ pc' = [[u \in Threads |-> "idle"] EXCEPT ![th] = p]
  /\ job' = [[u \in Threads |-> NoJob] EXCEPT ![th] = j]
  /\ opLock' = None /\ sbLock' = None
  /\ UNCHANGED <<enabled, repair, rounds, usable>>
-----------------------------------------------------------------------------
Pcs == {"idle", "resume", "check", "take", "put", "reserve", "dialed",
        "sb_health", "sb_list", "sb_select", "sb_reserve", "sb_dialed",
        "sb_check"}

EgressTypeOK(pcs, ops) ==
  /\ enabled \in {"off", "paused", "on"}
  /\ run \in [st : {"absent", "up", "pending", "paused", "disconnected"},
              node : Nodes \union {None}, dev : Devices]
  /\ standby \in [st : {"none", "checking", "ready", "degraded"},
                  node : Nodes \union {None}, dev : Devices]
  /\ resource \in Devices
  /\ hold \in [Devices -> [as : {"none", "run", "standby", "hand"},
                           mark : {"none", "exit", "standby"}]]
  /\ dark \subseteq Devices /\ routed \subseteq Devices
  /\ repair \in [st : {"none", "waiting", "manual", "healthy"},
                 node : Nodes \union {None}]
  /\ sbRepair \in {"none", "repairing", "retry", "manual", "healthy"}
  /\ rounds \in 0..MaxRounds
  /\ usable \subseteq Nodes
  /\ pc \in [Threads -> Pcs \union pcs]
  /\ job \in [Threads -> [op : ops \union {"none", "round", "assign_sb",
                                           "health", "resume"},
                          node : Nodes \union {None},
                          back : Nodes \union {None}, dev : Devices,
                          list : SUBSET Nodes]]
  /\ opLock \in Threads \union {None} /\ sbLock \in Threads \union {None}
  /\ events \in 0..MaxEvents
=============================================================================
