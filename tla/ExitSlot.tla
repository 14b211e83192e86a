------------------------------ MODULE ExitSlot ------------------------------
(***************************************************************************)
(* The exit of a slot (vpngate_manager.py): the supervisor that dials it,  *)
(* the listener of its port, the health checker, the operations of the     *)
(* administrator and of the Gateway, and the promotion of its standby.     *)
(* Each runs in a thread of its own.                                       *)
(***************************************************************************)
EXTENDS EgressRecovery

VARIABLES listener,  \* exit_slot_proxy_devices: device the port sends through
          pin,       \* exit_slot_pin_map
          seen       \* the lists the supervisor has read for this round

slotVars == <<listener, pin, seen>>
vars == <<egressVars, slotVars>>

Init ==
  /\ EgressInit /\ enabled \in {"off", "paused", "on"}
  /\ listener = None /\ pin = None /\ seen = enabled

Pins == {pin}

(* What an operation on the records of the exit leaves alone.              *)
Elsewhere == UNCHANGED <<enabled, standby, resource, dark, sbRepair, rounds,
                         events>>

(* tear_down_slot; the listener goes with it or stays.                     *)
tear_down_slot(record, stop_proxy) ==
  /\ StopRun(record)
  /\ listener' = IF stop_proxy THEN None ELSE listener
-----------------------------------------------------------------------------
(* Dialing the exit: bring_up_slot, by the supervisor ("cold") or for an   *)
(* operation.                                                              *)

(* The candidates select_slot_nodes and the checks of the operations allow *)
(* for this slot: its own node and pin do not count as used.               *)
Selectable(th) == usable \ ({standby.node} \union Pending(th))

Dial(th, op, n) == Goto(th, "reserve") /\ Work(th, op, n)

(* A slot that could not be dialed, by what asked for it.                  *)
failed(th) ==
  LET op == job[th].op IN
  \/ /\ op = "cold"  \* repair_slot_once
     /\ usable' = usable \ {job[th].node}
     /\ wait_for_standby(job[th].node, FALSE)
     /\ Goto(th, "check")
     /\ UNCHANGED <<run, job, lockVars>>
  \/ /\ op = "switch"
     /\ usable' = usable \ {job[th].node}
     /\ run' = Record("pending", None) /\ Done(th) /\ UNCHANGED repair
  \/ /\ op \in {"assign", "restore", "managed", "add"}
     /\ usable' \in {usable, usable \ {job[th].node}}
     /\ run' = Record("pending", None)
     /\ IF op = "add" \/ (op = "managed" /\ job[th].back # None)
        THEN /\ Goto(th, IF op = "add" THEN "delete" ELSE "restore")
             /\ opLock' = None /\ UNCHANGED <<job, sbLock>>
        ELSE Done(th)
     /\ UNCHANGED repair

DialStep == UNCHANGED <<enabled, standby, resource, sbRepair, rounds, events,
                        pin, seen>>

(* The candidate is reserved, what runs with the marker of the slot and no *)
(* record is reaped, and run_openvpn_until_ready starts the process on the *)
(* device of the slot, unless that is taken.                               *)
reserve_candidate(th) ==
  LET reaped == Without(Stray("exit")) IN
  /\ At(th, "reserve")
  /\ \/ /\ job[th].node \notin Pending(th)
        /\ IF reaped[Own] = Empty
           THEN /\ hold' = [reaped EXCEPT ![Own] = [as |-> "hand", mark |-> "exit"]]
                /\ dark' = dark \ {Own} /\ Goto(th, "dialed")
                /\ UNCHANGED <<usable, run, repair, job, lockVars>>
           ELSE hold' = reaped /\ failed(th) /\ UNCHANGED dark
     \/ job[th].node \in Pending(th) /\ failed(th) /\ UNCHANGED <<hold, dark>>
  /\ UNCHANGED <<routed, listener>> /\ DialStep

(* Route, listener and record, or the tunnel has not come up or has no     *)
(* route.  An operation is over with it, what the                          *)
(* supervisor has dialed is to be confirmed by the checker.                *)
register_slot(th) ==
  /\ At(th, "dialed")
  /\ \/ /\ routed' = routed \union {Own}
        /\ listener' = Own
        /\ run' = Record("up", job[th].node)
        /\ hold' = IF Held(Own) THEN [hold EXCEPT ![Own].as = "run"] ELSE hold
        /\ IF job[th].op = "cold" THEN UNCHANGED repair ELSE mark_healthy(job[th].node)
        /\ Done(th) /\ UNCHANGED usable
     \/ /\ hold' = Without({Own}) /\ routed' \in {routed, routed \ {Own}}
        /\ failed(th) /\ UNCHANGED listener
  /\ UNCHANGED dark /\ DialStep
-----------------------------------------------------------------------------
(* The promotion of the standby: promote_dedicated_standby_to_slot after   *)
(* its probe (check).                                                      *)

(* The standby leaves its record with its tunnel, the exit is taken down   *)
(* and its device becomes the standby's.                                   *)
promote_take(th) ==
  /\ At(th, "take") /\ sbLock \in {None, th}
  /\ \/ /\ StandbyAlive
        /\ run' = Absent
        /\ hold' = [Without(RunDevice) EXCEPT ![standby.dev].as = "hand"]
        /\ routed' = routed \ {run.dev}
        /\ resource' = run.dev
        /\ standby' = NoStandby
        /\ Goto(th, "put") /\ sbLock' = th
        /\ job' = [job EXCEPT ![th].node = standby.node, ![th].dev = standby.dev]
        /\ UNCHANGED opLock
     \/ /\ ~StandbyAlive /\ standby' = NoStandby /\ Done(th)
        /\ UNCHANGED <<run, hold, routed, resource>>
  /\ UNCHANGED <<enabled, dark, storeVars, usable, events, slotVars>>

promote_busy(th) ==
  /\ At(th, "take") /\ sbLock \notin {None, th} /\ Event /\ Done(th)
  /\ UNCHANGED <<enabled, recordVars, tunnelVars, storeVars, usable, slotVars>>

promote_put(th) ==
  LET d == job[th].dev IN
  /\ At(th, "put")
  /\ run' = [st |-> "up", node |-> job[th].node, dev |-> d]
  /\ hold' = IF Held(d) THEN [hold EXCEPT ![d].as = "run"] ELSE hold
  /\ listener' = d /\ pin' = None
  /\ mark_healthy(job[th].node) /\ sb_clear /\ Done(th)
  /\ UNCHANGED <<enabled, standby, resource, dark, routed, usable, events, seen>>

(* repair_slot_once, by the thread that takes the lock of the slot.        *)
repair_slot(th, n, op) ==
  \/ /\ repair.st = "manual"
     /\ Goto(th, "idle") /\ job' = [job EXCEPT ![th] = NoJob]
     /\ UNCHANGED <<repair, usable, opLock>>
  \/ /\ repair.st # "manual"
     /\ wait_for_standby(n, FALSE) /\ usable' = usable \ {n}
     /\ Goto(th, "check") /\ Work(th, op, n) /\ opLock' = th

(* The keeper repairs a slot that waits; it must get the slot's lock.      *)
resume_repair ==
  /\ At("keeper", "resume") /\ enabled = "on" /\ repair.st = "waiting"
  /\ sbRepair # "manual"
  /\ \/ /\ opLock = None /\ opLock' = "keeper" /\ usable' = usable \ {repair.node}
        /\ Goto("keeper", "check") /\ Work("keeper", "resume", None)
        /\ UNCHANGED events
     \/ /\ opLock # None /\ Event /\ Goto("keeper", "idle")
        /\ UNCHANGED <<opLock, usable, job>>
  /\ UNCHANGED <<enabled, recordVars, tunnelVars, storeVars, sbLock, slotVars>>
-----------------------------------------------------------------------------
(* The supervisor: supervise_exit_slots_once. *)

supervise_begin ==
  /\ At("supervisor", "idle") /\ Goto("supervisor", "visit")
  /\ seen' = enabled
  /\ UNCHANGED <<enabled, recordVars, tunnelVars, storeVars, usable, job,
                 lockVars, events, listener, pin>>

Visit == At("supervisor", "visit") /\ UNCHANGED <<sbLock, pin, seen>>
                                   /\ Elsewhere

(* A deleted slot is taken down without its lock, a paused one with it.    *)
visit_inactive ==
  /\ Visit /\ seen # "on" /\ (seen = "paused" => opLock = None)
  /\ IF \/ seen = "off"
        \/ listener # None \/ run.st = "up"
     THEN tear_down_slot(IF seen = "off" THEN Absent ELSE Record("paused", None), TRUE)
     ELSE run' = Record("paused", None) /\ UNCHANGED <<hold, routed, listener>>
  /\ Goto("supervisor", "idle")
  /\ UNCHANGED <<repair, usable, job, opLock>>

(* kill_unregistered_slot_openvpn_processes, then what the slot needs.     *)
Slot(A) == Visit /\ seen = "on" /\ opLock = None /\ A

visit_manual ==
  /\ Slot(repair.st = "manual")
  /\ IF run.st = "disconnected"
     THEN hold' = Without(Stray("exit")) /\ UNCHANGED <<run, routed>>
     ELSE /\ run' = Record("disconnected", repair.node)
          /\ hold' = Without(Stray("exit") \union RunDevice)
          /\ routed' = routed \ {run.dev}
  /\ Goto("supervisor", "idle")
  /\ UNCHANGED <<repair, usable, job, opLock, listener>>

visit_alive ==
  /\ Slot(repair.st # "manual" /\ RunAlive)
  /\ hold' = Without(Stray("exit")) /\ Goto("supervisor", "idle")
  /\ UNCHANGED <<run, routed, listener, repair, usable, job, opLock>>

visit_dead ==
  /\ Slot(repair.st # "manual" /\ ~RunAlive /\ run.node # None)
  /\ hold' = Without(Stray("exit"))
  /\ repair_slot("supervisor", run.node, "repair")
  /\ UNCHANGED <<run, routed, listener>>

(* promote_initial_slot_standby: what select_slot_nodes lets through does  *)
(* never include the standby's own candidate, which main_reserved_         *)
(* candidate_ids adds to those in use.                                     *)
InitialEligible == pin \in {None, standby.node} /\ standby.node \in Selectable("supervisor")

(* pick_slot_node: the pinned one, if it is in the pool and not in use,    *)
(* also while it cools down.                                               *)
PickedNodes ==
  Selectable("supervisor")
    \union ({pin} \ ({None, standby.node} \union Pending("supervisor")))

(* A slot without a node is dialed; an empty pool leaves it pending.       *)
visit_cold ==
  /\ Slot(repair.st # "manual" /\ ~RunAlive /\ run.node = None)
  /\ IF InitialEligible
     THEN /\ hold' = Without(Stray("exit")) /\ opLock' = "supervisor"
          /\ Goto("supervisor", "check") /\ Work("supervisor", "repair", None)
          /\ UNCHANGED <<run, routed, listener>>
     ELSE /\ hold' = Without(Stray("exit") \union RunDevice)
          /\ routed' = routed \ {run.dev} /\ UNCHANGED listener
          /\ \/ /\ Selectable("supervisor") = {}
                /\ run' = Record("pending", None)
                /\ Goto("supervisor", "idle") /\ UNCHANGED <<job, opLock>>
             \/ /\ \E n \in PickedNodes : Dial("supervisor", "cold", n)
                /\ run' = Absent /\ opLock' = "supervisor"
  /\ UNCHANGED <<repair, usable>>
-----------------------------------------------------------------------------
(* The checker: slot_egress_checker_loop. *)

(* The probe through the port of the slot, its route put back before.      *)
check_slot_egress ==
  LET route == routed \union RunDevice
      ok == listener # None /\ Held(listener) /\ listener \notin dark /\ listener \in route
  IN /\ At("checker", "idle") /\ enabled = "on" /\ RunAlive
     /\ routed' = route
     /\ Goto("checker", "probed") /\ Work("checker", IF ok THEN "ok" ELSE "bad", None)
  /\ UNCHANGED <<enabled, recordVars, hold, dark, storeVars, usable, lockVars,
                 events, slotVars>>

(* Its result, which is of the tunnel that was there then, is put on the   *)
(* exit that is there now; misses below the threshold change nothing.      *)
record_slot_egress_probe ==
  /\ At("checker", "probed")
  /\ \/ /\ job["checker"].op = "ok"
        /\ IF run.node # None THEN mark_healthy(run.node) ELSE UNCHANGED repair
        /\ Goto("checker", "idle") /\ job' = [job EXCEPT !["checker"] = NoJob]
        /\ UNCHANGED <<usable, opLock, events>>
     \/ /\ job["checker"].op = "bad" /\ run.st # "absent" /\ opLock = None
        /\ repair_slot("checker", run.node, "repair") /\ UNCHANGED events
     \/ /\ job["checker"].op = "bad"
        /\ \/ run.st = "absent" /\ UNCHANGED events
           \/ run.st # "absent" /\ opLock # None /\ Event
        /\ Goto("checker", "idle") /\ job' = [job EXCEPT !["checker"] = NoJob]
        /\ UNCHANGED <<usable, opLock, repair>>
  /\ UNCHANGED <<enabled, recordVars, tunnelVars, sbRepair, rounds, sbLock,
                 slotVars>>
-----------------------------------------------------------------------------
(* The operations. *)

Asked == At("admin", "idle") /\ Event

add_one_slot ==
  /\ Asked /\ enabled = "off" /\ enabled' = "on"
  /\ UNCHANGED <<recordVars, tunnelVars, storeVars, usable, threadVars,
                 lockVars, listener, pin, seen>>

(* The lists are saved first; what runs is taken down without the lock.    *)
delete_slot ==
  /\ \/ Asked
     \/ At("admin", "delete") /\ UNCHANGED events
  /\ enabled # "off" /\ enabled' = "off" /\ pin' = None
  /\ Goto("admin", "delete_down")
  /\ UNCHANGED <<recordVars, tunnelVars, storeVars, usable, job, lockVars,
                 listener, seen>>

delete_down ==
  /\ At("admin", "delete_down") /\ Done("admin")
  /\ tear_down_slot(Absent, TRUE) /\ clear
  /\ Elsewhere /\ UNCHANGED <<usable, pin, seen>>

stop_slot ==
  /\ Asked /\ enabled # "off" /\ enabled' = "paused"
  /\ Goto("admin", "stop_down")
  /\ UNCHANGED <<recordVars, tunnelVars, storeVars, usable, job, lockVars,
                 listener, pin, seen>>

stop_down ==
  /\ At("admin", "stop_down") /\ Goto("admin", "stop_mark")
  /\ tear_down_slot(Absent, TRUE)
  /\ Elsewhere /\ UNCHANGED <<usable, job, lockVars, repair, pin, seen>>

(* mark_slot_paused overwrites the record, whatever has become of it.      *)
stop_mark ==
  /\ At("admin", "stop_mark") /\ Done("admin")
  /\ run' = Record("paused", None)
  /\ Elsewhere /\ UNCHANGED <<hold, routed, usable, repair, slotVars>>

start_slot ==
  /\ Asked /\ enabled = "paused" /\ enabled' = "on"
  /\ UNCHANGED <<recordVars, tunnelVars, storeVars, usable, threadVars,
                 lockVars, listener, pin, seen>>

Change == /\ opLock = None /\ opLock' = "admin"
          /\ UNCHANGED <<sbLock, repair, usable, seen>>

(* Another node for the slot; its present one stays reserved.              *)
switch_slot_node ==
  /\ Asked /\ enabled = "on" /\ Change
  /\ \E n \in Selectable("admin") \ {run.node} : Dial("admin", "switch", n)
  /\ pin' = None /\ tear_down_slot(Absent, FALSE)
  /\ UNCHANGED <<enabled, standby, resource, dark, sbRepair, rounds>>

Assign(op, n) ==
  /\ Change
  /\ enabled' = IF enabled = "paused" THEN "on" ELSE enabled
  /\ pin' = n /\ tear_down_slot(Absent, FALSE)
  /\ Goto("admin", "reserve")
  /\ job' = [job EXCEPT !["admin"] =
               [NoJob EXCEPT !.op = op, !.node = n,
                             !.back = IF op = "managed" /\ run.st = "up" /\ run.node # n
                                      THEN run.node ELSE None]]
  /\ UNCHANGED <<standby, resource, dark, sbRepair, rounds>>

(* assign_node_to_slot, and assign_managed_slot, which goes back to the    *)
(* node before when the new one fails.                                     *)
assign_node_to_slot(n) ==
  /\ Asked /\ enabled # "off" /\ n \in Selectable("admin")
  /\ \E op \in {"assign", "managed"} : Assign(op, n)

restore_node ==
  LET n == job["admin"].back IN
  /\ At("admin", "restore") /\ UNCHANGED events
  /\ enabled # "off" /\ n \in Selectable("admin") /\ Assign("restore", n)

(* repair_required, rollback_failed.                                       *)
restore_failed ==
  /\ At("admin", "restore") /\ Done("admin")
  /\ \/ enabled = "off" \/ job["admin"].back \notin Selectable("admin")
     \/ opLock # None
  /\ UNCHANGED <<enabled, recordVars, tunnelVars, storeVars, usable, events,
                 slotVars>>

(* A new slot with a node; it is deleted again when the node fails.        *)
add_slot_with_node(n) ==
  /\ Asked /\ enabled = "off" /\ n \in Selectable("admin")
  /\ opLock = None /\ opLock' = "admin"
  /\ enabled' = "on" /\ pin' = n
  /\ tear_down_slot(Absent, FALSE)
  /\ Dial("admin", "add", n)
  /\ UNCHANGED <<standby, resource, dark, storeVars, usable, sbLock,
                 seen>>
-----------------------------------------------------------------------------
Admin == \/ add_one_slot \/ delete_slot \/ stop_slot \/ start_slot
         \/ switch_slot_node
         \/ \E n \in Nodes : assign_node_to_slot(n) \/ add_slot_with_node(n)
         \/ /\ UNCHANGED slotVars
            /\ \/ retry_dedicated_standby
               \/ \E n \in Nodes : assign_dedicated_standby(n, Pins)

DialOrPromote(th) ==
  \/ reserve_candidate(th) \/ register_slot(th)
  \/ check(th, Done(th)) /\ UNCHANGED slotVars
  \/ promote_take(th) \/ promote_busy(th) \/ promote_put(th)
StandbyDial(th) == /\ Provision(th, Done(th))
                   /\ UNCHANGED slotVars

Supervisor == \/ supervise_begin \/ visit_inactive \/ visit_manual
              \/ visit_alive \/ visit_dead \/ visit_cold
              \/ DialOrPromote("supervisor")
KeeperStep == \/ (Keeper("resume", Pins) \/ retire_standby) /\ UNCHANGED slotVars
              \/ resume_repair \/ StandbyDial("keeper") \/ DialOrPromote("keeper")
Checker == check_slot_egress \/ record_slot_egress_probe \/ DialOrPromote("checker")
AdminStep == \/ delete_down \/ stop_down \/ stop_mark
             \/ At("admin", "delete") /\ delete_slot
             \/ restore_node \/ restore_failed
             \/ StandbyDial("admin") \/ DialOrPromote("admin")
Environment == \/ \E d \in Devices : (die(d) \/ darken(d)) /\ UNCHANGED slotVars
               \/ \E n \in Nodes : refresh(n) /\ UNCHANGED slotVars
               \/ restart("supervisor", "idle", NoJob) /\ listener' = None /\ seen' = enabled /\ UNCHANGED pin

Next == Admin \/ AdminStep \/ Supervisor \/ KeeperStep \/ Checker \/ Environment

Spec == Init /\ [][Next]_vars

(* The threads run; one that waits for a lock gets it when the lock is     *)
(* free again and again.                                                   *)
FairSpec == /\ Spec /\ WF_vars(AdminStep)
            /\ SF_vars(Supervisor) /\ SF_vars(KeeperStep) /\ SF_vars(Checker)
-----------------------------------------------------------------------------
(* Every variable has its shape. *)
STypeOK ==
  /\ EgressTypeOK({"visit", "probed", "delete", "delete_down", "stop_down",
                   "stop_mark", "restore"},
                  {"cold", "switch", "assign", "restore", "managed", "add",
                   "repair", "ok", "bad"})
  /\ listener \in Devices \union {None} /\ pin \in Nodes \union {None}
  /\ seen \in {"off", "paused", "on"}

(* A slot that is on and whose exit has died, or that waits for its        *)
(* standby, forwards again, or the administrator has it in hand.           *)
Serving == RunAlive /\ Forwards(run.dev) /\ listener = run.dev
Failed == enabled = "on" /\ (repair.st = "waiting" \/ (run.node # None /\ ~RunAlive))
FailureIsHandled == Failed ~> \/ Serving \/ enabled # "on"
                              \/ repair.st = "manual" \/ sbRepair = "manual"
                              \/ ~At("admin", "idle")

(* What the keeper reaps is never the tunnel of the exit: a promoted       *)
(* standby keeps its marker and leaves the standby's record.               *)
ReapSparesExit ==
  [][At("keeper", "idle") /\ ~At("keeper", "idle")' /\ RunAlive => RunAlive']_vars
=============================================================================
