--------------------------- MODULE MainConnection ---------------------------
(***************************************************************************)
(* The main connection (vpngate_manager.py): the bootstrap and the         *)
(* maintenance rounds that restore it, the health checker, connect and     *)
(* disconnect of the administrator, and the promotion of its standby.      *)
(* opLock is the runtime mutation lease; enabled is "paused" while         *)
(* connection_enabled is false.  The two-phase assignment of a main is     *)
(* MainAssignment: here none is under way.                                 *)
(***************************************************************************)
EXTENDS EgressRecovery

VARIABLE proxyOk  \* get_state: proxy_ok

vars == <<egressVars, proxyOk>>

Boots == {"boot_old", "boot", "boot_switch", "boot_again"}
Booting == job["supervisor"].op \in Boots
Connecting == {"main_dial", "main_dialed", "main_verify"}
MayChange(th) == opLock \in {None, th}

Boot(op, n) == [NoJob EXCEPT !.op = op, !.node = n]

Init ==
  /\ enabled \in {"paused", "on"} /\ proxyOk = FALSE
  /\ run = Absent /\ standby = NoStandby /\ resource \in Spares
  /\ hold = [d \in Devices |-> Empty] /\ dark = {} /\ routed = {}
  /\ repair = [st |-> "none", node |-> None]
  /\ sbRepair = "none" /\ rounds = 0
  /\ usable = Nodes
  /\ pc = [[u \in Threads |-> "idle"] EXCEPT !["supervisor"] = "restore"]
  /\ job = [[u \in Threads |-> NoJob] EXCEPT !["supervisor"] = Boot("boot", None)]
  /\ opLock = None /\ sbLock = None
  /\ events = 0

(* The end of a connection, a promotion or a search for a standby: a round *)
(* of maintenance goes on to its scan with the lease, the bootstrap to     *)
(* what it tries next, any other thread is done.                           *)
Return(th, ok) ==
  LET op == job[th].op IN
  IF th # "supervisor" \/ op \in {"none", "switch"} \/ (op \in Boots /\ ok) \/ op = "boot_again"
  THEN Done(th)
  ELSE /\ sbLock' = Unlocked(sbLock, th) /\ opLock' = opLock
       /\ \/ /\ op \in {"repair", "restore"}
             /\ Goto(th, "scan") /\ job' = [job EXCEPT ![th] = NoJob]
          \/ /\ op = "boot_old" /\ Goto(th, "restore") /\ Work(th, "boot", None)
          \/ /\ op = "boot" /\ Goto(th, "switch") /\ Work(th, "boot_switch", None)
          \/ /\ op = "boot_switch" /\ Goto(th, "restore") /\ Work(th, "boot_again", None)

(* stop_active_openvpn: the table cleaned is that of tun0 when no main is  *)
(* recorded, and what the engine runs without a marker goes as well.       *)
stop_active_openvpn(kept) ==
  /\ run' = Absent
  /\ hold' = [d \in Devices |->
                IF d \in RunDevice \/ hold[d].mark = "exit" THEN Empty
                ELSE IF d \in kept THEN [hold[d] EXCEPT !.as = "hand"] ELSE hold[d]]
  /\ routed' = routed \ {run.dev}

(* check_proxy_health looks at the device recorded, tun0 by default.       *)
Probe == Held(run.dev) /\ run.dev \notin dark
ProbeRoutes == routed' = routed \union (IF Held(run.dev) THEN {run.dev} ELSE {})

(* A dial and a scan take seconds: a promotion that has stopped the main   *)
(* meanwhile has written its record before they end.                       *)
Settled == \A u \in Threads : pc[u] # "put"

Kept == UNCHANGED <<enabled, dark>>
-----------------------------------------------------------------------------
(* connect_node, for the administrator, at the bootstrap ("boot_old") and  *)
(* for auto_switch_node.  The candidate is not reserved while it is dialed.*)

Connectable(th) == Nodes \ ({standby.node} \union Pending(th))

Connect(th, op, n) ==
  /\ MayChange(th) /\ opLock' = th
  /\ enabled' = "on" /\ stop_active_openvpn({})
  /\ Goto(th, "main_dial") /\ Work(th, op, n)

(* clear_active_connection_state.                                          *)
connect_failed(th) ==
  /\ usable' \in {usable, usable \ {job[th].node}}
  /\ run' = Absent /\ proxyOk' = FALSE /\ Return(th, FALSE)

main_dial(th) ==
  /\ At(th, "main_dial")
  /\ \/ /\ ~Held(Own)
        /\ hold' = [hold EXCEPT ![Own] = [as |-> "hand", mark |-> "exit"]]
        /\ dark' = dark \ {Own} /\ Goto(th, "main_dialed")
        /\ UNCHANGED <<run, usable, job, lockVars, proxyOk>>
     \/ /\ Held(Own) /\ hold' = Without(RunDevice)
        /\ connect_failed(th) /\ UNCHANGED dark
  /\ UNCHANGED <<enabled, standby, resource, routed, storeVars, events>>

main_register(th) ==
  /\ At(th, "main_dialed") /\ Settled
  /\ \/ /\ run' = [st |-> "up", node |-> job[th].node, dev |-> Own]
        /\ hold' = IF Held(Own) THEN [hold EXCEPT ![Own].as = "run"] ELSE hold
        /\ routed' = routed \union {Own} /\ Goto(th, "main_verify")
        /\ UNCHANGED <<usable, job, lockVars, proxyOk>>
     \/ /\ hold' = Without(RunDevice \union {Own})
        /\ routed' \in {routed, routed \ {Own}}
        /\ connect_failed(th)
  /\ Kept /\ UNCHANGED <<standby, resource, storeVars, events>>

(* A connection whose probe fails is kept, and reported as not verified.   *)
main_verify(th) ==
  /\ At(th, "main_verify") /\ ProbeRoutes
  /\ proxyOk' = Probe
  /\ IF Probe THEN mark_healthy(job[th].node) ELSE UNCHANGED repair
  /\ Return(th, TRUE)
  /\ Kept /\ UNCHANGED <<recordVars, hold, sbRepair, rounds, usable, events>>
-----------------------------------------------------------------------------
(* promote_dedicated_standby_to_main, after its probe (check). *)

Repairs == {"repair", "resume"}
Unpromoted(th) == proxyOk' = IF job[th].op \in Repairs THEN FALSE ELSE proxyOk

(* The standby leaves its record with its tunnel, the old main is stopped  *)
(* and its device becomes the standby's.                                   *)
promote_take(th) ==
  /\ At(th, "take") /\ sbLock \in {None, th}
  /\ standby' = NoStandby
  /\ \/ /\ StandbyAlive /\ MayChange(th)
        /\ stop_active_openvpn({standby.dev})
        /\ resource' = run.dev
        /\ Goto(th, "put") /\ sbLock' = th
        /\ job' = [job EXCEPT ![th].node = standby.node, ![th].dev = standby.dev]
        /\ UNCHANGED <<sbRepair, rounds, opLock, proxyOk, events>>
     \/ /\ ~StandbyAlive /\ Return(th, FALSE) /\ Unpromoted(th)
        /\ UNCHANGED <<run, hold, routed, resource, sbRepair, rounds, events>>
     \/ /\ StandbyAlive /\ ~MayChange(th)  \* raises in the keeper's round
        /\ Event /\ finish_round /\ Done(th)
        /\ UNCHANGED <<run, hold, routed, resource, proxyOk>>
  /\ Kept /\ UNCHANGED <<repair, usable>>

promote_busy(th) ==
  /\ At(th, "take") /\ sbLock \notin {None, th}
  /\ Return(th, FALSE) /\ Unpromoted(th)
  /\ Kept /\ UNCHANGED <<recordVars, hold, routed, storeVars, usable, events>>

(* The record is written without the lease.                                *)
promote_put(th) ==
  LET d == job[th].dev IN
  /\ At(th, "put") /\ Goto(th, "validate")
  /\ run' = [st |-> "up", node |-> job[th].node, dev |-> d]
  /\ hold' = IF Held(d) THEN [hold EXCEPT ![d].as = "run"] ELSE hold
  /\ Kept /\ UNCHANGED <<standby, resource, routed, storeVars, usable, job,
                         lockVars, proxyOk, events>>

(* Up to three probes decide whether the promotion stands.                 *)
promote_validate(th) ==
  /\ At(th, "validate")
  /\ \/ /\ Probe /\ ProbeRoutes /\ proxyOk' = TRUE
        /\ mark_healthy(job[th].node) /\ sb_clear /\ Return(th, TRUE)
        /\ UNCHANGED <<run, hold, events>>
     \/ /\ ~Probe /\ MayChange(th) /\ stop_active_openvpn({})
        /\ Return(th, FALSE) /\ Unpromoted(th)
        /\ UNCHANGED <<storeVars, events>>
     \/ /\ ~Probe /\ ~MayChange(th)
        /\ Event /\ finish_round /\ Done(th)
        /\ ProbeRoutes /\ UNCHANGED <<run, hold, repair, proxyOk>>
  /\ Kept /\ UNCHANGED <<standby, resource, usable>>
-----------------------------------------------------------------------------
(* repair_main_once for the main n that was found failed. *)

\* mutant: a report about an earlier main is taken for one about this main
stale_never(n) == FALSE

\* mutant: any report is taken for a late one while the main has a process
stale_alive(n) == RunAlive

(* A newer main that was verified is not rolled back by a late report.     *)
Stale(n) == /\ RunAlive
            /\ \/ run.node # n /\ proxyOk
               \/ repair.st = "healthy" /\ repair.node # n

wait(n) == wait_for_standby(n, repair = [st |-> "healthy", node |-> n])

(* A report acts some time after it was made.  The wait is recorded also   *)
(* when the lease is not to be had.                                        *)
repair_main_once(th) ==
  LET n == job[th].back IN
  /\ At(th, "blame")
  /\ \/ /\ MayChange(th) /\ Stale(n)
        /\ mark_healthy(run.node) /\ Return(th, TRUE) /\ UNCHANGED <<usable, proxyOk, events>>
     \/ /\ MayChange(th) /\ ~Stale(n) /\ repair.st = "manual"
        /\ Return(th, FALSE) /\ UNCHANGED <<repair, usable, proxyOk, events>>
     \/ /\ MayChange(th) /\ ~Stale(n) /\ repair.st # "manual"
        /\ wait(n) /\ usable' = usable \ {n} /\ UNCHANGED events
        /\ IF StandbyAlive
           THEN /\ Goto(th, "check") /\ opLock' = th /\ UNCHANGED <<job, sbLock, proxyOk>>
           ELSE Return(th, FALSE) /\ Unpromoted(th)
     \/ /\ ~MayChange(th) /\ Event
        /\ IF n = run.node THEN wait(n) ELSE UNCHANGED repair
        /\ Done(th) /\ UNCHANGED <<usable, proxyOk>>
  /\ Kept /\ UNCHANGED <<recordVars, hold, routed, sbRepair, rounds>>

(* The keeper's, of a main that waits: _resume_waiting_target.             *)
resume_repair ==
  /\ At("keeper", "resume") /\ enabled = "on" /\ repair.st = "waiting"
  /\ sbRepair # "manual"
  /\ Goto("keeper", "blame")
  /\ job' = [job EXCEPT !["keeper"] = [NoJob EXCEPT !.op = "resume", !.back = repair.node]]
  /\ UNCHANGED <<enabled, recordVars, tunnelVars, storeVars, usable, lockVars,
                 events, proxyOk>>

(* The standby of a main that is disconnected is taken down.               *)
retire_main_standby ==
  /\ At("keeper", "idle") /\ sbLock = None /\ enabled # "on"
  /\ standby # NoStandby \/ Stray("standby") # {}
  /\ standby' = NoStandby /\ hold' = Without(StandbyDevice \union Stray("standby"))
  /\ routed' = routed \ {IF standby.st = "none" THEN resource ELSE standby.dev}
  /\ UNCHANGED <<enabled, run, resource, dark, storeVars, usable, threadVars,
                 lockVars, events, proxyOk>>
-----------------------------------------------------------------------------
(* The bootstrap and maintain_valid_nodes, which holds the lease until the *)
(* end of its scan of the pool. *)

Round == UNCHANGED <<standby, resource, dark, sbRepair, rounds>>

(* A main that has died is repaired, one that never was is restored.       *)
maintain_valid_nodes ==
  /\ At("supervisor", "idle") /\ MayChange("supervisor")
  /\ \/ /\ enabled = "on" /\ ~RunAlive /\ run.node # None
        /\ Goto("supervisor", "blame")
        /\ job' = [job EXCEPT !["supervisor"] =
                     [NoJob EXCEPT !.op = "repair", !.back = run.node]]
     \/ /\ enabled = "on" /\ ~RunAlive /\ run.node = None /\ usable # {}
        /\ Goto("supervisor", "restore") /\ Work("supervisor", "restore", None)
     \/ /\ enabled = "on" /\ ~RunAlive => run.node = None /\ usable = {}
        /\ Goto("supervisor", "scan") /\ UNCHANGED job
  /\ opLock' = "supervisor"
  /\ Round /\ UNCHANGED <<enabled, run, hold, routed, repair, usable, sbLock, events,
                          proxyOk>>

(* The administrator asks for a new pool: the main is stopped for it.      *)
maintain_forced ==
  /\ At("supervisor", "idle") /\ opLock = None /\ Event
  /\ stop_active_openvpn({}) /\ Goto("supervisor", "scan") /\ opLock' = "supervisor"
  /\ Round /\ UNCHANGED <<enabled, repair, usable, job, sbLock, proxyOk>>

(* _restore_main_from_dedicated_standby: a standby is brought up first     *)
(* unless there is one that was verified.                                  *)
restore_main ==
  /\ At("supervisor", "restore")
  /\ IF RunAlive \/ enabled # "on" \/ sbRepair = "manual" \/ sbLock # None
     THEN Return("supervisor", RunAlive)
     ELSE /\ IF StandbyAlive /\ standby.st = "ready"
             THEN Goto("supervisor", "check") /\ UNCHANGED sbLock
             ELSE Goto("supervisor", "sb_list") /\ sbLock' = "supervisor"
          /\ UNCHANGED <<job, opLock>>
  /\ Round /\ UNCHANGED <<enabled, run, hold, routed, repair, usable, events, proxyOk>>

restore_provisioned ==
  /\ Goto("supervisor", "check") /\ sbLock' = None /\ UNCHANGED <<job, opLock>>

restore_failed ==
  /\ Exhausted("supervisor") /\ Return("supervisor", FALSE)
  /\ Round /\ UNCHANGED <<enabled, run, hold, routed, repair, usable, events, proxyOk>>

(* auto_switch_node leaves a main that waits for its standby alone, and    *)
(* without a candidate it stops what there is.                             *)
Switchable == usable \ ({standby.node, run.node} \union Pending("supervisor"))

auto_switch_node(op) ==
  \/ /\ repair.st \in {"waiting", "manual"} \/ enabled # "on"
     /\ Return("supervisor", FALSE)
     /\ UNCHANGED <<enabled, run, hold, routed, proxyOk>>
  \/ /\ repair.st \notin {"waiting", "manual"} /\ enabled = "on"
     /\ Switchable = {} /\ stop_active_openvpn({}) /\ proxyOk' = FALSE
     /\ Return("supervisor", FALSE) /\ UNCHANGED enabled
  \/ /\ repair.st \notin {"waiting", "manual"} /\ enabled = "on"
     /\ \E n \in Switchable : Connect("supervisor", op, n)
     /\ UNCHANGED <<sbLock, proxyOk>>

boot_switch ==
  /\ At("supervisor", "switch") /\ auto_switch_node("boot_switch")
  /\ Round /\ UNCHANGED <<repair, usable, events>>

(* The end of a round: a main that is down is connected anew.              *)
scan_end ==
  /\ At("supervisor", "scan") /\ Settled
  /\ IF enabled = "on" /\ ~RunAlive /\ usable # {}
     THEN auto_switch_node("switch")
     ELSE Done("supervisor") /\ UNCHANGED <<enabled, run, hold, routed, proxyOk>>
  /\ Round /\ UNCHANGED <<repair, usable, events>>

(* A restart: the main that was active last is connected again if it can   *)
(* be, else one is restored.  proxy_ok is not among what the state file    *)
(* starts with.                                                            *)
restart_main ==
  /\ restart("supervisor",
       IF enabled # "on" THEN "idle"
       ELSE IF run.node \in usable THEN "main_dial" ELSE "restore",
       IF enabled # "on" THEN NoJob
       ELSE IF run.node \in usable THEN Boot("boot_old", run.node) ELSE Boot("boot", None))
  /\ proxyOk' = FALSE
-----------------------------------------------------------------------------
(* background_proxy_checker. *)

CheckerOnly == UNCHANGED <<enabled, recordVars, hold, dark, sbRepair, rounds, events>>

(* The probe is put off while a connection is made.                        *)
check_main ==
  /\ At("checker", "idle") /\ \A th \in Threads : pc[th] \notin Connecting
  /\ ProbeRoutes /\ Goto("checker", "probed")
  /\ job' = [job EXCEPT !["checker"] =
               [NoJob EXCEPT !.op = IF Probe THEN "ok" ELSE "bad",
                             !.node = run.node, !.dev = run.dev]]
  /\ CheckerOnly /\ UNCHANGED <<repair, usable, lockVars, proxyOk>>

Idle == /\ Goto("checker", "idle") /\ job' = [job EXCEPT !["checker"] = NoJob]
Probed(op) == /\ At("checker", "probed") /\ job["checker"].op = op
              /\ run.node = job["checker"].node /\ run.dev = job["checker"].dev
              /\ CheckerOnly /\ UNCHANGED <<routed, lockVars>>

(* A result of an earlier main is dropped (a reconnection to the same      *)
(* candidate is not told apart here).                                      *)
probe_dropped ==
  /\ At("checker", "probed")
  /\ run.node # job["checker"].node \/ run.dev # job["checker"].dev
  /\ Idle /\ CheckerOnly /\ UNCHANGED <<routed, lockVars, repair, usable, proxyOk>>

probe_ok ==
  /\ Probed("ok") /\ Idle /\ proxyOk' = TRUE
  /\ IF run.node # None THEN mark_healthy(run.node) ELSE UNCHANGED repair
  /\ UNCHANGED usable

(* A failure at the threshold; misses below it change nothing.             *)
probe_bad ==
  /\ Probed("bad") /\ proxyOk' = FALSE
  /\ IF run.node = None THEN Idle /\ UNCHANGED usable
     ELSE /\ usable' = usable \ {run.node}
          /\ Goto("checker", "blame")
          /\ job' = [job EXCEPT !["checker"] = [NoJob EXCEPT !.op = "repair", !.back = run.node]]
  /\ UNCHANGED repair
-----------------------------------------------------------------------------
(* The operations of the administrator. *)

Asked == At("admin", "idle") /\ Event

connect_node(n) ==
  /\ Asked /\ opLock = None /\ n \in Connectable("admin") /\ Connect("admin", "connect", n)
  /\ UNCHANGED <<standby, resource, dark, storeVars, usable, sbLock, proxyOk>>

(* proxy_ok is left to the checker.                                        *)
disconnect_main_connection ==
  /\ Asked /\ opLock = None /\ enabled' = "paused" /\ stop_active_openvpn({})
  /\ UNCHANGED <<standby, resource, dark, storeVars, usable, threadVars, lockVars,
                 proxyOk>>

Admin == \/ \E n \in Nodes : connect_node(n)
         \/ disconnect_main_connection
         \/ retry_dedicated_standby /\ UNCHANGED proxyOk
         \/ \E n \in Nodes : assign_dedicated_standby(n, {}) /\ UNCHANGED proxyOk
-----------------------------------------------------------------------------
Promote(th) == \/ /\ check(th, Return(th, FALSE))
                  /\ IF At(th, "take")' THEN UNCHANGED proxyOk ELSE Unpromoted(th)
               \/ promote_take(th) \/ promote_busy(th)
               \/ promote_put(th) \/ promote_validate(th)
ConnectStep(th) == main_dial(th) \/ main_register(th) \/ main_verify(th)

Supervisor ==
  \/ maintain_valid_nodes \/ repair_main_once("supervisor") \/ scan_end
  \/ restore_main \/ restore_failed \/ boot_switch
  \/ ConnectStep("supervisor") \/ Promote("supervisor")
  \/ /\ \/ list_candidates("supervisor", {}) \/ select_standby("supervisor", {})
        \/ Provision("supervisor", restore_provisioned)
     /\ UNCHANGED proxyOk
KeeperStep ==
  /\ ~Booting
  /\ \/ /\ \/ Keeper(IF RunAlive THEN "resume" ELSE "check", {})
           \/ Provision("keeper", Done("keeper"))
        /\ UNCHANGED proxyOk
     \/ retire_main_standby \/ resume_repair \/ repair_main_once("keeper")
     \/ Promote("keeper")
Checker ==
  /\ ~Booting
  /\ \/ check_main \/ probe_dropped \/ probe_ok \/ probe_bad
     \/ repair_main_once("checker") \/ Promote("checker")
AdminStep == \/ ConnectStep("admin")
             \/ Provision("admin", Done("admin")) /\ UNCHANGED proxyOk
Environment ==
  \/ \E d \in Devices : (die(d) \/ darken(d)) /\ UNCHANGED proxyOk
  \/ \E n \in Nodes : refresh(n) /\ UNCHANGED proxyOk
  \/ restart_main

Next == \/ ~Booting /\ (Admin \/ maintain_forced)
        \/ AdminStep \/ Supervisor \/ KeeperStep \/ Checker \/ Environment

Spec == Init /\ [][Next]_vars

(* The threads run; one that waits for the lease or a lock gets it when it *)
(* is free again and again.                                                *)
FairSpec == /\ Spec /\ WF_vars(AdminStep)
            /\ SF_vars(Supervisor) /\ SF_vars(KeeperStep) /\ SF_vars(Checker)
-----------------------------------------------------------------------------
Serving == RunAlive /\ Forwards(run.dev)

(* A background repair is decided against the main that was reported, or   *)
(* against one that is not up or not verified: a late report about an      *)
(* earlier main does not count.  From then until it takes that main down   *)
(* nobody puts another in its place.                                       *)
Replacing(th) == pc[th] \in {"check", "take"} /\ job[th].op \in Repairs
OnlyTheFailedIsReplaced ==
  [][\A th \in Threads : Replacing(th)' =>
       IF Replacing(th) THEN run' = run
       ELSE RunAlive /\ proxyOk => run.node = job[th].back]_vars

(* A main that is wanted and does not forward does so again, or it is in   *)
(* the hands of the administrator.                                         *)
MainRecovers ==
  enabled = "on" /\ ~Serving
  ~> Serving \/ enabled # "on" \/ repair.st = "manual" \/ sbRepair = "manual"
=============================================================================
