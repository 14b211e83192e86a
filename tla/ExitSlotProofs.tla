--------------------------- MODULE ExitSlotProofs ---------------------------
(***************************************************************************)
(* Theorems about the exit of a slot, for any candidates, devices, rounds  *)
(* and events: its types, and that the keeper never reaps the tunnel of    *)
(* the exit.                                                               *)
(***************************************************************************)
EXTENDS ExitSlot, TLAPS

Nodes_ == Nodes \union {None}
RunRecs == [st : {"absent", "up", "pending", "paused", "disconnected"},
            node : Nodes_, dev : Devices]
StandbyRecs == [st : {"none", "checking", "ready", "degraded"},
                node : Nodes_, dev : Devices]
Holds == [as : {"none", "run", "standby", "hand"}, mark : {"none", "exit", "standby"}]
RepairRows == [st : {"none", "waiting", "manual", "healthy"}, node : Nodes_]
SbRepairs == {"none", "repairing", "retry", "manual", "healthy"}
Places == Pcs \union {"visit", "probed", "delete", "delete_down", "stop_down",
                      "stop_mark", "restore"}
Ops == {"cold", "switch", "assign", "restore", "managed", "add", "repair", "ok", "bad"}
         \union {"none", "round", "assign_sb", "health", "resume"}
Jobs == [op : Ops, node : Nodes_, back : Nodes_, dev : Devices, list : SUBSET Nodes]
Lockers == Threads \union {None}

RecordTypes == run \in RunRecs /\ standby \in StandbyRecs /\ resource \in Devices
TunnelTypes == /\ hold \in [Devices -> Holds]
               /\ dark \subseteq Devices /\ routed \subseteq Devices
StoreTypes == repair \in RepairRows /\ sbRepair \in SbRepairs /\ rounds \in 0..MaxRounds
ThreadTypes == /\ pc \in [Threads -> Places] /\ job \in [Threads -> Jobs]
               /\ opLock \in Lockers /\ sbLock \in Lockers
RestTypes == /\ enabled \in {"off", "paused", "on"} /\ usable \subseteq Nodes
             /\ events \in 0..MaxEvents
             /\ listener \in Devices \union {None} /\ pin \in Nodes_
             /\ seen \in {"off", "paused", "on"}
Types == RecordTypes /\ TunnelTypes /\ StoreTypes /\ ThreadTypes /\ RestTypes

(* A round of the keeper that is under way has not spent its budget.       *)
InRound == {"sb_list", "sb_select", "sb_reserve", "sb_dialed", "sb_check"}
RoundsLeft == pc["keeper"] \in InRound => rounds < MaxRounds

(* A step that does not take the keeper into a round.                      *)
NoNewRound == pc'["keeper"] \in InRound => pc["keeper"] \in InRound

LEMMA TypesAre == STypeOK <=> Types
  BY DEF STypeOK, EgressTypeOK, Types, RecordTypes, TunnelTypes, StoreTypes,
         ThreadTypes, RestTypes, Nodes_, RunRecs, StandbyRecs, Holds, RepairRows,
         SbRepairs, Places, Ops, Jobs, Lockers
-----------------------------------------------------------------------------
(***************************************************************************)
(* The constants, and the records written as such.                         *)
(***************************************************************************)
LEMMA Constants ==
  /\ Own \in Devices /\ Spares \subseteq Devices /\ None \in Nodes_ /\ Nodes \subseteq Nodes_
  /\ None \notin Nodes /\ Own \notin Spares
  /\ MaxRounds \in Nat /\ MaxRounds > 0 /\ MaxEvents \in Nat
  BY RecoveryAssumption DEF Devices, Nodes_

LEMMA Written ==
  /\ \A st \in {"absent", "up", "pending", "paused", "disconnected"}, n \in Nodes_ :
       Record(st, n) \in RunRecs
  /\ Absent \in RunRecs /\ NoStandby \in StandbyRecs /\ NoJob \in Jobs /\ Empty \in Holds
  BY Constants DEF Record, RunRecs, Absent, NoStandby, StandbyRecs, NoJob, Jobs, Ops,
                   Empty, Holds

LEMMA RepairType ==
  ASSUME repair \in RepairRows, NEW n \in Nodes_, NEW allow,
         wait_for_standby(n, allow) \/ mark_healthy(n) \/ clear \/ require_manual
  PROVE  repair' \in RepairRows
  BY Constants DEF RepairRows, wait_for_standby, mark_healthy, clear, require_manual

LEMMA WithoutType ==
  ASSUME hold \in [Devices -> Holds], NEW D
  PROVE  Without(D) \in [Devices -> Holds]
  BY Written DEF Without

LEMMA Named ==
  /\ {"supervisor", "admin", "keeper", "checker"} = Threads
  /\ Places \ InRound = {"idle", "resume", "check", "take", "put", "reserve", "dialed",
                         "sb_health", "visit", "probed", "delete", "delete_down",
                         "stop_down", "stop_mark", "restore"}
  /\ InRound \subseteq Places
  BY DEF Threads, Places, Pcs, InRound

LEMMA GotoKeeps ==
  ASSUME ThreadTypes, NEW th \in Threads, NEW p \in Places, Goto(th, p),
         p \in InRound => th # "keeper" \/ pc[th] \in InRound,
         job' \in [Threads -> Jobs], opLock' \in Lockers, sbLock' \in Lockers
  PROVE  ThreadTypes' /\ NoNewRound
  BY Named DEF Goto, ThreadTypes, NoNewRound

LEMMA WorkType ==
  ASSUME job \in [Threads -> Jobs], NEW th \in Threads, NEW op \in Ops, NEW n \in Nodes_,
         Work(th, op, n)
  PROVE  job' \in [Threads -> Jobs]
  BY Written DEF Work, Jobs

LEMMA DoneKeeps ==
  ASSUME ThreadTypes, NEW th \in Threads, Done(th)
  PROVE  ThreadTypes' /\ NoNewRound
<1>1. PICK p \in Places \ InRound : Goto(th, p)
  BY Named DEF Done
<1>2. job' \in [Threads -> Jobs] /\ opLock' \in Lockers /\ sbLock' \in Lockers
  BY Written DEF Done, ThreadTypes, Unlocked, Lockers
<1> QED
  BY <1>1, <1>2, GotoKeeps

LEMMA StopRunType ==
  ASSUME RecordTypes, TunnelTypes, NEW r \in RunRecs, StopRun(r), UNCHANGED <<standby, resource, dark>>
  PROVE  RecordTypes' /\ TunnelTypes'
<1>1. hold' \in [Devices -> Holds]
  BY WithoutType DEF StopRun, TunnelTypes
<1> QED
  BY <1>1 DEF StopRun, RecordTypes, TunnelTypes

LEMMA EventType ==
  ASSUME events \in 0..MaxEvents, Event
  PROVE  events' \in 0..MaxEvents
  BY Constants DEF Event

SInv == Types /\ RoundsLeft

LEMMA OthersRounds ==
  ASSUME RoundsLeft, NoNewRound, rounds' = rounds \/ rounds' = 0
  PROVE  RoundsLeft'
  BY Constants DEF RoundsLeft, NoNewRound
-----------------------------------------------------------------------------
(***************************************************************************)
(* The administrator                                                       *)
(***************************************************************************)
LEMMA AskedKeeps ==
  ASSUME SInv, add_one_slot \/ delete_slot \/ stop_slot \/ start_slot
  PROVE  SInv'
<1> USE DEF recordVars, tunnelVars, storeVars, lockVars, threadVars, Asked, At
<1>1. RecordTypes' /\ TunnelTypes' /\ StoreTypes'
  BY DEF SInv, Types, RecordTypes, TunnelTypes, StoreTypes, add_one_slot, delete_slot,
         stop_slot, start_slot
<1>2. ThreadTypes' /\ NoNewRound
  BY Named, GotoKeeps DEF SInv, Types, ThreadTypes, NoNewRound, add_one_slot, delete_slot,
     stop_slot, start_slot
<1>3. RestTypes'
  BY EventType DEF SInv, Types, RestTypes, add_one_slot, delete_slot, stop_slot, start_slot, Nodes_
<1>4. RoundsLeft'
  BY <1>2, OthersRounds DEF SInv, add_one_slot, delete_slot, stop_slot, start_slot
<1> QED
  BY <1>1, <1>2, <1>3, <1>4 DEF SInv, Types

LEMMA DownKeeps ==
  ASSUME SInv, delete_down \/ stop_down \/ stop_mark
  PROVE  SInv'
<1> USE DEF At, Elsewhere
<1>1. RecordTypes' /\ TunnelTypes'
  <2>1. CASE stop_mark
    BY <2>1, Written, Constants DEF stop_mark, SInv, Types, RecordTypes, TunnelTypes
  <2>2. CASE delete_down \/ stop_down
    <3>1. StopRun(Absent)
      BY <2>2 DEF delete_down, stop_down, tear_down_slot
    <3> QED
      BY <2>2, <3>1, StopRunType, Written DEF delete_down, stop_down, SInv, Types
  <2> QED
    BY <2>1, <2>2
<1>2. StoreTypes'
  BY RepairType, Constants DEF SInv, Types, StoreTypes, delete_down, stop_down, stop_mark
<1>3. ThreadTypes' /\ NoNewRound
  BY Named, DoneKeeps, GotoKeeps DEF SInv, Types, ThreadTypes, delete_down, stop_down,
     stop_mark, lockVars
<1>4. RestTypes'
  BY DEF SInv, Types, RestTypes, delete_down, stop_down, stop_mark, tear_down_slot, slotVars
<1>5. RoundsLeft'
  BY <1>3, OthersRounds DEF SInv, delete_down, stop_down, stop_mark
<1> QED
  BY <1>1, <1>2, <1>3, <1>4, <1>5 DEF SInv, Types

(* The operations that take the slot down and dial another candidate.      *)
LEMMA AssignKeeps ==
  ASSUME SInv, NEW op \in {"assign", "managed", "restore"}, NEW n \in Nodes,
         Assign(op, n), At("admin", "idle") \/ At("admin", "restore"),
         events' \in 0..MaxEvents
  PROVE  SInv'
<1>1. RecordTypes' /\ TunnelTypes'
  BY StopRunType, Written DEF SInv, Types, Assign, tear_down_slot
<1>2. StoreTypes'
  BY DEF SInv, Types, StoreTypes, Assign, Change
<1>3. job' \in [Threads -> Jobs]
  <2>1. run.node \in Nodes_
    BY DEF SInv, Types, RecordTypes, RunRecs
  <2> QED
    BY <2>1, Constants, Written DEF Assign, SInv, Types, ThreadTypes, Jobs, Ops
<1>4. ThreadTypes' /\ NoNewRound
  BY <1>3, Named, GotoKeeps DEF Assign, Change, SInv, Types, ThreadTypes, Lockers
<1>5. RestTypes'
  BY Constants DEF SInv, Types, RestTypes, Assign, Change, tear_down_slot
<1>6. RoundsLeft'
  BY <1>4, OthersRounds DEF SInv, Assign
<1> QED
  BY <1>1, <1>2, <1>4, <1>5, <1>6 DEF SInv, Types

LEMMA DialKeeps ==
  ASSUME ThreadTypes, NEW th \in Threads, NEW op \in Ops, NEW n \in Nodes, Dial(th, op, n),
         opLock' = th, UNCHANGED sbLock
  PROVE  ThreadTypes' /\ NoNewRound
  BY Named, GotoKeeps, WorkType, Constants DEF Dial, ThreadTypes, Lockers

LEMMA SelectableType == ASSUME SInv, NEW th PROVE Selectable(th) \subseteq Nodes
  BY DEF Selectable, SInv, Types, RestTypes

LEMMA RedialKeeps ==
  ASSUME SInv, switch_slot_node \/ (\E n \in Nodes : add_slot_with_node(n))
  PROVE  SInv'
<1> USE DEF Asked, Change
<1>1. PICK op \in {"switch", "add"}, n \in Nodes : Dial("admin", op, n)
  BY SelectableType DEF switch_slot_node, add_slot_with_node
<1>2. /\ StopRun(Absent) /\ listener' = listener
      /\ UNCHANGED <<standby, resource, dark, repair, sbRepair, rounds, usable, sbLock, seen>>
      /\ opLock' = "admin" /\ Event /\ pin' \in Nodes_ /\ enabled' \in {enabled, "on"}
  BY Constants DEF switch_slot_node, add_slot_with_node, tear_down_slot, storeVars
<1>3. RecordTypes' /\ TunnelTypes'
  BY <1>2, StopRunType, Written DEF SInv, Types
<1>4. StoreTypes'
  BY <1>2 DEF SInv, Types, StoreTypes
<1>5. ThreadTypes' /\ NoNewRound
  BY <1>1, <1>2, DialKeeps DEF SInv, Types, Threads, Ops
<1>6. RestTypes'
  BY <1>2, EventType DEF SInv, Types, RestTypes
<1>7. RoundsLeft'
  BY <1>2, <1>5, OthersRounds DEF SInv, InRound
<1> QED
  BY <1>3, <1>4, <1>5, <1>6, <1>7 DEF SInv, Types

(* The administrator's part in the life of the standby.                    *)
LEMMA StandbyAskedKeeps ==
  ASSUME SInv, retry_dedicated_standby \/ (\E n \in Nodes : assign_dedicated_standby(n, Pins)),
         UNCHANGED slotVars
  PROVE  SInv'
<1> USE DEF recordVars, tunnelVars, threadVars, lockVars, slotVars, At
<1>1. RecordTypes' /\ TunnelTypes'
  BY DEF SInv, Types, RecordTypes, TunnelTypes, retry_dedicated_standby, assign_dedicated_standby
<1>2. StoreTypes'
  BY Constants DEF SInv, Types, StoreTypes, retry_dedicated_standby, assign_dedicated_standby,
         sb_clear, SbRepairs, RepairRows
<1>3. ThreadTypes' /\ NoNewRound
  <2>1. CASE retry_dedicated_standby
    BY <2>1 DEF retry_dedicated_standby, SInv, Types, ThreadTypes, NoNewRound
  <2>2. ASSUME NEW n \in Nodes, assign_dedicated_standby(n, Pins)
        PROVE  ThreadTypes' /\ NoNewRound
    <3>1. job' \in [Threads -> Jobs]
      BY <2>2, Named, WorkType, Constants DEF SInv, Types, ThreadTypes, Ops, assign_dedicated_standby
    <3> QED
      BY <2>2, <3>1, Named DEF assign_dedicated_standby, Goto, SInv, Types, ThreadTypes, NoNewRound,
         Lockers, InRound
  <2> QED
    BY <2>1, <2>2
<1>4. RestTypes'
  BY EventType DEF SInv, Types, RestTypes, retry_dedicated_standby, assign_dedicated_standby
<1>5. RoundsLeft'
  BY <1>3, OthersRounds DEF SInv, retry_dedicated_standby, assign_dedicated_standby, sb_clear
<1> QED
  BY <1>1, <1>2, <1>3, <1>4, <1>5 DEF SInv, Types

LEMMA RestoreKeeps ==
  ASSUME SInv, restore_failed \/ restore_node \/ (\E n \in Nodes : assign_node_to_slot(n))
  PROVE  SInv'
<1>1. CASE restore_failed
  <2>1. ThreadTypes' /\ NoNewRound
    BY <1>1, Named, DoneKeeps DEF restore_failed, SInv, Types
  <2>2. RoundsLeft'
    BY <1>1, <2>1, OthersRounds DEF SInv, restore_failed, storeVars
  <2> QED
    BY <1>1, <2>1, <2>2 DEF restore_failed, SInv, Types, RecordTypes, TunnelTypes, StoreTypes,
       RestTypes, recordVars, tunnelVars, storeVars, slotVars
<1>2. CASE restore_node
  BY <1>2, AssignKeeps, SelectableType DEF restore_node, SInv, Types, RestTypes
<1>3. CASE \E n \in Nodes : assign_node_to_slot(n)
  BY <1>3, AssignKeeps, EventType DEF assign_node_to_slot, Asked, SInv, Types, RestTypes
<1> QED
  BY <1>1, <1>2, <1>3
-----------------------------------------------------------------------------
(***************************************************************************)
(* Dialing and promotion, by any thread                                    *)
(***************************************************************************)

(* A thread at work on a node has it in its hands.                         *)
LEMMA JobNow ==
  ASSUME SInv, NEW th \in Threads
  PROVE  /\ job[th].node \in Nodes_ /\ job[th].back \in Nodes_ /\ job[th].dev \in Devices
         /\ job[th].op \in Ops /\ job[th].list \subseteq Nodes
         /\ run.node \in Nodes_ /\ run.dev \in Devices
         /\ standby.node \in Nodes_ /\ standby.dev \in Devices
         /\ repair.node \in Nodes_
  BY DEF SInv, Types, ThreadTypes, RecordTypes, StoreTypes, Jobs, RunRecs, StandbyRecs, RepairRows

(* What follows a dial that has failed.                                    *)
LEMMA FailedKeeps ==
  ASSUME SInv, NEW th \in Threads, failed(th)
  PROVE  /\ run' \in RunRecs /\ repair' \in RepairRows /\ usable' \subseteq Nodes
         /\ ThreadTypes' /\ NoNewRound
<1>1. usable' \subseteq Nodes
  BY DEF failed, SInv, Types, RestTypes
<1>2. run' \in RunRecs
  BY Written, Constants DEF failed, SInv, Types, RecordTypes
<1>3. repair' \in RepairRows
  BY JobNow, RepairType DEF failed, SInv, Types, StoreTypes
<1>4. ThreadTypes' /\ NoNewRound
  <2>1. CASE Done(th)
    BY <2>1, DoneKeeps DEF SInv, Types
  <2>2. CASE ~Done(th)
    <3>1. PICK p \in {"check", "delete", "restore"} :
            Goto(th, p) /\ UNCHANGED <<job, sbLock>> /\ opLock' \in {opLock, None}
      BY <2>2 DEF failed, lockVars
    <3> QED
      BY <3>1, Named, GotoKeeps DEF SInv, Types, ThreadTypes, Lockers
  <2> QED
    BY <2>1, <2>2
<1> QED
  BY <1>1, <1>2, <1>3, <1>4

LEMMA ReserveKeeps ==
  ASSUME SInv, NEW th \in Threads, reserve_candidate(th)
  PROVE  SInv'
<1> DEFINE reaped == Without(Stray("exit"))
<1>1. reaped \in [Devices -> Holds]
  BY WithoutType DEF SInv, Types, TunnelTypes
<1>2. /\ hold' \in {hold, reaped} \/ hold' = [reaped EXCEPT ![Own] = [as |-> "hand", mark |-> "exit"]]
      /\ dark' \in {dark, dark \ {Own}} /\ routed' = routed /\ listener' = listener /\ DialStep
  BY DEF reserve_candidate
<1>3. failed(th) \/ (Goto(th, "dialed") /\ UNCHANGED <<usable, run, repair, job, lockVars>>)
  BY DEF reserve_candidate
<1>4. /\ run' \in RunRecs /\ repair' \in RepairRows /\ usable' \subseteq Nodes
      /\ ThreadTypes' /\ NoNewRound
  <2>1. CASE failed(th)
    BY <2>1, FailedKeeps
  <2>2. CASE Goto(th, "dialed") /\ UNCHANGED <<usable, run, repair, job, lockVars>>
    <3> QED
      BY <2>2, Named, GotoKeeps DEF SInv, Types, ThreadTypes, RecordTypes, StoreTypes, RestTypes, lockVars
  <2> QED
    BY <1>3, <2>1, <2>2
<1>5. hold' \in [Devices -> Holds]
  BY <1>1, <1>2, Constants DEF Holds, SInv, Types, TunnelTypes
<1>6. RecordTypes' /\ TunnelTypes' /\ StoreTypes' /\ RestTypes'
  BY <1>2, <1>4, <1>5 DEF SInv, Types, RecordTypes, TunnelTypes, StoreTypes, RestTypes, DialStep
<1>7. RoundsLeft'
  BY <1>2, <1>4, OthersRounds DEF SInv, DialStep
<1> QED
  BY <1>4, <1>6, <1>7 DEF SInv, Types

LEMMA RegisterKeeps ==
  ASSUME SInv, NEW th \in Threads, register_slot(th)
  PROVE  SInv'
<1>1. DialStep /\ UNCHANGED dark
  BY DEF register_slot
<1>2. CASE Done(th) /\ run' = Record("up", job[th].node) /\ UNCHANGED usable
           /\ repair' \in {repair, [st |-> "healthy", node |-> job[th].node]}
           /\ routed' = routed \union {Own} /\ listener' = Own
           /\ hold' \in {hold, [hold EXCEPT ![Own].as = "run"]}
  <2>1. RecordTypes' /\ TunnelTypes'
    BY <1>1, <1>2, Written, JobNow, Constants DEF SInv, Types, RecordTypes, TunnelTypes, DialStep, Holds
  <2>2. StoreTypes' /\ RestTypes'
    BY <1>1, <1>2, JobNow, Constants DEF SInv, Types, StoreTypes, RestTypes, DialStep, RepairRows
  <2>3. ThreadTypes' /\ NoNewRound
    BY <1>2, DoneKeeps DEF SInv, Types
  <2>4. RoundsLeft'
    BY <1>1, <2>3, OthersRounds DEF SInv, DialStep
  <2> QED
    BY <2>1, <2>2, <2>3, <2>4 DEF SInv, Types
<1>3. CASE /\ hold' = Without({Own}) /\ routed' \in {routed, routed \ {Own}}
           /\ failed(th) /\ UNCHANGED listener
  <2>1. /\ run' \in RunRecs /\ repair' \in RepairRows /\ usable' \subseteq Nodes
        /\ ThreadTypes' /\ NoNewRound
    BY <1>3, FailedKeeps
  <2>2. hold' \in [Devices -> Holds]
    BY <1>3, WithoutType DEF SInv, Types, TunnelTypes
  <2>3. RecordTypes' /\ TunnelTypes' /\ StoreTypes' /\ RestTypes'
    BY <1>1, <1>3, <2>1, <2>2 DEF SInv, Types, RecordTypes, TunnelTypes, StoreTypes, RestTypes, DialStep
  <2>4. RoundsLeft'
    BY <1>1, <2>1, OthersRounds DEF SInv, DialStep
  <2> QED
    BY <2>1, <2>3, <2>4 DEF SInv, Types
<1> QED
  BY <1>2, <1>3 DEF register_slot, mark_healthy

(* The probe of a standby before its promotion.                            *)
LEMMA CheckKeeps ==
  ASSUME SInv, NEW th \in Threads, check(th, Done(th)), UNCHANGED slotVars
  PROVE  SInv'
<1>1. /\ standby' = standby \/ standby' \in {[standby EXCEPT !.st = "ready"], [standby EXCEPT !.st = "degraded"]}
      /\ routed' = routed \union ({resource} \intersect StandbyDevice)
      /\ UNCHANGED <<enabled, run, resource, hold, dark, storeVars, usable, events>>
  BY DEF check
<1>2. RecordTypes' /\ TunnelTypes' /\ StoreTypes' /\ RestTypes'
  BY <1>1 DEF SInv, Types, RecordTypes, TunnelTypes, StoreTypes, RestTypes, storeVars, slotVars,
     StandbyRecs
<1>3. ThreadTypes' /\ NoNewRound
  <2>1. CASE Done(th)
    BY <2>1, DoneKeeps DEF SInv, Types
  <2>2. CASE Goto(th, "take") /\ UNCHANGED <<job, lockVars>>
    <3> QED
      BY <2>2, Named, GotoKeeps DEF SInv, Types, ThreadTypes, lockVars
  <2> QED
    BY <2>1, <2>2 DEF check
<1>4. RoundsLeft'
  BY <1>1, <1>3, OthersRounds DEF SInv, storeVars
<1> QED
  BY <1>2, <1>3, <1>4 DEF SInv, Types

LEMMA TakeKeeps ==
  ASSUME SInv, NEW th \in Threads, promote_take(th) \/ promote_busy(th)
  PROVE  SInv'
<1> USE DEF recordVars, tunnelVars, storeVars, slotVars, At
<1>1. RecordTypes'
  BY Written, JobNow DEF SInv, Types, RecordTypes, promote_take, promote_busy
<1>2. TunnelTypes'
  <2>1. Without(RunDevice) \in [Devices -> Holds]
    BY WithoutType DEF SInv, Types, TunnelTypes
  <2>2. [Without(RunDevice) EXCEPT ![standby.dev].as = "hand"] \in [Devices -> Holds]
    BY <2>1, JobNow DEF Holds
  <2> QED
    BY <2>2 DEF SInv, Types, TunnelTypes, promote_take, promote_busy
<1>3. StoreTypes' /\ RestTypes'
  BY EventType DEF SInv, Types, StoreTypes, RestTypes, promote_take, promote_busy
<1>4. ThreadTypes' /\ NoNewRound
  <2>1. CASE Done(th)
    BY <2>1, DoneKeeps DEF SInv, Types
  <2>2. CASE Goto(th, "put") /\ sbLock' = th /\ UNCHANGED opLock
             /\ job' = [job EXCEPT ![th].node = standby.node, ![th].dev = standby.dev]
    <3>2. job' \in [Threads -> Jobs]
      BY <2>2, JobNow DEF SInv, Types, ThreadTypes, Jobs
    <3> QED
      BY <2>2, <3>2, Named, GotoKeeps DEF SInv, Types, ThreadTypes, Lockers
  <2> QED
    BY <2>1, <2>2 DEF promote_take, promote_busy
<1>5. RoundsLeft'
  BY <1>4, OthersRounds DEF SInv, promote_take, promote_busy
<1> QED
  BY <1>1, <1>2, <1>3, <1>4, <1>5 DEF SInv, Types

LEMMA PutKeeps ==
  ASSUME SInv, NEW th \in Threads, promote_put(th)
  PROVE  SInv'
<1>1. RecordTypes' /\ TunnelTypes'
  BY JobNow DEF SInv, Types, RecordTypes, TunnelTypes, promote_put, RunRecs, Holds
<1>2. StoreTypes' /\ RestTypes'
  BY JobNow, Constants DEF SInv, Types, StoreTypes, RestTypes, promote_put, mark_healthy, sb_clear,
     RepairRows, SbRepairs
<1>3. ThreadTypes' /\ NoNewRound
  BY DoneKeeps DEF SInv, Types, promote_put
<1>4. RoundsLeft'
  BY <1>3, OthersRounds DEF SInv, promote_put, sb_clear
<1> QED
  BY <1>1, <1>2, <1>3, <1>4 DEF SInv, Types
-----------------------------------------------------------------------------
(***************************************************************************)
(* The life of the standby                                                 *)
(***************************************************************************)
LEMMA NextKeeps ==
  ASSUME SInv, NEW th \in Threads, NEW left, pc[th] \in InRound, NextCandidate(th, left),
         opLock' = opLock
  PROVE  /\ ThreadTypes' /\ NoNewRound /\ UNCHANGED rounds
         /\ sbRepair' \in SbRepairs
<1>1. CASE Done(th)
  BY <1>1, DoneKeeps DEF NextCandidate, SInv, Types, StoreTypes, SbRepairs
<1>2. CASE ~Done(th)
  BY <1>2, Named, GotoKeeps DEF NextCandidate, SInv, Types, ThreadTypes, StoreTypes, InRound
<1> QED
  BY <1>1, <1>2

LEMMA ReserveStandbyKeeps ==
  ASSUME SInv, NEW th \in Threads, reserve_standby(th), UNCHANGED slotVars
  PROVE  SInv'
<1>1. /\ UNCHANGED <<enabled, run, repair, events, rounds, listener, pin, seen>>
      /\ usable' \subseteq Nodes /\ routed' \subseteq Devices /\ dark' \subseteq Devices
      /\ standby' \in StandbyRecs /\ pc[th] \in InRound
  BY Written DEF reserve_standby, SInv, Types, RecordTypes, TunnelTypes, RestTypes, slotVars, At,
     InRound, NextCandidate
<1>2. resource' \in Devices
  BY DEF reserve_standby, SInv, Types, RecordTypes
<1>3. hold' \in [Devices -> Holds]
  <2> DEFINE reaped(dev) == Without(StandbyDevice \union (Stray("standby") \intersect {dev}))
  <2>1. ASSUME NEW dev \in Devices
        PROVE  /\ reaped(dev) \in [Devices -> Holds]
               /\ [reaped(dev) EXCEPT ![dev] = [as |-> "hand", mark |-> "standby"]]
                    \in [Devices -> Holds]
    <3>1. reaped(dev) \in [Devices -> Holds]
      BY WithoutType DEF SInv, Types, TunnelTypes
    <3> HIDE DEF reaped
    <3> QED
      BY <3>1 DEF Holds
  <2>2. \/ hold' = hold
        \/ \E dev \in Devices :
             hold' \in {reaped(dev), [reaped(dev) EXCEPT ![dev] = [as |-> "hand", mark |-> "standby"]]}
    BY DEF reserve_standby
  <2> HIDE DEF reaped
  <2> QED
    BY <2>1, <2>2 DEF SInv, Types, TunnelTypes
<1>4. ThreadTypes' /\ NoNewRound /\ sbRepair' \in SbRepairs
  <2>1. CASE \E left \in BOOLEAN : NextCandidate(th, left) /\ opLock' = opLock
    BY <1>1, <2>1, NextKeeps
  <2>2. CASE \E dev \in Devices : /\ Goto(th, "sb_dialed") /\ job' = [job EXCEPT ![th].dev = dev]
                                  /\ UNCHANGED <<sbLock, opLock, sbRepair>>
    <3>1. job' \in [Threads -> Jobs]
      BY <2>2, JobNow DEF SInv, Types, ThreadTypes, Jobs
    <3> QED
      BY <1>1, <2>2, <3>1, Named, GotoKeeps DEF SInv, Types, ThreadTypes, StoreTypes, InRound
  <2> QED
    BY <2>1, <2>2 DEF reserve_standby, StandbyAlive
<1>5. RoundsLeft'
  BY <1>1, <1>4, OthersRounds DEF SInv
<1> QED
  BY <1>1, <1>2, <1>3, <1>4, <1>5 DEF SInv, Types, RecordTypes, TunnelTypes, StoreTypes, RestTypes

LEMMA RegisterStandbyKeeps ==
  ASSUME SInv, NEW th \in Threads, register_standby(th), UNCHANGED slotVars
  PROVE  SInv'
<1> DEFINE d == job[th].dev
<1>1. /\ UNCHANGED <<enabled, run, resource, dark, repair, opLock, rounds, listener, pin, seen>>
      /\ usable' \subseteq Nodes /\ routed' \subseteq Devices /\ pc[th] \in InRound
      /\ Event \/ events' = events
  <2>1. d \in Devices /\ pc[th] \in InRound
    BY JobNow DEF register_standby, At, InRound
  <2>2. routed' \in {routed, routed \union {d}, routed \ {d}}
    BY DEF register_standby
  <2>3. /\ usable' \in {usable, usable \ {job[th].node}}
        /\ UNCHANGED <<enabled, run, resource, dark, repair, opLock, rounds>>
        /\ Event \/ events' = events
    BY DEF register_standby, NextCandidate
  <2> QED
    BY <2>1, <2>2, <2>3 DEF SInv, Types, TunnelTypes, RestTypes, slotVars
<1>2. standby' \in StandbyRecs
  <2>1. standby' \in {standby, [st |-> "checking", node |-> job[th].node, dev |-> d]}
    BY DEF register_standby
  <2> QED
    BY <2>1, JobNow DEF SInv, Types, RecordTypes, StandbyRecs
<1>3. hold' \in [Devices -> Holds]
  <2>1. hold' \in {hold, [hold EXCEPT ![d].as = "standby"], Without({d})}
    BY DEF register_standby
  <2>2. [hold EXCEPT ![d].as = "standby"] \in [Devices -> Holds]
    BY JobNow DEF SInv, Types, TunnelTypes, Holds
  <2> QED
    BY <2>1, <2>2, WithoutType DEF SInv, Types, TunnelTypes
<1>4. ThreadTypes' /\ NoNewRound /\ sbRepair' \in SbRepairs
  <2>1. CASE NextCandidate(th, FALSE)
    BY <1>1, <2>1, NextKeeps
  <2>2. CASE Goto(th, "sb_check") /\ UNCHANGED <<job, sbLock, sbRepair>>
    BY <1>1, <2>2, Named, GotoKeeps DEF SInv, Types, ThreadTypes, StoreTypes, InRound
  <2> QED
    BY <2>1, <2>2 DEF register_standby
<1>5. RoundsLeft'
  BY <1>1, <1>4, OthersRounds DEF SInv
<1> QED
  BY <1>1, <1>2, <1>3, <1>4, <1>5, EventType
  DEF SInv, Types, RecordTypes, TunnelTypes, StoreTypes, RestTypes

LEMMA TearDownType ==
  ASSUME SInv, tear_down_dedicated_standby
  PROVE  standby' \in StandbyRecs /\ hold' \in [Devices -> Holds] /\ routed' \subseteq Devices
  BY Written, WithoutType DEF tear_down_dedicated_standby, SInv, Types, TunnelTypes

LEMMA CheckStandbyKeeps ==
  ASSUME SInv, NEW th \in Threads, check_standby(th, Done(th)), UNCHANGED slotVars
  PROVE  SInv'
<1>1. /\ UNCHANGED <<enabled, run, resource, dark, repair, events, listener, pin, seen>>
      /\ usable' \subseteq Nodes /\ pc[th] \in InRound
      /\ rounds' = rounds \/ rounds' = 0
  BY DEF check_standby, SInv, Types, RestTypes, slotVars, At, InRound, NextCandidate, sb_healthy
<1>2. standby' \in StandbyRecs /\ hold' \in [Devices -> Holds] /\ routed' \subseteq Devices
  BY TearDownType DEF check_standby, SInv, Types, RecordTypes, TunnelTypes, StandbyRecs
<1>3. ThreadTypes' /\ NoNewRound /\ sbRepair' \in SbRepairs
  <2>1. CASE NextCandidate(th, FALSE) /\ opLock' = opLock
    BY <1>1, <2>1, NextKeeps
  <2>2. CASE Done(th) /\ sb_healthy
    BY <2>2, DoneKeeps DEF SInv, Types, sb_healthy, SbRepairs
  <2> QED
    BY <2>1, <2>2 DEF check_standby
<1>4. RoundsLeft'
  BY <1>1, <1>3, OthersRounds DEF SInv
<1> QED
  BY <1>1, <1>2, <1>3, <1>4, Constants
  DEF SInv, Types, RecordTypes, TunnelTypes, StoreTypes, RestTypes

LEMMA BeginRoundKeeps ==
  ASSUME SInv, NEW reaped \in [Devices -> Holds], begin_round(reaped),
         UNCHANGED <<resource, dark, repair, usable>>, KeeperOnly, UNCHANGED slotVars
  PROVE  SInv'
<1>1. PICK over \in IF sbRepair = "healthy" THEN {FALSE} ELSE Over(rounds) :
        IF over
        THEN /\ sbRepair' = "manual" /\ hold' = reaped
             /\ Done("keeper") /\ UNCHANGED <<rounds, standby, routed>>
        ELSE /\ sbRepair' = "repairing"
             /\ rounds' = IF sbRepair = "healthy" THEN 0 ELSE rounds
             /\ standby' = NoStandby
             /\ hold' = [d \in Devices |-> IF d \in StandbyDevice THEN Empty ELSE reaped[d]]
             /\ routed' = routed \ {IF standby.st = "none" THEN resource ELSE standby.dev}
             /\ Goto("keeper", "sb_list") /\ Work("keeper", "round", None)
             /\ sbLock' = "keeper"
  BY DEF begin_round
<1>2. ~over => rounds' < MaxRounds /\ rounds' \in 0..MaxRounds
  <2>1. rounds \in 0..MaxRounds
    BY DEF SInv, Types, StoreTypes
  <2>2. CASE sbRepair = "healthy"
    BY <1>1, <2>2, Constants
  <2>3. CASE sbRepair # "healthy" /\ ~over
    <3>1. rounds < MaxRounds
      <4>1. over \in Over(rounds)
        BY <1>1, <2>3, Zenon
      <4>2. ASSUME rounds >= MaxRounds PROVE FALSE
        <5>1. rounds # 0
          BY <2>1, <4>2, Constants
        <5>2. over = TRUE
          BY <4>1, <4>2, <5>1, Zenon DEF Over
        <5> QED
          BY <2>3, <5>2
      <4> QED
        BY <2>1, <4>2, Constants
    <3> QED
      BY <1>1, <2>1, <2>3, <3>1
  <2> QED
    BY <2>2, <2>3
<1>3. RecordTypes' /\ TunnelTypes' /\ StoreTypes' /\ RestTypes'
  <2>1. [d \in Devices |-> IF d \in StandbyDevice THEN Empty ELSE reaped[d]] \in [Devices -> Holds]
    BY Written
  <2> QED
    BY <1>1, <1>2, <2>1, Written DEF SInv, Types, RecordTypes, TunnelTypes, StoreTypes, RestTypes,
       KeeperOnly, slotVars, SbRepairs
<1>4. ThreadTypes' /\ RoundsLeft'
  <2>1. CASE over
    BY <1>1, <2>1, Named, DoneKeeps, OthersRounds DEF SInv, Types
  <2>2. CASE ~over
    <3>1. job' \in [Threads -> Jobs]
      BY <1>1, <2>2, Named, WorkType, Constants DEF SInv, Types, ThreadTypes, Ops
    <3>2. pc' \in [Threads -> Places]
      BY <1>1, <2>2, Named DEF Goto, SInv, Types, ThreadTypes, InRound
    <3> QED
      BY <1>1, <1>2, <2>2, <3>1, <3>2, Named
      DEF SInv, Types, ThreadTypes, RoundsLeft, Lockers, KeeperOnly
  <2> QED
    BY <2>1, <2>2
<1> QED
  BY <1>3, <1>4 DEF SInv, Types

LEMMA MaintainKeeps ==
  ASSUME SInv, maintain_standby, UNCHANGED slotVars
  PROVE  SInv'
<1>1. reap \in [Devices -> Holds]
  BY WithoutType DEF reap, SInv, Types, TunnelTypes
<1>2. CASE begin_round(reap)
  BY <1>1, <1>2, BeginRoundKeeps DEF maintain_standby
<1>3. CASE /\ hold' \in {hold, reap} /\ UNCHANGED <<standby, routed, sbRepair, rounds>>
           /\ \/ Goto("keeper", "resume") /\ UNCHANGED <<job, sbLock>>
              \/ Goto("keeper", "sb_health") /\ Work("keeper", "round", None) /\ sbLock' = "keeper"
  <2>1. RecordTypes' /\ TunnelTypes' /\ StoreTypes' /\ RestTypes'
    BY <1>1, <1>3 DEF maintain_standby, KeeperOnly, slotVars, SInv, Types, RecordTypes, TunnelTypes,
       StoreTypes, RestTypes
  <2>2. job' \in [Threads -> Jobs]
    BY <1>3, Named, WorkType, Constants DEF SInv, Types, ThreadTypes, Ops
  <2>3. ThreadTypes' /\ NoNewRound
    BY <1>3, <2>2, Named, GotoKeeps DEF maintain_standby, KeeperOnly, SInv, Types, ThreadTypes, Lockers,
       InRound
  <2>4. RoundsLeft'
    BY <1>3, <2>3, OthersRounds DEF SInv
  <2> QED
    BY <2>1, <2>3, <2>4 DEF SInv, Types
<1> QED
  BY <1>2, <1>3 DEF maintain_standby

LEMMA RetireKeeps ==
  ASSUME SInv, retire_standby, UNCHANGED slotVars
  PROVE  SInv'
<1>1. standby' \in StandbyRecs /\ hold' \in [Devices -> Holds] /\ routed' \subseteq Devices
  BY TearDownType DEF retire_standby
<1>2. /\ UNCHANGED <<enabled, run, opLock, events, resource, dark, repair, usable, pc, job, sbLock>>
      /\ sbRepair' = "none" /\ rounds' = 0
  BY DEF retire_standby, KeeperOnly, threadVars, sb_clear
<1> QED
  BY <1>1, <1>2, Constants DEF SInv, Types, RecordTypes, TunnelTypes, StoreTypes, ThreadTypes, RestTypes,
     SbRepairs, RoundsLeft, slotVars

LEMMA ProbeKeeps ==
  ASSUME SInv, probe_standby("resume"), UNCHANGED slotVars
  PROVE  SInv'
<1>1. CASE begin_round(hold)
  BY <1>1, BeginRoundKeeps DEF probe_standby, SInv, Types, TunnelTypes
<1>2. CASE /\ standby' = [standby EXCEPT !.st = "ready"] /\ sb_healthy
           /\ routed' = routed \union ({resource} \intersect StandbyDevice)
           /\ Done("keeper") /\ UNCHANGED hold
  <2>1. ThreadTypes' /\ NoNewRound
    BY <1>2, Named, DoneKeeps DEF SInv, Types
  <2>2. RoundsLeft'
    BY <1>2, <2>1, OthersRounds DEF SInv, sb_healthy
  <2>3. RecordTypes' /\ TunnelTypes' /\ StoreTypes' /\ RestTypes'
    BY <1>2, Constants DEF probe_standby, KeeperOnly, slotVars, SInv, Types, RecordTypes, TunnelTypes,
       StoreTypes, RestTypes, StandbyRecs, sb_healthy, SbRepairs
  <2> QED
    BY <2>1, <2>2, <2>3 DEF SInv, Types
<1> QED
  BY <1>1, <1>2 DEF probe_standby

(* The list of a round, and the next of it.                                *)
LEMMA SelectKeeps ==
  ASSUME SInv, UNCHANGED slotVars,
         list_candidates("keeper", Pins) \/ select_standby("keeper", Pins)
  PROVE  SInv'
<1>1. /\ UNCHANGED <<standby, hold, routed, sbRepair, rounds, sbLock, enabled, run, resource, dark,
                     repair, opLock, events>>
      /\ usable' \subseteq Nodes
  BY DEF list_candidates, select_standby, Provisioner, SInv, Types, RestTypes
<1>2. job' \in [Threads -> Jobs]
  <2>1. ASSUME NEW S \in SUBSET Nodes
        PROVE  [job EXCEPT !["keeper"].list = S] \in [Threads -> Jobs]
    BY Named DEF SInv, Types, ThreadTypes, Jobs
  <2>2. ASSUME NEW S \in SUBSET Nodes, NEW n \in Nodes
        PROVE  [job EXCEPT !["keeper"].node = n, !["keeper"].list = S] \in [Threads -> Jobs]
    BY Named, Constants DEF SInv, Types, ThreadTypes, Jobs
  <2>3. CASE list_candidates("keeper", Pins)
    BY <2>1, <2>3 DEF list_candidates, SInv, Types, RestTypes
  <2>4. CASE select_standby("keeper", Pins)
    <3>1. job["keeper"].list \subseteq Nodes
      BY Named, JobNow
    <3>2. PICK n \in job["keeper"].list :
            job' = [job EXCEPT !["keeper"].node = n, !["keeper"].list = job["keeper"].list \ {n}]
      BY <2>4 DEF select_standby
    <3> QED
      BY <2>2, <3>1, <3>2
  <2> QED
    BY <2>3, <2>4
<1>3. ThreadTypes' /\ NoNewRound
  BY <1>1, <1>2, Named, GotoKeeps DEF list_candidates, select_standby, At, SInv, Types, ThreadTypes,
     NoNewRound, InRound
<1>4. RoundsLeft'
  BY <1>1, <1>3, OthersRounds DEF SInv
<1> QED
  BY <1>1, <1>3, <1>4 DEF SInv, Types, RecordTypes, TunnelTypes, StoreTypes, RestTypes, slotVars

(* The end of a round that has found nothing: this is what RoundsLeft is   *)
(* for.                                                                    *)
LEMMA FinishKeeps ==
  ASSUME SInv, finish_standby, UNCHANGED slotVars
  PROVE  SInv'
<1>1. pc["keeper"] \in InRound /\ rounds' = rounds + 1
  BY DEF finish_standby, Exhausted, At, InRound, finish_round
<1>2. rounds' \in 0..MaxRounds
  BY <1>1, Constants DEF SInv, RoundsLeft, Types, StoreTypes
<1>3. ThreadTypes' /\ pc'["keeper"] \notin InRound
  BY Named, DoneKeeps DEF finish_standby, SInv, Types, Done, Goto, ThreadTypes, InRound
<1> QED
  BY <1>2, <1>3 DEF finish_standby, finish_round, tunnelVars, slotVars, SInv, Types, RecordTypes,
     TunnelTypes, StoreTypes, RestTypes, SbRepairs, RoundsLeft

LEMMA ResumeKeeps ==
  ASSUME SInv, \/ (resume_none \/ resume_manual) /\ UNCHANGED slotVars
               \/ resume_repair
  PROVE  SInv'
<1> USE DEF recordVars, tunnelVars, storeVars, lockVars, slotVars
<1>1. RecordTypes' /\ TunnelTypes'
  BY DEF SInv, Types, RecordTypes, TunnelTypes, resume_none, resume_manual, resume_repair
<1>2. StoreTypes' /\ RestTypes'
  BY RepairType, EventType, Constants DEF SInv, Types, StoreTypes, RestTypes, resume_none, resume_manual,
     resume_repair
<1>3. ThreadTypes' /\ NoNewRound
  <2>1. job' \in [Threads -> Jobs]
    BY Named, WorkType, Constants DEF SInv, Types, ThreadTypes, Ops, resume_none, resume_manual,
       resume_repair
  <2> QED
    BY <2>1, Named, GotoKeeps DEF SInv, Types, ThreadTypes, Lockers, InRound, resume_none, resume_manual,
       resume_repair
<1>4. RoundsLeft'
  BY <1>3, OthersRounds DEF SInv, resume_none, resume_manual, resume_repair
<1> QED
  BY <1>1, <1>2, <1>3, <1>4 DEF SInv, Types
-----------------------------------------------------------------------------
(***************************************************************************)
(* The supervisor, the checker and what happens to them                    *)
(***************************************************************************)
LEMMA RepairSlotKeeps ==
  ASSUME SInv, NEW th \in Threads, NEW n \in Nodes_, repair_slot(th, n, "repair"),
         sbLock' = sbLock
  PROVE  /\ ThreadTypes' /\ NoNewRound /\ repair' \in RepairRows /\ usable' \subseteq Nodes
<1>1. repair' \in RepairRows /\ usable' \subseteq Nodes
  BY RepairType DEF repair_slot, SInv, Types, StoreTypes, RestTypes
<1>2. job' \in [Threads -> Jobs]
  BY Written, WorkType DEF repair_slot, SInv, Types, ThreadTypes, Ops
<1>3. ThreadTypes' /\ NoNewRound
  BY <1>2, Named, GotoKeeps DEF repair_slot, SInv, Types, ThreadTypes, Lockers
<1> QED
  BY <1>1, <1>3

LEMMA BeginKeeps ==
  ASSUME SInv, supervise_begin
  PROVE  SInv'
<1> USE DEF recordVars, tunnelVars, storeVars, lockVars
<1>1. ThreadTypes' /\ NoNewRound
  BY Named, GotoKeeps DEF supervise_begin, SInv, Types, ThreadTypes
<1>2. RoundsLeft'
  BY <1>1, OthersRounds DEF SInv, supervise_begin
<1> QED
  BY <1>1, <1>2 DEF supervise_begin, SInv, Types, RecordTypes, TunnelTypes, StoreTypes, RestTypes

(* What every visit leaves alone, and the visits that start nothing.       *)
LEMMA VisitKeeps ==
  ASSUME SInv, Visit, RecordTypes', TunnelTypes', ThreadTypes', NoNewRound,
         repair' \in RepairRows, usable' \subseteq Nodes, listener' \in Devices \union {None}
  PROVE  SInv'
<1>1. RoundsLeft'
  BY OthersRounds DEF SInv, Visit, Elsewhere
<1> QED
  BY <1>1 DEF SInv, Types, StoreTypes, RestTypes, Visit, Elsewhere

LEMMA BackToIdle ==
  ASSUME SInv, Visit, Goto("supervisor", "idle"), UNCHANGED <<job, opLock>>
  PROVE  ThreadTypes' /\ NoNewRound
  BY Named, GotoKeeps DEF SInv, Types, ThreadTypes, Visit

LEMMA InactiveKeeps ==
  ASSUME SInv, visit_inactive
  PROVE  SInv'
<1>1. RecordTypes' /\ TunnelTypes'
  <2>1. CASE \E r \in {Absent, Record("paused", None)} : StopRun(r)
    BY <2>1, StopRunType, Written, Constants DEF visit_inactive, Visit, Elsewhere, SInv, Types
  <2>2. CASE run' = Record("paused", None) /\ UNCHANGED <<hold, routed>>
    BY <2>2, Written, Constants DEF visit_inactive, Visit, Elsewhere, SInv, Types, RecordTypes, TunnelTypes
  <2> QED
    BY <2>1, <2>2 DEF visit_inactive, tear_down_slot
<1>2. listener' \in Devices \union {None}
  BY DEF visit_inactive, tear_down_slot, SInv, Types, RestTypes
<1> QED
  BY <1>1, <1>2, BackToIdle, VisitKeeps DEF visit_inactive, SInv, Types, StoreTypes, RestTypes

LEMMA ManualKeeps ==
  ASSUME SInv, visit_manual \/ visit_alive
  PROVE  SInv'
<1>1. /\ Visit /\ Goto("supervisor", "idle")
      /\ UNCHANGED <<repair, usable, job, opLock, listener>>
  BY DEF visit_manual, visit_alive, Slot
<1>2. RecordTypes'
  BY <1>1, Written, JobNow, Named DEF visit_manual, visit_alive, Visit, Elsewhere, SInv, Types, RecordTypes
<1>3. TunnelTypes'
  BY <1>1, WithoutType DEF visit_manual, visit_alive, Visit, Elsewhere, SInv, Types, TunnelTypes
<1> QED
  BY <1>1, <1>2, <1>3, BackToIdle, VisitKeeps DEF SInv, Types, StoreTypes, RestTypes

LEMMA DeadKeeps ==
  ASSUME SInv, visit_dead
  PROVE  SInv'
<1>1. Visit /\ hold' = Without(Stray("exit")) /\ UNCHANGED <<run, routed, listener>>
      /\ repair_slot("supervisor", run.node, "repair")
  BY DEF visit_dead, Slot
<1>2. ThreadTypes' /\ NoNewRound /\ repair' \in RepairRows /\ usable' \subseteq Nodes
  BY <1>1, Named, JobNow, RepairSlotKeeps DEF Visit
<1>3. RecordTypes' /\ TunnelTypes'
  BY <1>1, WithoutType DEF Visit, Elsewhere, SInv, Types, RecordTypes, TunnelTypes
<1> QED
  BY <1>1, <1>2, <1>3, VisitKeeps DEF SInv, Types, RestTypes

LEMMA ColdKeeps ==
  ASSUME SInv, visit_cold
  PROVE  SInv'
<1>1. Visit /\ UNCHANGED <<repair, usable, listener>>
  BY DEF visit_cold, Slot
<1>2. RecordTypes'
  BY <1>1, Written, Constants DEF visit_cold, Slot, Visit, Elsewhere, SInv, Types, RecordTypes
<1>3. TunnelTypes'
  BY <1>1, WithoutType DEF visit_cold, Slot, Visit, Elsewhere, SInv, Types, TunnelTypes
<1>4. ThreadTypes' /\ NoNewRound
  <2>1. CASE /\ opLock' = "supervisor" /\ Goto("supervisor", "check")
             /\ Work("supervisor", "repair", None)
    <3>1. job' \in [Threads -> Jobs]
      BY <2>1, Named, WorkType, Constants DEF SInv, Types, ThreadTypes, Ops
    <3> QED
      BY <1>1, <2>1, <3>1, Named, GotoKeeps DEF Visit, SInv, Types, ThreadTypes, Lockers
  <2>2. CASE Goto("supervisor", "idle") /\ UNCHANGED <<job, opLock>>
    BY <1>1, <2>2, BackToIdle
  <2>3. CASE /\ \E n \in PickedNodes : Dial("supervisor", "cold", n)
             /\ opLock' = "supervisor"
    <3>1. PickedNodes \subseteq Nodes
      BY SelectableType DEF PickedNodes, SInv, Types, RestTypes, Nodes_
    <3> QED
      BY <1>1, <2>3, <3>1, Named, DialKeeps DEF Visit, SInv, Types, Ops
  <2> QED
    BY <2>1, <2>2, <2>3 DEF visit_cold, Slot
<1> QED
  BY <1>1, <1>2, <1>3, <1>4, VisitKeeps DEF SInv, Types, StoreTypes, RestTypes

LEMMA CheckerKeeps ==
  ASSUME SInv, check_slot_egress \/ record_slot_egress_probe
  PROVE  SInv'
<1> USE DEF recordVars, tunnelVars, lockVars, slotVars, storeVars
<1>1. RecordTypes' /\ TunnelTypes'
  <2>1. RunDevice \subseteq Devices
    BY JobNow, Named DEF RunDevice
  <2> QED
    BY <2>1 DEF SInv, Types, RecordTypes, TunnelTypes, check_slot_egress, record_slot_egress_probe
<1>2. ThreadTypes' /\ NoNewRound /\ repair' \in RepairRows /\ usable' \subseteq Nodes
  <2>1. CASE check_slot_egress
    <3>1. job' \in [Threads -> Jobs]
      BY <2>1, Named, WorkType, Constants DEF check_slot_egress, SInv, Types, ThreadTypes, Ops
    <3> QED
      BY <2>1, <3>1, Named, GotoKeeps DEF check_slot_egress, SInv, Types, ThreadTypes, StoreTypes, RestTypes
  <2>2. CASE repair_slot("checker", run.node, "repair") /\ sbLock' = sbLock
    BY <2>2, Named, JobNow, RepairSlotKeeps
  <2>3. CASE /\ Goto("checker", "idle") /\ job' = [job EXCEPT !["checker"] = NoJob]
             /\ UNCHANGED <<usable, opLock, sbLock>>
             /\ repair' = repair \/ mark_healthy(run.node)
    <3>1. repair' \in RepairRows
      BY <2>3, JobNow, Named, RepairType DEF SInv, Types, StoreTypes
    <3> QED
      BY <2>3, <3>1, Named, Written, GotoKeeps DEF SInv, Types, ThreadTypes, RestTypes
  <2> QED
    BY <2>1, <2>2, <2>3 DEF record_slot_egress_probe
<1>3. RoundsLeft'
  BY <1>2, OthersRounds DEF SInv, check_slot_egress, record_slot_egress_probe
<1>4. events' = events \/ Event
  BY DEF check_slot_egress, record_slot_egress_probe
<1> QED
  BY <1>1, <1>2, <1>3, <1>4, EventType
  DEF SInv, Types, StoreTypes, RestTypes, check_slot_egress, record_slot_egress_probe

LEMMA EnvironmentKeeps ==
  ASSUME SInv, Environment
  PROVE  SInv'
<1> USE DEF recordVars, tunnelVars, storeVars, threadVars, lockVars, slotVars
<1>1. CASE \E d \in Devices : (die(d) \/ darken(d)) /\ UNCHANGED slotVars
  <2>1. PICK d \in Devices : die(d) \/ darken(d)
    BY <1>1
  <2>2. TunnelTypes'
    BY <2>1, WithoutType DEF die, darken, SInv, Types, TunnelTypes
  <2> QED
    BY <1>1, <2>1, <2>2, EventType DEF die, darken, SInv, Types, RecordTypes, StoreTypes, ThreadTypes,
       RestTypes, RoundsLeft
<1>2. CASE \E n \in Nodes : refresh(n) /\ UNCHANGED slotVars
  BY <1>2 DEF refresh, SInv, Types, RecordTypes, TunnelTypes, StoreTypes, ThreadTypes, RestTypes, RoundsLeft
<1>3. CASE restart("supervisor", "idle", NoJob) /\ listener' = None /\ seen' = enabled /\ UNCHANGED pin
  <2>1. pc' = [u \in Threads |-> "idle"] /\ job' = [u \in Threads |-> NoJob]
    BY <1>3 DEF restart
  <2>2. ThreadTypes'
    BY <1>3, <2>1, Written, Named DEF restart, ThreadTypes, Lockers
  <2>3. RecordTypes' /\ TunnelTypes'
    BY <1>3, Written, WithoutType, Constants DEF restart, SInv, Types, RecordTypes, TunnelTypes
  <2>4. StoreTypes' /\ RestTypes'
    BY <1>3, EventType DEF restart, recover_interrupted, SInv, Types, StoreTypes, RestTypes, SbRepairs
  <2>5. RoundsLeft'
    BY <2>1, Named DEF RoundsLeft, InRound
  <2> QED
    BY <2>2, <2>3, <2>4, <2>5 DEF SInv, Types
<1> QED
  BY <1>1, <1>2, <1>3 DEF Environment
-----------------------------------------------------------------------------
LEMMA InitHolds == Init => SInv
<1> SUFFICES ASSUME Init PROVE SInv
  OBVIOUS
<1>1. RecordTypes /\ TunnelTypes
  BY Written, Constants DEF Init, EgressInit, RecordTypes, TunnelTypes
<1>2. StoreTypes /\ RestTypes
  BY Constants DEF Init, EgressInit, StoreTypes, RestTypes, RepairRows, SbRepairs
<1>3. ThreadTypes
  BY Written, Named DEF Init, EgressInit, ThreadTypes, Lockers
<1>4. RoundsLeft
  BY Named DEF Init, EgressInit, RoundsLeft, InRound
<1> QED
  BY <1>1, <1>2, <1>3, <1>4 DEF SInv, Types

LEMMA DialOrPromoteKeeps ==
  ASSUME SInv, NEW th \in Threads, DialOrPromote(th)
  PROVE  SInv'
  BY ReserveKeeps, RegisterKeeps, CheckKeeps, TakeKeeps, PutKeeps DEF DialOrPromote

LEMMA StandbyDialKeeps ==
  ASSUME SInv, NEW th \in Threads, StandbyDial(th)
  PROVE  SInv'
  BY ReserveStandbyKeeps, RegisterStandbyKeeps, CheckStandbyKeeps DEF StandbyDial, Provision

LEMMA NextHolds == SInv /\ [Next]_vars => SInv'
<1> SUFFICES ASSUME SInv, [Next]_vars PROVE SInv'
  OBVIOUS
<1>1. CASE Admin
  BY <1>1, AskedKeeps, RedialKeeps, RestoreKeeps, StandbyAskedKeeps DEF Admin
<1>2. CASE AdminStep
  BY <1>2, AskedKeeps, DownKeeps, RestoreKeeps, Named, StandbyDialKeeps, DialOrPromoteKeeps DEF AdminStep
<1>3. CASE Supervisor
  BY <1>3, BeginKeeps, InactiveKeeps, ManualKeeps, DeadKeeps, ColdKeeps, Named, DialOrPromoteKeeps
  DEF Supervisor
<1>4. CASE KeeperStep
  BY <1>4, MaintainKeeps, ProbeKeeps, SelectKeeps, FinishKeeps, ResumeKeeps, RetireKeeps, Named,
     StandbyDialKeeps, DialOrPromoteKeeps DEF KeeperStep, Keeper
<1>5. CASE Checker
  BY <1>5, CheckerKeeps, Named, DialOrPromoteKeeps DEF Checker
<1>6. CASE Environment
  BY <1>6, EnvironmentKeeps
<1>7. CASE UNCHANGED vars
  BY <1>7 DEF vars, egressVars, recordVars, tunnelVars, storeVars, threadVars, lockVars, slotVars,
     SInv, Types, RecordTypes, TunnelTypes, StoreTypes, ThreadTypes, RestTypes, RoundsLeft
<1> QED
  BY <1>1, <1>2, <1>3, <1>4, <1>5, <1>6, <1>7 DEF Next

(* The types of the exit and of its standby, with the budget of a round    *)
(* under way, hold in every state.                                         *)
THEOREM SInductive == Spec => []SInv
  BY InitHolds, NextHolds, PTL DEF Spec

(* Every variable of an exit keeps its shape, the failed rounds of its     *)
(* standby within their bound included.                                    *)
THEOREM STypeCorrect == Spec => []STypeOK
<1>1. SInv => STypeOK
  BY TypesAre DEF SInv
<1> QED
  BY <1>1, SInductive, PTL
-----------------------------------------------------------------------------
(***************************************************************************)
(* What the keeper reaps                                                   *)
(***************************************************************************)
LEMMA OtherGoes ==
  ASSUME SInv, NEW th \in Threads \ {"keeper"}, NEW p, Goto(th, p)
  PROVE  pc'["keeper"] = pc["keeper"]
  BY Named DEF Goto, SInv, Types, ThreadTypes

LEMMA OtherDone ==
  ASSUME SInv, NEW th \in Threads \ {"keeper"}, Done(th)
  PROVE  pc'["keeper"] = pc["keeper"]
  BY OtherGoes DEF Done

LEMMA OtherDials ==
  ASSUME SInv, NEW th \in Threads, th # "keeper" \/ ~At("keeper", "idle"),
         DialOrPromote(th) \/ StandbyDial(th)
  PROVE  pc'["keeper"] = pc["keeper"] \/ ~At("keeper", "idle")
<1> SUFFICES ASSUME th # "keeper" PROVE pc'["keeper"] = pc["keeper"]
  OBVIOUS
<1> USE OtherGoes, OtherDone
<1>1. ASSUME failed(th) PROVE pc'["keeper"] = pc["keeper"]
  BY <1>1 DEF failed
<1>2. ASSUME NEW left, NextCandidate(th, left) PROVE pc'["keeper"] = pc["keeper"]
  BY <1>2 DEF NextCandidate
<1>3. CASE DialOrPromote(th)
  BY <1>1, <1>3 DEF DialOrPromote, reserve_candidate, register_slot, check, promote_take, promote_busy,
     promote_put
<1>4. CASE StandbyDial(th)
  BY <1>2, <1>4 DEF StandbyDial, Provision, reserve_standby, register_standby, check_standby
<1> QED
  BY <1>3, <1>4

(* Only a round of maintenance takes the keeper out of its wait.           *)
LEMMA KeeperWakes ==
  ASSUME SInv, [Next]_vars, At("keeper", "idle"), pc'["keeper"] # "idle"
  PROVE  maintain_standby
<1> SUFFICES ASSUME ~maintain_standby PROVE pc'["keeper"] = pc["keeper"]
  BY DEF At
<1> USE OtherGoes, OtherDone, OtherDials, Named DEF At
<1>1. CASE Admin
  BY <1>1 DEF Admin, add_one_slot, delete_slot, stop_slot, start_slot, switch_slot_node, Dial,
     assign_node_to_slot, Assign, add_slot_with_node, retry_dedicated_standby, assign_dedicated_standby,
     threadVars
<1>2. CASE AdminStep
  BY <1>2 DEF AdminStep, delete_down, stop_down, stop_mark, delete_slot, restore_node, Assign,
     restore_failed
<1>3. ASSUME NEW th \in Threads \ {"keeper"}, NEW n, repair_slot(th, n, "repair")
      PROVE  pc'["keeper"] = pc["keeper"]
  BY <1>3 DEF repair_slot
<1>4. CASE Supervisor
  BY <1>3, <1>4 DEF Supervisor, supervise_begin, visit_inactive, visit_manual, visit_alive, visit_dead,
     visit_cold, Slot, Dial
<1>5. CASE KeeperStep
  BY <1>5 DEF KeeperStep, Keeper, probe_standby, list_candidates, select_standby, finish_standby,
     Exhausted, resume_none, resume_manual, resume_repair, retire_standby, threadVars, DialOrPromote,
     StandbyDial, Provision, reserve_candidate, register_slot, check, promote_take, promote_busy,
     promote_put, reserve_standby, register_standby, check_standby
<1>6. CASE Checker
  BY <1>3, <1>6 DEF Checker, check_slot_egress, record_slot_egress_probe
<1>7. CASE Environment
  BY <1>7 DEF Environment, die, darken, refresh, restart, threadVars
<1>8. CASE UNCHANGED vars
  BY <1>8 DEF vars, egressVars, threadVars
<1> QED
  BY <1>1, <1>2, <1>4, <1>5, <1>6, <1>7, <1>8 DEF Next

(* A round reaps what no record names, and empties the standby's device,   *)
(* which is not the exit's while that runs.                                *)
LEMMA MaintainSpares ==
  ASSUME SInv, maintain_standby, RunAlive
  PROVE  RunAlive'
<1>1. run' = run /\ run.dev \in Devices
  BY JobNow, Named DEF maintain_standby, KeeperOnly
<1>2. run.dev \notin Stray("standby")
  BY DEF Stray, Registered
<1>3. run.dev \notin StandbyDevice
  BY DEF RunAlive, StandbyDevice, StandbyAlive
<1>4. reap[run.dev] = hold[run.dev]
  BY <1>1, <1>2 DEF reap, Without
<1>5. hold' = hold \/ hold' = reap
        \/ hold' = [d \in Devices |-> IF d \in StandbyDevice THEN Empty ELSE reap[d]]
  BY DEF maintain_standby, begin_round
<1>6. hold'[run.dev] = hold[run.dev]
  BY <1>1, <1>3, <1>4, <1>5
<1> QED
  BY <1>1, <1>6 DEF RunAlive

(* What the keeper reaps at the start of a round is never the tunnel of    *)
(* the exit, although a promoted standby keeps the marker of a standby.    *)
THEOREM ReapSpares == Spec => ReapSparesExit
<1>1. SInv /\ [Next]_vars
        => [At("keeper", "idle") /\ ~At("keeper", "idle")' /\ RunAlive => RunAlive']_vars
  BY KeeperWakes, MaintainSpares DEF At
<1> QED
  BY <1>1, SInductive, PTL DEF Spec, ReapSparesExit
=============================================================================
