------------------------ MODULE MainConnectionProofs ------------------------
(***************************************************************************)
(* Which main connection a background repair takes down, for any           *)
(* candidates, devices, rounds and events.  A repair decides under the     *)
(* mutation lease and keeps it until it has taken the main down (Holds); a   *)
(* promotion writes its record without the lease, but the standby it has   *)
(* emptied lets no repair decide meanwhile (PutAlone).                     *)
(***************************************************************************)
EXTENDS MainConnection, TLAPS

Known == Nodes \union {None}
RunRecs == [st : {"absent", "up", "pending", "paused", "disconnected"},
            node : Known, dev : Devices]
StandbyRecs == [st : {"none", "checking", "ready", "degraded"},
                node : Known, dev : Devices]
RepairRows == [st : {"none", "waiting", "manual", "healthy"}, node : Known]
Places == Pcs \union Connecting
            \union {"restore", "switch", "scan", "blame", "validate", "probed"}
Ops == Boots \union Repairs
         \union {"none", "round", "assign_sb", "health", "restore", "switch", "connect", "ok", "bad"}
Jobs == [op : Ops, node : Known, back : Known, dev : Devices, list : SUBSET Nodes]
Lockers == Threads \union {None}

RowTypes == /\ run \in RunRecs /\ standby \in StandbyRecs
            /\ repair \in RepairRows /\ usable \subseteq Nodes
ThreadTypes == /\ pc \in [Threads -> Places] /\ job \in [Threads -> Jobs]
               /\ opLock \in Lockers /\ sbLock \in Lockers
Types == RowTypes /\ ThreadTypes
-----------------------------------------------------------------------------
(* Where the thread has its standby's lock.                                *)
Provisioning == {"sb_health", "sb_list", "sb_select", "sb_reserve", "sb_dialed", "sb_check"}

(* What a thread holds where it is, and what it is there for.              *)
Holds(th) ==
  /\ pc[th] \in Provisioning \union {"put"} => sbLock = th
  /\ Replacing(th) => opLock = th
  /\ pc[th] \in Connecting => opLock = th \/ Booting
  /\ th = "supervisor" =>
       /\ pc[th] = "scan" \/ job[th].op \in {"repair", "restore", "switch"} => opLock = th
       /\ pc[th] = "switch" => Booting
  /\ pc[th] \in Provisioning \union {"restore"} => job[th].op \notin Repairs

(* Nobody else is at work during the bootstrap.                            *)
BootQuiet == Booting => \A u \in Threads \ {"supervisor"} : pc[u] = "idle"

(* While a promotion has its tunnel in hand there is no standby, and no    *)
(* repair that has decided.                                                *)
PutAlone == \A u \in Threads : At(u, "put") =>
              standby = NoStandby /\ \A w \in Threads : ~Replacing(w)

RInv == Types /\ (\A u \in Threads : Holds(u)) /\ BootQuiet /\ PutAlone
-----------------------------------------------------------------------------
(***************************************************************************)
(* Types and names                                                         *)
(***************************************************************************)
LEMMA Named ==
  /\ {"supervisor", "admin", "keeper", "checker"} = Threads
  /\ {"idle", "resume", "check", "take", "put", "reserve", "dialed", "sb_health", "sb_list",
      "sb_select", "sb_reserve", "sb_dialed", "sb_check", "main_dial", "main_dialed",
      "main_verify", "restore", "switch", "scan", "blame", "validate", "probed"} = Places
  /\ {"boot_old", "boot", "boot_switch", "boot_again", "repair", "resume", "none", "round",
      "assign_sb", "health", "restore", "switch", "connect", "ok", "bad"} = Ops
  /\ Own \in Devices /\ None \in Known /\ Nodes \subseteq Known
  BY DEF Threads, Places, Pcs, Connecting, Ops, Boots, Repairs, Devices, Known

LEMMA Written ==
  /\ Absent \in RunRecs /\ NoStandby \in StandbyRecs
  /\ NoJob \in Jobs
  /\ \A op \in Ops, n, b \in Known : [NoJob EXCEPT !.op = op, !.node = n, !.back = b] \in Jobs
  BY Named DEF RunRecs, Absent, NoStandby, StandbyRecs, NoJob, Jobs

LEMMA Now ==
  ASSUME Types
  PROVE  /\ run.node \in Known /\ run.dev \in Devices
         /\ standby.node \in Known /\ standby.dev \in Devices /\ repair.node \in Known
         /\ \A th \in Threads :
              /\ job[th].node \in Known /\ job[th].back \in Known /\ job[th].dev \in Devices
              /\ job[th].op \in Ops /\ job[th].list \subseteq Nodes
  BY DEF Types, RowTypes, ThreadTypes, RunRecs, StandbyRecs, RepairRows, Jobs

LEMMA RowChange ==
  ASSUME Types, NEW n \in Known, NEW allow,
         wait_for_standby(n, allow) \/ mark_healthy(n) \/ require_manual
  PROVE  repair' \in RepairRows
  BY DEF Types, RowTypes, RepairRows, wait_for_standby, mark_healthy, require_manual

LEMMA WorkType ==
  ASSUME job \in [Threads -> Jobs], NEW th \in Threads, NEW op \in Ops, NEW n \in Known,
         Work(th, op, n)
  PROVE  job' \in [Threads -> Jobs] /\ job'[th].op = op
         /\ \A u \in Threads \ {th} : job'[u] = job[u]
<1> DEFINE new == [NoJob EXCEPT !.op = op, !.node = n]
<1>1. new \in Jobs
  BY Written DEF Jobs
<1>2. new.op = op
  BY Written DEF Jobs
<1>3. job' = [job EXCEPT ![th] = new]
  BY DEF Work
<1> QED
  BY <1>1, <1>2, <1>3

(* What a thread's end, and the step after a connection, make of it.       *)
LEMMA DoneFacts ==
  ASSUME ThreadTypes, NEW th \in Threads, Done(th)
  PROVE  /\ ThreadTypes' /\ pc'[th] \in {"resume", "idle"} /\ job'[th] = NoJob
         /\ \A u \in Threads \ {th} : pc'[u] = pc[u] /\ job'[u] = job[u]
         /\ opLock' = opLock \/ (opLock = th /\ opLock' = None)
         /\ sbLock' = sbLock \/ (sbLock = th /\ sbLock' = None)
<1>1. /\ pc' \in [Threads -> Places] /\ pc'[th] \in {"resume", "idle"}
      /\ \A u \in Threads \ {th} : pc'[u] = pc[u]
  BY Named DEF Done, Goto, ThreadTypes
<1>2. /\ job' \in [Threads -> Jobs] /\ job'[th] = NoJob
      /\ \A u \in Threads \ {th} : job'[u] = job[u]
  BY Written DEF Done, ThreadTypes
<1> QED
  BY <1>1, <1>2 DEF Done, ThreadTypes, Unlocked, Lockers

(* A step of thread th: what it leaves to the others.                      *)
Step(th) ==
  /\ \A u \in Threads \ {th} : pc'[u] = pc[u] /\ job'[u] = job[u]
  /\ opLock' = opLock \/ (opLock \in {None, th} /\ opLock' \in {None, th})
  /\ sbLock' = sbLock \/ (sbLock \in {None, th} /\ sbLock' \in {None, th})
  /\ standby' \in {standby, NoStandby} \/ StandbyAlive \/ pc[th] \in Provisioning
  /\ run' = run \/ MayChange(th) \/ At(th, "put") \/ Booting
  /\ Booting' => Booting
  /\ Booting => th = "supervisor" \/ pc'[th] = "idle"

(* A step of th into a promotion, or into a repair, is the step that may.  *)
Enters(th) ==
  /\ At(th, "put")' => standby' = NoStandby /\ MayChange(th)
  /\ Replacing(th)' => \/ Replacing(th) /\ run' = run
                       \/ /\ ~Replacing(th) /\ StandbyAlive
                          /\ RunAlive /\ proxyOk => run.node = job[th].back

(* What the steps of one thread keep of the invariant, and what they make  *)
(* of the property: the mutation lease and the emptied standby see to it   *)
(* that nobody writes a main under a repair that has decided.              *)
OnlyFailed ==
  \A th \in Threads : Replacing(th)' =>
    IF Replacing(th) THEN run' = run ELSE RunAlive /\ proxyOk => run.node = job[th].back

LEMMA StepKeeps ==
  ASSUME RInv, NEW th \in Threads, Types', Step(th), Enters(th), Holds(th)'
  PROVE  RInv' /\ OnlyFailed
<1> USE DEF At
<1>1. None \notin Threads
  BY RecoveryAssumption
<1>2. \A u \in Threads \ {th} : Replacing(u)' <=> Replacing(u)
  BY DEF Step, Replacing
<1>3. ASSUME NEW u \in Threads \ {th} PROVE Holds(u)'
  <2>1. Holds(u) /\ (Booting => u = "supervisor" \/ pc[u] = "idle")
    BY DEF RInv, BootQuiet
  <2>2. pc'[u] = pc[u] /\ job'[u] = job[u]
    BY DEF Step
  <2>3. (opLock = u => opLock' = u) /\ (sbLock = u => sbLock' = u)
    BY <1>1 DEF Step
  <2>4. u = "supervisor" => (Booting' <=> Booting)
    BY <2>2 DEF Booting
  <2>5. pc[u] # "idle" /\ Booting => Booting'
    BY <2>1, <2>4
  <2> QED
    BY <1>2, <2>1, <2>2, <2>3, <2>4, <2>5 DEF Holds, Connecting
<1>4. BootQuiet'
  BY DEF RInv, BootQuiet, Step
<1>5. ASSUME NEW w \in Threads, Replacing(w)
      PROVE  /\ opLock = w /\ ~Booting
             /\ \A u \in Threads : ~At(u, "put")
  <2>1. opLock = w
    BY <1>5 DEF RInv, Holds
  <2>2. ~Booting
    BY <1>5 DEF RInv, BootQuiet, Replacing, Booting, Boots, Repairs
  <2> QED
    BY <1>5, <2>1, <2>2 DEF RInv, PutAlone
<1>6. ASSUME NEW u \in Threads, At(u, "put")'
      PROVE  standby' = NoStandby /\ \A w \in Threads : ~Replacing(w)'
  <2>1. CASE u = th
    <3>1. standby' = NoStandby /\ MayChange(th) /\ ~Replacing(th)'
      BY <1>6, <2>1 DEF Enters, Replacing
    <3>2. ASSUME NEW w \in Threads \ {th} PROVE ~Replacing(w)
      BY <1>1, <1>5, <3>1 DEF MayChange
    <3> QED
      BY <1>2, <3>1, <3>2
  <2>2. CASE u # th
    <3>1. At(u, "put") /\ sbLock = u
      BY <1>6, <2>2 DEF Step, RInv, Holds
    <3>2. standby = NoStandby /\ \A w \in Threads : ~Replacing(w)
      BY <3>1 DEF RInv, PutAlone
    <3>3. ~StandbyAlive /\ pc[th] \notin Provisioning
      BY <1>1, <2>2, <3>1, <3>2 DEF StandbyAlive, NoStandby, RInv, Holds
    <3>4. standby' = NoStandby
      BY <3>2, <3>3 DEF Step
    <3>5. ~Replacing(th)'
      BY <3>2, <3>3 DEF Enters
    <3> QED
      BY <1>2, <3>2, <3>4, <3>5
  <2> QED
    BY <2>1, <2>2
<1>7. OnlyFailed
  <2> SUFFICES ASSUME NEW w \in Threads, Replacing(w)'
               PROVE  IF Replacing(w) THEN run' = run ELSE RunAlive /\ proxyOk => run.node = job[w].back
    BY DEF OnlyFailed
  <2>1. CASE w = th
    BY <2>1 DEF Enters
  <2>2. CASE w # th
    <3>1. Replacing(w)
      BY <1>2, <2>2
    <3>2. run' = run
      BY <1>1, <1>5, <2>2, <3>1 DEF Step, MayChange
    <3> QED
      BY <3>1, <3>2
  <2> QED
    BY <2>1, <2>2
<1> QED
  BY <1>3, <1>4, <1>6, <1>7 DEF RInv, PutAlone

(* A step of th that is not into a promotion or a repair.                  *)
Leaves(th) ==
  /\ ThreadTypes'
  /\ \A u \in Threads \ {th} : pc'[u] = pc[u] /\ job'[u] = job[u]
  /\ opLock' = opLock \/ (opLock \in {None, th} /\ opLock' \in {None, th})
  /\ sbLock' = sbLock \/ (sbLock \in {None, th} /\ sbLock' \in {None, th})
  /\ Booting' => Booting
  /\ Booting => th = "supervisor" \/ pc'[th] = "idle"
  /\ Holds(th)' /\ ~Replacing(th)' /\ pc'[th] # "put"

(* What it may do to the records.                                          *)
Rows(th) ==
  /\ RowTypes'
  /\ standby' \in {standby, NoStandby} \/ StandbyAlive \/ pc[th] \in Provisioning
  /\ run' = run \/ MayChange(th) \/ At(th, "put") \/ Booting

LEMMA LeavesKeeps ==
  ASSUME RInv, NEW th \in Threads, Leaves(th), Rows(th)
  PROVE  RInv' /\ OnlyFailed
  BY StepKeeps DEF Leaves, Rows, Step, Enters, At, Types

LEMMA RowsSame ==
  ASSUME RInv, NEW th \in Threads, UNCHANGED <<run, standby>>, repair' \in RepairRows,
         usable' \subseteq Nodes
  PROVE  Rows(th)
  BY DEF Rows, RowTypes, RInv, Types

(* Whoever is at work while the bootstrap is not over is the supervisor.   *)
LEMMA Awake ==
  ASSUME RInv, NEW th \in Threads, pc[th] # "idle"
  PROVE  th = "supervisor" \/ ~Booting
  BY DEF RInv, BootQuiet

LEMMA DoneLeaves ==
  ASSUME RInv, NEW th \in Threads, Done(th), th = "supervisor" \/ ~Booting
  PROVE  Leaves(th)
<1>1. /\ ThreadTypes' /\ pc'[th] \in {"resume", "idle"} /\ job'[th].op = "none"
      /\ \A u \in Threads \ {th} : pc'[u] = pc[u] /\ job'[u] = job[u]
      /\ opLock' = opLock \/ (opLock = th /\ opLock' = None)
      /\ sbLock' = sbLock \/ (sbLock = th /\ sbLock' = None)
  BY DoneFacts DEF RInv, Types, NoJob
<1>2. Booting' => Booting
  BY <1>1, Named DEF Booting, Boots
<1>3. Holds(th)' /\ ~Replacing(th)'
  BY <1>1 DEF Holds, Replacing, Provisioning, Connecting, Repairs
<1> QED
  BY <1>1, <1>2, <1>3 DEF Leaves

LEMMA GoesLeaves ==
  ASSUME RInv, NEW th \in Threads, th = "supervisor" \/ ~Booting,
         NEW p \in Places \ {"put"}, Goto(th, p),
         job' \in [Threads -> Jobs], \A u \in Threads \ {th} : job'[u] = job[u],
         opLock' = opLock \/ (opLock \in {None, th} /\ opLock' \in {None, th}),
         sbLock' = sbLock \/ (sbLock \in {None, th} /\ sbLock' \in {None, th}),
         th = "supervisor" /\ job'[th].op \in Boots => Booting,
         pc'[th] = p => Holds(th)' /\ ~Replacing(th)'
  PROVE  Leaves(th)
<1>1. /\ pc' \in [Threads -> Places] /\ pc'[th] = p
      /\ \A u \in Threads \ {th} : pc'[u] = pc[u]
  BY DEF RInv, Types, ThreadTypes, Goto
<1>2. ThreadTypes'
  BY <1>1 DEF RInv, Types, ThreadTypes, Lockers
<1>3. Booting' => Booting
  BY Named DEF Booting
<1> QED
  BY <1>1, <1>2, <1>3 DEF Leaves

LEMMA ReturnLeaves ==
  ASSUME RInv, NEW th \in Threads, th = "supervisor" \/ ~Booting, NEW ok, Return(th, ok)
  PROVE  Leaves(th)
<1>1. CASE Done(th)
  BY <1>1, DoneLeaves
<1>2. CASE ~Done(th)
  <2>1. /\ th = "supervisor" /\ opLock' = opLock
        /\ sbLock' = sbLock \/ (sbLock = th /\ sbLock' = None)
        /\ \/ /\ job[th].op \in {"repair", "restore"}
              /\ Goto(th, "scan") /\ job' = [job EXCEPT ![th] = NoJob]
           \/ /\ job[th].op = "boot_old" /\ Goto(th, "restore") /\ Work(th, "boot", None)
           \/ /\ job[th].op = "boot" /\ Goto(th, "switch") /\ Work(th, "boot_switch", None)
           \/ /\ job[th].op = "boot_switch" /\ Goto(th, "restore") /\ Work(th, "boot_again", None)
    BY <1>2 DEF Return, Unlocked
  <2>2. job \in [Threads -> Jobs]
    BY DEF RInv, Types, ThreadTypes
  <2>3. CASE /\ job[th].op \in {"repair", "restore"}
             /\ Goto(th, "scan") /\ job' = [job EXCEPT ![th] = NoJob]
    <3>1. /\ job' \in [Threads -> Jobs] /\ job'[th].op = "none"
          /\ \A u \in Threads \ {th} : job'[u] = job[u]
      BY <2>2, <2>3, Written DEF NoJob
    <3>2. opLock = th
      BY <2>1, <2>3 DEF RInv, Holds
    <3>3. pc'[th] = "scan" => Holds(th)' /\ ~Replacing(th)'
      BY <2>1, <3>1, <3>2 DEF Holds, Replacing, Provisioning, Connecting, Repairs
    <3> QED
      BY <2>1, <2>3, <3>1, <3>3, Named, GoesLeaves DEF Boots
  <2>4. ASSUME NEW op \in {"boot", "boot_switch", "boot_again"}, Work(th, op, None),
               NEW p \in {"restore", "switch"}, Goto(th, p), job[th].op \in Boots
        PROVE  Leaves(th)
    <3>1. /\ job' \in [Threads -> Jobs] /\ job'[th].op = op
          /\ \A u \in Threads \ {th} : job'[u] = job[u]
      BY <2>2, <2>4, WorkType, Named
    <3>2. Booting /\ Booting'
      BY <2>1, <2>4, <3>1 DEF Booting, Boots
    <3>3. pc'[th] = p => Holds(th)' /\ ~Replacing(th)'
      BY <2>1, <3>1, <3>2 DEF Holds, Replacing, Provisioning, Connecting, Repairs
    <3> QED
      BY <2>1, <2>4, <3>1, <3>2, <3>3, Named, GoesLeaves
  <2> QED
    BY <2>1, <2>3, <2>4 DEF Boots
<1> QED
  BY <1>1, <1>2
-----------------------------------------------------------------------------
(***************************************************************************)
(* A connection                                                            *)
(***************************************************************************)
LEMMA AbsentRow ==
  ASSUME RInv, run' = Absent \/ run' = run
  PROVE  run' \in RunRecs
  BY Written DEF RInv, Types, RowTypes

LEMMA ConnectKeeps ==
  ASSUME RInv, NEW th \in Threads, NEW op \in {"connect", "switch", "boot_switch"},
         NEW n \in Nodes, Connect(th, op, n), th = "supervisor" \/ ~Booting,
         op = "boot_switch" => Booting, th # "supervisor" => op = "connect",
         UNCHANGED <<standby, repair, usable, sbLock>>
  PROVE  RInv' /\ OnlyFailed
<1>1. /\ job' \in [Threads -> Jobs] /\ job'[th].op = op
      /\ \A u \in Threads \ {th} : job'[u] = job[u]
  BY WorkType, Named DEF Connect, RInv, Types, ThreadTypes
<1>2. pc'[th] = "main_dial" => Holds(th)' /\ ~Replacing(th)'
  BY <1>1 DEF Connect, Holds, Replacing, Provisioning, Connecting, Repairs
<1>3. Leaves(th)
  BY <1>1, <1>2, Named, GoesLeaves DEF Connect, MayChange, Boots
<1>4. Rows(th)
  BY AbsentRow DEF Rows, RowTypes, Connect, stop_active_openvpn, RInv, Types
<1> QED
  BY <1>3, <1>4, LeavesKeeps

(* A thread goes on with its own work.                                     *)
LEMMA SameJob ==
  ASSUME RInv, NEW th \in Threads, pc[th] # "idle", NEW p \in Places \ {"put"}, Goto(th, p),
         UNCHANGED <<job, lockVars>>,
         pc'[th] = p => Holds(th)' /\ ~Replacing(th)'
  PROVE  Leaves(th)
  BY Awake, GoesLeaves DEF lockVars, RInv, Types, ThreadTypes, Booting

LEMMA MainDialKeeps ==
  ASSUME RInv, NEW th \in Threads, main_dial(th) \/ main_register(th) \/ main_verify(th)
  PROVE  RInv' /\ OnlyFailed
<1>1. /\ pc[th] \in Connecting /\ pc[th] # "idle" /\ (th = "supervisor" \/ ~Booting)
      /\ standby' = standby
  BY Awake DEF main_dial, main_register, main_verify, At, Connecting, recordVars
<1>2. opLock = th \/ Booting
  BY <1>1 DEF RInv, Holds
<1>3. Leaves(th)
  <2>1. CASE \E ok : Return(th, ok)
    BY <1>1, <2>1, ReturnLeaves
  <2>2. ASSUME NEW p \in {"main_dialed", "main_verify"}, Goto(th, p), UNCHANGED <<job, lockVars>>
        PROVE  Leaves(th)
    <3>1. pc'[th] = p => Holds(th)' /\ ~Replacing(th)'
      BY <1>2, <2>2, <1>1 DEF Holds, RInv, Replacing, Provisioning, Connecting, lockVars, Booting
    <3> QED
      BY <1>1, <2>2, <3>1, SameJob, Named
  <2> QED
    BY <2>1, <2>2 DEF main_dial, main_register, main_verify, connect_failed
<1>4. usable' \subseteq Nodes
  BY DEF main_dial, main_register, main_verify, connect_failed, RInv, Types, RowTypes
<1>5. repair' \in RepairRows
  BY RowChange, Now DEF main_dial, main_register, main_verify, storeVars, RInv, Types, RowTypes
<1>6. run' \in RunRecs
  <2>1. [st |-> "up", node |-> job[th].node, dev |-> Own] \in RunRecs
    BY Now, Named DEF RInv, RunRecs
  <2> QED
    BY <2>1, AbsentRow DEF main_dial, main_register, main_verify, connect_failed, recordVars
<1> QED
  BY <1>1, <1>2, <1>3, <1>4, <1>5, <1>6, LeavesKeeps DEF Rows, RowTypes, MayChange, RInv, Types
-----------------------------------------------------------------------------
(***************************************************************************)
(* A promotion                                                             *)
(***************************************************************************)
LEMMA CheckKeeps ==
  ASSUME RInv, NEW th \in Threads, check(th, Return(th, FALSE))
  PROVE  RInv' /\ OnlyFailed
<1>1. /\ pc[th] = "check" /\ (th = "supervisor" \/ ~Booting)
      /\ UNCHANGED <<run, repair, usable>>
  BY Awake DEF check, At, storeVars
<1>2. standby' \in StandbyRecs /\ (standby' = standby \/ StandbyAlive)
  BY DEF check, RInv, Types, RowTypes, StandbyRecs
<1>3. CASE Return(th, FALSE)
  BY <1>1, <1>2, <1>3, ReturnLeaves, LeavesKeeps DEF Rows, RowTypes, RInv, Types
<1>4. CASE Goto(th, "take") /\ UNCHANGED <<job, lockVars>>
  <2>1. /\ ThreadTypes' /\ pc'[th] = "take"
        /\ \A u \in Threads \ {th} : pc'[u] = pc[u]
    BY <1>4, Named DEF Goto, lockVars, RInv, Types, ThreadTypes
  <2>2. Replacing(th)' <=> Replacing(th)
    BY <1>1, <1>4, <2>1 DEF Replacing
  <2>3. Holds(th)'
    BY <1>1, <1>4, <2>1, <2>2 DEF RInv, Holds, lockVars, Provisioning, Connecting
  <2>4. Step(th) /\ Enters(th)
    BY <1>1, <1>2, <1>4, <2>1, <2>2 DEF Step, Enters, At, lockVars, Booting
  <2>5. Types'
    BY <1>1, <1>2, <2>1 DEF Types, RowTypes, RInv
  <2> QED
    BY <2>3, <2>4, <2>5, StepKeeps
<1> QED
  BY <1>3, <1>4 DEF check

LEMMA TakeKeeps ==
  ASSUME RInv, NEW th \in Threads, promote_take(th) \/ promote_busy(th)
  PROVE  RInv' /\ OnlyFailed
<1>1. /\ pc[th] = "take" /\ (th = "supervisor" \/ ~Booting)
      /\ UNCHANGED <<repair, usable>> /\ standby' \in {standby, NoStandby}
  BY Awake DEF promote_take, promote_busy, At, recordVars, storeVars
<1>2. standby' \in StandbyRecs
  BY <1>1, Written DEF RInv, Types, RowTypes
<1>3. CASE (Return(th, FALSE) \/ Done(th)) /\ run' = run
  BY <1>1, <1>2, <1>3, ReturnLeaves, DoneLeaves, LeavesKeeps DEF Rows, RowTypes, RInv, Types
<1>4. CASE /\ MayChange(th) /\ stop_active_openvpn({standby.dev}) /\ standby' = NoStandby
           /\ Goto(th, "put") /\ sbLock \in {None, th} /\ sbLock' = th /\ UNCHANGED opLock
           /\ job' = [job EXCEPT ![th].node = standby.node, ![th].dev = standby.dev]
  <2>1. /\ job' \in [Threads -> Jobs] /\ job'[th].op = job[th].op
        /\ \A u \in Threads \ {th} : job'[u] = job[u]
    BY <1>4, Now DEF RInv, Types, ThreadTypes, Jobs
  <2>2. /\ ThreadTypes' /\ pc'[th] = "put"
        /\ \A u \in Threads \ {th} : pc'[u] = pc[u]
    BY <1>4, <2>1, Named DEF Goto, RInv, Types, ThreadTypes, Lockers
  <2>3. Booting' <=> Booting
    BY <2>1, Named DEF Booting
  <2>4. Holds(th)' /\ ~Replacing(th)'
    BY <1>4, <2>1, <2>2 DEF RInv, Holds, Replacing, Provisioning, Connecting
  <2>5. Step(th) /\ Enters(th)
    BY <1>1, <1>4, <2>1, <2>2, <2>3, <2>4 DEF Step, Enters, At
  <2>6. Types'
    BY <1>1, <1>2, <1>4, <2>2, AbsentRow DEF stop_active_openvpn, Types, RowTypes, RInv
  <2> QED
    BY <2>4, <2>5, <2>6, StepKeeps
<1> QED
  BY <1>3, <1>4 DEF promote_take, promote_busy, recordVars

LEMMA PutKeeps ==
  ASSUME RInv, NEW th \in Threads, promote_put(th)
  PROVE  RInv' /\ OnlyFailed
<1>1. /\ pc[th] = "put" /\ Goto(th, "validate") /\ UNCHANGED <<job, lockVars, standby, repair, usable>>
      /\ run' = [st |-> "up", node |-> job[th].node, dev |-> job[th].dev]
  BY DEF promote_put, At, storeVars
<1>2. run' \in RunRecs
  BY <1>1, Now DEF RInv, RunRecs
<1>3. pc'[th] = "validate" => Holds(th)' /\ ~Replacing(th)'
  BY <1>1 DEF RInv, Holds, Replacing, Provisioning, Connecting, lockVars
<1> QED
  BY <1>1, <1>2, <1>3, Named, SameJob, LeavesKeeps DEF Rows, RowTypes, RInv, Types, At

LEMMA ValidateKeeps ==
  ASSUME RInv, NEW th \in Threads, promote_validate(th)
  PROVE  RInv' /\ OnlyFailed
<1>1. pc[th] # "idle" /\ (th = "supervisor" \/ ~Booting) /\ UNCHANGED <<standby, usable>>
  BY Awake DEF promote_validate, At
<1>2. Leaves(th)
  BY <1>1, ReturnLeaves, DoneLeaves DEF promote_validate
<1>3. run' = run \/ (run' = Absent /\ MayChange(th))
  BY DEF promote_validate, stop_active_openvpn
<1>4. repair' \in RepairRows
  BY RowChange, Now DEF promote_validate, storeVars, RInv, Types, RowTypes
<1> QED
  BY <1>1, <1>2, <1>3, <1>4, AbsentRow, LeavesKeeps DEF Rows, RowTypes, RInv, Types

(* The decision of a repair: under the lease, with a standby, and not      *)
(* against a newer main that was verified.                                 *)
LEMMA BlameKeeps ==
  ASSUME RInv, NEW th \in Threads, repair_main_once(th)
  PROVE  RInv' /\ OnlyFailed
<1>1. /\ pc[th] = "blame" /\ (th = "supervisor" \/ ~Booting)
      /\ UNCHANGED <<run, standby>>
  BY Awake DEF repair_main_once, At, recordVars
<1>2. repair' \in RepairRows
  BY RowChange, Now DEF repair_main_once, wait, RInv, Types, RowTypes
<1>3. usable' \subseteq Nodes
  BY DEF repair_main_once, RInv, Types, RowTypes
<1>4. CASE \/ Return(th, TRUE) \/ Return(th, FALSE) \/ Done(th)
  BY <1>1, <1>2, <1>3, <1>4, ReturnLeaves, DoneLeaves, LeavesKeeps, RowsSame
<1>5. CASE /\ MayChange(th) /\ ~Stale(job[th].back) /\ StandbyAlive
           /\ Goto(th, "check") /\ opLock' = th /\ UNCHANGED <<job, sbLock>>
  <2>1. /\ ThreadTypes' /\ pc'[th] = "check"
        /\ \A u \in Threads \ {th} : pc'[u] = pc[u]
    BY <1>5, Named DEF Goto, RInv, Types, ThreadTypes, Lockers
  <2>2. Holds(th)' /\ ~Replacing(th)
    BY <1>1, <1>5, <2>1 DEF RInv, Holds, Replacing, Provisioning, Connecting
  <2>3. Step(th) /\ Enters(th)
    BY <1>1, <1>5, <2>1, <2>2 DEF Step, Enters, At, Booting, MayChange, Stale
  <2>4. Types'
    BY <1>1, <1>2, <1>3, <2>1 DEF Types, RowTypes, RInv
  <2> QED
    BY <2>2, <2>3, <2>4, StepKeeps
<1> QED
  BY <1>4, <1>5 DEF repair_main_once

LEMMA PromoteKeeps ==
  ASSUME RInv, NEW th \in Threads, Promote(th) \/ ConnectStep(th) \/ repair_main_once(th)
  PROVE  RInv' /\ OnlyFailed
  BY CheckKeeps, TakeKeeps, PutKeeps, ValidateKeeps, MainDialKeeps, BlameKeeps DEF Promote, ConnectStep
-----------------------------------------------------------------------------
(***************************************************************************)
(* The life of the standby                                                 *)
(***************************************************************************)

LEMMA NextKeeps ==
  ASSUME RInv, NEW th \in Threads, pc[th] \in Provisioning, NEW left, NextCandidate(th, left),
         opLock' = opLock, Rows(th)
  PROVE  RInv' /\ OnlyFailed
<1>1. th = "supervisor" \/ ~Booting
  BY Awake DEF Provisioning
<1>2. CASE Done(th)
  BY <1>1, <1>2, DoneLeaves, LeavesKeeps
<1>3. CASE Goto(th, "sb_select") /\ UNCHANGED <<job, sbLock>>
  <2>1. sbLock = th
    BY DEF RInv, Holds
  <2>2. pc'[th] = "sb_select" => Holds(th)' /\ ~Replacing(th)'
    BY <1>3, <2>1 DEF RInv, Holds, Replacing, Provisioning, Connecting
  <2>3. pc[th] # "idle"
    BY DEF Provisioning
  <2>4. Leaves(th)
    BY <1>3, <2>2, <2>3, Named, SameJob DEF lockVars
  <2> QED
    BY <2>4, LeavesKeeps
<1> QED
  BY <1>2, <1>3 DEF NextCandidate

(* A candidate is reserved, brought up and checked.                        *)
LEMMA ReserveKeeps ==
  ASSUME RInv, NEW th \in Threads, reserve_standby(th)
  PROVE  RInv' /\ OnlyFailed
<1>1. /\ pc[th] = "sb_reserve" /\ UNCHANGED <<run, repair>> /\ opLock' = opLock
      /\ standby' \in {standby, NoStandby} /\ usable' \subseteq Nodes
  BY DEF reserve_standby, At, NextCandidate, RInv, Types, RowTypes
<1>2. Rows(th)
  BY <1>1, Written DEF Rows, RowTypes, RInv, Types
<1>3. CASE \E left : NextCandidate(th, left)
  BY <1>1, <1>2, <1>3, NextKeeps DEF Provisioning
<1>4. CASE \E dev \in Devices : /\ Goto(th, "sb_dialed") /\ job' = [job EXCEPT ![th].dev = dev]
                                /\ UNCHANGED sbLock
  <2>1. /\ job' \in [Threads -> Jobs] /\ job'[th].op = job[th].op
        /\ \A u \in Threads \ {th} : job'[u] = job[u]
    BY <1>4 DEF RInv, Types, ThreadTypes, Jobs
  <2>2. sbLock = th
    BY <1>1 DEF RInv, Holds, Provisioning
  <2>3. pc'[th] = "sb_dialed" => Holds(th)' /\ ~Replacing(th)'
    BY <1>1, <1>4, <2>1, <2>2 DEF RInv, Holds, Replacing, Provisioning, Connecting
  <2>4. Leaves(th)
    BY <1>1, <1>4, <2>1, <2>3, Named, Awake, GoesLeaves DEF Booting
  <2> QED
    BY <1>2, <2>4, LeavesKeeps
<1> QED
  BY <1>3, <1>4 DEF reserve_standby

LEMMA RegisterKeeps ==
  ASSUME RInv, NEW th \in Threads, register_standby(th)
  PROVE  RInv' /\ OnlyFailed
<1>1. /\ pc[th] = "sb_dialed" /\ UNCHANGED <<run, repair, opLock>> /\ usable' \subseteq Nodes
      /\ standby' \in {standby, [st |-> "checking", node |-> job[th].node, dev |-> job[th].dev]}
  BY DEF register_standby, At, RInv, Types, RowTypes
<1>2. standby' \in StandbyRecs
  BY <1>1, Now DEF RInv, Types, RowTypes, StandbyRecs
<1>3. Rows(th)
  BY <1>1, <1>2 DEF Rows, RowTypes, RInv, Types, Provisioning
<1>4. CASE NextCandidate(th, FALSE)
  BY <1>1, <1>3, <1>4, NextKeeps DEF Provisioning
<1>5. CASE Goto(th, "sb_check") /\ UNCHANGED <<job, sbLock>>
  <2>1. sbLock = th
    BY <1>1 DEF RInv, Holds, Provisioning
  <2>2. pc'[th] = "sb_check" => Holds(th)' /\ ~Replacing(th)'
    BY <1>1, <1>5, <2>1 DEF RInv, Holds, Replacing, Provisioning, Connecting
  <2>3. Leaves(th)
    BY <1>1, <1>5, <2>2, Named, SameJob DEF lockVars
  <2> QED
    BY <1>3, <2>3, LeavesKeeps
<1> QED
  BY <1>4, <1>5 DEF register_standby

LEMMA CheckStandbyKeeps ==
  ASSUME RInv, NEW th \in Threads,
         check_standby(th, Done(th)) \/ (th = "supervisor" /\ check_standby(th, restore_provisioned))
  PROVE  RInv' /\ OnlyFailed
<1>1. /\ pc[th] = "sb_check" /\ UNCHANGED <<run, repair>> /\ usable' \subseteq Nodes
      /\ standby' \in {NoStandby, [standby EXCEPT !.st = "ready"]}
  BY DEF check_standby, At, RInv, Types, RowTypes, tear_down_dedicated_standby
<1>2. standby' \in StandbyRecs
  BY <1>1, Written DEF RInv, Types, RowTypes, StandbyRecs
<1>3. Rows(th)
  BY <1>1, <1>2 DEF Rows, RowTypes, RInv, Types, Provisioning
<1>4. CASE NextCandidate(th, FALSE) /\ opLock' = opLock
  BY <1>1, <1>3, <1>4, NextKeeps DEF Provisioning
<1>5. CASE Done(th)
  BY <1>1, <1>3, <1>5, Awake, DoneLeaves, LeavesKeeps
<1>6. CASE th = "supervisor" /\ restore_provisioned
  <2>1. sbLock = th /\ job[th].op \notin Repairs
    BY <1>1 DEF RInv, Holds, Provisioning
  <2>2. /\ Goto(th, "check") /\ sbLock' = None /\ UNCHANGED <<job, opLock>>
    BY <1>6 DEF restore_provisioned
  <2>3. pc'[th] = "check" => Holds(th)' /\ ~Replacing(th)'
    BY <2>1, <2>2, <1>6 DEF RInv, Holds, Replacing, Provisioning, Connecting
  <2>4. job' \in [Threads -> Jobs] /\ (Booting' <=> Booting)
    BY <2>2 DEF RInv, Types, ThreadTypes, Booting
  <2>5. Leaves(th)
    BY <1>6, <2>1, <2>2, <2>3, <2>4, Named, GoesLeaves DEF Booting
  <2> QED
    BY <1>3, <2>5, LeavesKeeps
<1> QED
  BY <1>4, <1>5, <1>6 DEF check_standby

(* The list of a round, and the next of it.                                *)
LEMMA SelectKeeps ==
  ASSUME RInv, NEW th \in Threads, list_candidates(th, {}) \/ select_standby(th, {})
  PROVE  RInv' /\ OnlyFailed
<1>1. /\ pc[th] \in {"sb_list", "sb_select"}
      /\ UNCHANGED <<standby, run, repair, opLock, sbLock>> /\ usable' \subseteq Nodes
  BY DEF list_candidates, select_standby, Provisioner, At, RInv, Types, RowTypes
<1>2. /\ job' \in [Threads -> Jobs] /\ job'[th].op = job[th].op
      /\ \A u \in Threads \ {th} : job'[u] = job[u]
  <2>1. CASE list_candidates(th, {})
    BY <2>1 DEF list_candidates, RInv, Types, RowTypes, ThreadTypes, Jobs
  <2>2. CASE select_standby(th, {})
    <3>1. PICK n \in job[th].list :
            job' = [job EXCEPT ![th].node = n, ![th].list = job[th].list \ {n}]
      BY <2>2 DEF select_standby
    <3>2. n \in Known /\ job[th].list \ {n} \subseteq Nodes
      BY <3>1, Now, Named DEF RInv
    <3> QED
      BY <3>1, <3>2 DEF RInv, Types, ThreadTypes, Jobs
  <2> QED
    BY <2>1, <2>2
<1>3. sbLock = th
  BY <1>1 DEF RInv, Holds, Provisioning
<1>4. PICK p \in {"sb_select", "sb_reserve"} : Goto(th, p) \/ (p = pc[th] /\ pc' = pc)
  BY <1>1 DEF list_candidates, select_standby, At
<1>5. Goto(th, p)
  BY <1>4 DEF Goto, RInv, Types, ThreadTypes
<1>6. pc'[th] = p => Holds(th)' /\ ~Replacing(th)'
  BY <1>1, <1>2, <1>3 DEF RInv, Holds, Replacing, Provisioning, Connecting, Booting
<1>7. Leaves(th)
  BY <1>1, <1>2, <1>5, <1>6, Named, Awake, GoesLeaves DEF Booting
<1> QED
  BY <1>1, <1>7, RowsSame, LeavesKeeps DEF RInv, Types, RowTypes

(* The keeper takes up a piece of work with the lock of the standby.       *)
LEMMA KeeperWorks ==
  ASSUME RInv, ~Booting, NEW p \in {"sb_list", "sb_health"}, Goto("keeper", p),
         Work("keeper", "round", None), sbLock' = "keeper", sbLock \in {None, "keeper"},
         opLock' = opLock
  PROVE  Leaves("keeper")
<1>1. /\ job' \in [Threads -> Jobs] /\ job'["keeper"].op = "round"
      /\ \A u \in Threads \ {"keeper"} : job'[u] = job[u]
  BY WorkType, Named DEF RInv, Types, ThreadTypes
<1>2. pc'["keeper"] = p => Holds("keeper")' /\ ~Replacing("keeper")'
  BY <1>1 DEF Holds, Replacing, Provisioning, Connecting, Repairs
<1> QED
  BY <1>1, <1>2, Named, GoesLeaves

LEMMA BeginRoundKeeps ==
  ASSUME RInv, ~Booting, NEW reaped, begin_round(reaped), sbLock \in {None, "keeper"},
         KeeperOnly, UNCHANGED <<repair, usable>>
  PROVE  RInv' /\ OnlyFailed
<1>1. standby' \in {standby, NoStandby} /\ UNCHANGED <<run, opLock>>
  BY DEF begin_round, KeeperOnly
<1>2. Rows("keeper")
  BY <1>1, Written DEF Rows, RowTypes, RInv, Types
<1>3. Leaves("keeper")
  BY <1>1, DoneLeaves, KeeperWorks, Named DEF begin_round
<1> QED
  BY <1>2, <1>3, LeavesKeeps, Named

LEMMA MaintainKeeps ==
  ASSUME RInv, ~Booting, maintain_standby
  PROVE  RInv' /\ OnlyFailed
<1>1. pc["keeper"] = "idle" /\ sbLock = None /\ UNCHANGED <<run, opLock, repair, usable>>
  BY DEF maintain_standby, KeeperOnly, At
<1>2. CASE begin_round(reap)
  BY <1>1, <1>2, BeginRoundKeeps DEF maintain_standby
<1>3. CASE Goto("keeper", "resume") /\ UNCHANGED <<job, sbLock, standby>>
  <2>1. pc'["keeper"] = "resume" => Holds("keeper")' /\ ~Replacing("keeper")'
    BY DEF Holds, Replacing, Provisioning, Connecting
  <2>2. Leaves("keeper")
    BY <1>1, <1>3, <2>1, Named, GoesLeaves DEF RInv, Types, ThreadTypes
  <2> QED
    BY <1>1, <1>3, <2>2, Named, RowsSame, LeavesKeeps DEF RInv, Types, RowTypes
<1>4. CASE /\ Goto("keeper", "sb_health") /\ Work("keeper", "round", None)
           /\ sbLock' = "keeper" /\ UNCHANGED standby
  BY <1>1, <1>4, Named, KeeperWorks, RowsSame, LeavesKeeps DEF RInv, Types, RowTypes
<1> QED
  BY <1>2, <1>3, <1>4 DEF maintain_standby

LEMMA ProbeKeeps ==
  ASSUME RInv, ~Booting, NEW next, probe_standby(next)
  PROVE  RInv' /\ OnlyFailed
<1>1. /\ pc["keeper"] = "sb_health" /\ KeeperOnly /\ UNCHANGED <<run, opLock, repair, usable>>
      /\ sbLock = "keeper"
  BY Named DEF probe_standby, KeeperOnly, At, RInv, Holds, Provisioning
<1>2. CASE begin_round(hold)
  BY <1>1, <1>2, BeginRoundKeeps
<1>3. CASE ~begin_round(hold)
  <2>1. standby' = [standby EXCEPT !.st = "ready"]
    BY <1>3 DEF probe_standby
  <2>2. Rows("keeper")
    BY <1>1, <2>1 DEF Rows, RowTypes, RInv, Types, StandbyRecs, Provisioning
  <2>3. CASE Done("keeper")
    BY <2>2, <2>3, Named, DoneLeaves, LeavesKeeps
  <2>4. CASE Goto("keeper", "check") /\ Work("keeper", "health", None) /\ UNCHANGED sbLock
    <3>1. /\ job' \in [Threads -> Jobs] /\ job'["keeper"].op = "health"
          /\ \A u \in Threads \ {"keeper"} : job'[u] = job[u]
      BY <2>4, WorkType, Named DEF RInv, Types, ThreadTypes
    <3>2. pc'["keeper"] = "check" => Holds("keeper")' /\ ~Replacing("keeper")'
      BY <3>1 DEF Holds, Replacing, Provisioning, Connecting, Repairs
    <3>3. Leaves("keeper")
      BY <1>1, <2>4, <3>1, <3>2, Named, GoesLeaves
    <3> QED
      BY <2>2, <3>3, Named, LeavesKeeps
  <2> QED
    BY <1>3, <2>3, <2>4 DEF probe_standby
<1> QED
  BY <1>2, <1>3

(* The end of a round, and what the keeper does about a main that waits.   *)
LEMMA ResumeKeeps ==
  ASSUME RInv, ~Booting,
         finish_standby \/ resume_none \/ resume_manual \/ resume_repair \/ retire_main_standby
  PROVE  RInv' /\ OnlyFailed
<1> USE DEF recordVars, storeVars, threadVars, lockVars
<1>1. /\ run' = run /\ usable' = usable /\ standby' \in {standby, NoStandby}
  BY DEF finish_standby, resume_none, resume_manual, resume_repair, retire_main_standby
<1>2. repair' \in RepairRows
  BY RowChange, Named DEF finish_standby, resume_none, resume_manual, resume_repair, retire_main_standby,
     RInv, Types, RowTypes
<1>3. Rows("keeper")
  BY <1>1, <1>2, Written DEF Rows, RowTypes, RInv, Types
<1>4. CASE finish_standby
  BY <1>3, <1>4, Named, DoneLeaves, LeavesKeeps DEF finish_standby
<1>5. CASE resume_none \/ resume_manual
  <2>1. Goto("keeper", "idle") /\ UNCHANGED <<job, opLock, sbLock>>
    BY <1>5 DEF resume_none, resume_manual
  <2>2. pc'["keeper"] = "idle" => Holds("keeper")' /\ ~Replacing("keeper")'
    BY DEF Holds, Replacing, Provisioning, Connecting
  <2>3. Leaves("keeper")
    BY <2>1, <2>2, Named, GoesLeaves DEF RInv, Types, ThreadTypes
  <2> QED
    BY <1>3, <2>3, Named, LeavesKeeps
<1>6. CASE resume_repair
  <2>1. /\ Goto("keeper", "blame") /\ UNCHANGED <<opLock, sbLock>>
        /\ job' = [job EXCEPT !["keeper"] = [NoJob EXCEPT !.op = "resume", !.back = repair.node]]
    BY <1>6 DEF resume_repair
  <2>2. [NoJob EXCEPT !.op = "resume", !.back = repair.node] \in Jobs
    BY Written, Named, Now DEF RInv, Jobs
  <2>3. job' \in [Threads -> Jobs] /\ \A u \in Threads \ {"keeper"} : job'[u] = job[u]
    BY <2>1, <2>2, Named DEF RInv, Types, ThreadTypes
  <2>4. pc'["keeper"] = "blame" => Holds("keeper")' /\ ~Replacing("keeper")'
    BY DEF Holds, Replacing, Provisioning, Connecting
  <2>5. Leaves("keeper")
    BY <2>1, <2>3, <2>4, Named, GoesLeaves
  <2> QED
    BY <1>3, <2>5, Named, LeavesKeeps
<1>7. CASE retire_main_standby
  <2>1. UNCHANGED <<pc, job, opLock, sbLock>>
    BY <1>7 DEF retire_main_standby
  <2>2. Goto("keeper", "idle") /\ pc["keeper"] = "idle"
    BY <1>7, <2>1 DEF retire_main_standby, Goto, At, RInv, Types, ThreadTypes
  <2>3. pc'["keeper"] = "idle" => Holds("keeper")' /\ ~Replacing("keeper")'
    BY DEF Holds, Replacing, Provisioning, Connecting
  <2>4. Leaves("keeper")
    BY <2>1, <2>2, <2>3, Named, GoesLeaves DEF RInv, Types, ThreadTypes
  <2> QED
    BY <1>3, <2>4, Named, LeavesKeeps
<1> QED
  BY <1>4, <1>5, <1>6, <1>7

LEMMA KeeperKeeps ==
  ASSUME RInv, KeeperStep
  PROVE  RInv' /\ OnlyFailed
  BY Named, MaintainKeeps, ProbeKeeps, SelectKeeps, ResumeKeeps, ReserveKeeps, RegisterKeeps,
     CheckStandbyKeeps, PromoteKeeps
  DEF KeeperStep, Keeper, Provision
-----------------------------------------------------------------------------
(***************************************************************************)
(* The supervisor                                                          *)
(***************************************************************************)

(* A round takes the lease for all it does.                                *)
LEMMA RoundKeeps ==
  ASSUME RInv, maintain_valid_nodes \/ maintain_forced
  PROVE  RInv' /\ OnlyFailed
<1> DEFINE th == "supervisor"
<1>1. /\ UNCHANGED <<standby, repair, usable, sbLock>> /\ MayChange(th) /\ opLock' = th
      /\ run' \in {run, Absent} /\ th \in Threads
  BY Named DEF maintain_valid_nodes, maintain_forced, Round, stop_active_openvpn, MayChange
<1>2. Rows(th)
  BY <1>1, AbsentRow DEF Rows, RowTypes, RInv, Types
<1>3. ASSUME NEW p \in {"blame", "restore", "scan"}, Goto(th, p), job' \in [Threads -> Jobs],
             \A u \in Threads \ {th} : job'[u] = job[u],
             p = "restore" => job'[th].op = "restore",
             job'[th].op \in Boots => Booting
      PROVE  Leaves(th)
  <2>1. pc'[th] = p => Holds(th)' /\ ~Replacing(th)'
    BY <1>1, <1>3 DEF Holds, Replacing, Provisioning, Connecting, Repairs
  <2> QED
    BY <1>1, <1>3, <2>1, Named, GoesLeaves DEF MayChange
<1>4. CASE Goto(th, "scan") /\ UNCHANGED job
  BY <1>2, <1>3, <1>4, <1>1, LeavesKeeps DEF RInv, Types, ThreadTypes, Booting
<1>5. CASE Goto(th, "restore") /\ Work(th, "restore", None)
  <2>1. /\ job' \in [Threads -> Jobs] /\ job'[th].op = "restore"
        /\ \A u \in Threads \ {th} : job'[u] = job[u]
    BY <1>1, <1>5, WorkType, Named DEF RInv, Types, ThreadTypes
  <2>2. Leaves(th)
    BY <1>3, <1>5, <2>1 DEF Boots
  <2> QED
    BY <1>1, <1>2, <2>2, LeavesKeeps
<1>6. CASE /\ Goto(th, "blame")
           /\ job' = [job EXCEPT ![th] = [NoJob EXCEPT !.op = "repair", !.back = run.node]]
  <2>1. [NoJob EXCEPT !.op = "repair", !.back = run.node] \in Jobs
    BY Written, Named, Now DEF RInv, Jobs
  <2>2. [NoJob EXCEPT !.op = "repair", !.back = run.node].op = "repair"
    BY Written DEF Jobs
  <2>3. /\ job' \in [Threads -> Jobs] /\ job'[th].op = "repair"
        /\ \A u \in Threads \ {th} : job'[u] = job[u]
    BY <1>1, <1>6, <2>1, <2>2 DEF RInv, Types, ThreadTypes
  <2>4. Leaves(th)
    BY <1>3, <1>6, <2>3 DEF Boots
  <2> QED
    BY <1>1, <1>2, <2>4, LeavesKeeps
<1> QED
  BY <1>4, <1>5, <1>6 DEF maintain_valid_nodes, maintain_forced

LEMMA RestoreKeeps ==
  ASSUME RInv, restore_main \/ restore_failed
  PROVE  RInv' /\ OnlyFailed
<1> DEFINE th == "supervisor"
<1>1. /\ pc[th] \in {"restore", "sb_select"} /\ UNCHANGED <<run, standby, repair, usable>>
      /\ th \in Threads
  BY Named DEF restore_main, restore_failed, Exhausted, Round, At
<1>2. Rows(th)
  BY <1>1, RowsSame DEF RInv, Types, RowTypes
<1>3. CASE \E ok : Return(th, ok)
  BY <1>1, <1>2, <1>3, ReturnLeaves, LeavesKeeps
<1>4. CASE /\ UNCHANGED <<job, opLock>>
           /\ \/ Goto(th, "check") /\ UNCHANGED sbLock
              \/ Goto(th, "sb_list") /\ sbLock = None /\ sbLock' = th
  <2>1. PICK p \in {"check", "sb_list"} : Goto(th, p) /\ (p = "sb_list" => sbLock' = th)
    BY <1>4
  <2>2. Holds(th)
    BY <1>1 DEF RInv
  <2>3. pc'[th] = p => Holds(th)' /\ ~Replacing(th)'
    BY <1>1, <1>4, <2>1, <2>2 DEF Holds, Replacing, Provisioning, Connecting, Booting
  <2>4. Leaves(th)
    BY <1>1, <1>4, <2>1, <2>3, Named, GoesLeaves DEF RInv, Types, ThreadTypes, Booting
  <2> QED
    BY <1>1, <1>2, <2>4, LeavesKeeps
<1> QED
  BY <1>3, <1>4 DEF restore_main, restore_failed

LEMMA AutoSwitchKeeps ==
  ASSUME RInv, NEW op \in {"switch", "boot_switch"}, auto_switch_node(op),
         op = "boot_switch" => Booting, MayChange("supervisor") \/ Booting,
         UNCHANGED <<standby, repair, usable>>
  PROVE  RInv' /\ OnlyFailed
<1> DEFINE th == "supervisor"
<1>1. th \in Threads
  BY Named
<1>2. CASE Return(th, FALSE) /\ run' \in {run, Absent}
  <2>1. Rows(th)
    BY <1>2, AbsentRow DEF Rows, RowTypes, RInv, Types
  <2> QED
    BY <1>1, <1>2, <2>1, ReturnLeaves, LeavesKeeps
<1>3. CASE (\E n \in Switchable : Connect(th, op, n)) /\ UNCHANGED sbLock
  <2>1. PICK n \in Nodes : Connect(th, op, n)
    BY <1>3 DEF Switchable, RInv, Types, RowTypes
  <2> QED
    BY <1>1, <1>3, <2>1, ConnectKeeps
<1> QED
  BY <1>2, <1>3 DEF auto_switch_node, stop_active_openvpn

LEMMA ScanKeeps ==
  ASSUME RInv, boot_switch \/ scan_end
  PROVE  RInv' /\ OnlyFailed
<1>1. "supervisor" \in Threads /\ UNCHANGED <<standby, repair, usable>>
  BY Named DEF boot_switch, scan_end, Round
<1>2. CASE boot_switch
  <2>1. Booting
    BY <1>1, <1>2 DEF boot_switch, At, RInv, Holds
  <2> QED
    BY <1>1, <1>2, <2>1, AutoSwitchKeeps DEF boot_switch
<1>3. CASE scan_end
  <2>1. opLock = "supervisor"
    BY <1>1, <1>3 DEF scan_end, At, RInv, Holds
  <2>2. CASE auto_switch_node("switch")
    BY <1>1, <2>1, <2>2, AutoSwitchKeeps DEF MayChange
  <2>3. CASE Done("supervisor") /\ run' = run
    BY <1>1, <2>3, DoneLeaves, RowsSame, LeavesKeeps DEF RInv, Types, RowTypes
  <2> QED
    BY <1>3, <2>2, <2>3 DEF scan_end
<1> QED
  BY <1>2, <1>3

LEMMA SupervisorKeeps ==
  ASSUME RInv, Supervisor
  PROVE  RInv' /\ OnlyFailed
  BY Named, RoundKeeps, RestoreKeeps, ScanKeeps, PromoteKeeps, SelectKeeps, ReserveKeeps, RegisterKeeps,
     CheckStandbyKeeps
  DEF Supervisor, Provision
-----------------------------------------------------------------------------
(***************************************************************************)
(* The checker, the administrator and the environment                      *)
(***************************************************************************)

(* A probe is taken, and its result acted upon.                            *)
LEMMA ProbedKeeps ==
  ASSUME RInv, ~Booting, check_main \/ probe_dropped \/ probe_ok \/ probe_bad
  PROVE  RInv' /\ OnlyFailed
<1> DEFINE th == "checker"
<1> USE DEF recordVars, lockVars
<1>1. /\ UNCHANGED <<run, standby, opLock, sbLock>> /\ th \in Threads /\ th # "supervisor"
  BY Named DEF check_main, probe_dropped, probe_ok, probe_bad, Probed, CheckerOnly
<1>2. repair' \in RepairRows /\ usable' \subseteq Nodes
  BY RowChange, Now DEF check_main, probe_dropped, probe_ok, probe_bad, RInv, Types, RowTypes
<1>3. Rows(th)
  BY <1>1, <1>2, RowsSame
<1>4. ASSUME NEW p \in {"idle", "probed", "blame"}, Goto(th, p), NEW j \in Jobs,
             job' = [job EXCEPT ![th] = j]
      PROVE  RInv' /\ OnlyFailed
  <2>1. job' \in [Threads -> Jobs] /\ \A u \in Threads \ {th} : job'[u] = job[u]
    BY <1>1, <1>4 DEF RInv, Types, ThreadTypes
  <2>2. pc'[th] = p => Holds(th)' /\ ~Replacing(th)'
    BY <1>1, <1>4 DEF Holds, Replacing, Provisioning, Connecting
  <2>3. Leaves(th)
    BY <1>1, <1>4, <2>1, <2>2, Named, GoesLeaves
  <2> QED
    BY <1>1, <1>3, <2>3, LeavesKeeps
<1>5. /\ NoJob \in Jobs
      /\ [NoJob EXCEPT !.op = "repair", !.back = run.node] \in Jobs
      /\ \A op \in Ops : [NoJob EXCEPT !.op = op, !.node = run.node, !.dev = run.dev] \in Jobs
  <2>1. Types /\ NoJob \in Jobs /\ "repair" \in Ops
    BY Written, Named DEF RInv
  <2>2. run.node \in Known /\ run.dev \in Devices
    BY <2>1, Now
  <2>3. [NoJob EXCEPT !.op = "repair", !.back = run.node] \in Jobs
    BY <2>1, <2>2 DEF Jobs
  <2>4. ASSUME NEW op \in Ops
        PROVE  [NoJob EXCEPT !.op = op, !.node = run.node, !.dev = run.dev] \in Jobs
    BY <2>1, <2>2 DEF Jobs
  <2> QED
    BY <2>1, <2>3, <2>4
<1>6. CASE check_main
  <2>1. PICK op \in {"ok", "bad"} :
          job' = [job EXCEPT !["checker"] =
                    [NoJob EXCEPT !.op = op, !.node = run.node, !.dev = run.dev]]
    BY <1>6 DEF check_main
  <2>2. Goto(th, "probed")
    BY <1>6 DEF check_main
  <2> QED
    BY <1>4, <1>5, <2>1, <2>2, Named
<1>7. CASE probe_dropped \/ probe_ok \/ probe_bad
  BY <1>4, <1>5, <1>7 DEF probe_dropped, probe_ok, probe_bad, Idle
<1> QED
  BY <1>6, <1>7

LEMMA CheckerKeeps ==
  ASSUME RInv, Checker
  PROVE  RInv' /\ OnlyFailed
  BY Named, ProbedKeeps, PromoteKeeps DEF Checker

(* What the administrator asks for.                                        *)
LEMMA AskedKeeps ==
  ASSUME RInv, ~Booting, Admin
  PROVE  RInv' /\ OnlyFailed
<1> DEFINE th == "admin"
<1>1. th \in Threads /\ th # "supervisor"
  BY Named
<1>2. ASSUME NEW n \in Nodes, connect_node(n) PROVE RInv' /\ OnlyFailed
  <2>1. Connect(th, "connect", n) /\ UNCHANGED <<standby, repair, usable, sbLock>>
    BY <1>2 DEF connect_node, storeVars
  <2> QED
    BY <1>1, <2>1, ConnectKeeps
<1>3. CASE disconnect_main_connection \/ retry_dedicated_standby
  <2> USE DEF threadVars, lockVars, storeVars, recordVars
  <2>1. /\ UNCHANGED <<standby, usable, pc, job, opLock, sbLock>> /\ pc[th] = "idle"
        /\ run' = run \/ (run' = Absent /\ opLock = None)
    BY <1>3 DEF disconnect_main_connection, retry_dedicated_standby, Asked, At, stop_active_openvpn
  <2>2. repair' \in RepairRows
    BY <1>3 DEF disconnect_main_connection, retry_dedicated_standby, RInv, Types, RowTypes, RepairRows
  <2>3. Rows(th)
    BY <2>1, <2>2, AbsentRow DEF Rows, RowTypes, RInv, Types, MayChange
  <2>4. Goto(th, "idle")
    BY <2>1 DEF Goto, RInv, Types, ThreadTypes
  <2>5. pc'[th] = "idle" => Holds(th)' /\ ~Replacing(th)'
    BY <1>1 DEF Holds, Replacing, Provisioning, Connecting
  <2>6. Leaves(th)
    BY <1>1, <2>1, <2>4, <2>5, Named, GoesLeaves DEF RInv, Types, ThreadTypes
  <2> QED
    BY <1>1, <2>3, <2>6, LeavesKeeps
<1>4. ASSUME NEW n \in Nodes, assign_dedicated_standby(n, {}) PROVE RInv' /\ OnlyFailed
  <2> USE DEF recordVars
  <2>1. /\ UNCHANGED <<run, standby, repair, usable, opLock>> /\ sbLock = None /\ sbLock' = th
        /\ Goto(th, "sb_reserve") /\ Work(th, "assign_sb", n)
    BY <1>4 DEF assign_dedicated_standby
  <2>2. /\ job' \in [Threads -> Jobs] /\ job'[th].op = "assign_sb"
        /\ \A u \in Threads \ {th} : job'[u] = job[u]
    BY <1>1, <2>1, WorkType, Named DEF RInv, Types, ThreadTypes
  <2>3. pc'[th] = "sb_reserve" => Holds(th)' /\ ~Replacing(th)'
    BY <1>1, <2>1, <2>2 DEF Holds, Replacing, Provisioning, Connecting, Repairs
  <2>4. Leaves(th)
    BY <1>1, <2>1, <2>2, <2>3, Named, GoesLeaves
  <2> QED
    BY <1>1, <2>1, <2>4, RowsSame, LeavesKeeps DEF RInv, Types, RowTypes
<1> QED
  BY <1>2, <1>3, <1>4 DEF Admin

LEMMA AdminStepKeeps ==
  ASSUME RInv, AdminStep
  PROVE  RInv' /\ OnlyFailed
  BY Named, PromoteKeeps, ReserveKeeps, RegisterKeeps, CheckStandbyKeeps DEF AdminStep, Provision

(* A step of no thread.                                                    *)
LEMMA RestKeeps ==
  ASSUME RInv, UNCHANGED <<run, standby, repair, pc, job, opLock, sbLock>>, usable' \subseteq Nodes
  PROVE  RInv' /\ OnlyFailed
<1>1. /\ Types' /\ (Booting' <=> Booting)
      /\ \A u \in Threads : (Replacing(u)' <=> Replacing(u)) /\ (At(u, "put")' <=> At(u, "put"))
  BY DEF RInv, Types, RowTypes, ThreadTypes, Booting, Replacing, At
<1>2. \A u \in Threads : Holds(u)'
  BY <1>1 DEF RInv, Holds
<1>3. BootQuiet' /\ PutAlone' /\ OnlyFailed
  BY <1>1 DEF RInv, BootQuiet, PutAlone, OnlyFailed
<1> QED
  BY <1>1, <1>2, <1>3 DEF RInv

LEMMA BootJob ==
  ASSUME NEW op \in Ops, NEW n \in Known
  PROVE  Boot(op, n) \in Jobs /\ Boot(op, n).op = op
  BY Written DEF Boot, Jobs

(* After a restart the supervisor is alone, and has no lock.               *)
LEMMA RestartKeeps ==
  ASSUME RInv, restart_main
  PROVE  RInv' /\ OnlyFailed
<1> USE DEF Booting
<1>1. PICK p \in {"idle", "main_dial", "restore"}, j \in Jobs :
        /\ pc' = [[u \in Threads |-> "idle"] EXCEPT !["supervisor"] = p]
        /\ job' = [[u \in Threads |-> NoJob] EXCEPT !["supervisor"] = j]
        /\ (p = "idle" /\ j = NoJob) \/ (p # "idle" /\ j.op \in Boots)
  <2>1. run.node \in Known /\ {"boot_old", "boot"} \subseteq Ops \intersect Boots /\ NoJob \in Jobs
    BY Now, Written, Named DEF RInv, Boots
  <2> DEFINE p == IF enabled # "on" THEN "idle" ELSE IF run.node \in usable THEN "main_dial" ELSE "restore"
             j == IF enabled # "on" THEN NoJob
                  ELSE IF run.node \in usable THEN Boot("boot_old", run.node) ELSE Boot("boot", None)
  <2>2. /\ pc' = [[u \in Threads |-> "idle"] EXCEPT !["supervisor"] = p]
        /\ job' = [[u \in Threads |-> NoJob] EXCEPT !["supervisor"] = j]
    BY DEF restart_main, restart
  <2>3. /\ p \in {"idle", "main_dial", "restore"} /\ j \in Jobs
        /\ (p = "idle" /\ j = NoJob) \/ (p # "idle" /\ j.op \in Boots)
    BY <2>1, Named, BootJob
  <2> QED
    BY <2>2, <2>3
<1>2. /\ run' = Absent /\ standby' = NoStandby /\ opLock' = None /\ sbLock' = None
      /\ UNCHANGED <<repair, usable>>
  BY DEF restart_main, restart
<1>3. Types'
  <2>1. RowTypes'
    BY <1>2, Written DEF RowTypes, RInv, Types
  <2>2. ThreadTypes'
    BY <1>1, <1>2, Written, Named DEF ThreadTypes, Lockers
  <2> QED
    BY <2>1, <2>2 DEF Types
<1>4. /\ pc'["supervisor"] = p /\ job'["supervisor"] = j
      /\ \A u \in Threads \ {"supervisor"} : pc'[u] = "idle"
  BY <1>1, Named
<1>5. \A u \in Threads : ~Replacing(u)' /\ ~At(u, "put")'
  BY <1>1, <1>4 DEF Replacing, At, Boots, Repairs
<1>6. \A u \in Threads : Holds(u)'
  <2>1. NoJob.op = "none"
    BY DEF NoJob
  <2> QED
    BY <1>1, <1>4, <1>5, <2>1 DEF Holds, Provisioning, Connecting, Boots, Repairs
<1>7. BootQuiet' /\ PutAlone' /\ OnlyFailed
  BY <1>4, <1>5 DEF BootQuiet, PutAlone, OnlyFailed
<1> QED
  BY <1>3, <1>6, <1>7 DEF RInv

LEMMA EnvironmentKeeps ==
  ASSUME RInv, Environment
  PROVE  RInv' /\ OnlyFailed
<1> USE DEF recordVars, storeVars, threadVars, lockVars
<1>1. ASSUME NEW d \in Devices, die(d) \/ darken(d) PROVE RInv' /\ OnlyFailed
  BY <1>1, RestKeeps DEF die, darken, RInv, Types, RowTypes
<1>2. ASSUME NEW n \in Nodes, refresh(n) PROVE RInv' /\ OnlyFailed
  BY <1>2, RestKeeps DEF refresh, RInv, Types, RowTypes
<1>3. CASE \E d \in Devices : (die(d) \/ darken(d)) /\ UNCHANGED proxyOk
  BY <1>1, <1>3
<1>4. CASE \E n \in Nodes : refresh(n) /\ UNCHANGED proxyOk
  BY <1>2, <1>4
<1>5. CASE restart_main
  BY <1>5, RestartKeeps
<1> QED
  BY <1>3, <1>4, <1>5 DEF Environment
-----------------------------------------------------------------------------
(***************************************************************************)
(* The theorems                                                            *)
(***************************************************************************)
LEMMA InitHolds == Init => RInv
<1> SUFFICES ASSUME Init PROVE RInv
  OBVIOUS
<1>1. Boot("boot", None) \in Jobs /\ Boot("boot", None).op = "boot" /\ NoJob \in Jobs
  <2>1. "boot" \in Ops /\ None \in Known
    BY Named
  <2> QED
    BY <2>1, BootJob, Written
<1>2. Types
  <2>1. RowTypes
    BY Written, Named DEF Init, RowTypes, RepairRows
  <2>2. ThreadTypes
    BY <1>1, Named DEF Init, ThreadTypes, Lockers
  <2> QED
    BY <2>1, <2>2 DEF Types
<1>3. /\ pc["supervisor"] = "restore" /\ job["supervisor"].op = "boot"
      /\ \A u \in Threads \ {"supervisor"} : pc[u] = "idle"
  BY <1>1, Named DEF Init
<1>4. \A u \in Threads : Holds(u) /\ ~At(u, "put")
  BY <1>3 DEF Holds, Replacing, At, Provisioning, Connecting, Repairs
<1> QED
  BY <1>2, <1>3, <1>4 DEF RInv, BootQuiet, PutAlone

LEMMA StepHolds == RInv /\ [Next]_vars => RInv' /\ (OnlyFailed \/ UNCHANGED vars)
<1> SUFFICES ASSUME RInv, [Next]_vars PROVE RInv' /\ (OnlyFailed \/ UNCHANGED vars)
  OBVIOUS
<1>1. CASE UNCHANGED vars
  BY <1>1, RestKeeps DEF vars, egressVars, recordVars, storeVars, threadVars, lockVars, RInv, Types,
     RowTypes
<1>2. CASE maintain_forced
  BY <1>2, RoundKeeps
<1> QED
  BY <1>1, <1>2, AskedKeeps, AdminStepKeeps, SupervisorKeeps, KeeperKeeps, CheckerKeeps, EnvironmentKeeps
  DEF Next

(* What each thread holds where it is, that nobody is at work beside the   *)
(* bootstrap, and that a promotion in hand stands alone, in every state.   *)
THEOREM MainInductive == Spec => []RInv
  BY InitHolds, StepHolds, PTL DEF Spec

(* A background repair is decided against the main that was reported, or   *)
(* against one that is not up or not verified, and nobody puts another in  *)
(* its place before the repair takes it down.                              *)
THEOREM OnlyFailedReplaced == Spec => OnlyTheFailedIsReplaced
<1>1. RInv /\ [Next]_vars => [OnlyFailed]_vars
  BY StepHolds
<1> QED
  BY <1>1, MainInductive, PTL DEF Spec, OnlyTheFailedIsReplaced, OnlyFailed
=============================================================================
