-------------------------- MODULE MainAssignment --------------------------
(***************************************************************************)
(* The engine's two-phase switch of the main connection, the mutation      *)
(* lease the Gateway takes for a protocol switch, and the hot standby that *)
(* replaces a failed main connection.                                      *)
(*                                                                         *)
(* Everything the coordinator knows is one document, in memory and in      *)
(* main_assignment.json.  A handler changes the memory first and writes    *)
(* the file after, so a failed write leaves the two apart.  Stage,         *)
(* rollback, repair and recovery hold mutation_lock from their first to    *)
(* their last step; the promotion of a standby by its maintenance thread   *)
(* holds it only while it stops the old tunnel.                            *)
(***************************************************************************)
EXTENDS Naturals, FiniteSets

CONSTANTS Ops,          \* idempotency keys of main assignments
          Candidates,   \* OpenVPN nodes
          None,         \* no node, no operation
          FaultKinds,   \* subset of {"crash", "storage"}
          MaxFaults     \* bound: faults in a behaviour

ASSUME MainConstants == /\ None \notin Candidates
                        /\ None \notin Ops
                        /\ MaxFaults \in Nat

VARIABLES
  mem,        \* the document in memory: an operation per key, and the lease
  disk,       \* the document in main_assignment.json
  late,       \* operations whose expires_at has passed
  main,       \* active_openvpn_node_id
  up,         \* the main OpenVPN process is alive
  standby,    \* node of the dedicated standby of the main connection
  taking,     \* node that a maintenance thread is about to make the main one
  hpc,        \* where the handler under the boundary locks is
  job,        \* the operation it works on
  runner,     \* whose thread it is: a client's or the recovery loop's
  loop,       \* recovery: bootstrapping, looping, or its thread has died
  told,       \* last final state answered to a client, per operation
  retracted,  \* history: outcomes a restart has undone
  astray,     \* history: the main node was put there under a claim on it
  faults      \* faults so far

docVars == <<mem, disk, faults>>
mainVars == <<main, up, astray>>
standbyVars == <<standby, taking>>
handlerVars == <<hpc, job, runner>>
answerVars == <<told, retracted>>
vars == <<docVars, mainVars, standbyVars, handlerVars, answerVars, late, loop>>
-----------------------------------------------------------------------------
Nodes == Candidates \union {None}
Blocking == {"switching", "pending_commit", "pending_gateway_validation",
             "rolling_back", "repairing", "repair_required"}
Final == {"committed", "rolled_back"}
States == {"none"} \union Blocking \union Final
Validating == {"pending_commit", "pending_gateway_validation"}
Busy == [stage |-> "switching", undo |-> "rolling_back", repair |-> "repairing"]

Docs == [ops : [Ops -> [state : States, old : Nodes, new : Nodes]],
         lease : {"free", "active"}]

(* _valid_document lets one blocking operation in, and it is `active'.  A  *)
(* lease that was released or has expired is free; a final operation is    *)
(* only asked for its state, so its nodes are left out.                    *)
Active(doc) == {op \in Ops : doc.ops[op].state \in Blocking}
Leased == mem.lease = "active"

\* mutant: mutation_allowed forgets the lease
MutationUnleased == Active(mem) = {}
MutationAllowed == Active(mem) = {} /\ ~Leased
BackgroundAllowed == /\ \A op \in Active(mem) : mem.ops[op].state = "repair_required"
                     /\ ~Leased
AssignmentActionAllowed == ~Leased

Put(op, rec) == [mem EXCEPT !.ops[op] = rec]
State(op, s) == [mem EXCEPT !.ops[op].state = s]
Settle(op, s) == Put(op, [state |-> s, old |-> None, new |-> None])
Lease(s) == [mem EXCEPT !.lease = s]
Reserved == {n \in Candidates : \E op \in Active(mem) :
                                  n \in {mem.ops[op].old, mem.ops[op].new}}

Fault(kind) == /\ kind \in FaultKinds
               /\ faults < MaxFaults
               /\ faults' = faults + 1
-----------------------------------------------------------------------------
(* Writing the document, and the ends of a handler. *)

Saved(doc) == mem' = doc /\ disk' = doc /\ UNCHANGED faults

(* _write raises: the memory keeps the change.  While the engine boots the *)
(* exception ends the process, which is what Crash does.                   *)
Lost(doc) == /\ Fault("storage")
             /\ loop # "boot"
             /\ mem' = doc
             /\ UNCHANGED disk

Enter(pc, op, who) == hpc' = pc /\ job' = op /\ runner' = who /\ UNCHANGED loop

Leave == /\ hpc' = "idle" /\ job' = None /\ runner' = "client"
         /\ loop' = IF loop = "boot" THEN "on" ELSE loop

(* An exception in the thread of who; the recovery thread does not survive *)
(* it.                                                                     *)
Abort(who) == /\ hpc' = "idle" /\ job' = None /\ runner' = "client"
              /\ loop' = IF who = "loop" THEN "off" ELSE loop

(* The operation goes to state s and its handler goes on, or the write     *)
(* fails and the handler ends.                                             *)
Begin(doc, pc, op, who) == \/ Saved(doc) /\ Enter(pc, op, who)
                           \/ Lost(doc) /\ Abort(who)
Finish(doc) == \/ Saved(doc) /\ Leave
               \/ Lost(doc) /\ Abort(runner)

Tell(op, s) == told' = [told EXCEPT ![op] = s] /\ UNCHANGED retracted
TellIfSaved(op, s) == IF disk' = mem' THEN Tell(op, s) ELSE UNCHANGED answerVars
-----------------------------------------------------------------------------

Connected(n) == main' = n /\ up' = TRUE /\ astray' = FALSE
Stopped == main' = None /\ up' = FALSE /\ astray' = FALSE
NotConnected(n) == \/ UNCHANGED mainVars
                   \/ Stopped
                   \/ main' = n /\ up' \in BOOLEAN /\ astray' = FALSE
-----------------------------------------------------------------------------
(* Every variable has its shape; a running main tunnel has a node (the     *)
(* guard of _restore_main_candidate against an empty candidate).           *)
MTypeOK ==
  /\ mem \in Docs /\ disk \in Docs
  /\ late \subseteq Ops
  /\ main \in Nodes /\ up \in BOOLEAN /\ (up => main # None)
  /\ standby \in Nodes /\ taking \in Nodes
  /\ hpc \in {"idle", "dead"} \union DOMAIN Busy
  /\ job \in Ops \union {None}
  /\ runner \in {"client", "loop"}
  /\ loop \in {"boot", "on", "off"}
  /\ told \in [Ops -> {"none"} \union Final]
  /\ retracted \subseteq Ops
  /\ astray \in BOOLEAN
  /\ faults \in 0..MaxFaults

Init ==
  /\ mem = [ops |-> [op \in Ops |-> [state |-> "none", old |-> None, new |-> None]],
            lease |-> "free"]
  /\ disk = mem
  /\ late = {}
  /\ main = None /\ up = FALSE /\ astray = FALSE
  /\ standby = None /\ taking = None
  /\ hpc = "idle" /\ job = None /\ runner = "client"
  /\ loop = "boot"
  /\ told = [op \in Ops |-> "none"] /\ retracted = {}
  /\ faults = 0
-----------------------------------------------------------------------------
(* Clients' calls need the locks free and the engine past its bootstrap. *)
Free == hpc = "idle" /\ loop # "boot"

StageBegin(op, n) ==
  /\ Free /\ MutationAllowed
  /\ mem.ops[op].state = "none"
  /\ n \notin {main, standby}
  /\ late' = late \ {op}
  /\ Begin(Put(op, [state |-> "switching", old |-> main, new |-> n]),
           "stage", op, "client")
  /\ UNCHANGED <<mainVars, standbyVars, answerVars>>

\* mutant: the validation of the new node is not looked at
StageUnverified ==
  /\ hpc = "stage"
  /\ Connected(mem.ops[job].new) \/ NotConnected(mem.ops[job].new)
  /\ Finish(State(job, "pending_commit"))
  /\ UNCHANGED <<standbyVars, answerVars, late>>

StageOk ==
  /\ hpc = "stage"
  /\ Connected(mem.ops[job].new)
  /\ Finish(State(job, "pending_commit"))
  /\ UNCHANGED <<standbyVars, answerVars, late>>

StageFails ==
  /\ hpc = "stage"
  /\ NotConnected(mem.ops[job].new)
  /\ Begin(State(job, "rolling_back"), "undo", job, "client")
  /\ UNCHANGED <<standbyVars, answerVars, late>>

Commit(op) ==
  /\ Free /\ AssignmentActionAllowed
  /\ mem.ops[op].state \in Validating /\ op \notin late
  /\ Finish(Settle(op, "committed"))
  /\ TellIfSaved(op, "committed")
  /\ UNCHANGED <<mainVars, standbyVars, late>>

(* A repeated stage, commit, rollback or repair is answered with the state *)
(* in memory, whether or not it was ever written.                          *)
Replay(op) ==
  /\ Free /\ AssignmentActionAllowed
  /\ mem.ops[op].state \in Final
  /\ Tell(op, mem.ops[op].state)
  /\ UNCHANGED <<docVars, mainVars, standbyVars, handlerVars, late, loop>>

\* mutant: rollback accepts what was committed
UndoableDone == (Blocking \ {"rolling_back", "repairing"}) \union {"committed"}

Undoable == Blocking \ {"rolling_back", "repairing"}

Rollback(op) ==
  /\ Free /\ AssignmentActionAllowed
  /\ mem.ops[op].state \in Undoable
  /\ Begin(State(op, "rolling_back"), "undo", op, "client")
  /\ UNCHANGED <<mainVars, standbyVars, answerVars, late>>

\* mutant: recover() does not know the repairs
RecoverableStaged(op) == \/ mem.ops[op].state = "switching"
                         \/ mem.ops[op].state \in Validating /\ op \in late

(* What recover() takes up: an operation whose handler is gone, or one     *)
(* that waited too long for its commit.  No handler runs beside it; one    *)
(* still in _live_operation_ids after a failed write waits for its time.   *)
Recoverable(op) == \/ mem.ops[op].state \in {"switching", "repairing"}
                   \/ mem.ops[op].state \in Validating /\ op \in late

Recover(op) ==
  /\ hpc = "idle" /\ loop # "off" /\ AssignmentActionAllowed
  /\ Recoverable(op)
  /\ Begin(State(op, "rolling_back"), "undo", op, "loop")
  /\ UNCHANGED <<mainVars, standbyVars, answerVars, late>>

\* mutant: an operation without an old node is restored as well
RestoredAnyway ==
  /\ hpc = "undo"
  /\ Connected(mem.ops[job].old)
  /\ Finish(Settle(job, "rolled_back"))
  /\ IF runner = "client" THEN TellIfSaved(job, "rolled_back")
                          ELSE UNCHANGED answerVars
  /\ late' = late \ {job}
  /\ UNCHANGED standbyVars

Restored ==
  /\ hpc = "undo" /\ mem.ops[job].old # None
  /\ Connected(mem.ops[job].old)
  /\ Finish(Settle(job, "rolled_back"))
  /\ IF runner = "client" THEN TellIfSaved(job, "rolled_back")
                          ELSE UNCHANGED answerVars
  /\ late' = late \ {job}
  /\ UNCHANGED standbyVars

NotRestored ==
  /\ hpc = "undo"
  /\ IF mem.ops[job].old = None THEN UNCHANGED mainVars
                                ELSE NotConnected(mem.ops[job].old)
  /\ Finish(State(job, "repair_required"))
  /\ UNCHANGED <<standbyVars, answerVars, late>>

(* repair_commit asks for the node of the operation again, repair_replace  *)
(* for another one.                                                        *)
RepairBegin(op, n) ==
  /\ Free /\ AssignmentActionAllowed
  /\ mem.ops[op].state = "repair_required"
  /\ late' = late \ {op}
  /\ Begin(Put(op, [state |-> "repairing", old |-> mem.ops[op].old, new |-> n]),
           "repair", op, "client")
  /\ UNCHANGED <<mainVars, standbyVars, answerVars>>

RepairOk ==
  /\ hpc = "repair"
  /\ Connected(mem.ops[job].new)
  /\ Finish(State(job, "pending_gateway_validation"))
  /\ UNCHANGED <<standbyVars, answerVars, late>>

RepairFails ==
  /\ hpc = "repair"
  /\ NotConnected(mem.ops[job].new)
  /\ Finish(State(job, "repair_required"))
  /\ UNCHANGED <<standbyVars, answerVars, late>>

(* The time of an operation matters while it waits for its commit. *)
OpLapses(op) ==
  /\ mem.ops[op].state \in Validating /\ op \notin late
  /\ late' = late \union {op}
  /\ UNCHANGED <<docVars, mainVars, standbyVars, handlerVars, answerVars, loop>>
-----------------------------------------------------------------------------
(* The mutation lease.  A client's calls take mutation_lock for themselves. *)

LeaseStep(doc) ==
  /\ Saved(doc) \/ Lost(doc)
  /\ UNCHANGED <<mainVars, standbyVars, handlerVars, answerVars, late, loop>>

Acquire == Free /\ MutationAllowed /\ LeaseStep(Lease("active"))
Renew == Free /\ Leased /\ LeaseStep(mem)
Release == Free /\ Leased /\ LeaseStep(Lease("free"))

(* Whoever looks at a lease whose time is over marks it expired. *)
LeaseLapses == Leased /\ LeaseStep(Lease("free"))

(* Inside _acquire_runtime_mutation the locks are taken before the lease   *)
(* is looked at, and an exception leaves them taken.                       *)
LeaseLapsesLocked(who) ==
  /\ Free /\ Leased
  /\ who = "loop" => loop = "on"
  /\ Lost(Lease("free"))
  /\ hpc' = "dead" /\ job' = None /\ runner' = "client"
  /\ loop' = IF who = "loop" THEN "off" ELSE loop
  /\ UNCHANGED <<mainVars, standbyVars, answerVars, late>>
-----------------------------------------------------------------------------
(* Everything else that moves the main connection. *)

Elsewhere == UNCHANGED <<docVars, handlerVars, answerVars, late, loop>>

(* A person's connect or disconnect, the automatic switch, pool            *)
(* maintenance, and the stop of a promoted standby that does not validate. *)
Connect(n) == /\ Free /\ MutationAllowed
              /\ Connected(n) \/ NotConnected(n)
              /\ UNCHANGED standbyVars
              /\ Elsewhere

TunnelDies == up /\ up' = FALSE /\ UNCHANGED <<main, astray, standbyVars>> /\ Elsewhere

StandbyUp(n) == /\ loop # "boot" /\ standby = None /\ taking = None
                /\ n # main /\ n \notin Reserved
                /\ standby' = n
                /\ UNCHANGED <<mainVars, taking>>
                /\ Elsewhere

(* repair_main_once, under the locks: the standby is taken out of its      *)
(* place, stop_active_openvpn asks mutation_allowed again and raises, or   *)
(* the standby becomes the main connection, which is stopped if its        *)
(* validation fails.                                                       *)
RepairMain == /\ Free /\ BackgroundAllowed
              /\ standby # None
              /\ standby' = None
              /\ IF MutationAllowed THEN Connected(standby) \/ Stopped
                                    ELSE UNCHANGED mainVars
              /\ UNCHANGED taking
              /\ Elsewhere

(* The maintenance thread of the standby sees no live main connection and  *)
(* promotes the standby by itself: the locks are held only while the old   *)
(* tunnel is stopped.                                                      *)
Promote == /\ loop # "boot" /\ ~up
           /\ standby # None
           /\ standby' = None
           /\ IF hpc = "idle" /\ MutationAllowed
              THEN Stopped /\ taking' = standby
              ELSE UNCHANGED <<mainVars, taking>>
           /\ Elsewhere

PromoteTake == /\ taking # None
               /\ main' = taking /\ up' = TRUE
               /\ astray' = ~(hpc = "idle" /\ MutationAllowed)
               /\ taking' = None
               /\ UNCHANGED standby
               /\ Elsewhere
-----------------------------------------------------------------------------
(* The engine stops at any moment and starts again from its file. *)
Crash == /\ Fault("crash")
         /\ mem' = disk
         /\ Stopped
         /\ standby' = None /\ taking' = None
         /\ hpc' = "idle" /\ job' = None /\ runner' = "client"
         /\ loop' = "boot"
         /\ retracted' = retracted \union
              {op \in Ops : mem.ops[op].state \in Final /\ disk.ops[op] # mem.ops[op]}
         /\ UNCHANGED <<disk, told, late>>

(* bootstrap_main_connection: with nothing to recover it connects a node   *)
(* if it can, with anything else it leaves the main connection alone.      *)
Boot == /\ loop = "boot" /\ hpc = "idle"
        /\ Leased \/ \A op \in Ops : ~Recoverable(op)
        /\ IF Active(mem) = {} /\ ~Leased
           THEN (\E n \in Candidates : Connected(n)) \/ Stopped
           ELSE UNCHANGED mainVars
        /\ loop' = "on"
        /\ UNCHANGED <<docVars, standbyVars, handlerVars, answerVars, late>>
-----------------------------------------------------------------------------
Handler == StageOk \/ StageFails \/ Restored \/ NotRestored \/ RepairOk \/ RepairFails

Next ==
  \/ \E op \in Ops : \/ Commit(op) \/ Replay(op) \/ Rollback(op) \/ Recover(op)
                     \/ OpLapses(op)
                     \/ \E n \in Candidates : StageBegin(op, n) \/ RepairBegin(op, n)
  \/ Handler
  \/ Acquire \/ Renew \/ Release \/ LeaseLapses
  \/ \E who \in {"client", "loop"} : LeaseLapsesLocked(who)
  \/ \E n \in Candidates : Connect(n) \/ StandbyUp(n)
  \/ TunnelDies \/ RepairMain \/ Promote \/ PromoteTake
  \/ Crash \/ Boot

Spec == Init /\ [][Next]_vars

(* A handler is bounded by the timeouts of its dials and probes; the       *)
(* recovery loop tries every five seconds, and the locks it wants are not  *)
(* held for ever by pool maintenance; time passes.                         *)
Fairness == /\ WF_vars(Handler)
            /\ WF_vars(\E op \in Ops : Recover(op))
            /\ WF_vars(Boot)
            /\ \A op \in Ops : WF_vars(OpLapses(op))

FairSpec == Spec /\ Fairness
-----------------------------------------------------------------------------
(* In memory and in the file there is one claim on the main connection at  *)
(* most: one unfinished operation (_valid_document turns any other file    *)
(* into state_corrupt), or the lease, which is not granted beside one; an  *)
(* unfinished operation names a node.                                      *)
OneClaim(doc) == /\ \A op1, op2 \in Active(doc) : op1 = op2
                 /\ \A op \in Active(doc) : doc.ops[op].new \in Candidates
                 /\ doc.lease = "active" => Active(doc) = {}

(* Whoever holds the locks works on the operation its step says; with the  *)
(* locks free or lost there is no job.                                     *)
HandlerHolds == IF hpc \in DOMAIN Busy
                THEN job \in Ops /\ mem.ops[job].state = Busy[hpc]
                ELSE job = None

(* An operation that waits for its commit is the one whose node runs, or   *)
(* the main connection is down, or a promotion that began before it came   *)
(* in between.                                                             *)
NoStranger == \A op \in Ops : mem.ops[op].state \in Validating =>
                                 astray \/ main \in {mem.ops[op].new, None}

(* The inductive invariant of the coordinator. *)
MInv == /\ MTypeOK
        /\ OneClaim(mem) /\ OneClaim(disk)
        /\ HandlerHolds
        /\ NoStranger

(* A client that was told committed or rolled_back was told the truth for  *)
(* ever: no later call decides the operation again.  The exception is an   *)
(* answer from a memory that was never written, undone by a restart.       *)
AnswersKept == \A op \in Ops : told[op] # "none" /\ op \notin retracted =>
                                  mem.ops[op].state = told[op]

(* The main connection gets another node only from the handler of the      *)
(* operation that claims it, or when nobody claims it (connect_node and    *)
(* its guard), or from a standby whose promotion had begun.                *)
MainMovesByRight ==
  [][main' \notin {main, None, taking} =>
       ~Leased /\ (Active(mem) = {} \/ hpc \in DOMAIN Busy)]_vars

(* What a handler decides is what runs: rolled_back is recorded when the   *)
(* old node serves again, committed while the new one does or none.        *)
OutcomeIsServed ==
  [][\A op \in Ops :
       mem.ops[op].state \notin Final /\ mem'.ops[op].state \in Final =>
         IF mem'.ops[op].state = "rolled_back"
         THEN main' = mem.ops[op].old /\ up'
         ELSE astray \/ main \in {mem.ops[op].new, None}]_vars

Pending(op) == mem.ops[op].state \in Blocking \ {"repair_required"}

(* A rollback nobody works on: recover(), rollback() and repair all answer *)
(* with its state and leave it.                                            *)
Orphaned(op) == mem.ops[op].state = "rolling_back" /\ hpc = "idle"

(* Every assignment ends, decided or in need of a person, unless its       *)
(* rollback was cut short or the recovery thread has died of a failed      *)
(* write.                                                                  *)
PendingEnds == \A op \in Ops :
  Pending(op) ~> ~Pending(op) \/ Orphaned(op) \/ loop = "off"
-----------------------------------------------------------------------------
(* What the documents say, and the code does not do. *)

(* A crash, a restart or 180 seconds without a commit roll an assignment   *)
(* back by themselves.                                                     *)
RestartRecovers == \A op \in Ops : Pending(op) ~> ~Pending(op)
=============================================================================
