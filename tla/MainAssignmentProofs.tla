----------------------- MODULE MainAssignmentProofs -----------------------
(***************************************************************************)
(* Proofs about MainAssignment: its inductive invariant, the truth of its  *)
(* answers and what may move the main connection, for any operations,      *)
(* nodes and faults.                                                       *)
(***************************************************************************)
EXTENDS MainAssignment, TLAPS

USE MainConstants DEF MainConstants

Rec == [state : States, old : Nodes, new : Nodes]

(* The document with one operation replaced is a document, and the rest of *)
(* it is as it was: what Put, State and Settle do to `operations'.         *)
LEMMA PutFacts ==
  ASSUME mem \in Docs, NEW op \in Ops, NEW rec \in Rec
  PROVE  /\ Put(op, rec) \in Docs
         /\ Put(op, rec).ops[op] = rec
         /\ \A o \in Ops : o # op => Put(op, rec).ops[o] = mem.ops[o]
         /\ Put(op, rec).lease = mem.lease
  BY DEF Docs, Put, Rec

LEMMA StateFacts ==
  ASSUME mem \in Docs, NEW op \in Ops, NEW s \in States
  PROVE  /\ State(op, s) \in Docs
         /\ State(op, s).ops[op].state = s
         /\ State(op, s).ops[op].new = mem.ops[op].new
         /\ \A o \in Ops : o # op => State(op, s).ops[o] = mem.ops[o]
         /\ State(op, s).lease = mem.lease
  BY DEF Docs, State

(* The names of the states, and which of them hold the claim. *)
LEMMA StateNames ==
  /\ Blocking \subseteq States /\ Final \subseteq States
  /\ Final \intersect Blocking = {} /\ Validating \subseteq Blocking
  /\ {"switching", "pending_commit", "pending_gateway_validation",
      "rolling_back", "repairing", "repair_required"} = Blocking
  /\ {"committed", "rolled_back"} = Final
  BY DEF States, Blocking, Final, Validating

LEMMA DocNow == ASSUME MInv PROVE mem \in Docs /\ disk \in Docs
  BY DEF MInv, MTypeOK

LEMMA SettleFacts ==
  ASSUME mem \in Docs, NEW op \in Ops, NEW s \in Final
  PROVE  /\ Settle(op, s) \in Docs
         /\ Settle(op, s).ops[op].state = s
         /\ \A o \in Ops : o # op => Settle(op, s).ops[o] = mem.ops[o]
         /\ Settle(op, s).lease = mem.lease
<1>1. [state |-> s, old |-> None, new |-> None] \in Rec
  BY DEF Rec, States, Final, Nodes
<1>2. QED
  BY <1>1, PutFacts DEF Settle

LEMMA LeaseFacts ==
  ASSUME mem \in Docs, NEW s \in {"free", "active"}
  PROVE  Lease(s) \in Docs /\ Lease(s).ops = mem.ops /\ Lease(s).lease = s
  BY DEF Docs, Lease
-----------------------------------------------------------------------------
(* A write, done or failed, of a document that changes the operation with  *)
(* the claim, or one when nobody has a claim: memory and file keep one     *)
(* claim at most, and no other operation is unfinished.                    *)
LEMMA Written ==
  ASSUME MInv, NEW op \in Ops, NEW doc \in Docs,
         op \in Active(mem) \/ MutationAllowed,
         \A o \in Ops : o # op => doc.ops[o] = mem.ops[o],
         doc.lease = mem.lease,
         doc.ops[op].state \in Blocking => doc.ops[op].new \in Candidates,
         Saved(doc) \/ Lost(doc)
  PROVE  /\ mem' = doc /\ mem' \in Docs /\ disk' \in Docs
         /\ faults' \in 0..MaxFaults
         /\ OneClaim(mem)' /\ OneClaim(disk)'
         /\ \A o \in Ops : o # op => mem'.ops[o].state \notin Blocking
<1>1. mem' = doc /\ (disk' = doc \/ disk' = disk) /\ faults' \in 0..MaxFaults
  BY DEF Saved, Lost, Fault, MInv, MTypeOK
<1>2. \A o \in Ops : o # op => doc.ops[o].state \notin Blocking
  BY DEF MInv, OneClaim, Active, MutationAllowed
<1>3. OneClaim(doc)
  <2>1. doc.lease # "active"
    BY DEF MInv, OneClaim, MutationAllowed, Leased
  <2>2. QED
    BY <1>2, <2>1 DEF OneClaim, Active
<1>4. mem' \in Docs /\ disk' \in Docs
  BY <1>1 DEF MInv, MTypeOK
<1>5. OneClaim(mem)' /\ OneClaim(disk)'
  <2>1. OneClaim(disk)
    BY DEF MInv
  <2>2. QED
    BY <1>1, <1>3, <2>1 DEF OneClaim, Active
<1>6. QED
  BY <1>1, <1>2, <1>4, <1>5

(* A handler that ends leaves the locks free, whatever its last write did. *)
LEMMA Ended ==
  ASSUME MInv, NEW doc, Finish(doc)
  PROVE  /\ Saved(doc) \/ Lost(doc)
         /\ hpc' = "idle" /\ job' = None /\ runner' = "client"
         /\ loop' \in {"boot", "on", "off"}
  BY DEF Finish, Leave, Abort, MInv, MTypeOK

(* A handler that begins works on its operation, or has failed to write.   *)
LEMMA Begun ==
  ASSUME MInv, NEW doc, NEW pc \in DOMAIN Busy, NEW op \in Ops,
         NEW who \in {"client", "loop"}, Begin(doc, pc, op, who)
  PROVE  /\ Saved(doc) \/ Lost(doc)
         /\ \/ hpc' = pc /\ job' = op
            \/ hpc' = "idle" /\ job' = None
         /\ runner' \in {"client", "loop"}
         /\ loop' \in {"boot", "on", "off"}
  BY DEF Begin, Enter, Abort, MInv, MTypeOK

LEMMA BusyFacts ==
  /\ DOMAIN Busy = {"stage", "undo", "repair"}
  /\ Busy["stage"] = "switching" /\ Busy["undo"] = "rolling_back"
  /\ Busy["repair"] = "repairing"
  BY DEF Busy

(* With the locks held, the operation of the job has the claim. *)
LEMMA JobActive ==
  ASSUME MInv, hpc \in DOMAIN Busy
  PROVE  /\ job \in Ops /\ job \in Active(mem)
         /\ mem.ops[job].state = Busy[hpc] /\ mem.ops[job].new \in Candidates
<1>1. job \in Ops /\ mem.ops[job].state = Busy[hpc]
  BY DEF MInv, HandlerHolds
<1>2. Busy[hpc] \in Blocking
  BY BusyFacts DEF Blocking
<1>3. QED
  BY <1>1, <1>2 DEF Active, MInv, OneClaim

(* What a connection leaves behind has its type. *)
LEMMA TunnelTypes ==
  ASSUME MInv, NEW n \in Candidates, Connected(n) \/ NotConnected(n)
  PROVE  main' \in Nodes /\ up' \in BOOLEAN /\ (up' => main' # None) /\ astray' \in BOOLEAN
<1>1. main \in Nodes /\ up \in BOOLEAN /\ (up => main # None) /\ astray \in BOOLEAN
  BY DEF MInv, MTypeOK
<1>2. CASE UNCHANGED mainVars
  BY <1>1, <1>2 DEF mainVars
<1>3. CASE Stopped
  BY <1>3 DEF Stopped, Nodes
<1>4. CASE main' = n /\ up' \in BOOLEAN /\ astray' = FALSE
  BY <1>4 DEF Nodes
<1>5. CASE Connected(n)
  BY <1>5 DEF Connected, Nodes
<1>6. QED
  BY <1>2, <1>3, <1>4, <1>5 DEF NotConnected
-----------------------------------------------------------------------------
(* The part of the type invariant that the documents do not touch. *)
RestOK == /\ late \subseteq Ops
          /\ main \in Nodes /\ up \in BOOLEAN /\ (up => main # None)
          /\ standby \in Nodes /\ taking \in Nodes
          /\ hpc \in {"idle", "dead"} \union DOMAIN Busy
          /\ job \in Ops \union {None}
          /\ runner \in {"client", "loop"}
          /\ loop \in {"boot", "on", "off"}
          /\ told \in [Ops -> {"none"} \union Final]
          /\ retracted \subseteq Ops
          /\ astray \in BOOLEAN

LEMMA RestNow == ASSUME MInv PROVE RestOK
  BY DEF MInv, MTypeOK, RestOK

(* What is left to show of a step that writes one operation: the shape of  *)
(* the other variables, the handler, and the node if it waits for a commit.*)
LEMMA Assembled ==
  ASSUME MInv, NEW op \in Ops, NEW doc \in Docs,
         op \in Active(mem) \/ MutationAllowed,
         \A o \in Ops : o # op => doc.ops[o] = mem.ops[o],
         doc.lease = mem.lease,
         doc.ops[op].state \in Blocking => doc.ops[op].new \in Candidates,
         Saved(doc) \/ Lost(doc),
         RestOK', HandlerHolds',
         doc.ops[op].state \in Validating =>
           astray' \/ main' \in {doc.ops[op].new, None}
  PROVE  MInv'
<1>1. /\ mem' = doc /\ mem' \in Docs /\ disk' \in Docs
      /\ faults' \in 0..MaxFaults
      /\ OneClaim(mem)' /\ OneClaim(disk)'
      /\ \A o \in Ops : o # op => mem'.ops[o].state \notin Blocking
  BY Written
<1>2. MTypeOK'
  BY <1>1 DEF MTypeOK, RestOK
<1>3. NoStranger'
  <2>1. Validating \subseteq Blocking
    BY DEF Validating, Blocking
  <2>2. QED
    BY <1>1, <2>1 DEF NoStranger
<1>4. QED
  BY <1>1, <1>2, <1>3 DEF MInv

(* Answers have the shape of answers. *)
LEMMA TellTypes ==
  ASSUME MInv, NEW op \in Ops, NEW st \in Final,
         Tell(op, st) \/ UNCHANGED answerVars
  PROVE  told' \in [Ops -> {"none"} \union Final] /\ retracted' \subseteq Ops
<1>1. told \in [Ops -> {"none"} \union Final] /\ retracted \subseteq Ops
  BY DEF MInv, MTypeOK
<1>2. QED
  BY <1>1 DEF Tell, answerVars
-----------------------------------------------------------------------------
(* One lemma per action that writes an operation. *)

LEMMA StageBeginKeeps ==
  ASSUME MInv, NEW op \in Ops, NEW n \in Candidates, StageBegin(op, n)
  PROVE  MInv'
<1> DEFINE rec == [state |-> "switching", old |-> main, new |-> n]
<1>1. rec \in Rec /\ mem \in Docs
  BY DEF Rec, States, Blocking, Nodes, MInv, MTypeOK
<1>2. /\ Put(op, rec) \in Docs /\ Put(op, rec).ops[op] = rec
      /\ \A o \in Ops : o # op => Put(op, rec).ops[o] = mem.ops[o]
      /\ Put(op, rec).lease = mem.lease
  BY <1>1, PutFacts
<1>3. Begin(Put(op, rec), "stage", op, "client") /\ MutationAllowed
  BY DEF StageBegin
<1>4. /\ Saved(Put(op, rec)) \/ Lost(Put(op, rec))
      /\ (hpc' = "stage" /\ job' = op) \/ (hpc' = "idle" /\ job' = None)
      /\ runner' \in {"client", "loop"} /\ loop' \in {"boot", "on", "off"}
  BY <1>3, Begun, BusyFacts
<1>5. mem' = Put(op, rec)
  BY <1>4 DEF Saved, Lost
<1>6. HandlerHolds'
  BY <1>2, <1>4, <1>5, BusyFacts DEF HandlerHolds
<1>7. RestOK'
  BY <1>4, RestNow, BusyFacts
     DEF RestOK, StageBegin, mainVars, standbyVars, answerVars
<1>8. rec.state \notin Validating
  BY DEF Validating
<1>9. QED
  BY <1>2, <1>3, <1>4, <1>6, <1>7, <1>8, Assembled

(* A handler moves its own operation to state st and ends: the last step   *)
(* of a stage, of a failed rollback and of a repair.                       *)
LEMMA HandlerEnds ==
  ASSUME MInv, hpc \in DOMAIN Busy, NEW st \in Blocking,
         Finish(State(job, st)),
         main' \in Nodes, up' \in BOOLEAN, up' => main' # None, astray' \in BOOLEAN,
         UNCHANGED <<standbyVars, answerVars, late>>,
         st \in Validating => main' = mem.ops[job].new
  PROVE  MInv'
<1> DEFINE doc == State(job, st)
<1>1. job \in Ops /\ job \in Active(mem) /\ mem.ops[job].new \in Candidates
  BY JobActive
<1>2. /\ doc \in Docs
      /\ doc.ops[job].state = st
      /\ doc.ops[job].new = mem.ops[job].new
      /\ \A o \in Ops : o # job => doc.ops[o] = mem.ops[o]
      /\ doc.lease = mem.lease
  <2>1. st \in States /\ mem \in Docs
    BY StateNames, DocNow
  <2>2. QED
    BY <1>1, <2>1, StateFacts
<1>3. /\ Saved(doc) \/ Lost(doc)
      /\ hpc' = "idle" /\ job' = None /\ runner' = "client"
      /\ loop' \in {"boot", "on", "off"}
  BY Ended
<1>4. HandlerHolds'
  BY <1>3, BusyFacts DEF HandlerHolds
<1>5. RestOK'
  BY <1>3, RestNow DEF RestOK, standbyVars, answerVars
<1>6. QED
  BY <1>1, <1>2, <1>3, <1>4, <1>5, Assembled

LEMMA StageOkKeeps == ASSUME MInv, StageOk PROVE MInv'
<1>1. hpc \in DOMAIN Busy /\ mem.ops[job].new \in Candidates
  BY JobActive, BusyFacts DEF StageOk
<1>2. Connected(mem.ops[job].new)
  BY DEF StageOk
<1>3. main' \in Nodes /\ up' \in BOOLEAN /\ (up' => main' # None) /\ astray' \in BOOLEAN
  BY <1>1, <1>2, TunnelTypes
<1>4. main' = mem.ops[job].new
  BY <1>2 DEF Connected
<1>5. "pending_commit" \in Blocking
  BY StateNames
<1>6. QED
  BY <1>1, <1>3, <1>4, <1>5, HandlerEnds DEF StageOk

LEMMA RepairOkKeeps == ASSUME MInv, RepairOk PROVE MInv'
<1>1. hpc \in DOMAIN Busy /\ mem.ops[job].new \in Candidates
  BY JobActive, BusyFacts DEF RepairOk
<1>2. Connected(mem.ops[job].new)
  BY DEF RepairOk
<1>3. main' \in Nodes /\ up' \in BOOLEAN /\ (up' => main' # None) /\ astray' \in BOOLEAN
  BY <1>1, <1>2, TunnelTypes
<1>4. main' = mem.ops[job].new
  BY <1>2 DEF Connected
<1>5. "pending_gateway_validation" \in Blocking
  BY StateNames
<1>6. QED
  BY <1>1, <1>3, <1>4, <1>5, HandlerEnds DEF RepairOk

LEMMA RepairFailsKeeps == ASSUME MInv, RepairFails PROVE MInv'
<1>1. hpc \in DOMAIN Busy /\ mem.ops[job].new \in Candidates
  BY JobActive, BusyFacts DEF RepairFails
<1>2. NotConnected(mem.ops[job].new)
  BY DEF RepairFails
<1>3. main' \in Nodes /\ up' \in BOOLEAN /\ (up' => main' # None) /\ astray' \in BOOLEAN
  BY <1>1, <1>2, TunnelTypes
<1>4. "repair_required" \in Blocking \ Validating
  BY StateNames DEF Validating
<1>5. QED
  BY <1>1, <1>3, <1>4, HandlerEnds DEF RepairFails

LEMMA NotRestoredKeeps == ASSUME MInv, NotRestored PROVE MInv'
<1>1. hpc \in DOMAIN Busy /\ job \in Ops
  BY JobActive, BusyFacts DEF NotRestored
<1>2. mem.ops[job].old \in Nodes
  BY <1>1, DocNow DEF Docs
<1>3. main' \in Nodes /\ up' \in BOOLEAN /\ (up' => main' # None) /\ astray' \in BOOLEAN
  <2>1. CASE mem.ops[job].old = None
    BY <2>1, RestNow DEF NotRestored, RestOK, mainVars
  <2>2. CASE mem.ops[job].old \in Candidates
    <3>1. NotConnected(mem.ops[job].old)
      BY <2>2 DEF NotRestored
    <3>2. QED
      BY <2>2, <3>1, TunnelTypes
  <2>3. QED
    BY <1>2, <2>1, <2>2 DEF Nodes
<1>4. "repair_required" \in Blocking \ Validating
  BY StateNames DEF Validating
<1>5. QED
  BY <1>1, <1>3, <1>4, HandlerEnds DEF NotRestored

(* An unfinished operation is handed to the restoration of its old node.   *)
LEMMA UndoBegins ==
  ASSUME MInv, NEW op \in Active(mem), NEW who \in {"client", "loop"},
         Begin(State(op, "rolling_back"), "undo", op, who),
         main' \in Nodes, up' \in BOOLEAN, up' => main' # None, astray' \in BOOLEAN,
         UNCHANGED <<standbyVars, answerVars, late>>
  PROVE  MInv'
<1> DEFINE doc == State(op, "rolling_back")
<1>1. op \in Ops /\ mem.ops[op].new \in Candidates
  BY DEF Active, MInv, OneClaim
<1>2. /\ doc \in Docs
      /\ doc.ops[op].state = "rolling_back"
      /\ doc.ops[op].new = mem.ops[op].new
      /\ \A o \in Ops : o # op => doc.ops[o] = mem.ops[o]
      /\ doc.lease = mem.lease
  <2>1. "rolling_back" \in States /\ mem \in Docs
    BY StateNames, DocNow
  <2>2. QED
    BY <1>1, <2>1, StateFacts
<1>3. /\ Saved(doc) \/ Lost(doc)
      /\ (hpc' = "undo" /\ job' = op) \/ (hpc' = "idle" /\ job' = None)
      /\ runner' \in {"client", "loop"} /\ loop' \in {"boot", "on", "off"}
  BY <1>1, Begun, BusyFacts
<1>4. mem' = doc
  BY <1>3 DEF Saved, Lost
<1>5. HandlerHolds'
  BY <1>1, <1>2, <1>3, <1>4, BusyFacts DEF HandlerHolds
<1>6. RestOK'
  BY <1>1, <1>3, RestNow, BusyFacts DEF RestOK, standbyVars, answerVars
<1>7. "rolling_back" \notin Validating
  BY DEF Validating
<1>8. QED
  BY <1>1, <1>2, <1>3, <1>5, <1>6, <1>7, Assembled

LEMMA StageFailsKeeps == ASSUME MInv, StageFails PROVE MInv'
<1>1. job \in Active(mem) /\ mem.ops[job].new \in Candidates
  BY JobActive, BusyFacts DEF StageFails
<1>2. NotConnected(mem.ops[job].new)
  BY DEF StageFails
<1>3. main' \in Nodes /\ up' \in BOOLEAN /\ (up' => main' # None) /\ astray' \in BOOLEAN
  BY <1>1, <1>2, TunnelTypes
<1>4. QED
  BY <1>1, <1>3, UndoBegins DEF StageFails

LEMMA RollbackKeeps == ASSUME MInv, NEW op \in Ops, Rollback(op) PROVE MInv'
<1>1. op \in Active(mem)
  BY DEF Rollback, Undoable, Active
<1>2. main' \in Nodes /\ up' \in BOOLEAN /\ (up' => main' # None) /\ astray' \in BOOLEAN
  BY RestNow DEF RestOK, Rollback, mainVars
<1>3. QED
  BY <1>1, <1>2, UndoBegins DEF Rollback

LEMMA RecoverKeeps == ASSUME MInv, NEW op \in Ops, Recover(op) PROVE MInv'
<1>1. op \in Active(mem)
  BY StateNames DEF Recover, Recoverable, Active
<1>2. main' \in Nodes /\ up' \in BOOLEAN /\ (up' => main' # None) /\ astray' \in BOOLEAN
  BY RestNow DEF RestOK, Recover, mainVars
<1>3. QED
  BY <1>1, <1>2, UndoBegins DEF Recover

(* An unfinished operation is decided and its handler ends. *)
LEMMA Decided ==
  ASSUME MInv, NEW op \in Active(mem), NEW st \in Final,
         Finish(Settle(op, st)),
         main' \in Nodes, up' \in BOOLEAN, up' => main' # None, astray' \in BOOLEAN,
         UNCHANGED standbyVars, late' \subseteq Ops,
         Tell(op, st) \/ UNCHANGED answerVars
  PROVE  MInv'
<1> DEFINE doc == Settle(op, st)
<1>1. op \in Ops
  BY DEF Active
<1>2. /\ doc \in Docs
      /\ doc.ops[op].state = st
      /\ \A o \in Ops : o # op => doc.ops[o] = mem.ops[o]
      /\ doc.lease = mem.lease
  <2>1. mem \in Docs
    BY DocNow
  <2>2. QED
    BY <1>1, <2>1, SettleFacts
<1>3. /\ Saved(doc) \/ Lost(doc)
      /\ hpc' = "idle" /\ job' = None /\ runner' = "client"
      /\ loop' \in {"boot", "on", "off"}
  BY Ended
<1>4. HandlerHolds'
  BY <1>3, BusyFacts DEF HandlerHolds
<1>5. told' \in [Ops -> {"none"} \union Final] /\ retracted' \subseteq Ops
  BY <1>1, TellTypes
<1>6. RestOK'
  BY <1>3, <1>5, RestNow DEF RestOK, standbyVars
<1>7. st \notin Blocking /\ st \notin Validating
  BY StateNames
<1>8. QED
  BY <1>1, <1>2, <1>3, <1>4, <1>6, <1>7, Assembled

LEMMA CommitKeeps == ASSUME MInv, NEW op \in Ops, Commit(op) PROVE MInv'
<1>1. op \in Active(mem) /\ "committed" \in Final
  BY StateNames DEF Commit, Active
<1>2. main' \in Nodes /\ up' \in BOOLEAN /\ (up' => main' # None) /\ astray' \in BOOLEAN
  BY RestNow DEF RestOK, Commit, mainVars
<1>3. Tell(op, "committed") \/ UNCHANGED answerVars
  BY DEF Commit, TellIfSaved
<1>4. late' \subseteq Ops
  BY RestNow DEF RestOK, Commit
<1>5. QED
  BY <1>1, <1>2, <1>3, <1>4, Decided DEF Commit

LEMMA RestoredKeeps == ASSUME MInv, Restored PROVE MInv'
<1>1. job \in Active(mem) /\ job \in Ops /\ "rolled_back" \in Final
  BY JobActive, BusyFacts, StateNames DEF Restored
<1>2. mem.ops[job].old \in Candidates
  <2>1. mem.ops[job].old \in Nodes
    BY <1>1, DocNow DEF Docs
  <2>2. QED
    BY <2>1 DEF Restored, Nodes
<1>3. Connected(mem.ops[job].old)
  BY DEF Restored
<1>4. main' \in Nodes /\ up' \in BOOLEAN /\ (up' => main' # None) /\ astray' \in BOOLEAN
  BY <1>2, <1>3, TunnelTypes
<1>5. Tell(job, "rolled_back") \/ UNCHANGED answerVars
  BY DEF Restored, TellIfSaved
<1>6. late' \subseteq Ops
  BY RestNow DEF RestOK, Restored
<1>7. QED
  BY <1>1, <1>4, <1>5, <1>6, Decided DEF Restored

LEMMA RepairBeginKeeps ==
  ASSUME MInv, NEW op \in Ops, NEW n \in Candidates, RepairBegin(op, n)
  PROVE  MInv'
<1> DEFINE rec == [state |-> "repairing", old |-> mem.ops[op].old, new |-> n]
<1>1. rec \in Rec /\ mem \in Docs
  <2>1. mem \in Docs
    BY DocNow
  <2>2. mem.ops[op].old \in Nodes
    BY <2>1 DEF Docs
  <2>3. QED
    BY <2>1, <2>2 DEF Rec, States, Blocking, Nodes
<1>2. /\ Put(op, rec) \in Docs /\ Put(op, rec).ops[op] = rec
      /\ \A o \in Ops : o # op => Put(op, rec).ops[o] = mem.ops[o]
      /\ Put(op, rec).lease = mem.lease
  BY <1>1, PutFacts
<1>3. Begin(Put(op, rec), "repair", op, "client") /\ op \in Active(mem)
  BY StateNames DEF RepairBegin, Active
<1>4. /\ Saved(Put(op, rec)) \/ Lost(Put(op, rec))
      /\ (hpc' = "repair" /\ job' = op) \/ (hpc' = "idle" /\ job' = None)
      /\ runner' \in {"client", "loop"} /\ loop' \in {"boot", "on", "off"}
  BY <1>3, Begun, BusyFacts
<1>5. mem' = Put(op, rec)
  BY <1>4 DEF Saved, Lost
<1>6. HandlerHolds'
  BY <1>2, <1>4, <1>5, BusyFacts DEF HandlerHolds
<1>7. RestOK'
  BY <1>4, RestNow, BusyFacts
     DEF RestOK, RepairBegin, mainVars, standbyVars, answerVars
<1>8. rec.state \notin Validating /\ rec.new \in Candidates
  BY DEF Validating
<1>9. QED
  BY <1>2, <1>3, <1>4, <1>6, <1>7, <1>8, Assembled
-----------------------------------------------------------------------------
(* The steps that write no operation. *)

(* A step that leaves the documents and the handler as they are keeps the  *)
(* invariant if the node of a waiting operation is safe.                   *)
LEMMA DocsStay ==
  ASSUME MInv, UNCHANGED <<docVars, handlerVars>>, RestOK',
         \A op \in Ops : mem.ops[op].state \in Validating =>
           astray' \/ main' \in {mem.ops[op].new, None}
  PROVE  MInv'
<1>1. UNCHANGED <<mem, disk, faults, hpc, job, runner>>
  BY DEF docVars, handlerVars
<1>2. MTypeOK'
  BY <1>1 DEF MInv, MTypeOK, RestOK
<1>3. OneClaim(mem)' /\ OneClaim(disk)' /\ HandlerHolds'
  BY <1>1 DEF MInv, OneClaim, Active, HandlerHolds
<1>4. NoStranger'
  BY <1>1 DEF NoStranger
<1>5. QED
  BY <1>2, <1>3, <1>4 DEF MInv

(* Nobody waits for a commit while a mutation is allowed. *)
LEMMA NobodyWaits ==
  ASSUME MutationAllowed PROVE \A op \in Ops : mem.ops[op].state \notin Validating
  BY StateNames DEF MutationAllowed, Active

LEMMA ReplayKeeps == ASSUME MInv, NEW op \in Ops, Replay(op) PROVE MInv'
<1>1. told' \in [Ops -> {"none"} \union Final] /\ retracted' \subseteq Ops
  BY TellTypes DEF Replay
<1>2. RestOK'
  BY <1>1, RestNow DEF Replay, RestOK, mainVars, standbyVars, handlerVars
<1>3. QED
  BY <1>2, DocsStay DEF Replay, MInv, NoStranger, mainVars

LEMMA OpLapsesKeeps == ASSUME MInv, NEW op \in Ops, OpLapses(op) PROVE MInv'
<1>1. RestOK'
  BY RestNow DEF OpLapses, RestOK, mainVars, standbyVars, handlerVars, answerVars
<1>2. QED
  BY <1>1, DocsStay DEF OpLapses, MInv, NoStranger, mainVars

LEMMA LeaseStepKeeps ==
  ASSUME MInv, NEW st \in {"free", "active"}, LeaseStep(Lease(st)),
         st = "active" => Active(mem) = {}
  PROVE  MInv'
<1> DEFINE doc == Lease(st)
<1>1. mem \in Docs
  BY DocNow
<1>2. doc \in Docs /\ doc.ops = mem.ops /\ doc.lease = st
  BY <1>1, LeaseFacts
<1>3. /\ mem' = doc /\ (disk' = doc \/ disk' = disk)
      /\ faults' \in 0..MaxFaults
  BY DEF LeaseStep, Saved, Lost, Fault, MInv, MTypeOK
<1>4. UNCHANGED <<mainVars, standbyVars, handlerVars, answerVars, late, loop>>
  BY DEF LeaseStep
<1>5. OneClaim(doc)
  BY <1>2 DEF MInv, OneClaim, Active
<1>6. OneClaim(mem)' /\ OneClaim(disk)'
  BY <1>3, <1>5 DEF MInv, OneClaim, Active
<1>7. MTypeOK'
  <2>1. mem' \in Docs /\ disk' \in Docs
    BY <1>2, <1>3, DocNow
  <2>2. RestOK'
    BY <1>4, RestNow DEF RestOK, mainVars, standbyVars, handlerVars, answerVars
  <2>3. QED
    BY <1>3, <2>1, <2>2 DEF MTypeOK, RestOK
<1>8. mem'.ops = mem.ops
  BY <1>2, <1>3
<1>9. HandlerHolds' /\ NoStranger'
  BY <1>4, <1>8 DEF MInv, HandlerHolds, NoStranger, handlerVars, mainVars
<1>10. QED
  BY <1>6, <1>7, <1>9 DEF MInv

LEMMA LeaseSame == ASSUME mem \in Docs, Leased PROVE mem = Lease("active")
  BY DEF Docs, Lease, Leased

LEMMA LeaseKeeps ==
  ASSUME MInv, Acquire \/ Renew \/ Release \/ LeaseLapses PROVE MInv'
<1>1. CASE Acquire
  BY <1>1, LeaseStepKeeps DEF Acquire, MutationAllowed
<1>2. CASE Renew
  <2>1. mem = Lease("active") /\ Active(mem) = {}
    BY <1>2, LeaseSame, DocNow DEF Renew, MInv, OneClaim, Leased
  <2>2. LeaseStep(Lease("active"))
    BY <1>2, <2>1 DEF Renew
  <2>3. QED
    BY <2>1, <2>2, LeaseStepKeeps
<1>3. CASE Release
  BY <1>3, LeaseStepKeeps DEF Release
<1>4. CASE LeaseLapses
  BY <1>4, LeaseStepKeeps DEF LeaseLapses
<1>5. QED
  BY <1>1, <1>2, <1>3, <1>4

LEMMA LeaseLapsesLockedKeeps ==
  ASSUME MInv, NEW who \in {"client", "loop"}, LeaseLapsesLocked(who)
  PROVE  MInv'
<1> DEFINE doc == Lease("free")
<1>1. mem \in Docs
  BY DocNow
<1>2. doc \in Docs /\ doc.ops = mem.ops /\ doc.lease = "free"
  BY <1>1, LeaseFacts
<1>3. mem' = doc /\ disk' = disk /\ faults' \in 0..MaxFaults
  BY DEF LeaseLapsesLocked, Lost, Fault, MInv, MTypeOK
<1>4. /\ UNCHANGED <<mainVars, standbyVars, answerVars, late>>
      /\ hpc' = "dead" /\ job' = None /\ runner' = "client"
      /\ loop' \in {"boot", "on", "off"}
  BY DEF LeaseLapsesLocked, MInv, MTypeOK
<1>5. OneClaim(mem)' /\ OneClaim(disk)'
  BY <1>2, <1>3 DEF MInv, OneClaim, Active
<1>6. MTypeOK'
  <2>1. mem' \in Docs /\ disk' \in Docs
    BY <1>2, <1>3, DocNow
  <2>2. RestOK'
    BY <1>4, RestNow DEF RestOK, mainVars, standbyVars, answerVars
  <2>3. QED
    BY <1>3, <2>1, <2>2 DEF MTypeOK, RestOK
<1>7. HandlerHolds'
  BY <1>4, BusyFacts DEF HandlerHolds
<1>8. mem'.ops = mem.ops
  BY <1>2, <1>3
<1>9. NoStranger'
  BY <1>4, <1>8 DEF MInv, NoStranger, mainVars
<1>10. QED
  BY <1>5, <1>6, <1>7, <1>9 DEF MInv

LEMMA ConnectKeeps == ASSUME MInv, NEW n \in Candidates, Connect(n) PROVE MInv'
<1>1. main' \in Nodes /\ up' \in BOOLEAN /\ (up' => main' # None) /\ astray' \in BOOLEAN
  BY TunnelTypes DEF Connect
<1>2. RestOK'
  BY <1>1, RestNow
     DEF Connect, Elsewhere, RestOK, standbyVars, handlerVars, answerVars
<1>3. \A op \in Ops : mem.ops[op].state \notin Validating
  BY NobodyWaits DEF Connect
<1>4. UNCHANGED <<docVars, handlerVars>>
  BY DEF Connect, Elsewhere
<1>5. QED
  BY <1>2, <1>3, <1>4, DocsStay

LEMMA TunnelDiesKeeps == ASSUME MInv, TunnelDies PROVE MInv'
<1>1. RestOK'
  BY RestNow DEF TunnelDies, Elsewhere, RestOK, standbyVars, handlerVars, answerVars
<1>2. UNCHANGED <<docVars, handlerVars, main, astray>>
  BY DEF TunnelDies, Elsewhere
<1>3. QED
  BY <1>1, <1>2, DocsStay DEF MInv, NoStranger

LEMMA StandbyUpKeeps == ASSUME MInv, NEW n \in Candidates, StandbyUp(n) PROVE MInv'
<1>1. RestOK'
  BY RestNow DEF StandbyUp, Elsewhere, RestOK, Nodes, mainVars, handlerVars, answerVars
<1>2. UNCHANGED <<docVars, handlerVars, main, astray>>
  BY DEF StandbyUp, Elsewhere, mainVars
<1>3. QED
  BY <1>1, <1>2, DocsStay DEF MInv, NoStranger

LEMMA RepairMainKeeps == ASSUME MInv, RepairMain PROVE MInv'
<1>1. standby \in Candidates /\ standby' = None /\ taking' = taking
  BY RestNow DEF RepairMain, RestOK, Nodes
<1>2. UNCHANGED <<docVars, handlerVars, answerVars, late, loop>>
  BY DEF RepairMain, Elsewhere
<1>3. CASE MutationAllowed
  <2>1. Connected(standby) \/ NotConnected(standby)
    BY <1>3 DEF RepairMain, NotConnected
  <2>2. main' \in Nodes /\ up' \in BOOLEAN /\ (up' => main' # None) /\ astray' \in BOOLEAN
    BY <1>1, <2>1, TunnelTypes
  <2>3. RestOK'
    BY <1>1, <1>2, <2>2, RestNow DEF RestOK, Nodes, handlerVars, answerVars
  <2>4. QED
    BY <1>2, <1>3, <2>3, NobodyWaits, DocsStay
<1>4. CASE ~MutationAllowed
  <2>1. UNCHANGED mainVars
    BY <1>4 DEF RepairMain
  <2>2. RestOK'
    BY <1>1, <1>2, <2>1, RestNow DEF RestOK, Nodes, mainVars, handlerVars, answerVars
  <2>3. QED
    BY <1>2, <2>1, <2>2, DocsStay DEF MInv, NoStranger, mainVars
<1>5. QED
  BY <1>3, <1>4

LEMMA PromoteKeeps == ASSUME MInv, Promote PROVE MInv'
<1>1. standby \in Candidates /\ standby' = None
  BY RestNow DEF Promote, RestOK, Nodes
<1>2. UNCHANGED <<docVars, handlerVars, answerVars, late, loop>>
  BY DEF Promote, Elsewhere
<1>3. CASE hpc = "idle" /\ MutationAllowed
  <2>1. Stopped /\ taking' = standby
    BY <1>3 DEF Promote
  <2>2. RestOK'
    BY <1>1, <1>2, <2>1, RestNow DEF RestOK, Stopped, Nodes, handlerVars, answerVars
  <2>3. QED
    BY <1>2, <1>3, <2>2, NobodyWaits, DocsStay
<1>4. CASE ~(hpc = "idle" /\ MutationAllowed)
  <2>1. UNCHANGED <<mainVars, taking>>
    BY <1>4 DEF Promote
  <2>2. RestOK'
    BY <1>1, <1>2, <2>1, RestNow DEF RestOK, Nodes, mainVars, handlerVars, answerVars
  <2>3. QED
    BY <1>2, <2>1, <2>2, DocsStay DEF MInv, NoStranger, mainVars
<1>5. QED
  BY <1>3, <1>4

LEMMA PromoteTakeKeeps == ASSUME MInv, PromoteTake PROVE MInv'
<1>1. /\ UNCHANGED <<docVars, handlerVars, answerVars, late, loop, standby>>
      /\ main' = taking /\ up' = TRUE /\ taking' = None
  BY DEF PromoteTake, Elsewhere
<1>2. astray' \in BOOLEAN /\ (astray' \/ MutationAllowed)
  BY DEF PromoteTake
<1>3. taking \in Candidates
  BY RestNow DEF PromoteTake, RestOK, Nodes
<1>4. RestOK'
  <2>1. main' \in Nodes /\ up' \in BOOLEAN /\ (up' => main' # None)
    BY <1>1, <1>3 DEF Nodes
  <2>2. QED
    BY <1>1, <1>2, <2>1, RestNow DEF RestOK, Nodes, handlerVars, answerVars
<1>5. QED
  BY <1>1, <1>2, <1>4, NobodyWaits, DocsStay

LEMMA BootKeeps == ASSUME MInv, Boot PROVE MInv'
<1>1. /\ UNCHANGED <<docVars, standbyVars, handlerVars, answerVars, late>>
      /\ loop' = "on"
  BY DEF Boot
<1>2. CASE Active(mem) = {} /\ ~Leased
  <2>1. (\E n \in Candidates : Connected(n)) \/ Stopped
    BY <1>2 DEF Boot
  <2>2. main' \in Nodes /\ up' \in BOOLEAN /\ (up' => main' # None) /\ astray' \in BOOLEAN
    <3>1. CASE Stopped
      BY <3>1 DEF Stopped, Nodes
    <3>2. ASSUME NEW n \in Candidates, Connected(n)
          PROVE  main' \in Nodes /\ up' \in BOOLEAN /\ (up' => main' # None) /\ astray' \in BOOLEAN
      BY <3>2, TunnelTypes
    <3>3. QED
      BY <2>1, <3>1, <3>2
  <2>3. RestOK'
    BY <1>1, <2>2, RestNow DEF RestOK, standbyVars, handlerVars, answerVars
  <2>4. MutationAllowed
    BY <1>2 DEF MutationAllowed
  <2>5. QED
    BY <1>1, <2>3, <2>4, NobodyWaits, DocsStay
<1>3. CASE ~(Active(mem) = {} /\ ~Leased)
  <2>1. UNCHANGED mainVars
    BY <1>3 DEF Boot
  <2>2. RestOK'
    BY <1>1, <2>1, RestNow DEF RestOK, mainVars, standbyVars, handlerVars, answerVars
  <2>3. QED
    BY <1>1, <2>1, <2>2, DocsStay DEF MInv, NoStranger, mainVars
<1>4. QED
  BY <1>2, <1>3

(* A restart takes the file for the truth, which holds one claim at most,  *)
(* and finds no main connection.                                           *)
LEMMA CrashKeeps == ASSUME MInv, Crash PROVE MInv'
<1>1. /\ mem' = disk /\ disk' = disk /\ faults' \in 0..MaxFaults
      /\ main' = None /\ up' = FALSE /\ astray' = FALSE
      /\ standby' = None /\ taking' = None
      /\ hpc' = "idle" /\ job' = None /\ runner' = "client" /\ loop' = "boot"
      /\ UNCHANGED <<told, late>> /\ retracted' \subseteq Ops
  BY DEF Crash, Stopped, Fault, MInv, MTypeOK
<1>2. MTypeOK'
  BY <1>1 DEF MInv, MTypeOK, Nodes
<1>3. OneClaim(mem)' /\ OneClaim(disk)'
  BY <1>1 DEF MInv, OneClaim, Active
<1>4. HandlerHolds'
  BY <1>1, BusyFacts DEF HandlerHolds
<1>5. NoStranger'
  BY <1>1 DEF NoStranger
<1>6. QED
  BY <1>2, <1>3, <1>4, <1>5 DEF MInv
-----------------------------------------------------------------------------
LEMMA InitInv == Init => MInv
<1> SUFFICES ASSUME Init PROVE MInv
  OBVIOUS
<1>1. mem \in Docs
  BY DEF Init, Docs, States, Nodes
<1>2. \A op \in Ops : mem.ops[op].state = "none"
  BY DEF Init
<1>3. MTypeOK
  <2>1. disk \in Docs /\ mem \in Docs
    BY <1>1 DEF Init
  <2>2. faults \in 0..MaxFaults
    BY MainConstants DEF Init
  <2>3. told \in [Ops -> {"none"} \union Final]
    BY DEF Init
  <2>4. QED
    BY <2>1, <2>2, <2>3 DEF Init, MTypeOK, Nodes
<1>4. OneClaim(mem) /\ OneClaim(disk)
  BY <1>2 DEF Init, OneClaim, Active, Blocking
<1>5. HandlerHolds /\ NoStranger
  BY <1>2, BusyFacts DEF Init, HandlerHolds, NoStranger, Validating
<1>6. QED
  BY <1>3, <1>4, <1>5 DEF MInv

LEMMA HandlerKeeps == ASSUME MInv, Handler PROVE MInv'
  BY StageOkKeeps, StageFailsKeeps, RestoredKeeps, NotRestoredKeeps,
     RepairOkKeeps, RepairFailsKeeps DEF Handler

LEMMA NextKeeps == MInv /\ [Next]_vars => MInv'
<1> SUFFICES ASSUME MInv, [Next]_vars PROVE MInv'
  OBVIOUS
<1>1. CASE UNCHANGED vars
  <2>1. /\ UNCHANGED <<docVars, handlerVars, mainVars, standbyVars, answerVars>>
        /\ UNCHANGED <<late, loop>>
    BY <1>1 DEF vars
  <2>2. /\ UNCHANGED <<mem, disk, faults, main, up, astray, standby, taking>>
        /\ UNCHANGED <<hpc, job, runner, told, retracted, late, loop>>
    BY <2>1 DEF docVars, handlerVars, mainVars, standbyVars, answerVars
  <2>3. MTypeOK'
    BY <2>2 DEF MInv, MTypeOK, Nodes
  <2>4. OneClaim(mem)' /\ OneClaim(disk)'
    BY <2>2 DEF MInv, OneClaim, Active
  <2>5. HandlerHolds' /\ NoStranger'
    BY <2>2, BusyFacts DEF MInv, HandlerHolds, NoStranger
  <2>6. QED
    BY <2>3, <2>4, <2>5 DEF MInv
<1>2. ASSUME NEW op \in Ops,
             \/ Commit(op) \/ Replay(op) \/ Rollback(op) \/ Recover(op) \/ OpLapses(op)
             \/ \E n \in Candidates : StageBegin(op, n) \/ RepairBegin(op, n)
      PROVE  MInv'
  BY <1>2, CommitKeeps, ReplayKeeps, RollbackKeeps, RecoverKeeps, OpLapsesKeeps,
     StageBeginKeeps, RepairBeginKeeps
<1>3. CASE Handler
  BY <1>3, HandlerKeeps
<1>4. CASE Acquire \/ Renew \/ Release \/ LeaseLapses
  BY <1>4, LeaseKeeps
<1>5. CASE \E who \in {"client", "loop"} : LeaseLapsesLocked(who)
  BY <1>5, LeaseLapsesLockedKeeps
<1>6. CASE \E n \in Candidates : Connect(n) \/ StandbyUp(n)
  BY <1>6, ConnectKeeps, StandbyUpKeeps
<1>7. CASE TunnelDies \/ RepairMain \/ Promote \/ PromoteTake
  BY <1>7, TunnelDiesKeeps, RepairMainKeeps, PromoteKeeps, PromoteTakeKeeps
<1>8. CASE Crash \/ Boot
  BY <1>8, CrashKeeps, BootKeeps
<1>9. QED
  BY <1>1, <1>2, <1>3, <1>4, <1>5, <1>6, <1>7, <1>8 DEF Next

(* The coordinator's invariant: one claim on the main connection at most,  *)
(* in memory and on disk, a handler that works on it, and no stranger      *)
(* under an operation that waits for its commit.                           *)
THEOREM MInductive == Spec => []MInv
  BY InitInv, NextKeeps, PTL DEF Spec

(* Every variable keeps its shape. *)
THEOREM MTypeCorrect == Spec => []MTypeOK
<1>1. MInv => MTypeOK
  BY DEF MInv
<1>2. QED
  BY <1>1, MInductive, PTL
-----------------------------------------------------------------------------
(* What a step may do to the main connection. *)
LEMMA MoveKinds ==
  ASSUME MInv, Next
  PROVE  \/ main' \in {main, None, taking}
         \/ ~Leased /\ (Active(mem) = {} \/ hpc \in DOMAIN Busy)
<1>1. CASE \E op \in Ops :
             \/ Commit(op) \/ Replay(op) \/ Rollback(op) \/ Recover(op) \/ OpLapses(op)
             \/ \E n \in Candidates : StageBegin(op, n) \/ RepairBegin(op, n)
  BY <1>1 DEF Commit, Replay, Rollback, Recover, OpLapses, StageBegin, RepairBegin,
     mainVars
<1>2. CASE Handler
  <2>1. hpc \in DOMAIN Busy
    BY <1>2, BusyFacts DEF Handler, StageOk, StageFails, Restored, NotRestored,
       RepairOk, RepairFails
  <2>2. ~Leased
    BY <2>1, JobActive DEF MInv, OneClaim, Leased
  <2>3. QED
    BY <2>1, <2>2
<1>3. CASE Acquire \/ Renew \/ Release \/ LeaseLapses
  BY <1>3 DEF Acquire, Renew, Release, LeaseLapses, LeaseStep, mainVars
<1>4. CASE \E who \in {"client", "loop"} : LeaseLapsesLocked(who)
  BY <1>4 DEF LeaseLapsesLocked, mainVars
<1>5. CASE \E n \in Candidates : Connect(n) \/ StandbyUp(n)
  BY <1>5 DEF Connect, StandbyUp, MutationAllowed, mainVars
<1>6. CASE TunnelDies \/ RepairMain \/ Promote \/ PromoteTake
  BY <1>6 DEF TunnelDies, RepairMain, Promote, PromoteTake, MutationAllowed, Stopped,
     mainVars
<1>7. CASE Crash \/ Boot
  BY <1>7 DEF Crash, Boot, Stopped, mainVars
<1>8. QED
  BY <1>1, <1>2, <1>3, <1>4, <1>5, <1>6, <1>7 DEF Next

(* The main node changes under a claim by right only. *)
THEOREM MMoves == Spec => MainMovesByRight
<1>1. MInv /\ [Next]_vars =>
        [main' \notin {main, None, taking} =>
           ~Leased /\ (Active(mem) = {} \/ hpc \in DOMAIN Busy)]_vars
  BY MoveKinds
<1>2. QED
  BY <1>1, MInductive, PTL DEF Spec, MainMovesByRight
-----------------------------------------------------------------------------
(* What a step may do to the operations and to the answers about them. *)
LEMMA BeginIs ==
  ASSUME NEW doc, NEW pc, NEW op, NEW who, Begin(doc, pc, op, who)
  PROVE  mem' = doc
  BY DEF Begin, Saved, Lost

LEMMA FinishIs == ASSUME NEW doc, Finish(doc) PROVE mem' = doc
  BY DEF Finish, Saved, Lost

(* One operation that is not final goes to a state that is not final. *)
GoesOn(op) == /\ mem.ops[op].state \notin Final
              /\ mem'.ops[op].state \notin Final
              /\ \A o \in Ops : o # op => mem'.ops[o] = mem.ops[o]
              /\ UNCHANGED answerVars

LEMMA StateGoesOn ==
  ASSUME MInv, NEW op \in Ops, NEW s \in States \ Final,
         mem.ops[op].state \notin Final, mem' = State(op, s), UNCHANGED answerVars
  PROVE  GoesOn(op)
  BY DocNow, StateFacts DEF GoesOn

LEMMA RecGoesOn ==
  ASSUME MInv, NEW op \in Ops, NEW rec \in Rec, rec.state \notin Final,
         mem.ops[op].state \notin Final, mem' = Put(op, rec), UNCHANGED answerVars
  PROVE  GoesOn(op)
  BY DocNow, PutFacts DEF GoesOn

LEMMA HandlerGoesOn ==
  ASSUME MInv, StageOk \/ StageFails \/ NotRestored \/ RepairOk \/ RepairFails
  PROVE  \E op \in Ops : GoesOn(op)
<1>1. hpc \in DOMAIN Busy /\ UNCHANGED answerVars
  BY BusyFacts DEF StageOk, StageFails, NotRestored, RepairOk, RepairFails
<1>2. job \in Ops /\ mem.ops[job].state \notin Final
  BY <1>1, JobActive, StateNames DEF Active
<1>3. \E s \in {"pending_commit", "rolling_back", "repair_required",
                "pending_gateway_validation"} : mem' = State(job, s)
  BY BeginIs, FinishIs DEF StageOk, StageFails, NotRestored, RepairOk, RepairFails
<1>4. QED
  BY <1>1, <1>2, <1>3, StateNames, StateGoesOn

LEMMA ClientGoesOn ==
  ASSUME MInv, NEW op \in Ops,
         \/ Rollback(op) \/ Recover(op)
         \/ \E n \in Candidates : StageBegin(op, n) \/ RepairBegin(op, n)
  PROVE  GoesOn(op)
<1>1. UNCHANGED answerVars
  BY DEF Rollback, Recover, StageBegin, RepairBegin
<1>2. CASE Rollback(op) \/ Recover(op)
  <2>1. mem' = State(op, "rolling_back")
    BY <1>2, BeginIs, FinishIs DEF Rollback, Recover
  <2>2. mem.ops[op].state \notin Final /\ "rolling_back" \in States \ Final
    BY <1>2, StateNames DEF Rollback, Recover, Undoable, Recoverable
  <2>3. QED
    BY <1>1, <2>1, <2>2, StateGoesOn
<1>3. ASSUME NEW n \in Candidates, StageBegin(op, n) PROVE GoesOn(op)
  <2> DEFINE rec == [state |-> "switching", old |-> main, new |-> n]
  <2>1. rec \in Rec /\ rec.state \notin Final
    BY RestNow, StateNames DEF RestOK, Rec, Nodes
  <2>2. mem' = Put(op, rec) /\ mem.ops[op].state \notin Final
    BY <1>3, BeginIs, FinishIs DEF StageBegin, Final
  <2>3. QED
    BY <1>1, <2>1, <2>2, RecGoesOn
<1>4. ASSUME NEW n \in Candidates, RepairBegin(op, n) PROVE GoesOn(op)
  <2> DEFINE rec == [state |-> "repairing", old |-> mem.ops[op].old, new |-> n]
  <2>1. mem.ops[op].old \in Nodes
    BY DocNow DEF Docs
  <2>2. rec \in Rec /\ rec.state \notin Final
    BY <2>1, StateNames DEF Rec, Nodes
  <2>3. mem' = Put(op, rec) /\ mem.ops[op].state \notin Final
    BY <1>4, BeginIs, FinishIs, StateNames DEF RepairBegin
  <2>4. QED
    BY <1>1, <2>2, <2>3, RecGoesOn
<1>5. QED
  BY <1>2, <1>3, <1>4

LEMMA QuietSteps ==
  ASSUME MInv,
         \/ \E op \in Ops : OpLapses(op)
         \/ Acquire \/ Renew \/ Release \/ LeaseLapses
         \/ \E who \in {"client", "loop"} : LeaseLapsesLocked(who)
         \/ \E n \in Candidates : Connect(n) \/ StandbyUp(n)
         \/ TunnelDies \/ RepairMain \/ Promote \/ PromoteTake \/ Boot
  PROVE  mem'.ops = mem.ops /\ UNCHANGED answerVars
<1>1. CASE Acquire \/ Renew \/ Release \/ LeaseLapses
  <2>1. UNCHANGED answerVars /\ \E doc \in {mem, Lease("active"), Lease("free")} : mem' = doc
    BY <1>1 DEF Acquire, Renew, Release, LeaseLapses, LeaseStep, Saved, Lost
  <2>2. QED
    BY <2>1, DocNow, LeaseFacts
<1>2. CASE \E who \in {"client", "loop"} : LeaseLapsesLocked(who)
  <2>1. UNCHANGED answerVars /\ mem' = Lease("free")
    BY <1>2 DEF LeaseLapsesLocked, Lost
  <2>2. QED
    BY <2>1, DocNow, LeaseFacts
<1>3. CASE \/ \E op \in Ops : OpLapses(op)
           \/ \E n \in Candidates : Connect(n) \/ StandbyUp(n)
           \/ TunnelDies \/ RepairMain \/ Promote \/ PromoteTake \/ Boot
  BY <1>3 DEF OpLapses, Connect, StandbyUp, TunnelDies, RepairMain, Promote,
     PromoteTake, Boot, Elsewhere, docVars
<1>4. QED
  BY <1>1, <1>2, <1>3

LEMMA StepKinds ==
  ASSUME MInv, Next
  PROVE  \/ \E op \in Ops : GoesOn(op) \/ Commit(op) \/ Replay(op)
         \/ Restored \/ Crash
         \/ mem'.ops = mem.ops /\ UNCHANGED answerVars
  BY HandlerGoesOn, ClientGoesOn, QuietSteps DEF Next, Handler
(* The operation a handler or a client decides is settled in memory, from  *)
(* a state that is not final; nobody else is touched.                      *)
LEMMA CommitDecides ==
  ASSUME MInv, NEW op \in Ops, Commit(op)
  PROVE  /\ mem.ops[op].state \notin Final
         /\ mem'.ops[op].state = "committed"
         /\ \A o \in Ops : o # op => mem'.ops[o] = mem.ops[o]
         /\ Tell(op, "committed") \/ UNCHANGED answerVars
<1>1. mem' = Settle(op, "committed")
  BY FinishIs DEF Commit
<1>2. mem.ops[op].state \notin Final /\ "committed" \in Final
  BY StateNames DEF Commit
<1>3. QED
  BY <1>1, <1>2, DocNow, SettleFacts DEF Commit, TellIfSaved

LEMMA RestoreDecides ==
  ASSUME MInv, Restored
  PROVE  /\ job \in Ops /\ mem.ops[job].state \notin Final
         /\ mem'.ops[job].state = "rolled_back"
         /\ \A o \in Ops : o # job => mem'.ops[o] = mem.ops[o]
         /\ Tell(job, "rolled_back") \/ UNCHANGED answerVars
<1>1. mem' = Settle(job, "rolled_back")
  BY FinishIs DEF Restored
<1>2. job \in Ops /\ mem.ops[job].state \notin Final /\ "rolled_back" \in Final
  BY JobActive, BusyFacts, StateNames DEF Restored, Active
<1>3. QED
  BY <1>1, <1>2, DocNow, SettleFacts DEF Restored, TellIfSaved

(* While the engine runs, what is decided stays decided. *)
LEMMA FinalStays ==
  ASSUME MInv, Next, ~Crash, NEW op \in Ops, mem.ops[op].state \in Final
  PROVE  mem'.ops[op].state = mem.ops[op].state
<1>1. ASSUME NEW o \in Ops, GoesOn(o) \/ Commit(o)
      PROVE  mem'.ops[op].state = mem.ops[op].state
  BY <1>1, CommitDecides DEF GoesOn
<1>2. ASSUME NEW o \in Ops, Replay(o) PROVE mem'.ops[op].state = mem.ops[op].state
  BY <1>2 DEF Replay, docVars
<1>3. CASE Restored
  BY <1>3, RestoreDecides
<1>4. QED
  BY <1>1, <1>2, <1>3, StepKinds

(* What the file says is decided is decided in memory too: the memory is   *)
(* ahead of the file, never behind.                                        *)
FileBehind == \A op \in Ops : disk.ops[op].state \in Final =>
                                 mem.ops[op].state = disk.ops[op].state

LEMMA DiskKinds == ASSUME Next PROVE disk' = disk \/ disk' = mem'
  BY DEF Next, Handler, Commit, Replay, Rollback, Recover, OpLapses, StageBegin,
     RepairBegin, StageOk, StageFails, Restored, NotRestored, RepairOk, RepairFails,
     Acquire, Renew, Release, LeaseLapses, LeaseStep, LeaseLapsesLocked, Connect,
     StandbyUp, TunnelDies, RepairMain, Promote, PromoteTake, Crash, Boot, Elsewhere,
     Begin, Finish, Saved, Lost, docVars

LEMMA FileStaysBehind == ASSUME MInv, FileBehind, Next PROVE FileBehind'
<1>1. CASE disk' = mem'
  BY <1>1 DEF FileBehind
<1>2. CASE Crash
  BY <1>2 DEF Crash, FileBehind
<1>3. CASE disk' = disk /\ ~Crash
  BY <1>3, FinalStays DEF FileBehind
<1>4. QED
  BY <1>1, <1>2, <1>3, DiskKinds

LEMMA FileInv == Spec => []FileBehind
<1>1. Init => FileBehind
  BY DEF Init, FileBehind
<1>2. MInv /\ FileBehind /\ [Next]_vars => FileBehind'
  <2>1. MInv /\ FileBehind /\ Next => FileBehind'
    BY FileStaysBehind
  <2>2. FileBehind /\ UNCHANGED vars => FileBehind'
    BY DEF FileBehind, vars, docVars
  <2>3. QED
    BY <2>1, <2>2
<1>3. QED
  BY <1>1, <1>2, MInductive, PTL DEF Spec
-----------------------------------------------------------------------------
(* What is decided is what runs: a step that makes an operation final is   *)
(* its commit, under its own node, or its restoration, under the old one.  *)
Served(op) == IF mem'.ops[op].state = "rolled_back"
              THEN main' = mem.ops[op].old /\ up'
              ELSE astray \/ main \in {mem.ops[op].new, None}

LEMMA DecidedServes ==
  ASSUME MInv, FileBehind, Next, NEW op \in Ops,
         mem.ops[op].state \notin Final, mem'.ops[op].state \in Final
  PROVE  Served(op)
<1>1. CASE Commit(op)
  <2>1. mem'.ops[op].state = "committed"
    BY <1>1, CommitDecides
  <2>2. astray \/ main \in {mem.ops[op].new, None}
    BY <1>1 DEF Commit, MInv, NoStranger
  <2>3. QED
    BY <2>1, <2>2 DEF Served
<1>2. CASE Restored /\ op = job
  BY <1>2, RestoreDecides DEF Restored, Connected, Served
<1>3. Commit(op) \/ (Restored /\ op = job)
  <2>1. ~Crash
    BY DEF Crash, FileBehind
  <2>2. ASSUME NEW o \in Ops, GoesOn(o) PROVE FALSE
    BY <2>2 DEF GoesOn
  <2>3. ASSUME NEW o \in Ops, Replay(o) PROVE FALSE
    BY <2>3 DEF Replay, docVars
  <2>4. ASSUME NEW o \in Ops, o # op, Commit(o) PROVE FALSE
    BY <2>4, CommitDecides
  <2>5. ASSUME Restored, op # job PROVE FALSE
    BY <2>5, RestoreDecides
  <2>6. mem'.ops # mem.ops
    OBVIOUS
  <2>7. (\E o \in Ops : Commit(o)) \/ Restored
    BY <2>1, <2>2, <2>3, <2>6, StepKinds
  <2>8. CASE Restored
    BY <2>5, <2>8
  <2>9. CASE \E o \in Ops : Commit(o)
    BY <2>4, <2>9
  <2>10. QED
    BY <2>7, <2>8, <2>9
<1>4. QED
  BY <1>1, <1>2, <1>3

(* A decision is served when it is made, for any nodes and faults. *)
THEOREM MServed == Spec => OutcomeIsServed
<1>1. MInv /\ FileBehind /\ [Next]_vars =>
        [\A op \in Ops :
           mem.ops[op].state \notin Final /\ mem'.ops[op].state \in Final =>
             IF mem'.ops[op].state = "rolled_back"
             THEN main' = mem.ops[op].old /\ up'
             ELSE astray \/ main \in {mem.ops[op].new, None}]_vars
  BY DecidedServes DEF Served
<1>2. QED
  BY <1>1, MInductive, FileInv, PTL DEF Spec, OutcomeIsServed
-----------------------------------------------------------------------------
LEMMA AnswersStay == ASSUME MInv, AnswersKept, Next PROVE AnswersKept'
<1> SUFFICES ASSUME NEW op \in Ops, told'[op] # "none", op \notin retracted'
             PROVE  mem'.ops[op].state = told'[op]
  BY DEF AnswersKept
<1>1. told \in [Ops -> {"none"} \union Final]
  BY DEF MInv, MTypeOK
<1>2. ASSUME op \notin retracted, told'[op] = told[op], ~Crash
      PROVE  mem'.ops[op].state = told'[op]
  <2>1. mem.ops[op].state = told[op] /\ told[op] \in Final
    BY <1>1, <1>2 DEF AnswersKept
  <2>2. QED
    BY <1>2, <2>1, FinalStays
<1>3. ASSUME NEW o \in Ops, NEW st \in Final, Tell(o, st), ~Crash,
             mem'.ops[o].state = st
      PROVE  mem'.ops[op].state = told'[op]
  BY <1>1, <1>2, <1>3 DEF Tell
<1>4. ASSUME UNCHANGED answerVars, ~Crash PROVE mem'.ops[op].state = told'[op]
  BY <1>2, <1>4 DEF answerVars
<1>5. CASE Crash
  <2>1. /\ told' = told /\ mem' = disk /\ op \notin retracted
        /\ mem.ops[op].state \notin Final \/ disk.ops[op] = mem.ops[op]
    BY <1>5 DEF Crash
  <2>2. mem.ops[op].state = told[op] /\ told[op] \in Final
    BY <1>1, <2>1 DEF AnswersKept
  <2>3. QED
    BY <2>1, <2>2
<1>6. ASSUME NEW o \in Ops, GoesOn(o), ~Crash PROVE mem'.ops[op].state = told'[op]
  BY <1>4, <1>6 DEF GoesOn
<1>7. ASSUME NEW o \in Ops, Commit(o), ~Crash PROVE mem'.ops[op].state = told'[op]
  BY <1>3, <1>4, <1>7, CommitDecides, StateNames
<1>8. ASSUME NEW o \in Ops, Replay(o), ~Crash PROVE mem'.ops[op].state = told'[op]
  <2>1. mem' = mem
    BY <1>8 DEF Replay, docVars
  <2>2. mem.ops[o].state \in Final /\ Tell(o, mem.ops[o].state)
    BY <1>8 DEF Replay
  <2>3. mem'.ops[o].state = mem.ops[o].state
    BY <2>1
  <2>4. QED
    BY <1>3, <1>8, <2>2, <2>3
<1>9. ASSUME Restored, ~Crash PROVE mem'.ops[op].state = told'[op]
  BY <1>3, <1>4, <1>9, RestoreDecides, StateNames
<1>10. QED
  BY <1>4, <1>5, <1>6, <1>7, <1>8, <1>9, StepKinds

(* What a client was told stays true, unless a restart undid an answer     *)
(* that was never written.                                                 *)
THEOREM MAnswers == Spec => []AnswersKept
<1>1. Init => AnswersKept
  BY DEF Init, AnswersKept
<1>2. MInv /\ AnswersKept /\ [Next]_vars => AnswersKept'
  <2>1. MInv /\ AnswersKept /\ Next => AnswersKept'
    BY AnswersStay
  <2>2. AnswersKept /\ UNCHANGED vars => AnswersKept'
    BY DEF AnswersKept, vars, docVars, answerVars
  <2>3. QED
    BY <2>1, <2>2
<1>3. QED
  BY <1>1, <1>2, MInductive, PTL DEF Spec
=============================================================================
