--------------------------- MODULE ProtocolProofs ---------------------------
(***************************************************************************)
(* The protocol transaction: theorems about the helper (ProtocolTxn) with  *)
(* a client that is asked only for what its environment states, and about  *)
(* the Gateway and its helper together (ProtocolSwitch), for every set of  *)
(* operations, modes and ranks.                                            *)
(***************************************************************************)
EXTENDS ProtocolSwitch, TLAPS

-----------------------------------------------------------------------------
(***************************************************************************)
(* PART ONE: THE HELPER                                                    *)
(***************************************************************************)

(***************************************************************************)
(* Ways a step may change a snapshot                                       *)
(***************************************************************************)

\* A new phase keeps the snapshots well formed when restoring needs no more than
\* before.
LEMMA PhaseChange ==
  ASSUME SnapOK, NEW op \in Ops, NEW p \in Phases,
         p \in RestorePhases => snap[op].phase \in RestorePhases,
         snap' = [snap EXCEPT ![op].phase = p]
  PROVE  SnapOK'
<1>1. snap' \in [Ops -> Snapshots]
  BY DEF SnapOK, Snapshots
<1>2. ASSUME NEW o \in Ops, snap'[o].phase \in RestorePhases
      PROVE  snap'[o].old \in Modes /\ snap'[o].new \in Modes
  <2>1. CASE o = op
    BY <1>2, <2>1 DEF SnapOK, Snapshots
  <2>2. CASE o # op
    BY <1>2, <2>2 DEF SnapOK, Snapshots
  <2> QED BY <2>1, <2>2
<1> QED BY <1>1, <1>2 DEF SnapOK

\* So does a whole new entry, if it names real modes when it can be restored.
LEMMA EntryChange ==
  ASSUME SnapOK, NEW op \in Ops, NEW entry \in Snapshots,
         entry.phase \in RestorePhases => entry.old \in Modes /\ entry.new \in Modes,
         snap' = [snap EXCEPT ![op] = entry]
  PROVE  SnapOK'
<1>1. snap' \in [Ops -> Snapshots]
  BY DEF SnapOK
<1>2. ASSUME NEW o \in Ops, snap'[o].phase \in RestorePhases
      PROVE  snap'[o].old \in Modes /\ snap'[o].new \in Modes
  BY <1>2 DEF SnapOK
<1> QED BY <1>1, <1>2 DEF SnapOK

\* A lease that is renewed or runs out changes nothing else.
LEMMA LeaseChange ==
  ASSUME SnapOK, NEW op \in Ops, NEW b \in BOOLEAN,
         snap' = [snap EXCEPT ![op].fresh = b]
  PROVE  SnapOK' /\ \A o \in Ops : snap'[o].phase = snap[o].phase
<1>1. snap' \in [Ops -> Snapshots]
  BY DEF SnapOK, Snapshots
<1>2. ASSUME NEW o \in Ops
      PROVE  /\ snap'[o].phase = snap[o].phase
             /\ snap'[o].old = snap[o].old
             /\ snap'[o].new = snap[o].new
  BY DEF SnapOK, Snapshots
<1> QED BY <1>1, <1>2 DEF SnapOK

\* A directory without snapshot.json, and a tombstone, remember no modes.
LEMMA BareEntry ==
  ASSUME NEW phase \in {"none", "dir", "finalized", "rolled_back"}
  PROVE  /\ Bare(phase) \in Snapshots
         /\ Bare(phase).phase = phase
         /\ phase \in Phases \ RestorePhases
  BY DEF Bare, Snap, Snapshots, Phases, RestorePhases, WorkingPhases, Tombstones

(***************************************************************************)
(* The invariant holds initially and every action keeps it                 *)
(***************************************************************************)

\* With no snapshot, file or process there is nothing to contradict.
LEMMA InitInv == Init => IInv
<1> SUFFICES ASSUME Init PROVE IInv
  OBVIOUS
<1> USE OpsAssumption, ModesAssumption, FaultAssumption DEF Init
<1>1. TypeOK
  <2>1. SnapOK
    BY DEF SnapOK, Snapshots, Bare, Snap, Phases, RestorePhases, WorkingPhases,
           Tombstones
  <2>2. asked \in [Ops -> [old : Modes \cup {None}, new : Modes \cup {None}]]
    BY DEF NotAsked
  <2>3. results \in [Ops -> [Acts -> Verdicts]]
    BY DEF Verdicts
  <2>4. faults \in 0..MaxFaults
    OBVIOUS
  <2>8. raced \in BOOLEAN
    BY Zenon
  <2>5. live \in Modes \cup {Absent} /\ row \in Modes
    OBVIOUS
  <2>6. leftover \in [Ops -> BOOLEAN] /\ requests = {} /\ batch = {}
    OBVIOUS
  <2>7. hpc = "idle" /\ job = NoJob /\ verdict \in Verdicts
    BY DEF Verdicts
  <2> HIDE DEF Init
  <2> QED BY <2>1, <2>2, <2>3, <2>4, <2>5, <2>6, <2>7, <2>8
       DEF TypeOK
<1>2. ControlInv /\ AskedInv /\ SweepInv /\ VerdictInv /\ ResultsTruthful
  BY DEF ControlInv, AskedInv, SweepInv, VerdictInv, ResultsTruthful, Acts,
         HandlerPcs, ApplyPcs, RollbackPcs, Recovering
<1> QED BY <1>1, <1>2 DEF IInv

\* process_spool_cycle starts: the process holds no file yet.
LEMMA WakeKeeps == IInv /\ Wake => IInv'
<1> SUFFICES ASSUME IInv, Wake PROVE IInv'
  OBVIOUS
<1> USE DEF IInv, Wake, diskVars, spoolVars
<1>1. SnapOK'
  BY DEF TypeOK, SnapOK, Snapshots, ControlInv, HandlerPcs, ApplyPcs,
         RollbackPcs, Phases, RestorePhases, WorkingPhases, Tombstones, Asked
<1>2. TypeOK'
  BY <1>1, FaultAssumption
     DEF TypeOK, SnapOK, Snapshots, ControlInv, Jobs, Acts, HandlerPcs, ApplyPcs, RollbackPcs,
         Verdicts, RestorePhases, WorkingPhases
<1>3. ControlInv' /\ AskedInv'
  BY DEF TypeOK, SnapOK, Snapshots, ControlInv, AskedInv, SweepInv, Asked, Jobs, Acts,
         HandlerPcs, ApplyPcs, RollbackPcs, Recovering, RestorePhases,
         WorkingPhases
<1>4. SweepInv'
  BY DEF TypeOK, SnapOK, Snapshots, ControlInv, SweepInv, Jobs, Acts, HandlerPcs, ApplyPcs,
         RollbackPcs, Recovering, RestorePhases, WorkingPhases
<1>5. VerdictInv' /\ ResultsTruthful'
  BY DEF TypeOK, SnapOK, Snapshots, ControlInv, VerdictInv, ResultsTruthful, Acts, HandlerPcs,
         ApplyPcs, RollbackPcs, RestorePhases, WorkingPhases
<1> QED BY <1>2, <1>3, <1>4, <1>5

\* The process reads one request of its batch, or drops one that is gone.
LEMMA TakeKeeps == IInv /\ Take => IInv'
<1> SUFFICES ASSUME IInv, Take PROVE IInv'
  OBVIOUS
<1> USE DEF IInv, Take, diskVars, spoolVars, First
<1>1. SnapOK'
  BY DEF TypeOK, SnapOK, Snapshots, ControlInv, HandlerPcs, ApplyPcs,
         RollbackPcs, Phases, RestorePhases, WorkingPhases, Tombstones, Asked
<1>2. TypeOK'
  BY <1>1 DEF TypeOK, ControlInv, SweepInv, Recovering, RollbackPcs, Jobs, Acts,
              HandlerPcs
<1>3. ControlInv' /\ AskedInv'
  BY DEF TypeOK, SnapOK, Snapshots, ControlInv, AskedInv, SweepInv, Asked, Jobs, Acts,
         HandlerPcs, ApplyPcs, RollbackPcs, Recovering, RestorePhases,
         WorkingPhases
<1>4. SweepInv'
  BY DEF TypeOK, SnapOK, Snapshots, ControlInv, SweepInv, Jobs, Acts, HandlerPcs, ApplyPcs,
         RollbackPcs, Recovering, RestorePhases, WorkingPhases
<1>5. VerdictInv' /\ ResultsTruthful'
  BY DEF TypeOK, SnapOK, Snapshots, ControlInv, VerdictInv, ResultsTruthful, Acts, HandlerPcs,
         ApplyPcs, RollbackPcs, RestorePhases, WorkingPhases
<1> QED BY <1>2, <1>3, <1>4, <1>5

\* recover_pending picks expired or unrestorable directories only.
LEMMA SweepKeeps == IInv /\ Sweep => IInv'
<1> SUFFICES ASSUME IInv, Sweep PROVE IInv'
  OBVIOUS
<1> USE DEF IInv, Sweep, diskVars, spoolVars, Expired
<1>1. SnapOK'
  BY DEF TypeOK, SnapOK, Snapshots, ControlInv, HandlerPcs, ApplyPcs,
         RollbackPcs, Phases, RestorePhases, WorkingPhases, Tombstones, Asked
<1>2. TypeOK'
  BY <1>1, FaultAssumption
     DEF TypeOK, SnapOK, Snapshots, ControlInv, Jobs, Acts, HandlerPcs, ApplyPcs, RollbackPcs,
         Verdicts, RestorePhases, WorkingPhases
<1>3. ControlInv' /\ AskedInv'
  BY DEF TypeOK, SnapOK, Snapshots, ControlInv, AskedInv, SweepInv, Asked, Jobs, Acts,
         HandlerPcs, ApplyPcs, RollbackPcs, Recovering, RestorePhases,
         WorkingPhases
<1>4. SweepInv'
  BY DEF TypeOK, SnapOK, Snapshots, ControlInv, SweepInv, Jobs, Acts, HandlerPcs, ApplyPcs,
         RollbackPcs, Recovering, RestorePhases, WorkingPhases
<1>5. VerdictInv' /\ ResultsTruthful'
  BY DEF TypeOK, SnapOK, Snapshots, ControlInv, VerdictInv, ResultsTruthful, Acts, HandlerPcs,
         ApplyPcs, RollbackPcs, RestorePhases, WorkingPhases
<1> QED BY <1>2, <1>3, <1>4, <1>5

\* A swept operation becomes a rollback in hand, or its directory goes.
LEMMA RecoverKeeps == IInv /\ Recover => IInv'
<1> SUFFICES ASSUME IInv, Recover PROVE IInv'
  OBVIOUS
<1> USE DEF IInv, Recover, diskVars, spoolVars, First
<1>1. SnapOK'
  BY DEF TypeOK, SnapOK, Snapshots, ControlInv, HandlerPcs, ApplyPcs,
         RollbackPcs, Phases, RestorePhases, WorkingPhases, Tombstones, Asked
<1>2. TypeOK'
  BY <1>1, FaultAssumption
     DEF TypeOK, SnapOK, Snapshots, ControlInv, Jobs, Acts, HandlerPcs, ApplyPcs, RollbackPcs,
         Verdicts, RestorePhases, WorkingPhases
<1>3. ControlInv' /\ AskedInv'
  BY DEF TypeOK, SnapOK, Snapshots, ControlInv, AskedInv, SweepInv, Asked, Jobs, Acts,
         HandlerPcs, ApplyPcs, RollbackPcs, Recovering, RestorePhases,
         WorkingPhases
<1>4. SweepInv'
  BY DEF TypeOK, SnapOK, Snapshots, ControlInv, SweepInv, Jobs, Acts, HandlerPcs, ApplyPcs,
         RollbackPcs, Recovering, RestorePhases, WorkingPhases
<1>5. VerdictInv' /\ ResultsTruthful'
  BY DEF TypeOK, SnapOK, Snapshots, ControlInv, VerdictInv, ResultsTruthful, Acts, HandlerPcs,
         ApplyPcs, RollbackPcs, RestorePhases, WorkingPhases
<1> QED BY <1>2, <1>3, <1>4, <1>5

\* The process ends with nothing in hand.
LEMMA ExitKeeps == IInv /\ Exit => IInv'
<1> SUFFICES ASSUME IInv, Exit PROVE IInv'
  OBVIOUS
<1> USE DEF IInv, Exit, diskVars, spoolVars, NoJob
<1>1. SnapOK'
  BY DEF TypeOK, SnapOK, Snapshots, ControlInv, HandlerPcs, ApplyPcs,
         RollbackPcs, Phases, RestorePhases, WorkingPhases, Tombstones, Asked
<1>2. TypeOK'
  BY <1>1, FaultAssumption
     DEF TypeOK, SnapOK, Snapshots, ControlInv, Jobs, Acts, HandlerPcs, ApplyPcs, RollbackPcs,
         Verdicts, RestorePhases, WorkingPhases
<1>3. ControlInv' /\ AskedInv'
  BY DEF TypeOK, SnapOK, Snapshots, ControlInv, AskedInv, SweepInv, Asked, Jobs, Acts,
         HandlerPcs, ApplyPcs, RollbackPcs, Recovering, RestorePhases,
         WorkingPhases
<1>4. SweepInv'
  BY DEF TypeOK, SnapOK, Snapshots, ControlInv, SweepInv, Jobs, Acts, HandlerPcs, ApplyPcs,
         RollbackPcs, Recovering, RestorePhases, WorkingPhases
<1>5. VerdictInv' /\ ResultsTruthful'
  BY DEF TypeOK, SnapOK, Snapshots, ControlInv, VerdictInv, ResultsTruthful, Acts, HandlerPcs,
         ApplyPcs, RollbackPcs, RestorePhases, WorkingPhases
<1> QED BY <1>2, <1>3, <1>4, <1>5

\* A result file says what the verdict in hand says.
LEMMA PublishResultKeeps == IInv /\ PublishResult => IInv'
<1> SUFFICES ASSUME IInv, PublishResult PROVE IInv'
  OBVIOUS
<1> USE DEF IInv, PublishResult, At, diskVars
<1>1. SnapOK'
  BY DEF TypeOK, SnapOK, Snapshots, ControlInv, HandlerPcs, ApplyPcs,
         RollbackPcs, Phases, RestorePhases, WorkingPhases, Tombstones, Asked
<1>2. TypeOK'
  BY <1>1, FaultAssumption
     DEF TypeOK, SnapOK, Snapshots, ControlInv, Jobs, Acts, HandlerPcs, ApplyPcs, RollbackPcs,
         Verdicts, RestorePhases, WorkingPhases
<1>3. ControlInv' /\ AskedInv'
  BY DEF TypeOK, SnapOK, Snapshots, ControlInv, AskedInv, SweepInv, Asked, Jobs, Acts,
         HandlerPcs, ApplyPcs, RollbackPcs, Recovering, RestorePhases,
         WorkingPhases
<1>4. SweepInv'
  BY DEF TypeOK, SnapOK, Snapshots, ControlInv, SweepInv, Jobs, Acts, HandlerPcs, ApplyPcs,
         RollbackPcs, Recovering, RestorePhases, WorkingPhases
<1>5. VerdictInv' /\ ResultsTruthful'
  BY DEF TypeOK, SnapOK, Snapshots, ControlInv, VerdictInv, ResultsTruthful, Acts, HandlerPcs,
         ApplyPcs, RollbackPcs, RestorePhases, WorkingPhases
<1> QED BY <1>2, <1>3, <1>4, <1>5

\* The request file goes after its result.
LEMMA UnlinkKeeps == IInv /\ Unlink => IInv'
<1> SUFFICES ASSUME IInv, Unlink PROVE IInv'
  OBVIOUS
<1> USE DEF IInv, Unlink, At, diskVars, NoJob
<1>1. SnapOK'
  BY DEF TypeOK, SnapOK, Snapshots, ControlInv, HandlerPcs, ApplyPcs,
         RollbackPcs, Phases, RestorePhases, WorkingPhases, Tombstones, Asked
<1>2. TypeOK'
  BY <1>1, FaultAssumption
     DEF TypeOK, SnapOK, Snapshots, ControlInv, Jobs, Acts, HandlerPcs, ApplyPcs, RollbackPcs,
         Verdicts, RestorePhases, WorkingPhases
<1>3. ControlInv' /\ AskedInv'
  BY DEF TypeOK, SnapOK, Snapshots, ControlInv, AskedInv, SweepInv, Asked, Jobs, Acts,
         HandlerPcs, ApplyPcs, RollbackPcs, Recovering, RestorePhases,
         WorkingPhases
<1>4. SweepInv'
  BY DEF TypeOK, SnapOK, Snapshots, ControlInv, SweepInv, Jobs, Acts, HandlerPcs, ApplyPcs,
         RollbackPcs, Recovering, RestorePhases, WorkingPhases
<1>5. VerdictInv' /\ ResultsTruthful'
  BY DEF TypeOK, SnapOK, Snapshots, ControlInv, VerdictInv, ResultsTruthful, Acts, HandlerPcs,
         ApplyPcs, RollbackPcs, RestorePhases, WorkingPhases
<1> QED BY <1>2, <1>3, <1>4, <1>5

\* The checks of the first apply change no snapshot.
LEMMA ApplyAdmitKeeps == IInv /\ ApplyAdmit => IInv'
<1> SUFFICES ASSUME IInv, ApplyAdmit PROVE IInv'
  OBVIOUS
<1> USE DEF IInv, ApplyAdmit, At, Say, Goto, HasSnapshot, Bare, Snap, spoolVars
<1>1. SnapOK'
  BY EntryChange, BareEntry DEF TypeOK, SnapOK
<1>2. TypeOK'
  BY <1>1, FaultAssumption
     DEF TypeOK, SnapOK, Snapshots, ControlInv, Jobs, Acts, HandlerPcs, ApplyPcs, RollbackPcs,
         Verdicts, RestorePhases, WorkingPhases
<1>3. ControlInv' /\ AskedInv'
  BY DEF TypeOK, SnapOK, Snapshots, ControlInv, AskedInv, SweepInv, Asked, Jobs, Acts,
         HandlerPcs, ApplyPcs, RollbackPcs, Recovering, RestorePhases,
         WorkingPhases
<1>4. SweepInv'
  BY DEF TypeOK, SnapOK, Snapshots, ControlInv, SweepInv, Jobs, Acts, HandlerPcs, ApplyPcs,
         RollbackPcs, Recovering, RestorePhases, WorkingPhases
<1>5. VerdictInv' /\ ResultsTruthful'
  BY DEF TypeOK, SnapOK, Snapshots, ControlInv, VerdictInv, ResultsTruthful, Acts, HandlerPcs,
         ApplyPcs, RollbackPcs, RestorePhases, WorkingPhases
<1> QED BY <1>2, <1>3, <1>4, <1>5

\* The snapshot written names the modes of the row and of the request.
LEMMA ApplySnapshotKeeps == IInv /\ ApplySnapshot => IInv'
<1> SUFFICES ASSUME IInv, ApplySnapshot PROVE IInv'
  OBVIOUS
<1> USE DEF IInv, ApplySnapshot, At, Say, Goto, Snap, Fault, spoolVars
<1>1. SnapOK'
  <2>1. CASE snap' = snap
    BY <2>1 DEF TypeOK, SnapOK
  <2>2. CASE snap' # snap
    <3> DEFINE entry == Snap("snapshot", row, asked[job.op].new, TRUE)
    <3>1. entry \in Snapshots /\ entry.old \in Modes /\ entry.new \in Modes
      BY DEF TypeOK, ControlInv, Asked, Snap, Snapshots, Phases, RestorePhases,
             WorkingPhases
    <3>2. snap' = [snap EXCEPT ![job.op] = entry]
      BY <2>2
    <3> HIDE DEF entry
    <3> QED BY <3>1, <3>2, EntryChange DEF TypeOK
  <2> QED BY <2>1, <2>2
<1>2. TypeOK'
  BY <1>1, FaultAssumption
     DEF TypeOK, SnapOK, Snapshots, ControlInv, Jobs, Acts, HandlerPcs, ApplyPcs, RollbackPcs,
         Verdicts, RestorePhases, WorkingPhases
<1>3. ControlInv' /\ AskedInv'
  BY DEF TypeOK, SnapOK, Snapshots, ControlInv, AskedInv, SweepInv, Asked, Jobs, Acts,
         HandlerPcs, ApplyPcs, RollbackPcs, Recovering, RestorePhases,
         WorkingPhases
<1>4. SweepInv'
  BY DEF TypeOK, SnapOK, Snapshots, ControlInv, SweepInv, Jobs, Acts, HandlerPcs, ApplyPcs,
         RollbackPcs, Recovering, RestorePhases, WorkingPhases
<1>5. VerdictInv' /\ ResultsTruthful'
  BY DEF TypeOK, SnapOK, Snapshots, ControlInv, VerdictInv, ResultsTruthful, Acts, HandlerPcs,
         ApplyPcs, RollbackPcs, RestorePhases, WorkingPhases
<1> QED BY <1>2, <1>3, <1>4, <1>5

\* xray test only moves the snapshot on in its phases.
LEMMA ApplyOfflineTestKeeps == IInv /\ ApplyOfflineTest => IInv'
<1> SUFFICES ASSUME IInv, ApplyOfflineTest PROVE IInv'
  OBVIOUS
<1> USE DEF IInv, ApplyOfflineTest, At, Goto, Phase, ApplyFails, Fault, spoolVars
<1>1. SnapOK'
  <2>1. job.op \in Ops /\ snap[job.op].phase \in RestorePhases
    BY DEF ControlInv, HandlerPcs, ApplyPcs, RestorePhases
  <2>2. CASE UNCHANGED snap
    BY <2>2 DEF TypeOK, SnapOK
  <2>3. CASE snap' = [snap EXCEPT ![job.op].phase = "runtime_remove_pending"]
    BY <2>1, <2>3, PhaseChange DEF TypeOK, Phases, RestorePhases, WorkingPhases
  <2> QED BY <2>2, <2>3
<1>2. TypeOK'
  BY <1>1, FaultAssumption
     DEF TypeOK, SnapOK, Snapshots, ControlInv, Jobs, Acts, HandlerPcs, ApplyPcs, RollbackPcs,
         Verdicts, RestorePhases, WorkingPhases
<1>3. ControlInv' /\ AskedInv'
  BY DEF TypeOK, SnapOK, Snapshots, ControlInv, AskedInv, SweepInv, Asked, Jobs, Acts,
         HandlerPcs, ApplyPcs, RollbackPcs, Recovering, RestorePhases,
         WorkingPhases
<1>4. SweepInv'
  BY DEF TypeOK, SnapOK, Snapshots, ControlInv, SweepInv, Jobs, Acts, HandlerPcs, ApplyPcs,
         RollbackPcs, Recovering, RestorePhases, WorkingPhases
<1>5. VerdictInv' /\ ResultsTruthful'
  BY DEF TypeOK, SnapOK, Snapshots, ControlInv, VerdictInv, ResultsTruthful, Acts, HandlerPcs,
         ApplyPcs, RollbackPcs, RestorePhases, WorkingPhases
<1> QED BY <1>2, <1>3, <1>4, <1>5

\* rmi changes the runtime, the snapshot keeps both modes.
LEMMA ApplyRemoveKeeps == IInv /\ ApplyRemove => IInv'
<1> SUFFICES ASSUME IInv, ApplyRemove PROVE IInv'
  OBVIOUS
<1> USE DEF IInv, ApplyRemove, At, Goto, Phase, ApplyFails, Fault, spoolVars
<1>1. SnapOK'
  <2>1. job.op \in Ops /\ snap[job.op].phase \in RestorePhases
    BY DEF ControlInv, HandlerPcs, ApplyPcs, RestorePhases
  <2>2. CASE UNCHANGED snap
    BY <2>2 DEF TypeOK, SnapOK
  <2>3. CASE snap' = [snap EXCEPT ![job.op].phase = "runtime_add_pending"]
    BY <2>1, <2>3, PhaseChange DEF TypeOK, Phases, RestorePhases, WorkingPhases
  <2> QED BY <2>2, <2>3
<1>2. TypeOK'
  BY <1>1, FaultAssumption
     DEF TypeOK, SnapOK, Snapshots, ControlInv, Jobs, Acts, HandlerPcs, ApplyPcs, RollbackPcs,
         Verdicts, RestorePhases, WorkingPhases
<1>3. ControlInv' /\ AskedInv'
  BY DEF TypeOK, SnapOK, Snapshots, ControlInv, AskedInv, SweepInv, Asked, Jobs, Acts,
         HandlerPcs, ApplyPcs, RollbackPcs, Recovering, RestorePhases,
         WorkingPhases
<1>4. SweepInv'
  BY DEF TypeOK, SnapOK, Snapshots, ControlInv, SweepInv, Jobs, Acts, HandlerPcs, ApplyPcs,
         RollbackPcs, Recovering, RestorePhases, WorkingPhases
<1>5. VerdictInv' /\ ResultsTruthful'
  BY DEF TypeOK, SnapOK, Snapshots, ControlInv, VerdictInv, ResultsTruthful, Acts, HandlerPcs,
         ApplyPcs, RollbackPcs, RestorePhases, WorkingPhases
<1> QED BY <1>2, <1>3, <1>4, <1>5

\* adi changes the runtime, the snapshot keeps both modes.
LEMMA ApplyAddKeeps == IInv /\ ApplyAdd => IInv'
<1> SUFFICES ASSUME IInv, ApplyAdd PROVE IInv'
  OBVIOUS
<1> USE DEF IInv, ApplyAdd, At, Goto, Phase, ApplyFails, Fault, spoolVars
<1>1. SnapOK'
  <2>1. job.op \in Ops /\ snap[job.op].phase \in RestorePhases
    BY DEF ControlInv, HandlerPcs, ApplyPcs, RestorePhases
  <2>2. CASE UNCHANGED snap
    BY <2>2 DEF TypeOK, SnapOK
  <2>3. CASE snap' = [snap EXCEPT ![job.op].phase = "database_pending"]
    BY <2>1, <2>3, PhaseChange DEF TypeOK, Phases, RestorePhases, WorkingPhases
  <2> QED BY <2>2, <2>3
<1>2. TypeOK'
  BY <1>1, FaultAssumption
     DEF TypeOK, SnapOK, Snapshots, ControlInv, Jobs, Acts, HandlerPcs, ApplyPcs, RollbackPcs,
         Verdicts, RestorePhases, WorkingPhases
<1>3. ControlInv' /\ AskedInv'
  BY DEF TypeOK, SnapOK, Snapshots, ControlInv, AskedInv, SweepInv, Asked, Jobs, Acts,
         HandlerPcs, ApplyPcs, RollbackPcs, Recovering, RestorePhases,
         WorkingPhases
<1>4. SweepInv'
  BY DEF TypeOK, SnapOK, Snapshots, ControlInv, SweepInv, Jobs, Acts, HandlerPcs, ApplyPcs,
         RollbackPcs, Recovering, RestorePhases, WorkingPhases
<1>5. VerdictInv' /\ ResultsTruthful'
  BY DEF TypeOK, SnapOK, Snapshots, ControlInv, VerdictInv, ResultsTruthful, Acts, HandlerPcs,
         ApplyPcs, RollbackPcs, RestorePhases, WorkingPhases
<1> QED BY <1>2, <1>3, <1>4, <1>5

\* The row is written, the snapshot keeps both modes.
LEMMA ApplyPersistKeeps == IInv /\ ApplyPersist => IInv'
<1> SUFFICES ASSUME IInv, ApplyPersist PROVE IInv'
  OBVIOUS
<1> USE DEF IInv, ApplyPersist, At, Goto, Phase, ApplyFails, Fault, spoolVars
<1>1. SnapOK'
  <2>1. job.op \in Ops /\ snap[job.op].phase \in RestorePhases
    BY DEF ControlInv, HandlerPcs, ApplyPcs, RestorePhases
  <2>2. CASE UNCHANGED snap
    BY <2>2 DEF TypeOK, SnapOK
  <2>3. CASE snap' = [snap EXCEPT ![job.op].phase = "database_committed"]
    BY <2>1, <2>3, PhaseChange DEF TypeOK, Phases, RestorePhases, WorkingPhases
  <2> QED BY <2>2, <2>3
<1>2. TypeOK'
  BY <1>1, FaultAssumption
     DEF TypeOK, SnapOK, Snapshots, ControlInv, Jobs, Acts, HandlerPcs, ApplyPcs, RollbackPcs,
         Verdicts, RestorePhases, WorkingPhases
<1>3. ControlInv' /\ AskedInv'
  BY DEF TypeOK, SnapOK, Snapshots, ControlInv, AskedInv, SweepInv, Asked, Jobs, Acts,
         HandlerPcs, ApplyPcs, RollbackPcs, Recovering, RestorePhases,
         WorkingPhases
<1>4. SweepInv'
  BY DEF TypeOK, SnapOK, Snapshots, ControlInv, SweepInv, Jobs, Acts, HandlerPcs, ApplyPcs,
         RollbackPcs, Recovering, RestorePhases, WorkingPhases
<1>5. VerdictInv' /\ ResultsTruthful'
  BY DEF TypeOK, SnapOK, Snapshots, ControlInv, VerdictInv, ResultsTruthful, Acts, HandlerPcs,
         ApplyPcs, RollbackPcs, RestorePhases, WorkingPhases
<1> QED BY <1>2, <1>3, <1>4, <1>5

\* The applied snapshot keeps its modes for a rollback.
LEMMA ApplyVerifyKeeps == IInv /\ ApplyVerify => IInv'
<1> SUFFICES ASSUME IInv, ApplyVerify PROVE IInv'
  OBVIOUS
<1> USE DEF IInv, ApplyVerify, At, Goto, Say, Phase, ApplyFails, Fault, spoolVars
<1>1. SnapOK'
  <2>1. job.op \in Ops /\ snap[job.op].phase \in RestorePhases
    BY DEF ControlInv, HandlerPcs, ApplyPcs, RestorePhases
  <2>2. CASE UNCHANGED snap
    BY <2>2 DEF TypeOK, SnapOK
  <2>3. CASE snap' = [snap EXCEPT ![job.op].phase = "applied"]
    BY <2>1, <2>3, PhaseChange DEF TypeOK, Phases, RestorePhases, WorkingPhases
  <2> QED BY <2>2, <2>3
<1>2. TypeOK'
  BY <1>1, FaultAssumption
     DEF TypeOK, SnapOK, Snapshots, ControlInv, Jobs, Acts, HandlerPcs, ApplyPcs, RollbackPcs,
         Verdicts, RestorePhases, WorkingPhases
<1>3. ControlInv' /\ AskedInv'
  BY DEF TypeOK, SnapOK, Snapshots, ControlInv, AskedInv, SweepInv, Asked, Jobs, Acts,
         HandlerPcs, ApplyPcs, RollbackPcs, Recovering, RestorePhases,
         WorkingPhases
<1>4. SweepInv'
  BY DEF TypeOK, SnapOK, Snapshots, ControlInv, SweepInv, Jobs, Acts, HandlerPcs, ApplyPcs,
         RollbackPcs, Recovering, RestorePhases, WorkingPhases
<1>5. VerdictInv' /\ ResultsTruthful'
  BY DEF TypeOK, SnapOK, Snapshots, ControlInv, VerdictInv, ResultsTruthful, Acts, HandlerPcs,
         ApplyPcs, RollbackPcs, RestorePhases, WorkingPhases
<1> QED BY <1>2, <1>3, <1>4, <1>5

\* A rollback begins from a snapshot that can be restored.
LEMMA RollbackSnapshotKeeps == IInv /\ RollbackSnapshot => IInv'
<1> SUFFICES ASSUME IInv, RollbackSnapshot PROVE IInv'
  OBVIOUS
<1> USE DEF IInv, RollbackSnapshot, At, Goto, RollbackFails, spoolVars
<1>1. SnapOK'
  BY DEF TypeOK, SnapOK, Snapshots, ControlInv, HandlerPcs, ApplyPcs,
         RollbackPcs, Phases, RestorePhases, WorkingPhases, Tombstones, Asked
<1>2. TypeOK'
  BY <1>1, FaultAssumption
     DEF TypeOK, SnapOK, Snapshots, ControlInv, Jobs, Acts, HandlerPcs, ApplyPcs, RollbackPcs,
         Verdicts, RestorePhases, WorkingPhases
<1>3. ControlInv' /\ AskedInv'
  BY DEF TypeOK, SnapOK, Snapshots, ControlInv, AskedInv, SweepInv, Asked, Jobs, Acts,
         HandlerPcs, ApplyPcs, RollbackPcs, Recovering, RestorePhases,
         WorkingPhases
<1>4. SweepInv'
  BY DEF TypeOK, SnapOK, Snapshots, ControlInv, SweepInv, Jobs, Acts, HandlerPcs, ApplyPcs,
         RollbackPcs, Recovering, RestorePhases, WorkingPhases
<1>5. VerdictInv' /\ ResultsTruthful'
  BY DEF TypeOK, SnapOK, Snapshots, ControlInv, VerdictInv, ResultsTruthful, Acts, HandlerPcs,
         ApplyPcs, RollbackPcs, RestorePhases, WorkingPhases
<1> QED BY <1>2, <1>3, <1>4, <1>5

\* rmi on the way back.
LEMMA RollbackRemoveKeeps == IInv /\ RollbackRemove => IInv'
<1> SUFFICES ASSUME IInv, RollbackRemove PROVE IInv'
  OBVIOUS
<1> USE DEF IInv, RollbackRemove, At, Goto, RollbackFails, DropTemporary, Fault,
            spoolVars
<1>1. SnapOK'
  BY DEF TypeOK, SnapOK, Snapshots, ControlInv, HandlerPcs, ApplyPcs,
         RollbackPcs, Phases, RestorePhases, WorkingPhases, Tombstones, Asked
<1>2. TypeOK'
  <2>1. live' \in Modes \cup {Absent} /\ row' \in Modes
    BY DEF TypeOK
  <2>2. leftover' \in [Ops -> BOOLEAN]
    BY DEF TypeOK
  <2>3. faults' \in 0..MaxFaults
    BY FaultAssumption DEF TypeOK
  <2>4. hpc' \in {"idle", "spool", "sweep"} \cup HandlerPcs
    BY DEF TypeOK, HandlerPcs, RollbackPcs
  <2> QED BY <1>1, <2>1, <2>2, <2>3, <2>4 DEF TypeOK, Verdicts
<1>3. ControlInv' /\ AskedInv'
  BY DEF TypeOK, SnapOK, Snapshots, ControlInv, AskedInv, SweepInv, Asked, Jobs, Acts,
         HandlerPcs, ApplyPcs, RollbackPcs, Recovering, RestorePhases,
         WorkingPhases
<1>4. SweepInv'
  BY DEF TypeOK, SnapOK, Snapshots, ControlInv, SweepInv, Jobs, Acts, HandlerPcs, ApplyPcs,
         RollbackPcs, Recovering, RestorePhases, WorkingPhases
<1>5. VerdictInv' /\ ResultsTruthful'
  BY DEF TypeOK, SnapOK, Snapshots, ControlInv, VerdictInv, ResultsTruthful, Acts, HandlerPcs,
         ApplyPcs, RollbackPcs, RestorePhases, WorkingPhases
<1> QED BY <1>2, <1>3, <1>4, <1>5

\* adi on the way back.
LEMMA RollbackAddKeeps == IInv /\ RollbackAdd => IInv'
<1> SUFFICES ASSUME IInv, RollbackAdd PROVE IInv'
  OBVIOUS
<1> USE DEF IInv, RollbackAdd, At, Goto, RollbackFails, DropTemporary, Fault,
            spoolVars
<1>1. SnapOK'
  BY DEF TypeOK, SnapOK, Snapshots, ControlInv, HandlerPcs, ApplyPcs,
         RollbackPcs, Phases, RestorePhases, WorkingPhases, Tombstones, Asked
<1>2. TypeOK'
  BY <1>1, FaultAssumption
     DEF TypeOK, SnapOK, Snapshots, ControlInv, Jobs, Acts, HandlerPcs, ApplyPcs, RollbackPcs,
         Verdicts, RestorePhases, WorkingPhases
<1>3. ControlInv' /\ AskedInv'
  BY DEF TypeOK, SnapOK, Snapshots, ControlInv, AskedInv, SweepInv, Asked, Jobs, Acts,
         HandlerPcs, ApplyPcs, RollbackPcs, Recovering, RestorePhases,
         WorkingPhases
<1>4. SweepInv'
  BY DEF TypeOK, SnapOK, Snapshots, ControlInv, SweepInv, Jobs, Acts, HandlerPcs, ApplyPcs,
         RollbackPcs, Recovering, RestorePhases, WorkingPhases
<1>5. VerdictInv' /\ ResultsTruthful'
  BY DEF TypeOK, SnapOK, Snapshots, ControlInv, VerdictInv, ResultsTruthful, Acts, HandlerPcs,
         ApplyPcs, RollbackPcs, RestorePhases, WorkingPhases
<1> QED BY <1>2, <1>3, <1>4, <1>5

\* The row and the client fields go back.
LEMMA RollbackRestoreKeeps == IInv /\ RollbackRestore => IInv'
<1> SUFFICES ASSUME IInv, RollbackRestore PROVE IInv'
  OBVIOUS
<1> USE DEF IInv, RollbackRestore, At, Goto, RollbackFails, Fault, spoolVars
<1>1. SnapOK'
  BY DEF TypeOK, SnapOK, Snapshots, ControlInv, HandlerPcs, ApplyPcs,
         RollbackPcs, Phases, RestorePhases, WorkingPhases, Tombstones, Asked
<1>2. TypeOK'
  <2>1. row' \in Modes
    BY DEF TypeOK, SnapOK, Snapshots, ControlInv, RollbackPcs, HandlerPcs,
           ApplyPcs, Jobs, RestorePhases, WorkingPhases
  <2>2. faults' \in 0..MaxFaults
    BY FaultAssumption DEF TypeOK
  <2>3. hpc' \in {"idle", "spool", "sweep"} \cup HandlerPcs
    BY DEF TypeOK, HandlerPcs, RollbackPcs
  <2> QED BY <1>1, <2>1, <2>2, <2>3 DEF TypeOK
<1>3. ControlInv' /\ AskedInv'
  BY DEF TypeOK, SnapOK, Snapshots, ControlInv, AskedInv, SweepInv, Asked, Jobs, Acts,
         HandlerPcs, ApplyPcs, RollbackPcs, Recovering, RestorePhases,
         WorkingPhases
<1>4. SweepInv'
  BY DEF TypeOK, SnapOK, Snapshots, ControlInv, SweepInv, Jobs, Acts, HandlerPcs, ApplyPcs,
         RollbackPcs, Recovering, RestorePhases, WorkingPhases
<1>5. VerdictInv' /\ ResultsTruthful'
  BY DEF TypeOK, SnapOK, Snapshots, ControlInv, VerdictInv, ResultsTruthful, Acts, HandlerPcs,
         ApplyPcs, RollbackPcs, RestorePhases, WorkingPhases
<1> QED BY <1>2, <1>3, <1>4, <1>5

\* The tombstone is written and the verdict follows it.
LEMMA RollbackVerifyKeeps == IInv /\ RollbackVerify => IInv'
<1> SUFFICES ASSUME IInv, RollbackVerify PROVE IInv'
  OBVIOUS
<1> USE DEF IInv, RollbackVerify, At, Goto, Say, RollbackFails, DropTemporary,
            Fault, Bare, Snap, spoolVars
<1>1. SnapOK'
  BY EntryChange, BareEntry DEF TypeOK, SnapOK
<1>2. TypeOK'
  <2>1. live' \in Modes \cup {Absent} /\ row' \in Modes
    BY DEF TypeOK
  <2>2. leftover' \in [Ops -> BOOLEAN]
    BY DEF TypeOK
  <2>3. faults' \in 0..MaxFaults
    BY FaultAssumption DEF TypeOK
  <2>4. hpc' \in {"idle", "spool", "sweep"} \cup HandlerPcs
    BY DEF TypeOK, HandlerPcs, RollbackPcs
  <2> QED BY <1>1, <2>1, <2>2, <2>3, <2>4 DEF TypeOK, Verdicts
<1>3. ControlInv' /\ AskedInv'
  BY DEF TypeOK, SnapOK, Snapshots, ControlInv, AskedInv, SweepInv, Asked, Jobs, Acts,
         HandlerPcs, ApplyPcs, RollbackPcs, Recovering, RestorePhases,
         WorkingPhases
<1>4. SweepInv'
  BY DEF TypeOK, SnapOK, Snapshots, ControlInv, SweepInv, Jobs, Acts, HandlerPcs, ApplyPcs,
         RollbackPcs, Recovering, RestorePhases, WorkingPhases
<1>5. VerdictInv'
  BY DEF TypeOK, SnapOK, Snapshots, ControlInv, VerdictInv, HandlerPcs,
         RollbackPcs, RestorePhases, WorkingPhases
<1>6. ResultsTruthful'
  <2>1. snap[job.op].phase \in RestorePhases
    BY DEF ControlInv, RollbackPcs
  <2>2. \A op \in Ops : op # job.op => snap'[op] = snap[op]
    BY DEF TypeOK, SnapOK
  <2> QED
    BY <2>1, <2>2 DEF ResultsTruthful, RestorePhases, WorkingPhases
<1> QED BY <1>2, <1>3, <1>4, <1>5, <1>6

\* A rollback that fails leaves the snapshot to the next sweep.
LEMMA RollbackFailedKeeps == IInv /\ RollbackFailed => IInv'
<1> SUFFICES ASSUME IInv, RollbackFailed PROVE IInv'
  OBVIOUS
<1> USE DEF IInv, RollbackFailed, At, Goto, Say, Phase, spoolVars
<1>1. SnapOK'
  BY PhaseChange DEF TypeOK, SnapOK, ControlInv, HandlerPcs, RollbackPcs, Phases,
                     RestorePhases
<1>2. TypeOK'
  BY <1>1, FaultAssumption
     DEF TypeOK, SnapOK, Snapshots, ControlInv, Jobs, Acts, HandlerPcs, ApplyPcs, RollbackPcs,
         Verdicts, RestorePhases, WorkingPhases
<1>3. ControlInv' /\ AskedInv'
  BY DEF TypeOK, SnapOK, Snapshots, ControlInv, AskedInv, SweepInv, Asked, Jobs, Acts,
         HandlerPcs, ApplyPcs, RollbackPcs, Recovering, RestorePhases,
         WorkingPhases
<1>4. SweepInv'
  BY DEF TypeOK, SnapOK, Snapshots, ControlInv, SweepInv, Jobs, Acts, HandlerPcs, ApplyPcs,
         RollbackPcs, Recovering, RestorePhases, WorkingPhases
<1>5. VerdictInv' /\ ResultsTruthful'
  BY DEF TypeOK, SnapOK, Snapshots, ControlInv, VerdictInv, ResultsTruthful, Acts, HandlerPcs,
         ApplyPcs, RollbackPcs, RestorePhases, WorkingPhases
<1> QED BY <1>2, <1>3, <1>4, <1>5

\* The finalized tombstone is written and the verdict follows it.
LEMMA FinalizeKeeps == IInv /\ Finalize => IInv'
<1> SUFFICES ASSUME IInv, Finalize PROVE IInv'
  OBVIOUS
<1> USE DEF IInv, Finalize, At, Say, Bare, Snap, spoolVars
<1>1. SnapOK'
  BY EntryChange, BareEntry DEF TypeOK, SnapOK
<1>2. TypeOK'
  BY <1>1, FaultAssumption
     DEF TypeOK, SnapOK, Snapshots, ControlInv, Jobs, Acts, HandlerPcs, ApplyPcs, RollbackPcs,
         Verdicts, RestorePhases, WorkingPhases
<1>3. ControlInv' /\ AskedInv'
  BY DEF TypeOK, SnapOK, Snapshots, ControlInv, AskedInv, SweepInv, Asked, Jobs, Acts,
         HandlerPcs, ApplyPcs, RollbackPcs, Recovering, RestorePhases,
         WorkingPhases
<1>4. SweepInv'
  BY DEF TypeOK, SnapOK, Snapshots, ControlInv, SweepInv, Jobs, Acts, HandlerPcs, ApplyPcs,
         RollbackPcs, Recovering, RestorePhases, WorkingPhases
<1>5. VerdictInv' /\ ResultsTruthful'
  <2>1. /\ snap'[job.op].phase = "finalized" \/ snap' = snap
        /\ \A op \in Ops \ {job.op} : snap'[op] = snap[op]
        /\ snap[job.op].phase = "finalized" => snap'[job.op].phase = "finalized"
        /\ snap[job.op].phase # "rolled_back" \/ snap' = snap
    BY DEF TypeOK, SnapOK
  <2>2. VerdictInv'
    BY <2>1 DEF TypeOK, SnapOK, ControlInv, VerdictInv
  <2>3. ResultsTruthful'
    BY <2>1 DEF TypeOK, ResultsTruthful
  <2> QED BY <2>2, <2>3
<1> QED BY <1>2, <1>3, <1>4, <1>5

\* Only the lease of an applied snapshot moves.
LEMMA RenewKeeps == IInv /\ Renew => IInv'
<1> SUFFICES ASSUME IInv, Renew PROVE IInv'
  OBVIOUS
<1> USE DEF IInv, Renew, At, Say, spoolVars
<1>1. SnapOK'
  BY LeaseChange DEF TypeOK, SnapOK
<1>2. TypeOK'
  BY <1>1, FaultAssumption
     DEF TypeOK, SnapOK, Snapshots, ControlInv, Jobs, Acts, HandlerPcs, ApplyPcs, RollbackPcs,
         Verdicts, RestorePhases, WorkingPhases
<1>3. ControlInv' /\ AskedInv'
  BY DEF TypeOK, SnapOK, Snapshots, ControlInv, AskedInv, SweepInv, Asked, Jobs, Acts,
         HandlerPcs, ApplyPcs, RollbackPcs, Recovering, RestorePhases,
         WorkingPhases
<1>4. SweepInv'
  BY DEF TypeOK, SnapOK, Snapshots, ControlInv, SweepInv, Jobs, Acts, HandlerPcs, ApplyPcs,
         RollbackPcs, Recovering, RestorePhases, WorkingPhases
<1>5. VerdictInv' /\ ResultsTruthful'
  BY DEF TypeOK, SnapOK, Snapshots, ControlInv, VerdictInv, ResultsTruthful, Acts, HandlerPcs,
         ApplyPcs, RollbackPcs, RestorePhases, WorkingPhases
<1> QED BY <1>2, <1>3, <1>4, <1>5

\* A rollback on request is admitted or answered by the tombstone.
LEMMA RollbackKeeps == IInv /\ Rollback => IInv'
<1> SUFFICES ASSUME IInv, Rollback PROVE IInv'
  OBVIOUS
<1> USE DEF IInv, Rollback, At, Say, Goto, diskVars, spoolVars
<1>1. SnapOK'
  BY DEF TypeOK, SnapOK, Snapshots, ControlInv, HandlerPcs, ApplyPcs,
         RollbackPcs, Phases, RestorePhases, WorkingPhases, Tombstones, Asked
<1>2. TypeOK'
  BY <1>1, FaultAssumption
     DEF TypeOK, SnapOK, Snapshots, ControlInv, Jobs, Acts, HandlerPcs, ApplyPcs, RollbackPcs,
         Verdicts, RestorePhases, WorkingPhases
<1>3. ControlInv' /\ AskedInv'
  BY DEF TypeOK, SnapOK, Snapshots, ControlInv, AskedInv, SweepInv, Asked, Jobs, Acts,
         HandlerPcs, ApplyPcs, RollbackPcs, Recovering, RestorePhases,
         WorkingPhases
<1>4. SweepInv'
  BY DEF TypeOK, SnapOK, Snapshots, ControlInv, SweepInv, Jobs, Acts, HandlerPcs, ApplyPcs,
         RollbackPcs, Recovering, RestorePhases, WorkingPhases
<1>5. VerdictInv' /\ ResultsTruthful'
  BY DEF TypeOK, SnapOK, Snapshots, ControlInv, VerdictInv, ResultsTruthful, Acts, HandlerPcs,
         ApplyPcs, RollbackPcs, RestorePhases, WorkingPhases
<1> QED BY <1>2, <1>3, <1>4, <1>5

\* A crash drops what the process held, and nothing on disk.
LEMMA HelperCrashKeeps == IInv /\ HelperCrash => IInv'
<1> SUFFICES ASSUME IInv, HelperCrash PROVE IInv'
  OBVIOUS
<1> USE DEF IInv, HelperCrash, Fault, NoJob, diskVars, spoolVars
<1>1. SnapOK'
  BY DEF TypeOK, SnapOK, Snapshots, ControlInv, HandlerPcs, ApplyPcs,
         RollbackPcs, Phases, RestorePhases, WorkingPhases, Tombstones, Asked
<1>2. TypeOK'
  BY <1>1, FaultAssumption
     DEF TypeOK, SnapOK, Snapshots, ControlInv, Jobs, Acts, HandlerPcs, ApplyPcs, RollbackPcs,
         Verdicts, RestorePhases, WorkingPhases
<1>3. ControlInv' /\ AskedInv'
  BY DEF TypeOK, SnapOK, Snapshots, ControlInv, AskedInv, SweepInv, Asked, Jobs, Acts,
         HandlerPcs, ApplyPcs, RollbackPcs, Recovering, RestorePhases,
         WorkingPhases
<1>4. SweepInv'
  BY DEF TypeOK, SnapOK, Snapshots, ControlInv, SweepInv, Jobs, Acts, HandlerPcs, ApplyPcs,
         RollbackPcs, Recovering, RestorePhases, WorkingPhases
<1>5. VerdictInv' /\ ResultsTruthful'
  BY DEF TypeOK, SnapOK, Snapshots, ControlInv, VerdictInv, ResultsTruthful, Acts, HandlerPcs,
         ApplyPcs, RollbackPcs, RestorePhases, WorkingPhases
<1> QED BY <1>2, <1>3, <1>4, <1>5

\* 3x-ui reloads the runtime from the row.
LEMMA XuiRestartKeeps == IInv /\ XuiRestart => IInv'
<1> SUFFICES ASSUME IInv, XuiRestart PROVE IInv'
  OBVIOUS
<1> USE DEF IInv, XuiRestart, Fault, spoolVars, procVars
<1>1. SnapOK'
  BY DEF TypeOK, SnapOK, Snapshots, ControlInv, HandlerPcs, ApplyPcs,
         RollbackPcs, Phases, RestorePhases, WorkingPhases, Tombstones, Asked
<1>2. TypeOK'
  BY <1>1, FaultAssumption
     DEF TypeOK, SnapOK, Snapshots, ControlInv, Jobs, Acts, HandlerPcs, ApplyPcs, RollbackPcs,
         Verdicts, RestorePhases, WorkingPhases
<1>3. ControlInv' /\ AskedInv'
  BY DEF TypeOK, SnapOK, Snapshots, ControlInv, AskedInv, SweepInv, Asked, Jobs, Acts,
         HandlerPcs, ApplyPcs, RollbackPcs, Recovering, RestorePhases,
         WorkingPhases
<1>4. SweepInv'
  BY DEF TypeOK, SnapOK, Snapshots, ControlInv, SweepInv, Jobs, Acts, HandlerPcs, ApplyPcs,
         RollbackPcs, Recovering, RestorePhases, WorkingPhases
<1>5. VerdictInv' /\ ResultsTruthful'
  BY DEF TypeOK, SnapOK, Snapshots, ControlInv, VerdictInv, ResultsTruthful, Acts, HandlerPcs,
         ApplyPcs, RollbackPcs, RestorePhases, WorkingPhases
<1> QED BY <1>2, <1>3, <1>4, <1>5

\* The client asks to finalize an operation it applied.
LEMMA SubmitFinalizeKeeps == \A op \in Ops : IInv /\ SubmitFinalize(op) => IInv'
<1> SUFFICES ASSUME IInv, NEW op \in Ops, SubmitFinalize(op) PROVE IInv'
  OBVIOUS
<1> USE DEF IInv, SubmitFinalize, Publish, diskVars, procVars
<1>1. SnapOK'
  BY DEF TypeOK, SnapOK, Snapshots, ControlInv, HandlerPcs, ApplyPcs,
         RollbackPcs, Phases, RestorePhases, WorkingPhases, Tombstones, Asked
<1>2. TypeOK'
  BY <1>1, FaultAssumption
     DEF TypeOK, SnapOK, Snapshots, ControlInv, Jobs, Acts, HandlerPcs, ApplyPcs, RollbackPcs,
         Verdicts, RestorePhases, WorkingPhases
<1>3. ControlInv' /\ AskedInv'
  BY DEF TypeOK, SnapOK, Snapshots, ControlInv, AskedInv, SweepInv, Asked, Jobs, Acts,
         HandlerPcs, ApplyPcs, RollbackPcs, Recovering, RestorePhases,
         WorkingPhases
<1>4. SweepInv'
  BY DEF TypeOK, SnapOK, Snapshots, ControlInv, SweepInv, Jobs, Acts, HandlerPcs, ApplyPcs,
         RollbackPcs, Recovering, RestorePhases, WorkingPhases
<1>5. VerdictInv' /\ ResultsTruthful'
  BY DEF TypeOK, SnapOK, Snapshots, ControlInv, VerdictInv, ResultsTruthful, Acts, HandlerPcs,
         ApplyPcs, RollbackPcs, RestorePhases, WorkingPhases
<1> QED BY <1>2, <1>3, <1>4, <1>5

\* The client asks to renew an operation it applied.
LEMMA SubmitRenewKeeps == \A op \in Ops : IInv /\ SubmitRenew(op) => IInv'
<1> SUFFICES ASSUME IInv, NEW op \in Ops, SubmitRenew(op) PROVE IInv'
  OBVIOUS
<1> USE DEF IInv, SubmitRenew, Publish, diskVars, procVars
<1>1. SnapOK'
  BY DEF TypeOK, SnapOK, Snapshots, ControlInv, HandlerPcs, ApplyPcs,
         RollbackPcs, Phases, RestorePhases, WorkingPhases, Tombstones, Asked
<1>2. TypeOK'
  BY <1>1, FaultAssumption
     DEF TypeOK, SnapOK, Snapshots, ControlInv, Jobs, Acts, HandlerPcs, ApplyPcs, RollbackPcs,
         Verdicts, RestorePhases, WorkingPhases
<1>3. ControlInv' /\ AskedInv'
  BY DEF TypeOK, SnapOK, Snapshots, ControlInv, AskedInv, SweepInv, Asked, Jobs, Acts,
         HandlerPcs, ApplyPcs, RollbackPcs, Recovering, RestorePhases,
         WorkingPhases
<1>4. SweepInv'
  BY DEF TypeOK, SnapOK, Snapshots, ControlInv, SweepInv, Jobs, Acts, HandlerPcs, ApplyPcs,
         RollbackPcs, Recovering, RestorePhases, WorkingPhases
<1>5. VerdictInv' /\ ResultsTruthful'
  BY DEF TypeOK, SnapOK, Snapshots, ControlInv, VerdictInv, ResultsTruthful, Acts, HandlerPcs,
         ApplyPcs, RollbackPcs, RestorePhases, WorkingPhases
<1> QED BY <1>2, <1>3, <1>4, <1>5

\* The client asks to roll an operation back.
LEMMA SubmitRollbackKeeps == \A op \in Ops : IInv /\ SubmitRollback(op) => IInv'
<1> SUFFICES ASSUME IInv, NEW op \in Ops, SubmitRollback(op) PROVE IInv'
  OBVIOUS
<1> USE DEF IInv, SubmitRollback, Publish, diskVars, procVars
<1>1. SnapOK'
  BY DEF TypeOK, SnapOK, Snapshots, ControlInv, HandlerPcs, ApplyPcs,
         RollbackPcs, Phases, RestorePhases, WorkingPhases, Tombstones, Asked
<1>2. TypeOK'
  BY <1>1, FaultAssumption
     DEF TypeOK, SnapOK, Snapshots, ControlInv, Jobs, Acts, HandlerPcs, ApplyPcs, RollbackPcs,
         Verdicts, RestorePhases, WorkingPhases
<1>3. ControlInv' /\ AskedInv'
  BY DEF TypeOK, SnapOK, Snapshots, ControlInv, AskedInv, SweepInv, Asked, Jobs, Acts,
         HandlerPcs, ApplyPcs, RollbackPcs, Recovering, RestorePhases,
         WorkingPhases
<1>4. SweepInv'
  BY DEF TypeOK, SnapOK, Snapshots, ControlInv, SweepInv, Jobs, Acts, HandlerPcs, ApplyPcs,
         RollbackPcs, Recovering, RestorePhases, WorkingPhases
<1>5. VerdictInv' /\ ResultsTruthful'
  BY DEF TypeOK, SnapOK, Snapshots, ControlInv, VerdictInv, ResultsTruthful, Acts, HandlerPcs,
         ApplyPcs, RollbackPcs, RestorePhases, WorkingPhases
<1> QED BY <1>2, <1>3, <1>4, <1>5

\* A lease runs out.
LEMMA LeaseExpiresKeeps == \A op \in Ops : IInv /\ LeaseExpires(op) => IInv'
<1> SUFFICES ASSUME IInv, NEW op \in Ops, LeaseExpires(op) PROVE IInv'
  OBVIOUS
<1> USE DEF IInv, LeaseExpires, spoolVars, procVars
<1>1. SnapOK'
  BY LeaseChange DEF TypeOK, SnapOK
<1>2. TypeOK'
  BY <1>1, FaultAssumption
     DEF TypeOK, SnapOK, Snapshots, ControlInv, Jobs, Acts, HandlerPcs, ApplyPcs, RollbackPcs,
         Verdicts, RestorePhases, WorkingPhases
<1>3. ControlInv' /\ AskedInv'
  BY DEF TypeOK, SnapOK, Snapshots, ControlInv, AskedInv, SweepInv, Asked, Jobs, Acts,
         HandlerPcs, ApplyPcs, RollbackPcs, Recovering, RestorePhases,
         WorkingPhases
<1>4. SweepInv'
  BY DEF TypeOK, SnapOK, Snapshots, ControlInv, SweepInv, Jobs, Acts, HandlerPcs, ApplyPcs,
         RollbackPcs, Recovering, RestorePhases, WorkingPhases
<1>5. VerdictInv' /\ ResultsTruthful'
  BY DEF TypeOK, SnapOK, Snapshots, ControlInv, VerdictInv, ResultsTruthful, Acts, HandlerPcs,
         ApplyPcs, RollbackPcs, RestorePhases, WorkingPhases
<1> QED BY <1>2, <1>3, <1>4, <1>5

\* The client asks for a new operation.
LEMMA SubmitApplyKeeps == \A op \in Ops, old, new \in Modes :
                          IInv /\ SubmitApply(op, old, new) => IInv'
<1> SUFFICES ASSUME IInv, NEW op \in Ops, NEW old \in Modes, NEW new \in Modes,
                         SubmitApply(op, old, new) PROVE IInv'
  OBVIOUS
<1> USE DEF IInv, SubmitApply, Publish, NotAsked, diskVars, procVars
<1>1. SnapOK'
  BY DEF TypeOK, SnapOK, Snapshots, ControlInv, HandlerPcs, ApplyPcs,
         RollbackPcs, Phases, RestorePhases, WorkingPhases, Tombstones, Asked
<1>2. TypeOK'
  BY <1>1, FaultAssumption
     DEF TypeOK, SnapOK, Snapshots, ControlInv, Jobs, Acts, HandlerPcs, ApplyPcs, RollbackPcs,
         Verdicts, RestorePhases, WorkingPhases
<1>3. ControlInv' /\ AskedInv'
  BY DEF TypeOK, SnapOK, Snapshots, ControlInv, AskedInv, SweepInv, Asked, Jobs, Acts,
         HandlerPcs, ApplyPcs, RollbackPcs, Recovering, RestorePhases,
         WorkingPhases
<1>4. SweepInv'
  BY DEF TypeOK, SnapOK, Snapshots, ControlInv, SweepInv, Jobs, Acts, HandlerPcs, ApplyPcs,
         RollbackPcs, Recovering, RestorePhases, WorkingPhases
<1>5. VerdictInv' /\ ResultsTruthful'
  BY DEF TypeOK, SnapOK, Snapshots, ControlInv, VerdictInv, ResultsTruthful, Acts, HandlerPcs,
         ApplyPcs, RollbackPcs, RestorePhases, WorkingPhases
<1> QED BY <1>2, <1>3, <1>4, <1>5

(***************************************************************************)
(* The theorems                                                            *)
(***************************************************************************)

\* Hence no step leaves the invariant.
LEMMA NextKeeps == IInv /\ [Next]_vars => IInv'
<1> SUFFICES ASSUME IInv, [Next]_vars PROVE IInv'
  OBVIOUS
<1>1. CASE UNCHANGED vars
  BY <1>1 DEF vars, diskVars, spoolVars, procVars, IInv, TypeOK, SnapOK, ControlInv,
              AskedInv, SweepInv, VerdictInv, ResultsTruthful, Asked, Recovering
<1>2. CASE HelperStep
  <2>1. CASE CycleSteps
    BY <2>1, WakeKeeps, TakeKeeps, SweepKeeps, RecoverKeeps, ExitKeeps,
       PublishResultKeeps, UnlinkKeeps DEF CycleSteps
  <2>2. CASE ApplySteps
    BY <2>2, ApplyAdmitKeeps, ApplySnapshotKeeps, ApplyOfflineTestKeeps,
       ApplyRemoveKeeps, ApplyAddKeeps, ApplyPersistKeeps, ApplyVerifyKeeps
       DEF ApplySteps
  <2>3. CASE RollbackSteps
    BY <2>3, RollbackSnapshotKeeps, RollbackRemoveKeeps, RollbackAddKeeps,
       RollbackRestoreKeeps, RollbackVerifyKeeps, RollbackFailedKeeps
       DEF RollbackSteps
  <2>4. CASE Finalize \/ Renew \/ Rollback
    BY <2>4, FinalizeKeeps, RenewKeeps, RollbackKeeps
  <2> QED BY <1>2, <2>1, <2>2, <2>3, <2>4 DEF HelperStep
<1>3. CASE Environment
  BY <1>3, HelperCrashKeeps, XuiRestartKeeps, LeaseExpiresKeeps DEF Environment
<1>4. CASE Client
  BY <1>4, SubmitApplyKeeps, SubmitFinalizeKeeps, SubmitRenewKeeps,
     SubmitRollbackKeeps DEF Client
<1> QED BY <1>1, <1>2, <1>3, <1>4 DEF Next

\* The invariant holds of the specification.
THEOREM Inductive == Spec => []IInv
<1>1. Init => IInv
  BY InitInv
<1>2. IInv /\ [Next]_vars => IInv'
  BY NextKeeps
<1> QED BY <1>1, <1>2, PTL DEF Spec

\* Every variable of the helper, the spool and the snapshots keeps its shape,
\* and a snapshot that can be restored names real modes.
THEOREM TypeCorrect == Spec => []TypeOK
<1>1. IInv => TypeOK
  BY DEF IInv
<1> QED BY <1>1, Inductive, PTL

\* A "finalized" or "rolled_back" published to the Gateway stays backed by the
\* tombstone on disk, for any number of operations, crashes and faults.
THEOREM Truthful == Spec => []ResultsTruthful
<1>1. IInv => ResultsTruthful
  BY DEF IInv
<1> QED BY <1>1, Inductive, PTL

(***************************************************************************)
(* ProtocolTxn implements SwitchDecision                                   *)
(***************************************************************************)

\* A step that neither makes nor touches a tombstone, and publishes no outcome,
\* is invisible in SwitchDecision.
LEMMA Invisible ==
  ASSUME \A op \in Ops : snap'[op].phase = snap[op].phase
                         \/ {snap[op].phase, snap'[op].phase} \cap Tombstones = {},
         \A op \in Ops : /\ results'[op]["finalize"] = results[op]["finalize"]
                         /\ results'[op]["rollback"] = results[op]["rollback"]
  PROVE  UNCHANGED <<Decision, Told>>
<1>1. Decision' = Decision
  BY DEF Decision, Tombstones
<1>2. Told' = Told
  BY DEF Told
<1> QED BY <1>1, <1>2

Outcome == [Abstract!Next]_(Abstract!vars)

\* A step whose only change to the outcomes is a tombstone put where none was
\* decides that operation.
LEMMA Deciding ==
  ASSUME IInv, NEW op \in Ops, NEW d \in Tombstones,
         snap[op].phase \notin Tombstones,
         snap' = [snap EXCEPT ![op] = Bare(d)], results' = results
  PROVE  Abstract!Next
<1>1. snap' \in [Ops -> Snapshots] /\ snap \in [Ops -> Snapshots]
  BY BareEntry DEF IInv, TypeOK, SnapOK, Tombstones
<1>2. Bare(d).phase = d
  BY BareEntry DEF Tombstones
<1>3. Decision[op] = "open" /\ Told' = Told
  BY DEF Decision, Told
<1>4. Decision' = [Decision EXCEPT ![op] = d]
  BY <1>1, <1>2 DEF Decision, IInv, TypeOK, SnapOK
<1> QED BY <1>3, <1>4 DEF Abstract!Next, Abstract!Decide, Abstract!Outcomes, Tombstones

\* Publishing a result tells what the tombstone says, or nothing new.
LEMMA Telling == IInv /\ PublishResult => Outcome
<1> SUFFICES ASSUME IInv, PublishResult PROVE Outcome
  OBVIOUS
<1> DEFINE op == job.op
<1>1. /\ op \in Ops /\ hpc = "publish" /\ snap' = snap
      /\ results' = [results EXCEPT ![op][job.act] = verdict]
      /\ results \in [Ops -> [Acts -> Verdicts]]
  BY DEF PublishResult, At, diskVars, IInv, TypeOK
<1>2. Decision' = Decision
  BY <1>1 DEF Decision
<1>3. CASE job.act = "finalize" /\ verdict = "finalized"
  <2>1. Decision[op] = "finalized"
    BY <1>1, <1>3 DEF IInv, VerdictInv, Decision, Tombstones
  <2>2. Told' = [Told EXCEPT ![op] = "finalized"]
    BY <1>1, <1>3 DEF Told, Acts
  <2> QED BY <1>1, <1>2, <2>1, <2>2 DEF Outcome, Abstract!Next, Abstract!Tell
<1>4. CASE job.act = "rollback" /\ verdict = "rolled_back"
  <2>1. snap[op].phase = "rolled_back"
    BY <1>1, <1>4 DEF IInv, VerdictInv
  <2>2. results[op]["finalize"] # "finalized"
    BY <1>1, <2>1 DEF IInv, ResultsTruthful
  <2>3. Told' = [Told EXCEPT ![op] = "rolled_back"]
    BY <1>1, <1>4, <2>2 DEF Told, Acts
  <2>4. Decision[op] = "rolled_back"
    BY <1>1, <2>1 DEF Decision, Tombstones
  <2> QED BY <1>1, <1>2, <2>3, <2>4 DEF Outcome, Abstract!Next, Abstract!Tell
<1>5. CASE /\ ~(job.act = "finalize" /\ verdict = "finalized")
           /\ ~(job.act = "rollback" /\ verdict = "rolled_back")
  <2>1. job.act = "finalize" => results[op]["finalize"] # "finalized"
    BY <1>1, <1>5 DEF IInv, VerdictInv, ResultsTruthful
  <2>2. job.act = "rollback" => results[op]["rollback"] # "rolled_back"
    BY <1>1, <1>5 DEF IInv, VerdictInv, ResultsTruthful
  <2>3. Told' = Told
    BY <1>1, <1>5, <2>1, <2>2 DEF Told, Acts
  <2> QED BY <1>2, <2>3 DEF Outcome, Abstract!vars
<1> QED BY <1>3, <1>4, <1>5

\* Steps that change neither a snapshot nor a result.
LEMMA Elsewhere ==
  Wake \/ Take \/ Sweep \/ Recover \/ Exit \/ Unlink \/ RollbackSnapshot
  \/ RollbackRemove \/ RollbackAdd \/ RollbackRestore \/ Rollback \/ HelperCrash
  \/ XuiRestart \/ (\E op \in Ops : SubmitFinalize(op) \/ SubmitRollback(op)
                     \/ \E old, new \in Modes : SubmitApply(op, old, new))
  => UNCHANGED <<snap, results>>
BY DEF Wake, Take, Sweep, Recover, Exit, Unlink, RollbackSnapshot, RollbackRemove,
       RollbackAdd, RollbackRestore, Rollback, HelperCrash, XuiRestart,
       SubmitFinalize, SubmitRollback, SubmitApply, diskVars, spoolVars

\* Steps that move a snapshot among the undecided phases.
LEMMA Undecided ==
  ASSUME IInv,
         ApplyAdmit \/ ApplySnapshot \/ ApplyOfflineTest \/ ApplyRemove
         \/ ApplyAdd \/ ApplyPersist \/ ApplyVerify \/ RollbackFailed \/ Renew
         \/ \E op \in Ops : LeaseExpires(op)
  PROVE  /\ results' = results
         /\ \A op \in Ops : snap'[op].phase = snap[op].phase
                   \/ {snap[op].phase, snap'[op].phase} \cap Tombstones = {}
<1> USE DEF IInv, TypeOK, SnapOK, Snapshots, spoolVars, Tombstones
<1>1. CASE ApplyAdmit
  BY <1>1 DEF ApplyAdmit, HasSnapshot, Bare, Snap
<1>2. CASE ApplySnapshot
  BY <1>2 DEF ApplySnapshot, At, Snap, ControlInv
<1>3. CASE ApplyOfflineTest \/ ApplyRemove \/ ApplyAdd \/ ApplyPersist \/ ApplyVerify
  <2>1. snap[job.op].phase \in WorkingPhases
    BY <1>3 DEF ApplyOfflineTest, ApplyRemove, ApplyAdd, ApplyPersist, ApplyVerify,
                At, ControlInv, ApplyPcs
  <2>2. \/ snap' = snap
        \/ \E p \in WorkingPhases : snap' = [snap EXCEPT ![job.op].phase = p]
    BY <1>3 DEF ApplyOfflineTest, ApplyRemove, ApplyAdd, ApplyPersist, ApplyVerify,
                ApplyFails, Phase, WorkingPhases
  <2>3. results' = results
    BY <1>3 DEF ApplyOfflineTest, ApplyRemove, ApplyAdd, ApplyPersist, ApplyVerify
  <2> QED BY <2>1, <2>2, <2>3 DEF WorkingPhases
<1>4. CASE RollbackFailed
  BY <1>4 DEF RollbackFailed, At, Phase, ControlInv, RollbackPcs, RestorePhases,
              WorkingPhases
<1>5. CASE Renew
  BY <1>5, LeaseChange DEF Renew, At
<1>6. CASE \E op \in Ops : LeaseExpires(op)
  BY <1>6, LeaseChange DEF LeaseExpires
<1> QED BY <1>1, <1>2, <1>3, <1>4, <1>5, <1>6

\* Finalize decides the operation in hand, and no other.
LEMMA FinalizeDecides == IInv /\ Finalize => Outcome
<1> SUFFICES ASSUME IInv, Finalize PROVE Outcome
  OBVIOUS
<1>1. job.op \in Ops /\ results' = results
  BY DEF Finalize, At, spoolVars
<1>2. CASE snap[job.op].phase = "applied"
  <2>1. snap' = [snap EXCEPT ![job.op] = Bare("finalized")]
    BY <1>2 DEF Finalize
  <2> QED BY <1>1, <1>2, <2>1, Deciding DEF Outcome, Tombstones
<1>3. CASE snap[job.op].phase # "applied"
  <2>1. \A op \in Ops : snap'[op].phase = snap[op].phase
    BY <1>1, <1>3, BareEntry DEF Finalize, IInv, TypeOK, SnapOK
  <2> QED BY <1>1, <2>1, Invisible DEF Outcome, Abstract!vars
<1> QED BY <1>2, <1>3

\* So does the end of a rollback.
LEMMA RollbackDecides == IInv /\ RollbackVerify => Outcome
<1> SUFFICES ASSUME IInv, RollbackVerify PROVE Outcome
  OBVIOUS
<1>1. /\ job.op \in Ops /\ results' = results
      /\ snap[job.op].phase \in RestorePhases
  BY DEF RollbackVerify, At, spoolVars, IInv, ControlInv, RollbackPcs, HandlerPcs
<1>2. snap[job.op].phase \notin Tombstones
  BY <1>1 DEF Tombstones, RestorePhases, WorkingPhases
<1>3. CASE snap' = [snap EXCEPT ![job.op] = Bare("rolled_back")]
  BY <1>1, <1>2, <1>3, Deciding DEF Outcome, Tombstones
<1>4. CASE snap' = [snap EXCEPT ![job.op] = Bare("none")]
  <2>1. \A op \in Ops : snap'[op].phase = snap[op].phase
               \/ {snap[op].phase, snap'[op].phase} \cap Tombstones = {}
    BY <1>1, <1>2, <1>4, BareEntry DEF IInv, TypeOK, SnapOK, Tombstones
  <2> QED BY <1>1, <2>1, Invisible DEF Outcome, Abstract!vars
<1>5. CASE snap' = snap
  BY <1>1, <1>5, Invisible DEF Outcome, Abstract!vars
<1> QED BY <1>3, <1>4, <1>5 DEF RollbackVerify

\* Every step is a step of SwitchDecision or is invisible there.
LEMMA StepImplements == IInv /\ [Next]_vars => Outcome
<1> SUFFICES ASSUME IInv, [Next]_vars PROVE Outcome
  OBVIOUS
<1>1. CASE UNCHANGED <<snap, results>>
  BY <1>1, Invisible DEF Outcome, Abstract!vars
<1>2. CASE \E op \in Ops : SubmitRenew(op)
  <2>1. PICK op \in Ops : SubmitRenew(op)
    BY <1>2
  <2>2. snap' = snap /\ results' = [results EXCEPT ![op]["renew"] = "none"]
    BY <2>1 DEF SubmitRenew, diskVars
  <2>3. results \in [Ops -> [Acts -> Verdicts]]
    BY DEF IInv, TypeOK
  <2>4. \A o \in Ops : /\ results'[o]["finalize"] = results[o]["finalize"]
                       /\ results'[o]["rollback"] = results[o]["rollback"]
    BY <2>2, <2>3 DEF Acts
  <2> QED BY <2>2, <2>4, Invisible DEF Outcome, Abstract!vars
<1>3. CASE ApplySteps \/ RollbackFailed \/ Renew \/ \E op \in Ops : LeaseExpires(op)
  BY <1>3, Undecided, Invisible DEF ApplySteps, Outcome, Abstract!vars
<1>4. CASE Finalize \/ RollbackVerify \/ PublishResult
  BY <1>4, FinalizeDecides, RollbackDecides, Telling
<1> QED
  BY <1>1, <1>2, <1>3, <1>4, Elsewhere
     DEF Next, HelperStep, CycleSteps, RollbackSteps, Environment, Client, vars,
         diskVars, spoolVars

\* The helper decides each operation once and tells the Gateway what it decided:
\* ProtocolTxn implements SwitchDecision.
THEOREM Implements == Spec => DecidedOnce
<1>1. Init => Abstract!Init
  BY DEF Init, Abstract!Init, Decision, Told, Bare, Snap, Tombstones, Acts
<1>2. IInv /\ [Next]_vars => [Abstract!Next]_(Abstract!vars)
  BY StepImplements DEF Outcome
<1> QED BY <1>1, <1>2, Inductive, PTL DEF Spec, DecidedOnce, Abstract!Spec

(***************************************************************************)
(* operation_not_applied is final: an operation the helper has answered so *)
(* is never applied afterwards.  The invariant is FInv, beside IInv.       *)
(***************************************************************************)

\* A request is its operation and its action.
LEMMA JobIs == ASSUME NEW r \in Jobs PROVE r = Req(r.op, r.act)
BY DEF Jobs, Req

LEMMA ReqIs ==
  ASSUME NEW op \in Ops, NEW act
  PROVE  Req(op, act).op = op /\ Req(op, act).act = act
BY DEF Req

(***************************************************************************)
(* Steps of a handler                                                      *)
(***************************************************************************)

\* What a handler leaves alone: the spool, the listing and its job; it makes no
\* snapshot that could be restored, and publishes what it has found.
Inside ==
  /\ UNCHANGED <<requests, results, batch, job>>
  /\ hpc \in HandlerPcs
  /\ hpc' \in HandlerPcs \/ (hpc' = "sweep" /\ job.act = "recover")
  /\ \A op \in Ops : snap'[op].phase \in RestorePhases => snap[op].phase \in RestorePhases
  /\ hpc' = "publish" /\ job.act = "rollback" /\ verdict' = "not_applied"
       => snap'[job.op].phase \notin RestorePhases

LEMMA InsideKeeps == ASSUME IInv, FInv, Inside PROVE FInv'
<1>1. InSpool'
  BY DEF FInv, InSpool, Inside, HandlerPcs, ApplyPcs, RollbackPcs
<1>2. ApplyFirst'
  <2>1. ASSUME NEW op \in Ops, Busy(Req(op, "rollback"))' PROVE Busy(Req(op, "rollback"))
    BY <2>1 DEF Busy, Inside
  <2>2. ASSUME NEW op \in Ops, Busy(Req(op, "apply")) PROVE Busy(Req(op, "apply"))'
    BY <2>2, ReqIs DEF Busy, Inside
  <2> QED
    BY <2>1, <2>2 DEF FInv, ApplyFirst, Inside
<1>3. NothingApplied' /\ NotAppliedIsFinal'
  BY DEF FInv, Inside, NothingApplied, NotAppliedIsFinal
<1> QED
  BY <1>1, <1>2, <1>3 DEF FInv

\* The phases after a step that writes one snapshot, or none.
LEMMA OnePhase ==
  ASSUME IInv, At(hpc), NEW p, snap' = [snap EXCEPT ![job.op].phase = p]
  PROVE  /\ \A op \in Ops : op # job.op => snap'[op].phase = snap[op].phase
         /\ snap'[job.op].phase = p
BY DEF IInv, TypeOK, SnapOK, Snapshots, At

LEMMA OneEntry ==
  ASSUME IInv, At(hpc), NEW e, snap' = [snap EXCEPT ![job.op] = e]
  PROVE  /\ \A op \in Ops : op # job.op => snap'[op] = snap[op]
         /\ snap'[job.op] = e
BY DEF IInv, TypeOK, SnapOK, Snapshots, At

LEMMA ApplyInside ==
  ASSUME IInv,
         \/ ApplyAdmit \/ ApplyOfflineTest \/ ApplyRemove \/ ApplyAdd
         \/ ApplyPersist \/ ApplyVerify
  PROVE  Inside
<1> USE DEF HandlerPcs, ApplyPcs, RollbackPcs, RestorePhases, WorkingPhases
<1>1. CASE ApplyAdmit
  <2>1. /\ UNCHANGED <<requests, results, batch, job>> /\ At("apply") /\ At(hpc)
        /\ hpc' \in {"publish", "apply_snapshot"}
        /\ snap' = snap \/ snap' = [snap EXCEPT ![job.op] = Bare("dir")]
    BY <1>1 DEF ApplyAdmit, At, Goto, Say, spoolVars
  <2>2. job.act = "apply"
    BY <2>1 DEF IInv, ControlInv, At
  <2>3. \A op \in Ops : snap'[op].phase \in RestorePhases => snap[op].phase \in RestorePhases
    BY <2>1, OneEntry, BareEntry
  <2> QED
    BY <2>1, <2>2, <2>3 DEF Inside, At
<1>2. ASSUME ApplyOfflineTest \/ ApplyRemove \/ ApplyAdd \/ ApplyPersist \/ ApplyVerify
      PROVE  Inside
  <2>1. /\ UNCHANGED <<requests, results, batch, job>> /\ hpc \in ApplyPcs /\ At(hpc)
        /\ hpc' \in ApplyPcs \union {"publish", "rollback_snapshot"}
        /\ \/ snap' = snap
           \/ \E p \in WorkingPhases : snap' = [snap EXCEPT ![job.op].phase = p]
    BY <1>2
    DEF ApplyOfflineTest, ApplyRemove, ApplyAdd, ApplyPersist, ApplyVerify, ApplyFails, At,
        Goto, Say, Phase, spoolVars
  <2>2. job.act = "apply" /\ snap[job.op].phase \in RestorePhases
    BY <2>1 DEF IInv, ControlInv
  <2>3. \A op \in Ops : snap'[op].phase \in RestorePhases => snap[op].phase \in RestorePhases
    BY <2>1, <2>2, OnePhase
  <2> QED
    BY <2>1, <2>2, <2>3 DEF Inside
<1> QED
  BY <1>1, <1>2

LEMMA RollbackInside ==
  ASSUME IInv, RollbackSteps PROVE Inside
<1> USE DEF HandlerPcs, ApplyPcs, RollbackPcs, RestorePhases, WorkingPhases
<1>1. /\ UNCHANGED <<requests, results, batch, job>> /\ hpc \in RollbackPcs /\ At(hpc)
      /\ hpc' \in RollbackPcs \union {"publish"} \/ (hpc' = "sweep" /\ job.act = "recover")
      /\ hpc' = "publish" => verdict' \in {"rolled_back", "failed"}
      /\ \/ snap' = snap
         \/ snap' = [snap EXCEPT ![job.op].phase = "repair_required"]
         \/ \E p \in {"none", "rolled_back"} : snap' = [snap EXCEPT ![job.op] = Bare(p)]
  BY DEF RollbackSteps, RollbackSnapshot, RollbackRemove, RollbackAdd, RollbackRestore,
         RollbackVerify, RollbackFailed, RollbackFails, DropTemporary, At, Goto, Say, Phase,
         spoolVars
<1>2. snap[job.op].phase \in RestorePhases
  BY <1>1 DEF IInv, ControlInv
<1>3. \A op \in Ops : snap'[op].phase \in RestorePhases => snap[op].phase \in RestorePhases
  BY <1>1, <1>2, OnePhase, OneEntry
<1> QED
  BY <1>1, <1>3 DEF Inside

LEMMA EndInside ==
  ASSUME IInv, Finalize \/ Renew \/ Rollback PROVE Inside
<1> USE DEF HandlerPcs, ApplyPcs, RollbackPcs
<1>1. CASE Finalize
  <2>1. /\ UNCHANGED <<requests, results, batch, job>> /\ hpc = "finalize" /\ At(hpc)
        /\ hpc' = "publish" /\ verdict' \in {"finalized", "failed"}
        /\ snap' = snap \/ snap' = [snap EXCEPT ![job.op] = Bare("finalized")]
    BY <1>1 DEF Finalize, At, Say, spoolVars
  <2>2. \A op \in Ops : snap'[op].phase \in RestorePhases => snap[op].phase \in RestorePhases
    BY <2>1, OneEntry, BareEntry
  <2> QED
    BY <2>1, <2>2 DEF Inside
<1>2. CASE Renew
  <2>1. /\ UNCHANGED <<requests, results, batch, job>> /\ hpc = "renew" /\ At(hpc)
        /\ hpc' = "publish" /\ verdict' \in {"renewed", "failed"}
        /\ snap' = snap \/ snap' = [snap EXCEPT ![job.op].fresh = TRUE]
    BY <1>2 DEF Renew, At, Say, spoolVars
  <2>2. \A op \in Ops : snap'[op].phase = snap[op].phase
    BY <2>1, LeaseChange DEF IInv, TypeOK, At
  <2> QED
    BY <2>1, <2>2 DEF Inside
<1>3. CASE Rollback
  <2>1. /\ UNCHANGED <<requests, results, batch, job, snap>> /\ hpc = "rollback"
        /\ hpc' \in {"publish", "rollback_snapshot"}
        /\ hpc' = "publish" /\ verdict' = "not_applied"
             => snap[job.op].phase \in {"none", "dir"}
    BY <1>3 DEF Rollback, At, Say, Goto, spoolVars, diskVars
  <2> QED
    BY <2>1 DEF Inside, RestorePhases, WorkingPhases
<1> QED
  BY <1>1, <1>2, <1>3

\* The only snapshot that can be restored is made for an apply that is still
\* in the spool, whose rollback has not been answered.
LEMMA SnapshotKeeps == ASSUME IInv, FInv, ApplySnapshot PROVE FInv'
<1> USE DEF HandlerPcs, ApplyPcs, RollbackPcs
<1>1. /\ UNCHANGED <<requests, results, batch, job>> /\ hpc = "apply_snapshot" /\ At(hpc)
      /\ hpc' \in {"publish", "apply_offline_test"}
      /\ snap' = snap \/ \E e : snap' = [snap EXCEPT ![job.op] = e]
  BY DEF ApplySnapshot, At, Goto, Say, spoolVars
<1>2. job.act = "apply" /\ job \in Jobs /\ job.op \in Ops
  BY <1>1 DEF IInv, ControlInv, At
<1>3. Req(job.op, "apply") \in requests
  BY <1>1, <1>2, JobIs DEF FInv, InSpool
<1>4. results[job.op]["rollback"] = "none"
  BY <1>2, <1>3 DEF FInv, ApplyFirst
<1>5. InSpool'
  BY <1>1, <1>2 DEF FInv, InSpool
<1>6. ApplyFirst'
  BY <1>1, <1>2, ReqIs DEF FInv, ApplyFirst, Busy
<1>7. NothingApplied'
  BY <1>1, <1>2 DEF NothingApplied
<1>8. NotAppliedIsFinal'
  BY <1>1, <1>4, OneEntry DEF FInv, NotAppliedIsFinal
<1> QED
  BY <1>5, <1>6, <1>7, <1>8 DEF FInv

(***************************************************************************)
(* The cycle                                                               *)
(***************************************************************************)

\* What is neither told nor on disk otherwise.
LEMMA SameOutcome ==
  ASSUME FInv, UNCHANGED <<results, snap>>, hpc' # "publish"
  PROVE  NothingApplied' /\ NotAppliedIsFinal'
BY DEF FInv, NothingApplied, NotAppliedIsFinal

LEMMA WakeFinal == ASSUME IInv, FInv, Wake PROVE FInv'
<1>1. /\ UNCHANGED <<requests, results, snap, job>>
      /\ hpc' = "spool" /\ batch' = requests
  BY DEF Wake, spoolVars, diskVars
<1>2. InSpool' /\ ApplyFirst'
  BY <1>1 DEF FInv, InSpool, ApplyFirst, Busy, HandlerPcs, ApplyPcs, RollbackPcs
<1> QED
  BY <1>1, <1>2, SameOutcome DEF FInv

\* The first of the listing is no rollback while the apply is in it too.
LEMMA TakeFinal == ASSUME IInv, FInv, Take PROVE FInv'
<1> USE DEF HandlerPcs, ApplyPcs, RollbackPcs
<1>1. PICK r \in batch : /\ First(r, batch) /\ job' = r /\ hpc' = r.act
                         /\ batch' = batch \ {r}
  BY DEF Take
<1>2. UNCHANGED <<requests, results, snap>> /\ hpc = "spool"
  BY DEF Take, spoolVars, diskVars
<1>3. r \in Jobs /\ r.act # "recover" /\ r.act # "publish"
  BY <1>2 DEF IInv, TypeOK, SweepInv, Recovering, Jobs, Acts
<1>4. InSpool'
  BY <1>1, <1>2, <1>3 DEF FInv, InSpool
<1>5. ASSUME NEW op \in Ops, Req(op, "apply") \in requests, r = Req(op, "rollback")
      PROVE  FALSE
  <2>1. Req(op, "apply") \in batch
    BY <1>1, <1>2, <1>5 DEF FInv, ApplyFirst, Busy
  <2>2. Precedes(Req(op, "rollback"), Req(op, "apply"))
    BY <1>1, <1>5, <2>1 DEF First
  <2>3. Rank[op] \in Nat
    BY OpsAssumption
  <2> QED
    BY <2>2, <2>3 DEF Precedes, Req, ActRank
<1>6. ApplyFirst'
  <2> SUFFICES ASSUME NEW op \in Ops, Req(op, "apply") \in requests
               PROVE  /\ results[op]["rollback"] = "none" /\ ~Busy(Req(op, "rollback"))'
                      /\ Req(op, "rollback") \in batch' =>
                           Req(op, "apply") \in batch' \/ Busy(Req(op, "apply"))'
    BY <1>2 DEF ApplyFirst
  <2>1. ~Busy(Req(op, "rollback"))'
    BY <1>1, <1>5 DEF Busy
  <2>2. r = Req(op, "apply") => Busy(Req(op, "apply"))'
    BY <1>1, ReqIs DEF Busy
  <2>3. ~Busy(Req(op, "apply"))
    BY <1>2 DEF Busy
  <2> QED
    BY <1>1, <2>1, <2>2, <2>3 DEF FInv, ApplyFirst
<1> QED
  BY <1>1, <1>2, <1>3, <1>4, <1>6, SameOutcome DEF FInv

LEMMA SweepFinal == ASSUME IInv, FInv, Sweep \/ Recover PROVE FInv'
<1> USE DEF HandlerPcs, ApplyPcs, RollbackPcs
<1>1. UNCHANGED <<requests, results, snap>> /\ hpc \in {"spool", "sweep"}
      /\ hpc' \in {"sweep", "rollback_snapshot"}
  BY DEF Sweep, Recover, spoolVars, diskVars
<1>2. \A r \in batch' : r.act = "recover"
  BY DEF Sweep, Recover, IInv, SweepInv, Recovering
<1>3. hpc' = "rollback_snapshot" => job' \notin batch' /\ job'.act = "recover"
  BY DEF Sweep, Recover, IInv, SweepInv, Recovering
<1>4. InSpool'
  BY <1>1, <1>2, <1>3 DEF InSpool
<1>5. ApplyFirst'
  BY <1>1, <1>2, <1>3, ReqIs DEF FInv, ApplyFirst, Busy
<1> QED
  BY <1>1, <1>4, <1>5, SameOutcome DEF FInv

LEMMA StopFinal == ASSUME IInv, FInv, Exit \/ HelperCrash PROVE FInv'
<1>1. UNCHANGED <<requests, results, snap>> /\ hpc' = "idle" /\ batch' = {}
  BY DEF Exit, HelperCrash, spoolVars, diskVars
<1>2. InSpool' /\ ApplyFirst'
  BY <1>1 DEF FInv, InSpool, ApplyFirst, Busy, HandlerPcs, ApplyPcs, RollbackPcs
<1> QED
  BY <1>1, <1>2, SameOutcome DEF FInv

\* An answer to a rollback is published when no apply is left in the spool.
LEMMA PublishFinal == ASSUME IInv, FInv, PublishResult PROVE FInv'
<1> USE DEF HandlerPcs, ApplyPcs, RollbackPcs
<1>1. /\ UNCHANGED <<requests, job, verdict, batch, snap>>
      /\ hpc = "publish" /\ hpc' = "unlink" /\ job \in Jobs /\ job.op \in Ops
      /\ results' = [results EXCEPT ![job.op][job.act] = verdict]
  BY DEF PublishResult, At, diskVars, IInv, ControlInv
<1>2. InSpool'
  BY <1>1 DEF FInv, InSpool
<1>3. ASSUME NEW op \in Ops, results'[op]["rollback"] # results[op]["rollback"]
      PROVE  /\ job = Req(op, "rollback") /\ results'[op]["rollback"] = verdict
  <2>1. op = job.op /\ job.act = "rollback"
    BY <1>1, <1>3 DEF IInv, TypeOK
  <2>2. results \in [Ops -> [Acts -> Verdicts]] /\ "rollback" \in Acts
    BY DEF IInv, TypeOK, Acts
  <2>3. results'[op] = [results[op] EXCEPT !["rollback"] = verdict]
    BY <1>1, <2>1, <2>2
  <2>4. results'[op]["rollback"] = verdict
    BY <2>2, <2>3
  <2>5. job = Req(op, "rollback")
    BY <1>1, <2>1, JobIs
  <2> QED
    BY <2>4, <2>5
<1>4. ApplyFirst'
  <2> SUFFICES ASSUME NEW op \in Ops, Req(op, "apply") \in requests
               PROVE  /\ results'[op]["rollback"] = "none" /\ ~Busy(Req(op, "rollback"))'
                      /\ Req(op, "rollback") \in batch =>
                           Req(op, "apply") \in batch \/ Busy(Req(op, "apply"))'
    BY <1>1 DEF ApplyFirst
  <2>1. ~Busy(Req(op, "rollback")) /\ results[op]["rollback"] = "none"
    BY DEF FInv, ApplyFirst
  <2>2. Busy(Req(op, "rollback"))' <=> Busy(Req(op, "rollback"))
    BY <1>1 DEF Busy
  <2>3. Busy(Req(op, "apply"))' <=> Busy(Req(op, "apply"))
    BY <1>1 DEF Busy
  <2>4. results'[op]["rollback"] = "none"
    BY <1>1, <1>3, <2>1 DEF Busy
  <2> QED
    BY <2>1, <2>2, <2>3, <2>4 DEF FInv, ApplyFirst
<1>5. NotAppliedIsFinal'
  <2> SUFFICES ASSUME NEW op \in Ops, results'[op]["rollback"] = "not_applied"
               PROVE  snap[op].phase \notin RestorePhases
    BY <1>1 DEF NotAppliedIsFinal
  <2>1. CASE results'[op]["rollback"] = results[op]["rollback"]
    BY <2>1 DEF FInv, NotAppliedIsFinal
  <2>2. CASE results'[op]["rollback"] # results[op]["rollback"]
    BY <1>1, <1>3, <2>2, ReqIs DEF FInv, NothingApplied
  <2> QED
    BY <2>1, <2>2
<1>6. NothingApplied'
  BY <1>1 DEF NothingApplied
<1> QED
  BY <1>2, <1>4, <1>5, <1>6 DEF FInv

LEMMA UnlinkFinal == ASSUME IInv, FInv, Unlink PROVE FInv'
<1> USE DEF HandlerPcs, ApplyPcs, RollbackPcs
<1>1. /\ UNCHANGED <<batch, results, snap>> /\ hpc = "unlink" /\ hpc' = "spool"
      /\ requests' = requests \ {job} /\ job \in Jobs
  BY DEF Unlink, At, diskVars, IInv, ControlInv
<1>2. InSpool'
  BY <1>1 DEF FInv, InSpool
<1>3. ApplyFirst'
  BY <1>1 DEF FInv, ApplyFirst, Busy
<1> QED
  BY <1>1, <1>2, <1>3, SameOutcome DEF FInv

(***************************************************************************)
(* The Gateway and the environment                                         *)
(***************************************************************************)

\* Once a rollback is asked for or answered, no apply is.
LEMMA SubmitApplyFinal ==
  ASSUME IInv, FInv, NEW op \in Ops, NEW old, NEW new, SubmitApply(op, old, new)
  PROVE  FInv'
<1>1. /\ UNCHANGED <<results, snap, hpc, job, verdict, batch>>
      /\ requests' = requests \union {Req(op, "apply")}
      /\ Req(op, "rollback") \notin requests /\ results[op]["rollback"] = "none"
  BY DEF SubmitApply, Publish, diskVars, procVars, Req
<1>2. InSpool'
  BY <1>1 DEF FInv, InSpool
<1>3. Req(op, "rollback") \notin batch /\ ~Busy(Req(op, "rollback"))
  BY <1>1, ReqIs DEF FInv, InSpool, Busy
<1>4. ASSUME NEW o \in Ops, Req(o, "apply") \in requests' PROVE Req(o, "apply") \in requests \/ o = op
  BY <1>1, <1>4, ReqIs
<1>5. ApplyFirst'
  BY <1>1, <1>3, <1>4 DEF FInv, ApplyFirst, Busy
<1>6. NothingApplied' /\ NotAppliedIsFinal'
  BY <1>1 DEF FInv, NothingApplied, NotAppliedIsFinal
<1> QED
  BY <1>2, <1>5, <1>6 DEF FInv

LEMMA SubmitFinal ==
  ASSUME IInv, FInv, NEW op \in Ops,
         SubmitFinalize(op) \/ SubmitRenew(op) \/ SubmitRollback(op)
  PROVE  FInv'
<1>1. /\ UNCHANGED <<snap, hpc, job, verdict, batch>>
      /\ \E act \in {"finalize", "renew", "rollback"} :
           requests' = requests \union {Req(op, act)}
      /\ \A o \in Ops : results'[o]["rollback"] = results[o]["rollback"]
  BY DEF SubmitFinalize, SubmitRenew, SubmitRollback, Publish, diskVars, procVars, Req, IInv,
         TypeOK, Acts
<1>2. InSpool'
  BY <1>1 DEF FInv, InSpool
<1>3. \A o \in Ops : Req(o, "apply") \in requests' => Req(o, "apply") \in requests
  BY <1>1, ReqIs
<1>4. ApplyFirst'
  BY <1>1, <1>3 DEF FInv, ApplyFirst, Busy
<1>5. NothingApplied' /\ NotAppliedIsFinal'
  BY <1>1 DEF FInv, NothingApplied, NotAppliedIsFinal
<1> QED
  BY <1>2, <1>4, <1>5 DEF FInv

LEMMA RestFinal ==
  ASSUME IInv, FInv,
         XuiRestart \/ UNCHANGED vars \/ \E op \in Ops : LeaseExpires(op)
  PROVE  FInv'
<1>1. UNCHANGED <<requests, results, hpc, job, verdict, batch>>
  BY DEF XuiRestart, LeaseExpires, vars, spoolVars, procVars
<1>2. \A op \in Ops : snap'[op].phase = snap[op].phase
  <2>1. ASSUME NEW op \in Ops, LeaseExpires(op)
        PROVE  \A o \in Ops : snap'[o].phase = snap[o].phase
    <3>1. snap' = [snap EXCEPT ![op].fresh = FALSE]
      BY <2>1 DEF LeaseExpires
    <3> QED
      BY <3>1, LeaseChange DEF IInv, TypeOK
  <2> QED
    BY <2>1 DEF XuiRestart, vars, diskVars
<1>3. job \in Jobs /\ hpc = "publish" => job.op \in Ops
  BY DEF Jobs
<1>4. hpc = "publish" => job \in Jobs
  BY DEF IInv, ControlInv, HandlerPcs
<1>5. InSpool' /\ ApplyFirst'
  BY <1>1 DEF FInv, InSpool, ApplyFirst, Busy
<1>6. NothingApplied' /\ NotAppliedIsFinal'
  BY <1>1, <1>2, <1>3, <1>4 DEF FInv, NothingApplied, NotAppliedIsFinal
<1> QED
  BY <1>5, <1>6 DEF FInv

LEMMA FinalInit == ASSUME Init PROVE FInv
<1>1. InSpool /\ ApplyFirst /\ NothingApplied
  BY DEF Init, InSpool, ApplyFirst, NothingApplied, HandlerPcs, ApplyPcs, RollbackPcs
<1>2. ASSUME NEW op \in Ops PROVE results[op]["rollback"] = "none"
  BY DEF Init, Acts
<1>3. NotAppliedIsFinal
  BY <1>2 DEF NotAppliedIsFinal
<1> QED
  BY <1>1, <1>3 DEF FInv

LEMMA FinalStep == ASSUME IInv, FInv, [Next]_vars PROVE FInv'
<1>1. CASE Wake \/ Take \/ Sweep \/ Recover \/ Exit \/ PublishResult \/ Unlink
  BY <1>1, WakeFinal, TakeFinal, SweepFinal, StopFinal, PublishFinal, UnlinkFinal
<1>2. CASE ApplySteps
  BY <1>2, ApplyInside, InsideKeeps, SnapshotKeeps DEF ApplySteps
<1>3. CASE RollbackSteps \/ Finalize \/ Renew \/ Rollback
  BY <1>3, RollbackInside, EndInside, InsideKeeps
<1>4. CASE Client
  BY <1>4, SubmitApplyFinal, SubmitFinal DEF Client
<1>5. CASE Environment
  BY <1>5, RestFinal, StopFinal DEF Environment
<1>6. CASE UNCHANGED vars
  BY <1>6, RestFinal
<1> QED
  BY <1>1, <1>2, <1>3, <1>4, <1>5, <1>6 DEF Next, HelperStep, CycleSteps

\* Once a rollback was answered operation_not_applied no snapshot of that
\* operation is ever made: the rollback comes after the apply in every listing,
\* and no apply is asked for after it, so recovery may rest on that answer.
THEOREM Final == Spec => []NotAppliedIsFinal
<1>1. Init => FInv
  BY FinalInit
<1>2. IInv /\ FInv /\ [Next]_vars => FInv'
  BY FinalStep
<1>3. FInv => NotAppliedIsFinal
  BY DEF FInv
<1> QED
  BY <1>1, <1>2, <1>3, Inductive, PTL DEF Spec

-----------------------------------------------------------------------------
(***************************************************************************)
(* A lone operation may always be restored: while the runtime and the      *)
(* database disagree, a snapshot on disk remembers the modes between which *)
(* the helper was.                                                         *)
(***************************************************************************)
\* A lone operation is the only one with a directory.
LEMMA Lone ==
  ASSUME CInv, Alone, NEW o1 \in Ops, NEW o2 \in Ops,
         snap[o1].phase # "none", snap[o2].phase # "none"
  PROVE  o1 = o2
BY DEF CInv, AskedFirst, Alone

\* What a step of a handler leaves alone: the spool, the other snapshots, and
\* its own unless it is an apply or finds one.
Own ==
  /\ UNCHANGED <<asked, requests, results, batch, job>>
  /\ hpc \in HandlerPcs
  /\ hpc' \in HandlerPcs \/ (hpc' = "sweep" /\ job.act = "recover")
  /\ \A op \in Ops : op # job.op => snap'[op] = snap[op]
  /\ snap[job.op].phase # "none" \/ job.act = "apply" \/ snap' = snap
  /\ snap'[job.op].phase \in WorkingPhases =>
       \/ snap[job.op].phase \in WorkingPhases /\ (snap[job.op].fresh => snap'[job.op].fresh)
       \/ job.act = "apply" /\ snap'[job.op].fresh
  /\ job.act = "recover" /\ hpc' \in RollbackPcs =>
       hpc \in RollbackPcs /\ snap'[job.op].fresh = snap[job.op].fresh

LEMMA OwnKeeps ==
  ASSUME IInv, FInv, CInv, Own
  PROVE  AskedFirst' /\ RecoverLast' /\ FinalizeFirst'
<1> USE DEF HandlerPcs, ApplyPcs, RollbackPcs
<1>1. job \in Jobs /\ job.op \in Ops /\ job = Req(job.op, job.act)
  BY JobIs DEF Own, IInv, ControlInv, Jobs
<1>2. job.act = "apply" => asked[job.op] # NotAsked
  BY <1>1, ModesAssumption DEF Own, IInv, AskedInv, Asked, NotAsked
<1>3. AskedFirst'
  BY <1>1, <1>2 DEF Own, CInv, AskedFirst
<1>4. FinalizeFirst'
  <2>1. ASSUME NEW op \in Ops, Busy(Req(op, "rollback"))' PROVE Busy(Req(op, "rollback"))
    BY <2>1 DEF Busy, Own
  <2>2. ASSUME NEW op \in Ops, Busy(Req(op, "finalize")) PROVE Busy(Req(op, "finalize"))'
    BY <2>2, ReqIs DEF Busy, Own
  <2> QED
    BY <2>1, <2>2 DEF Own, CInv, FinalizeFirst
<1>5. RecoverLast'
  <2>1. ASSUME NEW r \in batch, r.act = "recover" PROVE ~snap'[r.op].fresh
    <3>1. r.op # job.op /\ r.op \in Ops
      BY <2>1 DEF Own, IInv, SweepInv, Recovering, TypeOK, Jobs
    <3> QED
      BY <2>1, <3>1 DEF Own, CInv, RecoverLast
  <2>2. hpc' \in RollbackPcs /\ job.act = "recover" => ~snap'[job.op].fresh
    BY DEF Own, CInv, RecoverLast
  <2>3. ASSUME NEW op \in Ops, NEW act \in {"apply", "finalize"}, Req(op, act) \in requests
        PROVE  /\ Req(op, "recover") \notin batch
               /\ ~(hpc' \in RollbackPcs /\ job = Req(op, "recover"))
               /\ snap'[op].phase \in WorkingPhases
                    => \/ act = "finalize" /\ snap'[op].fresh
                       \/ hpc' = "idle" \/ Req(op, act) \in batch \/ Busy(Req(op, act))'
    <3>1. /\ Req(op, "recover") \notin batch
          /\ ~(hpc \in RollbackPcs /\ job = Req(op, "recover"))
          /\ snap[op].phase \in WorkingPhases
               => \/ act = "finalize" /\ snap[op].fresh
                  \/ hpc = "idle" \/ Req(op, act) \in batch \/ Busy(Req(op, act))
      BY <2>3 DEF CInv, RecoverLast
    <3>2. job = Req(op, "recover") /\ hpc' \in RollbackPcs => hpc \in RollbackPcs
      BY ReqIs DEF Own
    <3>3. Busy(Req(op, act)) => Busy(Req(op, act))'
      BY ReqIs DEF Own, Busy
    <3>4. CASE op # job.op
      BY <3>1, <3>2, <3>3, <3>4 DEF Own
    <3>5. CASE op = job.op
      <4>1. ASSUME job.act = "apply", act = "apply" PROVE Busy(Req(op, act))'
        BY <4>1, <3>5, <1>1 DEF Busy, Own
      <4>2. CASE /\ snap[op].phase \in WorkingPhases
                 /\ snap[op].fresh => snap'[op].fresh
        BY <4>2, <3>1, <3>2, <3>3 DEF Own
      <4>3. CASE job.act = "apply" /\ snap'[op].fresh
        BY <4>3, <4>1, <3>1, <3>2
      <4> QED
        BY <4>2, <4>3, <3>1, <3>2, <3>5 DEF Own
    <3> QED
      BY <3>4, <3>5
  <2> QED
    BY <2>1, <2>2, <2>3 DEF RecoverLast, Own
<1> QED
  BY <1>3, <1>4, <1>5

\* A snapshot whose phase is written keeps the rest.
LEMMA PhaseOnly ==
  ASSUME IInv, At(hpc), NEW p, snap' = [snap EXCEPT ![job.op].phase = p]
  PROVE  /\ \A op \in Ops : op # job.op => snap'[op] = snap[op]
         /\ snap'[job.op].phase = p
         /\ snap'[job.op].old = snap[job.op].old
         /\ snap'[job.op].new = snap[job.op].new
         /\ snap'[job.op].fresh = snap[job.op].fresh
BY DEF IInv, TypeOK, SnapOK, Snapshots, At

\* Nothing is known of the other operations when one is asked for alone.
LEMMA Others ==
  ASSUME CInv, Alone, job.op \in Ops, asked[job.op] # NotAsked,
         NEW op \in Ops, op # job.op
  PROVE  /\ snap[op].phase = "none" /\ results[op]["apply"] # "applied"
         /\ Req(op, "finalize") \notin requests
BY DEF CInv, AskedFirst, Alone

\* An operation with a directory, or under an apply, was asked for.
LEMMA AskedNow ==
  ASSUME IInv, CInv, hpc \in HandlerPcs, job.op \in Ops,
         job.act = "apply" \/ snap[job.op].phase # "none"
  PROVE  asked[job.op] # NotAsked
BY ModesAssumption DEF IInv, AskedInv, Asked, NotAsked, CInv, AskedFirst

\* No rollback works on an applied operation whose apply or finalize is still
\* in the spool.
LEMMA NotApplied ==
  ASSUME IInv, FInv, CInv, hpc \in RollbackPcs,
         NEW act \in {"apply", "finalize"}, Req(job.op, act) \in requests
  PROVE  snap[job.op].phase # "applied"
<1> USE DEF HandlerPcs, ApplyPcs, RollbackPcs
<1>1. job \in Jobs /\ job.op \in Ops /\ job = Req(job.op, job.act)
      /\ job.act \in {"apply", "rollback", "recover"}
  BY JobIs DEF IInv, ControlInv, Jobs
<1>2. CASE job.act = "apply"
  BY <1>2 DEF CInv, PhaseInv
<1>3. CASE job.act = "rollback"
  <2>1. Busy(Req(job.op, "rollback"))
    BY <1>1, <1>3 DEF Busy
  <2> QED
    BY <1>1, <2>1 DEF FInv, ApplyFirst, CInv, FinalizeFirst
<1>4. CASE job.act = "recover"
  BY <1>1, <1>4 DEF CInv, RecoverLast
<1> QED
  BY <1>1, <1>2, <1>3, <1>4

\* An apply that changes the mode, or is undone, was not answered before.
LEMMA FirstApply ==
  ASSUME IInv, FInv, CInv, Alone, hpc \in RollbackPcs \union ApplyPcs \union {"apply_snapshot"},
         Req(job.op, "apply") \in requests
  PROVE  results[job.op]["apply"] # "applied" /\ Req(job.op, "finalize") \notin requests
<1> USE DEF HandlerPcs, ApplyPcs, RollbackPcs
<1>1. job \in Jobs /\ job.op \in Ops /\ job = Req(job.op, job.act)
      /\ job.act \in {"apply", "rollback", "recover"}
  BY JobIs DEF IInv, ControlInv, Jobs
<1>2. CASE job.act = "apply"
  <2>1. Busy(Req(job.op, "apply"))
    BY <1>1, <1>2 DEF Busy
  <2> QED
    BY <1>1, <2>1 DEF CInv, ModesInv
<1>3. CASE job.act = "rollback"
  <2>1. Busy(Req(job.op, "rollback"))
    BY <1>1, <1>3 DEF Busy
  <2> QED
    BY <1>1, <2>1 DEF FInv, ApplyFirst
<1>4. CASE job.act = "recover"
  <2>1. hpc \in RollbackPcs
    BY <1>1, <1>4 DEF IInv, ControlInv
  <2> QED
    BY <1>1, <1>4, <2>1 DEF CInv, RecoverLast
<1> QED
  BY <1>1, <1>2, <1>3, <1>4

(***************************************************************************)
(* What a handler does to the modes and to what is served, of its own      *)
(* operation only                                                          *)
(***************************************************************************)

LEMMA ModesKeep ==
  ASSUME IInv, CInv, Own, Alone, job.op \in Ops, asked[job.op] # NotAsked,
         snap'[job.op].phase \in RestorePhases =>
           snap'[job.op].old = asked[job.op].old /\ snap'[job.op].new = asked[job.op].new,
         hpc' = "apply_snapshot" => row' = asked[job.op].old,
         hpc' = "publish" /\ job.act = "apply" /\ verdict' = "applied"
           => row' = asked[job.op].new,
         Req(job.op, "apply") \in requests =>
           /\ snap'[job.op].phase = "applied" => row' = asked[job.op].new
           /\ results[job.op]["apply"] = "applied" \/ Req(job.op, "finalize") \in requests
                => /\ row' = asked[job.op].new
                   /\ job.act = "apply" => hpc' \in {"apply", "publish", "unlink"}
  PROVE  ModesInv'
<1>1. ASSUME NEW op \in Ops, op # job.op
      PROVE  /\ snap'[op].phase = "none" /\ results'[op]["apply"] # "applied"
             /\ Req(op, "finalize") \notin requests'
  BY <1>1, Others DEF Own
<1>2. Busy(Req(job.op, "apply"))' => job.act = "apply"
  BY ReqIs DEF Busy, Own
<1>3. \A op \in Ops : snap'[op].phase \in RestorePhases
                        => snap'[op].old = asked'[op].old /\ snap'[op].new = asked'[op].new
  BY <1>1 DEF Own, RestorePhases, WorkingPhases
<1>4. \A op \in Ops : Req(op, "apply") \in requests' =>
        /\ snap'[op].phase = "applied" => row' = asked'[op].new
        /\ results'[op]["apply"] = "applied" \/ Req(op, "finalize") \in requests'
             => /\ row' = asked'[op].new
                /\ Busy(Req(op, "apply"))' => hpc' \in {"apply", "publish", "unlink"}
  BY <1>1, <1>2 DEF Own
<1> QED
  BY <1>3, <1>4 DEF ModesInv, Own

LEMMA ServedKeep ==
  ASSUME CInv, Own, Alone, job.op \in Ops, asked[job.op] # NotAsked,
         snap'[job.op].phase = "snapshot" => live' = row' /\ row' = snap'[job.op].old,
         hpc' \in {"rollback_restore", "rollback_verify"} => live' = snap'[job.op].old,
         hpc' = "rollback_verify" => row' = snap'[job.op].old,
         Req(job.op, "finalize") \in requests /\ snap'[job.op].phase = "applied"
           => live' = row',
         live' # row' => snap'[job.op].phase \in RestorePhases
  PROVE  ServedInv'
<1>1. ASSUME NEW op \in Ops, op # job.op PROVE snap'[op].phase = "none"
  BY <1>1, Others DEF Own
<1>2. \A op \in Ops : snap'[op].phase = "snapshot" => live' = row' /\ row' = snap'[op].old
  BY <1>1
<1>3. \A op \in Ops : Req(op, "finalize") \in requests' /\ snap'[op].phase = "applied"
                        => live' = row'
  BY <1>1 DEF Own
<1>4. live' # row' => \E op \in Ops : snap'[op].phase \in RestorePhases
  OBVIOUS
<1> QED
  BY <1>2, <1>3, <1>4 DEF ServedInv, Own

\* A step that touches neither disk nor what was asked for.
Still ==
  /\ UNCHANGED <<live, row, snap, asked, raced>>
  /\ requests' \subseteq requests
  /\ \A op \in Ops : results'[op]["apply"] = results[op]["apply"]
  /\ hpc' \notin {"apply_snapshot", "rollback_restore", "rollback_verify"}
  /\ hpc' = "publish" => job'.act # "apply"
  /\ hpc' \in HandlerPcs /\ job'.act = "apply" => hpc' \in {"apply", "unlink"}

LEMMA StillKeeps ==
  ASSUME CInv, Still
  PROVE  (Alone => ModesInv)' /\ (Alone /\ ~raced => ServedInv)'
<1>1. Alone' = Alone
  BY DEF Still, Alone
<1>2. ASSUME Alone PROVE ModesInv'
  <2>1. ASSUME NEW op \in Ops, Busy(Req(op, "apply"))' PROVE hpc' \in {"apply", "unlink"}
    BY <2>1, ReqIs DEF Busy, Still
  <2>2. \A op \in Ops : Req(op, "apply") \in requests' =>
          /\ snap[op].phase = "applied" => row = asked[op].new
          /\ results[op]["apply"] = "applied" \/ Req(op, "finalize") \in requests'
               => row = asked[op].new
    BY <1>2 DEF Still, CInv, ModesInv
  <2>3. \A op \in Ops : snap[op].phase \in RestorePhases
                          => snap[op].old = asked[op].old /\ snap[op].new = asked[op].new
    BY <1>2 DEF CInv, ModesInv
  <2> QED
    BY <2>1, <2>2, <2>3 DEF Still, ModesInv
<1>3. ASSUME Alone, ~raced PROVE ServedInv'
  BY <1>3 DEF Still, CInv, ServedInv
<1> QED
  BY <1>1, <1>2, <1>3 DEF Still

\* CInv is kept when its parts are.
LEMMA Together ==
  ASSUME AskedFirst', PhaseInv', RecoverLast', FinalizeFirst',
         (Alone => ModesInv)', (Alone /\ ~raced => ServedInv)'
  PROVE  CInv'
BY DEF CInv

\* A handler's step, when its part is done.
LEMMA OwnTogether ==
  ASSUME IInv, FInv, CInv, Own, UNCHANGED raced, PhaseInv',
         Alone => ModesInv', Alone /\ ~raced => ServedInv'
  PROVE  CInv'
<1>1. Alone' = Alone
  BY DEF Own, Alone
<1>2. (Alone => ModesInv)' /\ (Alone /\ ~raced => ServedInv)'
  BY <1>1
<1> QED
  BY <1>2, OwnKeeps, Together

LEMMA AdmitSafe == ASSUME IInv, FInv, CInv, ApplyAdmit PROVE CInv'
<1> USE DEF HandlerPcs, ApplyPcs, RollbackPcs
<1>1. /\ UNCHANGED <<asked, requests, results, batch, job, raced, live, row>>
      /\ hpc = "apply" /\ At(hpc) /\ job \in Jobs /\ job.op \in Ops /\ job.act = "apply"
      /\ asked[job.op] # NotAsked
  <2>1. /\ UNCHANGED <<asked, requests, results, batch, job, raced, live, row>>
        /\ hpc = "apply" /\ At(hpc) /\ job.op \in Ops
    BY DEF ApplyAdmit, At, Say, Goto, spoolVars
  <2> QED
    BY <2>1, AskedNow DEF IInv, ControlInv
<1>2. Req(job.op, "apply") \in requests
  BY <1>1, JobIs DEF FInv, InSpool
<1>3. CASE snap' = snap
  <2>1. hpc' = "publish" /\ (verdict' = "applied" => row = asked[job.op].old
                                                     /\ snap[job.op].phase = "applied")
    BY <1>1, <1>3, OneEntry, BareEntry DEF ApplyAdmit, At, Say, Goto, HasSnapshot
  <2>2. Own
    BY <1>1, <1>3, <2>1 DEF Own
  <2>3. PhaseInv'
    BY <2>1 DEF PhaseInv
  <2>4. asked[job.op].old # asked[job.op].new
    BY <1>1 DEF CInv, AskedFirst
  <2>5. ASSUME Alone PROVE ModesInv'
    <3>1. ModesInv
      BY <2>5 DEF CInv
    <3>2. verdict' # "applied"
      BY <1>1, <1>2, <2>1, <2>4, <3>1 DEF ModesInv
    <3> QED
      BY <1>1, <1>2, <1>3, <2>1, <2>2, <2>5, <3>1, <3>2, ModesKeep DEF ModesInv
  <2>6. ASSUME Alone, ~raced PROVE ServedInv'
    <3>1. ServedInv
      BY <2>6 DEF CInv
    <3>2. live # row => snap[job.op].phase \in RestorePhases
      <4>1. live # row => \E op \in Ops : snap[op].phase \in RestorePhases
        BY <3>1 DEF ServedInv
      <4> QED
        BY <4>1, <1>1, <2>6, Others DEF RestorePhases, WorkingPhases
    <3> QED
      BY <1>1, <1>3, <2>1, <2>2, <2>6, <3>1, <3>2, ServedKeep DEF ServedInv
  <2> QED
    BY <1>1, <2>2, <2>3, <2>5, <2>6, OwnTogether
<1>4. CASE snap' # snap
  <2>1. /\ hpc' = "apply_snapshot" /\ row = asked[job.op].old /\ snap[job.op].phase = "none"
        /\ snap' = [snap EXCEPT ![job.op] = Bare("dir")]
    BY <1>1, <1>4 DEF ApplyAdmit, At, Say, Goto
  <2>2. /\ \A op \in Ops : op # job.op => snap'[op] = snap[op]
        /\ snap'[job.op].phase = "dir"
    BY <1>1, <2>1, OneEntry, BareEntry
  <2>3. Own
    BY <1>1, <2>1, <2>2 DEF Own, WorkingPhases
  <2>4. PhaseInv'
    BY <2>1 DEF PhaseInv
  <2>5. asked[job.op].old # asked[job.op].new
    BY <1>1 DEF CInv, AskedFirst
  <2>6. ASSUME Alone PROVE ModesInv'
    <3>1. ModesInv
      BY <2>6 DEF CInv
    <3>2. results[job.op]["apply"] # "applied" /\ Req(job.op, "finalize") \notin requests
      BY <1>1, <1>2, <2>1, <2>5, <3>1 DEF ModesInv
    <3> QED
      BY <1>1, <2>1, <2>2, <2>3, <2>6, <3>2, ModesKeep DEF RestorePhases, WorkingPhases
  <2>7. ASSUME Alone, ~raced PROVE ServedInv'
    <3>1. live = row
      <4>1. live # row => \E op \in Ops : snap[op].phase \in RestorePhases
        BY <2>7 DEF CInv, ServedInv
      <4> QED
        BY <4>1, <1>1, <2>1, <2>7, Others DEF RestorePhases, WorkingPhases
    <3> QED
      BY <1>1, <2>1, <2>2, <2>3, <2>7, <3>1, ServedKeep
  <2> QED
    BY <1>1, <2>3, <2>4, <2>6, <2>7, OwnTogether
<1> QED
  BY <1>3, <1>4

LEMMA SnapshotSafe == ASSUME IInv, FInv, CInv, ApplySnapshot PROVE CInv'
<1> USE DEF HandlerPcs, ApplyPcs, RollbackPcs
<1>1. /\ UNCHANGED <<asked, requests, results, batch, job, raced, live, row>>
      /\ hpc = "apply_snapshot" /\ At(hpc) /\ job \in Jobs /\ job.op \in Ops
      /\ job.act = "apply" /\ snap[job.op].phase = "dir" /\ asked[job.op] # NotAsked
  <2>1. /\ UNCHANGED <<asked, requests, results, batch, job, raced, live, row>>
        /\ hpc = "apply_snapshot" /\ At(hpc) /\ job.op \in Ops
    BY DEF ApplySnapshot, At, Say, Goto, spoolVars
  <2> QED
    BY <2>1, AskedNow DEF IInv, ControlInv
<1>2. ASSUME Alone, ~raced PROVE live = row
  <2>1. live # row => \E op \in Ops : snap[op].phase \in RestorePhases
    BY <1>2 DEF CInv, ServedInv
  <2> QED
    BY <2>1, <1>1, <1>2, Others DEF RestorePhases, WorkingPhases
<1>3. CASE hpc' = "publish"
  <2>1. snap' = snap /\ verdict' = "failed"
    BY <1>1, <1>3 DEF ApplySnapshot, Goto, Say
  <2>2. Own
    BY <1>1, <1>3, <2>1 DEF Own
  <2>3. PhaseInv'
    BY <1>3 DEF PhaseInv
  <2>4. ASSUME Alone PROVE ModesInv'
    BY <1>1, <1>3, <2>1, <2>2, <2>4, FirstApply, ModesKeep DEF RestorePhases, WorkingPhases
  <2>5. ASSUME Alone, ~raced PROVE ServedInv'
    BY <1>1, <1>2, <1>3, <2>1, <2>2, <2>5, ServedKeep
  <2> QED
    BY <1>1, <2>2, <2>3, <2>4, <2>5, OwnTogether
<1>4. CASE hpc' # "publish"
  <2>1. /\ hpc' = "apply_offline_test"
        /\ snap' = [snap EXCEPT ![job.op] = Snap("snapshot", row, asked[job.op].new, TRUE)]
    BY <1>1, <1>4 DEF ApplySnapshot, Goto, Say
  <2>2. /\ \A op \in Ops : op # job.op => snap'[op] = snap[op]
        /\ snap'[job.op].phase = "snapshot" /\ snap'[job.op].old = row
        /\ snap'[job.op].new = asked[job.op].new /\ snap'[job.op].fresh
    BY <1>1, <2>1, OneEntry DEF Snap
  <2>3. Own
    BY <1>1, <2>1, <2>2 DEF Own
  <2>4. PhaseInv'
    BY <1>1, <2>1, <2>2 DEF PhaseInv
  <2>5. ASSUME Alone PROVE ModesInv'
    <3>1. row = asked[job.op].old
      BY <1>1, <2>5 DEF CInv, ModesInv
    <3> QED
      BY <1>1, <2>1, <2>2, <2>3, <2>5, <3>1, FirstApply, ModesKeep
  <2>6. ASSUME Alone, ~raced PROVE ServedInv'
    BY <1>1, <1>2, <2>1, <2>2, <2>3, <2>6, ServedKeep DEF RestorePhases, WorkingPhases
  <2> QED
    BY <1>1, <2>3, <2>4, <2>5, <2>6, OwnTogether
<1> QED
  BY <1>3, <1>4

\* The body of an apply: the phase goes forward, or it fails and is undone.
Forward ==
  /\ UNCHANGED <<asked, requests, results, batch, job, raced>>
  /\ hpc \in ApplyPcs /\ job.op \in Ops
  /\ \/ /\ hpc' \in ApplyPcs \ {"apply_offline_test"}
        /\ \E p \in WorkingPhases \ {"snapshot", "applied"} :
             snap' = [snap EXCEPT ![job.op].phase = p]
     \/ hpc' = "publish" /\ snap' = [snap EXCEPT ![job.op].phase = "applied"]
        /\ row' = snap[job.op].new
     \/ /\ hpc' = "rollback_snapshot" /\ snap' = snap
        /\ hpc = "apply_offline_test" => UNCHANGED <<live, row>>

LEMMA ForwardSteps ==
  ApplyOfflineTest \/ ApplyRemove \/ ApplyAdd \/ ApplyPersist \/ ApplyVerify => Forward
<1> USE DEF Forward, ApplyPcs, WorkingPhases, At, Goto, Say, Phase, ApplyFails, spoolVars
<1>1. ApplyOfflineTest => Forward
  BY DEF ApplyOfflineTest
<1>2. ApplyRemove => Forward
  BY DEF ApplyRemove
<1>3. ApplyAdd => Forward
  BY DEF ApplyAdd
<1>4. ApplyPersist => Forward
  BY DEF ApplyPersist
<1>5. ApplyVerify => Forward
  BY DEF ApplyVerify
<1> QED
  BY <1>1, <1>2, <1>3, <1>4, <1>5

LEMMA ForwardSafe == ASSUME IInv, FInv, CInv, Forward PROVE CInv'
<1> USE DEF HandlerPcs, ApplyPcs, RollbackPcs
<1>1. /\ job \in Jobs /\ job.op \in Ops /\ job.act = "apply" /\ At(hpc)
      /\ snap[job.op].phase \in WorkingPhases /\ asked[job.op] # NotAsked
  BY AskedNow DEF Forward, IInv, ControlInv, At
<1>2. Req(job.op, "apply") \in requests
  BY <1>1, JobIs DEF Forward, FInv, InSpool
<1>3. hpc # "apply_offline_test" => snap[job.op].phase \notin {"snapshot", "applied"}
  BY DEF Forward, CInv, PhaseInv
<1>4. hpc = "apply_offline_test" => snap[job.op].phase = "snapshot"
  BY DEF CInv, PhaseInv
<1>5. PICK p \in WorkingPhases :
        /\ \A op \in Ops : op # job.op => snap'[op] = snap[op]
        /\ snap'[job.op].phase = p
        /\ snap'[job.op].old = snap[job.op].old
        /\ snap'[job.op].new = snap[job.op].new
        /\ snap'[job.op].fresh = snap[job.op].fresh
        /\ \/ hpc' \in ApplyPcs \ {"apply_offline_test"} /\ p \notin {"snapshot", "applied"}
           \/ hpc' = "publish" /\ p = "applied" /\ row' = snap[job.op].new
           \/ /\ hpc' = "rollback_snapshot" /\ p = snap[job.op].phase
              /\ hpc = "apply_offline_test" => UNCHANGED <<live, row>>
  <2>1. ASSUME NEW p \in WorkingPhases, snap' = [snap EXCEPT ![job.op].phase = p]
        PROVE  /\ \A op \in Ops : op # job.op => snap'[op] = snap[op]
               /\ snap'[job.op].phase = p
               /\ snap'[job.op].old = snap[job.op].old
               /\ snap'[job.op].new = snap[job.op].new
               /\ snap'[job.op].fresh = snap[job.op].fresh
    BY <2>1, <1>1, PhaseOnly
  <2>2. "applied" \in WorkingPhases
    BY DEF WorkingPhases
  <2> QED
    BY <2>1, <2>2, <1>1 DEF Forward
<1>6. UNCHANGED <<asked, requests, results, batch, job, raced>> /\ hpc \in ApplyPcs
  BY DEF Forward
<1>7. Own
  BY <1>1, <1>5, <1>6 DEF Own, WorkingPhases
<1>8. PhaseInv'
  BY <1>1, <1>3, <1>4, <1>5, <1>6 DEF PhaseInv
<1>9. ASSUME Alone PROVE ModesInv'
  <2>1. /\ snap[job.op].old = asked[job.op].old
        /\ snap[job.op].new = asked[job.op].new
    BY <1>1, <1>9 DEF CInv, ModesInv, RestorePhases
  <2>2. results[job.op]["apply"] # "applied" /\ Req(job.op, "finalize") \notin requests
    BY <1>2, <1>6, <1>9, FirstApply
  <2>3. snap'[job.op].phase = "applied" => row' = asked[job.op].new
    BY <1>3, <1>4, <1>5, <1>6, <2>1
  <2>4. hpc' # "apply_snapshot" /\ (hpc' = "publish" => row' = asked[job.op].new)
    BY <1>5, <2>1
  <2> QED
    BY <1>1, <1>5, <1>7, <1>9, <2>1, <2>2, <2>3, <2>4, ModesKeep
<1>10. ASSUME Alone, ~raced PROVE ServedInv'
  <2>1. Req(job.op, "finalize") \notin requests
    BY <1>2, <1>6, <1>10, FirstApply
  <2>2. snap'[job.op].phase = "snapshot" =>
          snap[job.op].phase = "snapshot" /\ UNCHANGED <<live, row>>
    BY <1>3, <1>5, <1>6
  <2>3. snap'[job.op].phase = "snapshot" => live' = row' /\ row' = snap'[job.op].old
    BY <1>1, <1>5, <1>10, <2>2 DEF CInv, ServedInv
  <2> QED
    BY <1>1, <1>5, <1>7, <1>10, <2>1, <2>3, ServedKeep DEF RestorePhases
<1> QED
  BY <1>6, <1>7, <1>8, <1>9, <1>10, OwnTogether

(***************************************************************************)
(* The rollback                                                            *)
(***************************************************************************)

\* What a rollback is about while it works.
LEMMA RollbackNow ==
  ASSUME IInv, FInv, CInv, hpc \in RollbackPcs
  PROVE  /\ job \in Jobs /\ job.op \in Ops /\ At(hpc) /\ asked[job.op] # NotAsked
         /\ job.act \in {"apply", "rollback", "recover"}
         /\ snap[job.op].phase \in RestorePhases
         /\ \A act \in {"apply", "finalize"} :
              Req(job.op, act) \in requests => snap[job.op].phase # "applied"
<1> USE DEF HandlerPcs, ApplyPcs, RollbackPcs
<1>1. /\ job \in Jobs /\ job.op \in Ops
      /\ job.act \in {"apply", "rollback", "recover"}
      /\ snap[job.op].phase \in RestorePhases
  BY DEF IInv, ControlInv, Jobs
<1>2. asked[job.op] # NotAsked
  BY <1>1, AskedNow DEF RestorePhases, WorkingPhases
<1> QED
  BY <1>1, <1>2, NotApplied DEF At

\* A step of the rollback before its end: the snapshot stays.
Undoing ==
  /\ UNCHANGED <<asked, requests, results, batch, job, raced, snap>>
  /\ hpc \in RollbackPcs /\ hpc' \in RollbackPcs
  /\ hpc' \in {"rollback_remove", "rollback_add"} => snap[job.op].phase # "snapshot"
  /\ snap[job.op].phase = "snapshot" => live' = live /\ (row' = row \/ row' = snap[job.op].old)
  /\ hpc' \in {"rollback_restore", "rollback_verify"} =>
       \/ live' = snap[job.op].old
       \/ live' = live /\ hpc = "rollback_restore"
       \/ UNCHANGED <<live, row>> /\ snap[job.op].phase = "snapshot"
  /\ hpc' = "rollback_verify" => row' = snap[job.op].old

LEMMA UndoSteps ==
  ASSUME IInv, FInv, CInv,
         \/ RollbackSnapshot \/ RollbackRemove \/ RollbackAdd \/ RollbackRestore
  PROVE  Undoing
<1> USE DEF HandlerPcs, ApplyPcs, RollbackPcs, At, Goto, Say, RollbackFails, spoolVars
<1>1. hpc \in {"rollback_remove", "rollback_add"} => snap[job.op].phase # "snapshot"
  BY DEF CInv, PhaseInv
<1>2. CASE RollbackSnapshot
  BY <1>2 DEF RollbackSnapshot, Undoing
<1>3. CASE RollbackRemove
  BY <1>1, <1>3 DEF RollbackRemove, Undoing
<1>4. CASE RollbackAdd
  BY <1>1, <1>4 DEF RollbackAdd, Undoing
<1>5. CASE RollbackRestore
  BY <1>5 DEF RollbackRestore, Undoing
<1> QED
  BY <1>2, <1>3, <1>4, <1>5

LEMMA UndoSafe == ASSUME IInv, FInv, CInv, Undoing PROVE CInv'
<1> USE DEF HandlerPcs, ApplyPcs, RollbackPcs
<1>1. /\ UNCHANGED <<asked, requests, results, batch, job, raced, snap>>
      /\ hpc \in RollbackPcs /\ hpc' \in RollbackPcs
  BY DEF Undoing
<1>2. /\ job \in Jobs /\ job.op \in Ops /\ asked[job.op] # NotAsked
      /\ snap[job.op].phase \in RestorePhases
      /\ \A act \in {"apply", "finalize"} :
           Req(job.op, act) \in requests => snap[job.op].phase # "applied"
  BY <1>1, RollbackNow
<1>3. Own
  BY <1>1, <1>2 DEF Own
<1>4. PhaseInv'
  BY <1>1 DEF Undoing, CInv, PhaseInv
<1>5. ASSUME Alone PROVE ModesInv'
  <2>1. /\ snap[job.op].old = asked[job.op].old
        /\ snap[job.op].new = asked[job.op].new
    BY <1>2, <1>5 DEF CInv, ModesInv
  <2>2. Req(job.op, "apply") \in requests =>
          results[job.op]["apply"] # "applied" /\ Req(job.op, "finalize") \notin requests
    BY <1>1, <1>5, FirstApply
  <2> QED
    BY <1>1, <1>2, <1>3, <1>5, <2>1, <2>2, ModesKeep
<1>6. ASSUME Alone, ~raced PROVE ServedInv'
  <2>1. ServedInv
    BY <1>6 DEF CInv
  <2>2. snap[job.op].phase = "snapshot" => live = row /\ row = snap[job.op].old
    BY <1>2, <2>1 DEF ServedInv
  <2>3. snap[job.op].phase = "snapshot" => live' = row' /\ row' = snap[job.op].old
    BY <2>2 DEF Undoing
  <2>4. hpc' \in {"rollback_restore", "rollback_verify"} => live' = snap[job.op].old
    BY <2>1, <2>2 DEF Undoing, ServedInv
  <2>5. hpc' = "rollback_verify" => row' = snap[job.op].old
    BY DEF Undoing
  <2> QED
    BY <1>1, <1>2, <1>3, <1>6, <2>3, <2>4, <2>5, ServedKeep
<1> QED
  BY <1>1, <1>3, <1>4, <1>5, <1>6, OwnTogether

\* The end of a rollback: the snapshot goes when its modes are served, and is
\* kept, or quarantined, otherwise.
Done ==
  /\ UNCHANGED <<asked, requests, results, batch, job, raced, live, row>>
  /\ hpc \in RollbackPcs
  /\ \/ hpc' = "publish" /\ verdict' # "applied"
     \/ hpc' = "sweep" /\ job.act = "recover"
  /\ \/ snap' = snap
     \/ snap' = [snap EXCEPT ![job.op].phase = "repair_required"]
     \/ /\ hpc = "rollback_verify"
        /\ \E p \in {"none", "rolled_back"} : snap' = [snap EXCEPT ![job.op] = Bare(p)]

LEMMA DoneSteps ==
  ASSUME IInv, FInv, CInv, RollbackVerify \/ RollbackFailed
  PROVE  Undoing \/ Done
<1> USE DEF HandlerPcs, ApplyPcs, RollbackPcs, At, Goto, Say, Phase, RollbackFails, spoolVars
<1>1. CASE RollbackVerify
  <2>1. /\ UNCHANGED <<asked, requests, results, batch, job, raced, live, row>>
        /\ hpc = "rollback_verify"
    BY <1>1 DEF RollbackVerify
  <2>2. \/ hpc' = "rollback_failed" /\ snap' = snap
        \/ /\ \/ hpc' = "publish" /\ verdict' # "applied"
              \/ hpc' = "sweep" /\ job.act = "recover"
           /\ \/ snap' = [snap EXCEPT ![job.op] = Bare("none")]
              \/ snap' = [snap EXCEPT ![job.op] = Bare("rolled_back")]
    BY <1>1 DEF RollbackVerify
  <2>3. CASE hpc' = "rollback_failed" /\ snap' = snap
    BY <2>1, <2>3 DEF Undoing
  <2>4. CASE hpc' # "rollback_failed"
    BY <2>1, <2>2, <2>4 DEF Done
  <2> QED
    BY <2>2, <2>3, <2>4
<1>2. CASE RollbackFailed
  <2>1. /\ UNCHANGED <<asked, requests, results, batch, job, raced, live, row>>
        /\ hpc = "rollback_failed"
    BY <1>2 DEF RollbackFailed
  <2>2. /\ \/ hpc' = "publish" /\ verdict' # "applied"
           \/ hpc' = "sweep" /\ job.act = "recover"
        /\ snap' = snap \/ snap' = [snap EXCEPT ![job.op].phase = "repair_required"]
    BY <1>2 DEF RollbackFailed
  <2> QED
    BY <2>1, <2>2 DEF Done
<1> QED
  BY <1>1, <1>2

LEMMA DoneSafe == ASSUME IInv, FInv, CInv, Done PROVE CInv'
<1> USE DEF HandlerPcs, ApplyPcs, RollbackPcs
<1>1. /\ UNCHANGED <<asked, requests, results, batch, job, raced, live, row>>
      /\ hpc \in RollbackPcs
      /\ \/ hpc' = "publish" /\ verdict' # "applied"
         \/ hpc' = "sweep" /\ job.act = "recover"
  BY DEF Done
<1>2. /\ job \in Jobs /\ job.op \in Ops /\ asked[job.op] # NotAsked /\ At(hpc)
      /\ snap[job.op].phase \in RestorePhases
      /\ \A act \in {"apply", "finalize"} :
           Req(job.op, act) \in requests => snap[job.op].phase # "applied"
  BY <1>1, RollbackNow
<1>3. /\ \A op \in Ops : op # job.op => snap'[op] = snap[op]
      /\ \/ snap'[job.op] = snap[job.op]
         \/ /\ snap'[job.op].phase = "repair_required"
            /\ snap'[job.op].old = snap[job.op].old
            /\ snap'[job.op].new = snap[job.op].new
         \/ hpc = "rollback_verify" /\ snap'[job.op].phase \in {"none", "rolled_back"}
  <2>1. CASE snap' = snap
    BY <2>1
  <2>2. CASE snap' = [snap EXCEPT ![job.op].phase = "repair_required"]
    BY <1>2, <2>2, PhaseOnly
  <2>3. ASSUME NEW p \in {"none", "rolled_back"}, snap' = [snap EXCEPT ![job.op] = Bare(p)]
        PROVE  snap'[job.op].phase = p /\ \A op \in Ops : op # job.op => snap'[op] = snap[op]
    BY <1>2, <2>3, OneEntry, BareEntry
  <2> QED
    BY <2>1, <2>2, <2>3 DEF Done
<1>4. Own
  BY <1>1, <1>2, <1>3 DEF Own, RestorePhases, WorkingPhases
<1>5. PhaseInv'
  BY <1>1 DEF PhaseInv
<1>6. ASSUME Alone PROVE ModesInv'
  <2>1. /\ snap[job.op].old = asked[job.op].old
        /\ snap[job.op].new = asked[job.op].new
    BY <1>2, <1>6 DEF CInv, ModesInv
  <2>2. Req(job.op, "apply") \in requests =>
          results[job.op]["apply"] # "applied" /\ Req(job.op, "finalize") \notin requests
    BY <1>1, <1>6, FirstApply
  <2>3. snap'[job.op].phase \in RestorePhases =>
          snap'[job.op].old = asked[job.op].old /\ snap'[job.op].new = asked[job.op].new
    BY <1>3, <2>1 DEF RestorePhases, WorkingPhases
  <2>4. Req(job.op, "apply") \in requests => snap'[job.op].phase # "applied"
    BY <1>2, <1>3
  <2> QED
    BY <1>1, <1>2, <1>4, <1>6, <2>2, <2>3, <2>4, ModesKeep
<1>7. ASSUME Alone, ~raced PROVE ServedInv'
  <2>1. ServedInv
    BY <1>7 DEF CInv
  <2>2. hpc = "rollback_verify" => live = row
    BY <2>1 DEF ServedInv
  <2>3. live # row => snap'[job.op].phase \in RestorePhases
    BY <1>2, <1>3, <2>2 DEF RestorePhases
  <2>4. snap'[job.op].phase = "snapshot" => live = row /\ row = snap'[job.op].old
    BY <1>2, <1>3, <2>1 DEF ServedInv
  <2>5. ~(Req(job.op, "finalize") \in requests /\ snap'[job.op].phase = "applied")
    BY <1>2, <1>3
  <2> QED
    BY <1>1, <1>2, <1>4, <1>7, <2>3, <2>4, <2>5, ServedKeep
<1> QED
  BY <1>1, <1>4, <1>5, <1>6, <1>7, OwnTogether

LEMMA RollbackSafe == ASSUME IInv, FInv, CInv, RollbackSteps PROVE CInv'
BY UndoSteps, DoneSteps, UndoSafe, DoneSafe DEF RollbackSteps

(***************************************************************************)
(* finalize, renew, rollback                                               *)
(***************************************************************************)

LEMMA StillTogether ==
  ASSUME IInv, FInv, CInv, Own, Still, PhaseInv' PROVE CInv'
BY OwnKeeps, StillKeeps, Together

LEMMA FinalizeSafe == ASSUME IInv, FInv, CInv, Finalize PROVE CInv'
<1> USE DEF HandlerPcs, ApplyPcs, RollbackPcs
<1>1. /\ UNCHANGED <<asked, requests, results, batch, job, raced, live, row>>
      /\ hpc = "finalize" /\ At(hpc) /\ hpc' = "publish" /\ job.op \in Ops
  BY DEF Finalize, At, Say, spoolVars
<1>2. job \in Jobs /\ job.act = "finalize"
  BY <1>1 DEF IInv, ControlInv
<1>3. Req(job.op, "finalize") \in requests
  BY <1>1, <1>2, JobIs DEF FInv, InSpool
<1>4. PhaseInv'
  BY <1>1 DEF PhaseInv
<1>5. CASE snap' = snap
  <2>1. Own
    BY <1>1, <1>2, <1>5 DEF Own
  <2>2. Still
    BY <1>1, <1>2, <1>5 DEF Still
  <2> QED
    BY <1>4, <2>1, <2>2, StillTogether
<1>6. CASE snap' # snap
  <2>1. /\ snap[job.op].phase \in {"applied", "finalized"}
        /\ snap' = [snap EXCEPT ![job.op] = Bare("finalized")]
    BY <1>1, <1>6 DEF Finalize
  <2>2. /\ \A op \in Ops : op # job.op => snap'[op] = snap[op]
        /\ snap'[job.op].phase = "finalized"
    BY <1>1, <2>1, OneEntry, BareEntry
  <2>3. asked[job.op] # NotAsked
    BY <1>1, <2>1, AskedNow
  <2>4. Own
    BY <1>1, <1>2, <2>1, <2>2 DEF Own, WorkingPhases
  <2>5. ASSUME Alone PROVE ModesInv'
    <3>1. Req(job.op, "apply") \in requests => row = asked[job.op].new
      BY <1>1, <1>3, <2>5 DEF CInv, ModesInv
    <3> QED
      BY <1>1, <1>2, <2>2, <2>3, <2>4, <2>5, <3>1, ModesKeep DEF RestorePhases, WorkingPhases
  <2>6. ASSUME Alone, ~raced PROVE ServedInv'
    <3>1. ServedInv
      BY <2>6 DEF CInv
    <3>2. CASE snap[job.op].phase = "applied"
      BY <1>1, <1>3, <2>2, <2>3, <2>4, <2>6, <3>1, <3>2, ServedKeep DEF ServedInv
    <3>3. CASE snap[job.op].phase = "finalized"
      <4>1. live # row => \E op \in Ops : snap[op].phase \in RestorePhases
        BY <3>1 DEF ServedInv
      <4>2. live = row
        BY <1>1, <2>3, <2>6, <3>3, <4>1, Others DEF RestorePhases, WorkingPhases
      <4> QED
        BY <1>1, <2>2, <2>3, <2>4, <2>6, <4>2, ServedKeep
    <3> QED
      BY <2>1, <3>2, <3>3
  <2> QED
    BY <1>1, <1>4, <2>4, <2>5, <2>6, OwnTogether
<1> QED
  BY <1>5, <1>6

LEMMA RenewSafe == ASSUME IInv, FInv, CInv, Renew PROVE CInv'
<1> USE DEF HandlerPcs, ApplyPcs, RollbackPcs
<1>1. /\ UNCHANGED <<asked, requests, results, batch, job, raced, live, row>>
      /\ hpc = "renew" /\ At(hpc) /\ hpc' = "publish" /\ job.op \in Ops
  BY DEF Renew, At, Say, spoolVars
<1>2. job \in Jobs /\ job.act = "renew"
  BY <1>1 DEF IInv, ControlInv
<1>3. PhaseInv'
  BY <1>1 DEF PhaseInv
<1>4. CASE snap' = snap
  <2>1. Own
    BY <1>1, <1>2, <1>4 DEF Own
  <2>2. Still
    BY <1>1, <1>2, <1>4 DEF Still
  <2> QED
    BY <1>3, <2>1, <2>2, StillTogether
<1>5. CASE snap' # snap
  <2>1. /\ snap[job.op].phase = "applied"
        /\ snap' = [snap EXCEPT ![job.op].fresh = TRUE]
    BY <1>1, <1>5 DEF Renew
  <2>2. /\ \A op \in Ops : op # job.op => snap'[op] = snap[op]
        /\ snap'[job.op].phase = snap[job.op].phase
        /\ snap'[job.op].old = snap[job.op].old
        /\ snap'[job.op].new = snap[job.op].new
        /\ snap'[job.op].fresh
    BY <1>1, <2>1 DEF IInv, TypeOK, SnapOK, Snapshots
  <2>3. asked[job.op] # NotAsked
    BY <1>1, <2>1, AskedNow
  <2>4. Own
    BY <1>1, <1>2, <2>1, <2>2 DEF Own, WorkingPhases
  <2>5. ASSUME Alone PROVE ModesInv'
    <3>1. ModesInv
      BY <2>5 DEF CInv
    <3>2. /\ snap[job.op].phase \in RestorePhases =>
               snap[job.op].old = asked[job.op].old /\ snap[job.op].new = asked[job.op].new
          /\ Req(job.op, "apply") \in requests =>
               /\ snap[job.op].phase = "applied" => row = asked[job.op].new
               /\ results[job.op]["apply"] = "applied" \/ Req(job.op, "finalize") \in requests
                    => row = asked[job.op].new
      BY <1>1, <3>1 DEF ModesInv
    <3> QED
      BY <1>1, <1>2, <2>2, <2>3, <2>4, <2>5, <3>2, ModesKeep
  <2>6. ASSUME Alone, ~raced PROVE ServedInv'
    <3>1. ServedInv
      BY <2>6 DEF CInv
    <3> QED
      BY <1>1, <2>1, <2>2, <2>3, <2>4, <2>6, <3>1, ServedKeep
      DEF ServedInv, RestorePhases, WorkingPhases
  <2> QED
    BY <1>1, <1>3, <2>4, <2>5, <2>6, OwnTogether
<1> QED
  BY <1>4, <1>5

LEMMA RollbackBegins == ASSUME IInv, FInv, CInv, Rollback PROVE CInv'
<1> USE DEF HandlerPcs, ApplyPcs, RollbackPcs
<1>1. /\ UNCHANGED <<asked, requests, results, batch, job, raced, live, row, snap>>
      /\ hpc = "rollback" /\ hpc' \in {"publish", "rollback_snapshot"} /\ job.op \in Ops
  BY DEF Rollback, At, Say, Goto, diskVars, spoolVars
<1>2. job.act = "rollback"
  BY <1>1 DEF IInv, ControlInv
<1>3. PhaseInv'
  BY <1>1, <1>2 DEF PhaseInv
<1>4. Own
  BY <1>1, <1>2 DEF Own
<1>5. Still
  BY <1>1, <1>2 DEF Still
<1> QED
  BY <1>3, <1>4, <1>5, StillTogether

(***************************************************************************)
(* The cycle                                                               *)
(***************************************************************************)

\* A step of the cycle that only moves the helper along its listing.
LEMMA CycleKeeps ==
  ASSUME CInv, UNCHANGED <<asked, requests, results, live, row, snap, raced>>,
         hpc' \in {"idle", "spool", "sweep", "rollback_snapshot"} \union Acts,
         hpc' \in HandlerPcs => job'.act \in {"recover", hpc'},
         hpc' = "rollback_snapshot" => job'.act = "recover",
         RecoverLast', FinalizeFirst'
  PROVE  CInv'
<1> USE DEF HandlerPcs, ApplyPcs, RollbackPcs, Acts
<1>1. AskedFirst'
  BY DEF CInv, AskedFirst
<1>2. PhaseInv'
  BY DEF PhaseInv
<1>3. Still
  BY DEF Still
<1> QED
  BY <1>1, <1>2, <1>3, StillKeeps, Together

LEMMA WakeSafe == ASSUME IInv, FInv, CInv, Wake PROVE CInv'
<1> USE DEF HandlerPcs, ApplyPcs, RollbackPcs, Acts
<1>1. /\ UNCHANGED <<asked, requests, results, live, row, snap, raced>>
      /\ hpc' = "spool" /\ batch' = requests
  BY DEF Wake, spoolVars, diskVars
<1>2. \A r \in requests : r.act # "recover"
  BY DEF IInv, TypeOK
<1>3. RecoverLast'
  BY <1>1, <1>2, ReqIs DEF RecoverLast
<1>4. FinalizeFirst'
  BY <1>1 DEF FinalizeFirst, Busy
<1> QED
  BY <1>1, <1>3, <1>4, CycleKeeps

\* The first of the listing is no rollback while the finalize is in it too.
LEMMA TakeSafe == ASSUME IInv, FInv, CInv, Take PROVE CInv'
<1> USE DEF HandlerPcs, ApplyPcs, RollbackPcs, Acts
<1>1. PICK r \in batch : /\ First(r, batch) /\ job' = r /\ hpc' = r.act
                         /\ batch' = batch \ {r}
  BY DEF Take
<1>2. /\ UNCHANGED <<asked, requests, results, live, row, snap, raced>> /\ hpc = "spool"
      /\ r \in Jobs
  BY DEF Take, spoolVars, diskVars, IInv, TypeOK
<1>3. \A s \in batch : s.act # "recover"
  BY <1>2 DEF IInv, SweepInv, Recovering
<1>4. r.act \in Acts
  BY <1>2, <1>3 DEF Jobs
<1>5. RecoverLast'
  <2> SUFFICES ASSUME NEW op \in Ops, NEW act \in {"apply", "finalize"},
                      Req(op, act) \in requests
               PROVE  /\ Req(op, "recover") \notin batch'
                      /\ ~(hpc' \in RollbackPcs /\ job' = Req(op, "recover"))
                      /\ snap[op].phase \in WorkingPhases =>
                           \/ act = "finalize" /\ snap[op].fresh
                           \/ hpc' = "idle" \/ Req(op, act) \in batch'
                           \/ Busy(Req(op, act))'
    BY <1>1, <1>2, <1>3, <1>4 DEF RecoverLast
  <2>1. ~Busy(Req(op, act))
    BY <1>2 DEF Busy
  <2>2. r = Req(op, act) => Busy(Req(op, act))'
    BY <1>1, ReqIs DEF Busy
  <2>3. Req(op, "recover") \notin batch
    BY <1>3, ReqIs
  <2> QED
    BY <1>1, <1>2, <1>4, <2>1, <2>2, <2>3 DEF CInv, RecoverLast
<1>6. FinalizeFirst'
  <2> SUFFICES ASSUME NEW op \in Ops, Req(op, "finalize") \in requests
               PROVE  /\ ~Busy(Req(op, "rollback"))'
                      /\ Req(op, "rollback") \in batch' =>
                           Req(op, "finalize") \in batch' \/ Busy(Req(op, "finalize"))'
    BY <1>2 DEF FinalizeFirst
  <2>1. Req(op, "rollback") \in batch => Req(op, "finalize") \in batch
    BY <1>2 DEF CInv, FinalizeFirst, Busy
  <2>2. r # Req(op, "rollback")
    <3>1. Rank[op] \in Nat
      BY OpsAssumption
    <3>2. ~Precedes(Req(op, "rollback"), Req(op, "finalize"))
      BY <3>1 DEF Precedes, Req, ActRank
    <3> QED
      BY <1>1, <2>1, <3>2 DEF First
  <2>3. r = Req(op, "finalize") => Busy(Req(op, "finalize"))'
    BY <1>1, ReqIs DEF Busy
  <2> QED
    BY <1>1, <2>1, <2>2, <2>3 DEF Busy
<1> QED
  BY <1>1, <1>2, <1>4, <1>5, <1>6, CycleKeeps

\* What recovery finds expired has no apply or finalize left in the spool: the
\* helper has been through all of them.
LEMMA SweepSafe == ASSUME IInv, FInv, CInv, Sweep PROVE CInv'
<1> USE DEF HandlerPcs, ApplyPcs, RollbackPcs, Acts
<1>1. /\ UNCHANGED <<asked, requests, results, live, row, snap, raced>>
      /\ hpc = "spool" /\ hpc' = "sweep" /\ batch = {}
      /\ batch' = {Req(op, "recover") : op \in {o \in Ops : Expired(o)}}
  BY DEF Sweep, spoolVars, diskVars, Req
<1>2. ASSUME NEW r \in batch'
      PROVE  r.act = "recover" /\ \E op \in Ops : r = Req(op, "recover") /\ Expired(op)
  BY <1>1, <1>2, ReqIs
<1>3. RecoverLast'
  <2>1. ASSUME NEW r \in batch' PROVE ~snap[r.op].fresh
    BY <1>2, ReqIs DEF Expired
  <2>2. ASSUME NEW op \in Ops, NEW act \in {"apply", "finalize"}, Req(op, act) \in requests
        PROVE  /\ Req(op, "recover") \notin batch'
               /\ snap[op].phase \in WorkingPhases => act = "finalize" /\ snap[op].fresh
    <3>1. snap[op].phase \in WorkingPhases => act = "finalize" /\ snap[op].fresh
      BY <1>1, <2>2 DEF CInv, RecoverLast, Busy
    <3>2. ~Expired(op)
      BY <3>1 DEF Expired
    <3> QED
      BY <1>2, <3>1, <3>2, ReqIs
  <2> QED
    BY <1>1, <2>1, <2>2 DEF RecoverLast
<1>4. FinalizeFirst'
  BY <1>1, <1>2, ReqIs DEF FinalizeFirst, Busy
<1> QED
  BY <1>1, <1>3, <1>4, CycleKeeps

LEMMA RecoverSafe == ASSUME IInv, FInv, CInv, Recover PROVE CInv'
<1> USE DEF HandlerPcs, ApplyPcs, RollbackPcs, Acts
<1>1. PICK r \in batch : /\ job' = r /\ hpc' = "rollback_snapshot"
                         /\ batch' = batch \ {r}
  BY DEF Recover
<1>2. /\ UNCHANGED <<asked, requests, results, live, row, snap, raced>> /\ hpc = "sweep"
      /\ \A s \in batch : s.act = "recover"
  BY DEF Recover, spoolVars, diskVars, IInv, SweepInv, Recovering
<1>3. RecoverLast'
  <2>1. (\A s \in batch' : ~snap[s.op].fresh) /\ ~snap[r.op].fresh
    BY <1>1, <1>2 DEF CInv, RecoverLast
  <2>2. ASSUME NEW op \in Ops, NEW act \in {"apply", "finalize"}, Req(op, act) \in requests
        PROVE  /\ Req(op, "recover") \notin batch
               /\ snap[op].phase \in WorkingPhases => act = "finalize" /\ snap[op].fresh
    BY <1>2, <2>2, ReqIs DEF CInv, RecoverLast, Busy
  <2> QED
    BY <1>1, <1>2, <2>1, <2>2 DEF RecoverLast
<1>4. FinalizeFirst'
  BY <1>1, <1>2, ReqIs DEF FinalizeFirst, Busy
<1> QED
  BY <1>1, <1>2, <1>3, <1>4, CycleKeeps

LEMMA StopSafe == ASSUME IInv, FInv, CInv, Exit \/ HelperCrash PROVE CInv'
<1> USE DEF HandlerPcs, ApplyPcs, RollbackPcs, Acts
<1>1. /\ UNCHANGED <<asked, requests, results, live, row, snap, raced>>
      /\ hpc' = "idle" /\ batch' = {}
  BY DEF Exit, HelperCrash, spoolVars, diskVars
<1>2. RecoverLast' /\ FinalizeFirst'
  BY <1>1 DEF RecoverLast, FinalizeFirst, Busy
<1> QED
  BY <1>1, <1>2, CycleKeeps

\* An apply is answered for an operation that was asked for, in its new mode.
LEMMA PublishSafe == ASSUME IInv, FInv, CInv, PublishResult PROVE CInv'
<1> USE DEF HandlerPcs, ApplyPcs, RollbackPcs
<1>1. /\ UNCHANGED <<asked, requests, job, verdict, batch, snap, live, row, raced>>
      /\ hpc = "publish" /\ hpc' = "unlink" /\ job \in Jobs /\ job.op \in Ops
      /\ results' = [results EXCEPT ![job.op][job.act] = verdict]
  BY DEF PublishResult, At, diskVars, IInv, ControlInv
<1>2. ASSUME NEW op \in Ops, results'[op]["apply"] # results[op]["apply"]
      PROVE  op = job.op /\ job.act = "apply" /\ results'[op]["apply"] = verdict
  <2>1. results \in [Ops -> [Acts -> Verdicts]] /\ "apply" \in Acts
    BY DEF IInv, TypeOK, Acts
  <2>2. op = job.op /\ job.act = "apply"
    BY <1>1, <1>2, <2>1
  <2>3. results'[op] = [results[op] EXCEPT !["apply"] = verdict]
    BY <1>1, <2>1, <2>2
  <2> QED
    BY <2>1, <2>2, <2>3
<1>3. job.act = "apply" => asked[job.op] # NotAsked
  BY <1>1, AskedNow
<1>4. AskedFirst'
  BY <1>1, <1>2, <1>3 DEF CInv, AskedFirst
<1>5. PhaseInv'
  BY <1>1 DEF PhaseInv
<1>6. Busy(job)' /\ Busy(job) /\ \A r : Busy(r)' <=> Busy(r)
  BY <1>1 DEF Busy
<1>7. RecoverLast'
  BY <1>1, <1>6 DEF CInv, RecoverLast
<1>8. FinalizeFirst'
  BY <1>1, <1>6 DEF CInv, FinalizeFirst
<1>9. Alone' = Alone
  BY <1>1 DEF Alone
<1>10. ASSUME Alone PROVE ModesInv'
  <2>1. ModesInv
    BY <1>10 DEF CInv
  <2>2. ASSUME NEW op \in Ops, Req(op, "apply") \in requests
        PROVE  /\ snap[op].phase = "applied" => row = asked[op].new
               /\ results'[op]["apply"] = "applied" \/ Req(op, "finalize") \in requests
                    => row = asked[op].new
    <3>1. results'[op]["apply"] = "applied" =>
            \/ results[op]["apply"] = "applied"
            \/ op = job.op /\ job.act = "apply" /\ verdict = "applied"
      BY <1>2
    <3> QED
      BY <1>1, <2>1, <2>2, <3>1 DEF ModesInv
  <2>3. \A op \in Ops : snap[op].phase \in RestorePhases
                          => snap[op].old = asked[op].old /\ snap[op].new = asked[op].new
    BY <2>1 DEF ModesInv
  <2> QED
    BY <1>1, <2>2, <2>3 DEF ModesInv
<1>11. ASSUME Alone, ~raced PROVE ServedInv'
  BY <1>1, <1>11 DEF CInv, ServedInv
<1> QED
  BY <1>1, <1>4, <1>5, <1>7, <1>8, <1>9, <1>10, <1>11, Together

LEMMA UnlinkSafe == ASSUME IInv, FInv, CInv, Unlink PROVE CInv'
<1> USE DEF HandlerPcs, ApplyPcs, RollbackPcs
<1>1. /\ UNCHANGED <<asked, results, batch, snap, live, row, raced>>
      /\ hpc = "unlink" /\ hpc' = "spool" /\ job \in Jobs
      /\ requests' = requests \ {job}
  BY DEF Unlink, At, diskVars, IInv, ControlInv
<1>2. AskedFirst'
  BY <1>1 DEF CInv, AskedFirst
<1>3. PhaseInv'
  BY <1>1 DEF PhaseInv
<1>4. ASSUME NEW r \in requests' PROVE r \in requests /\ ~Busy(r)
  BY <1>1, <1>4 DEF Busy
<1>5. RecoverLast'
  <2>1. ASSUME NEW op \in Ops, NEW act \in {"apply", "finalize"}, Req(op, act) \in requests'
        PROVE  /\ Req(op, "recover") \notin batch
               /\ snap[op].phase \in WorkingPhases =>
                    \/ act = "finalize" /\ snap[op].fresh
                    \/ Req(op, act) \in batch
    <3>1. Req(op, act) \in requests /\ ~Busy(Req(op, act))
      BY <1>4, <2>1
    <3> QED
      BY <1>1, <3>1 DEF CInv, RecoverLast
  <2>2. \A r \in batch : r.act = "recover" => ~snap[r.op].fresh
    BY DEF CInv, RecoverLast
  <2> QED
    BY <1>1, <2>1, <2>2 DEF RecoverLast
<1>6. FinalizeFirst'
  <2>1. ASSUME NEW op \in Ops, Req(op, "finalize") \in requests'
        PROVE  Req(op, "rollback") \in batch => Req(op, "finalize") \in batch
    BY <1>4, <2>1 DEF CInv, FinalizeFirst
  <2> QED
    BY <1>1, <2>1 DEF FinalizeFirst, Busy
<1>7. Still
  BY <1>1 DEF Still
<1> QED
  BY <1>2, <1>3, <1>5, <1>6, <1>7, StillKeeps, Together

(***************************************************************************)
(* The Gateway and the environment                                         *)
(***************************************************************************)

\* Neither a renew nor a rollback asked for, nor a lease that runs out, touches
\* what is served or who comes first.
LEMMA LeaseSafe ==
  ASSUME IInv, FInv, CInv, NEW op \in Ops, LeaseExpires(op) PROVE CInv'
<1> USE DEF HandlerPcs, ApplyPcs, RollbackPcs
<1>1. /\ UNCHANGED <<asked, requests, results, live, row, raced, hpc, job, verdict, batch>>
      /\ Req(op, "finalize") \in requests => hpc = "idle"
      /\ snap' = [snap EXCEPT ![op].fresh = FALSE]
  BY DEF LeaseExpires, spoolVars, procVars, Req
<1>2. /\ \A o \in Ops : /\ snap'[o].phase = snap[o].phase
                        /\ snap'[o].old = snap[o].old
                        /\ snap'[o].new = snap[o].new
                        /\ snap'[o].fresh => snap[o].fresh
      /\ \A o \in Ops : o # op => snap'[o].fresh = snap[o].fresh
  BY <1>1 DEF IInv, TypeOK, SnapOK, Snapshots
<1>3. hpc \in HandlerPcs => job.op \in Ops
  BY DEF IInv, ControlInv, Jobs
<1>4. \A r \in batch : r.op \in Ops
  BY DEF IInv, TypeOK, Jobs
<1>5. AskedFirst' /\ FinalizeFirst'
  BY <1>1, <1>2 DEF CInv, AskedFirst, FinalizeFirst, Busy
<1>6. PhaseInv'
  BY <1>1, <1>2, <1>3 DEF CInv, PhaseInv
<1>7. RecoverLast'
  <2>1. ASSUME NEW o \in Ops, NEW act \in {"apply", "finalize"}, Req(o, act) \in requests
        PROVE  /\ Req(o, "recover") \notin batch
               /\ ~(hpc \in RollbackPcs /\ job = Req(o, "recover"))
               /\ snap[o].phase \in WorkingPhases =>
                    \/ act = "finalize" /\ snap'[o].fresh
                    \/ hpc = "idle" \/ Req(o, act) \in batch \/ Busy(Req(o, act))
    BY <1>1, <1>2, <2>1 DEF CInv, RecoverLast
  <2>2. \A r \in batch : r.act = "recover" => ~snap'[r.op].fresh
    BY <1>2, <1>4 DEF CInv, RecoverLast
  <2>3. hpc \in RollbackPcs /\ job.act = "recover" => ~snap'[job.op].fresh
    BY <1>2, <1>3 DEF CInv, RecoverLast
  <2> QED
    BY <1>1, <1>2, <2>1, <2>2, <2>3 DEF RecoverLast, Busy
<1>8. Alone' = Alone
  BY <1>1 DEF Alone
<1>9. ASSUME Alone PROVE ModesInv'
  BY <1>1, <1>2, <1>9 DEF CInv, ModesInv, Busy
<1>10. ASSUME Alone, ~raced PROVE ServedInv'
  BY <1>1, <1>2, <1>3, <1>10 DEF CInv, ServedInv
<1> QED
  BY <1>1, <1>5, <1>6, <1>7, <1>8, <1>9, <1>10, Together

\* A request that is neither an apply nor a finalize.
LEMMA AddsNothing ==
  ASSUME CInv, UNCHANGED <<asked, live, row, snap, raced, hpc, job, verdict, batch>>,
         \A o \in Ops : results'[o]["apply"] = results[o]["apply"],
         \A o \in Ops, act \in {"apply", "finalize"} :
           Req(o, act) \in requests' <=> Req(o, act) \in requests
  PROVE  CInv'
<1>1. AskedFirst' /\ PhaseInv' /\ RecoverLast' /\ FinalizeFirst'
  BY DEF CInv, AskedFirst, PhaseInv, RecoverLast, FinalizeFirst, Busy
<1>2. Alone' = Alone
  BY DEF Alone
<1>3. ASSUME Alone PROVE ModesInv'
  BY <1>3 DEF CInv, ModesInv, Busy
<1>4. ASSUME Alone, ~raced PROVE ServedInv'
  BY <1>4 DEF CInv, ServedInv
<1> QED
  BY <1>1, <1>2, <1>3, <1>4, Together

LEMMA SubmitSafe ==
  ASSUME IInv, FInv, CInv, NEW op \in Ops, SubmitRenew(op) \/ SubmitRollback(op)
  PROVE  CInv'
<1>1. /\ UNCHANGED <<asked, live, row, snap, raced, hpc, job, verdict, batch>>
      /\ \A o \in Ops : results'[o]["apply"] = results[o]["apply"]
      /\ \E act \in {"renew", "rollback"} : requests' = requests \union {Req(op, act)}
  BY DEF SubmitRenew, SubmitRollback, Publish, diskVars, procVars, Req, IInv, TypeOK, Acts
<1>2. \A o \in Ops, act \in {"apply", "finalize"} :
        Req(o, act) \in requests' <=> Req(o, act) \in requests
  BY <1>1, ReqIs
<1> QED
  BY <1>1, <1>2, AddsNothing

\* x-ui serves the row again; only a rollback that has still to restore the row
\* is disturbed by that, and it is counted as raced.
LEMMA RestartSafe == ASSUME IInv, FInv, CInv, XuiRestart PROVE CInv'
<1>1. /\ UNCHANGED <<asked, requests, results, row, snap, hpc, job, verdict, batch>>
      /\ live' = row
      /\ ~raced' => ~raced /\ hpc # "rollback_restore"
  BY DEF XuiRestart, procVars, IInv, TypeOK
<1>2. AskedFirst' /\ PhaseInv' /\ RecoverLast' /\ FinalizeFirst'
  BY <1>1 DEF CInv, AskedFirst, PhaseInv, RecoverLast, FinalizeFirst, Busy
<1>3. Alone' = Alone
  BY <1>1 DEF Alone
<1>4. ASSUME Alone PROVE ModesInv'
  BY <1>1, <1>4 DEF CInv, ModesInv, Busy
<1>5. ASSUME Alone, ~raced' PROVE ServedInv'
  BY <1>1, <1>5 DEF CInv, ServedInv
<1> QED
  BY <1>2, <1>3, <1>4, <1>5, Together

\* The first to be asked for finds nothing begun.
LEMMA SubmitApplySafe ==
  ASSUME IInv, FInv, CInv, NEW op \in Ops, NEW old \in Modes, NEW new \in Modes,
         SubmitApply(op, old, new)
  PROVE  CInv'
<1> USE DEF HandlerPcs, ApplyPcs, RollbackPcs
<1>1. /\ UNCHANGED <<results, live, row, snap, raced, hpc, job, verdict, batch>>
      /\ asked[op] = NotAsked /\ old # new
      /\ asked' = [asked EXCEPT ![op] = [old |-> old, new |-> new]]
      /\ requests' = requests \union {Req(op, "apply")}
  BY DEF SubmitApply, Publish, diskVars, procVars, Req
<1>2. /\ \A o \in Ops : o # op => asked'[o] = asked[o]
      /\ asked'[op] = [old |-> old, new |-> new]
      /\ asked'[op] # NotAsked
  BY <1>1, ModesAssumption DEF IInv, TypeOK, NotAsked
<1>3. \A o \in Ops : \A act : Req(o, act) \in requests' =>
        Req(o, act) \in requests \/ (o = op /\ act = "apply")
  BY <1>1, ReqIs
<1>4. snap[op].phase = "none"
  BY <1>1 DEF CInv, AskedFirst
<1>5. AskedFirst'
  BY <1>1, <1>2, <1>3 DEF CInv, AskedFirst
<1>6. PhaseInv'
  BY <1>1 DEF CInv, PhaseInv
<1>7. RecoverLast'
  <2>1. Req(op, "recover") \notin batch
    BY <1>4, ReqIs DEF IInv, SweepInv, Recovering, WorkingPhases
  <2>2. ~(hpc \in RollbackPcs /\ job = Req(op, "recover"))
    BY <1>4, ReqIs DEF IInv, ControlInv, RestorePhases, WorkingPhases
  <2> QED
    BY <1>1, <1>3, <1>4, <2>1, <2>2 DEF CInv, RecoverLast, Busy, WorkingPhases
<1>8. FinalizeFirst'
  BY <1>1, <1>3 DEF CInv, FinalizeFirst, Busy
<1>9. Alone' => \A o \in Ops : asked[o] = NotAsked
  BY <1>1, <1>2 DEF Alone
<1>10. ASSUME Alone' PROVE ModesInv'
  <2>1. \A o \in Ops : /\ snap[o].phase = "none" /\ results[o]["apply"] # "applied"
                       /\ Req(o, "finalize") \notin requests'
    BY <1>3, <1>9, <1>10 DEF CInv, AskedFirst
  <2>2. ~(hpc \in HandlerPcs /\ job.act = "apply")
    <3>1. hpc \in HandlerPcs => job.op \in Ops
      BY DEF IInv, ControlInv, Jobs
    <3> QED
      BY <3>1, <1>9, <1>10, AskedNow
  <2>3. hpc # "apply_snapshot"
    BY <2>2 DEF IInv, ControlInv
  <2> QED
    BY <1>1, <2>1, <2>2, <2>3 DEF ModesInv, RestorePhases, WorkingPhases
<1>11. ASSUME Alone', ~raced PROVE ServedInv'
  <2>1. Alone
    BY <1>9, <1>11 DEF Alone
  <2> QED
    BY <1>1, <1>3, <1>11, <2>1 DEF CInv, ServedInv
<1> QED
  BY <1>1, <1>5, <1>6, <1>7, <1>8, <1>10, <1>11, Together

\* A finalize is asked for while the new mode is served and the lease runs.
LEMMA SubmitFinalizeSafe ==
  ASSUME IInv, FInv, CInv, NEW op \in Ops, SubmitFinalize(op) PROVE CInv'
<1> USE DEF HandlerPcs, ApplyPcs, RollbackPcs
<1>1. /\ UNCHANGED <<asked, results, live, row, snap, raced, hpc, job, verdict, batch>>
      /\ results[op]["apply"] = "applied" /\ live = row /\ row = asked[op].new
      /\ snap[op].fresh /\ Req(op, "rollback") \notin requests
      /\ requests' = requests \union {Req(op, "finalize")}
  BY DEF SubmitFinalize, Publish, diskVars, procVars, Req
<1>2. \A o \in Ops : \A act : Req(o, act) \in requests' =>
        Req(o, act) \in requests \/ (o = op /\ act = "finalize")
  BY <1>1, ReqIs
<1>3. AskedFirst'
  BY <1>1, <1>2 DEF CInv, AskedFirst
<1>4. PhaseInv'
  BY <1>1 DEF CInv, PhaseInv
<1>5. RecoverLast'
  <2>1. /\ Req(op, "recover") \notin batch
        /\ ~(hpc \in RollbackPcs /\ job = Req(op, "recover"))
    BY <1>1, ReqIs DEF CInv, RecoverLast
  <2> QED
    BY <1>1, <1>2, <2>1 DEF CInv, RecoverLast, Busy
<1>6. FinalizeFirst'
  <2>1. Req(op, "rollback") \notin batch /\ ~Busy(Req(op, "rollback"))
    BY <1>1, ReqIs DEF FInv, InSpool, Busy
  <2> QED
    BY <1>1, <1>2, <2>1 DEF CInv, FinalizeFirst, Busy
<1>7. Alone' = Alone
  BY <1>1 DEF Alone
<1>8. ASSUME Alone PROVE ModesInv'
  BY <1>1, <1>2, <1>8 DEF CInv, ModesInv, Busy
<1>9. ASSUME Alone, ~raced PROVE ServedInv'
  BY <1>1, <1>2, <1>9 DEF CInv, ServedInv
<1> QED
  BY <1>1, <1>3, <1>4, <1>5, <1>6, <1>7, <1>8, <1>9, Together

LEMMA SafeInit == ASSUME Init PROVE CInv
<1>1. \A op \in Ops : /\ snap[op].phase = "none" /\ asked[op] = NotAsked
                      /\ results[op]["apply"] # "applied"
  BY DEF Init, Bare, Snap, Acts
<1>2. hpc = "idle" /\ requests = {} /\ batch = {} /\ live = row
  BY DEF Init
<1>3. AskedFirst /\ PhaseInv /\ RecoverLast /\ FinalizeFirst
  BY <1>1, <1>2
  DEF AskedFirst, PhaseInv, RecoverLast, FinalizeFirst, ApplyPcs, RollbackPcs
<1>4. ModesInv /\ ServedInv
  BY <1>1, <1>2 DEF ModesInv, ServedInv, RestorePhases, WorkingPhases
<1> QED
  BY <1>3, <1>4 DEF CInv

LEMMA SafeStep == ASSUME IInv, FInv, CInv, [Next]_vars PROVE CInv'
<1>1. CASE CycleSteps
  BY <1>1, WakeSafe, TakeSafe, SweepSafe, RecoverSafe, StopSafe, PublishSafe, UnlinkSafe
  DEF CycleSteps
<1>2. CASE ApplySteps
  BY <1>2, AdmitSafe, SnapshotSafe, ForwardSteps, ForwardSafe DEF ApplySteps
<1>3. CASE RollbackSteps \/ Finalize \/ Renew \/ Rollback
  BY <1>3, RollbackSafe, FinalizeSafe, RenewSafe, RollbackBegins
<1>4. CASE Client
  BY <1>4, SubmitApplySafe, SubmitFinalizeSafe, SubmitSafe DEF Client
<1>5. CASE Environment
  BY <1>5, StopSafe, RestartSafe, LeaseSafe DEF Environment
<1>6. CASE UNCHANGED vars
  BY <1>6, AddsNothing DEF vars, diskVars, spoolVars, procVars
<1> QED
  BY <1>1, <1>2, <1>3, <1>4, <1>5, <1>6 DEF Next, HelperStep

\* Wherever the helper is killed and whatever fails, a lone operation leaves the
\* runtime and the database in disagreement only under a snapshot that can
\* restore them: each phase is saved before the effect it announces, and the
\* spool is read before the expired snapshots are recovered.
THEOREM Safe == Spec => []CrashSafe
<1>1. Init => FInv /\ CInv
  BY FinalInit, SafeInit
<1>2. IInv /\ FInv /\ CInv /\ [Next]_vars => FInv' /\ CInv'
  BY FinalStep, SafeStep
<1>3. CInv => CrashSafe
  BY DEF CInv, ServedInv, CrashSafe
<1> QED
  BY <1>1, <1>2, <1>3, Inductive, PTL DEF Spec
-----------------------------------------------------------------------------
(***************************************************************************)
(* PART TWO: THE GATEWAY AND ITS HELPER                                    *)
(*                                                                         *)
(* What the Gateway calls ready is what its helper decided and what users  *)
(* are served, for every set of operations, modes and ranks, and whatever  *)
(* crashes, disconnects, timeouts and lost leases the Gateway meets.       *)
(*                                                                         *)
(* JInv joins the invariants of the helper (IInv, FInv, CInv) with GInv:   *)
(* at most one snapshot is open and it leads back to the mode that is owed *)
(* (RowInv, BodyInv); an operation is asked to be finalized only when the  *)
(* Gateway has seen it served and no earlier apply can follow (StageInv,   *)
(* AnswerInv, QueueInv); what the record and its copy in memory say of the *)
(* operation is what the helper can still decide (RecInv, MemInv).  The    *)
(* lemmas take the steps one kind at a time: local steps of the Gateway,   *)
(* saves of its record, requests, then the helper's handlers and cycle.    *)
(***************************************************************************)

JInv == IInv /\ FInv /\ CInv /\ GInv

(***************************************************************************)
(* Types                                                                   *)
(***************************************************************************)

LEMMA SaveKeepsType ==
  ASSUME GTypeOK, NEW m \in Records, NEW ok, NEW failed, Save(m, ok, failed)
  PROVE  rec' \in Records /\ gpc' \in {ok, failed}
BY DEF GTypeOK, Save, GoG

LEMMA GTypeInit == ASSUME GInit PROVE GTypeOK
BY DEF GInit, Init, GTypeOK, Records, Settled, NotAsked, SwitchPcs, BootPcs

LEMMA SwitchTypes == ASSUME GTypeOK, SwitchStep PROVE GTypeOK'
<1> USE DEF GTypeOK, SwitchPcs, BootPcs, SharedPcs, GoG, Steady
<1>1. CASE BeginRefused \/ BeginDone
  BY <1>1 DEF BeginRefused, BeginDone
<1>2. ASSUME NEW op \in Ops, Begin(op) PROVE GTypeOK'
  <2>1. mem' \in Records
    BY <1>2 DEF Begin, Records, Interrupted
  <2>2. rec' \in Records /\ gpc' \in {"apply_send", "leave"}
    BY <1>2, <2>1, SaveKeepsType DEF Begin
  <2> QED
    BY <1>2, <2>1, <2>2 DEF Begin
<1>3. CASE ApplySend \/ RenewSend \/ FinalizeSend
  BY <1>3 DEF ApplySend, RenewSend, FinalizeSend, Send
<1>4. CASE ApplyWait \/ RenewWait \/ FinalizeWait
  BY <1>4 DEF ApplyWait, RenewWait, FinalizeWait, Await
<1>5. CASE VerifySub \/ VerifyPub
  BY <1>5 DEF VerifySub, VerifyPub, Verify
<1>6. CASE Pending
  <2>1. mem' \in Records
    BY <1>6 DEF Pending, Records, Interrupted
  <2>2. rec' \in Records /\ gpc' \in {"verify_sub", "verify_failed"}
    BY <1>6, <2>1, SaveKeepsType DEF Pending
  <2> QED
    BY <1>6, <2>1, <2>2 DEF Pending
<1>7. CASE StopBeat \/ LeaseRenew \/ Failed
  BY <1>7 DEF StopBeat, LeaseRenew, Failed
<1>8. CASE Commit
  <2>1. mem' \in Records
    BY <1>8 DEF Commit, Records, Settled
  <2>2. rec' \in Records /\ gpc' \in {"settle", "mark_repair"}
    BY <1>8, <2>1, SaveKeepsType DEF Commit
  <2> QED
    BY <1>8, <2>1, <2>2 DEF Commit
<1> QED
  BY <1>1, <1>2, <1>3, <1>4, <1>5, <1>6, <1>7, <1>8 DEF SwitchStep

LEMMA UndoTypes == ASSUME GTypeOK, UndoStep PROVE GTypeOK'
<1> USE DEF GTypeOK, SwitchPcs, BootPcs, SharedPcs, GoG, Steady
<1>1. CASE Undo
  <2>1. mem' \in Records
    BY <1>1 DEF Undo, Records, Interrupted
  <2>2. rec' \in Records /\ gpc' \in {"undo_send", "undo_sub", "leave"}
    BY <1>1, <2>1, SaveKeepsType DEF Undo
  <2> QED
    BY <1>1, <2>1, <2>2 DEF Undo
<1>2. CASE UndoSend \/ UndoWait
  BY <1>2 DEF UndoSend, UndoWait, Send, Await
<1>3. CASE UndoSub \/ UndoPub
  BY <1>3 DEF UndoSub, UndoPub, Verify
<1>4. CASE UndoReady /\ RuntimeLive
  <2>1. mem' \in Records
    BY <1>4 DEF UndoReady, Records, Settled
  <2>2. rec' \in Records /\ gpc' \in {"settle", "leave"}
    BY <1>4, <2>1, SaveKeepsType DEF UndoReady
  <2> QED
    BY <1>4, <2>1, <2>2 DEF UndoReady
<1>5. CASE UndoReady /\ ~RuntimeLive
  BY <1>5 DEF UndoReady
<1> QED
  BY <1>1, <1>2, <1>3, <1>4, <1>5 DEF UndoStep

LEMMA EndTypes == ASSUME GTypeOK, EndStep PROVE GTypeOK'
<1> USE DEF GTypeOK, SwitchPcs, BootPcs, SharedPcs, GoG, Steady
<1>1. CASE MarkRepair
  <2>1. mem' \in Records
    BY <1>1 DEF MarkRepair, Records, Settled
  <2>2. rec' \in Records /\ gpc' = "leave"
    BY <1>1, <2>1, SaveKeepsType DEF MarkRepair
  <2> QED
    BY <1>1, <2>1, <2>2 DEF MarkRepair
<1>2. CASE Settle \/ Leave
  BY <1>2 DEF Settle, Leave, Forget
<1>3. CASE RevalSub \/ RevalPub
  BY <1>3 DEF RevalSub, RevalPub, Verify
<1>4. CASE RevalSave
  <2>1. mem' \in Records
    BY <1>4 DEF RevalSave, Records, Settled
  <2>2. /\ rec' \in Records
        /\ IF goal = None THEN gpc' \in {"leave", "down"} ELSE gpc' \in {"begin", "leave"}
    BY <1>4, <2>1, SaveKeepsType DEF RevalSave
  <2> QED
    BY <1>4, <2>1, <2>2 DEF RevalSave
<1> QED
  BY <1>1, <1>2, <1>3, <1>4 DEF EndStep

LEMMA BootTypes == ASSUME GTypeOK, BootStep PROVE GTypeOK'
<1> USE DEF GTypeOK, SwitchPcs, BootPcs, SharedPcs, GoG, Steady
<1>1. CASE Restart
  BY <1>1 DEF Restart, Forget
<1>2. CASE Boot /\ rec.state \notin {"switching", "subscription_pending"}
  BY <1>2 DEF Boot
<1>3. CASE Boot /\ rec.state \in {"switching", "subscription_pending"}
  <2>1. mem' \in Records
    BY <1>3 DEF Boot, Records, Interrupted
  <2>2. rec' \in Records /\ gpc' \in {"boot_send", "leave"}
    BY <1>3, <2>1, SaveKeepsType DEF Boot
  <2> QED
    BY <1>3, <2>1, <2>2 DEF Boot
<1>4. CASE BootSend
  BY <1>4 DEF BootSend
<1>5. CASE BootWait
  <2>1. mem' \in Records
    BY <1>5 DEF BootWait, Converge, Records
  <2> QED
    BY <1>5, <2>1 DEF BootWait
<1>6. CASE ConvSub \/ ConvPub
  BY <1>6 DEF ConvSub, ConvPub, Verify
<1>7. CASE ConvReady /\ RuntimeLive
  <2>1. mem' \in Records
    BY <1>7 DEF ConvReady, Records, Settled
  <2>2. rec' \in Records /\ gpc' \in {"settle", "leave"}
    BY <1>7, <2>1, SaveKeepsType DEF ConvReady
  <2> QED
    BY <1>7, <2>1, <2>2 DEF ConvReady
<1>8. CASE ConvReady /\ ~RuntimeLive
  BY <1>8 DEF ConvReady
<1> QED
  BY <1>1, <1>2, <1>3, <1>4, <1>5, <1>6, <1>7, <1>8 DEF BootStep

LEMMA OtherTypes ==
  ASSUME GTypeOK, Goroutine \/ User \/ GatewayFaults PROVE GTypeOK'
<1> USE DEF GTypeOK, SwitchPcs, BootPcs, SharedPcs, GoG, Steady
<1>1. CASE Goroutine
  BY <1>1 DEF Goroutine, BeatSend, BeatAnswer
<1>2. CASE User
  BY <1>2 DEF User, Start
<1>3. CASE GatewayFaults
  <2>1. CASE GatewayCrash
    BY <2>1 DEF GatewayCrash, Forget
  <2>2. CASE LeaseLost
    BY <2>2 DEF LeaseLost
  <2>3. CASE Disconnect
    <3>1. gone' \in BOOLEAN
      BY <2>3 DEF Disconnect
    <3>2. UNCHANGED <<rec, gpc, mem, goal, applied, beat, lease>>
      BY <2>3 DEF Disconnect
    <3> QED
      BY <3>1, <3>2
  <2> QED
    BY <1>3, <2>1, <2>2, <2>3 DEF GatewayFaults
<1> QED
  BY <1>1, <1>2, <1>3

LEMMA GTypeStep == ASSUME GTypeOK, [GNext]_allVars PROVE GTypeOK'
<1>1. CASE GatewayStep
  BY <1>1, SwitchTypes, UndoTypes, EndTypes, BootTypes DEF GatewayStep
<1>2. CASE Goroutine \/ User \/ GatewayFaults
  BY <1>2, OtherTypes
<1>3. CASE UNCHANGED gateVars
  BY <1>3 DEF gateVars, GTypeOK
<1> QED
  BY <1>1, <1>2, <1>3
     DEF GNext, Helper, HelperFaults, LeaseLapses, allVars, gateVars

\* Every variable of the Gateway keeps its shape; in particular a request is being
\* served exactly while goal names its mode (SwitchProtocolModeExpected), and none
\* is while a start recovers the record (RecoverProtocolModes).
THEOREM GatewayTypes == GSpec => []GTypeOK
<1>1. GInit => GTypeOK
  BY GTypeInit
<1>2. GTypeOK /\ [GNext]_allVars => GTypeOK'
  BY GTypeStep
<1> QED
  BY <1>1, <1>2, PTL DEF GSpec

(***************************************************************************)
(* Steps of the Gateway that write nothing to the spool                    *)
(***************************************************************************)

\* The budget of faults is the only thing a local step may take from the helper.
Charged == UNCHANGED faults \/ (faults < MaxFaults /\ faults' = faults + 1)
LEMMA InBudget == ASSUME IInv, Charged PROVE faults' \in 0..MaxFaults
BY FaultAssumption DEF IInv, TypeOK, Charged

LEMMA LocalKeeps ==
  ASSUME IInv, FInv, CInv, LocalStep, faults' \in 0..MaxFaults
  PROVE  IInv' /\ FInv' /\ CInv'
<1> USE DEF LocalStep, SpoolUntouched, HelperUntouched, spoolVars, diskVars, procVars
<1>1. IInv'
  BY DEF IInv, TypeOK, SnapOK, ControlInv, AskedInv, Asked, SweepInv, Recovering,
         VerdictInv, ResultsTruthful
<1>2. FInv'
  BY DEF FInv, InSpool, ApplyFirst, Busy, NothingApplied, NotAppliedIsFinal
<1>3. (AskedFirst /\ PhaseInv /\ RecoverLast /\ FinalizeFirst)'
  BY DEF CInv, AskedFirst, PhaseInv, RecoverLast, FinalizeFirst, Busy
<1>4. (Alone => ModesInv)' /\ (Alone /\ ~raced => ServedInv)'
  BY DEF CInv, Alone, ModesInv, ServedInv, Busy
<1> QED
  BY <1>1, <1>2, <1>3, <1>4 DEF CInv

\* What depends on the helper's variables and on which operation the record names.
LEMMA LocalSame ==
  ASSUME LocalStep, rec'.op = rec.op
  PROVE  /\ OldIsFinal' <=> OldIsFinal
         /\ Clean' <=> Clean
         /\ \A op : Decided(op)' <=> Decided(op)
BY DEF LocalStep, SpoolUntouched, HelperUntouched, spoolVars, diskVars, procVars,
       OldIsFinal, Clean, Decided

LEMMA SaveRest ==
  ASSUME GInv, LocalStep, rec'.op = rec.op, Base' = Base, gpc' \in RenewedPcs => Clean
  PROVE  AnswerInv' /\ QueueInv' /\ BodyInv' /\ RowInv'
<1> USE DEF LocalStep, SpoolUntouched, HelperUntouched, spoolVars, diskVars, procVars
<1>1. AnswerInv'
  BY DEF GInv, AnswerInv, Decided
<1>2. QueueInv'
  BY DEF GInv, QueueInv, Waiting, Busy, Clean, Decided
<1>3. BodyInv'
  BY DEF GInv, BodyInv
<1>4. RowInv'
  BY DEF GInv, RowInv, Open, Decided
<1> QED
  BY <1>1, <1>2, <1>3, <1>4

LEMMA MoveRest ==
  ASSUME GInv, LocalStep, UNCHANGED rec, gpc' \in RenewedPcs => Clean
  PROVE  RecInv' /\ AnswerInv' /\ QueueInv' /\ BodyInv' /\ RowInv'
<1>1. Base' = Base
  BY LocalSame DEF Base
<1>2. RecInv'
  BY LocalSame DEF GInv, RecInv, LocalStep, SpoolUntouched, spoolVars
<1> QED
  BY <1>1, <1>2, SaveRest

\* A step that only moves the Gateway on keeps what its place and memory claim.
LEMMA MoveKeeps ==
  ASSUME JInv, LocalStep, UNCHANGED rec, GTypeOK', MemInv', StageInv',
         gpc' \in RenewedPcs => Clean
  PROVE  GInv'
BY MoveRest DEF JInv, GInv

LEMMA BeginEnds == ASSUME JInv, GTypeOK', BeginRefused \/ BeginDone PROVE GInv'
<1>1. LocalStep /\ UNCHANGED rec /\ gpc' = "leave" /\ UNCHANGED <<mem, goal>>
  BY DEF BeginRefused, BeginDone, GoG, Steady
<1>2. MemInv' /\ StageInv'
  BY <1>1, LocalSame DEF JInv, GInv, MemInv, StageInv, EarlyPcs, RenewedPcs, ForwardPcs, UndoPcs
<1> QED
  BY <1>1, <1>2, MoveKeeps DEF RenewedPcs, EarlyPcs

LEMMA WaitKeeps ==
  ASSUME JInv, GTypeOK', ApplyWait \/ RenewWait \/ FinalizeWait PROVE GInv'
<1>1. LocalStep /\ UNCHANGED <<rec, mem, goal>>
  BY DEF ApplyWait, RenewWait, FinalizeWait, Steady
<1>2. mem.op = rec.op /\ rec.op \in Ops
  BY DEF ApplyWait, RenewWait, FinalizeWait, JInv, GInv, MemInv, RecInv, ForwardPcs, EarlyPcs
<1>3. \/ gpc = "apply_wait" /\ gpc' = "renew_send" /\ results[rec.op]["apply"] = "applied"
      \/ gpc = "renew_wait" /\ gpc' = "pending" /\ results[rec.op]["renew"] = "renewed"
      \/ gpc = "finalize_wait" /\ gpc' = "commit" /\ results[rec.op]["finalize"] = "finalized"
      \/ gpc \in {"apply_wait", "renew_wait", "finalize_wait"} /\ gpc' = "failed"
  BY <1>2 DEF ApplyWait, RenewWait, FinalizeWait, Await, GoG, Result
<1>4. gpc' = "pending" => Clean
  BY <1>2, <1>3 DEF JInv, GInv, QueueInv
<1>5. gpc' = "commit" => Decided(rec.op)
  BY <1>2, <1>3 DEF JInv, IInv, ResultsTruthful, Decided
<1>6. MemInv'
  BY <1>1, <1>3, <1>5, LocalSame DEF JInv, GInv, MemInv, EarlyPcs, ForwardPcs, UndoPcs
<1>7. StageInv'
  BY <1>1, <1>3, LocalSame
     DEF JInv, GInv, StageInv, EarlyPcs, RenewedPcs, LocalStep, SpoolUntouched,
         HelperUntouched, spoolVars, diskVars, procVars
<1> QED
  BY <1>1, <1>3, <1>4, <1>6, <1>7, MoveKeeps DEF RenewedPcs, EarlyPcs

LEMMA ForwardMoves ==
  ASSUME JInv, GTypeOK', VerifySub \/ VerifyPub \/ StopBeat \/ LeaseRenew \/ Failed
  PROVE  GInv'
<1>1. LocalStep /\ UNCHANGED <<rec, mem, goal>>
  BY DEF VerifySub, VerifyPub, StopBeat, LeaseRenew, Failed, Steady
<1>2. \/ gpc = "verify_sub" /\ gpc' \in {"verify_pub", "verify_failed"}
      \/ gpc = "verify_pub" /\ gpc' = "stop_beat" /\ live = goal
      \/ gpc = "verify_pub" /\ gpc' = "verify_failed"
      \/ gpc = "verify_failed" /\ gpc' = "failed"
      \/ gpc = "stop_beat" /\ gpc' \in {"lease_renew", "failed"}
      \/ gpc = "lease_renew" /\ gpc' \in {"finalize_send", "failed"}
      \/ gpc = "failed" /\ gpc' \in {"mark_repair", "undo"}
  BY DEF VerifySub, VerifyPub, StopBeat, LeaseRenew, Failed, Verify, GoG
<1>3. gpc' \in RenewedPcs => Clean
  BY <1>2 DEF JInv, GInv, QueueInv, RenewedPcs, EarlyPcs
<1>4. MemInv'
  BY <1>1, <1>2, LocalSame DEF JInv, GInv, MemInv, EarlyPcs, ForwardPcs, UndoPcs
<1>5. StageInv'
  BY <1>1, <1>2, LocalSame
     DEF JInv, GInv, StageInv, EarlyPcs, RenewedPcs, LocalStep, SpoolUntouched,
         HelperUntouched, spoolVars, diskVars, procVars
<1> QED
  BY <1>1, <1>3, <1>4, <1>5, MoveKeeps

LEMMA AsideKeeps ==
  ASSUME JInv, GTypeOK', BeatAnswer \/ LeaseLost \/ Disconnect
  PROVE  GInv'
<1>1. LocalStep /\ UNCHANGED <<rec, mem, goal, gpc>>
  BY DEF BeatAnswer, LeaseLost, Disconnect
<1>2. MemInv'
  BY <1>1, LocalSame DEF JInv, GInv, MemInv
<1>3. StageInv'
  BY <1>1, LocalSame
     DEF JInv, GInv, StageInv, LocalStep, SpoolUntouched,
         HelperUntouched, spoolVars, diskVars, procVars
<1>4. gpc' \in RenewedPcs => Clean
  BY <1>1 DEF JInv, GInv, QueueInv
<1> QED
  BY <1>1, <1>2, <1>3, <1>4, MoveKeeps

LEMMA SettleKeeps == ASSUME JInv, GTypeOK', Settle PROVE GInv'
<1>1. LocalStep /\ UNCHANGED <<rec, mem, goal>> /\ gpc = "settle"
      /\ gpc' \in {"mark_repair", "leave"}
  BY DEF Settle, GoG, Steady
<1>2. MemInv'
  BY <1>1, LocalSame DEF JInv, GInv, MemInv, EarlyPcs, ForwardPcs, UndoPcs
<1>3. StageInv'
  BY <1>1 DEF StageInv, EarlyPcs, RenewedPcs
<1> QED
  BY <1>1, <1>2, <1>3, MoveKeeps DEF RenewedPcs, EarlyPcs

\* While a helper works on an open snapshot, it is the only one.
LEMMA SoleOpen ==
  ASSUME JInv, hpc \in ApplyPcs \cup RollbackPcs
  PROVE  /\ job \in Jobs /\ job.op \in Ops /\ Open(job.op)
         /\ \A op \in Ops : Open(op) => op = job.op
<1>1. job \in Jobs /\ snap[job.op].phase \in RestorePhases
  BY DEF JInv, IInv, ControlInv, HandlerPcs, RestorePhases
<1>2. job.op \in Ops
  BY <1>1 DEF Jobs
<1> QED
  BY <1>1, <1>2 DEF JInv, GInv, RowInv, Open

\* An applied snapshot the Gateway has not asked to roll back is at rest: under a
\* fresh lease, or with its finalize in the spool, no handler works on it.
LEMMA AtRest ==
  ASSUME JInv, NEW op \in Ops, snap[op].phase = "applied",
         \/ Req(op, "finalize") \in requests
         \/ Req(op, "rollback") \notin requests /\ snap[op].fresh
  PROVE  hpc \notin ApplyPcs \cup RollbackPcs /\ row = asked[op].new
<1>1. Open(op)
  BY DEF Open, RestorePhases, WorkingPhases
<1>2. SUFFICES hpc \notin ApplyPcs \cup RollbackPcs
  BY <1>1 DEF JInv, GInv, RowInv
<1>3. ASSUME hpc \in ApplyPcs PROVE FALSE
  BY <1>1, <1>3, SoleOpen DEF JInv, CInv, PhaseInv, ApplyPcs
<1>4. ASSUME hpc \in RollbackPcs PROVE FALSE
  <2>1. job.op = op /\ job \in Jobs
    BY <1>1, <1>4, SoleOpen
  <2>2. Req(op, "finalize") \notin requests
    BY <1>4, <2>1, NotApplied DEF JInv
  <2>3. job.act # "apply"
    BY <1>4, <2>1 DEF JInv, CInv, PhaseInv
  <2>4. job.act # "recover"
    BY <1>4, <2>1, <2>2 DEF JInv, CInv, RecoverLast
  <2>5. job = Req(op, "rollback")
    BY <1>4, <2>1, <2>3, <2>4, JobIs DEF JInv, IInv, ControlInv
  <2> QED
    BY <1>4, <2>2, <2>4, <2>5, ReqIs DEF JInv, FInv, InSpool, HandlerPcs
<1> QED
  BY <1>3, <1>4

\* Traffic or a row seen in the old mode means the switch cannot be finalized.
LEMMA SeenOld ==
  ASSUME JInv, rec.op \in Ops, row = rec.hash.old
  PROVE  OldIsFinal
<1>1. rec.hash.old # rec.hash.new /\ asked[rec.op] \in {NotAsked, rec.hash}
  BY DEF JInv, GInv, RecInv
<1>2. ASSUME Decided(rec.op) PROVE FALSE
  <2>1. Base = rec.hash.new
    BY <1>2 DEF Base
  <2>2. row = Base
    BY <1>2 DEF JInv, GInv, RowInv
  <2> QED
    BY <1>1, <2>1, <2>2
<1>3. ASSUME Req(rec.op, "finalize") \in requests PROVE FALSE
  <2>1. snap[rec.op].phase = "applied"
    BY <1>2, <1>3 DEF JInv, GInv, AnswerInv, Decided
  <2>2. row = asked[rec.op].new
    BY <1>3, <2>1, AtRest
  <2>3. asked[rec.op] # NotAsked
    BY <2>1 DEF JInv, CInv, AskedFirst
  <2> QED
    BY <1>1, <2>2, <2>3
<1> QED
  BY <1>2, <1>3 DEF OldIsFinal

\* Where the Gateway holds the record in memory, it is the one it saved.
LEMMA InMemory ==
  ASSUME JInv, gpc \notin {"leave", "mark_repair"}
  PROVE  mem.op = rec.op /\ mem.hash = rec.hash /\ mem.active = rec.active
BY DEF JInv, GInv, MemInv

\* Looking at the row and driving traffic, before a record becomes ready again.
LEMMA LookMoves ==
  ASSUME JInv, GTypeOK',
         \/ UndoWait \/ UndoSub \/ UndoPub \/ RevalSub \/ RevalPub \/ ConvSub \/ ConvPub
  PROVE  GInv'
<1>1. LocalStep /\ UNCHANGED <<rec, mem, goal>>
  BY DEF UndoWait, UndoSub, UndoPub, RevalSub, RevalPub, ConvSub, ConvPub, Steady
<1>2. \/ gpc = "undo_wait" /\ gpc' \in {"undo_sub", "mark_repair"}
      \/ gpc = "undo_sub" /\ gpc' = "undo_pub" /\ row = mem.active
      \/ gpc = "undo_pub" /\ gpc' = "undo_ready"
      \/ gpc = "reval_sub" /\ gpc' = "reval_pub" /\ row = mem.active
      \/ gpc = "reval_pub" /\ gpc' = "reval_save"
      \/ gpc = "conv_sub" /\ gpc' = "conv_pub" /\ row = mem.desired
      \/ gpc = "conv_pub" /\ gpc' = "conv_ready"
      \/ gpc \in {"undo_sub", "undo_pub", "conv_sub", "conv_pub"} /\ gpc' = "mark_repair"
      \/ gpc \in {"reval_sub", "reval_pub"} /\ gpc' = "leave"
  BY DEF UndoWait, UndoSub, UndoPub, RevalSub, RevalPub, ConvSub, ConvPub, Await, Verify, GoG
<1>3. gpc' \in {"undo_pub", "reval_pub"} /\ rec.op \in Ops /\ rec.active = rec.hash.old
        => OldIsFinal
  BY <1>2, InMemory, SeenOld
<1>4. gpc' = "conv_pub" /\ mem.desired = rec.hash.old => OldIsFinal
  <2>1. gpc' = "conv_pub" => rec.op \in Ops
    BY <1>2 DEF JInv, GInv, MemInv, RecInv, Interrupted
  <2> QED
    BY <1>2, <2>1, SeenOld
<1>5. MemInv'
  BY <1>1, <1>2, <1>3, <1>4, LocalSame DEF JInv, GInv, MemInv, EarlyPcs, ForwardPcs, UndoPcs
<1>6. StageInv'
  BY <1>1, <1>2 DEF StageInv, EarlyPcs, RenewedPcs
<1> QED
  BY <1>1, <1>2, <1>5, <1>6, MoveKeeps DEF RenewedPcs, EarlyPcs

\* A step that only loads the record, or drops what the process remembered.
LEMMA LoadKeeps ==
  ASSUME JInv, GTypeOK', User \/ Leave \/ Restart \/ GatewayCrash
  PROVE  GInv'
<1>1. /\ LocalStep /\ UNCHANGED rec /\ mem' = rec
      /\ gpc' \in {"begin", "reval_sub", "idle", "boot", "down"}
      /\ gpc' = "begin" => rec.state = "ready"
  BY DEF User, Start, Leave, Restart, GatewayCrash, Forget, GoG, LocalStep, vars,
         SpoolUntouched, HelperUntouched, spoolVars
<1>2. MemInv'
  BY <1>1 DEF MemInv, EarlyPcs, ForwardPcs, UndoPcs
<1>3. StageInv'
  BY <1>1 DEF StageInv, EarlyPcs, RenewedPcs
<1> QED
  BY <1>1, <1>2, <1>3, MoveKeeps DEF RenewedPcs, EarlyPcs

LEMMA BootWaitKeeps == ASSUME JInv, GTypeOK', BootWait PROVE GInv'
<1>1. LocalStep /\ UNCHANGED <<rec, goal>> /\ gpc = "boot_wait"
      /\ mem'.op = mem.op /\ mem'.hash = mem.hash /\ mem'.active = mem.active
  <2>1. mem \in Records
    BY DEF JInv, GInv, GTypeOK
  <2> QED
    BY <2>1 DEF BootWait, Steady, Records
<1>2. mem.op = rec.op /\ mem.hash = rec.hash /\ mem.active = rec.active /\ rec.op \in Ops
  BY <1>1, InMemory DEF JInv, GInv, MemInv, RecInv, Interrupted
<1>3. CASE gpc' = "conv_sub"
  <2>1. PICK mode \in Converge : mem' = [mem EXCEPT !.desired = mode]
    BY <1>3 DEF BootWait, GoG
  <2>2. mem'.desired = mode
    BY <2>1 DEF JInv, GInv, GTypeOK, Records
  <2>3. mode = rec.active \/ (Decided(rec.op) /\ mode = rec.hash.new)
    <3>1. CASE mode = mem.active
      BY <1>2, <3>1
    <3>2. CASE mode # mem.active
      <4>1. results[rec.op]["rollback"] = "already_finalized" /\ mode = mem.hash.new
        BY <1>2, <2>1, <3>2 DEF Converge, Result
      <4> QED
        BY <1>2, <4>1 DEF JInv, GInv, AnswerInv
    <3> QED
      BY <3>1, <3>2
  <2>4. MemInv'
    BY <1>1, <1>3, <2>2, <2>3, LocalSame DEF JInv, GInv, MemInv, EarlyPcs, ForwardPcs, UndoPcs
  <2>5. StageInv'
    BY <1>3 DEF StageInv, EarlyPcs, RenewedPcs
  <2> QED
    BY <1>1, <1>3, <2>4, <2>5, MoveKeeps DEF RenewedPcs, EarlyPcs
<1>4. CASE gpc' = "mark_repair"
  <2>1. MemInv'
    BY <1>1, <1>2, <1>4 DEF MemInv, EarlyPcs, ForwardPcs, UndoPcs
  <2>2. StageInv'
    BY <1>4 DEF StageInv, EarlyPcs, RenewedPcs
  <2> QED
    BY <1>1, <1>4, <2>1, <2>2, MoveKeeps DEF RenewedPcs, EarlyPcs
<1> QED
  BY <1>3, <1>4 DEF BootWait, GoG

(***************************************************************************)
(* Steps of the Gateway that save its record                               *)
(***************************************************************************)

\* A saved record of the same operation owes the same mode: the active one
\* changes only to the mode the helper has finalized.
LEMMA SaveKeeps ==
  ASSUME JInv, LocalStep, rec'.op = rec.op, rec'.hash = rec.hash,
         \/ rec'.active = rec.active
         \/ rec.op \in Ops /\ Decided(rec.op) /\ rec'.active = rec.hash.new,
         rec'.state \in Interrupted => rec.state \in Interrupted /\ rec'.active = rec.active,
         rec'.state = "ready" /\ rec.op \in Ops /\ rec'.active = rec.hash.old => OldIsFinal,
         gpc' \in RenewedPcs => gpc \in RenewedPcs,
         GTypeOK', MemInv', StageInv'
  PROVE  GInv'
<1>1. Base' = Base
  BY LocalSame DEF Base
<1>2. RecInv'
  BY LocalSame DEF JInv, GInv, RecInv, LocalStep, SpoolUntouched, spoolVars
<1>3. gpc' \in RenewedPcs => Clean
  BY DEF JInv, GInv, QueueInv
<1> QED
  BY <1>1, <1>2, <1>3, SaveRest DEF JInv, GInv

\* "subscription_pending" and "rolling_back": only the state is new.
LEMMA PendingKeeps == ASSUME JInv, GTypeOK', Pending PROVE GInv'
<1>1. /\ LocalStep /\ UNCHANGED goal /\ gpc = "pending"
      /\ gpc' \in {"verify_sub", "verify_failed"}
      /\ rec' = rec \/ rec' = mem'
      /\ mem'.op = mem.op /\ mem'.hash = mem.hash /\ mem'.active = mem.active
      /\ mem'.state = "subscription_pending"
  BY DEF Pending, Save, GoG, Steady, JInv, GInv, GTypeOK, Records
<1>2. /\ rec'.op = rec.op /\ rec'.hash = rec.hash /\ rec'.active = rec.active
      /\ rec.state \in Interrupted /\ rec'.state \in Interrupted
      /\ mem'.op = rec.op /\ mem'.hash = rec.hash /\ mem'.active = rec.active
      /\ goal = rec.hash.new
  BY <1>1, InMemory DEF JInv, GInv, MemInv, ForwardPcs, EarlyPcs, Interrupted
<1>3. MemInv'
  BY <1>1, <1>2 DEF MemInv, EarlyPcs, ForwardPcs, UndoPcs
<1>4. StageInv'
  BY <1>1, <1>2
     DEF JInv, GInv, StageInv, EarlyPcs, RenewedPcs, LocalStep, SpoolUntouched,
         HelperUntouched, spoolVars, diskVars, procVars
<1> QED
  BY <1>1, <1>2, <1>3, <1>4, SaveKeeps DEF Interrupted, RenewedPcs, EarlyPcs

LEMMA UndoKeeps == ASSUME JInv, GTypeOK', Undo PROVE GInv'
<1>1. /\ LocalStep /\ UNCHANGED goal /\ gpc = "undo"
      /\ gpc' \in {"undo_send", "undo_sub", "leave"}
      /\ rec' = rec \/ rec' = mem'
      /\ gpc' # "leave" => rec' = mem'
      /\ mem'.op = mem.op /\ mem'.hash = mem.hash /\ mem'.active = mem.active
      /\ mem'.state = "rolling_back"
  BY DEF Undo, Save, GoG, Steady, JInv, GInv, GTypeOK, Records
<1>2. /\ rec'.op = rec.op /\ rec'.hash = rec.hash /\ rec'.active = rec.active
      /\ rec.state \in Interrupted /\ rec'.state \in Interrupted
      /\ mem'.op = rec.op /\ mem'.hash = rec.hash /\ mem'.active = rec.active
  BY <1>1, InMemory DEF JInv, GInv, MemInv, Interrupted
<1>3. MemInv'
  BY <1>1, <1>2 DEF MemInv, EarlyPcs, ForwardPcs, UndoPcs
<1>4. StageInv'
  BY <1>1 DEF StageInv, EarlyPcs, RenewedPcs
<1> QED
  BY <1>1, <1>2, <1>3, <1>4, SaveKeeps DEF Interrupted, RenewedPcs, EarlyPcs

\* Back to "ready": after a commit, a rollback, a repair or a recovery.
LEMMA ReadyKeeps ==
  ASSUME JInv, GTypeOK', LocalStep, UNCHANGED goal,
         gpc' \in {"settle", "mark_repair", "leave", "begin", "down"},
         \/ rec' = mem' /\ gpc' \in {"settle", "leave", "begin"}
         \/ rec' = rec /\ gpc' \in {"mark_repair", "leave"}
         \/ rec' = rec /\ gpc' = "down" /\ mem'.active = rec.active,
         mem'.op = rec.op, mem'.hash = rec.hash, mem'.state = "ready",
         \/ mem'.active = rec.active
         \/ rec.op \in Ops /\ Decided(rec.op) /\ mem'.active = rec.hash.new,
         rec.op \in Ops /\ mem'.active = rec.hash.old => OldIsFinal
  PROVE  GInv'
<1>1. /\ rec'.op = rec.op /\ rec'.hash = rec.hash
      /\ \/ rec'.active = rec.active
         \/ rec.op \in Ops /\ Decided(rec.op) /\ rec'.active = rec.hash.new
      /\ rec' = rec \/ rec'.state = "ready"
  OBVIOUS
<1>2. MemInv'
  BY <1>1, LocalSame DEF MemInv, EarlyPcs, ForwardPcs, UndoPcs
<1>3. StageInv'
  BY DEF StageInv, EarlyPcs, RenewedPcs
<1>4. rec'.state = "ready" /\ rec.op \in Ops /\ rec'.active = rec.hash.old => OldIsFinal
  BY DEF JInv, GInv, RecInv
<1> QED
  BY <1>1, <1>2, <1>3, <1>4, SaveKeeps DEF Interrupted, RenewedPcs, EarlyPcs

LEMMA CommitKeeps == ASSUME JInv, GTypeOK', Commit PROVE GInv'
<1>1. /\ rec.op \in Ops /\ Decided(rec.op) /\ goal = rec.hash.new
      /\ rec.hash.old # rec.hash.new
  BY DEF Commit, JInv, GInv, MemInv, RecInv, ForwardPcs, Interrupted
<1>2. mem'.op = rec.op /\ mem'.hash = rec.hash /\ mem'.active = goal /\ mem'.state = "ready"
  BY InMemory DEF Commit, JInv, GInv, GTypeOK, Records
<1>3. /\ LocalStep /\ UNCHANGED goal
      /\ \/ rec' = mem' /\ gpc' = "settle"
         \/ rec' = rec /\ gpc' = "mark_repair"
  BY DEF Commit, Save, GoG, Steady
<1> QED
  BY <1>1, <1>2, <1>3, ReadyKeeps

LEMMA UndoReadyKeeps == ASSUME JInv, GTypeOK', UndoReady PROVE GInv'
<1>1. /\ rec.op \in Ops /\ mem.op = rec.op /\ mem.hash = rec.hash
      /\ mem.active = rec.active /\ rec.state = "rolling_back"
      /\ rec.active = rec.hash.old => OldIsFinal
  BY InMemory DEF UndoReady, JInv, GInv, MemInv, RecInv, UndoPcs, Interrupted
<1>2. CASE RuntimeLive
  <2>1. mem'.op = rec.op /\ mem'.hash = rec.hash /\ mem'.active = rec.active
        /\ mem'.state = "ready"
    BY <1>1, <1>2 DEF UndoReady, JInv, GInv, GTypeOK, Records
  <2>2. /\ LocalStep /\ UNCHANGED goal
        /\ \/ rec' = mem' /\ gpc' = "settle"
           \/ rec' = rec /\ gpc' = "leave"
    BY <1>2 DEF UndoReady, Save, GoG, Steady
  <2> QED
    BY <1>1, <2>1, <2>2, ReadyKeeps
<1>3. CASE ~RuntimeLive
  <2>1. LocalStep /\ UNCHANGED <<goal, rec, mem>> /\ gpc' = "mark_repair"
    BY <1>3 DEF UndoReady, GoG, Steady
  <2>2. MemInv'
    BY <1>1, <2>1 DEF MemInv, EarlyPcs, ForwardPcs, UndoPcs
  <2>3. StageInv'
    BY <2>1 DEF StageInv, EarlyPcs, RenewedPcs
  <2> QED
    BY <2>1, <2>2, <2>3, MoveKeeps DEF EarlyPcs, RenewedPcs
<1> QED
  BY <1>2, <1>3

LEMMA ConvReadyKeeps == ASSUME JInv, GTypeOK', ConvReady PROVE GInv'
<1>1. /\ rec.op \in Ops /\ mem.op = rec.op /\ mem.hash = rec.hash
      /\ mem.active = rec.active
      /\ mem.desired = rec.active \/ (Decided(rec.op) /\ mem.desired = rec.hash.new)
      /\ mem.desired = rec.hash.old => OldIsFinal
  BY InMemory DEF ConvReady, JInv, GInv, MemInv, RecInv, Interrupted
<1>2. CASE RuntimeLive
  <2>1. mem'.op = rec.op /\ mem'.hash = rec.hash /\ mem'.active = mem.desired
        /\ mem'.state = "ready"
    BY <1>1, <1>2 DEF ConvReady, JInv, GInv, GTypeOK, Records
  <2>2. /\ LocalStep /\ UNCHANGED goal
        /\ \/ rec' = mem' /\ gpc' = "settle"
           \/ rec' = rec /\ gpc' = "leave"
    BY <1>2 DEF ConvReady, Save, GoG, Steady
  <2> QED
    BY <1>1, <2>1, <2>2, ReadyKeeps
<1>3. CASE ~RuntimeLive
  <2>1. LocalStep /\ UNCHANGED <<goal, rec, mem>> /\ gpc' = "mark_repair"
    BY <1>3 DEF ConvReady, GoG, Steady
  <2>2. MemInv'
    BY <1>1, <2>1 DEF MemInv, EarlyPcs, ForwardPcs, UndoPcs
  <2>3. StageInv'
    BY <2>1 DEF StageInv, EarlyPcs, RenewedPcs
  <2> QED
    BY <2>1, <2>2, <2>3, MoveKeeps DEF EarlyPcs, RenewedPcs
<1> QED
  BY <1>2, <1>3

LEMMA RevalSaveKeeps == ASSUME JInv, GTypeOK', RevalSave PROVE GInv'
<1>1. /\ mem.op = rec.op /\ mem.hash = rec.hash /\ mem.active = rec.active
      /\ rec.op \in Ops /\ rec.active = rec.hash.old => OldIsFinal
  BY InMemory DEF RevalSave, JInv, GInv, MemInv
<1>2. mem'.op = rec.op /\ mem'.hash = rec.hash /\ mem'.active = rec.active
      /\ mem'.state = "ready"
  BY <1>1 DEF RevalSave, JInv, GInv, GTypeOK, Records
<1>3. /\ LocalStep /\ UNCHANGED goal
      /\ \/ rec' = mem' /\ gpc' \in {"leave", "begin"}
         \/ rec' = rec /\ gpc' \in {"leave", "down"}
  BY DEF RevalSave, Save, GoG, Steady
<1> QED
  BY <1>1, <1>2, <1>3, ReadyKeeps

LEMMA MarkRepairKeeps == ASSUME JInv, GTypeOK', MarkRepair PROVE GInv'
<1>1. /\ mem.op = rec.op /\ mem.hash = rec.hash
      /\ \/ mem.active = rec.active
         \/ rec.op \in Ops /\ Decided(rec.op) /\ mem.active = rec.hash.new
  BY DEF MarkRepair, JInv, GInv, MemInv
<1>2. mem'.op = rec.op /\ mem'.hash = rec.hash /\ mem'.active = mem.active
      /\ mem'.state = "repair_required"
  BY <1>1 DEF MarkRepair, JInv, GInv, GTypeOK, Records
<1>3. LocalStep /\ UNCHANGED goal /\ gpc' = "leave" /\ (rec' = mem' \/ rec' = rec)
  BY DEF MarkRepair, Save, GoG, Steady
<1>4. MemInv'
  BY <1>3 DEF MemInv, EarlyPcs, ForwardPcs, UndoPcs
<1>5. StageInv'
  BY <1>3 DEF StageInv, EarlyPcs, RenewedPcs
<1>6. CASE rec' = mem'
  BY <1>1, <1>2, <1>3, <1>4, <1>5, <1>6, SaveKeeps DEF Interrupted, EarlyPcs, RenewedPcs
<1>7. CASE rec' = rec
  BY <1>3, <1>4, <1>5, <1>7, MoveKeeps DEF EarlyPcs, RenewedPcs
<1> QED
  BY <1>3, <1>6, <1>7

LEMMA BootKeeps == ASSUME JInv, GTypeOK', Boot PROVE GInv'
<1>1. mem.op = rec.op /\ mem.hash = rec.hash /\ mem.active = rec.active
  BY InMemory DEF Boot
<1>2. LocalStep /\ UNCHANGED goal
  BY DEF Boot, Steady
<1>3. CASE rec.state \in {"switching", "subscription_pending"}
  <2>1. mem'.op = rec.op /\ mem'.hash = rec.hash /\ mem'.active = rec.active
        /\ mem'.state = "rolling_back"
    BY <1>1, <1>3 DEF Boot, JInv, GInv, GTypeOK, Records
  <2>2. \/ rec' = mem' /\ gpc' = "boot_send"
        \/ rec' = rec /\ gpc' = "leave"
    BY <1>3 DEF Boot, Save, GoG
  <2>3. MemInv'
    BY <2>1, <2>2 DEF MemInv, EarlyPcs, ForwardPcs, UndoPcs
  <2>4. StageInv'
    BY <2>2 DEF StageInv, EarlyPcs, RenewedPcs
  <2> QED
    BY <1>2, <1>3, <2>1, <2>2, <2>3, <2>4, SaveKeeps DEF Interrupted, EarlyPcs, RenewedPcs
<1>4. CASE rec.state \notin {"switching", "subscription_pending"}
  <2>1. /\ UNCHANGED <<rec, mem>> /\ gpc' \in {"leave", "reval_sub", "boot_send"}
        /\ gpc' = "boot_send" => rec.state = "rolling_back"
    BY <1>4 DEF Boot, GoG
  <2>2. MemInv'
    BY <1>1, <2>1 DEF MemInv, EarlyPcs, ForwardPcs, UndoPcs
  <2>3. StageInv'
    BY <2>1 DEF StageInv, EarlyPcs, RenewedPcs
  <2> QED
    BY <1>2, <2>1, <2>2, <2>3, MoveKeeps DEF EarlyPcs, RenewedPcs
<1> QED
  BY <1>3, <1>4

\* Nothing is on disk, in the spool or published for an operation never asked for.
LEMMA Unasked ==
  ASSUME JInv, NEW op \in Ops, asked[op] = NotAsked
  PROVE  /\ snap[op].phase = "none" /\ ~Decided(op)
         /\ results[op]["apply"] = "none" /\ results[op]["renew"] = "none"
         /\ Req(op, "apply") \notin requests /\ Req(op, "renew") \notin requests
         /\ Req(op, "finalize") \notin requests
<1>1. snap[op].phase = "none" /\ results[op]["apply"] = "none" /\ results[op]["renew"] = "none"
      /\ Req(op, "finalize") \notin requests
  BY DEF JInv, CInv, AskedFirst, GInv, AnswerInv
<1>2. Req(op, "apply") \notin requests
  BY ReqIs, ModesAssumption DEF JInv, IInv, AskedInv, Asked, NotAsked
<1>3. Req(op, "renew") \notin requests
  BY <1>1 DEF JInv, GInv, AnswerInv
<1> QED
  BY <1>1, <1>2, <1>3 DEF Decided

\* A file that is not in the spool is neither listed nor worked on.
LEMMA NotThere ==
  ASSUME JInv, NEW op \in Ops, NEW act \in Acts, Req(op, act) \notin requests
  PROVE  Req(op, act) \notin batch /\ ~Busy(Req(op, act))
BY ReqIs DEF JInv, FInv, InSpool, Busy, Acts

LEMMA BeginKeeps ==
  ASSUME JInv, GTypeOK', NEW op \in Ops, Begin(op) PROVE GInv'
<1> DEFINE new == [old |-> rec.active, new |-> goal]
<1>1. /\ LocalStep /\ UNCHANGED goal /\ rec.state = "ready" /\ rec.active # goal
      /\ rec \in Records /\ goal \in Modes /\ mem.active = rec.active
  BY InMemory DEF Begin, JInv, GInv, MemInv, GTypeOK, SwitchPcs
<1>2. /\ mem'.op = op /\ mem'.hash = new /\ mem'.active = rec.active
      /\ mem'.state = "switching"
  BY <1>1 DEF Begin, JInv, GInv, GTypeOK, Records
<1>3. \/ rec' = mem' /\ gpc' = "apply_send"
      \/ rec' = rec /\ gpc' = "leave"
  BY DEF Begin, Save, GoG
<1>4. CASE rec' = rec /\ gpc' = "leave"
  <2>1. MemInv' /\ StageInv'
    BY <1>4 DEF MemInv, StageInv, EarlyPcs, RenewedPcs, ForwardPcs, UndoPcs
  <2> QED
    BY <1>1, <1>4, <2>1, MoveKeeps DEF EarlyPcs, RenewedPcs
<1>5. CASE rec' = mem' /\ gpc' = "apply_send"
  <2>0. UNCHANGED <<live, row, snap, leftover, asked, requests, results, hpc, job,
                    verdict, batch>>
    BY <1>1 DEF LocalStep, SpoolUntouched, HelperUntouched, spoolVars, diskVars, procVars
  <2> USE <2>0
  <2>1. /\ asked[op] = NotAsked /\ results[op]["rollback"] = "none"
        /\ Req(op, "rollback") \notin requests
    BY DEF Begin, FreshOp, Req
  <2>2. /\ snap[op].phase = "none" /\ ~Decided(op)
        /\ results[op]["apply"] = "none" /\ results[op]["renew"] = "none"
        /\ Req(op, "apply") \notin requests /\ Req(op, "renew") \notin requests
        /\ Req(op, "finalize") \notin requests
    BY <2>1, Unasked
  <2>3. Base = rec.active
    BY <1>1 DEF Base, JInv, GInv, RecInv, OldIsFinal
  <2>4. Base' = Base
    BY <1>2, <1>5, <2>2, <2>3 DEF Base, Decided
  <2>5. RecInv'
    BY <1>1, <1>2, <1>5, <2>1, <2>2 DEF RecInv, Decided, OldIsFinal, Interrupted, Records
  <2>6. MemInv'
    BY <1>1, <1>2, <1>5 DEF MemInv, EarlyPcs, ForwardPcs, UndoPcs, Interrupted
  <2>7. StageInv'
    BY <1>2, <1>5, <2>1, <2>2 DEF StageInv, EarlyPcs, RenewedPcs
  <2>8. \A o \in Ops : Req(o, "finalize") \in requests => Decided(o)
    BY <1>1 DEF JInv, GInv, RecInv, OldIsFinal, AnswerInv
  <2>9. AnswerInv'
    BY <2>8 DEF JInv, GInv, AnswerInv, Decided
  <2>10. Req(op, "renew") \notin batch /\ ~Busy(Req(op, "renew"))
    BY <2>2, NotThere DEF Acts
  <2>11. QueueInv'
    <3>1. (hpc = "idle" => batch = {})'
      BY DEF JInv, GInv, QueueInv
    <3>2. rec'.op = op /\ asked'[op] = NotAsked
      BY <1>2, <1>5, <2>1
    <3>3. ~(\/ Req(op, "renew") \in batch
            \/ Busy(Req(op, "renew"))
            \/ results[op]["renew"] # "none"
            \/ Req(op, "finalize") \in requests
            \/ Decided(op))'
      BY <2>2, <2>10 DEF Busy, Decided
    <3>4. gpc' \notin RenewedPcs
      BY <1>5 DEF RenewedPcs, EarlyPcs
    <3>5. (\A o \in Ops : Req(o, "apply") \in requests => asked[o].old = Base)'
      BY <2>4 DEF JInv, GInv, QueueInv
    <3> QED
      BY <3>1, <3>2, <3>3, <3>4, <3>5 DEF QueueInv
  <2>12. BodyInv'
    BY DEF JInv, GInv, BodyInv
  <2>13. RowInv'
    BY <1>2, <1>5, <2>2, <2>4 DEF JInv, GInv, RowInv, Open, Decided
  <2> QED
    BY <2>5, <2>6, <2>7, <2>9, <2>11, <2>12, <2>13 DEF GInv
<1> QED
  BY <1>3, <1>4, <1>5

(***************************************************************************)
(* Steps of the Gateway that write a request                               *)
(***************************************************************************)

\* A renewal or a rollback that is asked for changes nothing the helper has done,
\* and no apply or finalize is added.
LEMMA AskRest ==
  ASSUME JInv, NEW act \in {"renew", "rollback"},
         UNCHANGED <<rec, live, row, snap, leftover, asked, hpc, job, verdict, batch>>,
         requests' = requests \cup {Req(rec.op, act)},
         act = "renew" => results[rec.op]["apply"] = "applied",
         \A o \in Ops, a \in Acts : \/ results'[o][a] = results[o][a]
                                    \/ a = "renew" /\ results'[o][a] = "none",
         gpc' \in RenewedPcs => Clean
  PROVE  RecInv' /\ AnswerInv' /\ QueueInv' /\ BodyInv' /\ RowInv'
<1>1. \A o \in Ops, a \in {"apply", "finalize"} :
        Req(o, a) \in requests' <=> Req(o, a) \in requests
  BY DEF Req
<1>2. \A o \in Ops : Req(o, "renew") \in requests' =>
        Req(o, "renew") \in requests \/ results[o]["apply"] = "applied"
  BY DEF Req
<1>3. \A o \in Ops, a \in {"apply", "finalize", "rollback"} : results'[o][a] = results[o][a]
  BY DEF Acts
<1>4. \A o \in Ops : results'[o]["renew"] \in {results[o]["renew"], "none"}
  BY DEF Acts
<1>5. Base' = Base /\ \A o : Decided(o)' <=> Decided(o)
  BY DEF Base, Decided
<1>6. Clean' <=> Clean
  BY <1>1 DEF Clean
<1>7. RecInv'
  BY <1>1 DEF JInv, GInv, RecInv, OldIsFinal, Decided
<1>8. AnswerInv'
  BY <1>1, <1>2, <1>3, <1>4 DEF JInv, GInv, AnswerInv, Decided
<1>9. QueueInv'
  <2>1. \A o \in Ops : Waiting(Req(o, "apply"))' <=> Waiting(Req(o, "apply"))
    BY <1>1 DEF Waiting, Busy
  <2>2. (hpc = "idle" => batch = {})'
    BY DEF JInv, GInv, QueueInv
  <2>3. (rec.op \in Ops /\ asked[rec.op] # NotAsked /\ ~Waiting(Req(rec.op, "apply"))
           => \A op \in Ops \ {rec.op} : ~Waiting(Req(op, "apply")))'
    BY <2>1 DEF JInv, GInv, QueueInv
  <2>4. (\/ gpc \in RenewedPcs
         \/ rec.op \in Ops /\ \/ Req(rec.op, "renew") \in batch
                              \/ Busy(Req(rec.op, "renew"))
                              \/ results[rec.op]["renew"] # "none"
                              \/ Req(rec.op, "finalize") \in requests
                              \/ Decided(rec.op)
         => Clean)'
    BY <1>1, <1>4, <1>6 DEF JInv, GInv, QueueInv, Busy, Decided
  <2>5. (\A op \in Ops : Req(op, "apply") \in requests => asked[op].old = Base)'
    BY <1>1, <1>5 DEF JInv, GInv, QueueInv
  <2> QED
    BY <2>2, <2>3, <2>4, <2>5 DEF QueueInv
<1>10. BodyInv'
  BY DEF JInv, GInv, BodyInv
<1>11. RowInv'
  BY <1>5 DEF JInv, GInv, RowInv, Open, Decided
<1> QED
  BY <1>7, <1>8, <1>9, <1>10, <1>11

LEMMA RollbackSendKeeps ==
  ASSUME JInv, GTypeOK', UndoSend \/ BootSend PROVE GInv'
<1>1. /\ UNCHANGED <<rec, mem, goal, live, row, snap, leftover, asked, results, raced,
                     hpc, job, verdict, batch>>
      /\ \/ gpc = "undo_send" /\ gpc' \in {"undo_wait", "mark_repair"}
         \/ gpc = "boot_send" /\ gpc' \in {"boot_wait", "mark_repair"}
  BY DEF UndoSend, BootSend, Send, Steady, HelperUntouched, GoG, diskVars, procVars
<1>2. requests' = requests \/ requests' = requests \cup {Req(rec.op, "rollback")}
  BY InMemory DEF UndoSend, BootSend, Send, Publish, Req
<1>3. MemInv'
  <2>1. gpc' \notin {"undo_pub", "undo_ready", "reval_pub", "reval_save", "conv_pub",
                    "conv_ready", "commit"}
    BY <1>1
  <2> QED
    BY <1>1, <2>1 DEF JInv, GInv, MemInv, EarlyPcs, ForwardPcs, UndoPcs
<1>4. StageInv'
  BY <1>1 DEF StageInv, EarlyPcs, RenewedPcs
<1>5. CASE requests' = requests
  <2>1. LocalStep
    BY <1>1, <1>5 DEF LocalStep, SpoolUntouched, HelperUntouched, spoolVars, diskVars, procVars
  <2> QED
    BY <1>1, <1>3, <1>4, <2>1, MoveKeeps DEF EarlyPcs, RenewedPcs
<1>6. CASE requests' = requests \cup {Req(rec.op, "rollback")}
  <2>1. RecInv' /\ AnswerInv' /\ QueueInv' /\ BodyInv' /\ RowInv'
    BY <1>1, <1>6, AskRest DEF EarlyPcs, RenewedPcs
  <2> QED
    BY <1>3, <1>4, <2>1 DEF GInv
<1> QED
  BY <1>2, <1>5, <1>6

\* A switch under way is one of an operation the record names.
LEMMA UnderWay ==
  ASSUME JInv, gpc \in ForwardPcs
  PROVE  /\ rec.op \in Ops /\ mem.op = rec.op /\ mem.hash = rec.hash
         /\ rec.state \in Interrupted /\ rec.active = rec.hash.old
         /\ rec.hash \in [old : Modes, new : Modes] /\ rec.hash.old # rec.hash.new
         /\ goal = rec.hash.new
BY InMemory DEF JInv, GInv, MemInv, RecInv, GTypeOK, Records, ForwardPcs, EarlyPcs

\* What forgetting the answer to the last renewal does to the results.
LEMMA Forgotten ==
  ASSUME JInv, NEW op \in Ops,
         results' = [results EXCEPT ![op]["renew"] = "none"]
  PROVE  /\ \A o \in Ops, a \in Acts : \/ results'[o][a] = results[o][a]
                                       \/ a = "renew" /\ results'[o][a] = "none"
         /\ results'[op]["renew"] = "none"
         /\ \A a \in Acts \ {"renew"} : results'[op][a] = results[op][a]
         /\ results[op]["renew"] = "none" => results' = results
<1>1. results \in [Ops -> [Acts -> Verdicts]] /\ "renew" \in Acts
  BY DEF JInv, IInv, TypeOK, Acts
<1>2. \A o \in Ops : o # op => results'[o] = results[o]
  BY <1>1
<1>3. results'[op] = [results[op] EXCEPT !["renew"] = "none"]
  BY <1>1
<1>4. results[op] \in [Acts -> Verdicts]
  BY <1>1
<1>5. /\ results'[op]["renew"] = "none"
      /\ \A a \in Acts \ {"renew"} : results'[op][a] = results[op][a]
  BY <1>1, <1>3, <1>4
<1>6. results[op]["renew"] = "none" => results'[op] = results[op]
  BY <1>3, <1>4
<1>7. results[op]["renew"] = "none" => results' = results
  BY <1>1, <1>6
<1> QED
  BY <1>2, <1>5, <1>7

LEMMA RenewSendKeeps ==
  ASSUME JInv, GTypeOK', RenewSend \/ BeatSend PROVE GInv'
<1>1. gpc \in ForwardPcs
  BY DEF RenewSend, BeatSend, Beating, ForwardPcs, EarlyPcs
<1>2. /\ UNCHANGED <<rec, mem, goal, live, row, snap, leftover, asked, raced,
                     hpc, job, verdict, batch>>
      /\ results' = [results EXCEPT ![rec.op]["renew"] = "none"]
  BY <1>1, UnderWay
     DEF RenewSend, BeatSend, ForgetRenewed, Steady, HelperUntouched, diskVars, procVars
<1>3. /\ rec.op \in Ops /\ results[rec.op]["apply"] = "applied" /\ asked[rec.op] = rec.hash
      /\ Req(rec.op, "renew") \notin requests
  BY <1>1, UnderWay
     DEF RenewSend, BeatSend, Beating, JInv, GInv, StageInv, EarlyPcs, Req
<1>4. CASE RenewSend /\ gpc' = "failed"
  <2>1. results[rec.op]["renew"] = "none" /\ gpc = "renew_send" /\ requests' = requests
    BY <1>4 DEF RenewSend, Send, GoG, JInv, GInv, StageInv
  <2>2. LocalStep
    BY <1>2, <1>3, <2>1, Forgotten
       DEF LocalStep, SpoolUntouched, HelperUntouched, spoolVars, diskVars, procVars
  <2>3. MemInv'
    BY <1>2, <1>4, <2>1 DEF JInv, GInv, MemInv, EarlyPcs, ForwardPcs, UndoPcs
  <2>4. StageInv'
    BY <1>4 DEF StageInv, EarlyPcs, RenewedPcs
  <2> QED
    BY <1>2, <1>4, <2>2, <2>3, <2>4, MoveKeeps DEF EarlyPcs, RenewedPcs
<1>5. CASE ~(RenewSend /\ gpc' = "failed")
  <2>1. /\ requests' = requests \cup {Req(rec.op, "renew")}
        /\ \/ gpc = "renew_send" /\ gpc' = "renew_wait"
           \/ gpc' = gpc /\ gpc \in {"pending", "verify_sub", "verify_pub", "stop_beat"}
    BY <1>1, <1>5, UnderWay DEF RenewSend, BeatSend, Send, Publish, Req, GoG, Beating
  <2>2. gpc' \in RenewedPcs => Clean
    BY <2>1 DEF RenewedPcs, EarlyPcs, JInv, GInv, QueueInv
  <2>3. RecInv' /\ AnswerInv' /\ QueueInv' /\ BodyInv' /\ RowInv'
    BY <1>2, <1>3, <2>1, <2>2, Forgotten, AskRest
  <2>4. MemInv'
    <3>1. gpc' \notin {"undo_pub", "undo_ready", "reval_pub", "reval_save", "conv_pub",
                      "conv_ready", "commit"}
      BY <2>1
    <3> QED
      BY <1>2, <2>1, <3>1 DEF JInv, GInv, MemInv, EarlyPcs, ForwardPcs, UndoPcs
  <2>5. \A a \in {"rollback", "finalize"} :
          Req(rec.op, a) \in requests' <=> Req(rec.op, a) \in requests
    BY <2>1 DEF Req
  <2>6. job # Req(rec.op, "renew") \/ hpc \notin HandlerPcs
    BY <1>3, NotThere DEF Busy, Acts
  <2>7. StageInv'
    BY <1>2, <1>3, <2>1, <2>5, <2>6, Forgotten
       DEF JInv, GInv, StageInv, EarlyPcs, RenewedPcs, Acts, HandlerPcs
  <2> QED
    BY <2>3, <2>4, <2>7 DEF GInv
<1> QED
  BY <1>4, <1>5

LEMMA ApplySendKeeps == ASSUME JInv, GTypeOK', ApplySend PROVE GInv'
<1>1. /\ UNCHANGED <<rec, mem, goal, live, row, snap, leftover, results, raced,
                     hpc, job, verdict, batch>>
      /\ gpc = "apply_send" /\ gpc \in ForwardPcs
  BY DEF ApplySend, Steady, HelperUntouched, diskVars, procVars, ForwardPcs, EarlyPcs
<1>2. /\ rec.op \in Ops /\ mem.op = rec.op /\ mem.hash = rec.hash
      /\ rec.active = rec.hash.old /\ rec.state \in Interrupted /\ goal = rec.hash.new
  BY <1>1, UnderWay
<1>3. asked[rec.op] = NotAsked
  BY <1>1 DEF JInv, GInv, StageInv
<1>4. CASE ~RuntimeLive
  <2>1. LocalStep /\ gpc' = "failed"
    BY <1>1, <1>4 DEF ApplySend, Send, GoG, LocalStep, SpoolUntouched, HelperUntouched,
                      spoolVars, diskVars, procVars
  <2>2. MemInv'
    BY <1>1, <2>1 DEF JInv, GInv, MemInv, EarlyPcs, ForwardPcs, UndoPcs
  <2>3. StageInv'
    BY <2>1 DEF StageInv, EarlyPcs, RenewedPcs
  <2> QED
    BY <1>1, <2>1, <2>2, <2>3, MoveKeeps DEF EarlyPcs, RenewedPcs
<1>5. CASE RuntimeLive
  <2>1. /\ requests' = requests \cup {Req(rec.op, "apply")} /\ gpc' = "apply_wait"
        /\ asked' = [asked EXCEPT ![rec.op] = rec.hash]
    BY <1>2, <1>5 DEF ApplySend, Send, Publish, Req, GoG
  <2>2. /\ asked'[rec.op] = rec.hash
        /\ \A o \in Ops : o # rec.op => asked'[o] = asked[o]
    BY <1>2, <2>1 DEF JInv, IInv, TypeOK
  <2>3. /\ snap[rec.op].phase = "none" /\ ~Decided(rec.op)
        /\ results[rec.op]["apply"] = "none" /\ results[rec.op]["renew"] = "none"
        /\ Req(rec.op, "apply") \notin requests /\ Req(rec.op, "renew") \notin requests
        /\ Req(rec.op, "finalize") \notin requests
    BY <1>2, <1>3, Unasked
  <2>4. /\ Req(rec.op, "apply") \notin batch /\ ~Busy(Req(rec.op, "apply"))
        /\ Req(rec.op, "renew") \notin batch /\ ~Busy(Req(rec.op, "renew"))
    BY <1>2, <2>3, NotThere DEF Acts
  <2>5. \A o \in Ops, a \in Acts : Req(o, a) \in requests' <=>
                                    Req(o, a) \in requests \/ (o = rec.op /\ a = "apply")
    BY <2>1 DEF Req
  <2>6. Base = rec.active /\ Base' = Base
    BY <1>1, <2>3 DEF Base, Decided
  <2>7. RecInv'
    BY <1>1, <2>2, <2>5 DEF JInv, GInv, RecInv, OldIsFinal, Decided, Acts
  <2>8. MemInv'
    BY <1>1, <2>1 DEF JInv, GInv, MemInv, EarlyPcs, ForwardPcs, UndoPcs, Decided
  <2>9. StageInv'
    BY <1>1, <1>2, <2>1, <2>2, <2>5 DEF JInv, GInv, StageInv, EarlyPcs, RenewedPcs, Acts
  <2>10. AnswerInv'
    <3>1. \A o \in Ops, a \in {"renew", "finalize"} :
            Req(o, a) \in requests' <=> Req(o, a) \in requests
      BY <2>5 DEF Acts
    <3>2. \A o \in Ops : asked'[o] = NotAsked => /\ results[o]["apply"] = "none"
                                                 /\ results[o]["renew"] = "none"
      BY <2>2, <2>3 DEF JInv, GInv, AnswerInv
    <3>3. \A o \in Ops : Req(o, "apply") \in requests' =>
            results[o]["apply"] = "none" \/ Req(o, "apply") \in requests
      BY <2>3, <2>5 DEF Acts
    <3> QED
      BY <1>1, <3>1, <3>2, <3>3 DEF JInv, GInv, AnswerInv, Decided
  <2>11. QueueInv'
    <3>1. (hpc = "idle" => batch = {})'
      BY <1>1 DEF JInv, GInv, QueueInv
    <3>2. Waiting(Req(rec.op, "apply"))'
      BY <1>1, <2>1, <2>4 DEF Waiting, Busy
    <3>3. ~(\/ Req(rec.op, "renew") \in batch
            \/ Busy(Req(rec.op, "renew"))
            \/ results[rec.op]["renew"] # "none"
            \/ Req(rec.op, "finalize") \in requests
            \/ Decided(rec.op))'
      BY <1>1, <1>2, <2>3, <2>4, <2>5 DEF Busy, Decided, Acts
    <3>4. gpc' \notin RenewedPcs
      BY <2>1 DEF RenewedPcs, EarlyPcs
    <3>5. (\A o \in Ops : Req(o, "apply") \in requests => asked[o].old = Base)'
      BY <1>2, <2>2, <2>5, <2>6 DEF JInv, GInv, QueueInv, Acts
    <3> QED
      BY <3>1, <3>2, <3>3, <3>4, <3>5 DEF QueueInv
  <2>12. BodyInv'
    <3>1. hpc = "apply_snapshot" => asked'[job.op] = asked[job.op]
      <4>1. hpc = "apply_snapshot" => /\ job.op \in Ops
                                      /\ snap[job.op].phase = "dir"
        BY DEF JInv, IInv, ControlInv, HandlerPcs, Jobs
      <4> QED
        BY <2>2, <2>3, <4>1
    <3> QED
      BY <1>1, <3>1 DEF JInv, GInv, BodyInv
  <2>13. RowInv'
    BY <1>1, <2>2, <2>3, <2>6 DEF JInv, GInv, RowInv, Open, Decided, RestorePhases, WorkingPhases
  <2> QED
    BY <2>7, <2>8, <2>9, <2>10, <2>11, <2>12, <2>13 DEF GInv
<1> QED
  BY <1>4, <1>5

\* What the Gateway knows when it asks for finalize: the new mode is served.
LEMMA Served ==
  ASSUME JInv, gpc \in {"stop_beat", "lease_renew", "finalize_send"}
  PROVE  /\ snap[rec.op].phase = "applied" /\ snap[rec.op].fresh
         /\ results[rec.op]["apply"] = "applied" /\ results[rec.op]["rollback"] = "none"
         /\ Req(rec.op, "rollback") \notin requests
         /\ live = rec.hash.new /\ row = rec.hash.new /\ asked[rec.op] = rec.hash
<1>1. gpc \in ForwardPcs
  BY DEF ForwardPcs, EarlyPcs
<1>2. rec.op \in Ops /\ goal = rec.hash.new
  BY <1>1, UnderWay
<1>3. /\ snap[rec.op].phase = "applied" /\ snap[rec.op].fresh
      /\ results[rec.op]["apply"] = "applied" /\ results[rec.op]["rollback"] = "none"
      /\ Req(rec.op, "rollback") \notin requests
      /\ live = goal /\ asked[rec.op] = rec.hash
  BY DEF JInv, GInv, StageInv, EarlyPcs, RenewedPcs
<1> QED
  BY <1>2, <1>3, AtRest

LEMMA FinalizeSendKeeps == ASSUME JInv, GTypeOK', FinalizeSend PROVE GInv'
<1>1. /\ UNCHANGED <<rec, mem, goal, live, row, snap, leftover, asked, results, raced,
                     hpc, job, verdict, batch>>
      /\ gpc = "finalize_send" /\ gpc \in ForwardPcs
      /\ gpc' \in {"finalize_wait", "failed"}
  BY DEF FinalizeSend, Send, GoG, Steady, HelperUntouched, diskVars, procVars, ForwardPcs,
         EarlyPcs
<1>2. rec.op \in Ops /\ mem.op = rec.op /\ rec.state \in Interrupted
  BY <1>1, UnderWay
<1>3. MemInv'
  BY <1>1 DEF JInv, GInv, MemInv, EarlyPcs, ForwardPcs, UndoPcs
<1>4. StageInv'
  BY <1>1 DEF StageInv, EarlyPcs, RenewedPcs
<1>5. CASE ~RuntimeLive
  <2>1. LocalStep
    BY <1>1, <1>5 DEF FinalizeSend, Send, LocalStep, SpoolUntouched, HelperUntouched,
                      spoolVars, diskVars, procVars
  <2> QED
    BY <1>1, <1>3, <1>4, <2>1, MoveKeeps DEF EarlyPcs, RenewedPcs
<1>6. CASE RuntimeLive
  <2>1. requests' = requests \cup {Req(rec.op, "finalize")}
    BY <1>2, <1>6 DEF FinalizeSend, Send, Publish, Req
  <2>2. \A o \in Ops, a \in Acts : Req(o, a) \in requests' <=>
                                    Req(o, a) \in requests \/ (o = rec.op /\ a = "finalize")
    BY <2>1 DEF Req
  <2>3. /\ snap[rec.op].phase = "applied" /\ results[rec.op]["apply"] = "applied"
        /\ live = row
    BY <1>1, Served
  <2>4. Base' = Base
    BY <1>1 DEF Base, Decided
  <2>5. Clean /\ Clean'
    BY <1>1, <2>2 DEF JInv, GInv, QueueInv, RenewedPcs, EarlyPcs, Clean, Acts
  <2>6. RecInv'
    BY <1>1, <1>2, <2>2 DEF JInv, GInv, RecInv, Decided, Interrupted
  <2>7. AnswerInv'
    BY <1>1, <2>2, <2>3 DEF JInv, GInv, AnswerInv, Decided, Acts
  <2>8. QueueInv'
    <3>1. \A o \in Ops : Waiting(Req(o, "apply"))' <=> Waiting(Req(o, "apply"))
      BY <1>1, <2>2 DEF Waiting, Busy, Acts
    <3>2. (hpc = "idle" => batch = {})'
      BY <1>1 DEF JInv, GInv, QueueInv
    <3>3. (rec.op \in Ops /\ asked[rec.op] # NotAsked /\ ~Waiting(Req(rec.op, "apply"))
             => \A op \in Ops \ {rec.op} : ~Waiting(Req(op, "apply")))'
      BY <1>1, <3>1 DEF JInv, GInv, QueueInv
    <3>4. (\A op \in Ops : Req(op, "apply") \in requests => asked[op].old = Base)'
      BY <1>1, <2>2, <2>4 DEF JInv, GInv, QueueInv, Acts
    <3> QED
      BY <2>5, <3>2, <3>3, <3>4 DEF QueueInv
  <2>9. BodyInv'
    BY <1>1 DEF JInv, GInv, BodyInv
  <2>10. RowInv'
    BY <1>1, <2>4 DEF JInv, GInv, RowInv, Open, Decided
  <2> QED
    BY <1>3, <1>4, <2>6, <2>7, <2>8, <2>9, <2>10 DEF GInv
<1> QED
  BY <1>5, <1>6

(***************************************************************************)
(* Steps of the helper                                                     *)
(***************************************************************************)

\* What the Gateway remembers stays true while the helper decides nothing it has
\* not been asked to decide.
LEMMA GateSide ==
  ASSUME JInv, UNCHANGED gateVars, asked' = asked, requests' \subseteq requests,
         \A o \in Ops : Decided(o) => Decided(o)',
         \A o \in Ops : Decided(o)' => Decided(o) \/ Req(o, "finalize") \in requests
  PROVE  GTypeOK' /\ RecInv' /\ MemInv'
<1>1. UNCHANGED <<rec, gpc, mem, goal, applied, beat, lease, gone>>
  BY DEF gateVars
<1>2. GTypeOK'
  BY <1>1 DEF JInv, GInv, GTypeOK
<1>3. rec.op \in Ops => /\ Decided(rec.op) => Decided(rec.op)'
                        /\ OldIsFinal => OldIsFinal'
  BY <1>1 DEF OldIsFinal
<1>4. RecInv'
  BY <1>1, <1>3 DEF JInv, GInv, RecInv
<1>5. rec.state \in Interrupted => rec.op \in Ops
  BY DEF JInv, GInv, RecInv
<1>6. MemInv'
  BY <1>1, <1>3, <1>5 DEF JInv, GInv, MemInv, Interrupted, UndoPcs, ForwardPcs, EarlyPcs
<1> QED
  BY <1>2, <1>4, <1>6

\* While a handler changes the runtime or the row, no switch is past its renewal
\* and every finalize in the spool is one already carried out.
LEMMA Away ==
  ASSUME JInv, hpc \in ApplyPcs \cup RollbackPcs
  PROVE  /\ gpc \notin RenewedPcs
         /\ ~(gpc = "renew_wait" /\ results[rec.op]["renew"] = "renewed")
         /\ \A op \in Ops : Req(op, "finalize") \in requests => Decided(op) /\ op # job.op
<1>1. ~(snap[rec.op].phase = "applied" /\ snap[rec.op].fresh
         /\ Req(rec.op, "rollback") \notin requests /\ rec.op \in Ops)
  BY AtRest
<1>2. gpc \in ForwardPcs /\ gpc \in EarlyPcs =>
        rec.op \in Ops /\ Req(rec.op, "rollback") \notin requests
  BY UnderWay DEF JInv, GInv, StageInv
<1>3. gpc \in RenewedPcs \cup {"renew_wait"} => gpc \in EarlyPcs /\ gpc \in ForwardPcs
  BY DEF RenewedPcs, EarlyPcs, ForwardPcs
<1>4. \/ gpc \in RenewedPcs
      \/ gpc = "renew_wait" /\ results[rec.op]["renew"] = "renewed"
      => snap[rec.op].phase = "applied" /\ snap[rec.op].fresh
  BY DEF JInv, GInv, StageInv
<1>5. ASSUME NEW op \in Ops, Req(op, "finalize") \in requests PROVE Decided(op) /\ op # job.op
  <2>1. snap[op].phase # "applied"
    BY <1>5, AtRest
  <2>2. Decided(op)
    BY <1>5, <2>1 DEF JInv, GInv, AnswerInv, Decided
  <2> QED
    BY <2>2, SoleOpen DEF Open, Decided, RestorePhases, WorkingPhases
<1> QED
  BY <1>1, <1>2, <1>3, <1>4, <1>5

\* A handler's step leaves the queue as it is.
LEMMA HandlerQueue ==
  ASSUME JInv, UNCHANGED <<rec, gpc, asked, requests, results, batch, job>>,
         hpc \in HandlerPcs, hpc' \in HandlerPcs \/ (hpc' = "sweep" /\ job.act = "recover"),
         Base' = Base, rec.op \in Ops /\ Decided(rec.op)' => Decided(rec.op)
  PROVE  QueueInv'
<1>1. hpc' # "idle"
  BY DEF HandlerPcs, ApplyPcs, RollbackPcs
<1>2. \A o \in Ops, a \in Acts : Busy(Req(o, a))' <=> Busy(Req(o, a))
  BY ReqIs DEF Busy, Acts
<1>3. \A o \in Ops : Waiting(Req(o, "apply"))' <=> Waiting(Req(o, "apply"))
  BY <1>2 DEF Waiting, Acts
<1>4. rec.op \in Ops => (Busy(Req(rec.op, "renew"))' <=> Busy(Req(rec.op, "renew")))
  BY <1>2 DEF Acts
<1>5. Clean' <=> Clean
  BY DEF Clean
<1> QED
  BY <1>1, <1>3, <1>4, <1>5 DEF JInv, GInv, QueueInv

\* A step that changes the runtime, the row or an open snapshot.
Works ==
  /\ UNCHANGED <<gateVars, asked, requests, results, batch, job>>
  /\ hpc \in ApplyPcs \cup RollbackPcs
  /\ hpc' \in HandlerPcs \/ (hpc' = "sweep" /\ job.act = "recover")
  /\ hpc' = "publish" => verdict' \notin {"already_finalized", "renewed"}
  /\ hpc' # "apply_snapshot"
  /\ \A o \in Ops : o # job.op => snap'[o] = snap[o]
  /\ snap'[job.op].phase \notin {"finalized", "snapshot"}

LEMMA WorksDecide ==
  ASSUME JInv, Works
  PROVE  Base' = Base /\ \A o \in Ops : Decided(o)' <=> Decided(o)
<1>1. job.op \in Ops /\ Open(job.op)
  BY SoleOpen DEF Works
<1>2. ~Decided(job.op) /\ ~Decided(job.op)'
  BY <1>1 DEF Works, Decided, Open, RestorePhases, WorkingPhases
<1>3. \A o \in Ops : Decided(o)' <=> Decided(o)
  BY <1>2 DEF Works, Decided
<1>4. rec' = rec
  BY DEF Works, gateVars
<1> QED
  BY <1>3, <1>4 DEF Base

LEMMA WorksKeeps ==
  ASSUME JInv, Works, BodyInv', RowInv' PROVE GInv'
<1>1. UNCHANGED <<rec, gpc, mem, goal>>
  BY DEF Works, gateVars
<1>2. hpc \in HandlerPcs /\ hpc \notin {"publish", "unlink"}
  BY DEF Works, HandlerPcs, ApplyPcs, RollbackPcs
<1>3. GTypeOK' /\ RecInv' /\ MemInv'
  BY WorksDecide, GateSide DEF Works
<1>4. StageInv'
  BY <1>1, Away DEF Works, JInv, GInv, StageInv, RenewedPcs, EarlyPcs
<1>5. AnswerInv'
  BY <1>1, <1>2, Away, WorksDecide DEF Works, JInv, GInv, AnswerInv, Decided
<1>6. QueueInv'
  BY <1>1, <1>2, WorksDecide, HandlerQueue DEF Works
<1> QED
  BY <1>3, <1>4, <1>5, <1>6 DEF GInv

\* The open snapshot stays open: its modes, and what else lies on disk, are kept.
LEMMA StaysOpen ==
  ASSUME JInv, Works,
         snap'[job.op].phase \in RestorePhases,
         snap'[job.op].old = snap[job.op].old, snap'[job.op].new = snap[job.op].new,
         hpc' \in ApplyPcs \cup RollbackPcs \/ row' = snap[job.op].new,
         \A o \in Ops : leftover'[o] => /\ hpc' \in {"rollback_remove", "rollback_add"}
                                        /\ o = job.op
  PROVE  RowInv'
<1>1. /\ job.op \in Ops /\ Open(job.op) /\ \A o \in Ops : Open(o) => o = job.op
      /\ job' = job /\ asked' = asked /\ rec' = rec
  BY SoleOpen DEF Works, gateVars
<1>2. \A o \in Ops : Open(o)' <=> o = job.op
  BY <1>1 DEF Works, Open
<1>3. /\ snap'[job.op].old = Base' /\ snap'[job.op].new = asked'[job.op].new
      /\ snap'[job.op].old # snap'[job.op].new
  BY <1>1, WorksDecide DEF JInv, GInv, RowInv
<1>4. ~(rec.op \in Ops /\ Decided(rec.op))
  BY <1>1 DEF JInv, GInv, RowInv
<1>5. ~(rec.op \in Ops /\ Decided(rec.op))'
  BY <1>1, <1>4, WorksDecide
<1>6. \A o \in Ops : snap'[o].phase # "snapshot"
  BY <1>2 DEF Works, Open, RestorePhases, WorkingPhases
<1> QED
  BY <1>1, <1>2, <1>3, <1>5, <1>6 DEF RowInv

\* The open snapshot is gone: what it remembered is served.
LEMMA Closes ==
  ASSUME JInv, Works, ~Open(job.op)', live' = snap[job.op].old, row' = snap[job.op].old,
         \A o \in Ops : ~leftover'[o]
  PROVE  RowInv'
<1>1. /\ job.op \in Ops /\ Open(job.op) /\ \A o \in Ops : Open(o) => o = job.op
      /\ rec' = rec
  BY SoleOpen DEF Works, gateVars
<1>2. \A o \in Ops : ~Open(o)'
  BY <1>1 DEF Works, Open
<1>3. live' = Base' /\ row' = Base'
  BY <1>1, WorksDecide DEF JInv, GInv, RowInv
<1> QED
  BY <1>2, <1>3 DEF RowInv, Open, RestorePhases, WorkingPhases

\* Under HelperReliable no call to Xray fails and nothing is restarted.
LEMMA Reliable ==
  ASSUME HelperReliable
  PROVE  ~Fault("xray") /\ ~Fault("helper_crash") /\ ~Fault("xui_restart")
BY DEF HelperReliable, Fault

LEMMA NoLeftover ==
  ASSUME JInv, hpc \notin {"rollback_remove", "rollback_add"}
  PROVE  \A o \in Ops : ~leftover[o]
BY DEF JInv, GInv, RowInv

\* apply, step by step: nothing fails but the transaction in the database.
LEMMA ApplyWorks ==
  ASSUME HelperReliable, JInv, UNCHANGED gateVars,
         ApplyOfflineTest \/ ApplyRemove \/ ApplyAdd \/ ApplyPersist \/ ApplyVerify
  PROVE  GInv'
<1> DEFINE s == snap[job.op]
<1> USE DEF ApplyPcs, RollbackPcs
<1>1. hpc \in ApplyPcs
  BY DEF ApplyOfflineTest, ApplyRemove, ApplyAdd, ApplyPersist, ApplyVerify, At
<1>2. /\ job \in Jobs /\ job.op \in Ops /\ Open(job.op)
      /\ s.old \in Modes /\ s.new \in Modes
  BY <1>1, SoleOpen DEF JInv, IInv, TypeOK, SnapOK, Open
<1>3. Absent \notin Modes
  BY ModesAssumption
<1>4. UNCHANGED <<asked, requests, results, batch, job, leftover>>
  BY DEF ApplyOfflineTest, ApplyRemove, ApplyAdd, ApplyPersist, ApplyVerify, ApplyFails,
         Goto, Say, spoolVars
<1>5. \/ /\ hpc = "apply_offline_test" /\ hpc' = "apply_remove" /\ UNCHANGED <<live, row>>
         /\ snap' = [snap EXCEPT ![job.op].phase = "runtime_remove_pending"]
      \/ /\ hpc = "apply_remove" /\ hpc' = "apply_add" /\ live' = Absent /\ row' = row
         /\ snap' = [snap EXCEPT ![job.op].phase = "runtime_add_pending"]
      \/ /\ hpc = "apply_add" /\ hpc' = "apply_persist" /\ live' = s.new /\ row' = row
         /\ snap' = [snap EXCEPT ![job.op].phase = "database_pending"]
      \/ /\ hpc = "apply_persist" /\ hpc' = "apply_verify" /\ live' = live /\ row' = s.new
         /\ snap' = [snap EXCEPT ![job.op].phase = "database_committed"]
      \/ /\ hpc = "apply_persist" /\ hpc' = "rollback_snapshot"
         /\ UNCHANGED <<live, row, snap>>
      \/ /\ hpc = "apply_verify" /\ hpc' = "publish" /\ UNCHANGED <<live, row>>
         /\ verdict' = "applied" /\ snap' = [snap EXCEPT ![job.op].phase = "applied"]
  BY <1>2, <1>3, Reliable
     DEF ApplyOfflineTest, ApplyRemove, ApplyAdd, ApplyPersist, ApplyVerify, ApplyFails,
         Goto, Say, At, Phase, JInv, GInv, BodyInv
<1>6. /\ \A o \in Ops : o # job.op => snap'[o] = snap[o]
      /\ snap'[job.op].old = s.old /\ snap'[job.op].new = s.new
      /\ snap'[job.op].phase \in RestorePhases \ {"snapshot"}
  <2>1. At(hpc) /\ IInv
    BY <1>2 DEF At, JInv
  <2>2. CASE hpc' = "rollback_snapshot"
    BY <1>1, <1>2, <1>5, <2>2 DEF JInv, CInv, PhaseInv, Open
  <2>3. CASE \E p \in RestorePhases \ {"snapshot"} : snap' = [snap EXCEPT ![job.op].phase = p]
    BY <2>1, <2>3, PhaseOnly
  <2>4. {"runtime_remove_pending", "runtime_add_pending", "database_pending",
         "database_committed", "applied"} \subseteq RestorePhases \ {"snapshot"}
    BY DEF RestorePhases, WorkingPhases
  <2> QED
    BY <1>5, <2>2, <2>3, <2>4
<1>7. Works
  BY <1>1, <1>4, <1>5, <1>6 DEF Works, HandlerPcs, RestorePhases, WorkingPhases
<1>8. /\ hpc = "apply_remove" \/ hpc = "apply_offline_test" => live = s.old /\ row = s.old
      /\ hpc = "apply_add" => live = Absent /\ row = s.old
      /\ hpc = "apply_persist" => live = s.new /\ row = s.old
      /\ hpc = "apply_verify" => live = s.new /\ row = s.new
  BY DEF JInv, GInv, BodyInv
<1>9. BodyInv'
  BY <1>4, <1>5, <1>6, <1>8 DEF BodyInv
<1>10. RowInv'
  <2>1. \A o \in Ops : ~leftover'[o]
    BY <1>1, <1>4, NoLeftover
  <2>2. hpc' \in ApplyPcs \cup RollbackPcs \/ row' = s.new
    BY <1>5, <1>8
  <2> QED
    BY <1>6, <1>7, <2>1, <2>2, StaysOpen
<1> QED
  BY <1>7, <1>9, <1>10, WorksKeeps

\* _rollback_snapshot, step by step: it fails only where the database does.
LEMMA RollbackWorks ==
  ASSUME HelperReliable, JInv, UNCHANGED gateVars,
         RollbackSnapshot \/ RollbackRemove \/ RollbackAdd \/ RollbackRestore
  PROVE  GInv'
<1> DEFINE s == snap[job.op]
<1> USE DEF ApplyPcs, RollbackPcs
<1>1. hpc \in RollbackPcs
  BY DEF RollbackSnapshot, RollbackRemove, RollbackAdd, RollbackRestore, At
<1>2. /\ job \in Jobs /\ job.op \in Ops /\ Open(job.op)
      /\ s.old \in Modes /\ s.new \in Modes /\ s.phase \in RestorePhases \ {"snapshot"}
      /\ row \in {s.old, s.new} /\ leftover \in [Ops -> BOOLEAN]
  BY <1>1, SoleOpen DEF JInv, IInv, TypeOK, SnapOK, Open, GInv, BodyInv
<1>3. /\ Boundary
      /\ hpc = "rollback_snapshot" => ~leftover[job.op]
      /\ hpc = "rollback_add" => live = Absent
      /\ hpc = "rollback_restore" => live = s.old
  BY <1>2, NoLeftover DEF Boundary, JInv, GInv, BodyInv
<1>4. UNCHANGED <<asked, requests, results, batch, job, snap>>
  BY DEF RollbackSnapshot, RollbackRemove, RollbackAdd, RollbackRestore, RollbackFails,
         Goto, spoolVars
<1>5. \/ /\ hpc = "rollback_snapshot" /\ hpc' = "rollback_remove" /\ UNCHANGED <<live, row>>
         /\ leftover' = [leftover EXCEPT ![job.op] = TRUE]
      \/ /\ hpc = "rollback_remove" /\ hpc' = "rollback_add" /\ live' = Absent
         /\ UNCHANGED <<row, leftover>>
      \/ /\ hpc = "rollback_add" /\ hpc' = "rollback_restore" /\ live' = s.old /\ row' = row
         /\ leftover' = [leftover EXCEPT ![job.op] = FALSE]
      \/ /\ hpc = "rollback_restore" /\ hpc' = "rollback_verify" /\ row' = s.old
         /\ UNCHANGED <<live, leftover>>
      \/ /\ hpc = "rollback_restore" /\ hpc' = "rollback_failed" /\ row # s.old
         /\ UNCHANGED <<live, row, leftover>>
  BY <1>2, <1>3, Reliable
     DEF RollbackSnapshot, RollbackRemove, RollbackAdd, RollbackRestore, RollbackFails,
         DropTemporary, Goto, At
<1>6. Works
  BY <1>1, <1>2, <1>4, <1>5 DEF Works, HandlerPcs, RestorePhases, WorkingPhases
<1>7. BodyInv'
  BY <1>2, <1>3, <1>4, <1>5 DEF BodyInv
<1>8. \A o \in Ops : leftover[o] => hpc \in {"rollback_remove", "rollback_add"} /\ o = job.op
  BY DEF JInv, GInv, RowInv
<1>9. \A o \in Ops : leftover'[o] => hpc' \in {"rollback_remove", "rollback_add"} /\ o = job.op
  BY <1>2, <1>5, <1>8
<1>10. hpc' \in RollbackPcs
  BY <1>5
<1>11. RowInv'
  BY <1>2, <1>4, <1>6, <1>9, <1>10, StaysOpen
<1> QED
  BY <1>6, <1>7, <1>11, WorksKeeps

\* The end of a rollback: nothing left to undo, or quarantined in the new mode.
LEMMA RollbackEnds ==
  ASSUME HelperReliable, JInv, UNCHANGED gateVars, RollbackVerify \/ RollbackFailed
  PROVE  GInv'
<1> DEFINE s == snap[job.op]
<1> USE DEF ApplyPcs, RollbackPcs
<1>1. hpc \in RollbackPcs /\ hpc \in {"rollback_verify", "rollback_failed"}
  BY DEF RollbackVerify, RollbackFailed, At
<1>2. /\ job \in Jobs /\ job.op \in Ops /\ Open(job.op)
      /\ s.old \in Modes /\ s.new \in Modes /\ s.phase \in RestorePhases \ {"snapshot"}
      /\ \A o \in Ops : ~leftover[o]
  BY <1>1, SoleOpen, NoLeftover DEF JInv, IInv, TypeOK, SnapOK, Open, GInv, BodyInv
<1>3. /\ UNCHANGED <<asked, requests, results, batch, job, live, row>>
      /\ \/ hpc' = "publish" /\ verdict' \in {"rolled_back", "failed"}
         \/ hpc' = "sweep" /\ job.act = "recover"
  <2>1. hpc = "rollback_verify" => live = s.old /\ row = s.old
    BY DEF JInv, GInv, BodyInv
  <2> QED
    BY <1>2, <2>1, ModesAssumption, Reliable
       DEF RollbackVerify, RollbackFailed, Say, Goto, At, spoolVars
<1>4. At(hpc) /\ IInv
  BY <1>2 DEF At, JInv
<1>5. CASE RollbackVerify
  <2>1. live = s.old /\ row = s.old /\ live # Absent
    BY <1>2, <1>5, ModesAssumption DEF RollbackVerify, At, JInv, GInv, BodyInv
  <2>2. /\ \E p \in {"rolled_back", "none"} : snap' = [snap EXCEPT ![job.op] = Bare(p)]
        /\ leftover' = leftover \/ leftover' = [leftover EXCEPT ![job.op] = FALSE]
    BY <1>5, <2>1, Reliable DEF RollbackVerify, DropTemporary
  <2>3. /\ \A o \in Ops : o # job.op => snap'[o] = snap[o]
        /\ snap'[job.op].phase \in {"rolled_back", "none"}
    BY <1>4, <2>2, OneEntry, BareEntry
  <2>4. Works
    BY <1>1, <1>3, <1>5, <2>3 DEF Works, HandlerPcs
  <2>5. ~Open(job.op)'
    BY <1>3, <2>3 DEF Open, RestorePhases, WorkingPhases
  <2>6. \A o \in Ops : ~leftover'[o]
    BY <1>2, <2>2 DEF JInv, IInv, TypeOK
  <2>7. RowInv'
    BY <1>3, <2>1, <2>4, <2>5, <2>6, Closes
  <2>8. BodyInv'
    BY <1>3 DEF BodyInv
  <2> QED
    BY <2>4, <2>7, <2>8, WorksKeeps
<1>6. CASE RollbackFailed
  <2>1. row = s.new
    BY <1>6 DEF RollbackFailed, At, JInv, GInv, BodyInv
  <2>2. snap' = snap \/ snap' = [snap EXCEPT ![job.op].phase = "repair_required"]
    BY <1>6 DEF RollbackFailed, Phase
  <2>3. /\ \A o \in Ops : o # job.op => snap'[o] = snap[o]
        /\ snap'[job.op].old = s.old /\ snap'[job.op].new = s.new
        /\ snap'[job.op].phase \in RestorePhases \ {"snapshot"}
    BY <1>2, <1>4, <2>2, PhaseOnly DEF RestorePhases, WorkingPhases
  <2>4. leftover' = leftover
    BY <1>6 DEF RollbackFailed
  <2>5. Works
    BY <1>1, <1>3, <2>3 DEF Works, HandlerPcs, RestorePhases, WorkingPhases
  <2>6. RowInv'
    BY <1>2, <1>3, <2>1, <2>3, <2>4, <2>5, StaysOpen
  <2>7. BodyInv'
    BY <1>3 DEF BodyInv
  <2> QED
    BY <2>5, <2>6, <2>7, WorksKeeps
<1> QED
  BY <1>5, <1>6

\* A handler's step that leaves the runtime, the row and every open snapshot alone.
Quiet ==
  /\ UNCHANGED <<gateVars, asked, requests, results, batch, job, live, row, leftover>>
  /\ hpc \in HandlerPcs \ (ApplyPcs \cup RollbackPcs \cup {"publish", "unlink"})
  /\ hpc' \in HandlerPcs \ ApplyPcs
  /\ \A o \in Ops : \/ snap'[o].phase = snap[o].phase
                     \/ {snap[o].phase, snap'[o].phase} \subseteq {"none", "dir"}
  /\ \A o \in Ops : Open(o) => /\ snap'[o].old = snap[o].old /\ snap'[o].new = snap[o].new
                               /\ snap[o].fresh => snap'[o].fresh
  /\ hpc' = "publish" /\ job.act = "rollback" /\ verdict' = "already_finalized"
       => Decided(job.op)
  /\ hpc' = "publish" /\ job.act = "renew" /\ verdict' = "renewed"
       => snap'[job.op].phase = "applied" /\ snap'[job.op].fresh
  /\ hpc' = "apply_snapshot" => row = asked[job.op].old
  /\ hpc' \in RollbackPcs => hpc' = "rollback_snapshot" /\ Open(job.op)

LEMMA QuietKeeps == ASSUME JInv, Quiet PROVE GInv'
<1>1. /\ UNCHANGED <<rec, gpc, mem, goal, asked, requests, results, batch, job, live, row,
                     leftover>>
      /\ job \in Jobs /\ job.op \in Ops /\ hpc \in HandlerPcs
  BY DEF Quiet, gateVars, JInv, IInv, ControlInv, Jobs
<1>2. \A o \in Ops : /\ Open(o)' <=> Open(o)
                     /\ Decided(o)' <=> Decided(o)
                     /\ snap'[o].phase \in {"applied", "finalized", "snapshot"}
                          \/ snap[o].phase \in {"applied", "finalized", "snapshot"}
                          => snap'[o].phase = snap[o].phase
  BY DEF Quiet, Open, Decided, RestorePhases, WorkingPhases
<1>3. Base' = Base
  BY <1>1, <1>2 DEF Base
<1>11. ASSUME NEW o \in Ops, Open(o)
       PROVE  /\ snap'[o].old = snap[o].old /\ snap'[o].new = snap[o].new
              /\ snap[o].fresh => snap'[o].fresh
  BY <1>11 DEF Quiet
<1>4. GTypeOK' /\ RecInv' /\ MemInv'
  BY <1>2, GateSide DEF Quiet
<1>5. StageInv'
  <2>1. gpc \in RenewedPcs \/ gpc = "renew_wait" => rec.op \in Ops
    BY UnderWay DEF RenewedPcs, EarlyPcs, ForwardPcs
  <2>2. rec.op \in Ops /\ snap[rec.op].phase = "applied" /\ snap[rec.op].fresh
          => snap'[rec.op].phase = "applied" /\ snap'[rec.op].fresh
    <3>1. rec.op \in Ops /\ snap[rec.op].phase = "applied" => Open(rec.op)
      BY DEF Open, RestorePhases, WorkingPhases
    <3> QED
      BY <1>2, <1>11, <3>1
  <2>3. rec.op \in Ops /\ hpc' = "publish" /\ job = Req(rec.op, "renew") /\ verdict' = "renewed"
          => snap'[rec.op].phase = "applied" /\ snap'[rec.op].fresh
    BY ReqIs DEF Quiet
  <2>4. ((\/ gpc \in RenewedPcs
          \/ /\ gpc = "renew_wait"
             /\ \/ results[rec.op]["renew"] = "renewed"
                \/ hpc = "publish" /\ job = Req(rec.op, "renew") /\ verdict = "renewed")
         => snap[rec.op].phase = "applied" /\ snap[rec.op].fresh)'
    BY <1>1, <2>1, <2>2, <2>3 DEF JInv, GInv, StageInv
  <2> QED
    BY <1>1, <2>4 DEF JInv, GInv, StageInv
<1>6. AnswerInv'
  <2>1. hpc \notin {"unlink", "publish"}
    BY DEF Quiet
  <2>2. \A o \in Ops : hpc' = "publish" /\ job = Req(o, "rollback")
                        /\ verdict' = "already_finalized" => Decided(o)
    BY ReqIs DEF Quiet
  <2> QED
    BY <1>1, <1>2, <2>1, <2>2 DEF JInv, GInv, AnswerInv, Decided
<1>7. QueueInv'
  BY <1>1, <1>2, <1>3, HandlerQueue DEF Quiet
<1>8. hpc \notin ApplyPcs \cup RollbackPcs /\ hpc' \notin ApplyPcs
  BY DEF Quiet
<1>12. \A o \in Ops : Open(o) =>
         /\ snap[o].old = Base /\ snap[o].new = asked[o].new
         /\ snap[o].old # snap[o].new /\ row = snap[o].new
  BY <1>8 DEF JInv, GInv, RowInv
<1>9. BodyInv'
  <2>1. hpc' = "apply_snapshot" => row' = asked'[job'.op].old
    BY <1>1 DEF Quiet
  <2>2. hpc' \in RollbackPcs =>
          hpc' = "rollback_snapshot" /\ snap'[job'.op].phase # "snapshot"
          /\ row' = snap'[job'.op].new
    <3>1. snap[job.op].phase # "snapshot"
      BY <1>1, <1>8 DEF JInv, GInv, RowInv, ApplyPcs
    <3>2. Open(job.op) => row = snap[job.op].new /\ snap'[job.op].new = snap[job.op].new
      BY <1>1, <1>11, <1>12
    <3> QED
      BY <1>1, <1>2, <3>1, <3>2 DEF Quiet
  <2> QED
    BY <1>8, <2>1, <2>2 DEF BodyInv, ApplyPcs, RollbackPcs
<1>10. RowInv'
  <2>1. \A o \in Ops : ~leftover'[o]
    BY <1>1, <1>8, NoLeftover DEF RollbackPcs
  <2>2. \A o \in Ops : snap'[o].phase # "snapshot"
    BY <1>2, <1>8 DEF JInv, GInv, RowInv, ApplyPcs
  <2>3. \A o \in Ops : Open(o) =>
          /\ snap'[o].old = Base' /\ snap'[o].new = asked'[o].new
          /\ snap'[o].old # snap'[o].new /\ row' = snap'[o].new
    BY <1>1, <1>3, <1>11, <1>12
  <2> QED
    BY <1>1, <1>2, <1>3, <2>1, <2>2, <2>3 DEF JInv, GInv, RowInv
<1> QED
  BY <1>4, <1>5, <1>6, <1>7, <1>9, <1>10 DEF GInv

LEMMA AdmitKeeps ==
  ASSUME JInv, UNCHANGED gateVars, ApplyAdmit PROVE GInv'
<1>1. /\ At(hpc) /\ hpc = "apply" /\ job.act = "apply" /\ IInv
      /\ UNCHANGED <<asked, requests, results, batch, job, live, row, leftover>>
  BY DEF ApplyAdmit, At, Say, Goto, spoolVars, JInv, IInv, ControlInv
<1>2. \/ hpc' = "publish" /\ snap' = snap
      \/ /\ hpc' = "apply_snapshot" /\ row = asked[job.op].old
         /\ snap[job.op].phase = "none" /\ snap' = [snap EXCEPT ![job.op] = Bare("dir")]
  BY DEF ApplyAdmit, Say, Goto
<1>3. CASE hpc' = "publish" /\ snap' = snap
  BY <1>1, <1>3, QuietKeeps DEF Quiet, HandlerPcs, ApplyPcs, RollbackPcs
<1>4. CASE /\ hpc' = "apply_snapshot" /\ row = asked[job.op].old
           /\ snap[job.op].phase = "none" /\ snap' = [snap EXCEPT ![job.op] = Bare("dir")]
  <2>1. /\ \A o \in Ops : o # job.op => snap'[o] = snap[o]
        /\ snap'[job.op].phase = "dir" /\ ~Open(job.op)
    BY <1>1, <1>4, OneEntry, BareEntry DEF Open, RestorePhases, WorkingPhases
  <2> QED
    BY <1>1, <1>4, <2>1, QuietKeeps DEF Quiet, HandlerPcs, ApplyPcs, RollbackPcs
<1> QED
  BY <1>2, <1>3, <1>4

LEMMA RenewKeepsGate ==
  ASSUME JInv, UNCHANGED gateVars, Renew PROVE GInv'
<1>1. /\ At(hpc) /\ hpc = "renew" /\ job.act = "renew" /\ hpc' = "publish"
      /\ UNCHANGED <<asked, requests, results, batch, job, live, row, leftover>>
  BY DEF Renew, At, Say, spoolVars, JInv, IInv, ControlInv, HandlerPcs
<1>2. \/ verdict' = "failed" /\ snap' = snap
      \/ snap[job.op].phase = "applied" /\ snap' = [snap EXCEPT ![job.op].fresh = TRUE]
  BY DEF Renew, Say
<1>3. CASE verdict' = "failed" /\ snap' = snap
  BY <1>1, <1>3, QuietKeeps DEF Quiet, HandlerPcs, ApplyPcs, RollbackPcs
<1>4. CASE snap[job.op].phase = "applied" /\ snap' = [snap EXCEPT ![job.op].fresh = TRUE]
  <2>1. snap \in [Ops -> Snapshots] /\ job.op \in Ops
    BY <1>1 DEF JInv, IInv, TypeOK, SnapOK, At
  <2>2. /\ \A o \in Ops : o # job.op => snap'[o] = snap[o]
        /\ snap'[job.op].phase = "applied" /\ snap'[job.op].fresh
        /\ snap'[job.op].old = snap[job.op].old /\ snap'[job.op].new = snap[job.op].new
    BY <1>4, <2>1 DEF Snapshots
  <2> QED
    BY <1>1, <1>4, <2>1, <2>2, QuietKeeps DEF Quiet, HandlerPcs, ApplyPcs, RollbackPcs
<1> QED
  BY <1>2, <1>3, <1>4

LEMMA RollbackKeepsGate ==
  ASSUME JInv, UNCHANGED gateVars, Rollback PROVE GInv'
<1>1. /\ hpc = "rollback" /\ job.act = "rollback"
      /\ UNCHANGED <<asked, requests, results, batch, job, live, row, leftover, snap>>
      /\ hpc' \in {"publish", "rollback_snapshot"}
      /\ hpc' = "publish" /\ verdict' = "already_finalized" => Decided(job.op)
      /\ hpc' = "rollback_snapshot" => Open(job.op)
  BY DEF Rollback, At, Say, Goto, spoolVars, diskVars, JInv, IInv, ControlInv, Decided, Open
<1> QED
  BY <1>1, QuietKeeps DEF Quiet, HandlerPcs, ApplyPcs, RollbackPcs

\* A file the helper works on, unless it recovers, is in the spool.
LEMMA OnFile ==
  ASSUME JInv, hpc \in HandlerPcs, job.act # "recover"
  PROVE  job \in Jobs /\ job = Req(job.op, job.act) /\ job \in requests
BY JobIs DEF JInv, IInv, ControlInv, FInv, InSpool

\* The snapshot of an apply: none was open, so it remembers the mode that is owed.
LEMMA SnapshotKeepsGate ==
  ASSUME JInv, UNCHANGED gateVars, ApplySnapshot PROVE GInv'
<1> DEFINE new == asked[job.op].new
<1>1. /\ At(hpc) /\ hpc = "apply_snapshot" /\ job.act = "apply" /\ IInv /\ job.op \in Ops
      /\ UNCHANGED <<asked, requests, results, batch, job, live, row, leftover, rec, gpc,
                     mem, goal>>
      /\ snap[job.op].phase = "dir"
  BY DEF ApplySnapshot, At, Say, Goto, spoolVars, JInv, IInv, ControlInv, HandlerPcs, gateVars
<1>2. CASE hpc' = "publish" /\ verdict' = "failed" /\ snap' = snap
  BY <1>1, <1>2, QuietKeeps DEF Quiet, HandlerPcs, ApplyPcs, RollbackPcs
<1>3. CASE /\ hpc' = "apply_offline_test"
           /\ snap' = [snap EXCEPT ![job.op] = Snap("snapshot", row, new, TRUE)]
  <2>1. /\ \A o \in Ops : o # job.op => snap'[o] = snap[o]
        /\ snap'[job.op] = Snap("snapshot", row, new, TRUE)
    BY <1>1, <1>3, OneEntry
  <2>2. /\ snap'[job.op].phase = "snapshot" /\ snap'[job.op].old = row
        /\ snap'[job.op].new = new
    BY <2>1 DEF Snap
  <2>3. Req(job.op, "apply") \in requests
    BY <1>1, OnFile DEF HandlerPcs
  <2>4. /\ row = asked[job.op].old /\ asked[job.op].old = Base /\ row # new
    <3>1. row = asked[job.op].old /\ asked[job.op].old = Base
      BY <1>1, <2>3 DEF JInv, GInv, BodyInv, QueueInv
    <3>2. asked[job.op] # NotAsked
      BY <1>1, AskedNow DEF JInv, HandlerPcs
    <3> QED
      BY <1>1, <3>1, <3>2 DEF JInv, CInv, AskedFirst
  <2>5. \A o \in Ops : ~Open(o)
    BY <1>1, <2>4 DEF JInv, GInv, RowInv, ApplyPcs, RollbackPcs
  <2>6. ~(rec.op \in Ops /\ Decided(rec.op))
    <3>1. ASSUME rec.op \in Ops, Decided(rec.op) PROVE FALSE
      <4>1. Clean
        BY <3>1 DEF JInv, GInv, QueueInv
      <4>2. rec.op = job.op
        BY <1>1, <2>3, <4>1 DEF Clean
      <4> QED
        BY <1>1, <3>1, <4>2 DEF Decided
    <3> QED
      BY <3>1
  <2>7. \A o \in Ops : Decided(o)' <=> Decided(o)
    BY <1>1, <2>1, <2>2 DEF Decided
  <2>8. Base' = Base
    BY <1>1, <2>7 DEF Base
  <2>9. GTypeOK' /\ RecInv' /\ MemInv'
    BY <1>1, <2>7, GateSide
  <2>10. \A o \in Ops : snap[o].phase \in {"applied", "finalized"} => o # job.op
    BY <1>1
  <2>11. StageInv'
    <3>1. gpc \in RenewedPcs \/ gpc = "renew_wait" => rec.op \in Ops
      BY UnderWay DEF RenewedPcs, EarlyPcs, ForwardPcs
    <3>2. rec.op \in Ops => snap[rec.op].phase # "applied"
      BY <2>5 DEF Open, RestorePhases, WorkingPhases
    <3> QED
      BY <1>1, <1>3, <3>1, <3>2 DEF JInv, GInv, StageInv, RenewedPcs, EarlyPcs
  <2>12. AnswerInv'
    BY <1>1, <1>3, <2>1, <2>7, <2>10 DEF JInv, GInv, AnswerInv, Decided
  <2>13. QueueInv'
    BY <1>1, <1>3, <2>7, <2>8, HandlerQueue DEF HandlerPcs, ApplyPcs
  <2>14. BodyInv'
    <3>1. live = row
      BY <2>5 DEF JInv, GInv, RowInv
    <3> QED
      BY <1>1, <1>3, <2>2, <3>1 DEF BodyInv, RollbackPcs
  <2>15. RowInv'
    <3>1. \A o \in Ops : Open(o)' <=> o = job.op
      BY <1>1, <2>1, <2>2, <2>5 DEF Open, RestorePhases, WorkingPhases
    <3>2. \A o \in Ops : ~leftover'[o]
      BY <1>1, NoLeftover
    <3>3. hpc' \in ApplyPcs
      BY <1>3 DEF ApplyPcs
    <3>4. ~(rec.op \in Ops /\ Decided(rec.op))'
      BY <1>1, <2>6, <2>7
    <3> QED
      BY <1>1, <1>3, <2>2, <2>4, <2>8, <3>1, <3>2, <3>3, <3>4 DEF RowInv
  <2> QED
    BY <2>9, <2>11, <2>12, <2>13, <2>14, <2>15 DEF GInv
<1> QED
  BY <1>2, <1>3 DEF ApplySnapshot, Say, Goto

\* A finalize that decides is of the record's operation, and what it decides is
\* already served: the mode that is owed changes, and nothing is left open.
LEMMA FinalizeKeepsGate ==
  ASSUME JInv, UNCHANGED gateVars, Finalize PROVE GInv'
<1> DEFINE c == job.op
<1>1. /\ At(hpc) /\ hpc = "finalize" /\ job.act = "finalize" /\ IInv /\ c \in Ops
      /\ UNCHANGED <<asked, requests, results, batch, job, live, row, leftover, rec, gpc,
                     mem, goal>>
      /\ hpc' = "publish" /\ verdict' \in {"finalized", "failed"}
  BY DEF Finalize, At, Say, spoolVars, JInv, IInv, ControlInv, HandlerPcs, gateVars
<1>2. Req(c, "finalize") \in requests
  BY <1>1, OnFile DEF HandlerPcs
<1>3. CASE snap' = snap
  BY <1>1, <1>3, QuietKeeps DEF Quiet, HandlerPcs, ApplyPcs, RollbackPcs
<1>4. CASE snap' = [snap EXCEPT ![c] = Bare("finalized")] /\ snap[c].phase # "applied"
  <2>1. /\ \A o \in Ops : o # c => snap'[o] = snap[o]
        /\ snap'[c].phase = "finalized"
    BY <1>1, <1>4, OneEntry, BareEntry
  <2>2. snap[c].phase = "finalized"
    BY <1>1, <1>2, <1>4 DEF JInv, GInv, AnswerInv
  <2>3. ~Open(c)
    BY <2>2 DEF Open, RestorePhases, WorkingPhases
  <2> QED
    BY <1>1, <2>1, <2>2, <2>3, QuietKeeps DEF Quiet, HandlerPcs, ApplyPcs, RollbackPcs
<1>5. CASE snap' = [snap EXCEPT ![c] = Bare("finalized")] /\ snap[c].phase = "applied"
  <2>1. /\ \A o \in Ops : o # c => snap'[o] = snap[o]
        /\ snap'[c].phase = "finalized"
    BY <1>1, <1>5, OneEntry, BareEntry
  <2>2. Open(c) /\ ~Decided(c)
    BY <1>5 DEF Open, Decided, RestorePhases, WorkingPhases
  <2>3. c = rec.op /\ results[c]["apply"] = "applied" /\ live = row
    BY <1>1, <1>2, <1>5, <2>2 DEF JInv, GInv, AnswerInv
  <2>4. row = asked[c].new /\ asked[c] = rec.hash
    <3>1. row = asked[c].new
      BY <1>1, <1>2, <1>5, AtRest
    <3>2. asked[c] # NotAsked
      BY <1>1, <1>5 DEF JInv, CInv, AskedFirst
    <3> QED
      BY <1>1, <2>3, <3>1, <3>2 DEF JInv, GInv, RecInv
  <2>5. /\ \A o \in Ops : ~Open(o)'
        /\ \A o \in Ops : Decided(o)' <=> Decided(o) \/ o = c
    <3>1. \A o \in Ops : Open(o) => o = c
      BY <1>1, <2>2 DEF JInv, GInv, RowInv
    <3> QED
      BY <2>1, <3>1 DEF Open, Decided, RestorePhases, WorkingPhases
  <2>6. Base' = rec.hash.new
    BY <1>1, <2>3, <2>5 DEF Base
  <2>7. Clean /\ Clean'
    BY <1>1, <1>2, <2>3 DEF JInv, GInv, QueueInv, Clean
  <2>8. \A o \in Ops : Req(o, "apply") \notin requests
    BY <1>1, <2>3, <2>7 DEF JInv, GInv, AnswerInv, Clean
  <2>9. GTypeOK' /\ RecInv' /\ MemInv'
    BY <1>1, <1>2, <2>5, GateSide
  <2>10. gpc \notin EarlyPcs
    BY <1>2, <2>3 DEF JInv, GInv, StageInv
  <2>11. StageInv'
    BY <1>1, <2>10 DEF StageInv, RenewedPcs, EarlyPcs
  <2>12. AnswerInv'
    BY <1>1, <2>1, <2>5 DEF JInv, GInv, AnswerInv, Decided
  <2>13. QueueInv'
    <3>1. \A o \in Ops : ~Waiting(Req(o, "apply"))'
      BY <1>1, <2>8 DEF Waiting
    <3> QED
      BY <1>1, <2>7, <2>8, <3>1 DEF QueueInv
  <2>14. BodyInv'
    BY <1>1 DEF BodyInv, RollbackPcs
  <2>15. RowInv'
    <3>1. \A o \in Ops : ~leftover'[o]
      BY <1>1, NoLeftover
    <3> QED
      BY <1>1, <2>3, <2>4, <2>5, <2>6, <3>1 DEF RowInv, Open, RestorePhases, WorkingPhases
  <2> QED
    BY <2>9, <2>11, <2>12, <2>13, <2>14, <2>15 DEF GInv
<1> QED
  BY <1>3, <1>4, <1>5 DEF Finalize

\* A step of the cycle: the runtime, the row and the snapshots are left alone, and
\* of the spool no more than the file just answered goes.
LEMMA CycleKeepsGate ==
  ASSUME JInv, UNCHANGED <<gateVars, diskVars, asked, results>>, requests' \subseteq requests,
         hpc \in {"idle", "spool", "sweep", "unlink"},
         \A o \in Ops : Req(o, "apply") \in requests' => results[o]["apply"] = "none",
         hpc' \notin ApplyPcs \cup {"publish", "apply_snapshot"},
         hpc' \in RollbackPcs => hpc' = "rollback_snapshot" /\ job'.op \in Ops /\ Open(job'.op),
         QueueInv'
  PROVE  GInv'
<1>1. UNCHANGED <<rec, gpc, mem, goal, live, row, snap, leftover, asked, results>>
  BY DEF gateVars, diskVars
<1>2. \A o \in Ops : /\ Open(o)' <=> Open(o)
                     /\ Decided(o)' <=> Decided(o)
  BY <1>1 DEF Open, Decided
<1>3. Base' = Base
  BY <1>1, <1>2 DEF Base
<1>4. GTypeOK' /\ RecInv' /\ MemInv'
  BY <1>1, <1>2, GateSide
<1>5. StageInv'
  BY <1>1 DEF JInv, GInv, StageInv
<1>6. AnswerInv'
  BY <1>1, <1>2 DEF JInv, GInv, AnswerInv
<1>7. \A o \in Ops : Open(o) => snap[o].phase # "snapshot" /\ row = snap[o].new
  BY DEF JInv, GInv, RowInv, ApplyPcs, RollbackPcs
<1>8. BodyInv'
  BY <1>1, <1>7 DEF BodyInv, ApplyPcs, RollbackPcs
<1>9. RowInv'
  <2>1. \A o \in Ops : ~leftover[o]
    BY NoLeftover
  <2>2. \A o \in Ops : snap[o].phase # "snapshot"
    BY DEF JInv, GInv, RowInv
  <2> QED
    BY <1>1, <1>2, <1>3, <1>7, <2>1, <2>2 DEF JInv, GInv, RowInv
<1> QED
  BY <1>4, <1>5, <1>6, <1>8, <1>9 DEF GInv

\* The queue after a step that takes no request out of turn.
LEMMA CycleQueue ==
  ASSUME JInv, UNCHANGED <<rec, gpc, snap, asked, results>>, requests' \subseteq requests,
         hpc' = "idle" => batch' = {},
         \A o \in Ops : Waiting(Req(o, "apply"))' <=> Waiting(Req(o, "apply")),
         rec.op \in Ops => ~Busy(Req(rec.op, "renew"))' \/ Busy(Req(rec.op, "renew"))
                           \/ Req(rec.op, "renew") \in batch,
         rec.op \in Ops /\ Req(rec.op, "renew") \in batch' => Req(rec.op, "renew") \in batch
  PROVE  QueueInv'
<1>1. Base' = Base /\ (rec.op \in Ops => (Decided(rec.op)' <=> Decided(rec.op)))
  BY DEF Base, Decided
<1>2. Clean => Clean'
  BY DEF Clean
<1> QED
  BY <1>1, <1>2 DEF JInv, GInv, QueueInv

\* Before the helper answers a request its apply is still unanswered.
LEMMA Unanswered ==
  ASSUME JInv, NEW op \in Ops, Req(op, "apply") \in requests, hpc # "unlink"
  PROVE  results[op]["apply"] = "none"
BY DEF JInv, GInv, AnswerInv

LEMMA WakeKeepsGate == ASSUME JInv, UNCHANGED gateVars, Wake PROVE GInv'
<1>1. /\ hpc = "idle" /\ hpc' = "spool" /\ batch' = requests /\ batch = {}
      /\ UNCHANGED <<rec, gpc, diskVars, snap, asked, results, requests, job>>
  BY DEF Wake, spoolVars, diskVars, gateVars, JInv, GInv, QueueInv
<1>2. \A o \in Ops, a \in Acts : ~Busy(Req(o, a)) /\ ~Busy(Req(o, a))'
  BY <1>1 DEF Busy, HandlerPcs, ApplyPcs, RollbackPcs
<1>3. \A o \in Ops : ~Waiting(Req(o, "apply"))'
  BY <1>1 DEF Waiting
<1>4. ASSUME rec.op \in Ops, Req(rec.op, "renew") \in requests PROVE Clean
  <2>1. results[rec.op]["apply"] = "applied"
    BY <1>4 DEF JInv, GInv, AnswerInv
  <2>2. asked[rec.op] # NotAsked /\ Req(rec.op, "apply") \notin requests
    BY <1>1, <1>4, <2>1, Unasked, Unanswered
  <2>3. \A o \in Ops \ {rec.op} : ~Waiting(Req(o, "apply"))
    BY <1>4, <2>2 DEF JInv, GInv, QueueInv, Waiting
  <2> QED
    BY <1>1, <1>2, <2>3 DEF Clean, Waiting, Acts
<1>5. Base' = Base /\ (rec.op \in Ops => (Decided(rec.op)' <=> Decided(rec.op)))
      /\ (Clean' <=> Clean)
  BY <1>1 DEF Base, Decided, Clean
<1>6. QueueInv'
  BY <1>1, <1>2, <1>3, <1>4, <1>5 DEF JInv, GInv, QueueInv, Acts
<1> QED
  BY <1>1, <1>6, CycleKeepsGate, Unanswered DEF ApplyPcs, RollbackPcs

LEMMA TakeKeepsGate == ASSUME JInv, UNCHANGED gateVars, Take PROVE GInv'
<1>1. PICK r \in batch : job' = r /\ hpc' = r.act /\ batch' = batch \ {r}
  BY DEF Take
<1>2. /\ hpc = "spool" /\ UNCHANGED <<rec, gpc, diskVars, snap, asked, results, requests>>
  BY DEF Take, spoolVars, diskVars, gateVars
<1>3. r \in Jobs /\ r.act \in Acts
  <2>1. r \in Jobs /\ r.act # "recover"
    BY <1>2 DEF JInv, IInv, TypeOK, SweepInv, Recovering, RollbackPcs
  <2> QED
    BY <2>1 DEF Jobs
<1>4. hpc' \in {"apply", "finalize", "renew", "rollback"}
  BY <1>1, <1>3 DEF Acts
<1>5. \A o \in Ops, a \in Acts : /\ ~Busy(Req(o, a))
                                 /\ Busy(Req(o, a))' <=> Req(o, a) = r
  BY <1>1, <1>2, <1>4 DEF Busy, HandlerPcs, ApplyPcs, RollbackPcs
<1>6. \A o \in Ops : Waiting(Req(o, "apply"))' <=> Waiting(Req(o, "apply"))
  BY <1>1, <1>2, <1>5 DEF Waiting, Acts
<1>7. QueueInv'
  BY <1>1, <1>2, <1>4, <1>5, <1>6, CycleQueue DEF Acts
<1> QED
  BY <1>2, <1>4, <1>7, CycleKeepsGate, Unanswered DEF ApplyPcs, RollbackPcs

LEMMA SweepKeepsGate ==
  ASSUME JInv, UNCHANGED gateVars, Sweep \/ Recover \/ Exit PROVE GInv'
<1>1. /\ hpc \in {"spool", "sweep"} /\ hpc' \in {"sweep", "rollback_snapshot", "idle"}
      /\ UNCHANGED <<rec, gpc, diskVars, snap, asked, results, requests>>
  BY DEF Sweep, Recover, Exit, spoolVars, diskVars, gateVars
<1>2. \A r \in batch : r.act = "recover"
  BY DEF Sweep, Recover, Exit, JInv, IInv, SweepInv, Recovering
<1>3. \A r \in batch' : r.act = "recover"
  BY <1>2 DEF Sweep, Recover, Exit
<1>4. hpc' = "idle" => batch' = {}
  BY DEF Sweep, Recover, Exit
<1>5. ASSUME hpc' \in RollbackPcs
      PROVE  /\ hpc' = "rollback_snapshot" /\ job' \in batch
             /\ job'.op \in Ops /\ Open(job'.op)
  <2>1. hpc = "sweep" /\ job' \in batch /\ hpc' = "rollback_snapshot"
    BY <1>5 DEF Sweep, Recover, Exit, RollbackPcs
  <2>2. job' \in Jobs /\ snap[job'.op].phase \in WorkingPhases
    BY <2>1 DEF JInv, IInv, TypeOK, SweepInv, Recovering
  <2> QED
    BY <2>1, <2>2 DEF Jobs, Open, RestorePhases
<1>6. \A o \in Ops, a \in Acts : /\ Req(o, a) \notin batch /\ Req(o, a) \notin batch'
                                 /\ ~Busy(Req(o, a)) /\ ~Busy(Req(o, a))'
  <2>1. \A o \in Ops, a \in Acts : Req(o, a).act # "recover"
    BY ReqIs DEF Acts
  <2>2. hpc \notin HandlerPcs /\ (hpc' \in HandlerPcs => hpc' \in RollbackPcs)
    BY <1>1 DEF HandlerPcs, ApplyPcs, RollbackPcs
  <2> QED
    BY <1>2, <1>3, <1>5, <2>1, <2>2 DEF Busy
<1>7. \A o \in Ops : Waiting(Req(o, "apply"))' <=> Waiting(Req(o, "apply"))
  BY <1>1, <1>6 DEF Waiting, Acts
<1>8. QueueInv'
  BY <1>1, <1>4, <1>6, <1>7, CycleQueue DEF Acts
<1> QED
  BY <1>1, <1>5, <1>8, CycleKeepsGate, Unanswered DEF ApplyPcs, RollbackPcs

LEMMA UnlinkKeepsGate == ASSUME JInv, UNCHANGED gateVars, Unlink PROVE GInv'
<1>1. /\ hpc = "unlink" /\ hpc' = "spool" /\ requests' = requests \ {job} /\ batch' = batch
      /\ UNCHANGED <<rec, gpc, diskVars, snap, asked, results>>
  BY DEF Unlink, At, diskVars, gateVars
<1>2. \A o \in Ops, a \in Acts : /\ Busy(Req(o, a)) <=> job = Req(o, a)
                                 /\ ~Busy(Req(o, a))'
  BY <1>1 DEF Busy, HandlerPcs, ApplyPcs, RollbackPcs
<1>3. \A o \in Ops : Waiting(Req(o, "apply"))' <=> Waiting(Req(o, "apply"))
  BY <1>1, <1>2 DEF Waiting, Acts
<1>4. QueueInv'
  BY <1>1, <1>2, <1>3, CycleQueue DEF Acts
<1>5. \A o \in Ops : Req(o, "apply") \in requests' => results[o]["apply"] = "none"
  BY <1>1 DEF JInv, GInv, AnswerInv
<1> QED
  BY <1>1, <1>4, <1>5, CycleKeepsGate DEF ApplyPcs, RollbackPcs

\* An answer is published: it ends the waiting for it, and promises no more than
\* the handler found.
LEMMA PublishKeepsGate == ASSUME JInv, UNCHANGED gateVars, PublishResult PROVE GInv'
<1>1. /\ hpc = "publish" /\ hpc' = "unlink" /\ job.op \in Ops /\ job \in Jobs
      /\ UNCHANGED <<rec, gpc, mem, goal, live, row, snap, leftover, asked, requests, batch,
                     job, verdict>>
      /\ results' = [results EXCEPT ![job.op][job.act] = verdict]
  BY DEF PublishResult, At, diskVars, gateVars, JInv, IInv, ControlInv, HandlerPcs
<1>2. /\ \A o \in Ops, a \in Acts : \/ results'[o][a] = results[o][a]
                                    \/ job = Req(o, a) /\ results'[o][a] = verdict
  <2>1. results \in [Ops -> [Acts -> Verdicts]] /\ job = Req(job.op, job.act)
    BY <1>1, JobIs DEF JInv, IInv, TypeOK
  <2> QED
    BY <1>1, <2>1
<1>3. \A o \in Ops, a \in Acts : job = Req(o, a) => Req(o, a) \in requests
  BY <1>1, OnFile, ReqIs DEF HandlerPcs, Acts
<1>4. \A o \in Ops : job = Req(o, "apply") => results[o]["apply"] = "none"
  BY <1>1, <1>3, Unanswered DEF Acts
<1>5. \A o \in Ops : /\ Open(o)' <=> Open(o)
                     /\ Decided(o)' <=> Decided(o)
  BY <1>1 DEF Open, Decided
<1>6. Base' = Base
  BY <1>1, <1>5 DEF Base
<1>7. GTypeOK' /\ RecInv' /\ MemInv'
  BY <1>1, <1>5, GateSide
<1>8. gpc \in EarlyPcs => rec.op \in Ops
  BY UnderWay DEF ForwardPcs
<1>9. StageInv'
  <2>1. gpc \in EarlyPcs => results'[rec.op]["rollback"] = "none"
    BY <1>2, <1>3, <1>8 DEF JInv, GInv, StageInv, Acts
  <2>2. gpc \in EarlyPcs \ {"apply_send", "apply_wait"} => results'[rec.op]["apply"] = "applied"
    BY <1>2, <1>4, <1>8 DEF JInv, GInv, StageInv, Acts
  <2>3. gpc \in {"apply_send", "apply_wait", "renew_send"} => results'[rec.op]["renew"] = "none"
    BY <1>2, <1>3, <1>8 DEF JInv, GInv, StageInv, Acts, EarlyPcs
  <2>4. gpc = "renew_wait" /\ results'[rec.op]["renew"] = "renewed"
          => \/ results[rec.op]["renew"] = "renewed"
             \/ job = Req(rec.op, "renew") /\ verdict = "renewed"
    BY <1>2, <1>8 DEF Acts, EarlyPcs
  <2> QED
    BY <1>1, <2>1, <2>2, <2>3, <2>4 DEF JInv, GInv, StageInv
<1>10. AnswerInv'
  <2> SUFFICES ASSUME NEW o \in Ops
               PROVE  /\ asked[o] = NotAsked => /\ results'[o]["apply"] = "none"
                                                /\ results'[o]["renew"] = "none"
                      /\ Req(o, "apply") \in requests
                           => results'[o]["apply"] = "none" \/ job = Req(o, "apply")
                      /\ \A act \in {"renew", "finalize"} :
                           Req(o, act) \in requests => results'[o]["apply"] = "applied"
                      /\ Req(o, "finalize") \in requests =>
                           /\ snap[o].phase \in {"applied", "finalized"}
                           /\ o = rec.op \/ Decided(o)
                           /\ snap[o].phase = "applied" => live = row
                      /\ results'[o]["rollback"] = "already_finalized" => Decided(o)
    BY <1>1, <1>5 DEF AnswerInv
  <2>1. asked[o] = NotAsked => results'[o]["apply"] = "none" /\ results'[o]["renew"] = "none"
    BY <1>2, <1>3, Unasked DEF Acts
  <2>2. Req(o, "apply") \in requests => results'[o]["apply"] = "none" \/ job = Req(o, "apply")
    BY <1>1, <1>2, Unanswered DEF Acts
  <2>3. ASSUME NEW act \in {"renew", "finalize"}, Req(o, act) \in requests
        PROVE  results'[o]["apply"] = "applied"
    <3>1. results[o]["apply"] = "applied"
      BY <2>3 DEF JInv, GInv, AnswerInv
    <3> QED
      BY <1>2, <1>4, <3>1 DEF Acts
  <2>4. Req(o, "finalize") \in requests =>
          /\ snap[o].phase \in {"applied", "finalized"}
          /\ o = rec.op \/ Decided(o)
          /\ snap[o].phase = "applied" => live = row
    BY DEF JInv, GInv, AnswerInv
  <2>5. results'[o]["rollback"] = "already_finalized" => Decided(o)
    BY <1>1, <1>2 DEF JInv, GInv, AnswerInv, Acts
  <2> QED
    BY <2>1, <2>2, <2>3, <2>4, <2>5
<1>11. QueueInv'
  <2>1. \A o \in Ops, a \in Acts : Busy(Req(o, a))' <=> Busy(Req(o, a))
    BY <1>1 DEF Busy, HandlerPcs
  <2>2. \A o \in Ops : Waiting(Req(o, "apply"))' <=> Waiting(Req(o, "apply"))
    BY <1>1, <2>1 DEF Waiting, Acts
  <2>3. rec.op \in Ops /\ results'[rec.op]["renew"] # "none"
          => results[rec.op]["renew"] # "none" \/ Busy(Req(rec.op, "renew"))
    BY <1>1, <1>2 DEF Busy, HandlerPcs, Acts
  <2>4. (Clean' <=> Clean) /\ (rec.op \in Ops => (Decided(rec.op)' <=> Decided(rec.op)))
    BY <1>1, <1>5 DEF Clean
  <2> QED
    BY <1>1, <1>6, <2>1, <2>2, <2>3, <2>4 DEF JInv, GInv, QueueInv, Acts
<1>12. BodyInv'
  BY <1>1 DEF BodyInv, RollbackPcs
<1>13. RowInv'
  <2>1. \A o \in Ops : ~leftover[o]
    BY <1>1, NoLeftover
  <2> QED
    BY <1>1, <1>5, <1>6, <2>1 DEF JInv, GInv, RowInv, ApplyPcs, RollbackPcs
<1> QED
  BY <1>7, <1>9, <1>10, <1>11, <1>12, <1>13 DEF GInv

\* The lease of a snapshot runs out, but of the one being renewed.
LEMMA LapseKeepsGate == ASSUME JInv, NEW op \in Ops, LeaseLapses(op) PROVE GInv'
<1>1. /\ snap' = [snap EXCEPT ![op].fresh = FALSE] /\ ~(gpc \in Renewing /\ mem.op = op)
      /\ UNCHANGED <<rec, gpc, mem, goal, live, row, leftover, asked, requests, results,
                     hpc, job, verdict, batch>> /\ UNCHANGED gateVars
  BY DEF LeaseLapses, LeaseExpires, spoolVars, procVars, gateVars
<1>2. snap \in [Ops -> Snapshots]
  BY DEF JInv, IInv, TypeOK, SnapOK
<1>3. \A o \in Ops : /\ snap'[o].phase = snap[o].phase /\ snap'[o].old = snap[o].old
                     /\ snap'[o].new = snap[o].new
                     /\ o # op => snap'[o] = snap[o]
  BY <1>1, <1>2 DEF Snapshots
<1>4. \A o \in Ops : /\ Open(o)' <=> Open(o)
                     /\ Decided(o)' <=> Decided(o)
  BY <1>3 DEF Open, Decided
<1>5. Base' = Base
  BY <1>1, <1>4 DEF Base
<1>6. GTypeOK' /\ RecInv' /\ MemInv'
  BY <1>1, <1>4, GateSide
<1>7. StageInv'
  <2>1. gpc \in RenewedPcs \cup {"renew_wait"} => rec.op \in Ops /\ mem.op = rec.op
    BY UnderWay DEF RenewedPcs, EarlyPcs, ForwardPcs
  <2>2. gpc \in RenewedPcs \cup {"renew_wait"} => rec.op \in Ops /\ snap'[rec.op] = snap[rec.op]
    BY <1>1, <1>3, <2>1 DEF RenewedPcs, EarlyPcs, Renewing
  <2> QED
    BY <1>1, <2>2 DEF JInv, GInv, StageInv
<1>8. AnswerInv'
  BY <1>1, <1>3, <1>4 DEF JInv, GInv, AnswerInv
<1>9. QueueInv'
  <2>1. \A r : (Waiting(r)' <=> Waiting(r)) /\ (Busy(r)' <=> Busy(r))
    BY <1>1 DEF Waiting, Busy
  <2>2. (Clean' <=> Clean) /\ (rec.op \in Ops => (Decided(rec.op)' <=> Decided(rec.op)))
    BY <1>1, <1>4 DEF Clean
  <2> QED
    BY <1>1, <1>5, <2>1, <2>2 DEF JInv, GInv, QueueInv
<1>10. BodyInv'
  <2>1. hpc \in ApplyPcs \cup RollbackPcs => job.op \in Ops
    BY SoleOpen
  <2> QED
    BY <1>1, <1>3, <2>1 DEF JInv, GInv, BodyInv, ApplyPcs, RollbackPcs
<1>11. RowInv'
  BY <1>1, <1>3, <1>4, <1>5 DEF JInv, GInv, RowInv
<1> QED
  BY <1>6, <1>7, <1>8, <1>9, <1>10, <1>11 DEF GInv

(***************************************************************************)
(* The Gateway is the client ProtocolTxn assumes                           *)
(***************************************************************************)

\* A local step charges at most one fault.
LocalCharged == LocalStep /\ Charged

LEMMA LocalInSwitch ==
  ASSUME SwitchStep, ~ApplySend, ~RenewSend, ~FinalizeSend PROVE LocalCharged
<1>1. LocalStep
  BY DEF SwitchStep, BeginRefused, BeginDone, Begin, ApplyWait, RenewWait, Pending,
         VerifySub, VerifyPub, StopBeat, LeaseRenew, FinalizeWait, Commit, Failed
<1>2. CASE BeginRefused \/ BeginDone \/ StopBeat \/ LeaseRenew \/ Failed
  BY <1>1, <1>2 DEF LocalCharged, BeginRefused, BeginDone, StopBeat, LeaseRenew, Failed,
                    Fault, Charged
<1>3. CASE \/ ApplyWait \/ RenewWait \/ VerifySub \/ VerifyPub \/ FinalizeWait
  BY <1>1, <1>3 DEF LocalCharged, ApplyWait, RenewWait, VerifySub, VerifyPub, FinalizeWait,
                    Await, Verify, Fault, Charged
<1>4. CASE (\E op \in Ops : Begin(op)) \/ Pending \/ Commit
  BY <1>1, <1>4 DEF LocalCharged, Begin, Pending, Commit, Save, Fault, Charged
<1> QED
  BY <1>2, <1>3, <1>4 DEF SwitchStep

LEMMA LocalInUndo ==
  ASSUME UndoStep \/ EndStep \/ BootStep, ~UndoSend, ~BootSend PROVE LocalCharged
<1>1. LocalStep
  BY DEF UndoStep, EndStep, BootStep, Undo, UndoWait, UndoSub, UndoPub, UndoReady,
         MarkRepair, Settle, Leave, Forget, RevalSub, RevalPub, RevalSave, Restart, Boot,
         BootWait, ConvSub, ConvPub, ConvReady
<1>2. CASE Undo \/ UndoReady \/ MarkRepair \/ RevalSave \/ Boot \/ ConvReady
  BY <1>1, <1>2 DEF LocalCharged, Undo, UndoReady, MarkRepair, RevalSave, Boot, ConvReady,
                    Save, Fault, Charged
<1>3. CASE UndoWait \/ UndoSub \/ UndoPub \/ RevalSub \/ RevalPub \/ BootWait
           \/ ConvSub \/ ConvPub
  BY <1>1, <1>3 DEF LocalCharged, UndoWait, UndoSub, UndoPub, RevalSub, RevalPub,
                    BootWait, ConvSub, ConvPub, Await, Verify, Fault, Charged
<1>4. CASE Settle \/ Leave \/ Restart
  BY <1>1, <1>4 DEF LocalCharged, Settle, Leave, Restart, Charged
<1> QED
  BY <1>2, <1>3, <1>4 DEF UndoStep, EndStep, BootStep

LEMMA LocalAround ==
  ASSUME BeatAnswer \/ User \/ GatewayFaults PROVE LocalCharged
<1>1. CASE BeatAnswer
  BY <1>1 DEF BeatAnswer, LocalCharged, Charged, Fault
<1>2. CASE User
  BY <1>2 DEF User, Start, vars, spoolVars, LocalCharged, LocalStep, SpoolUntouched,
              HelperUntouched, Charged
<1>3. CASE GatewayFaults
  BY <1>3 DEF GatewayFaults, GatewayCrash, LeaseLost, Disconnect, Forget, LocalCharged,
              Charged, Fault
<1> QED
  BY <1>1, <1>2, <1>3

\* What the Gateway writes to the spool is what a client of the helper may write.
LEMMA ApplySendIs == ASSUME JInv, ApplySend PROVE Client \/ LocalCharged
<1>1. /\ mem.op = rec.op /\ mem.hash = rec.hash /\ rec.op \in Ops
      /\ rec.hash \in [old : Modes, new : Modes] /\ rec.hash.old # rec.hash.new
  BY UnderWay DEF ApplySend, ForwardPcs, EarlyPcs
<1>2. /\ asked[rec.op] = NotAsked /\ Req(rec.op, "rollback") \notin requests
      /\ results[rec.op]["rollback"] = "none"
  BY DEF ApplySend, JInv, GInv, StageInv, EarlyPcs
<1>3. CASE RuntimeLive
  <2>1. rec.hash = [old |-> rec.hash.old, new |-> rec.hash.new]
    BY <1>1
  <2>2. /\ asked' = [asked EXCEPT ![rec.op] = [old |-> rec.hash.old, new |-> rec.hash.new]]
        /\ Publish(rec.op, "apply")
        /\ UNCHANGED <<diskVars, results, procVars, faults, raced>>
    BY <1>1, <1>3, <2>1 DEF ApplySend, Send, HelperUntouched
  <2>3. SubmitApply(rec.op, rec.hash.old, rec.hash.new)
    BY <1>1, <1>2, <2>2 DEF SubmitApply, Req
  <2> QED
    BY <1>1, <2>3 DEF Client
<1>4. CASE ~RuntimeLive
  BY <1>4 DEF ApplySend, Send, LocalCharged, Charged, LocalStep, SpoolUntouched,
              HelperUntouched, spoolVars
<1> QED
  BY <1>3, <1>4

LEMMA RenewSendIs == ASSUME JInv, RenewSend \/ BeatSend PROVE Client \/ LocalCharged
<1>1. mem.op = rec.op /\ rec.op \in Ops
  BY UnderWay DEF RenewSend, BeatSend, Beating, ForwardPcs, EarlyPcs
<1>2. results[rec.op]["apply"] = "applied" /\ Req(rec.op, "renew") \notin requests
  BY <1>1 DEF RenewSend, BeatSend, Beating, JInv, GInv, StageInv, EarlyPcs, Req
<1>3. /\ results' = [results EXCEPT ![rec.op]["renew"] = "none"]
      /\ UNCHANGED <<diskVars, asked, procVars, faults, raced>>
  BY <1>1 DEF RenewSend, BeatSend, ForgetRenewed, HelperUntouched
<1>4. CASE Publish(rec.op, "renew")
  <2>1. SubmitRenew(rec.op)
    BY <1>2, <1>3, <1>4 DEF SubmitRenew, Req
  <2> QED
    BY <1>1, <2>1 DEF Client
<1>5. CASE RenewSend /\ requests' = requests
  <2>1. results' = results
    BY <1>1, <1>3, <1>5, Forgotten DEF RenewSend, JInv, GInv, StageInv
  <2> QED
    BY <1>3, <1>5, <2>1 DEF LocalCharged, Charged, Fault, LocalStep, SpoolUntouched,
                                HelperUntouched, spoolVars
<1> QED
  BY <1>1, <1>4, <1>5 DEF RenewSend, BeatSend, Send

LEMMA FinalizeSendIs == ASSUME JInv, FinalizeSend PROVE Client \/ LocalCharged
<1>1. mem.op = rec.op /\ rec.op \in Ops
  BY UnderWay DEF FinalizeSend, ForwardPcs, EarlyPcs
<1>2. /\ results[rec.op]["apply"] = "applied" /\ results[rec.op]["rollback"] = "none"
      /\ live = asked[rec.op].new /\ row = asked[rec.op].new /\ snap[rec.op].fresh
      /\ Req(rec.op, "rollback") \notin requests
  BY Served DEF FinalizeSend
<1>3. UNCHANGED <<diskVars, asked, results, procVars, faults, raced>>
  BY DEF FinalizeSend, HelperUntouched
<1>4. CASE Publish(rec.op, "finalize")
  <2>1. SubmitFinalize(rec.op)
    BY <1>2, <1>3, <1>4 DEF SubmitFinalize, Req
  <2> QED
    BY <1>1, <2>1 DEF Client
<1>5. CASE requests' = requests
  BY <1>3, <1>5 DEF LocalCharged, Charged, Fault, LocalStep, SpoolUntouched,
                                HelperUntouched, spoolVars
<1> QED
  BY <1>1, <1>4, <1>5 DEF FinalizeSend, Send

LEMMA RollbackSendIs == ASSUME JInv, UndoSend \/ BootSend PROVE Client \/ LocalCharged
<1>1. mem.op = rec.op /\ rec.op \in Ops
  BY DEF UndoSend, BootSend, JInv, GInv, MemInv, RecInv, UndoPcs, Interrupted
<1>2. UNCHANGED <<diskVars, asked, results, procVars, raced>>
  BY DEF UndoSend, BootSend, HelperUntouched
<1>3. CASE Publish(rec.op, "rollback") /\ UNCHANGED faults
  <2>1. SubmitRollback(rec.op)
    BY <1>2, <1>3 DEF SubmitRollback
  <2> QED
    BY <1>1, <2>1 DEF Client
<1>4. CASE requests' = requests /\ (UNCHANGED faults \/ Fault("network"))
  BY <1>2, <1>4 DEF LocalCharged, Charged, Fault, LocalStep, SpoolUntouched,
                                HelperUntouched, spoolVars
<1> QED
  BY <1>1, <1>3, <1>4 DEF UndoSend, BootSend, Send

LEMMA GatewayActs ==
  ASSUME JInv, GatewayStep \/ Goroutine \/ User \/ GatewayFaults
  PROVE  Client \/ LocalCharged
<1>1. CASE ApplySend \/ RenewSend \/ BeatSend \/ FinalizeSend \/ UndoSend \/ BootSend
  BY <1>1, ApplySendIs, RenewSendIs, FinalizeSendIs, RollbackSendIs
<1>2. CASE ~(ApplySend \/ RenewSend \/ BeatSend \/ FinalizeSend \/ UndoSend \/ BootSend)
  BY <1>2, LocalInSwitch, LocalInUndo, LocalAround DEF GatewayStep, Goroutine
<1> QED
  BY <1>1, <1>2

(***************************************************************************)
(* The invariant, for every set of operations, modes and ranks             *)
(***************************************************************************)

LEMMA SwitchInit == ASSUME GInit PROVE JInv
<1>1. Init /\ rec.active = row /\ rec.op = None /\ rec.state = "ready" /\ gpc = "idle"
      /\ mem = rec
  BY DEF GInit
<1>2. IInv /\ FInv /\ CInv /\ GTypeOK
  BY <1>1, InitInv, FinalInit, SafeInit, GTypeInit
<1>3. rec.op \notin Ops
  BY <1>1, OpsAssumption
<1>4. /\ \A op \in Ops : /\ snap[op].phase = "none" /\ asked[op] = NotAsked
                         /\ \A act \in Acts : results[op][act] = "none"
                         /\ ~leftover[op]
      /\ hpc = "idle" /\ requests = {} /\ batch = {} /\ live = row
  BY <1>1 DEF Init, Bare, Snap
<1>5. RecInv /\ MemInv
  BY <1>1, <1>3 DEF RecInv, MemInv, Interrupted, ForwardPcs, EarlyPcs, UndoPcs
<1>6. StageInv /\ AnswerInv
  BY <1>1, <1>4 DEF StageInv, AnswerInv, RenewedPcs, EarlyPcs, Acts
<1>7. QueueInv
  BY <1>1, <1>3, <1>4 DEF QueueInv, RenewedPcs, EarlyPcs
<1>8. BodyInv
  BY <1>4 DEF BodyInv, RollbackPcs
<1>9. RowInv
  BY <1>1, <1>3, <1>4 DEF RowInv, Base, Open, RestorePhases, WorkingPhases
<1> QED
  BY <1>2, <1>5, <1>6, <1>7, <1>8, <1>9 DEF JInv, GInv

LEMMA StutterKeeps == ASSUME JInv, UNCHANGED allVars PROVE JInv'
<1>1. /\ UNCHANGED <<rec, gpc, mem, goal, applied, beat, lease, gone>>
      /\ UNCHANGED <<live, row, snap, leftover, asked, requests, results, hpc, job, verdict,
                     batch>>
      /\ LocalStep /\ UNCHANGED vars
  BY DEF allVars, gateVars, vars, diskVars, spoolVars, procVars, LocalStep, SpoolUntouched,
         HelperUntouched
<1>2. IInv' /\ FInv' /\ CInv'
  BY <1>1, NextKeeps, FinalStep, SafeStep DEF JInv
<1>3. GTypeOK'
  BY <1>1 DEF JInv, GInv, GTypeOK
<1>4. MemInv'
  BY <1>1, LocalSame DEF JInv, GInv, MemInv
<1>5. StageInv'
  BY <1>1 DEF JInv, GInv, StageInv
<1>6. gpc' \in RenewedPcs => Clean
  BY <1>1 DEF JInv, GInv, QueueInv
<1> QED
  BY <1>1, <1>2, <1>3, <1>4, <1>5, <1>6, MoveKeeps DEF JInv

LEMMA GatewayKeeps ==
  ASSUME JInv, GatewayStep \/ Goroutine \/ User \/ GatewayFaults PROVE JInv'
<1>1. GTypeOK'
  BY GTypeStep DEF JInv, GInv, GNext
<1>2. GInv'
  <2>1. CASE SwitchStep
    BY <1>1, <2>1, BeginEnds, BeginKeeps, ApplySendKeeps, WaitKeeps, RenewSendKeeps,
       PendingKeeps, ForwardMoves, FinalizeSendKeeps, CommitKeeps DEF SwitchStep
  <2>2. CASE UndoStep
    BY <1>1, <2>2, UndoKeeps, RollbackSendKeeps, LookMoves, UndoReadyKeeps DEF UndoStep
  <2>3. CASE EndStep
    BY <1>1, <2>3, MarkRepairKeeps, SettleKeeps, LoadKeeps, LookMoves, RevalSaveKeeps
       DEF EndStep
  <2>4. CASE BootStep
    BY <1>1, <2>4, LoadKeeps, BootKeeps, RollbackSendKeeps, BootWaitKeeps, LookMoves,
       ConvReadyKeeps DEF BootStep
  <2>5. CASE Goroutine
    BY <1>1, <2>5, RenewSendKeeps, AsideKeeps DEF Goroutine
  <2>6. CASE User \/ GatewayFaults
    BY <1>1, <2>6, LoadKeeps, AsideKeeps DEF GatewayFaults
  <2> QED
    BY <2>1, <2>2, <2>3, <2>4, <2>5, <2>6 DEF GatewayStep
<1>3. CASE Client
  BY <1>2, <1>3, NextKeeps, FinalStep, SafeStep DEF JInv, Next
<1>4. CASE LocalCharged
  BY <1>2, <1>4, InBudget, LocalKeeps DEF JInv, LocalCharged
<1> QED
  BY <1>3, <1>4, GatewayActs

LEMMA HelperKeeps ==
  ASSUME HelperReliable, JInv, Helper PROVE JInv'
<1>1. HelperStep /\ UNCHANGED gateVars
  BY DEF Helper
<1>2. IInv' /\ FInv' /\ CInv'
  BY <1>1, NextKeeps, FinalStep, SafeStep DEF JInv, Next
<1>3. GInv'
  <2>1. CASE CycleSteps
    BY <1>1, <2>1, WakeKeepsGate, TakeKeepsGate, SweepKeepsGate, PublishKeepsGate,
       UnlinkKeepsGate DEF CycleSteps
  <2>2. CASE ApplySteps
    BY <1>1, <2>2, AdmitKeeps, SnapshotKeepsGate, ApplyWorks DEF ApplySteps
  <2>3. CASE RollbackSteps
    BY <1>1, <2>3, RollbackWorks, RollbackEnds DEF RollbackSteps
  <2>4. CASE Finalize \/ Renew \/ Rollback
    BY <1>1, <2>4, FinalizeKeepsGate, RenewKeepsGate, RollbackKeepsGate
  <2> QED
    BY <1>1, <2>1, <2>2, <2>3, <2>4 DEF HelperStep
<1> QED
  BY <1>2, <1>3 DEF JInv

LEMMA SwitchKeeps == ASSUME HelperReliable, JInv, [GNext]_allVars PROVE JInv'
<1>1. ~HelperFaults
  BY Reliable DEF HelperFaults, HelperCrash, XuiRestart
<1>2. ASSUME NEW op \in Ops, LeaseLapses(op) PROVE JInv'
  <2>1. Next
    BY <1>2 DEF LeaseLapses, Next, Environment
  <2> QED
    BY <1>2, <2>1, LapseKeepsGate, NextKeeps, FinalStep, SafeStep DEF JInv
<1> QED
  BY <1>1, <1>2, GatewayKeeps, HelperKeeps, StutterKeeps DEF GNext

\* The invariant holds of every reachable state, as long as Xray answers and neither
\* the helper nor x-ui is restarted (HelperReliable): crashes of the Gateway, lost
\* leases, disconnects, timeouts, rejected templates, failed saves and transactions
\* are all in it.
THEOREM SwitchInvariant == ASSUME HelperReliable PROVE GSpec => []JInv
<1>1. GInit => JInv
  BY SwitchInit
<1>2. JInv /\ [GNext]_allVars => JInv'
  BY SwitchKeeps
<1> QED
  BY <1>1, <1>2, PTL DEF GSpec

(***************************************************************************)
(* What it is for                                                          *)
(***************************************************************************)

\* The Gateway writes to the spool only what ProtocolTxn lets a client write: it
\* never reuses an operation (Client.execute of an apply), never asks for finalize
\* before it has read "applied", renewed the snapshot and seen the new mode in the
\* row and at Xray, and otherwise leaves the helper to its own steps. What is
\* proved of the helper for such clients therefore holds under this one.
THEOREM GatewayClient == ASSUME HelperReliable PROVE GSpec => GatewayIsClient
<1>1. JInv /\ [GNext]_allVars => [Next]_<<diskVars, spoolVars, procVars>>
  <2> SUFFICES ASSUME JInv, [GNext]_allVars
               PROVE  Next \/ UNCHANGED <<diskVars, spoolVars, procVars>>
    OBVIOUS
  <2>1. LocalStep => UNCHANGED <<diskVars, spoolVars, procVars>>
    BY DEF LocalStep, SpoolUntouched, HelperUntouched
  <2>2. CASE GatewayStep \/ Goroutine \/ User \/ GatewayFaults
    BY <2>1, <2>2, GatewayActs DEF LocalCharged, Next
  <2>3. CASE Helper \/ HelperFaults \/ \E op \in Ops : LeaseLapses(op)
    BY <2>3 DEF Helper, HelperFaults, LeaseLapses, Next, Environment
  <2>4. CASE UNCHANGED allVars
    BY <2>4 DEF allVars, vars
  <2> QED
    BY <2>2, <2>3, <2>4 DEF GNext
<1> QED
  BY <1>1, SwitchInvariant, PTL DEF GSpec, GatewayIsClient

\* Hence the helper's own promises hold under this Gateway: outcomes are told as
\* decided, operation_not_applied is final, and a lone operation can be restored.
THEOREM HelperPromises ==
  ASSUME HelperReliable PROVE GSpec => [](ResultsTruthful /\ NotAppliedIsFinal /\ CrashSafe)
<1>1. JInv => ResultsTruthful /\ NotAppliedIsFinal /\ CrashSafe
  BY DEF JInv, IInv, FInv, CInv, ServedInv, CrashSafe
<1> QED
  BY <1>1, SwitchInvariant, PTL

LEMMA ReadyIsDecided ==
  ASSUME JInv PROVE OutcomeMatchesRecord
<1> SUFFICES ASSUME rec.state = "ready", rec.op \in Ops
             PROVE  /\ Decided(rec.op) => rec.active = rec.hash.new
                    /\ snap[rec.op].phase = "rolled_back" => rec.active = rec.hash.old
  BY DEF OutcomeMatchesRecord, Decided
<1>1. /\ rec.active \in {rec.hash.old, rec.hash.new}
      /\ rec.active = rec.hash.new => Decided(rec.op)
      /\ rec.active = rec.hash.old => ~Decided(rec.op)
  BY DEF JInv, GInv, RecInv, OldIsFinal
<1> QED
  BY <1>1 DEF Decided

\* A ready record tells what the helper decided for its operation: the new mode iff
\* it finalized (commit, convergeRecoveredProtocolMode after already_finalized, and
\* revalidateProtocolRepair, which reads the row and the runtime but no result).
THEOREM OutcomeRecorded == ASSUME HelperReliable PROVE GSpec => []OutcomeMatchesRecord
<1>1. JInv => OutcomeMatchesRecord
  BY ReadyIsDecided
<1> QED
  BY <1>1, SwitchInvariant, PTL

LEMMA CommittedRow == ASSUME JInv PROVE CommittedStays
<1> SUFFICES ASSUME rec.state = "ready", rec.op \in Ops, Decided(rec.op) PROVE row = rec.active
  BY DEF CommittedStays, Decided
<1>1. rec.active = rec.hash.new
  BY ReadyIsDecided DEF OutcomeMatchesRecord, Decided
<1>2. row = Base
  BY DEF JInv, GInv, RowInv
<1> QED
  BY <1>1, <1>2 DEF Base

\* After finalize and commit the database stays in the mode the record names, however
\* many requests and snapshots of earlier operations the helper still finds.
THEOREM CommitHolds == ASSUME HelperReliable PROVE GSpec => []CommittedStays
<1>1. JInv => CommittedStays
  BY CommittedRow
<1> QED
  BY <1>1, SwitchInvariant, PTL

LEMMA ReadyRow == ASSUME JInv PROVE ReadyIsServed
<1> SUFFICES ASSUME rec.state = "ready", \A op \in Ops : ~Open(op)
             PROVE  live = rec.active /\ row = rec.active
  BY DEF ReadyIsServed, Open
<1>1. live = Base /\ row = Base
  BY DEF JInv, GInv, RowInv
<1>2. Base = rec.active
  BY ReadyIsDecided DEF OutcomeMatchesRecord, Base, Decided
<1> QED
  BY <1>1, <1>2

\* While the record is ready and no snapshot is left to undo, Xray serves and the
\* database holds the recorded mode; the proof needs neither an idle helper nor an
\* empty spool.
THEOREM ReadyServed == ASSUME HelperReliable PROVE GSpec => []ReadyIsServed
<1>1. JInv => ReadyIsServed
  BY ReadyRow
<1> QED
  BY <1>1, SwitchInvariant, PTL
=============================================================================
