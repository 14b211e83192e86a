--------------------------- MODULE ProtocolSwitch --------------------------
(***************************************************************************)
(* internal/orchestrator/protocolmode.go together with the root helper of  *)
(* ProtocolTxn: the Gateway switches the public protocol of one egress by  *)
(* writing request files, waiting for results, driving traffic through the *)
(* new mode and committing its own record; at every start it recovers the  *)
(* record a previous process left behind.                                  *)
(*                                                                         *)
(* The egress is agw-main, whose switches also hold the mutation lease of  *)
(* the egress engine; an ordinary egress behaves as one whose lease is     *)
(* never lost.  The Gateway is one process and a switch holds its mutation *)
(* lock, so its control is one program counter; the goroutine that renews  *)
(* the helper's snapshot is a second one.                                  *)
(***************************************************************************)
EXTENDS ProtocolTxn

VARIABLES rec,      \* the egress_protocol_modes row
          gpc,      \* where the Gateway's switch or recovery is
          mem,      \* its in-memory copy of the row
          goal,     \* the mode a request switches to; None while starting
          applied,  \* it read "applied"
          beat,     \* the goroutine that renews the helper's snapshot
          lease,    \* the engine's mutation lease
          gone      \* the browser's request was cancelled

gateVars == <<rec, gpc, mem, goal, applied, beat, lease, gone>>
allVars == <<vars, gateVars>>

Settled == {"ready", "repair_required"}
Interrupted == {"switching", "subscription_pending", "rolling_back"}

SwitchPcs == {"begin", "apply_send", "apply_wait", "renew_send", "renew_wait",
              "pending", "verify_sub", "verify_pub", "verify_failed",
              "stop_beat", "lease_renew", "finalize_send", "finalize_wait",
              "commit", "failed", "undo", "undo_send", "undo_wait", "undo_sub",
              "undo_pub", "undo_ready"}
BootPcs == {"boot", "boot_send", "boot_wait", "conv_sub", "conv_pub",
            "conv_ready"}
SharedPcs == {"reval_sub", "reval_pub", "reval_save", "mark_repair", "settle",
              "leave"}
\* from the first renewal to the last wait the helper's lease is kept alive
Renewing == {"renew_send", "renew_wait", "pending", "verify_sub", "verify_pub",
             "verify_failed", "stop_beat", "lease_renew", "finalize_send",
             "finalize_wait"}

GInit == /\ Init
         /\ rec = [active |-> row, desired |-> row, state |-> "ready",
                   op |-> None, hash |-> NotAsked]
         /\ gpc = "idle" /\ mem = rec /\ goal = None /\ applied = FALSE
         /\ beat = "idle" /\ lease = "none" /\ gone = FALSE

----------------------------------------------------------------------------
(* Calls the Gateway makes                                                 *)

GoG(pc) == gpc' = pc
Steady == UNCHANGED <<goal, beat, lease, gone>>
SpoolUntouched == UNCHANGED spoolVars
HelperUntouched == UNCHANGED <<diskVars, procVars, raced>>
LocalStep == SpoolUntouched /\ HelperUntouched

\* calls run under operationCtx, which ends with the request or with the lease
RuntimeLive == ~gone /\ lease # "lost"
Result(act) == results[mem.op][act]

\* saveProtocolState(m): under the request's context, and SQLite may fail
Save(m, ok, failed) ==
  \/ ~gone /\ rec' = m /\ GoG(ok) /\ UNCHANGED faults
  \/ gone /\ GoG(failed) /\ UNCHANGED <<rec, faults>>
  \/ ~gone /\ Fault("storage") /\ GoG(failed) /\ UNCHANGED rec

\* Client.execute: write the request unless the context is over
Send(act, ok, failed) ==
  \/ RuntimeLive /\ Publish(mem.op, act) /\ GoG(ok)
  \/ ~RuntimeLive /\ GoG(failed) /\ UNCHANGED requests

\* mutant: only the expected status ends the wait
AwaitWanted(act, wanted, ok, failed) ==
  \/ Result(act) = wanted /\ GoG(ok) /\ UNCHANGED faults
  \/ ~RuntimeLive /\ GoG(failed) /\ UNCHANGED faults
  \/ Result(act) = "none" /\ Fault("timeout") /\ GoG(failed)
\* ... then poll: any answer, even of an earlier process, ends the wait, and so
\* does the end of the context or the timeout
Await(act, wanted, ok, failed) ==
  \/ Result(act) = wanted /\ GoG(ok) /\ UNCHANGED faults
  \/ Result(act) \notin {"none", wanted} /\ GoG(failed) /\ UNCHANGED faults
  \/ ~RuntimeLive /\ GoG(failed) /\ UNCHANGED faults
  \/ Result(act) = "none" /\ Fault("timeout") /\ GoG(failed)

\* verifySubscription sees the database, ValidatePublic drives traffic through
\* Xray; either may also fail on its own
Verify(actual, mode, ok, failed) ==
  \/ RuntimeLive /\ actual = mode /\ GoG(ok) /\ UNCHANGED faults
  \/ (~RuntimeLive \/ actual # mode) /\ GoG(failed) /\ UNCHANGED faults
  \/ RuntimeLive /\ actual = mode /\ Fault("network") /\ GoG(failed)

----------------------------------------------------------------------------
(* SwitchProtocolModeExpected: from the request to "switching"             *)

\* a ready record at another mode, or a repair to revalidate; any other state
\* is operation_busy and changes nothing
Start(target) ==
  /\ gpc = "idle"
  /\ \/ rec.state = "ready" /\ rec.active # target /\ GoG("begin")
     \/ rec.state = "repair_required" /\ GoG("reval_sub")
  /\ mem' = rec /\ goal' = target
  /\ UNCHANGED <<rec, applied, beat, lease, gone, vars>>

\* newProtocolOperationID never repeats an id the helper has seen
FreshOp(op) == /\ asked[op] = NotAsked /\ op # rec.op
               /\ results[op]["rollback"] = "none"
               /\ [op |-> op, act |-> "rollback"] \notin requests

\* bound: no operation id is left to switch with
Exhausted == \A op \in Ops : ~FreshOp(op)

\* the lease or the egress is not available: nothing was recorded yet
BeginRefused == /\ gpc = "begin" /\ mem.active # goal
                /\ \/ gone /\ UNCHANGED faults
                   \/ ~gone /\ Fault("network")
                /\ GoG("leave")
                /\ UNCHANGED <<rec, mem, applied>> /\ Steady /\ LocalStep

\* after a revalidation there may be nothing left to switch
BeginDone == /\ gpc = "begin" /\ (mem.active = goal \/ Exhausted) /\ GoG("leave")
             /\ UNCHANGED <<rec, mem, applied, faults>> /\ Steady /\ LocalStep

Begin(op) ==
  /\ gpc = "begin" /\ mem.active # goal /\ FreshOp(op)
  /\ mem' = [mem EXCEPT !.desired = goal, !.op = op,
                        !.hash = [old |-> mem.active, new |-> goal],
                        !.state = "switching"]
  /\ lease' = "held" /\ applied' = FALSE
  /\ Save(mem', "apply_send", "leave")
  /\ UNCHANGED <<goal, beat, gone>> /\ LocalStep

----------------------------------------------------------------------------
(* apply, the first renewal and subscription_pending                       *)

ApplySend ==
  /\ gpc = "apply_send"
  /\ Send("apply", "apply_wait", "failed")
  /\ asked' = IF RuntimeLive THEN [asked EXCEPT ![mem.op] = mem.hash] ELSE asked
  /\ UNCHANGED <<rec, mem, applied, results, faults>>
  /\ Steady /\ HelperUntouched

\* mutant: the status of the answer is not read
ApplyWaitAny ==
  /\ gpc = "apply_wait"
  /\ Result("apply") # "none" /\ GoG("renew_send") /\ applied' = TRUE
  /\ UNCHANGED <<rec, mem, faults>> /\ Steady /\ LocalStep
ApplyWait ==
  /\ gpc = "apply_wait"
  /\ Await("apply", "applied", "renew_send", "failed")
  /\ applied' = (gpc' = "renew_send")
  /\ UNCHANGED <<rec, mem>> /\ Steady /\ LocalStep

\* a renewal names a new heartbeat, which no older result answers
ForgetRenewed == results' = [results EXCEPT ![mem.op]["renew"] = "none"]

RenewSend ==
  /\ gpc = "renew_send"
  /\ Send("renew", "renew_wait", "failed") /\ ForgetRenewed
  /\ UNCHANGED <<rec, mem, applied, asked, faults>>
  /\ Steady /\ HelperUntouched

RenewWait ==
  /\ gpc = "renew_wait"
  /\ Await("renew", "renewed", "pending", "failed")
  /\ UNCHANGED <<rec, mem, applied>> /\ Steady /\ LocalStep

Pending ==
  /\ gpc = "pending"
  /\ mem' = [mem EXCEPT !.state = "subscription_pending"]
  /\ Save(mem', "verify_sub", "verify_failed")
  /\ UNCHANGED applied /\ Steady /\ LocalStep

----------------------------------------------------------------------------
(* the renewal goroutine beside the verification                           *)

Beating == gpc \in {"pending", "verify_sub", "verify_pub", "stop_beat"}

\* the 60 s ticker; the previous request has left the spool by then
BeatSend ==
  /\ Beating /\ beat = "idle" /\ RuntimeLive
  /\ [op |-> mem.op, act |-> "renew"] \notin requests
  /\ Publish(mem.op, "renew") /\ ForgetRenewed /\ beat' = "sent"
  /\ UNCHANGED <<rec, gpc, mem, goal, applied, lease, gone, asked, faults>>
  /\ HelperUntouched

BeatAnswer ==
  /\ Beating /\ beat = "sent"
  /\ \/ Result("renew") = "renewed" /\ beat' = "idle" /\ UNCHANGED faults
     \/ /\ Result("renew") \notin {"none", "renewed"} \/ ~RuntimeLive
        /\ beat' = "failed" /\ UNCHANGED faults
     \/ Result("renew") = "none" /\ beat' = "failed" /\ Fault("timeout")
  /\ UNCHANGED <<rec, gpc, mem, goal, applied, lease, gone>> /\ LocalStep

\* a failed renewal cancels the verification
VerifySub ==
  /\ gpc = "verify_sub"
  /\ \/ beat # "failed" /\ Verify(row, goal, "verify_pub", "verify_failed")
     \/ beat = "failed" /\ GoG("verify_failed") /\ UNCHANGED faults
  /\ UNCHANGED <<rec, mem, applied>> /\ Steady /\ LocalStep

VerifyPub ==
  /\ gpc = "verify_pub"
  /\ \/ beat # "failed" /\ Verify(live, goal, "stop_beat", "verify_failed")
     \/ beat = "failed" /\ GoG("verify_failed") /\ UNCHANGED faults
  /\ UNCHANGED <<rec, mem, applied>> /\ Steady /\ LocalStep

\* stopHelperRenew and waitHelperRenew: cancelling a renewal in flight fails it
StopBeat ==
  /\ gpc \in {"stop_beat", "verify_failed"}
  /\ GoG(IF gpc = "stop_beat" /\ beat = "idle" THEN "lease_renew" ELSE "failed")
  /\ beat' = "idle"
  /\ UNCHANGED <<rec, mem, goal, applied, lease, gone, faults>> /\ LocalStep

----------------------------------------------------------------------------
(* finalize and commit                                                     *)

\* mutationLease.failure, then renewNow
LeaseRenew ==
  /\ gpc = "lease_renew"
  /\ GoG(IF RuntimeLive THEN "finalize_send" ELSE "failed")
  /\ UNCHANGED <<rec, mem, applied, faults>> /\ Steady /\ LocalStep

FinalizeSend ==
  /\ gpc = "finalize_send"
  /\ Send("finalize", "finalize_wait", "failed")
  /\ UNCHANGED <<rec, mem, applied, asked, results, faults>>
  /\ Steady /\ HelperUntouched

\* an answer still loses to a mutation lease that failed meanwhile
FinalizeWait ==
  /\ gpc = "finalize_wait"
  /\ \/ lease # "lost" /\ Await("finalize", "finalized", "commit", "failed")
     \/ lease = "lost" /\ GoG("failed") /\ UNCHANGED faults
  /\ UNCHANGED <<rec, mem, applied>> /\ Steady /\ LocalStep

\* mutant: the record keeps the old mode
CommitForgetsMode ==
  /\ gpc = "commit"
  /\ mem' = [mem EXCEPT !.desired = mem.active, !.state = "ready"]
  /\ Save(mem', "settle", "mark_repair")
  /\ UNCHANGED applied /\ Steady /\ LocalStep
Commit ==
  /\ gpc = "commit"
  /\ mem' = [mem EXCEPT !.active = goal, !.desired = goal, !.state = "ready"]
  /\ Save(mem', "settle", "mark_repair")
  /\ UNCHANGED applied /\ Steady /\ LocalStep

\* mutation_lease_lost leaves the rollback to somebody else
Failed ==
  /\ gpc = "failed"
  /\ GoG(IF lease = "lost" THEN "mark_repair" ELSE "undo")
  /\ UNCHANGED <<rec, mem, applied, faults>> /\ Steady /\ LocalStep

----------------------------------------------------------------------------
(* rollbackProtocolMode                                                    *)

Undo ==
  /\ gpc = "undo"
  /\ mem' = [mem EXCEPT !.state = "rolling_back"]
  /\ Save(mem', IF applied THEN "undo_send" ELSE "undo_sub", "leave")
  /\ UNCHANGED applied /\ Steady /\ LocalStep

UndoSend ==
  /\ gpc = "undo_send"
  /\ Send("rollback", "undo_wait", "mark_repair")
  /\ UNCHANGED <<rec, mem, applied, asked, results, faults>>
  /\ Steady /\ HelperUntouched

\* mutant: any answer to the rollback request is taken for success
UndoWaitAny ==
  /\ gpc = "undo_wait"
  /\ Result("rollback") # "none" /\ GoG("undo_ready")
  /\ UNCHANGED <<rec, mem, applied, faults>> /\ Steady /\ LocalStep
UndoWait ==
  /\ gpc = "undo_wait"
  /\ Await("rollback", "rolled_back", "undo_sub", "mark_repair")
  /\ UNCHANGED <<rec, mem, applied>> /\ Steady /\ LocalStep

UndoSub ==
  /\ gpc = "undo_sub"
  /\ Verify(row, mem.active, "undo_pub", "mark_repair")
  /\ UNCHANGED <<rec, mem, applied>> /\ Steady /\ LocalStep

UndoPub ==
  /\ gpc = "undo_pub"
  /\ Verify(live, mem.active, "undo_ready", "mark_repair")
  /\ UNCHANGED <<rec, mem, applied>> /\ Steady /\ LocalStep

\* renewNow, then the record is ready in the old mode
UndoReady ==
  /\ gpc = "undo_ready"
  /\ \/ /\ RuntimeLive
        /\ mem' = [mem EXCEPT !.desired = mem.active, !.state = "ready"]
        /\ Save(mem', "settle", "leave")
     \/ ~RuntimeLive /\ GoG("mark_repair") /\ UNCHANGED <<rec, mem, faults>>
  /\ UNCHANGED applied /\ Steady /\ LocalStep

----------------------------------------------------------------------------
(* markProtocolRepair and its variants, and the deferred release           *)

\* best effort: the error of the save is dropped
MarkRepair ==
  /\ gpc = "mark_repair"
  /\ mem' = [mem EXCEPT !.state = "repair_required", !.desired = mem.active]
  /\ Save(mem', "leave", "leave")
  /\ UNCHANGED applied /\ Steady /\ LocalStep

\* stopAndWait after a saved "ready": a lease lost by then takes it back
Settle ==
  /\ gpc = "settle"
  /\ GoG(IF lease = "lost" THEN "mark_repair" ELSE "leave")
  /\ UNCHANGED <<rec, mem, applied, faults>> /\ Steady /\ LocalStep

\* mutant: the next use of the state still sees the old request
ForgetLittle == /\ mem' = rec /\ applied' = FALSE
                /\ beat' = "idle" /\ lease' = "none" /\ gone' = FALSE
                /\ UNCHANGED <<rec, goal>> /\ LocalStep
\* the request or the process ends; only the row stays
Forget == /\ mem' = rec /\ goal' = None /\ applied' = FALSE
          /\ beat' = "idle" /\ lease' = "none" /\ gone' = FALSE
          /\ UNCHANGED rec /\ LocalStep

Leave == gpc = "leave" /\ GoG("idle") /\ Forget /\ UNCHANGED faults

----------------------------------------------------------------------------
(* revalidateProtocolRepair, before a switch or at a start (goal = None)   *)

RevalSub ==
  /\ gpc = "reval_sub"
  /\ Verify(row, mem.active, "reval_pub", "leave")
  /\ UNCHANGED <<rec, mem, applied>> /\ Steady /\ LocalStep

RevalPub ==
  /\ gpc = "reval_pub"
  /\ Verify(live, mem.active, "reval_save", "leave")
  /\ UNCHANGED <<rec, mem, applied>> /\ Steady /\ LocalStep

\* at a start, storage_failed ends the process
RevalSave ==
  /\ gpc = "reval_save"
  /\ mem' = [mem EXCEPT !.desired = mem.active, !.state = "ready"]
  /\ IF goal = None THEN Save(mem', "leave", "down")
                    ELSE Save(mem', "begin", "leave")
  /\ UNCHANGED applied /\ Steady /\ LocalStep

----------------------------------------------------------------------------
(* RecoverProtocolModes, recoverProtocolMode, convergeRecoveredProtocolMode *)

\* mutant: an interrupted record is left for later
BootReadyOnly ==
  /\ gpc = "boot"
  /\ GoG(IF rec.state = "repair_required" THEN "reval_sub" ELSE "leave")
  /\ UNCHANGED <<rec, mem, applied, faults>> /\ Steady /\ LocalStep
Boot ==
  /\ gpc = "boot"
  /\ \/ rec.state = "ready" /\ GoG("leave") /\ UNCHANGED <<rec, mem, faults>>
     \/ /\ rec.state = "repair_required" /\ GoG("reval_sub")
        /\ UNCHANGED <<rec, mem, faults>>
     \/ /\ rec.state \in {"switching", "subscription_pending"}
        /\ mem' = [mem EXCEPT !.state = "rolling_back"]
        /\ Save(mem', "boot_send", "leave")
     \/ /\ rec.state = "rolling_back" /\ GoG("boot_send")
        /\ UNCHANGED <<rec, mem, faults>>
  /\ UNCHANGED applied /\ Steady /\ LocalStep

BootSend ==
  /\ gpc = "boot_send"
  /\ \/ /\ Publish(mem.op, "rollback") /\ GoG("boot_wait")
        /\ lease' = "held" /\ UNCHANGED faults
     \/ /\ Fault("network") /\ GoG("mark_repair")
        /\ UNCHANGED <<requests, lease>>
  /\ UNCHANGED <<rec, mem, goal, applied, beat, gone, asked, results>>
  /\ HelperUntouched

\* the modes the answer lets recovery converge to
Converge ==
  {mode \in {mem.active, mem.desired} :
     \/ /\ Result("rollback") \in {"rolled_back", "not_applied"}
        /\ mode = mem.active
     \/ /\ Result("rollback") = "already_finalized"
        /\ mode = mem.desired /\ mem.desired # mem.active
        /\ mem.hash = [old |-> mem.active, new |-> mem.desired]}

BootWait ==
  /\ gpc = "boot_wait"
  /\ \/ /\ \E mode \in Converge : mem' = [mem EXCEPT !.desired = mode]
        /\ GoG("conv_sub") /\ UNCHANGED faults
     \/ /\ \/ Result("rollback") # "none" /\ Converge = {} /\ UNCHANGED faults
           \/ ~RuntimeLive /\ UNCHANGED faults
           \/ Result("rollback") = "none" /\ Fault("timeout")
        /\ GoG("mark_repair") /\ UNCHANGED mem
  /\ UNCHANGED <<rec, applied>> /\ Steady /\ LocalStep

ConvSub ==
  /\ gpc = "conv_sub"
  /\ Verify(row, mem.desired, "conv_pub", "mark_repair")
  /\ UNCHANGED <<rec, mem, applied>> /\ Steady /\ LocalStep

ConvPub ==
  /\ gpc = "conv_pub"
  /\ Verify(live, mem.desired, "conv_ready", "mark_repair")
  /\ UNCHANGED <<rec, mem, applied>> /\ Steady /\ LocalStep

ConvReady ==
  /\ gpc = "conv_ready"
  /\ \/ /\ RuntimeLive
        /\ mem' = [mem EXCEPT !.active = mem.desired, !.state = "ready"]
        /\ Save(mem', "settle", "leave")
     \/ ~RuntimeLive /\ GoG("mark_repair") /\ UNCHANGED <<rec, mem, faults>>
  /\ UNCHANGED applied /\ Steady /\ LocalStep

----------------------------------------------------------------------------
(* What happens around the Gateway                                         *)

GatewayCrash == gpc # "down" /\ Fault("gateway_crash") /\ GoG("down") /\ Forget

\* systemd restarts the service
Restart == gpc = "down" /\ GoG("boot") /\ Forget /\ UNCHANGED faults

\* the engine refuses a renewal: fail() cancels operationCtx
LeaseLost == /\ lease = "held" /\ Fault("lease") /\ lease' = "lost"
             /\ UNCHANGED <<rec, gpc, mem, goal, applied, beat, gone>>
             /\ LocalStep

\* the browser goes away: request.Context() ends
Disconnect == /\ goal # None /\ ~gone /\ Fault("disconnect") /\ gone' = TRUE
              /\ UNCHANGED <<rec, gpc, mem, goal, applied, beat, lease>>
              /\ LocalStep

\* timing: renewed every 60 s, the 180 s lease lapses only when the helper is
\* stalled for two minutes
LeaseLapses(op) == LeaseExpires(op) /\ ~(gpc \in Renewing /\ mem.op = op)
                   /\ UNCHANGED gateVars

SwitchStep == \/ BeginRefused \/ BeginDone \/ (\E op \in Ops : Begin(op))
              \/ ApplySend \/ ApplyWait \/ RenewSend \/ RenewWait \/ Pending
              \/ VerifySub \/ VerifyPub \/ StopBeat \/ LeaseRenew
              \/ FinalizeSend \/ FinalizeWait \/ Commit \/ Failed
UndoStep == Undo \/ UndoSend \/ UndoWait \/ UndoSub \/ UndoPub \/ UndoReady
EndStep == MarkRepair \/ Settle \/ Leave \/ RevalSub \/ RevalPub \/ RevalSave
BootStep == Restart \/ Boot \/ BootSend \/ BootWait \/ ConvSub \/ ConvPub
            \/ ConvReady
GatewayStep == SwitchStep \/ UndoStep \/ EndStep \/ BootStep
Goroutine == BeatSend \/ BeatAnswer
User == \E target \in Modes : Start(target)
GatewayFaults == GatewayCrash \/ LeaseLost \/ Disconnect
HelperFaults == (HelperCrash \/ XuiRestart) /\ UNCHANGED gateVars
Helper == HelperStep /\ UNCHANGED gateVars

GNext == \/ GatewayStep \/ Goroutine \/ User \/ GatewayFaults
         \/ Helper \/ HelperFaults \/ \E op \in Ops : LeaseLapses(op)

GSpec == GInit /\ [][GNext]_allVars

\* systemd runs both processes and starts the Gateway again; a snapshot whose
\* renewal stopped expires; nobody has to ask for a switch and no fault is due
Fairness == /\ WF_allVars(GatewayStep)
            /\ WF_allVars(Helper)
            /\ \A op \in Ops : WF_allVars(LeaseLapses(op))
GFairSpec == GSpec /\ Fairness

----------------------------------------------------------------------------
(* Properties                                                              *)

\* Every variable keeps its shape; in particular a request is being served
\* exactly while goal names its mode.
Records == [active : Modes, desired : Modes, state : Settled \cup Interrupted,
            op : Ops \cup {None},
            hash : [old : Modes \cup {None}, new : Modes \cup {None}]]
GTypeOK == /\ rec \in Records
           /\ mem \in Records
           /\ gpc \in {"idle", "down"} \cup SwitchPcs \cup BootPcs \cup SharedPcs
           /\ goal \in Modes \cup {None}
           /\ gpc \in SwitchPcs => goal \in Modes
           /\ gpc \in BootPcs => goal = None
           /\ applied \in BOOLEAN
           /\ beat \in {"idle", "sent", "failed"}
           /\ lease \in {"none", "held", "lost"}
           /\ gone \in BOOLEAN

\* What the Gateway calls ready is what users get: with no request in flight
\* and no snapshot left that the helper may still undo, Xray serves and the
\* database holds the recorded mode (commit, rollback, recovery and repair).
ReadyIsServed ==
  /\ rec.state = "ready" /\ hpc = "idle" /\ requests = {}
  /\ \A op \in Ops : snap[op].phase \notin RestorePhases
  => live = rec.active /\ row = rec.active

\* A ready record tells the outcome the helper decided for its operation, also
\* when the two were separated by a crash of the Gateway.
OutcomeMatchesRecord ==
  rec.state = "ready" /\ rec.op \in Ops =>
    /\ snap[rec.op].phase = "finalized" => rec.active = rec.hash.new
    /\ snap[rec.op].phase = "rolled_back" => rec.active = rec.hash.old

\* A committed switch does not drift: after finalize and commit nothing the
\* helper still finds on disk turns the database to another mode.
CommittedStays ==
  /\ rec.state = "ready" /\ rec.op \in Ops /\ snap[rec.op].phase = "finalized"
  => row = rec.active

\* The Gateway is the client ProtocolTxn assumes: it never asks for finalize
\* before it has seen the new mode served under a live lease, never reuses an
\* operation, and otherwise only lets the helper's own steps happen.
GatewayIsClient == [][Next]_<<diskVars, spoolVars, procVars>>

\* No request, restart or recovery holds the mutation lock for ever.
GatewayAvailable == []<>(gpc = "idle")

\* An interrupted switch does not stay interrupted: the record always gets back
\* to ready or repair_required (rollback in line, or recovery at the next start).
SwitchSettles == []<>(rec.state \in Settled)

\* No operation keeps an open snapshot: it is finalized, rolled back, recovered
\* after its lease or quarantined.
SnapshotsClose == \A op \in Ops : snap[op].phase \in WorkingPhases
                                  ~> snap[op].phase \notin WorkingPhases

----------------------------------------------------------------------------
(* The inductive invariant behind the theorems of ProtocolSwitchProofs      *)

\* The helper keeps its promises but for templates it rejects and databases that
\* fail: Xray answers, and neither helper nor x-ui is restarted in between.
HelperReliable == FaultKinds \cap {"xray", "helper_crash", "xui_restart"} = {}

Open(op) == snap[op].phase \in RestorePhases
Decided(op) == snap[op].phase = "finalized"
\* the mode that is owed: the record's, or the one its operation was finalized in
Base == IF rec.op \in Ops /\ Decided(rec.op) THEN rec.hash.new ELSE rec.active

\* an interrupted record names its operation; its active mode is the old one until
\* the helper has finalized, and once settled in the old mode that cannot follow
OldIsFinal == /\ Req(rec.op, "finalize") \notin requests
             /\ ~Decided(rec.op)
RecInv ==
  /\ rec.state \in Interrupted => rec.op \in Ops /\ rec.active = rec.hash.old
  /\ rec.op \in Ops =>
       /\ rec.hash.old \in Modes /\ rec.hash.new \in Modes /\ rec.hash.old # rec.hash.new
       /\ rec.active \in {rec.hash.old, rec.hash.new}
       /\ rec.active = rec.hash.new => Decided(rec.op)
       /\ asked[rec.op] \in {NotAsked, rec.hash}
       /\ rec.state = "ready" /\ rec.active = rec.hash.old => OldIsFinal

\* the copy in memory is of this record
EarlyPcs == {"apply_send", "apply_wait", "renew_send", "renew_wait", "pending",
             "verify_sub", "verify_pub", "verify_failed", "stop_beat",
             "lease_renew", "finalize_send"}
RenewedPcs == EarlyPcs \ {"apply_send", "apply_wait", "renew_send", "renew_wait"}
ForwardPcs == EarlyPcs \cup {"finalize_wait", "commit", "failed"}
UndoPcs == {"undo_send", "undo_wait", "undo_sub", "undo_pub", "undo_ready"}
MemInv ==
  /\ gpc # "leave" => mem.op = rec.op /\ mem.hash = rec.hash
  /\ gpc \notin {"leave", "mark_repair"} => mem.active = rec.active
  /\ gpc = "mark_repair" => \/ mem.active = rec.active
                            \/ /\ rec.op \in Ops /\ Decided(rec.op)
                               /\ mem.active = rec.hash.new
  /\ gpc \in {"begin", "settle"} => rec.state = "ready"
  /\ gpc \in ForwardPcs \cup {"undo"} => rec.state \in Interrupted /\ goal = rec.hash.new
  /\ gpc \in UndoPcs => rec.state = "rolling_back"
  /\ gpc \in {"boot_send", "boot_wait", "conv_sub", "conv_pub", "conv_ready"}
       => rec.state = "rolling_back"
  /\ gpc \in {"conv_sub", "conv_pub", "conv_ready"}
       => mem.desired = rec.active \/ (Decided(rec.op) /\ mem.desired = rec.hash.new)
  /\ gpc \in {"undo_pub", "undo_ready", "reval_pub", "reval_save"} /\ rec.op \in Ops
       /\ rec.active = rec.hash.old => OldIsFinal
  /\ gpc \in {"conv_pub", "conv_ready"} /\ mem.desired = rec.hash.old => OldIsFinal
  /\ gpc = "commit" => Decided(rec.op)

\* what has become of the requests of the operation under way
StageInv ==
  /\ gpc \in EarlyPcs =>
       /\ Req(rec.op, "rollback") \notin requests /\ results[rec.op]["rollback"] = "none"
       /\ Req(rec.op, "finalize") \notin requests
  /\ gpc = "apply_send" => asked[rec.op] = NotAsked
  /\ gpc \in EarlyPcs \ {"apply_send"} => asked[rec.op] = rec.hash
  /\ gpc \in EarlyPcs \ {"apply_send", "apply_wait"} => results[rec.op]["apply"] = "applied"
  /\ gpc \in {"apply_send", "apply_wait", "renew_send"}
       => Req(rec.op, "renew") \notin requests /\ results[rec.op]["renew"] = "none"
  /\ \/ gpc \in RenewedPcs
     \/ /\ gpc = "renew_wait"
        /\ \/ results[rec.op]["renew"] = "renewed"
           \/ hpc = "publish" /\ job = Req(rec.op, "renew") /\ verdict = "renewed"
     => snap[rec.op].phase = "applied" /\ snap[rec.op].fresh
  /\ gpc \in {"stop_beat", "lease_renew", "finalize_send"} => live = goal

\* requests and results of one operation
AnswerInv ==
  \A op \in Ops :
    /\ asked[op] = NotAsked => /\ results[op]["apply"] = "none"
                               /\ results[op]["renew"] = "none"
    /\ Req(op, "apply") \in requests
         => results[op]["apply"] = "none" \/ (hpc = "unlink" /\ job = Req(op, "apply"))
    /\ \A act \in {"renew", "finalize"} :
         Req(op, act) \in requests => results[op]["apply"] = "applied"
    /\ Req(op, "finalize") \in requests =>
         /\ snap[op].phase \in {"applied", "finalized"}
         /\ op = rec.op \/ Decided(op)
         /\ snap[op].phase = "applied" => live = row
    /\ \/ results[op]["rollback"] = "already_finalized"
       \/ /\ hpc = "publish" /\ job = Req(op, "rollback")
          /\ verdict = "already_finalized"
       => Decided(op)

\* the helper has been through the applies of earlier operations by the time it
\* answers a renewal of this one
Waiting(r) == r \in requests /\ r \notin batch /\ ~Busy(r)
Clean == \A op \in Ops \ {rec.op} : Req(op, "apply") \notin requests
QueueInv ==
  /\ hpc = "idle" => batch = {}
  /\ rec.op \in Ops /\ asked[rec.op] # NotAsked /\ ~Waiting(Req(rec.op, "apply"))
       => \A op \in Ops \ {rec.op} : ~Waiting(Req(op, "apply"))
  /\ \/ gpc \in RenewedPcs
     \/ rec.op \in Ops /\ \/ Req(rec.op, "renew") \in batch
                          \/ Busy(Req(rec.op, "renew"))
                          \/ results[rec.op]["renew"] # "none"
                          \/ Req(rec.op, "finalize") \in requests
                          \/ Decided(rec.op)
     => Clean
  /\ \A op \in Ops : Req(op, "apply") \in requests => asked[op].old = Base

\* what is served, step by step: at most one snapshot is open, it leads back to the
\* mode that is owed, and without one that mode is served
BodyInv ==
  LET s == snap[job.op] IN
  /\ hpc = "apply_snapshot" => row = asked[job.op].old
  /\ hpc \in {"apply_offline_test", "apply_remove"} => live = s.old /\ row = s.old
  /\ hpc = "apply_add" => live = Absent /\ row = s.old
  /\ hpc = "apply_persist" => live = s.new /\ row = s.old
  /\ hpc = "apply_verify" => live = s.new /\ row = s.new
  /\ hpc \in RollbackPcs => s.phase # "snapshot" /\ row \in {s.old, s.new}
  /\ hpc = "rollback_add" => live = Absent
  /\ hpc \in {"rollback_restore", "rollback_verify"} => live = s.old
  /\ hpc = "rollback_verify" => row = s.old
  /\ hpc = "rollback_failed" => row = s.new
RowInv ==
  /\ \A op1, op2 \in Ops : Open(op1) /\ Open(op2) => op1 = op2
  /\ \A op \in Ops : Open(op) => /\ snap[op].old = Base /\ snap[op].new = asked[op].new
                                 /\ snap[op].old # snap[op].new
                                 /\ hpc \notin ApplyPcs \cup RollbackPcs => row = snap[op].new
  /\ (\A op \in Ops : ~Open(op)) => live = Base /\ row = Base
  /\ rec.op \in Ops /\ Decided(rec.op) => \A op \in Ops : ~Open(op)
  /\ \A op \in Ops : leftover[op] => hpc \in {"rollback_remove", "rollback_add"} /\ op = job.op
  /\ \A op \in Ops : snap[op].phase = "snapshot" => hpc = "apply_offline_test"

GInv == /\ GTypeOK /\ RecInv /\ MemInv /\ StageInv /\ AnswerInv /\ QueueInv
        /\ BodyInv /\ RowInv
============================================================================
