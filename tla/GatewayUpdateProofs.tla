------------------------- MODULE GatewayUpdateProofs -------------------------
(***************************************************************************)
(* Proofs about the self-update of the Gateway, for any set of runs and of *)
(* builds and any number of faults.  UInv is inductive; the properties     *)
(* follow from its parts.                                                  *)
(***************************************************************************)
EXTENDS GatewayUpdate, TLAPS

\* The parts of the invariant that do not speak of requests.
HostInv == /\ Journaled /\ Hosted /\ Quiet /\ Concluded /\ Kept /\ Frozen
           /\ OldBuildKept /\ JournalIsOwned

\* A freshly installed host satisfies the invariant.
LEMMA UInvInit == Init => UInv
<1> SUFFICES ASSUME Init PROVE UInv
  OBVIOUS
<1> USE BuildsAssumption, NoneAssumption, RunsAssumption, FaultsAssumption
<1>1. UTypeOK
  <2>1. /\ asked \in [Runs -> Request \cup {NotAsked}]
        /\ lease \in Runs \cup {None} /\ submitting \in Runs \cup {None}
        /\ requests \subseteq Runs
        /\ due \in BOOLEAN /\ fetching \in Runs \cup {None}
    BY DEF Init
  <2>2. /\ staging \in [Runs -> Stagings]
        /\ results \in [Runs -> Outcomes]
    BY DEF Init, Stagings, Outcomes, Terminal
  <2>3. /\ journal \in Journals \cup {None}
        /\ binary \in Builds /\ previous \in Builds \cup {None}
        /\ serving \in Builds \cup {None}
    BY DEF Init
  <2>4. /\ plane \in Nat /\ faults \in 0..MaxFaults
        /\ run \in Runs \cup {None} /\ outcome \in Outcomes
    BY DEF Init, Outcomes
  <2> QED
    BY <2>1, <2>2, <2>3, <2>4 DEF UTypeOK
<1>2. Requested
  BY DEF Init, Requested
<1>3. HostInv
  BY DEF Init, HostInv, Journaled, Hosted, Quiet, Concluded, Kept, Frozen,
         OldBuildKept, JournalIsOwned, Switching, Restoring, Recovering,
         Finishing
<1> QED
  BY <1>1, <1>2, <1>3 DEF UInv, HostInv

\* A step that leaves the host, the journal and the installer alone keeps
\* what the invariant says of them: all steps of the client and the fetcher.
LEMMA HostUntouched ==
  ASSUME HostInv, UNCHANGED <<journal, hostVars, procVars>>
  PROVE  HostInv'
BY DEF HostInv, Journaled, Hosted, Quiet, Concluded, Kept, Frozen, OldBuildKept,
       JournalIsOwned, hostVars, procVars

\* The client publishes a lease and a request file, or fails to.
LEMMA ClientKeeps ==
  ASSUME UInv, User \/ SubmitRequest \/ SubmitCrash
  PROVE  UInv'
<1> USE DEF ClientStep, fetchVars, spoolVars, hostVars, procVars, Fault
<1>1. UNCHANGED <<journal, hostVars, procVars>>
  BY DEF User, SubmitLease, SubmitRequest, SubmitCrash
<1>2. HostInv'
  BY <1>1, HostUntouched DEF UInv, HostInv
<1>3. UTypeOK'
  <2> USE FaultsAssumption DEF UInv, UTypeOK
  <2>1. ASSUME NEW r \in Runs, NEW request \in Request, SubmitLease(r, request)
        PROVE  UTypeOK'
    BY <2>1 DEF SubmitLease
  <2>2. CASE SubmitRequest
    BY <2>2 DEF SubmitRequest
  <2>3. CASE SubmitCrash
    BY <2>3 DEF SubmitCrash
  <2> QED
    BY <2>1, <2>2, <2>3 DEF User
<1>4. Requested'
  BY RunsAssumption DEF UInv, UTypeOK, Requested, User, SubmitLease, SubmitRequest,
     SubmitCrash, Request, NotAsked
<1> QED
  BY <1>2, <1>3, <1>4 DEF UInv, HostInv

\* The fetcher only touches staging directories.
LEMMA FetcherKeeps ==
  ASSUME UInv, Fetcher \/ FetchCrash
  PROVE  UInv'
<1> USE DEF FetcherStep, clientVars, hostVars, procVars, Fault
<1>1. UNCHANGED <<asked, submitting, requests, journal, hostVars, procVars>>
  BY DEF Fetcher, FetchStart, FetchEnd, FetchCrash
<1>2. HostInv'
  BY <1>1, HostUntouched DEF UInv, HostInv
<1>3. UTypeOK'
  <2> USE FaultsAssumption DEF UInv, UTypeOK
  <2>1. CASE FetchStart
    BY <2>1 DEF FetchStart, Unfetched
  <2>2. CASE FetchEnd
    BY <2>2 DEF FetchEnd, Stagings
  <2>3. CASE FetchCrash
    BY <2>3 DEF FetchCrash, Stagings
  <2> QED
    BY <2>1, <2>2, <2>3 DEF Fetcher
<1>4. Requested'
  BY <1>1 DEF UInv, Requested
<1> QED
  BY <1>2, <1>3, <1>4 DEF UInv, HostInv


\* A switch opens a journal of the run in hand that names the installed build
\* as the one to go back to.
LEMMA SwitchOpens ==
  ASSUME UInv, Process
  PROVE  \/ UNCHANGED journal /\ ipc' # "backup"
         \/ /\ journal' \in Journals
            /\ journal'.run = run /\ journal'.old = binary
            /\ journal'.state = "none"
<1> DEFINE target == IF asked[run].action = "apply" THEN asked[run].build
                     ELSE previous
           opened == Jrnl("prepared", "none", binary, target, plane)
<1>1. CASE journal' = opened /\ target # None
  <2>1. run \in Runs /\ asked[run] \in Request
    BY DEF UInv, Process, Requested
  <2>2. asked[run].action \in Actions /\ target \in Builds
    BY <1>1, <2>1 DEF UInv, UTypeOK, Request, Actions
  <2>3. binary \in Builds /\ plane \in Nat
    BY DEF UInv, UTypeOK
  <2>4. opened \in Journals
    BY <2>1, <2>2, <2>3 DEF Jrnl, Journals, Outcomes
  <2>5. opened.run = run /\ opened.old = binary /\ opened.state = "none"
    BY DEF Jrnl
  <2> HIDE DEF opened
  <2> QED
    BY <1>1, <2>4, <2>5
<1> QED
  BY <1>1 DEF Process, Conclude

\* A checkpoint and the terminal entry change neither whose journal it is nor
\* the build it goes back to; only the terminal entry sets a state.
LEMMA JournalKept ==
  ASSUME UInv, Checkpoint \/ TerminalJournal
  PROVE  /\ journal \in Journals /\ journal' \in Journals
         /\ journal'.run = journal.run /\ journal'.old = journal.old
         /\ Checkpoint => journal'.state = journal.state
<1>1. journal \in Journals
  BY DEF UInv, UTypeOK, Journaled, Checkpoint, TerminalJournal, Switching, Restoring
<1>2. outcome \in Outcomes
  BY DEF UInv, UTypeOK
<1>3. CASE Checkpoint
  BY <1>1, <1>3 DEF Checkpoint, Journals
<1>4. CASE TerminalJournal
  BY <1>1, <1>2, <1>4 DEF TerminalJournal, Checkpoint, Journals
<1> QED
  BY <1>1, <1>3, <1>4

\* Every variable keeps its shape over a step of the installer or its host.
LEMMA InstallerTypes ==
  ASSUME UInv, Installer \/ InstallerCrash \/ Reboot \/ Drift
  PROVE  UTypeOK'
<1> USE FaultsAssumption
<1> USE DEF UInv, UTypeOK, InstallerStep, Fault, clientVars, fetchVars,
            spoolVars, hostVars, procVars
<1>1. CASE Wake
  BY <1>1 DEF Wake, Go, DiskUntouched
<1>2. CASE Scan
  BY <1>2 DEF Scan, Exit, DiskUntouched, Outcomes, Journals
<1>3. CASE Process
  <2>1. journal' \in Journals \cup {None}
    BY <1>3, SwitchOpens
  <2>2. outcome' \in Outcomes /\ run' = run
    BY <1>3 DEF Process, Go, Conclude, Outcomes, Terminal
  <2> QED
    BY <2>1, <2>2, <1>3 DEF Process
<1>4. CASE Backup
  BY <1>4 DEF Backup, Go, Conclude, Outcomes, Terminal
<1>5. CASE Stop
  BY <1>5 DEF Stop, StopService, Go
<1>6. CASE Checkpoint
  <2>1. journal' \in Journals \cup {None}
    BY <1>6, JournalKept
  <2>2. outcome' \in Outcomes /\ run' \in Runs \cup {None}
    BY <1>6 DEF Checkpoint, Go, Conclude, Exit, Outcomes, Terminal
  <2> QED
    BY <2>1, <2>2, <1>6 DEF Checkpoint
<1>7. CASE Replace
  <2>1. binary' \in Builds
    BY <1>7 DEF Replace, Journaled, Journals, Switching
  <2> QED
    BY <2>1, <1>7 DEF Replace, Go
<1>8. CASE Start
  BY <1>8 DEF Start, StartService, Go
<1>9. CASE Verify
  BY <1>9, BuildsAssumption DEF Verify, Verified, Go, DiskUntouched
<1>10. CASE TerminalJournal
  <2>1. journal' \in Journals \cup {None}
    BY <1>10, JournalKept
  <2>2. outcome' \in Outcomes /\ run' = run
    BY <1>10 DEF TerminalJournal, Go, Conclude, Outcomes, Terminal
  <2> QED
    BY <2>1, <2>2, <1>10 DEF TerminalJournal
<1>11. CASE Undo
  BY <1>11 DEF Undo, StopService, Go
<1>12. CASE UndoReplace
  <2>1. binary' \in Builds
    BY <1>12 DEF UndoReplace, Journaled, Journals, Kept, Restoring
  <2> QED
    BY <2>1, <1>12 DEF UndoReplace, Go
<1>13. CASE UndoStart
  BY <1>13 DEF UndoStart, StartService, Go
<1>14. CASE UndoVerify
  BY <1>14 DEF UndoVerify, Verified, Conclude, Go, DiskUntouched, Outcomes,
     Terminal
<1>15. CASE UndoFailed
  BY <1>15 DEF UndoFailed, GiveUp, Conclude, DiskUntouched, Outcomes, Terminal
<1>16. CASE Recover
  BY <1>16 DEF Recover, Go, Conclude, Journals, Outcomes, Terminal
<1>17. CASE RecoverStart
  BY <1>17 DEF RecoverStart, StartService, Go
<1>18. CASE RecoverVerify
  <2>1. outcome' \in Outcomes /\ run' = run
    BY <1>18 DEF RecoverVerify, Recovered, Conclude, Go, Journaled, Recovering,
       Journals, Outcomes, Terminal
  <2> QED
    BY <2>1, <1>18 DEF RecoverVerify, DiskUntouched
<1>19. CASE Publish
  BY <1>19 DEF Publish, Go, Exit, Outcomes
<1>20. CASE Unlink
  BY <1>20 DEF Unlink, Go
<1>21. CASE Clean
  BY <1>21 DEF Clean, Go, Stagings
<1>22. CASE ClearJournal
  BY <1>22 DEF ClearJournal, Exit, Outcomes
<1>23. CASE Keep
  <2>1. staging' \in [Runs -> Stagings]
    BY <1>23 DEF Keep, Stagings
  <2> QED
    BY <2>1, <1>23 DEF Keep, Exit, Outcomes
<1>24. CASE InstallerCrash
  BY <1>24 DEF InstallerCrash, Exit, DiskUntouched, Outcomes
<1>25. CASE Reboot
  <2>1. staging' \in [Runs -> Stagings]
    BY <1>25 DEF Reboot, Stagings
  <2>2. QED
    <3>1. /\ fetching' \in Runs \cup {None} /\ submitting' \in Runs \cup {None}
          /\ run' \in Runs \cup {None} /\ outcome' \in Outcomes
          /\ due' \in BOOLEAN
      BY <1>25 DEF Reboot, Exit, Outcomes
    <3>2. /\ serving' \in Builds \cup {None} /\ plane' \in Nat
          /\ faults' \in 0..MaxFaults
      BY <1>25 DEF Reboot
    <3>3. UNCHANGED <<lease, asked, requests, results, journal, binary,
                      previous>>
      BY <1>25 DEF Reboot
    <3> QED
      BY <2>1, <3>1, <3>2, <3>3
<1>26. CASE Drift
  BY <1>26 DEF Drift
<1> QED
  BY <1>1, <1>2, <1>3, <1>4, <1>5, <1>6, <1>7, <1>8, <1>9, <1>10, <1>11,
     <1>12, <1>13, <1>14, <1>15, <1>16, <1>17, <1>18, <1>19, <1>20, <1>21,
     <1>22, <1>23, <1>24, <1>25, <1>26
  DEF Installer, Switch, Restore, Recovery, Finish

\* What the installer takes up was asked for.
LEMMA InstallerRequests ==
  ASSUME UInv, Installer \/ InstallerCrash \/ Reboot \/ Drift
  PROVE  Requested'
<1> USE DEF UInv, UTypeOK, Requested, InstallerStep, clientVars, fetchVars,
            spoolVars, hostVars, procVars
<1>1. CASE Wake
  BY <1>1 DEF Wake, Go, DiskUntouched
<1>2. CASE Scan
  BY <1>2 DEF Scan, Exit, DiskUntouched
<1>3. CASE Process
  BY <1>3 DEF Process, Go, Conclude
<1>4. CASE Backup
  BY <1>4 DEF Backup, Go, Conclude
<1>5. CASE Stop
  BY <1>5, RunsAssumption DEF Stop, StopService, Go
<1>6. CASE Checkpoint
  BY <1>6 DEF Checkpoint, Go, Conclude, Exit, Following
<1>7. CASE Replace
  BY <1>7 DEF Replace, Go
<1>8. CASE Start
  BY <1>8 DEF Start, StartService, Go
<1>9. CASE Verify
  BY <1>9, BuildsAssumption DEF Verify, Verified, Go, DiskUntouched
<1>10. CASE TerminalJournal
  BY <1>10 DEF TerminalJournal, Go, Conclude
<1>11. CASE Undo
  BY <1>11, RunsAssumption DEF Undo, StopService, Go
<1>12. CASE UndoReplace
  BY <1>12 DEF UndoReplace, Go
<1>13. CASE UndoStart
  BY <1>13 DEF UndoStart, StartService, Go
<1>14. CASE UndoVerify
  BY <1>14 DEF UndoVerify, Conclude, Go, DiskUntouched
<1>15. CASE UndoFailed
  BY <1>15 DEF UndoFailed, GiveUp, Conclude, DiskUntouched
<1>16. CASE Recover
  BY <1>16 DEF Recover, Go, Conclude
<1>17. CASE RecoverStart
  BY <1>17 DEF RecoverStart, StartService, Go
<1>18. CASE RecoverVerify
  BY <1>18 DEF RecoverVerify, Conclude, Go, DiskUntouched
<1>19. CASE Publish
  BY <1>19 DEF Publish, Go, Exit
<1>20. CASE Unlink
  BY <1>20 DEF Unlink, Go
<1>21. CASE Clean
  BY <1>21 DEF Clean, Go
<1>22. CASE ClearJournal
  BY <1>22 DEF ClearJournal, Exit
<1>23. CASE Keep
  BY <1>23 DEF Keep, Exit, Marked
<1>24. CASE InstallerCrash
  BY <1>24 DEF InstallerCrash, Exit, DiskUntouched
<1>25. CASE Reboot
  BY <1>25, RunsAssumption DEF Reboot, Exit
<1>26. CASE Drift
  BY <1>26 DEF Drift
<1> QED
  BY <1>1, <1>2, <1>3, <1>4, <1>5, <1>6, <1>7, <1>8, <1>9, <1>10, <1>11,
     <1>12, <1>13, <1>14, <1>15, <1>16, <1>17, <1>18, <1>19, <1>20, <1>21,
     <1>22, <1>23, <1>24, <1>25, <1>26
  DEF Installer, Switch, Restore, Recovery, Finish

\* The host, the journal and the build kept aside agree after every step of the
\* installer, and after every interruption of it.
LEMMA InstallerKeeps ==
  ASSUME UInv, Installer \/ InstallerCrash \/ Reboot \/ Drift
  PROVE  HostInv'
<1> USE NoneAssumption
<1> USE DEF UInv, HostInv, Journaled, Hosted, Quiet, Concluded, Kept, Frozen,
            OldBuildKept, JournalIsOwned, Switching, Restoring, Recovering,
            Finishing, InstallerStep, clientVars, fetchVars, spoolVars,
            hostVars, procVars
<1>1. CASE Wake
  BY <1>1 DEF Wake, Go, DiskUntouched
<1>2. CASE Scan
  BY <1>2 DEF Scan, Exit, DiskUntouched
<1>3. CASE Process
  BY <1>3, SwitchOpens DEF Process, Go, Conclude
<1>4. CASE Backup
  BY <1>4 DEF Backup, Go, Conclude
<1>5. CASE Stop
  BY <1>5 DEF Stop, StopService, Go
<1>6. CASE Checkpoint
  BY <1>6, JournalKept DEF Checkpoint, Go, Conclude, Exit, Following
<1>7. CASE Replace
  BY <1>7 DEF Replace, Go
<1>8. CASE Start
  BY <1>8 DEF Start, StartService, Go
<1>9. CASE Verify
  BY <1>9, BuildsAssumption DEF Verify, Verified, Go, DiskUntouched
<1>10. CASE TerminalJournal
  BY <1>10, JournalKept DEF TerminalJournal, Go, Conclude
<1>11. CASE Undo
  BY <1>11 DEF Undo, StopService, Go
<1>12. CASE UndoReplace
  BY <1>12 DEF UndoReplace, Go
<1>13. CASE UndoStart
  BY <1>13 DEF UndoStart, StartService, Go
<1>14. CASE UndoVerify
  BY <1>14, BuildsAssumption DEF UndoVerify, Verified, Conclude, Go, DiskUntouched
<1>15. CASE UndoFailed
  BY <1>15 DEF UndoFailed, GiveUp, Conclude, DiskUntouched
<1>16. CASE Recover
  BY <1>16 DEF Recover, Go, Conclude
<1>17. CASE RecoverStart
  BY <1>17 DEF RecoverStart, StartService, Go
<1>18. CASE RecoverVerify
  BY <1>18, BuildsAssumption DEF RecoverVerify, Verified, Conclude, Go,
     DiskUntouched
<1>19. CASE Publish
  BY <1>19 DEF Publish, Go, Exit
<1>20. CASE Unlink
  BY <1>20 DEF Unlink, Go
<1>21. CASE Clean
  BY <1>21 DEF Clean, Go
<1>22. CASE ClearJournal
  BY <1>22 DEF ClearJournal, Exit
<1>23. CASE Keep
  BY <1>23 DEF Keep, Exit, Marked
<1>24. CASE InstallerCrash
  BY <1>24 DEF InstallerCrash, Exit, DiskUntouched
<1>25. CASE Reboot
  BY <1>25 DEF Reboot, Exit
<1>26. CASE Drift
  BY <1>26 DEF Drift
<1> QED
  BY <1>1, <1>2, <1>3, <1>4, <1>5, <1>6, <1>7, <1>8, <1>9, <1>10, <1>11,
     <1>12, <1>13, <1>14, <1>15, <1>16, <1>17, <1>18, <1>19, <1>20, <1>21,
     <1>22, <1>23, <1>24, <1>25, <1>26
  DEF Installer, Switch, Restore, Recovery, Finish

\* No step of the system leaves the invariant.
LEMMA UInvStep ==
  ASSUME UInv, [Next]_vars
  PROVE  UInv'
<1>1. CASE User \/ SubmitRequest \/ SubmitCrash
  BY <1>1, ClientKeeps
<1>2. CASE Fetcher \/ FetchCrash
  BY <1>2, FetcherKeeps
<1>3. CASE Installer \/ InstallerCrash \/ Reboot \/ Drift
  BY <1>3, InstallerTypes, InstallerRequests, InstallerKeeps DEF UInv, HostInv
<1>4. CASE UNCHANGED vars
  <2>1. HostInv'
    BY <1>4, HostUntouched DEF UInv, HostInv, vars
  <2>2. UTypeOK' /\ Requested'
    BY <1>4 DEF UInv, UTypeOK, Requested, vars, clientVars, fetchVars,
       spoolVars, hostVars, procVars
  <2> QED
    BY <2>1, <2>2 DEF UInv, HostInv
<1> QED
  BY <1>1, <1>2, <1>3, <1>4 DEF Next, Faults

\* UInv holds of every reachable state, whatever the runs, the builds and the
\* number of faults.
THEOREM UInductive == Spec => []UInv
<1>1. Init => UInv
  BY UInvInit
<1>2. UInv /\ [Next]_vars => UInv'
  BY UInvStep
<1> QED
  BY <1>1, <1>2, PTL DEF Spec

\* Every variable of the updater keeps its type.
THEOREM UTypeCorrect == Spec => []UTypeOK
<1>1. UInv => UTypeOK
  BY DEF UInv
<1> QED
  BY <1>1, UInductive, PTL

\* Between runs the service runs the installed build and that build is good,
\* however often switchRelease, its rollback and Recover were cut short.
THEOREM Serves == Spec => []SettledServes
<1>1. UInv => SettledServes
  BY DEF UInv, Quiet, SettledServes
<1> QED
  BY <1>1, UInductive, PTL

\* While a journal is open, the good build it started from is on disk.
THEOREM OldBuildSafe == Spec => []OldBuildKept
<1>1. UInv => OldBuildKept
  BY DEF UInv
<1> QED
  BY <1>1, UInductive, PTL

\* The installer never works for one run under the journal of another.
THEOREM JournalOwned == Spec => []JournalIsOwned
<1>1. UInv => JournalIsOwned
  BY DEF UInv
<1> QED
  BY <1>1, UInductive, PTL

\* A journal that asks for a repair ends the automation: neither build is
\* replaced any more.
THEOREM RepairFreezes == Spec => RepairStops
<1>1. ASSUME UInv, [Next]_vars, journal # None,
             journal.state = "repair_required"
      PROVE  UNCHANGED <<binary, previous>>
  <2>1. ipc \in {"idle", "scan", "recover"} \cup Finishing
    BY <1>1 DEF UInv, Frozen
  <2>2. CASE User \/ SubmitRequest \/ SubmitCrash \/ Fetcher \/ FetchCrash
    BY <2>2 DEF User, SubmitLease, SubmitRequest, SubmitCrash, Fetcher,
       FetchStart, FetchEnd, FetchCrash, ClientStep, FetcherStep, hostVars
  <2>3. CASE Wake \/ Scan \/ Finish \/ Recover \/ InstallerCrash
    BY <1>1, <2>3 DEF Wake, Scan, Finish, Publish, Unlink, Clean, ClearJournal,
       Keep, Recover, InstallerCrash, DiskUntouched, hostVars
  <2>4. CASE Reboot \/ Drift \/ UNCHANGED vars
    BY <2>4 DEF Reboot, Drift, vars, hostVars
  <2>5. CASE Switch \/ Restore \/ RecoverStart \/ RecoverVerify
    <3>1. ipc \in {"process", "terminal"} \cup Switching \cup Restoring
                  \cup Recovering
      BY <2>5 DEF Switch, Restore, RecoverStart, RecoverVerify, Process, Backup,
         Stop, Checkpoint, Replace, Start, Verify, TerminalJournal, Undo,
         UndoReplace, UndoStart, UndoVerify, UndoFailed, Switching, Restoring,
         Recovering
    <3> QED
      BY <2>1, <3>1 DEF Finishing, Switching, Restoring, Recovering
  <2> QED
    BY <1>1, <2>2, <2>3, <2>4, <2>5 DEF Next, Installer, Recovery, Faults
<1>2. UInv /\ [Next]_vars
      => (journal # None /\ journal.state = "repair_required"
          => UNCHANGED <<binary, previous>>)
  BY <1>1
<1> QED
  BY <1>2, UInductive, PTL DEF Spec, RepairStops
=============================================================================
