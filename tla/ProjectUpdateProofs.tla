------------------------- MODULE ProjectUpdateProofs ------------------------
(***************************************************************************)
(* Proofs about ProjectUpdate, for every set of runs, releases, engines    *)
(* and faults and any number of files.                                     *)
(***************************************************************************)
EXTENDS ProjectUpdate, TLAPS

(* Services that come up keep the shape of the databases.                  *)
LEMMA StartType ==
  ASSUME PTypeOK, Start
  PROVE  running' \in BOOLEAN /\ db' \in Dbs
<1>1. 1 \in Files
  BY UpdateAssumption DEF Files
<1>2. files[1] \in Versions
  BY <1>1 DEF PTypeOK
<1> QED
  BY <1>2 DEF PTypeOK, Start, Dbs

LEMMA GatewayType ==
  ASSUME PTypeOK,
         (\E r \in Runs, q \in Requests : Submit(r, q)) \/ Change
           \/ (\E r \in Runs : fetch(r))
  PROVE  PTypeOK'
<1>1. ASSUME NEW r \in Runs, NEW q \in Requests, Submit(r, q) PROVE PTypeOK'
  BY <1>1 DEF PTypeOK, Submit, hostVars, workVars
<1>2. CASE Change
  BY <1>2, UpdateAssumption DEF PTypeOK, Change, workVars, Dbs
<1>3. ASSUME NEW r \in Runs, fetch(r) PROVE PTypeOK'
  BY <1>3, UpdateAssumption
  DEF PTypeOK, fetch, download_failed, Fault, hostVars, workVars
<1> QED
  BY <1>1, <1>2, <1>3

LEMMA FallBackType ==
  ASSUME PTypeOK, fall_back
  PROVE  pointer' \in [current : Engines, previous : Engines \union {None},
                       failed : Engines \union {None}]
BY DEF PTypeOK, fall_back

LEMMA RecordType ==
  ASSUME PTypeOK, record_failure
  PROVE  results' \in [Runs -> States]
BY DEF PTypeOK, record_failure, Finish, States

LEMMA BootType == ASSUME PTypeOK, boot_main PROVE PTypeOK'
<1>1. pointer' \in [current : Engines, previous : Engines \union {None},
                    failed : Engines \union {None}]
  BY FallBackType DEF boot_main, PTypeOK
<1>2. results' \in [Runs -> States]
  BY RecordType DEF boot_main, PTypeOK
<1> QED
  BY <1>1, <1>2 DEF PTypeOK, boot_main, Quiet, hostVars, workVars, Pcs

LEMMA RecoverType == ASSUME PTypeOK, main_recover PROVE PTypeOK'
<1>1. 1 \in 1..CurrentAt
  BY UpdateAssumption DEF CurrentAt
<1> QED
  BY <1>1 DEF PTypeOK, main_recover, recover, Quiet, hostVars, Exit, Pcs, Undoing,
              Journals

(* What apply writes first is a journal.                                   *)
LEMMA NewJournal ==
  ASSUME PTypeOK, NEW r \in Open, install_apply(r)
  PROVE  journal' \in Journals /\ journal' # None
<1>1. NoSnapshot \in Snapshots
  BY UpdateAssumption DEF NoSnapshot, Snapshots, Versions, Dbs
<1>2. db.ids \in 0..MaxChanges /\ r \in Runs
  BY DEF PTypeOK, Dbs, Open
<1>3. journal' \in Journals
  BY <1>1, <1>2 DEF install_apply, Journals
<1> QED
  BY <1>3, NoneAssumption

LEMMA InstallType == ASSUME PTypeOK, main_install PROVE PTypeOK'
<1> USE DEF PTypeOK, Quiet, hostVars
<1>1. 1 \in 1..CurrentAt
  BY UpdateAssumption DEF CurrentAt
<1>2. CASE Open = {} /\ Exit /\ UNCHANGED <<catalog, journal, pointer, results, faults>>
  BY <1>1, <1>2 DEF main_install, Exit, Pcs
<1>3. ASSUME NEW r \in Open, ready[r] = "none", Exit,
             UNCHANGED <<catalog, journal, pointer, results, faults>>
      PROVE  PTypeOK'
  BY <1>1, <1>3 DEF main_install, Exit, Pcs
<1>4. ASSUME NEW r \in Open, UNCHANGED faults,
             install_check(r) \/ install_again(r)
      PROVE  PTypeOK'
  <2>1. catalog' \subseteq Releases
    <3>1. CASE install_check(r)
      <4>1. Latest \in Releases
        BY UpdateAssumption DEF Latest
      <4> QED
        BY <3>1, <4>1 DEF install_check
    <3>2. CASE install_again(r)
      BY <3>2 DEF install_again
    <3> QED
      BY <1>4, <3>1, <3>2
  <2>2. results' \in [Runs -> States]
    BY <1>4 DEF install_check, install_again, Finish, States, Open
  <2> QED
    BY <1>1, <1>4, <2>1, <2>2
    DEF main_install, Exit, Pcs, install_check, install_again
<1>5. ASSUME NEW r \in Open, UNCHANGED faults, install_promote(r)
      PROVE  PTypeOK'
  <2>1. asked[r].version \in Releases
    BY <1>5 DEF install_promote, Requests, NotAsked, Open
  <2>2. Ships[asked[r].version] \in Engines
    BY <2>1, UpdateAssumption
  <2>3. pointer' \in [current : Engines, previous : Engines \union {None},
                      failed : Engines \union {None}]
    BY <1>5, <2>2 DEF install_promote, promote_engine, Tag
  <2> QED
    BY <1>1, <1>5, <2>3 DEF main_install, Exit, Pcs, install_promote
<1>6. ASSUME NEW r \in Open, UNCHANGED faults, install_apply(r)
      PROVE  PTypeOK'
  <2>1. journal' \in Journals
    BY <1>6, NewJournal
  <2> QED
    BY <1>1, <1>6, <2>1 DEF main_install, Pcs, install_apply, Applying, Open
<1>7. ASSUME NEW r \in Open, install_refused(r) PROVE PTypeOK'
  <2>1. faults' \in 0..MaxFaults
    BY <1>7, UpdateAssumption
    DEF install_refused, refused, fetch_error, not_applicable, verify_manifest,
        copy_untrusted, current_facts, check_layout, extract_package, Fault
  <2> QED
    BY <1>1, <1>7, <2>1 DEF main_install, Exit, Pcs, install_refused, Finish, States, Open
<1> QED
  BY <1>2, <1>3, <1>4, <1>5, <1>6, <1>7 DEF main_install

(* The run of a transaction has asked for a version.                       *)
LEMMA AskedVersion ==
  ASSUME PTypeOK, Holder, pc \in Busy
  PROVE  run \in Runs /\ asked[run].version \in Versions
<1>1. journal \in Journals /\ run = journal.run
  BY DEF Holder, PTypeOK
<1>2. run \in Runs
  BY <1>1 DEF Journals
<1> QED
  BY <1>2 DEF PTypeOK, Requests, NotAsked, Versions

LEMMA ApplyType == ASSUME PTypeOK, Holder, Apply PROVE PTypeOK'
<1> USE DEF PTypeOK, Quiet, hostVars, Working, Goto
<1>1. 1 \in 1..CurrentAt
  BY UpdateAssumption DEF CurrentAt
<1>2. CASE apply_stop
  BY <1>2 DEF apply_stop, Stop, Pcs, Applying
<1>3. CASE apply_backup
  <2>1. [files |-> files, db |-> db, current |-> current] \in Snapshots
    BY DEF Snapshots
  <2>2. journal \in Journals
    BY <1>3 DEF apply_backup, Holder, Busy, Applying
  <2>3. journal' \in Journals
    BY <1>3, <2>1, <2>2 DEF apply_backup, Journals
  <2> QED
    BY <1>3, <2>3 DEF apply_backup, Pcs, Applying
<1>4. CASE apply_copy
  <2>1. asked[run].version \in Versions
    BY <1>4, AskedVersion DEF apply_copy, Holder, Busy, Applying
  <2>2. at' \in 1..CurrentAt
    BY <1>1, <1>4, UpdateAssumption DEF apply_copy, CurrentAt
  <2> QED
    BY <1>4, <2>1, <2>2 DEF apply_copy, Pcs, Applying
<1>5. CASE apply_start
  BY <1>5, StartType DEF apply_start, Pcs, Applying
<1>6. CASE apply_check
  BY <1>6 DEF apply_check, Pcs, Applying, Undoing
<1>7. CASE apply_current
  <2>1. asked[run].version \in Versions
    BY <1>7, AskedVersion DEF apply_current, Holder, Busy, Applying
  <2> QED
    BY <1>7, <2>1 DEF apply_current, Pcs, Applying
<1>8. CASE apply_finish
  BY <1>8 DEF apply_finish, Pcs, Finish, States
<1>9. CASE unlink
  BY <1>1, <1>9 DEF unlink, Pcs, Exit
<1> QED
  BY <1>2, <1>3, <1>4, <1>5, <1>6, <1>7, <1>8, <1>9 DEF Apply

LEMMA RollbackType == ASSUME PTypeOK, Holder, Rollback PROVE PTypeOK'
<1> USE DEF PTypeOK, Quiet, hostVars, Working, Goto
<1>1. 1 \in 1..CurrentAt
  BY UpdateAssumption DEF CurrentAt
<1>2. CASE resume
  BY <1>2, StartType DEF resume, Pcs
<1>3. CASE rollback_stop
  BY <1>3 DEF rollback_stop, Stop, Pcs, Undoing
<1>4. CASE rollback_copy
  <2>1. journal \in Journals
    BY <1>4 DEF rollback_copy, Holder, Busy, Undoing
  <2>2. journal.saved \in Snapshots
    BY <2>1 DEF Journals
  <2>3. /\ journal.saved.files \in [Files -> Versions]
        /\ journal.saved.db \in Dbs /\ journal.saved.current \in Versions
    BY <2>2 DEF Snapshots
  <2>4. files' \in [Files -> Versions] /\ db' \in Dbs /\ current' \in Versions
    BY <1>4, <2>3 DEF rollback_copy
  <2>5. at' \in 1..CurrentAt
    BY <1>1, <1>4, UpdateAssumption DEF rollback_copy, CurrentAt
  <2> QED
    BY <1>4, <2>4, <2>5 DEF rollback_copy, Pcs, Undoing
<1>5. CASE rollback_start
  BY <1>5, StartType DEF rollback_start, Pcs, Undoing
<1>6. CASE rollback_check
  BY <1>1, <1>6 DEF rollback_check, Pcs, Exit, Finish, States
<1>7. CASE rolled_back
  BY <1>7 DEF rolled_back, Pcs, Finish, States
<1> QED
  BY <1>2, <1>3, <1>4, <1>5, <1>6, <1>7 DEF Rollback

LEMMA FaultType ==
  ASSUME PTypeOK, apply_error \/ rollback_error \/ Kill \/ Die \/ Power
  PROVE  PTypeOK'
<1> USE DEF PTypeOK, Quiet, hostVars
<1>1. 1 \in 1..CurrentAt /\ faults' \in 0..MaxFaults
  BY UpdateAssumption
  DEF CurrentAt, apply_error, rollback_error, Kill, Die, Power, Fault
<1>2. CASE apply_error
  BY <1>1, <1>2 DEF apply_error, Pcs, Undoing
<1>3. CASE rollback_error
  BY <1>1, <1>3 DEF rollback_error, Pcs, Exit, Finish, States
<1>4. CASE Kill
  BY <1>1, <1>4 DEF Kill, Pcs, Exit
<1>5. CASE Die
  BY <1>1, <1>5, FallBackType, RecordType DEF Die, Pcs, Exit
<1>6. CASE Power
  BY <1>1, <1>6, StartType DEF Power, Pcs, Exit
<1> QED
  BY <1>2, <1>3, <1>4, <1>5, <1>6

LEMMA InitType == Init => PTypeOK
BY UpdateAssumption
DEF Init, PTypeOK, NotAsked, States, Versions, Dbs, Pcs, CurrentAt

LEMMA NextType == PTypeOK /\ Holder /\ [Next]_vars => PTypeOK'
<1> SUFFICES ASSUME PTypeOK, Holder, [Next]_vars PROVE PTypeOK'
  OBVIOUS
<1>1. CASE UNCHANGED vars
  BY <1>1 DEF PTypeOK, vars, hostVars, workVars
<1> QED
  BY <1>1, GatewayType, BootType, RecoverType, InstallType, ApplyType,
     RollbackType, FaultType
  DEF Next, Worker
-----------------------------------------------------------------------------
(* The invariant of the transaction.  Each lemma is one part of Next.      *)

(* A step that leaves the host, the transaction and the results alone.     *)
LEMMA Stutter ==
  ASSUME PInv, asked[journal.run]' = asked[journal.run], UNCHANGED <<results, hostVars, journal, pointer, workVars>>
  PROVE  PInv'
BY DEF PInv, HostIsWhole, ClosedIsServed, Holder, Saved, AtFirst, Copied,
       Restored, PointerInv, hostVars, workVars, Served, Whole, Old, New, Terminal, Busy

LEMMA GatewayInv ==
  ASSUME PTypeOK, PInv,
         (\E r \in Runs, q \in Requests : Submit(r, q)) \/ Change
           \/ (\E r \in Runs : fetch(r))
  PROVE  PInv'
<1>1. ASSUME NEW r \in Runs, NEW q \in Requests, Submit(r, q) PROVE PInv'
  <2>1. CASE journal = None
    BY <1>1, <2>1
    DEF PInv, HostIsWhole, ClosedIsServed, Holder, Saved, AtFirst, Copied,
       Restored, PointerInv, hostVars, workVars, Served, Whole, Old, New, Terminal, Busy, Submit, Undoing, Applying
  <2>2. CASE journal # None
    <3>1. journal.run # r /\ journal.run \in Runs
      BY <1>1, <2>2 DEF PInv, Saved, Submit, NotAsked, PTypeOK, Journals
    <3> QED
      BY <1>1, <3>1, Stutter DEF Submit, PTypeOK
  <2> QED
    BY <2>1, <2>2
<1>2. CASE Change
  BY <1>2
  DEF PTypeOK, Dbs, PInv, HostIsWhole, ClosedIsServed, Holder, Saved, AtFirst, Copied,
       Restored, PointerInv, hostVars, workVars, Served, Whole, Old, New, Terminal, Busy, Change, Undoing, Applying
<1>3. ASSUME NEW r \in Runs, fetch(r) PROVE PInv'
  BY <1>3, Stutter DEF fetch
<1> QED
  BY <1>1, <1>2, <1>3

(* What the boot program records does not close the transaction.           *)
LEMMA Recorded ==
  ASSUME PTypeOK, ClosedIsServed, record_failure, UNCHANGED <<hostVars, journal>>
  PROVE  ClosedIsServed'
<1>1. ASSUME journal # None
      PROVE  \/ results'[journal.run] = results[journal.run]
             \/ results'[journal.run] = "repair_required"
  BY <1>1 DEF record_failure, Finish, PTypeOK, Journals
<1> QED
  BY <1>1 DEF ClosedIsServed, hostVars, Served, Whole, Terminal

LEMMA FellBack == ASSUME PTypeOK, PointerInv, fall_back PROVE PointerInv'
BY DEF PTypeOK, PointerInv, fall_back

(* Between two turns of the worker only the transaction counts.            *)
LEMMA Idle ==
  ASSUME HostIsWhole', ClosedIsServed', Saved', PointerInv', at' = 1,
         pc' \in {"idle", "main"}
  PROVE  PInv'
BY DEF PInv, Holder, AtFirst, Copied, Restored, Busy, Applying, Undoing

LEMMA SameSaved ==
  ASSUME Saved, UNCHANGED <<asked, hostVars, journal>>
  PROVE  Saved'
BY DEF Saved, hostVars, Whole, Old, New

LEMMA BootInv == ASSUME PTypeOK, PInv, boot_main PROVE PInv'
<1>1. HostIsWhole' /\ Saved' /\ at' = 1
  BY SameSaved
  DEF PInv, HostIsWhole, Served, Whole, AtFirst, boot_main, hostVars, workVars, Quiet
<1>2. CASE fall_back /\ record_failure /\ UNCHANGED workVars
  BY <1>1, <1>2, Recorded, FellBack, Idle DEF PInv, boot_main, workVars
<1>3. CASE pc' = "main" /\ UNCHANGED <<run, at, pointer, results>>
  <2>1. ClosedIsServed' /\ PointerInv'
    BY <1>3 DEF PInv, ClosedIsServed, PointerInv, boot_main, hostVars, Served, Whole, Terminal
  <2> QED
    BY <1>1, <1>3, <2>1, Idle
<1> QED
  BY <1>2, <1>3 DEF boot_main

LEMMA RecoverInv == ASSUME PTypeOK, PInv, main_recover PROVE PInv'
<1>1. journal # None /\ journal \in Journals /\ PointerInv'
  BY DEF main_recover, recover, PTypeOK, PInv, PointerInv
<1>2. CASE Exit /\ UNCHANGED journal
  <2>1. HostIsWhole' /\ ClosedIsServed' /\ Saved'
    BY <1>2, SameSaved
    DEF PInv, HostIsWhole, ClosedIsServed, main_recover, hostVars, Served, Whole, Terminal, Quiet
  <2> QED
    BY <1>1, <1>2, <2>1, Idle DEF Exit
<1>3. CASE /\ results[journal.run] \notin {"none", "repair_required"}
           /\ Exit /\ journal' = None
  <2>1. Served
    BY <1>1, <1>3 DEF PInv, ClosedIsServed, Terminal
  <2>2. HostIsWhole' /\ ClosedIsServed' /\ Saved'
    BY <1>3, <2>1 DEF HostIsWhole, ClosedIsServed, Saved, main_recover, hostVars, Served, Whole
  <2> QED
    BY <1>1, <1>3, <2>2, Idle DEF Exit
<1>4. CASE /\ results[journal.run] = "none"
           /\ run' = journal.run /\ at' = 1 /\ UNCHANGED journal
           /\ pc' = IF journal.phase = "installing" THEN "undo_stop" ELSE "resume"
  <2>1. HostIsWhole' /\ ClosedIsServed' /\ Saved'
    BY <1>4, SameSaved
    DEF PInv, HostIsWhole, ClosedIsServed, main_recover, hostVars, Served, Whole, Terminal, Quiet
  <2>2. Holder'
    BY <1>1, <1>4 DEF Holder, Busy, Applying, Undoing, Terminal, Journals, main_recover
  <2>3. AtFirst' /\ Copied' /\ Restored'
    BY <1>4 DEF AtFirst, Copied, Restored
  <2> QED
    BY <1>1, <2>1, <2>2, <2>3 DEF PInv
<1> QED
  BY <1>2, <1>3, <1>4 DEF main_recover, recover

LEMMA InstallInv == ASSUME PTypeOK, PInv, main_install PROVE PInv'
<1>1. journal = None /\ Served /\ PInv
  BY DEF main_install, PInv, HostIsWhole
<1>2. CASE Exit /\ UNCHANGED <<journal, pointer>>
  <2>1. HostIsWhole' /\ ClosedIsServed' /\ Saved' /\ PointerInv'
    BY <1>1, <1>2
    DEF PInv, HostIsWhole, ClosedIsServed, Saved, PointerInv, main_install, hostVars,
        Served, Whole
  <2> QED
    BY <1>2, <2>1, Idle DEF Exit
<1>3. ASSUME NEW r \in Open, install_promote(r) PROVE PInv'
  <2>1. asked[r].version \in Releases
    BY <1>3 DEF install_promote, PTypeOK, Requests, NotAsked, Open
  <2>2. Ships[asked[r].version] \in Engines
    BY <2>1, UpdateAssumption
  <2>3. PointerInv'
    BY <1>1, <1>3, <2>2, UpdateAssumption
    DEF PInv, install_promote, promote_engine, Tag, PointerInv, PTypeOK
  <2>4. HostIsWhole' /\ ClosedIsServed' /\ Saved'
    BY <1>1, <1>3
    DEF HostIsWhole, ClosedIsServed, Saved, main_install, install_promote, hostVars,
        Served, Whole
  <2> QED
    BY <1>3, <2>3, <2>4, Idle DEF install_promote, Exit
<1>4. ASSUME NEW r \in Open, install_apply(r) PROVE PInv'
  <2>1. /\ journal' # None /\ journal'.run = r /\ journal'.phase = "stopping"
        /\ r \in Runs /\ ~Terminal(r)
    BY <1>4, NewJournal DEF install_apply, Open
  <2>2. HostIsWhole' /\ ClosedIsServed' /\ PointerInv'
    BY <1>1, <1>4, <2>1
    DEF PInv, HostIsWhole, ClosedIsServed, PointerInv, install_apply, Terminal
  <2>3. Holder'
    BY <1>4, <2>1 DEF install_apply, Holder, Busy, Applying, Undoing, Terminal
  <2>4. Saved'
    BY <1>1, <1>4, <2>1
    DEF Saved, Served, Whole, New, install_apply, is_newer, Tag, main_install, hostVars
  <2>5. AtFirst' /\ Copied' /\ Restored'
    BY <1>4 DEF install_apply, AtFirst, Copied, Restored
  <2> QED
    BY <2>2, <2>3, <2>4, <2>5 DEF PInv
<1> QED
  BY <1>2, <1>3, <1>4 DEF main_install, install_check, install_again, install_refused
(* Steps of apply.  The transaction is open and stays so.                  *)
LEMMA OpenTransaction ==
  ASSUME PTypeOK, Holder, pc \in Busy
  PROVE  /\ journal \in Journals /\ journal # None
         /\ run = journal.run /\ run \in Runs /\ results[run] = "none"
BY DEF PTypeOK, Holder, Journals, Terminal

LEMMA OpenStep ==
  ASSUME PTypeOK, PInv, pc \in Busy, journal' # None,
         journal'.run = journal.run, UNCHANGED <<results, pointer>>
  PROVE  HostIsWhole' /\ ClosedIsServed' /\ PointerInv'
BY OpenTransaction
DEF PInv, HostIsWhole, ClosedIsServed, PointerInv, Terminal

LEMMA OpenHolder ==
  ASSUME PTypeOK, Holder, pc \in Busy, pc' \in Busy,
         UNCHANGED <<run, journal, results>>,
         pc' \in {"stop", "backup", "resume"} => journal.phase = "stopping",
         pc' \in {"copy", "start", "check", "current", "finish"}
            \union (Undoing \ {"resume"}) => journal.phase = "installing"
  PROVE  Holder'
BY DEF Holder, Busy, Applying, Undoing, Terminal

(* The releases of a transaction are numbers, and the old one is older.    *)
LEMMA Ordered ==
  ASSUME PTypeOK, Holder, Saved, pc \in Busy
  PROVE  /\ New \in Nat /\ db.schema \in Nat /\ current \in Nat
         /\ journal.phase = "installing" => Old \in Nat /\ Old < New
<1>1. journal \in Journals /\ journal.saved \in Snapshots /\ New \in Versions
  BY OpenTransaction, AskedVersion DEF Journals, New
<1>2. Versions \subseteq Nat
  BY UpdateAssumption DEF Versions
<1> QED
  BY <1>1, <1>2, OpenTransaction DEF Snapshots, Old, Saved, PTypeOK, Dbs

(* The services that come up migrate the database to the release they are. *)
LEMMA Started ==
  ASSUME PTypeOK, NEW v \in Nat, files[1] = v, db.schema <= v, Start
  PROVE  running' /\ db'.schema <= v
BY DEF PTypeOK, Start, Dbs

LEMMA ApplyInv == ASSUME PTypeOK, PInv, Apply PROVE PInv'
<1> USE DEF Working, Goto, Quiet
<1>1. CASE apply_stop
  <2>1. pc = "stop" /\ pc \in Busy /\ journal.phase = "stopping"
    BY <1>1 DEF apply_stop, PInv, Holder, Busy, Applying
  <2>2. HostIsWhole' /\ ClosedIsServed' /\ PointerInv'
    BY <1>1, <2>1, OpenStep, OpenTransaction DEF apply_stop, PInv
  <2>3. Holder'
    BY <1>1, <2>1, OpenHolder DEF apply_stop, PInv, Busy, Applying, Undoing
  <2>4. Saved' /\ AtFirst' /\ Copied' /\ Restored'
    BY <1>1, <2>1
    DEF apply_stop, Stop, PInv, Saved, Whole, Old, New, AtFirst, Copied, Restored
  <2> QED
    BY <2>2, <2>3, <2>4 DEF PInv
<1>2. CASE apply_backup
  <2>1. pc = "backup" /\ pc \in Busy /\ journal.phase = "stopping"
    BY <1>2 DEF apply_backup, PInv, Holder, Busy, Applying
  <2>2. journal \in Journals
    BY <2>1, OpenTransaction DEF PInv
  <2>3. /\ journal'.run = journal.run /\ journal'.phase = "installing"
        /\ journal'.saved = [files |-> files, db |-> db, current |-> current]
        /\ journal' # None
    <3>1. [files |-> files, db |-> db, current |-> current] \in Snapshots
      BY DEF Snapshots, PTypeOK
    <3> QED
      BY <1>2, <2>2, <3>1, NoneAssumption DEF apply_backup, Journals
  <2>4. HostIsWhole' /\ ClosedIsServed' /\ PointerInv'
    BY <1>2, <2>1, <2>3, OpenStep DEF apply_backup
  <2>5. Holder'
    BY <1>2, <2>1, <2>3
    DEF apply_backup, PInv, Holder, Busy, Applying, Undoing, Terminal
  <2>6. Saved' /\ Whole(current) /\ db.schema <= current /\ current < New
    <3>1. journal # None /\ Saved
      BY <2>1, OpenTransaction DEF PInv
    <3> QED
      BY <1>2, <2>1, <2>3, <3>1 DEF apply_backup, hostVars, Saved, Whole, Old, New
  <2>7. AtFirst' /\ Copied' /\ Restored'
    <3>1. at' = 1 /\ pc' = "copy"
      BY <1>2, <2>1 DEF apply_backup, PInv, AtFirst
    <3>2. \A f \in Files : ~(f < at')
      BY <3>1 DEF Files
    <3>3. New' = New /\ db' = db
      BY <1>2, <2>3 DEF apply_backup, hostVars, New
    <3>4. db.schema <= New
      BY <2>1, <2>6, Ordered DEF PInv
    <3> QED
      BY <3>1, <3>2, <3>3, <3>4 DEF AtFirst, Copied, Restored
  <2> QED
    BY <2>4, <2>5, <2>6, <2>7 DEF PInv
<1>3. CASE apply_copy
  <2>1. pc = "copy" /\ pc \in Busy /\ journal.phase = "installing"
    BY <1>3 DEF apply_copy, PInv, Holder, Busy, Applying
  <2>2. HostIsWhole' /\ ClosedIsServed' /\ PointerInv'
    BY <1>3, <2>1, OpenStep, OpenTransaction DEF apply_copy, PInv
  <2>3. Holder'
    BY <1>3, <2>1, OpenHolder DEF apply_copy, PInv, Busy, Applying, Undoing
  <2>4. Saved' /\ New' = New /\ run = journal.run
    BY <1>3, <2>1, OpenTransaction DEF apply_copy, PInv, Saved, Old, New
  <2>5. files' = [files EXCEPT ![at] = New] /\ db' = db /\ db.schema <= New
    BY <1>3, <2>1, <2>4 DEF apply_copy, New, PInv, Copied
  <2>6. \A f \in Files : f <= at => files'[f] = New
    <3>1. ASSUME NEW f \in Files, f <= at PROVE files'[f] = New
      <4>1. CASE f = at
        BY <2>5, <4>1 DEF PTypeOK
      <4>2. CASE f < at
        BY <2>1, <2>5, <4>2 DEF PInv, Copied, PTypeOK
      <4> QED
        BY <3>1, <4>1, <4>2 DEF PTypeOK, Files
    <3> QED
      BY <3>1
  <2>7. CASE at < NFiles
    <3>1. at' = at + 1 /\ pc' = "copy"
      BY <1>3, <2>1, <2>7 DEF apply_copy
    <3>2. \A f \in Files : f < at' => files'[f] = New'
      BY <2>4, <2>6, <3>1 DEF Files, PTypeOK
    <3>3. AtFirst' /\ Copied' /\ Restored'
      BY <2>4, <2>5, <3>1, <3>2 DEF AtFirst, Copied, Restored
    <3> QED
      BY <2>2, <2>3, <2>4, <3>3 DEF PInv
  <2>8. CASE ~(at < NFiles)
    <3>1. \A f \in Files : f <= at
      BY <2>8, UpdateAssumption DEF Files, PTypeOK, CurrentAt
    <3>2. files' = [f \in Files |-> files'[f]]
      BY <2>5 DEF PTypeOK
    <3>3. files' = [f \in Files |-> New]
      BY <2>6, <3>1, <3>2
    <3>4. AtFirst' /\ Copied' /\ Restored'
      BY <1>3, <2>4, <2>5, <2>8, <3>3 DEF apply_copy, AtFirst, Copied, Restored
    <3> QED
      BY <2>2, <2>3, <2>4, <3>4 DEF PInv
  <2> QED
    BY <2>7, <2>8
<1>4. CASE apply_start
  <2>1. pc = "start" /\ pc \in Busy /\ journal.phase = "installing"
    BY <1>4 DEF apply_start, PInv, Holder, Busy, Applying
  <2>2. HostIsWhole' /\ ClosedIsServed' /\ PointerInv'
    BY <1>4, <2>1, OpenStep, OpenTransaction DEF apply_start, PInv
  <2>3. Holder'
    BY <1>4, <2>1, OpenHolder DEF apply_start, PInv, Busy, Applying, Undoing
  <2>4. Saved' /\ New' = New
    BY <1>4, <2>1 DEF apply_start, PInv, Saved, Old, New
  <2>5. files' = [f \in Files |-> New] /\ db'.schema <= New /\ running'
    <3>1. New \in Nat /\ files[1] = New /\ db.schema <= New
      BY <2>1, Ordered, UpdateAssumption DEF PInv, Copied, Files
    <3> QED
      BY <1>4, <2>1, <3>1, Started DEF apply_start, PInv, Copied
  <2>6. AtFirst' /\ Copied' /\ Restored'
    BY <1>4, <2>1, <2>4, <2>5 DEF apply_start, PInv, AtFirst, Copied, Restored
  <2> QED
    BY <2>2, <2>3, <2>4, <2>6 DEF PInv
<1>5. CASE apply_check
  <2>1. pc = "check" /\ pc \in Busy /\ journal.phase = "installing"
    BY <1>5 DEF apply_check, PInv, Holder, Busy, Applying
  <2>2. HostIsWhole' /\ ClosedIsServed' /\ PointerInv'
    BY <1>5, <2>1, OpenStep, OpenTransaction DEF apply_check, PInv
  <2>3. Holder'
    BY <1>5, <2>1, OpenHolder DEF apply_check, PInv, Busy, Applying, Undoing
  <2>4. Saved' /\ AtFirst' /\ Copied' /\ Restored'
    BY <1>5, <2>1
    DEF apply_check, hostVars, PInv, Saved, Old, New, AtFirst, Copied, Restored
  <2> QED
    BY <2>2, <2>3, <2>4 DEF PInv
<1>6. CASE apply_current
  <2>1. pc = "current" /\ pc \in Busy /\ journal.phase = "installing"
    BY <1>6 DEF apply_current, PInv, Holder, Busy, Applying
  <2>2. HostIsWhole' /\ ClosedIsServed' /\ PointerInv'
    BY <1>6, <2>1, OpenStep, OpenTransaction DEF apply_current, PInv
  <2>3. Holder'
    BY <1>6, <2>1, OpenHolder DEF apply_current, PInv, Busy, Applying, Undoing
  <2>4. Saved' /\ AtFirst' /\ Restored' /\ current' = New /\ New' = New
    BY <1>6, <2>1, OpenTransaction
    DEF apply_current, PInv, Saved, Old, New, AtFirst, Restored
  <2>5. Copied'
    BY <1>6, <2>1, <2>4 DEF apply_current, PInv, Copied
  <2> QED
    BY <2>2, <2>3, <2>4, <2>5 DEF PInv
<1>7. CASE apply_finish
  <2>1. pc = "finish" /\ pc \in Busy
    BY <1>7 DEF apply_finish, Busy, Applying
  <2>2. journal # None /\ run = journal.run /\ run \in Runs
    BY <2>1, OpenTransaction DEF PInv
  <2>3. results'[run] = "success"
    BY <1>7, <2>2 DEF apply_finish, Finish, PTypeOK
  <2>4. Served /\ Served' /\ Saved' /\ PointerInv'
    BY <1>7, <2>1, SameSaved
    DEF apply_finish, hostVars, PInv, Copied, Served, Whole, PointerInv
  <2> QED
    BY <1>7, <2>1, <2>2, <2>3, <2>4
    DEF apply_finish, hostVars, PInv, HostIsWhole, ClosedIsServed, Holder, AtFirst,
        Copied, Restored, Busy, Applying, Undoing, Terminal
<1>8. CASE unlink
  <2>1. Served /\ at' = 1
    BY <1>8 DEF unlink, PInv, Holder, ClosedIsServed, Exit
  <2>2. HostIsWhole' /\ ClosedIsServed' /\ Saved' /\ PointerInv'
    BY <1>8, <2>1
    DEF unlink, PInv, HostIsWhole, ClosedIsServed, Saved, hostVars, Served, Whole, PointerInv
  <2> QED
    BY <1>8, <2>1, <2>2, Idle DEF unlink, Exit
<1> QED
  BY <1>1, <1>2, <1>3, <1>4, <1>5, <1>6, <1>7, <1>8 DEF Apply
-----------------------------------------------------------------------------
(* Steps of the rollback.                                                  *)

LEMMA ResumeInv == ASSUME PTypeOK, PInv, resume PROVE PInv'
<1> USE DEF Working, Goto, Quiet
<1>1. pc = "resume" /\ pc \in Busy /\ journal.phase = "stopping" /\ journal # None
  BY DEF resume, PInv, Holder, Busy, Undoing
<1>2. HostIsWhole' /\ ClosedIsServed' /\ PointerInv'
  BY <1>1, OpenStep DEF resume
<1>3. Holder'
  BY <1>1, OpenHolder DEF resume, PInv, Busy, Applying, Undoing
<1>4. Whole(current) /\ db.schema <= current /\ current < New /\ current \in Nat
  BY <1>1, Ordered DEF PInv, Saved
<1>5. files[1] = current
  BY <1>4, UpdateAssumption DEF Whole, Files
<1>6. Served' /\ New' = New /\ current' = current
  BY <1>4, <1>5, Started DEF resume, Served, Whole, New
<1>7. Saved' /\ AtFirst' /\ Copied' /\ Restored'
  BY <1>1, <1>4, <1>6
  DEF resume, PInv, Saved, Served, Whole, Old, New, AtFirst, Copied, Restored
<1> QED
  BY <1>2, <1>3, <1>7 DEF PInv

LEMMA RollbackStopInv == ASSUME PTypeOK, PInv, rollback_stop PROVE PInv'
<1> USE DEF Working, Goto, Quiet
<1>1. pc = "undo_stop" /\ pc \in Busy /\ journal.phase = "installing" /\ journal # None
  BY DEF rollback_stop, PInv, Holder, Busy, Undoing
<1>2. HostIsWhole' /\ ClosedIsServed' /\ PointerInv'
  BY <1>1, OpenStep DEF rollback_stop
<1>3. Holder'
  BY <1>1, OpenHolder DEF rollback_stop, PInv, Busy, Applying, Undoing
<1>4. at' = 1 /\ \A f \in Files : ~(f < 1)
  BY <1>1 DEF rollback_stop, PInv, AtFirst, Files
<1>5. ~(at' > DbAt)
  BY <1>4, UpdateAssumption DEF DbAt
<1>6. Saved' /\ AtFirst' /\ Copied' /\ Restored'
  BY <1>1, <1>4, <1>5
  DEF rollback_stop, Stop, PInv, Saved, Old, New, AtFirst, Copied, Restored
<1> QED
  BY <1>2, <1>3, <1>6 DEF PInv

LEMMA RollbackCopyInv == ASSUME PTypeOK, PInv, rollback_copy PROVE PInv'
<1> USE DEF Working, Goto, Quiet
<1>1. pc = "undo" /\ pc \in Busy /\ journal.phase = "installing" /\ journal # None
  BY DEF rollback_copy, PInv, Holder, Busy, Undoing
<1>2. HostIsWhole' /\ ClosedIsServed' /\ PointerInv'
  BY <1>1, OpenStep DEF rollback_copy
<1>3. Holder'
  BY <1>1, OpenHolder DEF rollback_copy, PInv, Busy, Applying, Undoing
<1>4. /\ journal.saved.files = [f \in Files |-> Old]
      /\ journal.saved.db.schema <= Old /\ Old < New
      /\ journal.saved.current = Old /\ Old' = Old /\ New' = New
  BY <1>1 DEF PInv, Saved, Old, New, rollback_copy
<1>5. Saved'
  BY <1>1, <1>4 DEF PInv, Saved, rollback_copy
<1>6. \A f \in Files : f <= at => files'[f] = Old
  <2>1. ASSUME NEW f \in Files, f <= at PROVE files'[f] = Old
    <3>1. CASE f = at
      BY <1>4, <3>1 DEF PTypeOK, rollback_copy
    <3>2. CASE f < at
      BY <1>1, <1>4, <3>2 DEF PInv, Restored, PTypeOK, rollback_copy
    <3> QED
      BY <2>1, <3>1, <3>2 DEF PTypeOK, Files
  <2> QED
    BY <2>1
<1>7. at >= DbAt => db'.schema <= Old
  <2>1. CASE at = DbAt
    BY <1>4, <2>1 DEF rollback_copy
  <2>2. CASE at > DbAt
    <3>1. db' = db /\ db.schema <= Old
      BY <1>1, <2>2, UpdateAssumption DEF PInv, Restored, rollback_copy, DbAt, PTypeOK
    <3> QED
      BY <3>1
  <2> QED
    BY <2>1, <2>2, UpdateAssumption DEF PTypeOK, DbAt
<1>8. CASE at < CurrentAt
  <2>1. at' = at + 1 /\ pc' = "undo"
    BY <1>1, <1>8 DEF rollback_copy
  <2>2. \A f \in Files : f < at' => files'[f] = Old'
    BY <1>4, <1>6, <2>1 DEF PTypeOK, Files
  <2>3. at' > DbAt => db'.schema <= Old'
    BY <1>4, <1>7, <2>1, UpdateAssumption DEF PTypeOK, DbAt
  <2>4. AtFirst' /\ Copied' /\ Restored'
    BY <2>1, <2>2, <2>3 DEF AtFirst, Copied, Restored
  <2> QED
    BY <1>2, <1>3, <1>5, <2>4 DEF PInv
<1>9. CASE at = CurrentAt
  <2>1. at' = 1 /\ pc' = "undo_start"
    BY <1>9, UpdateAssumption DEF rollback_copy, CurrentAt
  <2>2. \A f \in Files : f <= at
    BY <1>9, UpdateAssumption DEF Files, CurrentAt
  <2>3. files' = [f \in Files |-> files'[f]]
    BY DEF PTypeOK, rollback_copy
  <2>4. files' = [f \in Files |-> Old] /\ current' = Old
    BY <1>4, <1>6, <1>9, <2>2, <2>3 DEF rollback_copy
  <2>5. db'.schema <= Old
    BY <1>7, <1>9, UpdateAssumption DEF CurrentAt, DbAt
  <2>6. AtFirst' /\ Copied' /\ Restored'
    BY <1>4, <2>1, <2>4, <2>5 DEF AtFirst, Copied, Restored, Whole
  <2> QED
    BY <1>2, <1>3, <1>5, <2>6 DEF PInv
<1> QED
  BY <1>8, <1>9, UpdateAssumption DEF PTypeOK, CurrentAt

LEMMA RollbackStartInv == ASSUME PTypeOK, PInv, rollback_start PROVE PInv'
<1> USE DEF Working, Goto, Quiet
<1>1. pc = "undo_start" /\ pc \in Busy /\ journal.phase = "installing" /\ journal # None
  BY DEF rollback_start, PInv, Holder, Busy, Undoing
<1>2. HostIsWhole' /\ ClosedIsServed' /\ PointerInv'
  BY <1>1, OpenStep DEF rollback_start
<1>3. Holder'
  BY <1>1, OpenHolder DEF rollback_start, PInv, Busy, Applying, Undoing
<1>4. Old \in Nat /\ files[1] = Old /\ db.schema <= Old /\ Whole(Old)
  BY <1>1, Ordered, UpdateAssumption DEF PInv, Restored, Whole, Files
<1>5. running' /\ db'.schema <= Old
  BY <1>4, Started DEF rollback_start
<1>6. Saved' /\ AtFirst' /\ Copied' /\ Restored'
  BY <1>1, <1>4, <1>5
  DEF rollback_start, PInv, Saved, Whole, Old, New, AtFirst, Copied, Restored
<1> QED
  BY <1>2, <1>3, <1>6 DEF PInv

LEMMA RollbackCheckInv == ASSUME PTypeOK, PInv, rollback_check PROVE PInv'
<1> USE DEF Working, Goto, Quiet
<1>1. pc = "undo_check" /\ pc \in Busy /\ journal.phase = "installing"
  BY DEF rollback_check, PInv, Holder, Busy, Undoing
<1>2. journal # None /\ run = journal.run /\ run \in Runs
  BY <1>1, OpenTransaction DEF PInv
<1>3. Saved'
  BY <1>2, SameSaved DEF rollback_check, PInv
<1>4. CASE Goto("rolled_back") /\ UNCHANGED results
  <2>1. HostIsWhole' /\ ClosedIsServed' /\ PointerInv'
    BY <1>1, <1>2, <1>4, OpenStep DEF rollback_check
  <2>2. Holder'
    BY <1>1, <1>4, OpenHolder DEF rollback_check, PInv, Busy, Applying, Undoing
  <2>3. Served /\ current < New
    BY <1>1, Ordered DEF PInv, Restored, Served, Whole
  <2>4. AtFirst' /\ Copied' /\ Restored'
    BY <1>1, <1>4, <2>3
    DEF rollback_check, hostVars, PInv, AtFirst, Copied, Restored, Served, Whole, New
  <2> QED
    BY <1>3, <2>1, <2>2, <2>4 DEF PInv
<1>5. CASE Finish(run, "repair_required") /\ Exit
  BY <1>2, <1>3, <1>5, Idle
  DEF rollback_check, PInv, HostIsWhole, ClosedIsServed, PointerInv, Finish, Exit, PTypeOK
<1> QED
  BY <1>4, <1>5 DEF rollback_check

LEMMA RolledBackInv == ASSUME PTypeOK, PInv, rolled_back PROVE PInv'
<1> USE DEF Working, Goto, Quiet
<1>1. pc = "rolled_back" /\ pc \in Busy
  BY DEF rolled_back, Busy
<1>2. journal # None /\ run = journal.run /\ run \in Runs
  BY <1>1, OpenTransaction DEF PInv
<1>3. results'[run] = "rolled_back"
  BY <1>2 DEF rolled_back, Finish, PTypeOK
<1>4. Served' /\ Saved' /\ PointerInv'
  BY <1>1, SameSaved
  DEF rolled_back, hostVars, PInv, Restored, Served, Whole, PointerInv
<1> QED
  BY <1>1, <1>2, <1>3, <1>4
  DEF rolled_back, hostVars, PInv, HostIsWhole, ClosedIsServed, Holder, AtFirst,
      Copied, Restored, Busy, Applying, Undoing, Terminal
-----------------------------------------------------------------------------
(* Faults.                                                                 *)

LEMMA ApplyErrorInv == ASSUME PTypeOK, PInv, apply_error PROVE PInv'
<1> USE DEF Quiet
<1>1. pc \in Applying /\ pc \in Busy /\ journal # None /\ journal \in Journals
  BY OpenTransaction DEF apply_error, PInv, Busy
<1>2. HostIsWhole' /\ ClosedIsServed' /\ PointerInv'
  BY <1>1, OpenStep DEF apply_error
<1>3. Holder'
  BY <1>1, OpenHolder DEF apply_error, PInv, Busy, Applying, Undoing, Journals
<1>4. Saved'
  BY SameSaved DEF apply_error, PInv
<1>5. AtFirst' /\ Copied' /\ Restored'
  BY DEF apply_error, AtFirst, Copied, Restored
<1> QED
  BY <1>2, <1>3, <1>4, <1>5 DEF PInv

LEMMA RollbackErrorInv == ASSUME PTypeOK, PInv, rollback_error PROVE PInv'
<1>1. pc \in Busy
  BY DEF rollback_error, Busy
<1>2. journal # None /\ run = journal.run /\ run \in Runs
  BY <1>1, OpenTransaction DEF PInv
<1>3. Saved'
  BY SameSaved DEF rollback_error, Quiet, PInv
<1> QED
  BY <1>2, <1>3, Idle
  DEF rollback_error, PInv, HostIsWhole, ClosedIsServed, PointerInv, Finish, Exit, PTypeOK

LEMMA KillInv == ASSUME PTypeOK, PInv, Kill PROVE PInv'
<1>1. Saved'
  BY SameSaved DEF Kill, Quiet, PInv
<1>2. HostIsWhole' /\ ClosedIsServed' /\ PointerInv'
  BY DEF Kill, PInv, HostIsWhole, ClosedIsServed, PointerInv, hostVars, Served, Whole, Terminal
<1> QED
  BY <1>1, <1>2, Idle DEF Kill, Exit

LEMMA DieInv == ASSUME PTypeOK, PInv, Die PROVE PInv'
<1>1. Saved' /\ HostIsWhole'
  BY SameSaved DEF Die, Quiet, PInv, HostIsWhole, hostVars, Served, Whole
<1>2. ClosedIsServed' /\ PointerInv'
  BY Recorded, FellBack DEF Die, PInv
<1> QED
  BY <1>1, <1>2, Idle DEF Die, Exit

(* A host that is served comes up as it was.                               *)
LEMMA PowerInv == ASSUME PTypeOK, PInv, Power PROVE PInv'
<1>1. ASSUME Whole(current), db.schema <= current
      PROVE  Served'
  <2>1. current \in Nat /\ files[1] = current
    BY <1>1, UpdateAssumption DEF Whole, Files, PTypeOK, Versions
  <2> QED
    BY <1>1, <2>1, Started DEF Power, Served, Whole
<1>2. HostIsWhole' /\ ClosedIsServed' /\ PointerInv'
  BY <1>1 DEF Power, PInv, HostIsWhole, ClosedIsServed, PointerInv, Served, Terminal
<1>3. Saved'
  BY <1>1 DEF Power, Quiet, PInv, Saved, Served, Whole, Old, New
<1> QED
  BY <1>2, <1>3, Idle DEF Power, Exit
-----------------------------------------------------------------------------
LEMMA InitInv == Init => PInv
BY UpdateAssumption
DEF Init, PInv, HostIsWhole, ClosedIsServed, Holder, Saved, AtFirst, Copied, Restored,
    PointerInv, Served, Whole, Busy, Applying, Undoing

LEMMA NextInv == PTypeOK /\ PInv /\ [Next]_vars => PInv'
<1> SUFFICES ASSUME PTypeOK, PInv, [Next]_vars PROVE PInv'
  OBVIOUS
<1>1. CASE UNCHANGED vars
  BY <1>1, Stutter DEF vars
<1> QED
  BY <1>1, GatewayInv, BootInv, RecoverInv, InstallInv, ApplyInv, ResumeInv,
     RollbackStopInv, RollbackCopyInv, RollbackStartInv, RollbackCheckInv,
     RolledBackInv, ApplyErrorInv, RollbackErrorInv, KillInv, DieInv, PowerInv
  DEF Next, Worker, Rollback

(* The transaction's invariant: in every state reached, whatever failed,   *)
(* was killed or lost power before it.                                     *)
THEOREM PInductive == Spec => [](PTypeOK /\ PInv)
<1>1. Init => PTypeOK /\ PInv
  BY InitType, InitInv
<1>2. PTypeOK /\ PInv /\ [Next]_vars => PTypeOK' /\ PInv'
  BY NextType, NextInv DEF PInv
<1> QED
  BY <1>1, <1>2, PTL DEF Spec

(* Types (project_update.py and its files).                                *)
THEOREM PTypeCorrect == Spec => []PTypeOK
BY PInductive, PTL

(* apply, rollback and recover: without a journal the host is one release, *)
(* complete and served.                                                    *)
THEOREM AlwaysWhole == Spec => []HostIsWhole
<1>1. PInv => HostIsWhole
  BY DEF PInv
<1> QED
  BY <1>1, PInductive, PTL

(* finish after apply and rollback: what a result says is what the host    *)
(* runs when it is written.                                                *)
Told(r) == /\ results'[r] = "success" => Whole(asked[r].version)' /\ running'
           /\ results'[r] = "rolled_back" =>
                Whole(current)' /\ current' < asked[r].version /\ running'

LEMMA Tells ==
  ASSUME PTypeOK, PInv, [Next]_vars, NEW r \in Runs,
         asked[r].action = "apply", results'[r] # results[r]
  PROVE  Told(r)
<1>1. CASE main_install
  <2>1. journal = None /\ Served
    BY <1>1 DEF main_install, PInv, HostIsWhole
  <2>2. CASE UNCHANGED results
    BY <2>2
  <2>3. ASSUME NEW s \in Open, ready[s] = "ok", install_check(s) \/ install_again(s)
        PROVE  Told(r)
    <3>1. s = r
      BY <2>3 DEF install_check, install_again, Finish, PTypeOK, Open
    <3>2. results'[r] = "success" /\ asked[r].version = current
      BY <2>3, <3>1 DEF install_check, install_again, Finish, PTypeOK, Tag
    <3> QED
      BY <1>1, <2>1, <3>2 DEF main_install, hostVars, Told, Served, Whole
  <2>4. ASSUME NEW s \in Open, install_refused(s) PROVE Told(r)
    <3>1. results'[r] = "failed"
      BY <2>4 DEF install_refused, Finish, PTypeOK, Open
    <3> QED
      BY <3>1 DEF Told
  <2> QED
    BY <1>1, <2>2, <2>3, <2>4 DEF main_install, install_promote, install_apply
<1>2. CASE boot_main \/ Die
  <2>1. results'[r] \in {"repair_required", "failed"}
    BY <1>2 DEF boot_main, Die, record_failure, Finish, PTypeOK
  <2> QED
    BY <2>1 DEF Told
<1>3. CASE apply_finish
  <2>1. run = r /\ results'[r] = "success" /\ pc \in Busy /\ run \in Runs
    BY <1>3 DEF apply_finish, Finish, PTypeOK, Busy, Applying, Working
  <2>2. Whole(asked[r].version) /\ running
    BY <1>3, <2>1, OpenTransaction
    DEF apply_finish, Working, PInv, Copied, Whole, New
  <2> QED
    BY <1>3, <2>1, <2>2 DEF apply_finish, Working, Quiet, hostVars, Told, Whole
<1>4. CASE rolled_back
  <2>1. run = r /\ results'[r] = "rolled_back" /\ pc \in Busy /\ run \in Runs
    BY <1>4 DEF rolled_back, Finish, PTypeOK, Busy, Working
  <2>2. Whole(current) /\ current < asked[r].version /\ running
    BY <1>4, <2>1, OpenTransaction
    DEF rolled_back, Working, PInv, Restored, Served, New
  <2> QED
    BY <1>4, <2>1, <2>2 DEF rolled_back, Working, Quiet, hostVars, Told, Whole
<1>5. CASE rollback_check \/ rollback_error
  <2>1. results'[r] = "repair_required"
    BY <1>5 DEF rollback_check, rollback_error, Finish, PTypeOK
  <2> QED
    BY <2>1 DEF Told
<1>6. CASE UNCHANGED results
  BY <1>6
<1> QED
  BY <1>1, <1>2, <1>3, <1>4, <1>5, <1>6
  DEF vars, Next, Worker, Apply, Rollback, Submit, Change, fetch, main_recover,
      apply_stop, apply_backup, apply_copy, apply_start, apply_check, apply_current,
      unlink, resume, rollback_stop, rollback_copy, rollback_start, apply_error,
      Kill, Power

(* What an apply is told is what the host runs, in all its files, when the *)
(* result is written.                                                      *)
THEOREM Outcome == Spec => OutcomeIsServed
<1>1. PTypeOK /\ PInv /\ [Next]_vars =>
        [\A r \in Runs : asked[r].action = "apply" /\ results'[r] # results[r] =>
           /\ results'[r] = "success" => Whole(asked[r].version)' /\ running'
           /\ results'[r] = "rolled_back" =>
                Whole(current)' /\ current' < asked[r].version /\ running']_vars
  BY Tells DEF Told
<1> QED
  BY <1>1, PInductive, PTL DEF Spec, OutcomeIsServed

(* fall_back and promote_engine: the engine that failed stays out.         *)
LEMMA KeepsOut ==
  ASSUME PTypeOK, PInv, [Next]_vars, pointer.failed # None
  PROVE  pointer'.current # pointer.failed
<1>1. CASE UNCHANGED pointer
  BY <1>1 DEF PInv, PointerInv
<1>2. CASE fall_back
  BY <1>2 DEF fall_back, PInv, PointerInv
<1>3. CASE \E r \in Open : promote_engine(Tag(r))
  BY <1>3 DEF promote_engine, PInv, PointerInv
<1> QED
  BY <1>1, <1>2, <1>3
  DEF vars, Next, Worker, Apply, Rollback, Submit, Change, fetch, main_recover,
      boot_main, main_install, install_check, install_again, install_promote,
      install_apply, install_refused, Working,
      apply_stop, apply_backup, apply_copy, apply_start, apply_check, apply_current,
      apply_finish, unlink, resume, rollback_stop, rollback_copy, rollback_start,
      rollback_check, rolled_back, apply_error, rollback_error, Kill, Die, Power

(* The boot program never makes the engine that failed the current one:    *)
(* each step keeps current apart from previous and failed.                 *)
THEOREM FailedOut == Spec => FailedEngineStaysOut
<1>1. PTypeOK /\ PInv /\ [Next]_vars =>
        [pointer.failed # None => pointer'.current # pointer.failed]_vars
  BY KeepsOut
<1> QED
  BY <1>1, PInductive, PTL DEF Spec, FailedEngineStaysOut
=============================================================================
