------------------------------ MODULE NodePool ------------------------------
(***************************************************************************)
(* The pool of candidates (vpngate_manager.py, node_pool.py): nodes.json   *)
(* and blacklist.json, the collector that scans the catalog, the scans     *)
(* asked for when a node fails, the refresh of one country or of all, and  *)
(* what marks a candidate as failed meanwhile.  A scan works on what it    *)
(* has read at its start and writes both files at its end.                 *)
(***************************************************************************)
EXTENDS Integers, FiniteSets

CONSTANTS Nodes, Countries, CountryOf(_), None,
          Rank(_, _),  \* the place of a node by "quality" (residential first, then
                       \* latency, score), by "id" or by "country" code
          Catalogs,    \* what the catalog may list
          Target, Max, \* TARGET_VALID_POOL_SIZE, MAX_VALID_POOL_SIZE
          MaxEvents    \* bound on what the environment does

VARIABLES pool,      \* nodes.json: status of the node or "none"
          black,     \* blacklist.json: the entries that still cool down
          used,      \* main, slots, pins, standbys, reservations
          manual,    \* manualProtectedIds of the next round of maintenance
          refresh,   \* country_refresh_state: state and country
          requested, \* country_refresh_requested
          priority,  \* main_assignment_requested, or a standby ready for main
          resume,    \* pool_resume_requested
          lease,     \* mutation_lock and main_recovery_lock
          maint,     \* maintenance_lock
          pc,        \* where the threads are
          scan,      \* what the scan in progress has read and found
          clearing,  \* a queued worker has its finally still to run
          events

poolVars == <<pool, black, used, manual>>
lockVars == <<lease, maint>>
vars == <<poolVars, refresh, requested, priority, resume, lockVars, pc, scan,
          clearing, events>>

Threads == {"collector", "worker", "refresher"}
Scopes == Countries \union {"ALL"}
Status == {"none", "available", "unavailable"}

(* read_nodes leaves out what is on the blacklist.                         *)
read_nodes == [n \in Nodes |-> IF n \in black THEN "none" ELSE pool[n]]
Listed(p) == {n \in Nodes : p[n] # "none"}
Available(p) == {n \in Nodes : p[n] = "available"}
Of(c) == {n \in Nodes : CountryOf(n) = c}

Scans == [of : Scopes \union {None}, old : [Nodes -> Status],
          black : SUBSET Nodes, queue : SUBSET Nodes, found : SUBSET Nodes,
          passed : SUBSET Nodes, failed : SUBSET Nodes, prot : SUBSET Nodes]

NoScan == [of |-> None, old |-> [n \in Nodes |-> "none"], black |-> {},
           queue |-> {}, found |-> {}, passed |-> {}, failed |-> {}, prot |-> {}]

Init ==  \* main: prune_stored_unavailable_nodes
  /\ pool \in [Nodes -> {"none", "available"}] /\ Cardinality(Listed(pool)) <= Max
  /\ black = {} /\ used = {} /\ manual = {}
  /\ refresh = [st |-> "idle", of |-> None]
  /\ requested = FALSE /\ priority = FALSE /\ resume = FALSE
  /\ lease = None /\ maint = None
  /\ pc = [t \in Threads |-> IF t = "collector" THEN "begin" ELSE "idle"]
  /\ scan = NoScan /\ clearing = FALSE /\ events = 0

Goto(t, at) == pc' = [pc EXCEPT ![t] = at]
At(t, at) == pc[t] = at
Event == events < MaxEvents /\ events' = events + 1
-----------------------------------------------------------------------------
(* rebalance_valid_pool                                                    *)

Orders == {"quality", "id", "country"}

(* T are the first k of S when S is sorted.                                *)
First(T, S, k, by) ==
  /\ Cardinality(T) = IF Cardinality(S) < k THEN Cardinality(S) ELSE k
  /\ \A t \in T, s \in S \ T : Rank(t, by) < Rank(s, by)

ASSUME PoolAssumption ==
  /\ IsFiniteSet(Nodes) /\ Catalogs \subseteq SUBSET Nodes
  /\ \A n \in Nodes : CountryOf(n) \in Countries
  /\ "ALL" \notin Countries
  /\ None \notin Scopes \union Threads \union {"other"}
  /\ Max \in Nat \ {0} /\ Target \in 0..Max
  /\ \A S \in SUBSET Nodes, k \in 0..Max, by \in Orders :   \* any set can be sorted
       \E T \in SUBSET S : First(T, S, k, by)

(* In both, the union over one set has TLC evaluate the argument once.     *)
Best(S, k, by) ==
  UNION {CHOOSE T \in SUBSET X : First(T, X, k, by) : X \in {S}}

add(selected, S, limit, by) ==
  UNION {X \union Best(S \ X, limit - Cardinality(X), by) : X \in {selected}}

(* The best node of a country, of those that were in the pool if any.      *)
Cover(c, avail, old) ==
  LET all == avail \intersect Of(c) IN
  Best(IF all \intersect old # {} THEN all \intersect old ELSE all, 1, "quality")

\* mutant: the places left are given by quality alone
rebalance_by_quality(old, avail, prot, asked, limit) ==
  LET kept == add(add({}, prot, limit, "id"), asked \intersect avail, limit, "id")
  IN  add(add(kept, avail \intersect old, limit, "quality"), avail, limit, "quality")

\* mutant: the limit holds for the nodes added last only
rebalance_all(old, avail, prot, asked, limit) ==
  LET kept == prot \union (asked \intersect avail) \union (avail \intersect old)
  IN  IF Cardinality(kept) > limit THEN kept ELSE add(kept, avail, limit, "quality")

(* Nodes in use, nodes the administrator has asked for, one node of every  *)
(* country (those of the pool first), the rest of the pool, the new ones.  *)
rebalance_valid_pool(old, avail, prot, asked, limit) ==
  LET kept == add(add({}, prot, limit, "id"), asked \intersect avail, limit, "id")
      Open == {c \in Countries : kept \intersect Of(c) = {}}
      Seen == {c \in Open : avail \intersect old \intersect Of(c) # {}}
      Covers(C) == UNION {Cover(c, avail, old) : c \in C}
      wide == add(add(kept, Covers(Seen), limit, "country"),
                  Covers(Open \ Seen), limit, "country")
  IN  add(add(wide, avail \intersect old, limit, "quality"), avail, limit, "quality")
-----------------------------------------------------------------------------
(* The lease and the start of a scan                                       *)

(* _acquire_runtime_mutation: nothing but the refresh itself changes       *)
(* anything while a refresh is on.                                         *)
MayChange(t) == lease = None /\ (refresh.st = "running" => t = "refresher")

Scanning(t) == pc[t] \in {"fetch", "probe", "probed"}

(* pool_maintenance_should_yield                                           *)
Yield == requested \/ priority

(* What a scan leaves alone before its end.                                *)
ScanStep == UNCHANGED <<poolVars, refresh, requested, priority, resume, lockVars,
                        clearing, events>>

(* The collector after a scan that found the locks taken.                  *)
maintenance_busy(t) ==
  /\ t # "refresher" /\ At(t, "begin") /\ MayChange(t) /\ maint # None
  /\ IF t = "collector" THEN \E at \in {"begin", "wait"} : Goto(t, at) ELSE Goto(t, "idle")
  /\ UNCHANGED scan /\ ScanStep

operation_busy(t) ==
  /\ t # "refresher" /\ At(t, "begin") /\ ~MayChange(t)
  /\ IF t = "collector" THEN resume' = FALSE /\ UNCHANGED pc
                        ELSE Goto(t, "idle") /\ UNCHANGED resume
  /\ UNCHANGED <<poolVars, refresh, requested, priority, lockVars, scan, clearing, events>>

(* maintain_valid_nodes up to the catalog; what it does for a main that is *)
(* down is in MainConnection.                                              *)
maintain_valid_nodes(t) ==
  /\ At(t, "begin") /\ MayChange(t) /\ maint = None
  /\ t = "refresher" => refresh.of = "ALL"
  /\ lease' = t /\ maint' = t
  /\ scan' = [NoScan EXCEPT !.of = IF refresh.st = "running" /\ refresh.of = "ALL"
                                   THEN "ALL" ELSE None,
                            !.old = read_nodes]
  /\ Goto(t, "fetch")
  /\ UNCHANGED <<poolVars, refresh, requested, priority, resume, clearing, events>>

(* refresh_country_nodes; the maintenance lock was taken for it.           *)
refresh_country_nodes ==
  LET c == refresh.of
      prot == {n \in used : read_nodes[n] # "none"}
  IN  /\ At("refresher", "begin") /\ MayChange("refresher") /\ c \in Countries
      /\ lease' = "refresher"
      /\ scan' = [NoScan EXCEPT !.of = c, !.old = read_nodes, !.prot = used,
                                !.found = prot \intersect Of(c) \intersect Available(read_nodes)]
      /\ Goto("refresher", "fetch")
      /\ UNCHANGED <<poolVars, refresh, requested, priority, resume, maint, clearing, events>>

(* Another thread tries the locks at that moment.                          *)
refresh_busy ==
  /\ At("refresher", "begin") /\ Event
  /\ IF refresh.of = "ALL"
     THEN /\ refresh' = [refresh EXCEPT !.st = "failed"] /\ Goto("refresher", "ended")
     ELSE Goto("refresher", "failed") /\ UNCHANGED refresh
  /\ UNCHANGED <<poolVars, requested, priority, resume, lockVars, scan, clearing>>
-----------------------------------------------------------------------------
(* Catalog and probes                                                      *)

(* The nodes a scan starts its pool with: those in use, and those probed   *)
(* not long ago or, for a scan after a failure, those that were fine.      *)
Retained(old) ==
  LET prot == used \intersect Listed(old)
      left == IF Target > Cardinality(prot) THEN Target - Cardinality(prot) ELSE 0
  IN  {prot, prot \union Best(Available(old) \ prot, left, "quality")}

(* What is not in the pool yet and does not cool down.                     *)
candidate_queue(candidates, retained, blacklist) == candidates \ (retained \union blacklist)

(* fetch_candidates: a refresh of one country asks for what cools down too.*)
fetch_candidates(t) ==
  \E listed \in Catalogs :
    /\ At(t, "fetch") /\ Goto(t, "probe")
    /\ IF scan.of \in Countries
       THEN scan' = [scan EXCEPT !.black = black,
                                 !.queue = candidate_queue(listed \intersect Of(scan.of),
                                                           scan.found, {})]
       ELSE \E found \in Retained(scan.old) :
              LET failing == {n \in Nodes : scan.old[n] = "unavailable"} \ found IN
              scan' = [scan EXCEPT !.found = found,
                                   !.black = black \union failing,
                                   !.queue = candidate_queue(
                                     Available(scan.old) \union (listed \ black), found, failing)]
    /\ ScanStep

merge_probe_results(found, n, target_size) ==
  IF Cardinality(found) < target_size THEN found \union {n} ELSE found

(* The tunnel of the candidate comes up and its exit answers; a country    *)
(* refresh takes no more than the pool may hold.                           *)
probe_available(n) ==
  LET size == IF scan.of \in Countries THEN Max ELSE Target IN
  scan' = [scan EXCEPT !.queue = @ \ {n}, !.passed = @ \union {n}, !.black = @ \ {n},
                       !.found = merge_probe_results(@, n, size)]

(* It does not connect or its exit does not answer, or no result came.     *)
probe_unavailable(n) ==
  scan' = [scan EXCEPT !.queue = @ \ {n}, !.failed = @ \union {n}, !.black = @ \union {n}]

(* One probe at a time.                                                    *)
probe_nodes(t, n) ==
  /\ At(t, "probe") /\ ~Yield /\ n \in scan.queue
  /\ scan.of \notin Countries => Cardinality(scan.found) < Target
  /\ probe_available(n) \/ probe_unavailable(n)
  /\ Goto(t, "probed") /\ ScanStep

probed(t) ==
  /\ At(t, "probed") /\ ~Yield /\ Goto(t, "probe")
  /\ UNCHANGED scan /\ ScanStep
-----------------------------------------------------------------------------
(* The end of a scan                                                       *)

(* Where the thread goes: the collector waits for six hours or the signal, *)
(* or comes back soon (budget used up, main not running).                  *)
Leave(t, soon) ==
  CASE t = "collector" -> \E at \in soon : Goto(t, at)
    [] t = "worker"    -> Goto(t, "idle")
    [] OTHER           -> Goto(t, "ended")

\* mutant: whether a refresh of all countries is on is read at the end
report_late(t, st) ==
  refresh' = IF refresh.st = "running" /\ refresh.of = "ALL"
             THEN [refresh EXCEPT !.st = st] ELSE refresh

(* _replace_country_refresh, if this scan is the refresh of all countries. *)
report(t, st) ==
  refresh' = IF scan.of = "ALL" THEN [refresh EXCEPT !.st = st] ELSE refresh

Released(t) == lease' = None /\ maint' = None /\ scan' = NoScan

(* The catalog cannot be had, the pool stays.                              *)
fetch_failed(t) ==
  /\ At(t, "fetch") /\ scan.of \notin Countries /\ Event
  /\ report(t, "failed") /\ Leave(t, {"begin", "wait"}) /\ Released(t)
  /\ UNCHANGED <<poolVars, requested, priority, resume, clearing>>

(* assignment_priority: the pool stays and the collector is woken.         *)
yield(t) ==
  /\ pc[t] \in {"probe", "probed"} /\ scan.of \notin Countries /\ Yield
  /\ At(t, "probe") => Cardinality(scan.found) < Target
  /\ report(t, "failed") /\ Leave(t, {"begin", "wait"}) /\ Released(t)
  /\ resume' = TRUE
  /\ UNCHANGED <<poolVars, requested, priority, clearing, events>>

(* The pool is full or nothing is left to probe; or the budget of 32       *)
(* probes and 120 seconds, or the host, allows no more.                    *)
stop_probing(t, why) ==
  /\ At(t, "probe") /\ scan.of \notin Countries
  /\ \/ why = "over" /\ Cardinality(scan.found) >= Target
     \/ why = "over" /\ scan.queue = {} /\ ~Yield
     \/ why = "budget" /\ scan.queue # {} /\ ~Yield /\ Cardinality(scan.found) < Target

WriteNodes(selected, st, kept) ==
  pool' = [n \in Nodes |-> IF n \in selected /\ (st[n] = "available" \/ n \in kept)
                           THEN st[n] ELSE "none"]

(* What the rest of maintain_valid_nodes writes.  An unavailable node in   *)
(* use stays if it is the main or belongs to an assignment.                *)
merge_pool(t, why) ==
  LET st   == [n \in Nodes |-> IF n \in scan.passed THEN "available" ELSE scan.old[n]]
      old  == {n \in Listed(scan.old) : n \notin scan.black \/ n \in used}
      all  == old \union scan.found
  IN  /\ stop_probing(t, why)
      /\ \E new \in {rebalance_valid_pool(old, all \intersect Available(st),
                                           used \intersect all, manual, Target)},
            kept \in SUBSET ((used \intersect all) \ Available(st)) : WriteNodes(new, st, kept)
      /\ black' = scan.black /\ manual' = {}
      /\ report(t, "done")
      /\ Leave(t, IF why = "budget" THEN {"begin"} ELSE {"wait"}) /\ Released(t)
      /\ resume' = IF why = "budget" THEN t # "collector" ELSE resume
      /\ UNCHANGED <<used, requested, priority, clearing, events>>

(* The end of refresh_country_nodes: the nodes it found are kept through   *)
(* the next round of maintenance.                                          *)
merge_country ==
  LET st    == [n \in Nodes |-> IF n \in scan.passed THEN "available" ELSE scan.old[n]]
      old   == Listed(scan.old) \ scan.failed
      all   == old \union scan.found
      avail == all \intersect Available(st)
      asked == (scan.found \intersect avail) \ (scan.prot \union Available(scan.old))
  IN  /\ At("refresher", "probe") /\ scan.of \in Countries /\ scan.queue = {} /\ ~Yield
      /\ \E new \in {rebalance_valid_pool(old, avail, scan.prot \intersect all, asked, Max)} :
           WriteNodes(new, st, Nodes)
      /\ black' = scan.black /\ manual' = asked
      /\ lease' = None /\ scan' = NoScan /\ Goto("refresher", "done")
      /\ UNCHANGED <<used, refresh, requested, priority, resume, maint, clearing, events>>

(* Catalog, priority of a recovery or the host: the refresh has failed.    *)
refresh_failed ==
  /\ pc["refresher"] \in {"fetch", "probe", "probed"} /\ scan.of \in Countries
  /\ \/ ~At("refresher", "fetch") /\ Yield /\ UNCHANGED events
     \/ ~At("refresher", "probed") /\ Event
  /\ lease' = None /\ scan' = NoScan /\ Goto("refresher", "failed")
  /\ UNCHANGED <<poolVars, refresh, requested, priority, resume, maint, clearing>>
-----------------------------------------------------------------------------
(* The refresh of a country or of all                                      *)

(* start_country_refresh: with the lease the worker starts; while a scan   *)
(* has the lease the request is queued and the scan is asked to yield.     *)
start_country_refresh(c) ==
  /\ Event /\ refresh.st # "running" /\ At("refresher", "idle")
  /\ refresh' = [st |-> "running", of |-> c]
  /\ \/ /\ lease = None /\ maint = None
        /\ maint' = IF c = "ALL" THEN maint ELSE "refresher"
        /\ Goto("refresher", "begin") /\ UNCHANGED requested
     \/ /\ \E t \in Threads : Scanning(t)
        /\ requested' = TRUE /\ Goto("refresher", "queued") /\ UNCHANGED maint
  /\ UNCHANGED <<poolVars, priority, resume, lease, scan, clearing>>

\* mutant: the worker gives up without a word
queue_timeout_silent ==
  /\ At("refresher", "queued") /\ clearing' = TRUE /\ Goto("refresher", "idle")
  /\ UNCHANGED <<poolVars, refresh, requested, priority, resume, lockVars, scan, events>>

(* _queued_country_refresh_worker gets the lease, or gives up.             *)
queue_take ==
  /\ At("refresher", "queued") /\ MayChange("refresher") /\ maint = None
  /\ maint' = IF refresh.of = "ALL" THEN maint ELSE "refresher"
  /\ requested' = FALSE /\ clearing' = TRUE /\ Goto("refresher", "begin")
  /\ UNCHANGED <<poolVars, refresh, priority, resume, lease, scan, events>>

queue_timeout ==
  /\ At("refresher", "queued")
  /\ refresh' = [refresh EXCEPT !.st = "failed"]
  /\ clearing' = TRUE /\ Goto("refresher", "idle")
  /\ UNCHANGED <<poolVars, requested, priority, resume, lockVars, scan, events>>

(* _country_refresh_worker publishes the result, then its finally; the     *)
(* worker of all countries has nothing left to publish.                    *)
refresh_publish ==
  /\ pc["refresher"] \in {"done", "failed"}
  /\ refresh' = [refresh EXCEPT !.st = pc["refresher"]] /\ Goto("refresher", "ended")
  /\ UNCHANGED <<poolVars, requested, priority, resume, lockVars, scan, clearing, events>>

refresh_end ==
  /\ At("refresher", "ended") /\ Goto("refresher", "idle")
  /\ maint' = IF maint = "refresher" THEN None ELSE maint
  /\ UNCHANGED <<poolVars, refresh, requested, priority, resume, lease, scan, clearing, events>>

(* The finally of the queued worker, which may come late.                  *)
queue_finally ==
  /\ clearing /\ pc["refresher"] \in {"idle", "queued"}
  /\ clearing' = FALSE /\ requested' = FALSE
  /\ UNCHANGED <<poolVars, refresh, priority, resume, lockVars, pc, scan, events>>
-----------------------------------------------------------------------------
(* What happens meanwhile                                                  *)

(* collector_loop wakes by the signal or after six hours.                  *)
collector_loop ==
  /\ At("collector", "wait") /\ resume' = FALSE /\ Goto("collector", "begin")
  /\ UNCHANGED <<poolVars, refresh, requested, priority, lockVars, scan, clearing, events>>

(* A node failed: another scan is started unless one has the lock.         *)
schedule_valid_pool_replenishment ==
  /\ Event /\ At("worker", "idle") /\ maint = None /\ Goto("worker", "begin")
  /\ UNCHANGED <<poolVars, refresh, requested, priority, resume, lockVars, scan, clearing>>

Outside == UNCHANGED <<refresh, requested, priority, resume, pc, scan, clearing, maint>>

(* The administrator's tests, manual connections and assignments work      *)
(* under the lease; a test writes what it has found.                       *)
take_lease == Event /\ MayChange("other") /\ lease' = "other"
              /\ UNCHANGED poolVars /\ Outside

test_node_by_id ==
  \E n \in Nodes :
    /\ lease = "other" /\ lease' = None
    /\ \/ UNCHANGED <<pool, black>>
       \/ /\ read_nodes[n] # "none"
          /\ \/ WriteNodes(Nodes, [read_nodes EXCEPT ![n] = "available"], {}) /\ UNCHANGED black
             \/ /\ WriteNodes(Nodes, [read_nodes EXCEPT ![n] = "unavailable"], {})
                /\ black' = black \union {n}
    /\ UNCHANGED <<used, manual, events>> /\ Outside

(* mark_candidate_unavailable: a slot, a standby or the main has proved    *)
(* the candidate to fail.  It takes no lease.                              *)
mark_candidate_unavailable(n) ==
  LET st  == [read_nodes EXCEPT ![n] = "unavailable"]
      new == rebalance_valid_pool(Listed(st), Available(st), used \intersect Listed(st), {}, Max)
      all == IF Cardinality(new) < Max THEN new \union {n} ELSE new
  IN  /\ Event /\ read_nodes[n] # "none"
      /\ WriteNodes(all, st, Nodes) /\ black' = black \union {n}
      /\ UNCHANGED <<used, manual, lease>> /\ Outside

(* mark_blacklisted by assign_managed_slot: the blacklist only.            *)
mark_blacklisted(n) ==
  /\ Event /\ black' = black \union {n}
  /\ UNCHANGED <<pool, used, manual, lease>> /\ Outside

(* The time of an entry is over.                                           *)
load_blacklist(n) ==
  /\ Event /\ n \in black /\ black' = black \ {n}
  /\ UNCHANGED <<pool, used, manual, lease>> /\ Outside

(* Slots and standbys take nodes from the pool and let them go.            *)
reserve(n) ==
  /\ Event /\ used' = IF n \in used THEN used \ {n} ELSE used \union {n}
  /\ n \in used \/ read_nodes[n] = "available"
  /\ UNCHANGED <<pool, black, manual, lease>> /\ Outside

(* A manual assignment or a recovery of the main asks the scan to yield,   *)
(* or has what it wants.                                                   *)
stage_main_assignment ==
  /\ \/ priority /\ UNCHANGED events
     \/ ~priority /\ Event /\ \E t \in Threads : Scanning(t)
  /\ priority' = ~priority
  /\ UNCHANGED <<poolVars, refresh, requested, resume, lockVars, pc, scan, clearing>>
-----------------------------------------------------------------------------
Scan(t) ==
  \/ maintenance_busy(t) \/ operation_busy(t) \/ maintain_valid_nodes(t)
  \/ fetch_candidates(t) \/ fetch_failed(t) \/ (\E n \in Nodes : probe_nodes(t, n))
  \/ probed(t) \/ yield(t) \/ (\E why \in {"over", "budget"} : merge_pool(t, why))

Refresher ==
  \/ refresh_country_nodes \/ refresh_busy \/ merge_country \/ refresh_failed
  \/ queue_take \/ queue_timeout \/ refresh_publish \/ refresh_end

Environment ==
  \/ (\E c \in Scopes : start_country_refresh(c)) \/ schedule_valid_pool_replenishment
  \/ take_lease \/ test_node_by_id \/ stage_main_assignment
  \/ \E n \in Nodes : \/ mark_candidate_unavailable(n) \/ mark_blacklisted(n)
                      \/ load_blacklist(n) \/ reserve(n)

Next == \/ (\E t \in Threads : Scan(t)) \/ Refresher \/ queue_finally
        \/ collector_loop \/ Environment

Spec == Init /\ [][Next]_vars

(* The scanning threads and the worker of the refresh run.                 *)
FairSpec == /\ Spec /\ WF_vars(Scan("collector")) /\ WF_vars(Scan("worker"))
            /\ WF_vars(Scan("refresher") \/ Refresher)
-----------------------------------------------------------------------------
(* Every variable has its shape. *)
NTypeOK ==
  /\ pool \in [Nodes -> Status] /\ Cardinality(Listed(pool)) <= Max
  /\ black \subseteq Nodes /\ used \subseteq Nodes /\ manual \subseteq Nodes
  /\ refresh \in [st : {"idle", "running", "done", "failed"}, of : Scopes \union {None}]
  /\ requested \in BOOLEAN /\ priority \in BOOLEAN /\ resume \in BOOLEAN
  /\ clearing \in BOOLEAN
  /\ lease \in Threads \union {None, "other"} /\ maint \in Threads \union {None}
  /\ pc \in [Threads -> {"idle", "begin", "fetch", "probe", "probed", "wait", "queued",
                         "done", "failed", "ended"}]
  /\ scan \in Scans

(* A scan has the lease; the scan for all countries is the refresher's,    *)
(* and a refresh that the refresher works on is on record as running.      *)
Leased == \A t \in Threads : Scanning(t) => lease = t
ForAll == scan.of = "ALL" => Scanning("refresher")
AtWork == pc["refresher"] \notin {"idle", "wait", "ended"} => refresh.st = "running"

(* What a scan counts as found was in the pool or has passed a probe; what *)
(* has failed is out, and not probed again.                                *)
FoundKnown == scan.found \subseteq Listed(scan.old) \union scan.passed
FailedOut == scan.failed \subseteq scan.black /\ scan.failed \intersect scan.queue = {}
NotProbedYet == \A t \in Threads : At(t, "fetch") => scan.failed = {}

(* The inductive invariant of the pool.                                    *)
NInv == NTypeOK /\ Leased /\ ForAll /\ AtWork /\ FoundKnown /\ FailedOut /\ NotProbedYet

(* The outcome of a refresh that was told is not changed by a scan that    *)
(* ends later; only a new refresh replaces it.                             *)
OutcomeStays ==
  [][refresh.st \in {"done", "failed"} => refresh'.st \in {refresh.st, "running"}]_vars

Usable(n) == pool[n] = "available" /\ n \notin black

(* A scan ends and leaves a country without any node, though one was in    *)
(* the pool when it began and has not failed since.                        *)
LosesLast(c) ==
  /\ scan' = NoScan /\ pool' # pool /\ Of(c) \intersect Listed(pool') = {}
  /\ \E n \in Of(c) : Usable(n) /\ scan.old[n] = "available" /\ n \notin black'

(* Every place is a node's in use, one's the administrator has asked for,  *)
(* or the only node's of another country.                                  *)
OthersNeedThePlaces ==
  \A n \in Listed(pool') :
    \/ n \in used \union manual \union manual' \union scan.prot
    \/ Listed(pool') \intersect Of(CountryOf(n)) = {n}

(* The anchor of a country: a country loses its last good node to a scan   *)
(* only when the places go to nodes with a better claim, or when a node in *)
(* use that has failed stood for the country in rebalance_valid_pool       *)
(* (sort_all_nodes drops such a node afterwards).                          *)
CountryKept ==
  [][\A c \in Countries : LosesLast(c) =>
       \/ OthersNeedThePlaces
       \/ \E n \in used \intersect Of(c) : scan.old[n] = "unavailable"]_vars

(* A refresh that is on keeps every other change out; it does not stay on. *)
RefreshEnds == refresh.st = "running" ~> refresh.st # "running"

(* mark_candidate_unavailable: "persistently eliminates a candidate this   *)
(* service has proved to fail in dialing or at its exit": it is available  *)
(* again only when its time is over or a probe has found it well.          *)
FailedStaysOut ==
  [][\A n \in Nodes : n \in black /\ pool[n] = "unavailable" /\ pool'[n] = "available"
       => n \in scan.passed]_vars
=============================================================================
