-------------------------- MODULE ProxyServerProofs -------------------------
(***************************************************************************)
(* Proofs about ProxyServer, for any number of connections, any capacity   *)
(* and any number of switches of the main connection.                      *)
(***************************************************************************)
EXTENDS ProxyServer, FiniteSetTheorems, TLAPS

(* The connections that hold a place at a listener.                        *)
Holding(l) == {c \in Clients : via[c] = l /\ pc[c] \in Held}

LEMMA HoldingFinite ==
  ASSUME NEW l
  PROVE  IsFiniteSet(Holding(l)) /\ Cardinality(Holding(l)) \in Nat
<1>1. Holding(l) \subseteq Clients
  BY DEF Holding
<1> QED
  BY <1>1, FS_Subset, FS_CardinalityType, ProxyAssumption

LEMMA HeldPcs == Pcs = Held \union {"new", "done"} /\ Held \intersect {"new", "done"} = {}
BY DEF Held, Pcs

(* A step of a thread that keeps its place.                                *)
LEMMA KeepsPlace ==
  ASSUME CapacityExact, UNCHANGED <<own, via>>,
         \A c \in Clients : pc'[c] \in Held <=> pc[c] \in Held
  PROVE  CapacityExact'
<1>1. ASSUME NEW l \in Listeners
      PROVE  {c \in Clients : via'[c] = l /\ pc'[c] \in Held}
               = {c \in Clients : via[c] = l /\ pc[c] \in Held}
  OBVIOUS
<1> QED
  BY <1>1 DEF CapacityExact

(* A thread c moves from one place of its program to another and holds its *)
(* place in both.                                                          *)
LEMMA MovesOn ==
  ASSUME XTypeOK, CapacityExact, UNCHANGED <<own, via>>, NEW c \in Clients,
         NEW p \in Held, pc[c] \in Held, Goto(c, p)
  PROVE  CapacityExact'
<1>1. \A x \in Clients : pc'[x] \in Held <=> pc[x] \in Held
  BY DEF Goto, XTypeOK
<1> QED
  BY <1>1, KeepsPlace

LEMMA AdmitCapacity ==
  ASSUME XTypeOK, CapacityExact, NEW l \in Listeners, NEW c \in Clients, admit(l, c)
  PROVE  CapacityExact' /\ own' \in [Listeners -> 0..PerListener]
<1>1. CASE /\ Goto(c, "spawned") /\ own' = [own EXCEPT ![l] = @ + 1]
           /\ via' = [via EXCEPT ![c] = l]
  <2>1. Holding(l)' = Holding(l) \union {c} /\ c \notin Holding(l)
    BY <1>1 DEF admit, At, Goto, Holding, Held, Pcs, XTypeOK
  <2>2. \A m \in Listeners : m # l => Holding(m)' = Holding(m)
    BY <1>1 DEF admit, At, Goto, Holding, Held, Pcs, XTypeOK
  <2>3. Cardinality(Holding(l)') = Cardinality(Holding(l)) + 1
    BY <2>1, HoldingFinite, FS_AddElement
  <2>4. own[l] < PerListener /\ own[l] \in 0..PerListener
    BY DEF admit, Admits, XTypeOK
  <2>5. own' \in [Listeners -> 0..PerListener]
    BY <1>1, <2>4, ProxyAssumption DEF XTypeOK
  <2>6. CapacityExact'
    BY <1>1, <2>2, <2>3 DEF CapacityExact, Holding, XTypeOK
  <2> QED
    BY <2>5, <2>6
<1>2. CASE Goto(c, "done") /\ UNCHANGED <<own, via>>
  <2>1. \A x \in Clients : pc'[x] \in Held <=> pc[x] \in Held
    BY <1>2 DEF admit, At, Goto, XTypeOK, Held
  <2> QED
    BY <1>2, <2>1, KeepsPlace DEF XTypeOK
<1> QED
  BY <1>1, <1>2 DEF admit

LEMMA FinishCapacity ==
  ASSUME XTypeOK, CapacityExact, NEW c \in Clients, finish(c)
  PROVE  CapacityExact' /\ own' \in [Listeners -> 0..PerListener]
<1>1. PICK l \in Listeners : via[c] = l
  BY DEF XTypeOK
<1>2. Holding(l)' = Holding(l) \ {c} /\ c \in Holding(l)
  BY <1>1 DEF finish, At, Goto, Holding, Held, Pcs, XTypeOK
<1>3. \A m \in Listeners : m # l => Holding(m)' = Holding(m)
  BY <1>1 DEF finish, At, Goto, Holding, Held, Pcs, XTypeOK
<1>4. Cardinality(Holding(l)') = Cardinality(Holding(l)) - 1
  BY <1>2, HoldingFinite, FS_RemoveElement
<1>5. own' = [own EXCEPT ![l] = @ - 1]
  BY <1>1 DEF finish
<1>6. CapacityExact'
  <2>1. ASSUME NEW m \in Listeners PROVE own'[m] = Cardinality(Holding(m)')
    <3>1. CASE m = l
      BY <1>1, <1>4, <1>5, <3>1 DEF CapacityExact, Holding, XTypeOK
    <3>2. CASE m # l
      BY <1>3, <1>5, <3>2 DEF CapacityExact, Holding, XTypeOK
    <3> QED
      BY <3>1, <3>2
  <2> QED
    BY <2>1 DEF CapacityExact, Holding
<1>7. own[l] \in 0..PerListener /\ own'[l] = own[l] - 1 /\ own'[l] \in Nat
  <2>1. own'[l] = Cardinality(Holding(l)')
    BY <1>1, <1>6 DEF CapacityExact, Holding
  <2>2. Cardinality(Holding(l)') \in Nat
    BY <1>2, HoldingFinite, FS_RemoveElement, FS_CardinalityType
  <2> QED
    BY <1>1, <1>5, <2>1, <2>2 DEF XTypeOK
<1>8. own' \in [Listeners -> 0..PerListener]
  BY <1>1, <1>5, <1>7, ProxyAssumption DEF XTypeOK
<1> QED
  BY <1>6, <1>8
-----------------------------------------------------------------------------
(* Types.                                                                  *)

LEMMA DeviceFacts ==
  /\ MainDevice \in Devices /\ StandbyDevice \in Devices /\ SlotDevice \in Devices
  /\ None \notin Devices
  /\ MainDevice # StandbyDevice /\ MainDevice # SlotDevice /\ StandbyDevice # SlotDevice
  /\ 1 \in Epochs /\ Main \in Listeners /\ Slot \in Listeners
BY ProxyAssumption DEF Devices, Epochs, Listeners

LEMMA ThreadType ==
  ASSUME XTypeOK, XInv, NEW c \in Clients, Thread(c) \/ relay(c),
         own' \in [Listeners -> 0..PerListener]
  PROVE  XTypeOK'
<1> USE DEF XTypeOK, Inside, At, Goto, capacityVars, tunnelVars, dnsVars, socketVars, threadVars
<1>1. via[c] \in Listeners /\ Main \in Listeners
  BY DEF Listeners
<1>2. CASE add(c)
  BY <1>1, <1>2 DEF add, Pcs
<1>3. CASE resolve_device(c)
  BY <1>3, DeviceFacts DEF resolve_device, Pcs, Devices
<1>4. CASE proxy_client(c)
  BY <1>4 DEF proxy_client, Pcs
<1>5. CASE resolve_dns(c)
  BY <1>5 DEF resolve_dns, Pcs
<1>6. CASE dns_query(c)
  <2>1. device[c] \in Devices
    BY <1>6 DEF dns_query, XInv, Sound, Threaded
  <2>2. answer' \in [Clients -> Epochs \union {0}]
    BY <1>6, <2>1 DEF dns_query
  <2> QED
    BY <1>6, <2>2 DEF dns_query, Pcs
<1>7. CASE publish(c)
  <2>1. cache' \in [Devices -> Epochs \union {0}]
    BY <1>7 DEF publish
  <2>2. pending' \in [Devices -> Clients \union {None}] /\ current' \subseteq Clients
    BY <1>7 DEF publish
  <2> QED
    BY <1>7, <2>1, <2>2 DEF publish, Pcs
<1>8. CASE join(c)
  BY <1>8 DEF join, Pcs
<1>9. CASE create_connection(c)
  BY <1>9 DEF create_connection, Pcs
<1>10. CASE relay(c)
  BY <1>10 DEF relay, Pcs
<1>11. CASE finish(c)
  <2>1. registry' \in [Listeners -> SUBSET Clients]
    BY <1>1, <1>11 DEF finish
  <2> QED
    BY <1>1, <1>11, <2>1 DEF finish, Pcs
<1> QED
  BY <1>2, <1>3, <1>4, <1>5, <1>6, <1>7, <1>8, <1>9, <1>10, <1>11 DEF Thread

LEMMA ListenerType ==
  ASSUME XTypeOK, NEW l \in Listeners, own' \in [Listeners -> 0..PerListener],
         Listener(l) \/ start_proxy_server(l) \/ unregister_listener(l)
  PROVE  XTypeOK'
<1> USE DEF XTypeOK, At, Goto, capacityVars, tunnelVars, dnsVars, socketVars, threadVars, Elsewhere
<1>1. ASSUME NEW c \in Clients, admit(l, c) \/ reject(l, c) PROVE XTypeOK'
  BY <1>1 DEF admit, reject, Pcs
<1>2. CASE start_proxy_server(l)
  BY <1>2 DEF start_proxy_server
<1>3. CASE unregister_listener(l)
  BY <1>3 DEF unregister_listener
<1> QED
  BY <1>1, <1>2, <1>3 DEF Listener

LEMMA SwitchType ==
  ASSUME XTypeOK,
         MainSwitch \/ (\E d \in Devices, e \in Epochs : register_pushed_dns(d, e))
  PROVE  XTypeOK' /\ UNCHANGED <<own, via, pc>>
<1> USE DEF XTypeOK, Outside, capacityVars, dnsVars, socketVars, Switch, Purge
<1> USE DeviceFacts
<1>1. CASE stop_active_openvpn
  BY <1>1 DEF stop_active_openvpn
<1>2. CASE start_openvpn
  <2>1. epoch[MainDevice] + 1 \in Epochs
    BY <1>2, ProxyAssumption DEF start_openvpn, MayStart, Epochs
  <2>2. epoch' \in [Devices -> Epochs] /\ epoch'[MainDevice] \in Epochs
    BY <1>2, <2>1 DEF start_openvpn
  <2> QED
    BY <1>2, <2>2 DEF start_openvpn
<1>3. CASE openvpn_ready
  BY <1>3 DEF openvpn_ready
<1>4. CASE openvpn_failed
  BY <1>4 DEF openvpn_failed
<1>5. CASE promote_standby
  BY <1>5 DEF promote_standby
<1>6. CASE check_proxy_health
  BY <1>6 DEF check_proxy_health
<1>7. CASE close_all
  BY <1>7 DEF close_all
<1>8. CASE purge_dns_cache
  BY <1>8 DEF purge_dns_cache
<1>9. ASSUME NEW d \in Devices, NEW e \in Epochs, register_pushed_dns(d, e)
      PROVE  XTypeOK' /\ UNCHANGED <<own, via, pc>>
  BY <1>9 DEF register_pushed_dns, tunnelVars
<1> QED
  BY <1>1, <1>2, <1>3, <1>4, <1>5, <1>6, <1>7, <1>8, <1>9 DEF MainSwitch
-----------------------------------------------------------------------------
(* What holds in between.                                                  *)

(* A thread's step leaves the other threads sound: it puts no one on       *)
(* another device and closes or registers nobody but its own client.       *)
LEMMA OthersSound ==
  ASSUME XTypeOK, XInv, NEW c \in Clients, Thread(c) \/ relay(c)
  PROVE  /\ \A x \in Clients \ {c} : Sound(x)'
         /\ \A d \in Devices : owner'[d] \in {0, epoch'[d]}
<1> USE DEF Inside, At, Goto, capacityVars, tunnelVars, dnsVars, socketVars, threadVars
<1>1. UNCHANGED <<tunnelVars, owner>>
  BY DEF Thread, add, resolve_device, proxy_client, resolve_dns, dns_query, publish,
         join, create_connection, relay, finish
<1>2. ASSUME NEW x \in Clients \ {c}
      PROVE  /\ pc'[x] = pc[x] /\ via'[x] = via[x] /\ device'[x] = device[x]
             /\ answer'[x] = answer[x] /\ socket'[x] = socket[x]
             /\ x \in current' <=> x \in current
             /\ x \in closed' <=> x \in closed
             /\ x \in registry'[via[x]] <=> x \in registry[via[x]]
  BY DEF XTypeOK, Thread, add, resolve_device, proxy_client, resolve_dns, dns_query, publish,
         join, create_connection, relay, finish
<1>3. ASSUME NEW x \in Clients \ {c} PROVE Sound(x)'
  BY <1>1, <1>2 DEF XInv, Sound
<1> QED
  BY <1>1, <1>3 DEF XInv

LEMMA ThreadInv ==
  ASSUME XTypeOK, XInv, NEW c \in Clients, Thread(c) \/ relay(c)
  PROVE  XInv'
<1> USE DEF XTypeOK, Inside, At, Goto, capacityVars, tunnelVars, dnsVars, socketVars,
            threadVars, Sound, Threaded
<1>1. Sound(c) /\ via[c] \in Listeners
  BY DEF XInv
<1>2. CASE add(c)
  BY <1>1, <1>2, OthersSound DEF add, XInv
<1>3. CASE resolve_device(c)
  <2>1. Sound(c)'
    BY <1>1, <1>3, DeviceFacts DEF resolve_device
  <2> QED
    BY <2>1, OthersSound DEF XInv
<1>4. CASE proxy_client(c)
  BY <1>1, <1>4, OthersSound DEF proxy_client, XInv
<1>5. CASE resolve_dns(c)
  BY <1>1, <1>5, OthersSound DEF resolve_dns, XInv
<1>6. CASE dns_query(c)
  <2>1. answer'[c] \in {0, epoch[device[c]]}
    BY <1>6 DEF dns_query
  <2> QED
    BY <1>1, <1>6, <2>1, OthersSound DEF dns_query, XInv
<1>7. CASE publish(c)
  BY <1>1, <1>7, OthersSound DEF publish, XInv
<1>8. CASE join(c)
  BY <1>1, <1>8, OthersSound DEF join, XInv
<1>9. CASE create_connection(c)
  <2>1. Sound(c)'
    BY <1>1, <1>9 DEF create_connection
  <2> QED
    BY <2>1, OthersSound DEF XInv
<1>10. CASE relay(c)
  BY <1>1, <1>10, OthersSound DEF relay, XInv
<1>11. CASE finish(c)
  BY <1>1, <1>11, OthersSound DEF finish, XInv
<1> QED
  BY <1>2, <1>3, <1>4, <1>5, <1>6, <1>7, <1>8, <1>9, <1>10, <1>11 DEF Thread

LEMMA ListenerInv ==
  ASSUME XTypeOK, XInv, NEW l \in Listeners,
         Listener(l) \/ start_proxy_server(l) \/ unregister_listener(l)
  PROVE  XInv'
<1> USE DEF XTypeOK, At, Goto, capacityVars, tunnelVars, dnsVars, socketVars, threadVars,
            Elsewhere, XInv, Sound, Threaded
<1>1. ASSUME NEW c \in Clients, admit(l, c) \/ reject(l, c) PROVE XInv'
  BY <1>1 DEF admit, reject
<1>2. CASE start_proxy_server(l) \/ unregister_listener(l)
  BY <1>2 DEF start_proxy_server, unregister_listener
<1> QED
  BY <1>1, <1>2 DEF Listener

LEMMA SwitchInv ==
  ASSUME XTypeOK, XInv,
         MainSwitch \/ (\E d \in Devices, e \in Epochs : register_pushed_dns(d, e))
  PROVE  XInv'
<1> USE DEF XTypeOK, Outside, capacityVars, dnsVars, socketVars, Switch, Purge, XInv, Sound,
            Threaded
<1>1. CASE stop_active_openvpn \/ openvpn_ready \/ promote_standby \/ check_proxy_health
  BY <1>1 DEF stop_active_openvpn, openvpn_ready, promote_standby, check_proxy_health
<1>2. CASE start_openvpn
  <2>1. \A d \in Devices : owner'[d] \in {0, epoch'[d]}
    BY <1>2 DEF start_openvpn
  <2>2. ASSUME NEW c \in Clients PROVE Sound(c)'
    BY <1>2 DEF start_openvpn
  <2> QED
    BY <2>1, <2>2
<1>3. CASE openvpn_failed
  BY <1>3 DEF openvpn_failed
<1>4. CASE close_all
  BY <1>4 DEF close_all
<1>5. CASE purge_dns_cache
  BY <1>5 DEF purge_dns_cache
<1>6. ASSUME NEW d \in Devices, NEW e \in Epochs, register_pushed_dns(d, e)
      PROVE  XInv'
  BY <1>6 DEF register_pushed_dns, tunnelVars
<1> QED
  BY <1>1, <1>2, <1>3, <1>4, <1>5, <1>6 DEF MainSwitch
-----------------------------------------------------------------------------
LEMMA DnsThread ==
  ASSUME XTypeOK, XInv, DnsOfTunnel, NEW c \in Clients, Thread(c) \/ relay(c)
  PROVE  DnsOfTunnel'
<1> USE DEF XTypeOK, Inside, At, Goto, capacityVars, tunnelVars, dnsVars
<1>1. UNCHANGED <<epoch, servers>>
  BY DEF Thread, add, resolve_device, proxy_client, resolve_dns, dns_query, publish,
         join, create_connection, relay, finish
<1>2. CASE UNCHANGED cache
  BY <1>1, <1>2 DEF DnsOfTunnel
<1>3. CASE publish(c)
  <2>1. device[c] \in Devices
    BY <1>3 DEF publish, XInv, Sound, Threaded
  <2>2. answer[c] # 0 /\ c \in current => answer[c] = epoch[device[c]]
    BY <1>3 DEF publish, XInv, Sound
  <2>3. \A d \in Devices : cache'[d] \in {cache[d]}
           \union IF d = device[c] THEN {0, epoch[d]} ELSE {}
    BY <1>3, <2>1, <2>2 DEF publish
  <2> QED
    BY <1>1, <2>3 DEF DnsOfTunnel
<1>4. CASE create_connection(c)
  BY <1>1, <1>4 DEF create_connection, DnsOfTunnel
<1> QED
  BY <1>2, <1>3, <1>4 DEF Thread, add, resolve_device, proxy_client, resolve_dns, dns_query,
         join, relay, finish

LEMMA DnsSwitch ==
  ASSUME XTypeOK, XInv, DnsOfTunnel,
         MainSwitch \/ (\E d \in Devices, e \in Epochs : register_pushed_dns(d, e))
  PROVE  DnsOfTunnel'
<1> USE DEF XTypeOK, Outside, capacityVars, dnsVars, Switch, Purge, DnsOfTunnel
<1>1. CASE stop_active_openvpn \/ openvpn_ready \/ promote_standby \/ check_proxy_health
             \/ close_all
  BY <1>1 DEF stop_active_openvpn, openvpn_ready, promote_standby, check_proxy_health, close_all
<1>2. CASE start_openvpn
  BY <1>2 DEF start_openvpn
<1>3. CASE openvpn_failed \/ purge_dns_cache
  BY <1>3 DEF openvpn_failed, purge_dns_cache
<1>4. ASSUME NEW d \in Devices, NEW e \in Epochs, register_pushed_dns(d, e)
      PROVE  DnsOfTunnel'
  <2>1. e = epoch[d]
    BY <1>4, ProxyAssumption DEF register_pushed_dns, XInv, Epochs
  <2> QED
    BY <1>4, <2>1 DEF register_pushed_dns, tunnelVars
<1> QED
  BY <1>1, <1>2, <1>3, <1>4 DEF MainSwitch

LEMMA ThreadCapacity ==
  ASSUME XTypeOK, CapacityExact, NEW c \in Clients, Thread(c) \/ relay(c)
  PROVE  CapacityExact' /\ own' \in [Listeners -> 0..PerListener]
<1> USE DEF Inside, At, Goto, capacityVars
<1>1. CASE finish(c)
  BY <1>1, FinishCapacity
<1>2. CASE ~finish(c)
  <2>1. UNCHANGED <<own, via>> /\ pc[c] \in Held
    BY <1>2 DEF Thread, add, resolve_device, proxy_client, resolve_dns, dns_query, publish,
         join, create_connection, relay, Held, Pcs
  <2>2. \E p \in Held : pc' = [pc EXCEPT ![c] = p]
    BY <1>2 DEF Thread, add, resolve_device, proxy_client, resolve_dns, dns_query, publish,
         join, create_connection, relay, Held, Pcs
  <2> QED
    BY <2>1, <2>2, MovesOn DEF XTypeOK
<1> QED
  BY <1>1, <1>2

LEMMA ListenerCapacity ==
  ASSUME XTypeOK, CapacityExact, NEW l \in Listeners,
         Listener(l) \/ start_proxy_server(l) \/ unregister_listener(l)
  PROVE  CapacityExact' /\ own' \in [Listeners -> 0..PerListener]
<1>1. ASSUME NEW c \in Clients, reject(l, c)
      PROVE  CapacityExact' /\ own' \in [Listeners -> 0..PerListener]
  <2>1. own' = own /\ \A m \in Listeners : Holding(m)' = Holding(m)
    BY <1>1 DEF reject, At, Goto, capacityVars, Holding, Held, XTypeOK
  <2> QED
    BY <2>1 DEF CapacityExact, Holding, XTypeOK
<1>2. CASE start_proxy_server(l) \/ unregister_listener(l)
  <2>1. UNCHANGED <<own, via, pc>>
    BY <1>2 DEF start_proxy_server, unregister_listener, capacityVars, Elsewhere, threadVars
  <2> QED
    BY <2>1, KeepsPlace DEF XTypeOK
<1> QED
  BY <1>1, <1>2, AdmitCapacity DEF Listener
-----------------------------------------------------------------------------
Whole == XTypeOK /\ CapacityExact /\ XInv /\ DnsOfTunnel

LEMMA InitWhole == Init => Whole
<1> SUFFICES ASSUME Init PROVE Whole
  OBVIOUS
<1>1. XTypeOK
  BY DeviceFacts, ProxyAssumption DEF Init, XTypeOK, Pcs, Epochs
<1>2. CapacityExact
  <2>1. \A l \in Listeners : {c \in Clients : via[c] = l /\ pc[c] \in Held} = {}
    BY DEF Init, Held
  <2> QED
    BY <2>1, FS_EmptySet DEF Init, CapacityExact
<1>3. XInv /\ DnsOfTunnel
  BY DEF Init, XInv, Sound, Threaded, DnsOfTunnel
<1> QED
  BY <1>1, <1>2, <1>3 DEF Whole

LEMMA NextWhole == Whole /\ [Next]_vars => Whole'
<1> SUFFICES ASSUME XTypeOK, CapacityExact, XInv, DnsOfTunnel, [Next]_vars PROVE Whole'
  BY DEF Whole
<1>1. ASSUME NEW c \in Clients, Thread(c) \/ relay(c) PROVE Whole'
  BY <1>1, ThreadCapacity, ThreadType, ThreadInv, DnsThread DEF Whole
<1>2. ASSUME NEW l \in Listeners,
             Listener(l) \/ start_proxy_server(l) \/ unregister_listener(l)
      PROVE  Whole'
  <2>1. UNCHANGED <<dnsVars, tunnelVars>>
    BY <1>2 DEF Listener, admit, reject, start_proxy_server, unregister_listener, Elsewhere
  <2>2. DnsOfTunnel'
    BY <2>1 DEF DnsOfTunnel, dnsVars, tunnelVars
  <2> QED
    BY <1>2, <2>2, ListenerCapacity, ListenerType, ListenerInv DEF Whole
<1>3. CASE MainSwitch \/ (\E d \in Devices, e \in Epochs : register_pushed_dns(d, e))
  <2>1. XTypeOK' /\ UNCHANGED <<own, via, pc>>
    BY <1>3, SwitchType
  <2>2. CapacityExact'
    BY <2>1, KeepsPlace
  <2> QED
    BY <1>3, <2>1, <2>2, SwitchInv, DnsSwitch DEF Whole
<1>4. CASE UNCHANGED vars
  <2>1. UNCHANGED <<listening, own, late, pc, via, device, current, answer, socket, retried,
                    closed, registry, cache, pending, servers, owner, epoch, up, mainDevice,
                    mpc, verified>>
    BY <1>4 DEF vars, capacityVars, threadVars, socketVars, dnsVars, tunnelVars
  <2> QED
    BY <2>1, KeepsPlace DEF Whole, XTypeOK, XInv, Sound, Threaded, DnsOfTunnel
<1> QED
  BY <1>1, <1>2, <1>3, <1>4 DEF Next

(* The invariant of proxy and tunnels, for any number of connections.      *)
THEOREM XInductive == Spec => []Whole
BY InitWhole, NextWhole, PTL DEF Spec

(* Types.                                                                  *)
THEOREM XTypeCorrect == Spec => []XTypeOK
<1>1. Whole => XTypeOK
  BY DEF Whole
<1> QED
  BY <1>1, XInductive, PTL

(* ProxyCapacity: acquire and release balance on every path of a thread.   *)
THEOREM Capacity == Spec => []CapacityExact
<1>1. Whole => CapacityExact
  BY DEF Whole
<1> QED
  BY <1>1, XInductive, PTL

(* _dns_generation and _openvpn_dns_owners: nothing learnt through an      *)
(* earlier process of a device is used through a later one.                *)
THEOREM Dns == Spec => []DnsOfTunnel
<1>1. Whole => DnsOfTunnel
  BY DEF Whole
<1> QED
  BY <1>1, XInductive, PTL

(* reset_main_proxy_connections: after a switch no open connection is on   *)
(* the tunnel before.                                                      *)
THEOREM NoStale == Spec => []NoStaleConnection
<1>1. Whole => NoStaleConnection
  BY DEF Whole, NoStaleConnection, XInv, Sound, Threaded, At
<1> QED
  BY <1>1, XInductive, PTL
=============================================================================
