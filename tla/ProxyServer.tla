----------------------------- MODULE ProxyServer -----------------------------
(***************************************************************************)
(* The local HTTP/SOCKS5 proxy of the engine (proxy_server.py) and the     *)
(* OpenVPN tunnels it sends through: listeners that share a bounded        *)
(* capacity, one thread per connection, the DNS cache of each tunnel with  *)
(* its generation, and the switch of the main connection, which puts       *)
(* another tunnel behind the main listener while connections run.          *)
(*                                                                         *)
(* A tunnel's epoch counts the OpenVPN processes started on its device.    *)
(* All connections ask for one host name; an answer is the epoch of the    *)
(* tunnel it was obtained through.                                         *)
(***************************************************************************)
EXTENDS Naturals, FiniteSets, FiniteSetsExt

CONSTANTS Clients,        \* downstream connections
          SlotClients,    \* those that may come to the slot's listener
          Main, Slot,     \* the main listener and the listener of a slot
          MainDevice,     \* device connect_node uses, tun0
          StandbyDevice,  \* device of the standby of the main connection
          SlotDevice,     \* device of the slot
          None,
          Configured,     \* MAX_PROXY_CONNECTIONS
          PerListener,    \* MAX_PROXY_CONNECTIONS_PER_LISTENER
          Reserve,        \* reserve_per_listener
          MaxStarts       \* bound: OpenVPN processes started by switches

ASSUME ProxyAssumption ==
  /\ Main # Slot
  /\ MainDevice # StandbyDevice /\ SlotDevice \notin {MainDevice, StandbyDevice}
  /\ None \notin {MainDevice, StandbyDevice, SlotDevice}
  /\ None \notin Clients /\ SlotClients \subseteq Clients /\ IsFiniteSet(Clients)
  /\ Configured \in Nat \ {0} /\ PerListener \in Nat \ {0}
  /\ Reserve \in Nat /\ MaxStarts \in Nat

VARIABLES
  listening,  \* per listener: its accept loop
  own,        \* ProxyCapacity._listeners
  late,       \* history: listeners registered when their reserve was taken
  pc,         \* per connection: where its thread is
  via,        \* per connection: its listener
  device,     \* per connection: the device it resolved
  current,    \* connections that have seen the present _dns_generation
  answer,     \* per connection: what the DNS answered, 0 for nothing
  socket,     \* per connection: epoch its upstream socket belongs to
  retried,    \* connections in their second, IPv4-only, attempt
  closed,     \* connections whose client socket is closed
  registry,   \* ConnRegistry of each listener
  cache,      \* per device: cached answer, 0 for none
  pending,    \* per device: the connection that owns the lookup
  servers,    \* per device: epoch whose DNS servers are registered, 0 for none
  owner,      \* _openvpn_dns_owners: epoch of the process, 0 for none
  epoch,      \* OpenVPN processes started on the device
  up,         \* devices whose tunnel forwards
  mainDevice, \* current_main_device()
  mpc,        \* where the switch of the main connection is
  verified    \* FALSE when the last switch ended before its reset

capacityVars == <<own, late>>
threadVars == <<pc, via, device, current, answer, socket, retried>>
socketVars == <<closed, registry>>
dnsVars == <<cache, pending, servers, owner>>
tunnelVars == <<epoch, up, mainDevice, mpc, verified>>
vars == <<listening, capacityVars, threadVars, socketVars, dnsVars,
          tunnelVars>>
-----------------------------------------------------------------------------
Listeners == {Main, Slot}
Devices == {MainDevice, StandbyDevice, SlotDevice}
Epochs == 1..MaxStarts + 1
Pcs == {"new", "spawned", "added", "request", "lookup", "query",
        "answered", "join", "connect", "relay", "finally", "done"}
Comers(l) == IF l = Main THEN Clients ELSE SlotClients
Registered == {l \in Listeners : listening[l] = "on"}
Held == Pcs \ {"new", "done"}

Less(a, b) == IF a > b THEN a - b ELSE 0
Least(a, b) == IF a < b THEN a ELSE b
Sum(f, S) == FoldSet(LAMBDA x, y : f[x] + y, 0, S)
Active == Sum(own, Listeners)
Spare(S) == FoldSet(LAMBDA l, n : Less(Reserve, own[l]) + n, 0, S)

At(c, p) == pc[c] = p
Goto(c, p) == pc' = [pc EXCEPT ![c] = p]

Init ==
  /\ listening = [l \in Listeners |-> IF l = Main THEN "on" ELSE "off"]
  /\ own = [l \in Listeners |-> 0] /\ late = {}
  /\ pc = [c \in Clients |-> "new"] /\ via = [c \in Clients |-> Main]
  /\ device = [c \in Clients |-> None]
  /\ current = {}
  /\ answer = [c \in Clients |-> 0] /\ socket = [c \in Clients |-> 0]
  /\ retried = {} /\ closed = {}
  /\ registry = [l \in Listeners |-> {}]
  /\ epoch = [d \in Devices |-> 1] /\ up = Devices
  /\ mainDevice = MainDevice /\ mpc = "idle" /\ verified = TRUE
  /\ cache = [d \in Devices |-> 0]
  /\ pending = [d \in Devices |-> None]
  /\ servers = epoch /\ owner = epoch
-----------------------------------------------------------------------------
(* Listeners and the capacity they share. *)

Elsewhere == UNCHANGED <<threadVars, socketVars, dnsVars, tunnelVars>>

start_proxy_server(l) ==
  /\ listening[l] = "off"
  /\ listening' = [listening EXCEPT ![l] = "on"]
  /\ late' = IF Active + Spare((Registered \ late) \union {l}) <= Configured
             THEN late \ {l} ELSE late \union {l}
  /\ UNCHANGED own /\ Elsewhere

(* stop_event of a slot, seen by its accept loop.                          *)
unregister_listener(l) ==
  /\ l = Slot /\ listening[l] = "on"
  /\ listening' = [listening EXCEPT ![l] = "off"]
  /\ UNCHANGED capacityVars /\ Elsewhere

(* The global limit is the configured one, or less when memory, sockets or *)
(* threads are short: sampled every five seconds.                          *)
proxy_resource_headroom == 0..Configured

(* One connection is let in however little is left.                        *)
Admits(l, limit) ==
  LET reserved == Least(Spare(Registered \ {l}), Less(limit, 1))
  IN own[l] < PerListener /\ Active + reserved < limit

\* mutant: a rejected connection gives back a place it never had
reject_release(l, c) ==
  /\ listening[l] = "on" /\ At(c, "new") /\ c \in Comers(l)
  /\ \E limit \in proxy_resource_headroom : ~Admits(l, limit)
  /\ via' = [via EXCEPT ![c] = l]
  /\ own' = [own EXCEPT ![l] = @ - 1]
  /\ Goto(c, "done") /\ closed' = closed \union {c}
  /\ UNCHANGED <<listening, late, device, current, answer, socket, retried,
                 registry, dnsVars, tunnelVars>>

(* The wait for capacity ends without any.                                 *)
reject(l, c) ==
  /\ listening[l] = "on" /\ At(c, "new") /\ c \in Comers(l)
  /\ \E limit \in proxy_resource_headroom : ~Admits(l, limit)
  /\ via' = [via EXCEPT ![c] = l]
  /\ Goto(c, "done") /\ closed' = closed \union {c}
  /\ UNCHANGED <<listening, capacityVars, device, current, answer, socket,
                 retried, registry, dnsVars, tunnelVars>>

\* mutant: a thread that does not start keeps its place
admit_leak(l, c) ==
  /\ listening[l] = "on" /\ At(c, "new") /\ c \in Comers(l)
  /\ \E limit \in proxy_resource_headroom : Admits(l, limit)
  /\ own' = [own EXCEPT ![l] = @ + 1]
  /\ \/ Goto(c, "spawned") /\ via' = [via EXCEPT ![c] = l] /\ UNCHANGED closed
     \/ Goto(c, "done") /\ closed' = closed \union {c} /\ UNCHANGED via
  /\ UNCHANGED <<listening, late, device, current, answer, socket, retried,
                 registry, dnsVars, tunnelVars>>

(* accept, the wait for capacity and the thread, which may not start: its  *)
(* place is given back.                                                    *)
admit(l, c) ==
  /\ listening[l] = "on" /\ At(c, "new") /\ c \in Comers(l)
  /\ \E limit \in proxy_resource_headroom : Admits(l, limit)
  /\ \/ /\ Goto(c, "spawned") /\ UNCHANGED closed
        /\ own' = [own EXCEPT ![l] = @ + 1] /\ via' = [via EXCEPT ![c] = l]
     \/ /\ Goto(c, "done") /\ closed' = closed \union {c}
        /\ UNCHANGED <<own, via>>
  /\ UNCHANGED <<listening, late, device, current, answer, socket, retried,
                 registry, dnsVars, tunnelVars>>
-----------------------------------------------------------------------------
(* The thread of a connection. *)

Inside == UNCHANGED <<listening, capacityVars, via, tunnelVars>>

add(c) ==
  /\ At(c, "spawned") /\ Goto(c, "added")
  /\ registry' = [registry EXCEPT ![via[c]] = @ \union {c}]
  /\ UNCHANGED <<device, current, answer, socket, retried, closed, dnsVars>> /\ Inside

resolve_device(c) ==
  /\ At(c, "added") /\ Goto(c, "request")
  /\ device' = [device EXCEPT ![c] = IF via[c] = Main THEN mainDevice ELSE SlotDevice]
  /\ UNCHANGED <<current, answer, socket, retried, socketVars, dnsVars>> /\ Inside

(* The SOCKS5 or HTTP request: refused (credentials, method, header, a     *)
(* closed socket), or a host to connect to.                                *)
proxy_client(c) ==
  /\ At(c, "request")
  /\ \/ c \notin closed /\ Goto(c, "lookup")
     \/ Goto(c, "finally")
  /\ UNCHANGED <<device, current, answer, socket, retried, socketVars, dnsVars>>
  /\ Inside

(* A cached answer, the lookup, or the lookup of another connection.       *)
resolve_dns(c) ==
  LET d == device[c] IN
  /\ At(c, "lookup")
  /\ \/ cache[d] # 0 /\ Goto(c, "connect") /\ UNCHANGED <<pending, current>>
     \/ /\ cache[d] = 0
        /\ current' = current \union {c}
        /\ \/ /\ pending[d] = None /\ Goto(c, "query")
              /\ pending' = [pending EXCEPT ![d] = c]
           \/ pending[d] # None /\ Goto(c, "join") /\ UNCHANGED pending
  /\ UNCHANGED <<device, answer, socket, retried, socketVars, cache, servers,
                 owner>> /\ Inside

(* UDP then TCP to each server, all through the tunnel, in a bounded time. *)
dns_query(c) ==
  /\ At(c, "query") /\ Goto(c, "answered")
  /\ answer' \in {[answer EXCEPT ![c] = e] :
                    e \in {0} \union IF device[c] \in up THEN {epoch[device[c]]} ELSE {}}
  /\ UNCHANGED <<device, current, socket, retried, socketVars, dnsVars>> /\ Inside

\* mutant: the generation is not compared before the answer is cached
publish_stale(c) ==
  LET d == device[c] IN
  /\ At(c, "answered")
  /\ cache' = [cache EXCEPT ![d] = IF answer[c] # 0 THEN answer[c] ELSE @]
  /\ pending' = [pending EXCEPT ![d] = None]
  /\ Goto(c, IF answer[c] # 0 THEN "connect" ELSE "finally")
  /\ UNCHANGED <<device, current, answer, socket, retried, socketVars,
                 servers, owner>> /\ Inside

(* An answer from before the last purge is dropped.                        *)
publish(c) ==
  LET d == device[c]
      good == answer[c] # 0 /\ c \in current
  IN /\ At(c, "answered")
     /\ cache' = [cache EXCEPT ![d] = IF good THEN answer[c] ELSE @]
     /\ pending' = [pending EXCEPT ![d] = None]
     /\ Goto(c, IF good THEN "connect" ELSE "finally")
     /\ current' = current \ {c} /\ answer' = [answer EXCEPT ![c] = 0]
     /\ UNCHANGED <<device, socket, retried, socketVars, servers,
                    owner>> /\ Inside

(* The owner has signalled, or the time is over.                           *)
join(c) ==
  LET d == device[c] IN
  /\ At(c, "join")
  /\ Goto(c, IF cache[d] # 0 /\ c \in current THEN "connect" ELSE "finally")
  /\ current' = current \ {c}
  /\ UNCHANGED <<device, answer, socket, retried, socketVars, dnsVars>>
  /\ Inside

(* A host that cannot be reached loses its cached answer and is tried once *)
(* more over IPv4.                                                         *)
create_connection(c) ==
  LET d == device[c] IN
  /\ At(c, "connect")
  /\ \/ /\ d \in up /\ socket' = [socket EXCEPT ![c] = epoch[d]]
        /\ Goto(c, "relay") /\ UNCHANGED <<retried, cache>>
     \/ /\ c \notin retried /\ retried' = retried \union {c}
        /\ cache' = [cache EXCEPT ![d] = 0]
        /\ Goto(c, "lookup") /\ UNCHANGED socket
     \/ Goto(c, "finally") /\ UNCHANGED <<retried, cache, socket>>
  /\ UNCHANGED <<device, current, answer, socketVars, pending, servers,
                 owner>> /\ Inside

(* Both ends at end of file, an error, five idle minutes, or the client    *)
(* socket was closed.                                                      *)
relay(c) ==
  /\ At(c, "relay") /\ Goto(c, "finally")
  /\ UNCHANGED <<device, current, answer, socket, retried, socketVars, dnsVars>>
  /\ Inside

(* The finally clauses: the sockets, the registry, and release.            *)
finish(c) ==
  /\ At(c, "finally") /\ Goto(c, "done")
  /\ registry' = [registry EXCEPT ![via[c]] = @ \ {c}]
  /\ closed' = closed \union {c}
  /\ own' = [own EXCEPT ![via[c]] = @ - 1]
  /\ device' = [device EXCEPT ![c] = None] /\ current' = current \ {c}
  /\ answer' = [answer EXCEPT ![c] = 0] /\ socket' = [socket EXCEPT ![c] = 0]
  /\ retried' = retried \ {c} /\ via' = [via EXCEPT ![c] = Main]
  /\ UNCHANGED <<listening, late, dnsVars, tunnelVars>>
-----------------------------------------------------------------------------
(* The tunnels, and the switch of the main connection. *)

Outside == UNCHANGED <<listening, capacityVars, pc, via, device, answer,
                       socket, retried>>

(* _purge_dns_cache_locked: the answers of the device, and its generation.  *)
Purge(d) == /\ cache' = [cache EXCEPT ![d] = 0]
            /\ current' = {c \in current : device[c] # d}

MayStart == epoch[MainDevice] <= MaxStarts
Switch(from, to) == mpc = from /\ mpc' = to

(* The process of the main connection is stopped and its device is again  *)
(* the first one.                                                          *)
stop_active_openvpn ==
  /\ Switch("idle", "stopped") /\ MayStart
  /\ up' = up \ {mainDevice}
  /\ mainDevice' = MainDevice
  /\ UNCHANGED <<epoch, verified, socketVars, dnsVars, current>> /\ Outside

(* _begin_openvpn_dns_lifecycle and the new process.                       *)
start_openvpn ==
  /\ Switch("stopped", "starting")
  /\ MayStart
  /\ epoch' = [epoch EXCEPT ![MainDevice] = @ + 1]
  /\ owner' = [owner EXCEPT ![MainDevice] = epoch'[MainDevice]]
  /\ servers' = [servers EXCEPT ![MainDevice] = 0]
  /\ up' = up \ {MainDevice}
  /\ Purge(MainDevice)
  /\ UNCHANGED <<mainDevice, verified, socketVars, pending>> /\ Outside

openvpn_ready ==
  /\ Switch("starting", "check")
  /\ up' = up \union {MainDevice}
  /\ UNCHANGED <<epoch, mainDevice, verified, socketVars, dnsVars, current>> /\ Outside

(* The process is stopped and its life cycle ended.                        *)
openvpn_failed ==
  /\ Switch("starting", "stopped")
  /\ owner' = [owner EXCEPT ![MainDevice] = 0]
  /\ servers' = [servers EXCEPT ![MainDevice] = 0]
  /\ Purge(MainDevice)
  /\ UNCHANGED <<epoch, up, mainDevice, verified, socketVars, pending>> /\ Outside

(* The tunnel of a standby, which is up, becomes the main connection.      *)
promote_standby ==
  /\ Switch("stopped", "reset") /\ StandbyDevice \in up
  /\ mainDevice' = StandbyDevice
  /\ UNCHANGED <<epoch, up, verified, socketVars, dnsVars, current>> /\ Outside

(* connect_node resets the connections only behind a working exit.         *)
check_proxy_health ==
  /\ mpc = "check"
  /\ \E ok \in BOOLEAN : mpc' = IF ok THEN "reset" ELSE "idle"
  /\ verified' = (mpc' = "reset")
  /\ UNCHANGED <<epoch, up, mainDevice, socketVars, dnsVars, current>> /\ Outside

(* A PUSH_REPLY read from the output of process e, which may be an earlier *)
(* one.  Servers that are registered already purge nothing.                *)
register_pushed_dns(d, e) ==
  /\ e \in 1..epoch[d] /\ owner[d] = e
  /\ servers[d] # e
  /\ servers' = [servers EXCEPT ![d] = e] /\ Purge(d)
  /\ UNCHANGED <<pending, owner, socketVars, tunnelVars>> /\ Outside

\* mutant: nobody is disconnected
close_none ==
  /\ Switch("reset", "closed")
  /\ UNCHANGED <<epoch, up, mainDevice, verified, socketVars, dnsVars, current>> /\ Outside

(* reset_main_proxy_connections: every registered connection, then the     *)
(* cache of the device.                                                    *)
close_all ==
  /\ Switch("reset", "closed")
  /\ closed' = closed \union registry[Main]
  /\ registry' = [registry EXCEPT ![Main] = {}]
  /\ verified' = TRUE
  /\ UNCHANGED <<epoch, up, mainDevice, dnsVars, current>> /\ Outside

purge_dns_cache ==
  /\ Switch("closed", "idle") /\ Purge(mainDevice)
  /\ UNCHANGED <<epoch, up, mainDevice, verified, socketVars, pending, servers,
                 owner>> /\ Outside
-----------------------------------------------------------------------------
Thread(c) ==
  \/ add(c) \/ resolve_device(c) \/ proxy_client(c) \/ resolve_dns(c)
  \/ dns_query(c) \/ publish(c) \/ join(c) \/ create_connection(c)
  \/ finish(c)
Listener(l) ==
  \E c \in Clients : admit(l, c) \/ reject(l, c)
MainSwitch == \/ stop_active_openvpn \/ start_openvpn \/ openvpn_ready
              \/ openvpn_failed \/ promote_standby \/ check_proxy_health
              \/ close_all \/ purge_dns_cache
Next == \/ \E c \in Clients : Thread(c) \/ relay(c)
        \/ \E l \in Listeners : Listener(l)
        \/ \E l \in Listeners : start_proxy_server(l) \/ unregister_listener(l)
        \/ MainSwitch
        \/ \E d \in Devices, e \in Epochs : register_pushed_dns(d, e)

Spec == Init /\ [][Next]_vars
-----------------------------------------------------------------------------
(* Every variable has its shape. *)
XTypeOK ==
  /\ listening \in [Listeners -> {"off", "on"}]
  /\ own \in [Listeners -> 0..PerListener]
  /\ late \subseteq Listeners
  /\ pc \in [Clients -> Pcs] /\ via \in [Clients -> Listeners]
  /\ device \in [Clients -> Devices \union {None}]
  /\ current \subseteq Clients /\ answer \in [Clients -> Epochs \union {0}]
  /\ socket \in [Clients -> Epochs \union {0}]
  /\ retried \subseteq Clients /\ closed \subseteq Clients
  /\ registry \in [Listeners -> SUBSET Clients]
  /\ cache \in [Devices -> Epochs \union {0}]
  /\ pending \in [Devices -> Clients \union {None}]
  /\ servers \in [Devices -> Epochs \union {0}] /\ owner \in [Devices -> Epochs \union {0}]
  /\ epoch \in [Devices -> Epochs] /\ up \subseteq Devices
  /\ mainDevice \in {MainDevice, StandbyDevice} /\ verified \in BOOLEAN
  /\ mpc \in {"idle", "stopped", "starting", "check", "reset", "closed"}

(* What holds in between: a thread has a device from its request on, only  *)
(* a registered connection is open, an answer is current only while the    *)
(* process it came through runs, and from the moment the connections are   *)
(* reset until the next switch the open ones are on the new tunnel.        *)
Threaded == {"request", "lookup", "query", "answered", "join", "connect", "relay"}
Sound(c) ==
  /\ pc[c] \in Threaded => device[c] \in Devices
  /\ pc[c] \in Threaded \union {"added", "finally"} =>
       c \in closed \union registry[via[c]]
  /\ pc[c] = "answered" /\ c \in current => answer[c] \in {0, epoch[device[c]]}
  /\ mpc \in {"closed", "idle"} /\ verified /\ pc[c] \in Threaded
       /\ via[c] = Main /\ c \notin closed =>
       /\ device[c] = mainDevice
       /\ pc[c] = "relay" => socket[c] = epoch[mainDevice]
XInv == /\ \A c \in Clients : Sound(c)
        /\ \A d \in Devices : owner[d] \in {0, epoch[d]}

(* The capacity counts the connections that hold a place, no more and no   *)
(* less, whatever way they end; a place is never given back twice.         *)
CapacityExact ==
  \A l \in Listeners :
    own[l] = Cardinality({c \in Clients : via[c] = l /\ pc[c] \in Held})

(* Once a switch to a working exit is over, an open connection of the main *)
(* listener goes through the tunnel that is the main connection now: none  *)
(* is left on the one before, whenever it was accepted.                    *)
NoStaleConnection ==
  mpc = "idle" /\ verified =>
    \A c \in Clients : At(c, "relay") /\ via[c] = Main /\ c \notin closed =>
      device[c] = mainDevice /\ socket[c] = epoch[mainDevice]

(* What a tunnel's cache and its server list hold was learnt through the   *)
(* process that runs on the device, never through an earlier one.          *)
DnsOfTunnel ==
  \A d \in Devices : cache[d] \in {0, epoch[d]} /\ servers[d] \in {0, epoch[d]}
=============================================================================
