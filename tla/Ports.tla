-------------------------------- MODULE Ports -------------------------------
(***************************************************************************)
(* Who answers on a port when campaigns follow each other on one host.     *)
(*                                                                         *)
(* run_scenario starts a server on a fixed port and takes whoever accepts  *)
(* there for it: wait_for_listener sees a connection, not a process.  A    *)
(* server that outlived its harness can therefore be measured in the name  *)
(* of a new one that failed to bind.  What stands against it is the        *)
(* finally block, which reaps every server or ends the campaign, and the   *)
(* preflight of a runner, which looks once, before its first scenario.     *)
(*                                                                         *)
(* Module Scenario has the inside of one scenario with its capture and its *)
(* timeouts; here a scenario is reduced to its ports and its processes,    *)
(* and the runners follow the plans of module Plans.  One campaign runs at *)
(* a time and no other program takes the ports.                            *)
(***************************************************************************)
EXTENDS Plans, FiniteSets

CONSTANTS Runners,  \* the runners, functions of a name: see RunnersAssumption
          MaxTurns  \* bound: how many campaigns are started

\* The plan a runner follows, the ports its preflight tries to bind and the
\* programs its preflight looks for among the running processes.
Plan(r) == Runners[r].plan
Names == DOMAIN Runners
AllSpecs == UNION {{Plan(r)[k] : k \in DOMAIN Plan(r)} : r \in Names}

ASSUME TurnsAssumption == MaxTurns \in Nat
ASSUME RunnersAssumption ==
    \A r \in Names : Plan(r) # <<>> /\ Plan(r) \in Seq(AllSpecs)
\* Without a proxy the client is pointed at the server, and no proxy listens
\* on a port that some server is started on.
ASSUME PortsAssumption ==
    \A s \in AllSpecs :
       /\ s.dial \in Nat /\ s.serve \in Nat /\ s.server \in STRING
       /\ IF s.proxied THEN \A t \in AllSpecs : s.dial # t.serve
                       ELSE s.dial = s.serve

\* A server or a proxy, named by the campaign and the scenario it belongs to.
Id == (1 .. MaxTurns) \X (Nat \ {0})
Nobody == <<>>

VARIABLES
    turn,       \* campaigns started so far
    runner,     \* the runner of the current campaign
    pos,        \* its place in the plan
    at,         \* where run_scenario is; "idle": no campaign is running
    raising,    \* an exception is on its way out
    server,     \* the server of the current scenario
    proxy,      \* the proxy of the current scenario listens
    orphans,    \* servers that outlived their harness's care
    lingering,  \* proxy threads left in accept, with their ports
    peer,       \* the server the client's connection ended at
    via,        \* the proxy it went through
    late,       \* history: orphans without a port when the preflight looked
    record      \* history: the record written last

vars == <<turn, runner, pos, at, raising, server, proxy, orphans, lingering,
          peer, via, late, record>>

Me == <<turn, pos>>
Current == Plan(runner)[pos]

\* The servers that accept on a port, and the proxies that do.
ServersOn(port) ==
    {o.id : o \in {x \in orphans : x.up /\ x.port = port}}
      \cup (IF server = "up" /\ Current.serve = port THEN {Me} ELSE {})
ProxiesOn(port) ==
    {l.id : l \in {x \in lingering : x.port = port}}
      \cup (IF proxy /\ Current.dial = port THEN {Me} ELSE {})
Free(port) == ServersOn(port) = {} /\ ProxiesOn(port) = {}

Init ==
    /\ turn = 0
    /\ runner \in Names
    /\ pos = 1
    /\ at = "idle"
    /\ raising = FALSE
    /\ server = "none"
    /\ proxy = FALSE
    /\ orphans = {}
    /\ lingering = {}
    /\ peer = Nobody
    /\ via = Nobody
    /\ late = {}
    /\ record = Nobody

-----------------------------------------------------------------------------
(***************************************************************************)
(* The runner.                                                             *)
(***************************************************************************)

\* Mutant: the ports are not looked at.
PreflightProcessesOnly(r) ==
    \A o \in orphans : o.program \notin Runners[r].sought

\* _port_free for every port of the runner's list, then pgrep.
Preflight(r) ==
    /\ \A port \in Runners[r].checked : Free(port)
    /\ \A o \in orphans : o.program \notin Runners[r].sought

Begin(r) ==
    /\ at = "idle"
    /\ turn < MaxTurns
    /\ Preflight(r)
    /\ turn' = turn + 1
    /\ runner' = r
    /\ pos' = 1
    /\ at' = "start"
    /\ late' = {o.id : o \in {x \in orphans : ~x.up}}
    /\ UNCHANGED <<raising, server, proxy, orphans, lingering, peer, via, record>>

\* subprocess.Popen(spec.server_cmd).
StartServer ==
    /\ at = "start"
    /\ server' = "starting"
    /\ at' = "listener"
    /\ UNCHANGED <<turn, runner, pos, raising, proxy, orphans, lingering, peer, via,
                   late, record>>

\* wait_for_listener: a connection to the port is accepted, by whomever.
ListenerSeen ==
    /\ at = "listener"
    /\ ServersOn(Current.serve) # {}
    /\ at' = IF Current.proxied THEN "proxy" ELSE "client"
    /\ UNCHANGED <<turn, runner, pos, raising, server, proxy, orphans, lingering,
                   peer, via, late, record>>

\* Five seconds without a listener, or an exception of another kind (tshark,
\* Ctrl-C) inside the try block before the proxy is started.
ListenerMissing ==
    /\ at = "listener"
    /\ at' = "reap"
    /\ raising' = TRUE
    /\ UNCHANGED <<turn, runner, pos, server, proxy, orphans, lingering,
                   peer, via, late, record>>

\* run_proxy binds and sets ready_event.
ProxyBinds ==
    /\ at = "proxy"
    /\ Free(Current.dial)
    /\ proxy' = TRUE
    /\ at' = "client"
    /\ UNCHANGED <<turn, runner, pos, raising, server, orphans, lingering,
                   peer, via, late, record>>

\* The proxy threads a scenario can leave behind when nobody connects.
Leaves(listens) ==
    lingering' = IF listens
                 THEN lingering \cup {[id |-> Me, port |-> Current.dial]}
                 ELSE lingering

\* Mutant: the five seconds pass and the client is started nevertheless.
ProxyNotAwaited ==
    /\ at = "proxy"
    /\ Leaves(FALSE)
    /\ at' = "client"
    /\ UNCHANGED <<turn, runner, pos, raising, server, proxy, orphans, peer, via,
                   late, record>>

\* Mutant: the failure is dropped and the run is recorded without a client.
ProxyFailureDropped ==
    /\ at = "proxy"
    /\ \E listens \in BOOLEAN : (listens => Free(Current.dial)) /\ Leaves(listens)
    /\ at' = "reap"
    /\ UNCHANGED <<turn, runner, pos, raising, server, proxy, orphans, peer, via,
                   late, record>>

\* bind raises, so ready_event is never set; or the thread is slower than
\* five seconds and listens afterwards.
ProxyNotReady ==
    /\ at = "proxy"
    /\ \E listens \in BOOLEAN : (listens => Free(Current.dial)) /\ Leaves(listens)
    /\ at' = "reap"
    /\ raising' = TRUE
    /\ UNCHANGED <<turn, runner, pos, server, proxy, orphans, peer, via, late, record>>

\* The client reaches the server on its port, or nobody: a client that fails
\* is a result like any other, one that outlasts 30 s (or Ctrl-C) raises.
ClientDirect ==
    /\ at = "client"
    /\ ~Current.proxied
    /\ \/ \E id \in ServersOn(Current.dial) : peer' = id
       \/ peer' = Nobody
    /\ raising' \in BOOLEAN
    /\ at' = "reap"
    /\ UNCHANGED <<turn, runner, pos, server, proxy, orphans, lingering, via, late, record>>

\* The client reaches the proxy on its port.  The proxy connects upstream;
\* when nobody listens there it raises and run_scenario raises "proxy failed".
ClientProxied ==
    /\ at = "client"
    /\ Current.proxied
    /\ \E id \in ProxiesOn(Current.dial) : via' = id
    /\ \/ \E id \in ServersOn(Current.serve) : peer' = id /\ raising' \in BOOLEAN
       \/ ServersOn(Current.serve) = {} /\ peer' = Nobody /\ raising' = TRUE
    /\ proxy' = FALSE
    /\ at' = "reap"
    /\ UNCHANGED <<turn, runner, pos, server, orphans, lingering, late, record>>

\* The client never connects: the proxy thread stays in accept, which the
\* join with its timeout does not change.
ClientNeverDials ==
    /\ at = "client"
    /\ Current.proxied
    /\ Leaves(proxy)
    /\ proxy' = FALSE
    /\ peer' = Nobody
    /\ via' = Nobody
    /\ raising' \in BOOLEAN
    /\ at' = "reap"
    /\ UNCHANGED <<turn, runner, pos, server, orphans, late, record>>

\* The record is written and the plan goes on, or the exception ends the
\* campaign.
Conclude ==
    IF raising
    THEN at' = "idle" /\ raising' = FALSE /\ UNCHANGED <<pos, record>>
    ELSE /\ record' = [id |-> Me, runner |-> runner, peer |-> peer, via |-> via,
                       late |-> late]
         /\ raising' = FALSE
         /\ at' = IF pos = Len(Plan(runner)) THEN "idle" ELSE "start"
         /\ pos' = IF pos = Len(Plan(runner)) THEN pos ELSE pos + 1

\* The connection is over.
Forget == peer' = Nobody /\ via' = Nobody

\* server.terminate(); server.wait(timeout=5) returns.
Reap ==
    /\ at = "reap"
    /\ Conclude
    /\ server' = "none"
    /\ Forget
    /\ UNCHANGED <<turn, runner, proxy, orphans, lingering, late>>

\* The server of the current scenario lives on by itself.
Abandoned ==
    IF server \in {"starting", "up"}
    THEN orphans \cup {[id |-> Me, program |-> Current.server,
                        port |-> Current.serve, up |-> server = "up"]}
    ELSE orphans

\* Mutant: TimeoutExpired is swallowed and the campaign goes on.
OutlivesUnnoticed ==
    /\ at = "reap"
    /\ server \in {"starting", "up"}
    /\ orphans' = Abandoned
    /\ server' = "none"
    /\ Conclude
    /\ Forget
    /\ UNCHANGED <<turn, runner, proxy, lingering, late>>

\* server.wait raises TimeoutExpired (or Ctrl-C arrives in it): the exception
\* leaves run_scenario and the campaign.
Outlives ==
    /\ at = "reap"
    /\ server \in {"starting", "up"}
    /\ orphans' = Abandoned
    /\ server' = "none"
    /\ at' = "idle"
    /\ raising' = FALSE
    /\ Forget
    /\ UNCHANGED <<turn, runner, pos, proxy, lingering, late, record>>

-----------------------------------------------------------------------------
(***************************************************************************)
(* The processes and the user.                                             *)
(***************************************************************************)

\* bind and listen of the current server.
ServerBinds ==
    /\ server = "starting"
    /\ Free(Current.serve)
    /\ server' = "up"
    /\ UNCHANGED <<turn, runner, pos, at, raising, proxy, orphans, lingering,
                   peer, via, late, record>>

\* It finds its port taken, or dies of something else.
ServerExits ==
    /\ server \in {"starting", "up"}
    /\ server' = "gone"
    /\ UNCHANGED <<turn, runner, pos, at, raising, proxy, orphans, lingering,
                   peer, via, late, record>>

\* An orphan that was still starting reaches its own bind.
OrphanBinds(o) ==
    /\ ~o.up
    /\ Free(o.port)
    /\ orphans' = (orphans \ {o}) \cup {[o EXCEPT !.up = TRUE]}
    /\ UNCHANGED <<turn, runner, pos, at, raising, server, proxy, lingering,
                   peer, via, late, record>>

OrphanExits(o) ==
    /\ orphans' = orphans \ {o}
    /\ UNCHANGED <<turn, runner, pos, at, raising, server, proxy, lingering,
                   peer, via, late, record>>

\* SIGKILL of the harness: no finally block runs, the server lives on and the
\* proxy threads of the process end with it.
Killed ==
    /\ at # "idle"
    /\ orphans' = Abandoned
    /\ server' = "none"
    /\ proxy' = FALSE
    /\ lingering' = {l \in lingering : l.id[1] # turn}
    /\ at' = "idle"
    /\ raising' = FALSE
    /\ Forget
    /\ UNCHANGED <<turn, runner, pos, late, record>>

\* A harness that cannot exit for its proxy thread is killed.
Released ==
    /\ at = "idle"
    /\ \E l \in lingering :
          lingering' = {x \in lingering : x.id[1] # l.id[1]}
    /\ UNCHANGED <<turn, runner, pos, at, raising, server, proxy, orphans,
                   peer, via, late, record>>

Next ==
    \/ \E r \in Names : Begin(r)
    \/ StartServer \/ ListenerSeen \/ ListenerMissing
    \/ ProxyBinds \/ ProxyNotReady
    \/ ClientDirect \/ ClientProxied \/ ClientNeverDials
    \/ Reap \/ Outlives
    \/ ServerBinds \/ ServerExits
    \/ \E o \in orphans : OrphanBinds(o) \/ OrphanExits(o)
    \/ Killed \/ Released

Spec == Init /\ [][Next]_vars

-----------------------------------------------------------------------------
(***************************************************************************)
(* Properties.                                                             *)
(***************************************************************************)

Orphan == [id : Id, program : STRING, port : Nat, up : BOOLEAN]
Proxy == [id : Id, port : Nat]
Record == [id : Id, runner : Names, peer : Id \cup {Nobody},
           via : Id \cup {Nobody}, late : SUBSET Id]

\* Type correctness: the runner is always at a scenario of its plan.
TypeOK ==
    /\ turn \in 0 .. MaxTurns
    /\ runner \in Names
    /\ pos \in 1 .. Len(Plan(runner))
    /\ at \in {"idle", "start", "listener", "proxy", "client", "reap"}
    /\ at # "idle" => turn # 0
    /\ raising \in BOOLEAN
    /\ server \in {"none", "starting", "up", "gone"}
    /\ proxy \in BOOLEAN
    /\ orphans \subseteq Orphan
    /\ lingering \subseteq Proxy
    /\ peer \in Id \cup {Nobody}
    /\ via \in Id \cup {Nobody}
    /\ late \subseteq Id
    /\ record \in Record \cup {Nobody}

Recorded == record # Nobody
\* The spec the last record is about.
RecordedSpec == Plan(record.runner)[record.id[2]]

\* Inside a campaign a server never answers for another: the finally block
\* has reaped the server of every earlier scenario of the campaign, so a
\* record's foreign peer, if there is one, is of an earlier campaign.
OwnOrEarlierCampaign ==
    Recorded /\ record.peer # Nobody =>
       record.peer = record.id \/ record.peer[1] < record.id[1]

\* What the one look of a preflight is worth, for every scenario after it: in
\* a campaign that checked the port, the peer is the scenario's own server,
\* unless it is an orphan that had not yet bound its port when the preflight
\* looked.
CheckedIsOwn ==
    /\ Recorded
    /\ RecordedSpec.serve \in Runners[record.runner].checked
    /\ record.peer # Nobody
    => record.peer = record.id \/ record.peer \in record.late

\* A proxied client is never measured through another scenario's proxy, nor
\* past its own: when proxy_ready was not seen, run_scenario does not go on.
OwnProxy ==
    Recorded /\ RecordedSpec.proxied =>
       /\ record.via \in {record.id, Nobody}
       /\ record.peer # Nobody => record.via = record.id

\* A proxy thread left in accept keeps its port, so its campaign records no
\* later scenario on that port.
LeakIsLast ==
    \A l \in lingering :
       Recorded /\ record.id[1] = l.id[1] /\ RecordedSpec.dial = l.port =>
          record.id[2] <= l.id[2]
=============================================================================
