----------------------------- MODULE PortsProofs ----------------------------
(***************************************************************************)
(* Who can have answered a recorded client, for every set of runners with  *)
(* any plans and any number of campaigns.                                  *)
(***************************************************************************)
EXTENDS Ports, TLAPS

\* The places of run_scenario at which a server, a proxy and a connection can
\* exist.
Places ==
    /\ at \in {"idle", "start"} => server = "none"
    /\ proxy => at = "client" /\ Current.proxied
    /\ at = "client" /\ Current.proxied => proxy
    /\ at = "proxy" => Current.proxied
    /\ at \in {"idle", "start", "listener", "proxy", "client"} =>
          peer = Nobody /\ via = Nobody /\ raising = FALSE

\* While a campaign runs, every orphan is of an earlier campaign.
Elders ==
    \A o \in orphans :
       /\ o.id[1] <= turn
       /\ at # "idle" => o.id[1] < turn

\* While a campaign runs, an orphan on a port that its preflight checked was
\* without a port when the preflight looked.
Looked ==
    at # "idle" =>
    \A o \in orphans :
       o.id \in late \/ (o.up /\ o.port \notin Runners[runner].checked)

\* Whom the client of the scenario that is being reaped has reached.
Met ==
    at = "reap" =>
       /\ peer # Nobody =>
             \/ peer = Me
             \/ /\ peer[1] < turn
                /\ Current.serve \in Runners[runner].checked => peer \in late
       /\ Current.proxied =>
             /\ via \in {Me, Nobody}
             /\ peer # Nobody => via = Me

\* Lingering proxies hold ports of proxied scenarios; the scenario that is to
\* be recorded has not got its port from one of them.
Leaked ==
    /\ \A l \in lingering : \E s \in AllSpecs : s.proxied /\ s.dial = l.port
    /\ at = "client" /\ Current.proxied => \A l \in lingering : l.port # Current.dial
    /\ at = "reap" /\ raising = FALSE =>
          \A l \in lingering : l.port = Current.dial => l.id = Me

\* The last record is about a scenario of its runner's plan, and the current
\* campaign has not recorded more than its position.
Past ==
    record # Nobody =>
       /\ record.id[2] \in 1 .. Len(Plan(record.runner))
       /\ record.id[1] <= turn
       /\ record.id[1] = turn => record.id[2] <= pos

\* Safety in the form that every step preserves.
IndInv ==
    /\ TypeOK /\ Places /\ Elders /\ Looked /\ Met /\ Leaked /\ Past
    /\ OwnOrEarlierCampaign /\ CheckedIsOwn /\ OwnProxy /\ LeakIsLast

-----------------------------------------------------------------------------

\* The current scenario is one of the plans', and has a name of its own.
LEMMA CurrentSpec ==
    ASSUME TypeOK
    PROVE  /\ Current \in AllSpecs
           /\ Current.dial \in Nat /\ Current.serve \in Nat /\ Current.server \in STRING
           /\ Current.proxied => \A t \in AllSpecs : Current.dial # t.serve
           /\ ~Current.proxied => Current.dial = Current.serve
           /\ pos \in Nat \ {0} /\ turn \in Nat /\ Len(Plan(runner)) \in Nat
           /\ turn # 0 => Me \in Id
<1>1. /\ runner \in Names /\ pos \in 1 .. Len(Plan(runner)) /\ turn \in 0 .. MaxTurns
      /\ MaxTurns \in Nat
  BY TurnsAssumption DEF TypeOK
<1>2. Plan(runner) \in Seq(AllSpecs)
  BY <1>1, RunnersAssumption
<1>3. Current \in AllSpecs /\ Len(Plan(runner)) \in Nat
  BY <1>1, <1>2 DEF Current
<1>4. /\ Current.dial \in Nat /\ Current.serve \in Nat /\ Current.server \in STRING
      /\ Current.proxied => \A t \in AllSpecs : Current.dial # t.serve
      /\ ~Current.proxied => Current.dial = Current.serve
  BY <1>3, PortsAssumption
<1>5. pos \in Nat \ {0} /\ turn \in Nat /\ (turn # 0 => Me \in Id)
  BY <1>1, <1>3 DEF Me, Id
<1> QED
  BY <1>3, <1>4, <1>5

\* Who accepts on a port: the scenario's own server or an orphan.
LEMMA Answering ==
    ASSUME TypeOK, Elders, Looked, at # "idle", NEW port, NEW id \in ServersOn(port)
    PROVE  /\ id \in Id
           /\ \/ id = Me
              \/ /\ id[1] < turn
                 /\ port \in Runners[runner].checked => id \in late
<1>1. CASE id = Me
  BY <1>1, CurrentSpec DEF TypeOK
<1>2. CASE \E o \in orphans : o.up /\ o.port = port /\ o.id = id
  <2>1. PICK o \in orphans : o.up /\ o.port = port /\ o.id = id
    BY <1>2
  <2>2. o.id \in Id
    BY DEF TypeOK, Orphan
  <2>3. o.id[1] < turn
    BY DEF Elders
  <2>4. o.port \in Runners[runner].checked => o.id \in late
    BY DEF Looked
  <2> QED
    BY <2>1, <2>2, <2>3, <2>4
<1> QED
  BY <1>1, <1>2 DEF ServersOn

\* The proxy a proxied client finds on its port is its own.
LEMMA OwnListener ==
    ASSUME TypeOK, Leaked, at = "client", Current.proxied,
           NEW id \in ProxiesOn(Current.dial)
    PROVE  id = Me
  BY DEF ProxiesOn, Leaked

\* A step that writes no record keeps what the last one says.
LEMMA RecordKept ==
    ASSUME IndInv, UNCHANGED <<turn, pos, record>>
    PROVE  Past' /\ OwnOrEarlierCampaign' /\ CheckedIsOwn' /\ OwnProxy'
<1>1. Past'
  BY DEF IndInv, Past
<1>2. OwnOrEarlierCampaign' /\ CheckedIsOwn' /\ OwnProxy'
  BY DEF IndInv, OwnOrEarlierCampaign, CheckedIsOwn, OwnProxy, Recorded, RecordedSpec
<1> QED
  BY <1>1, <1>2

\* So does a step that releases proxies, of what it says about them.
LEMMA NoNewLeak ==
    ASSUME IndInv, lingering' \subseteq lingering, UNCHANGED record
    PROVE  LeakIsLast'
  BY DEF IndInv, LeakIsLast, Recorded, RecordedSpec

\* A step inside a campaign that leaves the orphans alone.
LEMMA OrphansKept ==
    ASSUME IndInv, UNCHANGED <<turn, runner, orphans, late>>,
           at' # "idle" => at # "idle"
    PROVE  Elders' /\ Looked'
  BY DEF IndInv, Elders, Looked

-----------------------------------------------------------------------------

\* Nobody has run anything yet.
LEMMA InitIndInv == Init => IndInv
<1> SUFFICES ASSUME Init PROVE IndInv
  OBVIOUS
<1>1. TypeOK
  <2>1. /\ Plan(runner) # <<>> /\ Plan(runner) \in Seq(AllSpecs)
    BY RunnersAssumption DEF Init
  <2>2. 1 \in 1 .. Len(Plan(runner))
    BY <2>1
  <2>3. turn \in 0 .. MaxTurns
    BY TurnsAssumption DEF Init
  <2> QED
    BY <2>2, <2>3 DEF Init, TypeOK
<1>2. /\ Places /\ Elders /\ Looked /\ Met /\ Leaked /\ Past
      /\ OwnOrEarlierCampaign /\ CheckedIsOwn /\ OwnProxy /\ LeakIsLast
  BY DEF Init, Places, Elders, Looked, Met, Leaked, Past, OwnOrEarlierCampaign,
     CheckedIsOwn, OwnProxy, LeakIsLast, Recorded
<1> QED
  BY <1>1, <1>2 DEF IndInv

\* A campaign begins: every orphan becomes an elder, and those on checked ports
\* are late ones.
LEMMA BeginIndInv == \A r \in Names : IndInv /\ Begin(r) => IndInv'
<1> SUFFICES ASSUME NEW r \in Names, IndInv, Begin(r) PROVE IndInv'
  OBVIOUS
<1>0. /\ TypeOK /\ at = "idle" /\ at' = "start" /\ turn < MaxTurns /\ Preflight(r)
      /\ turn' = turn + 1 /\ runner' = r /\ pos' = 1 /\ turn \in Nat /\ MaxTurns \in Nat
      /\ late' = {o.id : o \in {x \in orphans : ~x.up}}
      /\ UNCHANGED <<raising, server, proxy, orphans, lingering, peer, via, record>>
  BY TurnsAssumption DEF IndInv, Begin, TypeOK
<1>1. TypeOK'
  <2>1. /\ Plan(r) # <<>> /\ Plan(r) \in Seq(AllSpecs)
    BY RunnersAssumption
  <2>2. 1 \in 1 .. Len(Plan(r))
    BY <2>1
  <2>3. late' \subseteq Id
    BY <1>0 DEF TypeOK, Orphan
  <2> QED
    BY <1>0, <2>2, <2>3 DEF TypeOK
<1>2. Elders'
  BY <1>0 DEF IndInv, Elders, TypeOK, Orphan, Id
<1>3. Looked'
  <2> SUFFICES ASSUME NEW o \in orphans, ~(o.id \in late')
               PROVE  o.up /\ o.port \notin Runners[r].checked
    BY <1>0 DEF Looked
  <2>1. o.up
    BY <1>0
  <2>2. o.id \in ServersOn(o.port)
    BY <2>1 DEF ServersOn
  <2> QED
    BY <1>0, <2>1, <2>2 DEF Preflight, Free
<1>4. Places' /\ Met' /\ Leaked'
  BY <1>0 DEF IndInv, Places, Met, Leaked
<1>5. Past'
  BY <1>0 DEF IndInv, Past, TypeOK, Record, Id
<1>6. OwnOrEarlierCampaign' /\ CheckedIsOwn' /\ OwnProxy'
  BY <1>0 DEF IndInv, OwnOrEarlierCampaign, CheckedIsOwn, OwnProxy, Recorded, RecordedSpec
<1>7. LeakIsLast'
  BY <1>0, NoNewLeak
<1> QED
  BY <1>1, <1>2, <1>3, <1>4, <1>5, <1>6, <1>7 DEF IndInv

\* The steps before the client: the server is started and waited for.
LEMMA PrepareIndInv ==
    ASSUME IndInv, StartServer \/ ListenerSeen \/ ListenerMissing
    PROVE  IndInv'
<1>0. /\ TypeOK /\ at \in {"start", "listener"} /\ at' \in {"listener", "proxy", "client", "reap"}
      /\ server' \in {server, "starting"}
      /\ raising' \in BOOLEAN
      /\ at' = "reap" => raising' = TRUE
      /\ at' # "reap" => raising' = raising
      /\ at' = "client" => ~Current.proxied
      /\ at' = "proxy" => Current.proxied
      /\ UNCHANGED <<turn, runner, pos, proxy, orphans, lingering, peer, via, late, record>>
  BY DEF IndInv, TypeOK, StartServer, ListenerSeen, ListenerMissing
<1>1. TypeOK'
  BY <1>0 DEF TypeOK
<1>2. Current' = Current /\ Me' = Me
  BY <1>0 DEF Current, Me
<1>3. Places'
  BY <1>0, <1>2 DEF IndInv, Places
<1>4. Elders' /\ Looked'
  BY <1>0, OrphansKept
<1>5. Met'
  BY <1>0, <1>2 DEF IndInv, Met, Places
<1>6. Leaked'
  BY <1>0, <1>2 DEF IndInv, Leaked
<1> QED
  BY <1>0, <1>1, <1>3, <1>4, <1>5, <1>6, RecordKept, NoNewLeak DEF IndInv

\* A scenario that leaves its proxy behind, or none.
LEMMA LeavesKeeps ==
    ASSUME IndInv, NEW listens, Leaves(listens), at # "idle", Current.proxied,
           UNCHANGED <<turn, pos, record>>
    PROVE  /\ lingering' \subseteq Proxy
           /\ \A l \in lingering' : l \in lingering \/ (l.id = Me /\ l.port = Current.dial)
           /\ \A l \in lingering' : \E s \in AllSpecs : s.proxied /\ s.dial = l.port
           /\ LeakIsLast'
<1>0. /\ TypeOK /\ Me \in Id /\ Current.dial \in Nat /\ Current \in AllSpecs
  BY CurrentSpec DEF IndInv, TypeOK
<1>1. \A l \in lingering' : l \in lingering \/ (l.id = Me /\ l.port = Current.dial)
  BY DEF Leaves
<1>2. lingering' \subseteq Proxy
  BY <1>0 DEF Leaves, TypeOK, Proxy
<1>3. \A l \in lingering' : \E s \in AllSpecs : s.proxied /\ s.dial = l.port
  BY <1>0, <1>1 DEF IndInv, Leaked
<1>4. LeakIsLast'
  <2> SUFFICES ASSUME NEW l \in lingering', Recorded, record.id[1] = l.id[1],
                      RecordedSpec.dial = l.port
               PROVE  record.id[2] <= l.id[2]
    BY DEF LeakIsLast, Recorded, RecordedSpec
  <2>1. CASE l \in lingering
    BY <2>1 DEF IndInv, LeakIsLast
  <2>2. CASE l.id = Me
    <3>1. record.id[1] = turn => record.id[2] <= pos
      BY DEF IndInv, Past, Recorded
    <3>2. l.id[1] = turn /\ l.id[2] = pos
      BY <2>2 DEF Me
    <3> QED
      BY <3>1, <3>2
  <2> QED
    BY <1>1, <2>1, <2>2
<1> QED
  BY <1>1, <1>2, <1>3, <1>4

\* The proxy is started.
LEMMA ProxyIndInv ==
    ASSUME IndInv, ProxyBinds \/ ProxyNotReady
    PROVE  IndInv'
<1>0. /\ TypeOK /\ at = "proxy" /\ Current.proxied
      /\ UNCHANGED <<turn, runner, pos, server, orphans, peer, via, late, record>>
  BY DEF IndInv, Places, ProxyBinds, ProxyNotReady
<1>2. Current' = Current /\ Me' = Me
  BY <1>0 DEF Current, Me
<1>3. CASE ProxyBinds
  <2>0. /\ Free(Current.dial) /\ proxy' = TRUE /\ at' = "client"
        /\ UNCHANGED <<raising, lingering>>
    BY <1>3 DEF ProxyBinds
  <2>1. TypeOK'
    BY <1>0, <2>0 DEF TypeOK
  <2>2. Places' /\ Met'
    BY <1>0, <1>2, <2>0 DEF IndInv, Places, Met
  <2>3. Elders' /\ Looked'
    BY <1>0, <2>0, OrphansKept
  <2>4. \A l \in lingering : l.port # Current.dial
    BY <2>0 DEF Free, ProxiesOn
  <2>5. Leaked'
    BY <1>0, <1>2, <2>0, <2>4 DEF IndInv, Leaked
  <2> QED
    BY <1>0, <2>0, <2>1, <2>2, <2>3, <2>5, RecordKept, NoNewLeak DEF IndInv
<1>4. CASE ProxyNotReady
  <2>0. /\ at' = "reap" /\ raising' = TRUE /\ UNCHANGED proxy
    BY <1>4 DEF ProxyNotReady
  <2>1. PICK listens \in BOOLEAN : Leaves(listens)
    BY <1>4 DEF ProxyNotReady
  <2>2. /\ lingering' \subseteq Proxy
        /\ \A l \in lingering' : \E s \in AllSpecs : s.proxied /\ s.dial = l.port
        /\ LeakIsLast'
    BY <1>0, <2>1, LeavesKeeps
  <2>3. TypeOK'
    BY <1>0, <2>0, <2>2 DEF TypeOK
  <2>4. Places' /\ Met'
    BY <1>0, <1>2, <2>0 DEF IndInv, Places, Met
  <2>5. Elders' /\ Looked'
    BY <1>0, <2>0, OrphansKept
  <2>6. Leaked'
    BY <1>0, <2>0, <2>2 DEF Leaked
  <2> QED
    BY <1>0, <2>2, <2>3, <2>4, <2>5, <2>6, RecordKept DEF IndInv
<1> QED
  BY <1>3, <1>4

\* The client runs, with and without a proxy.
LEMMA ClientIndInv ==
    ASSUME IndInv, ClientDirect \/ ClientProxied \/ ClientNeverDials
    PROVE  IndInv'
<1>0. /\ TypeOK /\ at = "client" /\ at' = "reap" /\ raising' \in BOOLEAN
      /\ UNCHANGED <<turn, runner, pos, server, orphans, late, record>>
      /\ peer = Nobody /\ via = Nobody /\ at # "idle" /\ turn # 0
  BY DEF IndInv, Places, TypeOK, ClientDirect, ClientProxied, ClientNeverDials
<1>2. Current' = Current /\ Me' = Me
  BY <1>0 DEF Current, Me
<1>3. Elders' /\ Looked'
  BY <1>0, OrphansKept
<1>4. /\ Me \in Id
      /\ Current.proxied => \A t \in AllSpecs : Current.dial # t.serve
      /\ ~Current.proxied => Current.dial = Current.serve
      /\ Current \in AllSpecs
  BY <1>0, CurrentSpec
<1>5. \A port : \A id \in ServersOn(port) :
        /\ id \in Id
        /\ \/ id = Me
           \/ /\ id[1] < turn
              /\ port \in Runners[runner].checked => id \in late
  BY <1>0, Answering DEF IndInv
<1>6. CASE ClientDirect
  <2>0. /\ ~Current.proxied /\ UNCHANGED <<proxy, lingering, via>>
        /\ peer' = Nobody \/ peer' \in ServersOn(Current.dial)
    BY <1>6 DEF ClientDirect
  <2>1. /\ peer' \in Id \cup {Nobody}
        /\ peer' # Nobody =>
             \/ peer' = Me
             \/ /\ peer'[1] < turn
                /\ Current.serve \in Runners[runner].checked => peer' \in late
    BY <1>4, <1>5, <2>0
  <2>2. proxy = FALSE
    BY <1>0, <2>0 DEF IndInv, Places, TypeOK
  <2>3. TypeOK'
    BY <1>0, <2>0, <2>1 DEF TypeOK
  <2>4. Places'
    BY <1>0, <1>2, <2>0, <2>2 DEF Places
  <2>5. Met'
    BY <1>0, <1>2, <2>0, <2>1 DEF Met
  <2>6. Leaked'
    <3>1. \A l \in lingering : l.port # Current.dial
      <4>1. \A s \in AllSpecs : s.proxied => s.dial # Current.serve
        BY <1>4, PortsAssumption
      <4> QED
        BY <1>4, <2>0, <4>1 DEF IndInv, Leaked
    <3> QED
      BY <1>0, <1>2, <2>0, <3>1 DEF IndInv, Leaked
  <2> QED
    BY <1>0, <1>3, <2>0, <2>3, <2>4, <2>5, <2>6, RecordKept, NoNewLeak DEF IndInv
<1>7. CASE ClientProxied
  <2>0. /\ Current.proxied /\ proxy' = FALSE /\ UNCHANGED lingering
        /\ via' \in ProxiesOn(Current.dial)
        /\ peer' = Nobody \/ peer' \in ServersOn(Current.serve)
    BY <1>7 DEF ClientProxied
  <2>1. /\ peer' \in Id \cup {Nobody}
        /\ peer' # Nobody =>
             \/ peer' = Me
             \/ /\ peer'[1] < turn
                /\ Current.serve \in Runners[runner].checked => peer' \in late
    BY <1>5, <2>0
  <2>2. via' = Me
    BY <1>0, <2>0, OwnListener DEF IndInv
  <2>3. TypeOK'
    BY <1>0, <1>4, <2>0, <2>1, <2>2 DEF TypeOK
  <2>4. Places'
    BY <1>0, <2>0 DEF Places
  <2>5. Met'
    BY <1>0, <1>2, <2>0, <2>1, <2>2 DEF Met
  <2>6. Leaked'
    BY <1>0, <1>2, <2>0 DEF IndInv, Leaked
  <2> QED
    BY <1>0, <1>3, <2>0, <2>3, <2>4, <2>5, <2>6, RecordKept, NoNewLeak DEF IndInv
<1>8. CASE ClientNeverDials
  <2>0. /\ Current.proxied /\ proxy' = FALSE /\ Leaves(proxy)
        /\ peer' = Nobody /\ via' = Nobody
    BY <1>8 DEF ClientNeverDials
  <2>1. /\ lingering' \subseteq Proxy
        /\ \A l \in lingering' : l \in lingering \/ (l.id = Me /\ l.port = Current.dial)
        /\ \A l \in lingering' : \E s \in AllSpecs : s.proxied /\ s.dial = l.port
        /\ LeakIsLast'
    BY <1>0, <2>0, LeavesKeeps
  <2>2. TypeOK'
    BY <1>0, <2>0, <2>1 DEF TypeOK
  <2>3. Places' /\ Met'
    BY <1>0, <2>0 DEF Places, Met
  <2>4. Leaked'
    BY <1>0, <1>2, <2>0, <2>1 DEF IndInv, Leaked
  <2> QED
    BY <1>0, <1>3, <2>1, <2>2, <2>3, <2>4, RecordKept DEF IndInv
<1> QED
  BY <1>6, <1>7, <1>8

\* The scenario ends and is recorded, or its exception ends the campaign.
LEMMA ReapIndInv == IndInv /\ Reap => IndInv'
<1> SUFFICES ASSUME IndInv, Reap PROVE IndInv'
  OBVIOUS
<1>0. /\ TypeOK /\ at = "reap" /\ server' = "none" /\ peer' = Nobody /\ via' = Nobody
      /\ raising' = FALSE /\ turn # 0 /\ at # "idle"
      /\ UNCHANGED <<turn, runner, proxy, orphans, lingering, late>>
  BY DEF IndInv, TypeOK, Reap, Conclude, Forget
<1>1. /\ Me \in Id /\ pos \in Nat \ {0} /\ Len(Plan(runner)) \in Nat /\ turn \in Nat
      /\ pos \in 1 .. Len(Plan(runner)) /\ runner \in Names
      /\ peer \in Id \cup {Nobody} /\ via \in Id \cup {Nobody} /\ late \subseteq Id
  BY <1>0, CurrentSpec DEF TypeOK
<1>2. proxy = FALSE
  BY <1>0 DEF IndInv, Places, TypeOK
<1>3. Elders' /\ Looked'
  BY <1>0, OrphansKept
<1>4. CASE raising
  <2>0. at' = "idle" /\ UNCHANGED <<pos, record>>
    BY <1>4 DEF Reap, Conclude
  <2>1. TypeOK'
    BY <1>0, <2>0 DEF TypeOK
  <2>2. Places' /\ Met'
    BY <1>0, <1>2, <2>0 DEF Places, Met
  <2>3. Leaked'
    BY <1>0, <2>0 DEF IndInv, Leaked
  <2> QED
    BY <1>0, <1>3, <2>0, <2>1, <2>2, <2>3, RecordKept, NoNewLeak DEF IndInv
<1>5. CASE ~raising
  <2> DEFINE rec == [id |-> Me, runner |-> runner, peer |-> peer, via |-> via, late |-> late]
  <2>0. /\ record' = rec /\ at' \in {"idle", "start"}
        /\ pos' \in {pos, pos + 1} /\ pos' \in 1 .. Len(Plan(runner))
    <3>1. /\ record' = rec /\ at' \in {"idle", "start"}
          /\ pos' = IF pos = Len(Plan(runner)) THEN pos ELSE pos + 1
      BY <1>5 DEF Reap, Conclude
    <3> QED
      BY <3>1, <1>1
  <2>1. rec \in Record
    BY <1>1 DEF Record
  <2>2. /\ rec # Nobody /\ rec.id = Me /\ rec.runner = runner /\ rec.peer = peer
        /\ rec.via = via /\ rec.late = late
    BY DEF Nobody
  <2>3. Me[1] = turn /\ Me[2] = pos /\ Plan(runner)[Me[2]] = Current
    BY DEF Me, Current
  <2> HIDE DEF rec
  <2>4. TypeOK'
    BY <1>0, <2>0, <2>1 DEF TypeOK
  <2>5. Places' /\ Met'
    BY <1>0, <1>2, <2>0 DEF Places, Met
  <2>6. Leaked'
    BY <1>0, <2>0 DEF IndInv, Leaked
  <2>7. Past'
    BY <1>0, <1>1, <2>0, <2>2, <2>3 DEF Past
  <2>8. /\ Recorded' /\ RecordedSpec' = Current
    BY <2>0, <2>2, <2>3 DEF Recorded, RecordedSpec
  <2>9. /\ peer # Nobody =>
             \/ peer = Me
             \/ /\ peer[1] < turn
                /\ Current.serve \in Runners[runner].checked => peer \in late
        /\ Current.proxied =>
             /\ via \in {Me, Nobody}
             /\ peer # Nobody => via = Me
    BY <1>0 DEF IndInv, Met
  <2>10. OwnOrEarlierCampaign'
    BY <2>0, <2>2, <2>3, <2>9 DEF OwnOrEarlierCampaign
  <2>11. CheckedIsOwn'
    BY <2>0, <2>2, <2>8, <2>9 DEF CheckedIsOwn
  <2>12. OwnProxy'
    BY <2>0, <2>2, <2>8, <2>9 DEF OwnProxy
  <2>13. LeakIsLast'
    <3>1. \A l \in lingering : l.port = Current.dial => l.id = Me
      BY <1>0, <1>5 DEF IndInv, Leaked, TypeOK
    <3> QED
      BY <1>0, <1>1, <2>0, <2>2, <2>8, <3>1, <2>3 DEF LeakIsLast
  <2> QED
    BY <1>3, <2>4, <2>5, <2>6, <2>7, <2>10, <2>11, <2>12, <2>13 DEF IndInv
<1> QED
  BY <1>4, <1>5

\* The harness gives up its server, which ends the campaign.
LEMMA AbandonIndInv ==
    ASSUME IndInv, Outlives \/ Killed
    PROVE  IndInv'
<1>0. /\ TypeOK /\ at # "idle" /\ at' = "idle" /\ server' = "none"
      /\ peer' = Nobody /\ via' = Nobody /\ raising' = FALSE
      /\ orphans' = Abandoned /\ lingering' \subseteq lingering /\ turn # 0
      /\ UNCHANGED <<turn, runner, pos, late, record>>
  BY DEF IndInv, TypeOK, Outlives, Killed, Forget
<1>1. proxy' = FALSE
  <2>1. CASE Outlives
    BY <2>1 DEF Outlives, IndInv, Places, TypeOK
  <2>2. CASE Killed
    BY <2>2 DEF Killed
  <2> QED
    BY <2>1, <2>2
<1>2. /\ Me \in Id /\ Current.serve \in Nat /\ Current.server \in STRING /\ turn \in Nat
      /\ Me[1] = turn
  BY <1>0, CurrentSpec DEF Me
<1>3. orphans' \subseteq Orphan
  <2> DEFINE left == [id |-> Me, program |-> Current.server, port |-> Current.serve,
                      up |-> server = "up"]
  <2>1. (server = "up") \in BOOLEAN
    OBVIOUS
  <2>2. left \in Orphan
    BY <1>2, <2>1 DEF Orphan
  <2>3. orphans' \subseteq orphans \cup {left}
    BY <1>0 DEF Abandoned
  <2> HIDE DEF left
  <2> QED
    BY <1>0, <2>2, <2>3 DEF TypeOK
<1>4. TypeOK'
  BY <1>0, <1>1, <1>3 DEF TypeOK
<1>5. Elders'
  <2>1. \A o \in orphans' : o \in orphans \/ o.id = Me
    BY <1>0 DEF Abandoned
  <2> QED
    BY <1>0, <1>2, <2>1 DEF IndInv, Elders
<1>6. Places' /\ Looked' /\ Met'
  BY <1>0, <1>1 DEF Places, Looked, Met
<1>7. Leaked'
  BY <1>0 DEF IndInv, Leaked
<1> QED
  BY <1>0, <1>4, <1>5, <1>6, <1>7, RecordKept, NoNewLeak DEF IndInv

\* What the processes and the user do beside the campaign.
LEMMA ProcessIndInv ==
    ASSUME IndInv,
           \/ ServerBinds \/ ServerExits \/ Released
           \/ \E o \in orphans : OrphanBinds(o) \/ OrphanExits(o)
    PROVE  IndInv'
<1>0. /\ TypeOK
      /\ server' \in {"none", "starting", "up", "gone"}
      /\ server = "none" => server' = "none"
      /\ lingering' \subseteq lingering
      /\ UNCHANGED <<turn, runner, pos, at, raising, proxy, peer, via, late, record>>
  BY DEF IndInv, TypeOK, ServerBinds, ServerExits, Released, OrphanBinds, OrphanExits
<1>1. \A o \in orphans' : o \in Orphan /\
        \E x \in orphans : o.id = x.id /\ o.port = x.port /\ (o = x \/ ~x.up)
  <2>1. CASE ServerBinds \/ ServerExits \/ Released
    BY <1>0, <2>1 DEF TypeOK, ServerBinds, ServerExits, Released
  <2>2. ASSUME NEW o \in orphans, OrphanExits(o) PROVE <1>1!:
    BY <1>0, <2>2 DEF TypeOK, OrphanExits
  <2>3. ASSUME NEW o \in orphans, OrphanBinds(o) PROVE <1>1!:
    <3> DEFINE bound == [o EXCEPT !.up = TRUE]
    <3>1. o \in Orphan
      BY <1>0 DEF TypeOK
    <3>2. bound \in Orphan /\ bound.id = o.id /\ bound.port = o.port
      BY <3>1 DEF Orphan
    <3>3. ~o.up /\ orphans' = (orphans \ {o}) \cup {bound}
      BY <2>3 DEF OrphanBinds
    <3> HIDE DEF bound
    <3> QED
      BY <1>0, <3>2, <3>3 DEF TypeOK
  <2> QED
    BY <2>1, <2>2, <2>3
<1>2. TypeOK'
  BY <1>0, <1>1 DEF TypeOK
<1>3. Current' = Current /\ Me' = Me
  BY <1>0 DEF Current, Me
<1>4. Places' /\ Met'
  BY <1>0, <1>3 DEF IndInv, Places, Met
<1>5. Elders'
  BY <1>0, <1>1 DEF IndInv, Elders
<1>6. Looked'
  BY <1>0, <1>1 DEF IndInv, Looked
<1>7. Leaked'
  BY <1>0, <1>3 DEF IndInv, Leaked
<1> QED
  BY <1>0, <1>2, <1>4, <1>5, <1>6, <1>7, RecordKept, NoNewLeak DEF IndInv

\* Every step preserves the invariant.
LEMMA NextIndInv == IndInv /\ [Next]_vars => IndInv'
<1> SUFFICES ASSUME IndInv, [Next]_vars PROVE IndInv'
  OBVIOUS
<1>1. CASE UNCHANGED vars
  <2>1. Current' = Current /\ Me' = Me
    BY <1>1 DEF vars, Current, Me
  <2>2. TypeOK' /\ Places' /\ Met' /\ Leaked'
    BY <1>1, <2>1 DEF vars, IndInv, TypeOK, Places, Met, Leaked
  <2>3. Elders' /\ Looked'
    BY <1>1, OrphansKept DEF vars
  <2> QED
    BY <1>1, <2>2, <2>3, RecordKept, NoNewLeak DEF vars, IndInv
<1>2. CASE \E r \in Names : Begin(r)
  BY <1>2, BeginIndInv
<1>3. CASE StartServer \/ ListenerSeen \/ ListenerMissing
  BY <1>3, PrepareIndInv
<1>4. CASE ProxyBinds \/ ProxyNotReady
  BY <1>4, ProxyIndInv
<1>5. CASE ClientDirect \/ ClientProxied \/ ClientNeverDials
  BY <1>5, ClientIndInv
<1>6. CASE Reap
  BY <1>6, ReapIndInv
<1>7. CASE Outlives \/ Killed
  BY <1>7, AbandonIndInv
<1>8. CASE \/ ServerBinds \/ ServerExits \/ Released
           \/ \E o \in orphans : OrphanBinds(o) \/ OrphanExits(o)
  BY <1>8, ProcessIndInv
<1> QED
  BY <1>1, <1>2, <1>3, <1>4, <1>5, <1>6, <1>7, <1>8 DEF Next

\* The invariant from which the theorems below follow.
THEOREM PortsIndInv == Spec => []IndInv
<1>1. Init => IndInv
  BY InitIndInv
<1>2. IndInv /\ [Next]_vars => IndInv'
  BY NextIndInv
<1> QED
  BY <1>1, <1>2, PTL DEF Spec

\* Type correctness: a runner never leaves its plan.
THEOREM PortsTypeOK == Spec => []TypeOK
<1>1. IndInv => TypeOK
  BY DEF IndInv
<1> QED
  BY <1>1, PortsIndInv, PTL

\* A server never answers for a later scenario of its own campaign: the finally
\* block of run_scenario reaps it or ends the campaign.
THEOREM PortsOwnOrEarlier == Spec => []OwnOrEarlierCampaign
<1>1. IndInv => OwnOrEarlierCampaign
  BY DEF IndInv
<1> QED
  BY <1>1, PortsIndInv, PTL

\* One look at a port before the first scenario is enough for all of them,
\* except against an orphan that binds after the look.
THEOREM PortsCheckedIsOwn == Spec => []CheckedIsOwn
<1>1. IndInv => CheckedIsOwn
  BY DEF IndInv
<1> QED
  BY <1>1, PortsIndInv, PTL

\* A proxied client is measured through its own proxy or not at all.
THEOREM PortsOwnProxy == Spec => []OwnProxy
<1>1. IndInv => OwnProxy
  BY DEF IndInv
<1> QED
  BY <1>1, PortsIndInv, PTL

\* A campaign that leaked a proxy records nothing more on its port.
THEOREM PortsLeakIsLast == Spec => []LeakIsLast
<1>1. IndInv => LeakIsLast
  BY DEF IndInv
<1> QED
  BY <1>1, PortsIndInv, PTL
=============================================================================
