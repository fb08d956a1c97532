-------------------------- MODULE ServiceDiscovery --------------------------
(***************************************************************************)
(* The service registry of the API gateway: a map in memory, a hash in     *)
(* Redis that outlives the process, and the health checks that ask each    *)
(* service and write what they heard to both.  Registrations, removals,    *)
(* reloads and checks interleave at their awaits.  All commands go through *)
(* one connection, so Redis executes them in the order they are issued; a  *)
(* command takes effect when it is issued, or is refused.                  *)
(*                                                                         *)
(* A check holds the object it found in the map.  The object is current as *)
(* long as the map holds it; once it was replaced or deleted the check     *)
(* still writes it to Redis.                                               *)
(***************************************************************************)
EXTENDS FiniteSets, Naturals

CONSTANTS
  Names,         \* services
  Urls,          \* where they may be
  None,          \* no url, no record, nothing under way
  Slots,         \* bound: registrations and checks under way at a time
  MaxCalls,      \* bound: calls of registerService, unregisterService and
                 \* discoverServices
  MaxFaults,     \* bound: refused commands of those calls and of the checks
  MaxRestarts,   \* bound: stops and starts of the process
  MaxFlips       \* bound: services going up or down

Statuses == {"unknown", "healthy", "unhealthy"}
Info == [url : Urls, status : Statuses]
Steps == {"stored", "asking", "ok", "failed"}
Checks == [name : Names, url : Urls, current : BOOLEAN, step : Steps]

ASSUME DiscoveryAssumption ==
  /\ None \notin Info \cup Checks \cup Urls
  /\ {MaxCalls, MaxFaults, MaxRestarts, MaxFlips} \subseteq Nat

VARIABLES
  services,      \* the map: what memory knows of each name
  stored,        \* the hash swiftpayme:services
  check,         \* per slot: the registration or check under way
  load,          \* the reply to hgetall that is on its way, if any
  running,       \* isRunning, and with it the timer
  connected,     \* the connection was not closed by stop()
  up,            \* the urls that answer /health
  budget,        \* calls, faults, restarts and flips left
  registered,    \* history: where callers said each service is
  disturbed,     \* history: the names whose last change was refused by
                 \* Redis or overtaken by a check or reload under way
  answered       \* history: the urls that ever answered

registry == <<services, stored>>
process == <<check, load, running, connected>>
history == <<registered, disturbed, answered>>
vars == <<registry, process, up, budget, history>>
-----------------------------------------------------------------------------
Replies == [records : [Names -> Info \cup {None}], next : {"start", "check"}]
Budget == [calls : 0..MaxCalls, faults : 0..MaxFaults,
           restarts : 0..MaxRestarts, flips : 0..MaxFlips]

Idle == {s \in Slots : check[s] = None}
Known == {n \in Names : services[n] # None}

\* Checks that have read the map and will write what they read.
UnderWay(n) == {s \in Slots \ Idle : check[s].name = n /\ check[s].step # "stored"}

Init ==
  /\ services = [n \in Names |-> None]
  /\ stored = [n \in Names |-> None]
  /\ check = [s \in Slots |-> None]
  /\ load = None
  /\ running = FALSE
  /\ connected = TRUE
  /\ up \in SUBSET Urls
  /\ budget = [calls |-> MaxCalls, faults |-> MaxFaults,
               restarts |-> MaxRestarts, flips |-> MaxFlips]
  /\ registered = [n \in Names |-> None]
  /\ disturbed = {}
  /\ answered = {}

\* The map holds new objects, or none, for these names.
Orphan(names) ==
  [s \in Slots |->
     IF check[s] # None /\ check[s].name \in names
     THEN [check[s] EXCEPT !.current = FALSE] ELSE check[s]]

\* Redis carries a command out, unless the connection is closed or fails.
Accepted == connected /\ UNCHANGED budget
Refused ==
  \/ ~connected /\ UNCHANGED budget
  \/ connected /\ budget.faults > 0 /\ budget' = [budget EXCEPT !.faults = @ - 1]

Spend(b) == [b EXCEPT !.calls = @ - 1]
CallAccepted == budget.calls > 0 /\ connected /\ budget' = Spend(budget)
CallRefused ==
  /\ budget.calls > 0
  /\ \/ ~connected /\ budget' = Spend(budget)
     \/ /\ connected /\ budget.faults > 0
        /\ budget' = [Spend(budget) EXCEPT !.faults = @ - 1]

\* What callers wanted is on record; a check under way or a reply on its way
\* still carries what was there before.
Wanted(n, u, accepted) ==
  /\ registered' = [registered EXCEPT ![n] = u]
  /\ disturbed' = IF accepted /\ UnderWay(n) = {} /\ load = None
                  THEN disturbed \ {n} ELSE disturbed \cup {n}
  /\ UNCHANGED answered
-----------------------------------------------------------------------------
\* registerService: into memory, then into Redis, then a first check.
KeepStatus(n, u) ==
  [url |-> u, status |-> IF n \in Known THEN services[n].status ELSE "unknown"]
NewService(n, u) == [url |-> u, status |-> "unknown"]
Register(s, n, u) ==
  /\ s \in Idle
  /\ services' = [services EXCEPT ![n] = NewService(n, u)]
  /\ \/ /\ CallAccepted
        /\ stored' = [stored EXCEPT ![n] = NewService(n, u)]
        /\ check' = [Orphan({n}) EXCEPT ![s] =
             [name |-> n, url |-> u, current |-> FALSE, step |-> "stored"]]
        /\ Wanted(n, u, TRUE)
     \/ /\ CallRefused
        /\ check' = Orphan({n})
        /\ Wanted(n, u, FALSE)
        /\ UNCHANGED stored
  /\ UNCHANGED <<load, running, connected, up>>

KeepRecord(n) == UNCHANGED stored
Forget(n) == stored' = [stored EXCEPT ![n] = None]
Unregister(n) ==
  /\ services' = [services EXCEPT ![n] = None]
  /\ check' = Orphan({n})
  /\ \/ /\ CallAccepted
        /\ Forget(n)
        /\ Wanted(n, None, TRUE)
     \/ /\ CallRefused
        /\ Wanted(n, None, FALSE)
        /\ UNCHANGED stored
  /\ UNCHANGED <<load, running, connected, up>>

\* checkServiceHealth finds the object in the map and asks its url.
Asking(n, known) ==
  [name |-> n, url |-> known[n].url, current |-> TRUE, step |-> "asking"]

FirstCheck(s) ==
  /\ s \notin Idle /\ check[s].step = "stored"
  /\ check' = [check EXCEPT ![s] =
       IF check[s].name \in Known THEN Asking(check[s].name, services) ELSE None]
  /\ UNCHANGED <<registry, load, running, connected, up, budget, history>>

\* The service answers, or does not; the reply is on its way.
Answer(s) ==
  /\ s \notin Idle /\ check[s].step = "asking"
  /\ check' = [check EXCEPT ![s].step =
       IF check[s].url \in up THEN "ok" ELSE "failed"]
  /\ answered' = answered \cup ({check[s].url} \cap up)
  /\ UNCHANGED <<registry, load, running, connected, up, budget, registered, disturbed>>

\* The check notes the status in its object, wherever that still is, and
\* writes the object to Redis.
Note(s, status) ==
  services' = IF check[s].current
              THEN [services EXCEPT ![check[s].name] =
                      [url |-> check[s].url, status |-> status]]
              ELSE services
Write(s, status) ==
  stored' = [stored EXCEPT ![check[s].name] =
               [url |-> check[s].url, status |-> status]]

NoteHealthy(s) ==
  /\ s \notin Idle /\ check[s].step = "ok"
  /\ Note(s, "healthy")
  /\ \/ /\ Accepted
        /\ Write(s, "healthy")
        /\ check' = [check EXCEPT ![s] = None]
     \/ /\ Refused
        /\ check' = [check EXCEPT ![s].step = "failed"]
        /\ UNCHANGED stored
  /\ UNCHANGED <<load, running, connected, up, history>>

\* The catch block, of a failed request and of a refused write.
NoteUnhealthy(s) ==
  /\ s \notin Idle /\ check[s].step = "failed"
  /\ Note(s, "unhealthy")
  /\ \/ Accepted /\ Write(s, "unhealthy")
     \/ Refused /\ UNCHANGED stored
  /\ check' = [check EXCEPT ![s] = None]
  /\ UNCHANGED <<load, running, connected, up, history>>

\* checkAllServices: one check for every name in the map, all at once.
CheckAll(checks, known, names) ==
  \E slot \in [names -> {s \in Slots : checks[s] = None}] :
    /\ \A m, n \in names : slot[m] = slot[n] => m = n
    /\ check' = [s \in Slots |->
         IF \E n \in names : slot[n] = s
         THEN Asking(CHOOSE n \in names : slot[n] = s, known) ELSE checks[s]]

NotYetFailed == {n \in Known : services[n].status # "unhealthy"}
Checked == Known
Cycle ==
  /\ running
  /\ CheckAll(check, services, Checked)
  /\ UNCHANGED <<registry, load, running, connected, up, budget, history>>

\* hgetall is carried out; its reply is on its way.  A refused one is logged
\* and loads nothing.
LoadServices(next) ==
  /\ load = None
  /\ \/ /\ IF next = "check" THEN CallAccepted ELSE Accepted
        /\ load' = [records |-> stored, next |-> next]
     \/ /\ IF next = "check" THEN CallRefused ELSE Refused
        /\ load' = [records |-> [n \in Names |-> None], next |-> next]
  /\ UNCHANGED <<registry, check, running, connected, up, history>>

Initialize == ~running /\ connected /\ LoadServices("start")
Discover == LoadServices("check")

\* Every record replaces the object in the map; then the timer starts or all
\* services are checked.
Loaded(n) == IF load.records[n] # None THEN load.records[n] ELSE services[n]
FinishLoad ==
  /\ load # None
  /\ services' = [n \in Names |-> Loaded(n)]
  /\ LET checks == Orphan({n \in Names : load.records[n] # None})
     IN \/ load.next = "start" /\ check' = checks /\ running' = TRUE
        \/ /\ load.next = "check"
           /\ CheckAll(checks, services', {n \in Names : services'[n] # None})
           /\ UNCHANGED running
  /\ load' = None
  /\ UNCHANGED <<stored, connected, up, budget, history>>

Stop ==
  /\ running
  /\ budget.restarts > 0
  /\ budget' = [budget EXCEPT !.restarts = @ - 1]
  /\ running' = FALSE
  /\ connected' = FALSE
  /\ UNCHANGED <<registry, check, load, up, history>>

\* The process ends, by stop() or a crash, and a new one starts with an empty
\* map; the hash stays.
Restart ==
  /\ \/ ~connected /\ UNCHANGED budget
     \/ /\ budget.restarts > 0
        /\ budget' = [budget EXCEPT !.restarts = @ - 1]
  /\ services' = [n \in Names |-> None]
  /\ check' = [s \in Slots |-> None]
  /\ load' = None
  /\ running' = FALSE
  /\ connected' = TRUE
  /\ UNCHANGED <<stored, up, history>>

Flip(u) ==
  /\ budget.flips > 0
  /\ budget' = [budget EXCEPT !.flips = @ - 1]
  /\ up' = IF u \in up THEN up \ {u} ELSE up \cup {u}
  /\ UNCHANGED <<registry, process, history>>

Advance(s) ==
  \/ FirstCheck(s)
  \/ Answer(s)
  \/ NoteHealthy(s)
  \/ NoteUnhealthy(s)

Next ==
  \/ \E s \in Slots, n \in Names, u \in Urls : Register(s, n, u)
  \/ \E n \in Names : Unregister(n)
  \/ \E s \in Slots : Advance(s)
  \/ Cycle
  \/ Initialize
  \/ Discover
  \/ FinishLoad
  \/ Stop
  \/ Restart
  \/ \E u \in Urls : Flip(u)

Spec == Init /\ [][Next]_vars

\* Every request and command is answered or fails by its timeout, the timer
\* fires, a process that starts is initialized and one that stopped is
\* started again.
FairSpec ==
  /\ Spec
  /\ \A s \in Slots : WF_vars(Advance(s))
  /\ WF_vars(Cycle)
  /\ WF_vars(Initialize)
  /\ WF_vars(FinishLoad)
  /\ WF_vars(~connected /\ Restart)
-----------------------------------------------------------------------------
TypeOK ==
  /\ services \in [Names -> Info \cup {None}]
  /\ stored \in [Names -> Info \cup {None}]
  /\ check \in [Slots -> Checks \cup {None}]
  /\ load \in Replies \cup {None}
  /\ running \in BOOLEAN /\ connected \in BOOLEAN
  /\ up \subseteq Urls
  /\ budget \in Budget
  /\ registered \in [Names -> Urls \cup {None}]
  /\ disturbed \subseteq Names
  /\ answered \subseteq Urls

\* A service whose last registration or removal met no check of it and no
\* reload under way, and no failing Redis, is where it was registered: Redis
\* keeps it, through restarts, and memory and every check that may still
\* write know no other url; a removed one is gone for good.  The other names
\* can come back, or go back to their old url, from a late check or reply.
UndisturbedIsAsRegistered ==
  \A n \in Names \ disturbed :
    /\ stored[n] = None <=> registered[n] = None
    /\ stored[n] # None => stored[n].url = registered[n]
    /\ n \in Known => services[n].url = registered[n]
    /\ \A s \in UnderWay(n) : check[s].url = registered[n]

\* getServiceUrl names no url that never answered a check, although records
\* are reloaded, urls change and checks finish late.
RoutesToWhatAnswered ==
  \A n \in Known :
    services[n].status = "healthy" => services[n].url \in answered

\* Late answers, replies that undo a status and refused writes do not last: in
\* the end every service in the map has the status of its url, in memory and
\* in Redis.
StatusesSettle ==
  \A n \in Names :
    <>[](n \in Known =>
           /\ services[n].status =
                IF services[n].url \in up THEN "healthy" ELSE "unhealthy"
           /\ stored[n] = services[n])
=============================================================================
