-------------------------- MODULE DiscoveryProofs --------------------------
(***************************************************************************)
(* Proofs about ServiceDiscovery: its types, and that only a change that   *)
(* Redis refused or that met a check or a reload under way can leave the   *)
(* registry with anything else than what was registered.                   *)
(***************************************************************************)
EXTENDS ServiceDiscovery, TLAPS

USE DiscoveryAssumption

-----------------------------------------------------------------------------
(* Typing.                                                                 *)

LEMMA InitTyped == Init => TypeOK
  <1> SUFFICES ASSUME Init PROVE TypeOK
    OBVIOUS
  <1>1. budget \in Budget
    BY DEF Init, Budget
  <1> QED
    BY <1>1 DEF Init, TypeOK

LEMMA OrphanTyped ==
  ASSUME TypeOK, NEW names
  PROVE  Orphan(names) \in [Slots -> Checks \cup {None}]
BY DEF Orphan, TypeOK, Checks

LEMMA AskingTyped ==
  ASSUME NEW known \in [Names -> Info \cup {None}], NEW n \in Names,
         known[n] # None
  PROVE  Asking(n, known) \in Checks
<1>1. known[n] \in Info
  OBVIOUS
<1> QED
  BY <1>1 DEF Asking, Checks, Info, Steps

LEMMA CheckAllTyped ==
  ASSUME NEW known \in [Names -> Info \cup {None}], NEW names \in SUBSET Names,
         NEW checks \in [Slots -> Checks \cup {None}],
         \A n \in names : known[n] # None,
         CheckAll(checks, known, names)
  PROVE  check' \in [Slots -> Checks \cup {None}]
<1>1. PICK slot \in [names -> {s \in Slots : checks[s] = None}] :
        check' = [s \in Slots |->
           IF \E n \in names : slot[n] = s
           THEN Asking(CHOOSE n \in names : slot[n] = s, known) ELSE checks[s]]
  BY DEF CheckAll
<1>2. SUFFICES ASSUME NEW s \in Slots, \E n \in names : slot[n] = s
               PROVE  Asking(CHOOSE n \in names : slot[n] = s, known) \in Checks
  BY <1>1, <1>2
<1> DEFINE m == CHOOSE n \in names : slot[n] = s
<1>3. m \in names
  BY <1>2
<1> QED
  BY <1>3, AskingTyped

LEMMA BudgetTyped ==
  ASSUME TypeOK, Accepted \/ Refused \/ CallAccepted \/ CallRefused
  PROVE  budget' \in Budget
<1>1. PICK c, f, r, l : budget = [calls |-> c, faults |-> f, restarts |-> r, flips |-> l]
        /\ c \in 0..MaxCalls /\ f \in 0..MaxFaults
        /\ r \in 0..MaxRestarts /\ l \in 0..MaxFlips
  BY DEF TypeOK, Budget
<1>2. CASE Accepted \/ Refused
  BY <1>1, <1>2 DEF Accepted, Refused, Budget
<1>3. CASE CallAccepted \/ CallRefused
  <2>1. c > 0 /\ c - 1 \in 0..MaxCalls
    BY <1>1, <1>3 DEF CallAccepted, CallRefused
  <2>2. \/ budget' = [calls |-> c - 1, faults |-> f, restarts |-> r, flips |-> l]
        \/ f > 0 /\ budget' = [calls |-> c - 1, faults |-> f - 1, restarts |-> r, flips |-> l]
    BY <1>1, <1>3 DEF CallAccepted, CallRefused, Spend
  <2>3. f > 0 => f - 1 \in 0..MaxFaults
    BY <1>1
  <2> QED
    BY <1>1, <2>1, <2>2, <2>3 DEF Budget
<1> QED
  BY <1>2, <1>3

LEMMA NextTyped == TypeOK /\ [Next]_vars => TypeOK'
<1> SUFFICES ASSUME TypeOK, [Next]_vars PROVE TypeOK'
  OBVIOUS
<1> USE DEF TypeOK
<1>1. ASSUME NEW s \in Slots, NEW n \in Names, NEW u \in Urls, Register(s, n, u)
      PROVE  TypeOK'
  <2>1. NewService(n, u) \in Info
    BY DEF NewService, Info, Statuses
  <2>2. budget' \in Budget
    BY <1>1, BudgetTyped DEF Register
  <2>3. [name |-> n, url |-> u, current |-> FALSE, step |-> "stored"] \in Checks
    BY DEF Checks, Steps
  <2>4. check' \in [Slots -> Checks \cup {None}]
    <3> DEFINE c == [name |-> n, url |-> u, current |-> FALSE, step |-> "stored"]
               checks == Orphan({n})
    <3>1. checks \in [Slots -> Checks \cup {None}]
      BY OrphanTyped
    <3>2. check' = checks \/ check' = [checks EXCEPT ![s] = c]
      BY <1>1 DEF Register
    <3>3. c \in Checks
      BY <2>3
    <3> HIDE DEF c, checks
    <3> QED
      BY <3>1, <3>2, <3>3
  <2> QED
    BY <1>1, <2>1, <2>2, <2>4 DEF Register, Wanted
<1>2. ASSUME NEW n \in Names, Unregister(n)
      PROVE  TypeOK'
  BY <1>2, BudgetTyped, OrphanTyped DEF Unregister, Wanted, Forget
<1>3. ASSUME NEW s \in Slots, FirstCheck(s)
      PROVE  TypeOK'
  <2>1. check[s] \in Checks
    BY <1>3 DEF FirstCheck, Idle
  <2>2. CASE check[s].name \in Known
    <3>1. Asking(check[s].name, services) \in Checks
      BY <2>1, <2>2, AskingTyped DEF Known
    <3> QED
      BY <1>3, <2>2, <3>1 DEF FirstCheck, registry, history
  <2>3. CASE check[s].name \notin Known
    BY <1>3, <2>3 DEF FirstCheck, registry, history
  <2> QED
    BY <2>2, <2>3
<1>4. ASSUME NEW s \in Slots, Answer(s)
      PROVE  TypeOK'
  <2>1. check[s] \in Checks
    BY <1>4 DEF Answer, Idle
  <2>2. [check[s] EXCEPT !.step = "ok"] \in Checks /\ [check[s] EXCEPT !.step = "failed"] \in Checks
    BY <2>1 DEF Checks, Steps
  <2>3. check' \in [Slots -> Checks \cup {None}]
    BY <1>4, <2>2 DEF Answer
  <2> QED
    BY <1>4, <2>1, <2>3 DEF Answer, registry, Checks
<1>5. ASSUME NEW s \in Slots, NoteHealthy(s) \/ NoteUnhealthy(s)
      PROVE  TypeOK'
  <2>1. check[s] \in Checks
    BY <1>5 DEF NoteHealthy, NoteUnhealthy, Idle
  <2>2. [check[s] EXCEPT !.step = "failed"] \in Checks
    BY <2>1 DEF Checks, Steps
  <2>3. \A t \in Statuses : [url |-> check[s].url, status |-> t] \in Info
    BY <2>1 DEF Checks, Info
  <2>4. check[s].name \in Names
    BY <2>1 DEF Checks
  <2>5. services' \in [Names -> Info \cup {None}]
    BY <1>5, <2>3, <2>4 DEF NoteHealthy, NoteUnhealthy, Note, Statuses
  <2>6. stored' \in [Names -> Info \cup {None}]
    BY <1>5, <2>3, <2>4 DEF NoteHealthy, NoteUnhealthy, Write, Statuses
  <2>7. check' \in [Slots -> Checks \cup {None}]
    BY <1>5, <2>2 DEF NoteHealthy, NoteUnhealthy
  <2>8. budget' \in Budget
    BY <1>5, BudgetTyped DEF NoteHealthy, NoteUnhealthy
  <2> QED
    BY <1>5, <2>5, <2>6, <2>7, <2>8 DEF NoteHealthy, NoteUnhealthy, history
<1>6. CASE Cycle
  <2>1. check' \in [Slots -> Checks \cup {None}]
    <3>1. Known \in SUBSET Names /\ \A n \in Known : services[n] # None
      BY DEF Known
    <3> QED
      BY <1>6, <3>1, CheckAllTyped DEF Cycle, Checked
  <2> QED
    BY <1>6, <2>1 DEF Cycle, registry, history
<1>7. ASSUME NEW next \in {"start", "check"}, LoadServices(next)
      PROVE  TypeOK'
  <2>1. budget' \in Budget
    BY <1>7, BudgetTyped DEF LoadServices
  <2>2. load' \in Replies
    BY <1>7 DEF LoadServices, Replies
  <2> QED
    BY <1>7, <2>1, <2>2 DEF LoadServices, registry, history
<1>8. CASE FinishLoad
  <2>1. load \in Replies
    BY <1>8 DEF FinishLoad
  <2>2. services' \in [Names -> Info \cup {None}]
    BY <1>8, <2>1 DEF FinishLoad, Loaded, Replies
  <2> DEFINE known == {n \in Names : services'[n] # None}
             checks == Orphan({n \in Names : load.records[n] # None})
  <2>3. checks \in [Slots -> Checks \cup {None}]
    BY OrphanTyped
  <2>4. running' \in BOOLEAN /\ (check' = checks \/ CheckAll(checks, services', known))
    BY <1>8 DEF FinishLoad
  <2> HIDE DEF checks
  <2>5. known \in SUBSET Names /\ \A n \in known : services'[n] # None
    OBVIOUS
  <2> HIDE DEF known
  <2>6. check' \in [Slots -> Checks \cup {None}]
    <3>1. CASE CheckAll(checks, services', known)
      BY <2>2, <2>3, <2>5, <3>1, CheckAllTyped
    <3> QED
      BY <2>3, <2>4, <3>1
  <2> QED
    BY <1>8, <2>2, <2>4, <2>6 DEF FinishLoad, history
<1>9. CASE Stop
  <2>1. budget' \in Budget
    BY <1>9 DEF Stop, Budget
  <2> QED
    BY <1>9, <2>1 DEF Stop, registry, history
<1>10. CASE Restart
  <2>1. budget' \in Budget
    BY <1>10 DEF Restart, Budget
  <2> QED
    BY <1>10, <2>1 DEF Restart, registry, history
<1>11. ASSUME NEW u \in Urls, Flip(u)
       PROVE  TypeOK'
  <2>1. budget' \in Budget
    BY <1>11 DEF Flip, Budget
  <2> QED
    BY <1>11, <2>1 DEF Flip, registry, process, history
<1>12. CASE UNCHANGED vars
  BY <1>12 DEF vars, registry, process, history
<1> QED
  BY <1>1, <1>2, <1>3, <1>4, <1>5, <1>6, <1>7, <1>8, <1>9, <1>10, <1>11, <1>12
     DEF Next, Advance, Initialize, Discover

\* Whatever interleaves, the map, the hash, the checks and the replies hold
\* records of the registry and nothing else.
THEOREM DiscoveryTypeCorrect == Spec => []TypeOK
BY InitTyped, NextTyped, PTL DEF Spec
-----------------------------------------------------------------------------
(* What the steps do to the checks, told apart from the rest.              *)

LEMMA OrphanKeeps ==
  ASSUME TypeOK, NEW names, NEW s \in Slots
  PROVE  /\ Orphan(names)[s] = None <=> check[s] = None
         /\ check[s] # None => /\ Orphan(names)[s].name = check[s].name
                               /\ Orphan(names)[s].url = check[s].url
                               /\ Orphan(names)[s].step = check[s].step
<1>1. CASE check[s] # None /\ check[s].name \in names
  <2>1. check[s] \in Checks
    BY <1>1 DEF TypeOK
  <2>2. Orphan(names)[s] = [check[s] EXCEPT !.current = FALSE]
    BY <1>1 DEF Orphan
  <2>3. Orphan(names)[s] # None
    <3>1. Orphan(names)[s] \in Checks
      BY <2>1, <2>2 DEF Checks
    <3> QED
      BY <3>1
  <2> QED
    BY <1>1, <2>1, <2>2, <2>3 DEF Checks
<1>2. CASE ~(check[s] # None /\ check[s].name \in names)
  BY <1>2 DEF Orphan
<1> QED
  BY <1>1, <1>2

LEMMA CheckAllAsks ==
  ASSUME NEW known, NEW names \in SUBSET Names, NEW checks, NEW s \in Slots,
         CheckAll(checks, known, names)
  PROVE  check'[s] = checks[s] \/ \E n \in names : check'[s] = Asking(n, known)
<1>1. PICK slot \in [names -> {t \in Slots : checks[t] = None}] :
        check' = [t \in Slots |->
           IF \E n \in names : slot[n] = t
           THEN Asking(CHOOSE n \in names : slot[n] = t, known) ELSE checks[t]]
  BY DEF CheckAll
<1>2. CASE \E n \in names : slot[n] = s
  <2> DEFINE m == CHOOSE n \in names : slot[n] = s
  <2>1. m \in names
    BY <1>2
  <2>2. check'[s] = Asking(m, known)
    BY <1>1, <1>2
  <2> QED
    BY <2>1, <2>2
<1>3. CASE ~\E n \in names : slot[n] = s
  BY <1>1, <1>3
<1> QED
  BY <1>2, <1>3
-----------------------------------------------------------------------------
(* Undisturbed names.  The invariant adds the reply on its way to the      *)
(* property, and is stated for one name.                                   *)

Writes(s, n) == check[s] # None /\ check[s].name = n /\ check[s].step # "stored"

AsRegistered(n) ==
  /\ stored[n] = None <=> registered[n] = None
  /\ stored[n] # None => stored[n].url = registered[n]
  /\ services[n] # None => services[n].url = registered[n]
  /\ \A s \in Slots : Writes(s, n) => check[s].url = registered[n]
  /\ load # None /\ load.records[n] # None => load.records[n].url = registered[n]

UndisturbedInv == \A n \in Names \ disturbed : AsRegistered(n)

LEMMA UnderWayIsWriting ==
  ASSUME NEW n PROVE UnderWay(n) = {s \in Slots : Writes(s, n)}
BY DEF UnderWay, Writes, Idle

LEMMA UndisturbedStep ==
  ASSUME TypeOK, UndisturbedInv, [Next]_vars, NEW n \in Names \ disturbed'
  PROVE  AsRegistered(n)'
<1> USE DEF TypeOK
<1>1. ASSUME NEW s \in Slots, NEW m \in Names, NEW u \in Urls, Register(s, m, u)
      PROVE  AsRegistered(n)'
  <2> DEFINE c == [name |-> m, url |-> u, current |-> FALSE, step |-> "stored"]
             checks == Orphan({m})
  <2>1. check[s] = None /\ (check' = checks \/ check' = [checks EXCEPT ![s] = c])
    BY <1>1 DEF Register, Idle
  <2>2. checks \in [Slots -> Checks \cup {None}]
    BY OrphanTyped
  <2>3. c.name = m /\ c.step = "stored"
    OBVIOUS
  <2>4. \A t \in Slots : Writes(t, n)' => Writes(t, n) /\ check'[t].url = check[t].url
    <3> SUFFICES ASSUME NEW t \in Slots, Writes(t, n)'
                 PROVE  Writes(t, n) /\ check'[t].url = check[t].url
      OBVIOUS
    <3>1. check'[t] # c
      BY <2>3 DEF Writes
    <3> HIDE DEF checks, c
    <3>2. check'[t] = checks[t]
      BY <2>1, <2>2, <3>1
    <3> QED
      BY <3>2, OrphanKeeps DEF Writes, checks
  <2>5. CASE n = m
    <3>1. UnderWay(n) = {} /\ load = None /\ CallAccepted /\ stored' = [stored EXCEPT ![m] = NewService(m, u)]
      BY <1>1, <2>5 DEF Register, Wanted
    <3>2. \A t \in Slots : ~Writes(t, n)
      BY <3>1, UnderWayIsWriting
    <3>3. registered'[n] = u /\ services'[n] = NewService(m, u) /\ stored'[n] = NewService(m, u) /\ load' = load
      BY <1>1, <2>5, <3>1 DEF Register, Wanted
    <3>4. NewService(m, u).url = u /\ u # None /\ NewService(m, u) # None
      BY DEF NewService, Info, Statuses
    <3> QED
      BY <2>4, <3>1, <3>2, <3>3, <3>4 DEF AsRegistered
  <2>6. CASE n # m
    <3>1. n \in Names \ disturbed
      BY <1>1, <2>6 DEF Register, Wanted
    <3>2. registered'[n] = registered[n] /\ services'[n] = services[n] /\ stored'[n] = stored[n] /\ load' = load
      BY <1>1, <2>6 DEF Register, Wanted
    <3> QED
      BY <2>4, <3>1, <3>2 DEF AsRegistered, UndisturbedInv
  <2> QED
    BY <2>5, <2>6
<1>2. ASSUME NEW m \in Names, Unregister(m)
      PROVE  AsRegistered(n)'
  <2>1. \A t \in Slots : Writes(t, n)' => Writes(t, n) /\ check'[t].url = check[t].url
    BY <1>2, OrphanKeeps DEF Unregister, Writes
  <2>2. CASE n = m
    <3>1. UnderWay(n) = {} /\ load = None /\ stored' = [stored EXCEPT ![m] = None]
      BY <1>2, <2>2 DEF Unregister, Wanted, Forget
    <3>2. \A t \in Slots : ~Writes(t, n)
      BY <3>1, UnderWayIsWriting
    <3>3. registered'[n] = None /\ services'[n] = None /\ stored'[n] = None /\ load' = load
      BY <1>2, <2>2, <3>1 DEF Unregister, Wanted
    <3> QED
      BY <2>1, <3>1, <3>2, <3>3 DEF AsRegistered
  <2>3. CASE n # m
    <3>1. n \in Names \ disturbed
      BY <1>2, <2>3 DEF Unregister, Wanted
    <3>2. registered'[n] = registered[n] /\ services'[n] = services[n] /\ stored'[n] = stored[n] /\ load' = load
      BY <1>2, <2>3 DEF Unregister, Wanted, Forget
    <3> QED
      BY <2>1, <3>1, <3>2 DEF AsRegistered, UndisturbedInv
  <2> QED
    BY <2>2, <2>3
<1> SUFFICES ASSUME n \in Names \ disturbed, AsRegistered(n), registered' = registered
             PROVE  AsRegistered(n)'
  BY <1>1, <1>2 DEF Next, Advance, FirstCheck, Answer, NoteHealthy, NoteUnhealthy,
       Cycle, Initialize, Discover, LoadServices, FinishLoad, Stop, Restart, Flip,
       history, vars, UndisturbedInv
<1>3. ASSUME NEW s \in Slots, FirstCheck(s)
      PROVE  AsRegistered(n)'
  <2>1. check[s].name \in Known => Asking(check[s].name, services).url = services[check[s].name].url
                                   /\ Asking(check[s].name, services).name = check[s].name
    BY DEF Asking
  <2>2. \A t \in Slots : Writes(t, n)' => check'[t].url = registered[n]
    BY <1>3, <2>1 DEF FirstCheck, AsRegistered, Writes, Known
  <2> QED
    BY <1>3, <2>2 DEF FirstCheck, AsRegistered, registry
<1>4. ASSUME NEW s \in Slots, Answer(s)
      PROVE  AsRegistered(n)'
  <2>1. check[s] \in Checks
    BY <1>4 DEF Answer, Idle
  <2>2. \A t \in Slots : Writes(t, n)' => Writes(t, n) /\ check'[t].url = check[t].url
    BY <1>4, <2>1 DEF Answer, Writes, Checks
  <2> QED
    BY <1>4, <2>2 DEF Answer, AsRegistered, registry
<1>5. ASSUME NEW s \in Slots, NoteHealthy(s) \/ NoteUnhealthy(s)
      PROVE  AsRegistered(n)'
  <2>1. check[s] \in Checks
    BY <1>5 DEF NoteHealthy, NoteUnhealthy, Idle
  <2>2. check[s].name = n => check[s].url = registered[n]
    BY <1>5 DEF NoteHealthy, NoteUnhealthy, Idle, Writes, AsRegistered
  <2>3. \A t \in Slots : Writes(t, n)' => Writes(t, n) /\ check'[t].url = check[t].url
    BY <1>5, <2>1 DEF NoteHealthy, NoteUnhealthy, Writes, Checks
  <2>4. PICK t \in Statuses : Note(s, t) /\ (Write(s, t) \/ UNCHANGED stored)
    BY <1>5 DEF NoteHealthy, NoteUnhealthy, Statuses
  <2> DEFINE v == [url |-> check[s].url, status |-> t]
  <2>5. /\ services' = services \/ services' = [services EXCEPT ![check[s].name] = v]
        /\ stored' = stored \/ stored' = [stored EXCEPT ![check[s].name] = v]
    BY <2>4 DEF Note, Write
  <2>6. v.url = check[s].url /\ v # None /\ check[s].url # None
    BY <2>1 DEF Checks, Info
  <2> HIDE DEF v
  <2>7. stored'[n] = None <=> registered[n] = None
    BY <2>2, <2>5, <2>6 DEF AsRegistered
  <2>8. stored'[n] # None => stored'[n].url = registered[n]
    BY <2>2, <2>5, <2>6 DEF AsRegistered
  <2>9. services'[n] # None => services'[n].url = registered[n]
    BY <2>2, <2>5, <2>6 DEF AsRegistered
  <2> QED
    BY <1>5, <2>3, <2>7, <2>8, <2>9 DEF NoteHealthy, NoteUnhealthy, AsRegistered
<1>6. CASE Cycle
  <2>1. \A t \in Slots : Writes(t, n)' => check'[t].url = registered[n]
    <3> SUFFICES ASSUME NEW t \in Slots, Writes(t, n)' PROVE check'[t].url = registered[n]
      OBVIOUS
    <3>1. check'[t] = check[t] \/ \E m \in Known : check'[t] = Asking(m, services)
      <4>1. Known \in SUBSET Names
        BY DEF Known
      <4> QED
        BY <1>6, <4>1, CheckAllAsks DEF Cycle, Checked
    <3> QED
      <4>1. CASE check'[t] = check[t]
        BY <4>1 DEF Writes, AsRegistered
      <4>2. ASSUME NEW m \in Known, check'[t] = Asking(m, services)
            PROVE  check'[t].url = registered[n]
        <5>1. m = n /\ check'[t].url = services[m].url
          BY <4>2 DEF Writes, Asking
        <5> QED
          BY <5>1 DEF AsRegistered, Known
      <4> QED
        BY <3>1, <4>1, <4>2
  <2> QED
    BY <1>6, <2>1 DEF Cycle, registry, AsRegistered
<1>7. ASSUME NEW next \in {"start", "check"}, LoadServices(next)
      PROVE  AsRegistered(n)'
  <2>1. load'.records[n] = stored[n] \/ load'.records[n] = None
    BY <1>7 DEF LoadServices
  <2> QED
    BY <1>7, <2>1 DEF LoadServices, AsRegistered, registry, Writes
<1>8. CASE FinishLoad
  <2> DEFINE known == {m \in Names : services'[m] # None}
             checks == Orphan({m \in Names : load.records[m] # None})
  <2>1. services'[n] # None => services'[n].url = registered[n]
    BY <1>8 DEF FinishLoad, Loaded, AsRegistered
  <2>2. check' = checks \/ CheckAll(checks, services', known)
    BY <1>8 DEF FinishLoad
  <2>3. \A t \in Slots : checks[t] # None /\ checks[t].name = n /\ checks[t].step # "stored"
                           => checks[t].url = registered[n]
    BY OrphanKeeps DEF AsRegistered, Writes
  <2>4. known \in SUBSET Names
    OBVIOUS
  <2> HIDE DEF checks, known
  <2>5. \A t \in Slots : Writes(t, n)' => check'[t].url = registered[n]
    <3> SUFFICES ASSUME NEW t \in Slots, Writes(t, n)' PROVE check'[t].url = registered[n]
      OBVIOUS
    <3>1. check'[t] = checks[t] \/ \E m \in known : check'[t] = Asking(m, services')
      BY <2>2, <2>4, CheckAllAsks
    <3>2. ASSUME NEW m \in known, check'[t] = Asking(m, services')
          PROVE  check'[t].url = registered[n]
      <4>1. m = n
        BY <3>2 DEF Writes, Asking
      <4> QED
        BY <2>1, <3>2, <4>1 DEF Asking, known
    <3> QED
      BY <2>3, <3>1, <3>2 DEF Writes
  <2> QED
    BY <1>8, <2>1, <2>5 DEF FinishLoad, AsRegistered
<1>9. CASE Stop \/ UNCHANGED vars \/ \E u \in Urls : Flip(u)
  BY <1>9 DEF Stop, Flip, vars, registry, process, AsRegistered, Writes
<1>10. CASE Restart
  BY <1>10 DEF Restart, AsRegistered, Writes
<1> QED
  BY <1>1, <1>2, <1>3, <1>4, <1>5, <1>6, <1>7, <1>8, <1>9, <1>10
     DEF Next, Advance, Initialize, Discover

\* What is known of a service differs from its last registration or removal
\* only if Redis refused that change or a check or a reload was under way.
THEOREM UndisturbedServicesAreAsRegistered == Spec => []UndisturbedIsAsRegistered
<1>1. Init => UndisturbedInv
  BY DEF Init, UndisturbedInv, AsRegistered, Writes
<1>2. TypeOK /\ UndisturbedInv /\ [Next]_vars => UndisturbedInv'
  BY UndisturbedStep DEF UndisturbedInv
<1>3. UndisturbedInv => UndisturbedIsAsRegistered
  BY UnderWayIsWriting DEF UndisturbedInv, UndisturbedIsAsRegistered, AsRegistered, Known
<1> QED
  BY <1>1, <1>2, <1>3, DiscoveryTypeCorrect, PTL DEF Spec
-----------------------------------------------------------------------------
(* Healthy records.  The invariant follows the status from the answer,     *)
(* through the check that carries it, to the two places it is kept in and  *)
(* the replies that copy one to the other.                                 *)

Seen(i) == i # None /\ i.status = "healthy" => i.url \in answered

AnsweredInv ==
  /\ \A n \in Names : Seen(services[n]) /\ Seen(stored[n])
  /\ load # None => \A n \in Names : Seen(load.records[n])
  /\ \A s \in Slots : check[s] # None /\ check[s].step = "ok" => check[s].url \in answered

LEMMA AnsweredStep == TypeOK /\ AnsweredInv /\ [Next]_vars => AnsweredInv'
<1> SUFFICES ASSUME TypeOK, AnsweredInv, [Next]_vars PROVE AnsweredInv'
  OBVIOUS
<1> USE DEF TypeOK
<1>1. ASSUME NEW s \in Slots, NEW n \in Names, NEW u \in Urls, Register(s, n, u)
      PROVE  AnsweredInv'
  <2> DEFINE c == [name |-> n, url |-> u, current |-> FALSE, step |-> "stored"]
             checks == Orphan({n})
  <2>1. check' = checks \/ check' = [checks EXCEPT ![s] = c]
    BY <1>1 DEF Register
  <2>2. c.step # "ok" /\ NewService(n, u).status # "healthy" /\ NewService(n, u) # None
    BY DEF NewService, Info, Statuses
  <2>3. checks \in [Slots -> Checks \cup {None}]
    BY OrphanTyped
  <2>4. \A t \in Slots : checks[t] # None /\ checks[t].step = "ok" => checks[t].url \in answered
    BY OrphanKeeps DEF AnsweredInv
  <2>5. answered' = answered /\ load' = load
    BY <1>1 DEF Register, Wanted
  <2> HIDE DEF c, checks
  <2>6. \A t \in Slots : check'[t] # None /\ check'[t].step = "ok" => check'[t].url \in answered
    BY <2>1, <2>2, <2>3, <2>4
  <2>7. \A m \in Names : Seen(services'[m]) /\ Seen(stored'[m])
    BY <1>1, <2>2 DEF Register, AnsweredInv, Seen
  <2> QED
    BY <2>5, <2>6, <2>7 DEF AnsweredInv, Seen
<1>2. ASSUME NEW n \in Names, Unregister(n)
      PROVE  AnsweredInv'
  BY <1>2, OrphanKeeps DEF Unregister, Wanted, Forget, AnsweredInv, Seen
<1>3. ASSUME NEW s \in Slots, FirstCheck(s)
      PROVE  AnsweredInv'
  <2>1. \A t \in Slots : check'[t] # None /\ check'[t].step = "ok" => check'[t] = check[t]
    <3>1. \A n : Asking(n, services).step # "ok"
      BY DEF Asking
    <3> QED
      BY <1>3, <3>1 DEF FirstCheck
  <2> QED
    BY <1>3, <2>1 DEF FirstCheck, registry, history, AnsweredInv, Seen
<1>4. ASSUME NEW s \in Slots, Answer(s)
      PROVE  AnsweredInv'
  <2>1. check[s] \in Checks
    BY <1>4 DEF Answer, Idle
  <2>2. answered \subseteq answered'
    BY <1>4 DEF Answer
  <2>3. \A t \in Slots : check'[t] # None /\ check'[t].step = "ok" => check'[t].url \in answered'
    <3> SUFFICES ASSUME NEW t \in Slots, check'[t] # None, check'[t].step = "ok"
                 PROVE  check'[t].url \in answered'
      OBVIOUS
    <3>1. CASE t = s
      <4>1. check'[s].url = check[s].url /\ check[s].url \in up
        BY <1>4, <2>1, <3>1 DEF Answer, Checks
      <4> QED
        BY <1>4, <3>1, <4>1 DEF Answer
    <3>2. CASE t # s
      BY <1>4, <2>2, <3>2 DEF Answer, AnsweredInv
    <3> QED
      BY <3>1, <3>2
  <2> QED
    BY <1>4, <2>2, <2>3 DEF Answer, registry, AnsweredInv, Seen
<1>5. ASSUME NEW s \in Slots, NoteHealthy(s) \/ NoteUnhealthy(s)
      PROVE  AnsweredInv'
  <2>1. PICK t \in Statuses : /\ Note(s, t) /\ (Write(s, t) \/ UNCHANGED stored)
                              /\ t = "healthy" => check[s].url \in answered
    BY <1>5 DEF NoteHealthy, NoteUnhealthy, Statuses, AnsweredInv, Idle
  <2> DEFINE v == [url |-> check[s].url, status |-> t]
  <2>2. /\ services' = services \/ services' = [services EXCEPT ![check[s].name] = v]
        /\ stored' = stored \/ stored' = [stored EXCEPT ![check[s].name] = v]
    BY <2>1 DEF Note, Write
  <2>3. Seen(v)
    BY <2>1 DEF Seen
  <2> HIDE DEF v
  <2>4. \A m \in Names : Seen(services'[m]) /\ Seen(stored'[m])
    BY <2>2, <2>3 DEF AnsweredInv
  <2>5. \A r \in Slots : check'[r] # None /\ check'[r].step = "ok" => check'[r] = check[r]
    <3>1. check[s] \in Checks
      BY <1>5 DEF NoteHealthy, NoteUnhealthy, Idle
    <3>2. [check[s] EXCEPT !.step = "failed"].step = "failed"
      BY <3>1 DEF Checks
    <3> QED
      BY <1>5, <3>2 DEF NoteHealthy, NoteUnhealthy
  <2>6. answered' = answered /\ load' = load
    BY <1>5 DEF NoteHealthy, NoteUnhealthy, history
  <2> QED
    BY <2>4, <2>5, <2>6 DEF AnsweredInv, Seen
<1>6. CASE Cycle
  <2>1. Known \in SUBSET Names
    BY DEF Known
  <2>2. \A t \in Slots : check'[t] # None /\ check'[t].step = "ok" => check'[t] = check[t]
    <3>1. \A t \in Slots : check'[t] = check[t] \/ \E n \in Known : check'[t] = Asking(n, services)
      BY <1>6, <2>1, CheckAllAsks DEF Cycle, Checked
    <3>2. \A n : Asking(n, services).step # "ok"
      BY DEF Asking
    <3> QED
      BY <3>1, <3>2
  <2> QED
    BY <1>6, <2>2 DEF Cycle, registry, history, AnsweredInv, Seen
<1>7. ASSUME NEW next \in {"start", "check"}, LoadServices(next)
      PROVE  AnsweredInv'
  <2>1. \A n \in Names : load'.records[n] = stored[n] \/ load'.records[n] = None
    BY <1>7 DEF LoadServices
  <2> QED
    BY <1>7, <2>1 DEF LoadServices, AnsweredInv, Seen, registry, history
<1>8. CASE FinishLoad
  <2> DEFINE known == {m \in Names : services'[m] # None}
             checks == Orphan({m \in Names : load.records[m] # None})
  <2>1. check' = checks \/ CheckAll(checks, services', known)
    BY <1>8 DEF FinishLoad
  <2>2. \A t \in Slots : checks[t] # None /\ checks[t].step = "ok" => checks[t].url \in answered
    BY OrphanKeeps DEF AnsweredInv
  <2>3. known \in SUBSET Names
    OBVIOUS
  <2> HIDE DEF checks, known
  <2>4. \A t \in Slots : check'[t] # None /\ check'[t].step = "ok" => check'[t] = checks[t]
    <3>1. \A t \in Slots : check'[t] = checks[t] \/ \E n \in known : check'[t] = Asking(n, services')
      BY <2>1, <2>3, CheckAllAsks
    <3>2. \A n : Asking(n, services').step # "ok"
      BY DEF Asking
    <3> QED
      BY <3>1, <3>2
  <2> QED
    BY <1>8, <2>2, <2>4 DEF FinishLoad, Loaded, history, AnsweredInv, Seen
<1>9. CASE Stop \/ UNCHANGED vars \/ \E u \in Urls : Flip(u)
  BY <1>9 DEF Stop, Flip, vars, registry, process, history, AnsweredInv, Seen
<1>10. CASE Restart
  BY <1>10 DEF Restart, history, AnsweredInv, Seen
<1> QED
  BY <1>1, <1>2, <1>3, <1>4, <1>5, <1>6, <1>7, <1>8, <1>9, <1>10
     DEF Next, Advance, Initialize, Discover

\* getServiceUrl returns urls that have answered a check, whatever was
\* reloaded, registered again or checked late.
THEOREM RoutesAreToWhatAnswered == Spec => []RoutesToWhatAnswered
<1>1. Init => AnsweredInv
  BY DEF Init, AnsweredInv, Seen
<1>2. AnsweredInv => RoutesToWhatAnswered
  BY DEF AnsweredInv, RoutesToWhatAnswered, Seen, Known
<1> QED
  BY <1>1, <1>2, AnsweredStep, DiscoveryTypeCorrect, PTL DEF Spec
=============================================================================
