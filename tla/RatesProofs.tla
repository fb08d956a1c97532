---------------------------- MODULE RatesProofs ----------------------------
(***************************************************************************)
(* Proofs about ExchangeRates: its types, that places written together     *)
(* agree, and that no conversion goes back behind what was written, for    *)
(* any currencies, providers, processes and bounds.                        *)
(***************************************************************************)
EXTENDS ExchangeRates, SequenceTheorems, TLAPS

-----------------------------------------------------------------------------
(* What is written, and where.                                             *)

LEMMA PairFacts ==
  ASSUME NEW pair \in Pairs
  PROVE  /\ pair[1] \in Currencies /\ pair[2] \in Currencies /\ pair[1] # pair[2]
         /\ pair = <<pair[1], pair[2]>>
BY DEF Pairs

LEMMA PriceKeyIsACacheKey ==
  ASSUME NEW a \in Priced
  PROVE  PriceKey(a) \in CacheKeys
BY DEF CacheKeys

LEMMA DocumentsAreNoKeys ==
  ASSUME NEW a, NEW s
  PROVE  Document(a, s) \notin CacheKeys
<1>1. \A x, y : Document(a, s) # <<x, y>>
  BY DEF Document
<1>2. \A b : PriceKey(b) # Document(a, s)
  BY <1>1 DEF PriceKey, Keys, RateKey
<1> QED
  BY <1>1, <1>2 DEF CacheKeys, Keys, RateKey

LEMMA RateFacts ==
  ASSUME NEW pair \in Pairs
  PROVE  LET i == Rate(pair[1], pair[2])
         IN /\ i \in Items
            /\ i.form = "number"
            /\ i.first \in Keys /\ i.second \in Keys /\ i.first # i.second
            /\ i.together = {i.first, i.second}
            /\ i.together \in Togethers
<1>1. RateKey(pair[1], pair[2]) \in Keys
  BY DEF Keys
<1>2. <<pair[2], pair[1]>> \in Pairs
  BY PairFacts DEF Pairs
<1>3. RateKey(pair[2], pair[1]) \in Keys
  BY <1>2 DEF Keys, RateKey
<1>4. RateKey(pair[1], pair[2]) # RateKey(pair[2], pair[1])
  BY PairFacts DEF RateKey
<1>5. Rate(pair[1], pair[2]) \in Items
  BY DEF Items
<1>6. Pair(pair[1], pair[2]) \in Togethers
  BY DEF Togethers
<1> QED
  BY <1>1, <1>3, <1>4, <1>5, <1>6 DEF Rate, Pair

LEMMA PriceFacts ==
  ASSUME NEW a \in Priced, NEW s \in Sources
  PROVE  LET i == Price(a, s)
         IN /\ i \in Items
            /\ i.form = "object"
            /\ i.first = Document(a, s) /\ i.second = PriceKey(a)
            /\ i.first \in Places \ CacheKeys /\ i.second \in CacheKeys
            /\ i.first \in i.together /\ i.second \in i.together
            /\ i.together = PriceOf(a)
            /\ i.together \in Togethers
<1>1. Document(a, s) \in Places
  BY DEF Places
<1>2. Price(a, s) \in Items
  BY DEF Items
<1>3. PriceOf(a) \in Togethers
  BY DEF Togethers
<1> QED
  BY <1>1, <1>2, <1>3, DocumentsAreNoKeys, PriceKeyIsACacheKey DEF Price, PriceOf

\* Every item is the rate of a pair or the price of an asset.
LEMMA ItemCases ==
  ASSUME NEW i \in Items
  PROVE  \/ \E pair \in Pairs : i = Rate(pair[1], pair[2])
         \/ \E a \in Priced, s \in Sources : i = Price(a, s)
BY DEF Items

LEMMA ItemFacts ==
  ASSUME NEW i \in Items
  PROVE  /\ i.form \in {"number", "object"}
         /\ i.first \in Places /\ i.second \in Places /\ i.second \in CacheKeys
         /\ i.first \in i.together /\ i.second \in i.together
         /\ i.first # i.second
         /\ i.together \in Togethers
<1>1. CacheKeys \subseteq Places /\ Keys \subseteq CacheKeys
  BY DEF Places, CacheKeys
<1>2. CASE \E pair \in Pairs : i = Rate(pair[1], pair[2])
  BY <1>1, <1>2, RateFacts
<1>3. CASE \E a \in Priced, s \in Sources : i = Price(a, s)
  BY <1>1, <1>3, PriceFacts
<1> QED
  BY <1>2, <1>3, ItemCases

\* Writing a place of a pair without writing the pair writes an object, and
\* writing a place of a price without writing the price writes a number to
\* its key.
LEMMA OtherPlacesOfAPair ==
  ASSUME NEW pair \in Pairs, NEW i \in Items, NEW k \in {i.first, i.second},
         k \in Pair(pair[1], pair[2]), i.together # Pair(pair[1], pair[2])
  PROVE  i.form = "object"
<1>1. CASE \E p \in Pairs : i = Rate(p[1], p[2])
  <2>1. PICK p \in Pairs : i = Rate(p[1], p[2])
    BY <1>1
  <2>2. k = <<p[1], p[2]>> \/ k = <<p[2], p[1]>>
    BY <2>1 DEF Rate, RateKey
  <2>3. k = <<pair[1], pair[2]>> \/ k = <<pair[2], pair[1]>>
    BY DEF Pair, RateKey
  <2>4. Pair(p[1], p[2]) = Pair(pair[1], pair[2])
    BY <2>2, <2>3 DEF Pair, RateKey
  <2> QED
    BY <2>1, <2>4 DEF Rate
<1>2. CASE \E a \in Priced, s \in Sources : i = Price(a, s)
  BY <1>2 DEF Price
<1> QED
  BY <1>1, <1>2, ItemCases

LEMMA PriceKeysDiffer ==
  ASSUME NEW a \in Priced, NEW b \in Priced, PriceKey(a) = PriceKey(b)
  PROVE  a = b
<1>1. \A x : <<"price", x>> \notin Keys
  BY RatesAssumption, PairFacts DEF Keys, RateKey
<1> QED
  BY <1>1 DEF PriceKey

LEMMA OtherPlacesOfAPrice ==
  ASSUME NEW a \in Priced, NEW i \in Items, NEW k \in {i.first, i.second},
         k \in PriceOf(a), i.together # PriceOf(a)
  PROVE  i.form = "number" /\ k = PriceKey(a)
<1>1. CASE \E p \in Pairs : i = Rate(p[1], p[2])
  <2>1. PICK p \in Pairs : i = Rate(p[1], p[2])
    BY <1>1
  <2>2. k \in CacheKeys
    BY <2>1, RateFacts DEF CacheKeys
  <2> QED
    BY <2>1, <2>2, DocumentsAreNoKeys DEF Rate, PriceOf
<1>2. CASE \E b \in Priced, s \in Sources : i = Price(b, s)
  <2>1. PICK b \in Priced, s \in Sources : i = Price(b, s)
    BY <1>2
  <2>2. a # b
    BY <2>1 DEF Price
  <2>3. k = Document(b, s) \/ k = PriceKey(b)
    BY <2>1 DEF Price
  <2>4. k # Document(b, s)
    <3>1. \A t \in Sources : Document(b, s) # Document(a, t)
      BY <2>2 DEF Document
    <3>2. Document(b, s) # PriceKey(a)
      BY DocumentsAreNoKeys, PriceKeyIsACacheKey
    <3> QED
      BY <3>1, <3>2 DEF PriceOf
  <2>5. k # PriceKey(b)
    <3>1. \A t \in Sources : PriceKey(b) # Document(a, t)
      BY DocumentsAreNoKeys, PriceKeyIsACacheKey
    <3>2. PriceKey(b) # PriceKey(a)
      BY <2>2, PriceKeysDiffer
    <3> QED
      BY <3>1, <3>2 DEF PriceOf
  <2> QED
    BY <2>3, <2>4, <2>5
<1> QED
  BY <1>1, <1>2, ItemCases

-----------------------------------------------------------------------------
(* Typing of the jobs.                                                     *)
Part == Seq(Items) \ {<<>>}
JobOK(j) == j = None \/ (j \in Jobs /\ WellFormed(j))

LEMMA ItemsAreRates ==
  ASSUME NEW pair \in Pairs
  PROVE  Rate(pair[1], pair[2]) \in Items
BY DEF Items

LEMMA RatesTyped ==
  ASSUME NEW batch \in Seq(Pairs) \ {<<>>}
  PROVE  Rates(batch) \in Part
<1>1. \A i \in DOMAIN batch : batch[i] \in Pairs
  OBVIOUS
<1>2. Rates(batch) \in [1..Len(batch) -> Items]
  BY <1>1, ItemsAreRates DEF Rates
<1>3. Len(batch) \in Nat /\ Len(batch) # 0
  OBVIOUS
<1>4. Rates(batch) \in Seq(Items)
  BY <1>2, <1>3
<1>5. Rates(batch) # <<>>
  BY <1>2, <1>3
<1> QED
  BY <1>4, <1>5 DEF Part

LEMMA AllRatesTyped == AllRates \in Seq(Part) /\ AllRates # <<>>
<1> DEFINE batches == [i \in DOMAIN Batches |-> Rates(Batches[i])]
           metals == [i \in DOMAIN MetalCurrencies |-> <<Rate(MetalCurrencies[i], USD)>>]
<1>1. batches \in Seq(Part) /\ batches # <<>>
  <2>1. Len(Batches) \in Nat \ {0} /\ DOMAIN Batches = 1..Len(Batches)
    BY RatesAssumption
  <2>2. \A i \in 1..Len(Batches) : Rates(Batches[i]) \in Part
    BY <2>1, RatesAssumption, RatesTyped
  <2>3. batches \in [1..Len(Batches) -> Part]
    BY <2>1, <2>2
  <2> QED
    BY <2>1, <2>3
<1>2. metals \in Seq(Part)
  <2>1. Len(MetalCurrencies) \in Nat /\ DOMAIN MetalCurrencies = 1..Len(MetalCurrencies)
    BY RatesAssumption
  <2>2. ASSUME NEW i \in 1..Len(MetalCurrencies)
        PROVE  <<Rate(MetalCurrencies[i], USD)>> \in Part
    <3>1. MetalCurrencies[i] \in Metals
      BY RatesAssumption
    <3>2. <<MetalCurrencies[i], USD>> \in Pairs
      BY <3>1, RatesAssumption DEF Pairs, Currencies
    <3>3. Rate(MetalCurrencies[i], USD) \in Items
      BY <3>2, ItemsAreRates
    <3> QED
      BY <3>3 DEF Part
  <2>3. metals \in [1..Len(MetalCurrencies) -> Part]
    BY <2>1, <2>2
  <2> QED
    BY <2>1, <2>3
<1> HIDE DEF batches, metals
<1>3. batches \o metals \in Seq(Part) /\ Len(batches \o metals) = Len(batches) + Len(metals)
  BY <1>1, <1>2
<1>4. Len(batches) \in Nat \ {0} /\ Len(metals) \in Nat
  BY <1>1, <1>2
<1> QED
  BY <1>3, <1>4 DEF AllRates, batches, metals

LEMMA NoJobTyped == NoJob \in Jobs
BY RatesAssumption DEF NoJob, Jobs

LEMMA NewJobsTyped ==
  /\ JobOK(Update)
  /\ \A list \in PriceLists, s \in Sources :
       JobOK([NoJob EXCEPT !.kind = "price",
                !.plan = <<[i \in DOMAIN list |-> Price(list[i], s)]>>])
  /\ \A pair \in Pairs : JobOK(Conversion(pair[1], pair[2]))
<1>0. 0 \in 0..MaxVersion
  BY RatesAssumption
<1>1. JobOK(Update)
  BY <1>0, AllRatesTyped, NoJobTyped DEF Update, NoJob, JobOK, Jobs, WellFormed, Part
<1>2. ASSUME NEW list \in PriceLists, NEW s \in Sources
      PROVE  JobOK([NoJob EXCEPT !.kind = "price",
                      !.plan = <<[i \in DOMAIN list |-> Price(list[i], s)]>>])
  <2> DEFINE part == [i \in DOMAIN list |-> Price(list[i], s)]
  <2>1. list \in Seq(Priced) /\ list # <<>>
    BY RatesAssumption
  <2>2. Len(list) \in Nat \ {0} /\ DOMAIN list = 1..Len(list)
    BY <2>1
  <2>3. \A i \in 1..Len(list) : list[i] \in Priced
    BY <2>1
  <2>4. part \in [1..Len(list) -> Items]
    BY <2>2, <2>3 DEF Items
  <2>5. part \in Part
    BY <2>2, <2>4 DEF Part
  <2> HIDE DEF part
  <2>6. <<part>> \in Seq(Part) /\ <<part>> # <<>>
    BY <2>5
  <2>7. JobOK([NoJob EXCEPT !.kind = "price", !.plan = <<part>>])
    BY <2>6, NoJobTyped DEF NoJob, JobOK, Jobs, WellFormed, Part
  <2> QED
    BY <2>7 DEF part
<1>3. ASSUME NEW pair \in Pairs PROVE JobOK(Conversion(pair[1], pair[2]))
  <2>1. <<Rate(pair[1], pair[2])>> \in Seq(Items) /\ <<Rate(pair[1], pair[2])>> # <<>>
    BY ItemsAreRates
  <2>2. /\ Len(<<Rate(pair[1], pair[2])>>) = 1
        /\ Head(<<Rate(pair[1], pair[2])>>).form = "number"
    BY DEF Rate
  <2> QED
    BY <2>1, <2>2, NoJobTyped DEF Conversion, NoJob, JobOK, Jobs, WellFormed, Part
<1> QED
  BY <1>1, <1>2, <1>3

LEMMA ContinueTyped ==
  ASSUME NEW j \in Jobs, j.kind = "convert" => j.plan = <<>>
  PROVE  JobOK(Continue(j))
<1>1. CASE j.plan = <<>>
  BY <1>1 DEF Continue, JobOK
<1>2. CASE j.plan # <<>>
  <2>1. 0 \in 0..MaxVersion /\ <<>> \in Seq(Items) /\ {} \in SUBSET Places
    BY RatesAssumption
  <2> QED
    BY <1>2, <2>1 DEF Continue, JobOK, Jobs, WellFormed
<1> QED
  BY <1>1, <1>2

LEMMA GiveUpTyped ==
  ASSUME NEW j \in Jobs, j.kind = "convert" => j.plan = <<>>,
         Len(j.todo) > 1 => j.step = "write"
  PROVE  JobOK(GiveUp(j))
<1>1. CASE j.kind = "update" /\ Len(j.plan) >= Len(MetalCurrencies)
  BY <1>1, ContinueTyped DEF GiveUp
<1>2. CASE j.kind = "price" /\ Len(j.todo) > 1
  <2>1. GiveUp(j) = [j EXCEPT !.todo = Tail(@), !.half = FALSE]
    <3>1. j.kind # "update"
      BY <1>2
    <3> QED
      BY <1>2, <3>1 DEF GiveUp
  <2>2. Tail(j.todo) \in Seq(Items) /\ Tail(j.todo) # <<>>
    <3>1. j.todo \in Seq(Items)
      BY DEF Jobs
    <3>2. Len(j.todo) > 1
      BY <1>2
    <3> QED
      BY <3>1, <3>2
  <2> QED
    BY <1>2, <2>1, <2>2 DEF JobOK, Jobs, WellFormed
<1>3. CASE ~(j.kind = "update" /\ Len(j.plan) >= Len(MetalCurrencies))
           /\ ~(j.kind = "price" /\ Len(j.todo) > 1)
  <2>1. GiveUp(j) = None
    BY <1>3 DEF GiveUp
  <2> QED
    BY <2>1 DEF JobOK
<1> QED
  BY <1>1, <1>2, <1>3

LEMMA AfterWriteTyped ==
  ASSUME NEW j \in Jobs, WellFormed(j), j.step = "write"
  PROVE  JobOK(AfterWrite(j))
<1>1. CASE ~j.half
  BY <1>1 DEF AfterWrite, JobOK, Jobs, WellFormed
<1>2. CASE j.half /\ Len(j.todo) > 1
  <2>1. AfterWrite(j) = [j EXCEPT !.half = FALSE, !.todo = Tail(@)]
    BY <1>2 DEF AfterWrite
  <2>2. Tail(j.todo) \in Seq(Items) /\ Tail(j.todo) # <<>>
    BY <1>2 DEF Jobs
  <2> QED
    <3>1. Len(j.todo) \in Nat /\ Len(j.todo) > 1
      BY <1>2 DEF Jobs
    <3>2. Len(j.todo) # 1
      <4>1. \A n \in Nat : n > 1 => n # 1
        OBVIOUS
      <4> QED
        BY <3>1, <4>1, Zenon
    <3>3. j.kind # "convert"
      BY <3>2 DEF WellFormed
    <3> QED
      BY <2>1, <2>2, <3>3 DEF JobOK, Jobs, WellFormed
<1>3. CASE j.half /\ ~(Len(j.todo) > 1)
  BY <1>3, ContinueTyped DEF AfterWrite, WellFormed
<1> QED
  BY <1>1, <1>2, <1>3

LEMMA TouchedTyped ==
  ASSUME NEW j \in Jobs, WellFormed(j), NEW k \in Places
  PROVE  JobOK(Touched(j, k))
BY DEF Touched, JobOK, Jobs, WellFormed

LEMMA PartsTyped ==
  ASSUME NEW items \in Seq(Items), NEW brought \in Parts(items)
  PROVE  brought \in Seq(Items)
<1>1. PICK f \in Increasing(Len(items)) : brought = [i \in DOMAIN f |-> items[f[i]]]
  BY DEF Parts
<1>2. PICK m \in 0..Len(items) : f \in [1..m -> 1..Len(items)]
  BY <1>1 DEF Increasing
<1>3. \A i \in 1..m : items[f[i]] \in Items
  BY <1>2
<1>4. brought \in [1..m -> Items]
  BY <1>1, <1>2, <1>3
<1>5. m \in Nat
  BY <1>2
<1> QED
  BY <1>4, <1>5

LEMMA PartsOfOne ==
  ASSUME NEW items \in Seq(Items), Len(items) = 1, NEW brought \in Parts(items)
  PROVE  brought = <<>> \/ brought = items
<1>1. PICK f \in Increasing(1) : brought = [i \in DOMAIN f |-> items[f[i]]]
  BY DEF Parts
<1>2. PICK m \in 0..1 : f \in [1..m -> 1..1]
  BY <1>1 DEF Increasing
<1>3. CASE m = 0
  BY <1>1, <1>2, <1>3
<1>4. CASE m = 1
  <2>1. f \in [1..1 -> 1..1]
    BY <1>2, <1>4
  <2>2. DOMAIN f = {1} /\ f[1] = 1
    BY <2>1
  <2>3. brought = [i \in {1} |-> items[1]]
    BY <1>1, <2>2
  <2>4. items = [i \in {1} |-> items[1]]
    <3>1. items \in [1..1 -> Items]
      OBVIOUS
    <3> QED
      BY <3>1
  <2> QED
    BY <2>3, <2>4
<1> QED
  BY <1>2, <1>3, <1>4

LEMMA WantedTyped ==
  ASSUME NEW j \in Jobs, WellFormed(j), j.step = "fetch"
  PROVE  Wanted(j) \in Seq(Items) \ {<<>>}
<1>1. CASE j.kind = "convert"
  <2>1. j.todo \in Seq(Items) /\ Len(j.todo) = 1
    BY <1>1 DEF Jobs, WellFormed
  <2>2. j.todo # <<>>
    BY <2>1
  <2> QED
    BY <1>1, <2>1, <2>2 DEF Wanted
<1>2. CASE j.kind # "convert"
  <2>1. j.plan \in Seq(Part) /\ j.plan # <<>>
    BY <1>2 DEF Jobs, WellFormed, Part
  <2> QED
    BY <1>2, <2>1 DEF Wanted, Part
<1> QED
  BY <1>1, <1>2

LEMMA FetchedTyped ==
  ASSUME NEW j \in Jobs, WellFormed(j), j.step = "fetch", Observed \in 0..MaxVersion,
         NEW brought \in Parts(Wanted(j))
  PROVE  JobOK(Fetched(j, brought))
<1> DEFINE rest == [j EXCEPT !.plan = IF @ = <<>> THEN @ ELSE Tail(@)]
<1>1. j.plan \in Seq(Part)
  BY DEF Jobs, Part
<1>2. IF j.plan = <<>> THEN rest.plan = <<>> ELSE rest.plan = Tail(j.plan)
  BY DEF Jobs
<1>3. rest.plan \in Seq(Part) /\ (j.kind = "convert" => rest.plan = <<>>)
  BY <1>1, <1>2 DEF WellFormed
<1>4. /\ rest \in Jobs /\ rest.kind = j.kind /\ rest.half = j.half
  BY <1>3 DEF Jobs, Part
<1>5. brought \in Seq(Items)
  BY WantedTyped, PartsTyped
<1>6. j.kind = "convert" => brought = <<>> \/ brought = j.todo
  <2> HAVE j.kind = "convert"
  <2>1. j.todo \in Seq(Items) /\ Len(j.todo) = 1 /\ Wanted(j) = j.todo
    BY DEF Jobs, WellFormed, Wanted
  <2> QED
    BY <2>1, PartsOfOne
<1>7. ~j.half
  BY DEF WellFormed
<1> DEFINE n == [rest EXCEPT !.step = "write", !.todo = brought, !.version = Observed,
                             !.touched = {}]
<1>8. Fetched(j, brought) = IF brought = <<>> THEN Continue(rest) ELSE n
  BY DEF Fetched
<1> HIDE DEF rest
<1>9. CASE brought = <<>>
  BY <1>3, <1>4, <1>8, <1>9, ContinueTyped
<1>10. CASE brought # <<>>
  <2>1. n \in Jobs
    BY <1>4, <1>5 DEF Jobs
  <2>2. /\ n.step = "write" /\ n.todo = brought /\ n.kind = j.kind /\ n.plan = rest.plan
        /\ ~n.half
    BY <1>4, <1>7 DEF Jobs
  <2> HIDE DEF n
  <2>3. WellFormed(n)
    BY <1>3, <1>6, <1>10, <2>2 DEF WellFormed
  <2> QED
    BY <1>8, <1>10, <2>1, <2>3 DEF JobOK
<1> QED
  BY <1>9, <1>10

-----------------------------------------------------------------------------
(* Type correctness.                                                       *)
JobsTyped == job \in [Processes -> Jobs \cup {None}] /\ \A p \in Busy : WellFormed(job[p])

LEMMA BusyTyped ==
  ASSUME JobsTyped, NEW p \in Processes
  PROVE  /\ p \in Busy <=> job[p] # None
         /\ p \in Busy => job[p] \in Jobs /\ WellFormed(job[p])
BY DEF JobsTyped, Busy

LEMMA JobTyped ==
  ASSUME JobsTyped, NEW p \in Processes, NEW j, JobOK(j), job' = [job EXCEPT ![p] = j]
  PROVE  JobsTyped'
<1>1. job' \in [Processes -> Jobs \cup {None}]
  BY DEF JobsTyped, JobOK
<1>2. ASSUME NEW q \in Processes, job'[q] # None
      PROVE  WellFormed(job'[q])
  BY <1>2, BusyTyped DEF JobsTyped, JobOK
<1> QED
  BY <1>1, <1>2 DEF JobsTyped, Busy

LEMMA NoJobsTyped ==
  ASSUME job' = [p \in Processes |-> None]
  PROVE  JobsTyped'
BY DEF JobsTyped, Busy

LEMMA ForgottenTyped ==
  ASSUME known \in [Togethers -> 0..MaxVersion], NEW ps
  PROVE  Forgotten(ps) \in [Togethers -> 0..MaxVersion]
<1>1. 0 \in 0..MaxVersion
  BY RatesAssumption
<1> QED
  BY <1>1 DEF Forgotten

LEMMA TroubleTyped ==
  ASSUME troubles \in 0..MaxTroubles, Trouble
  PROVE  troubles' \in 0..MaxTroubles
BY RatesAssumption DEF Trouble

LEMMA FoundTyped ==
  ASSUME TypeOK, NEW p \in Processes, NEW i \in Items, NEW e \in Entry \cup {None},
         Found(p, i, e)
  PROVE  /\ JobsTyped'
         /\ answer' \in [pair : Togethers, version : 0..MaxVersion] \cup {None}
<1>1. JobsTyped
  BY DEF TypeOK, JobsTyped
<1>2. JobsTyped'
  BY <1>1, JobTyped DEF Found, JobOK
<1>3. e \in Entry
  BY DEF Found
<1> QED
  BY <1>2, <1>3, ItemFacts DEF Found, Answer, Entry

LEMMA NotFoundTyped ==
  ASSUME TypeOK, NEW p \in Processes, NEW e, NEW next, JobOK(next), NotFound(p, e, next)
  PROVE  /\ JobsTyped'
         /\ answer' \in [pair : Togethers, version : 0..MaxVersion] \cup {None}
<1>1. JobsTyped
  BY DEF TypeOK, JobsTyped
<1> QED
  BY <1>1, JobTyped DEF NotFound

LEMMA InitTyped == Init => TypeOK
<1>1. 0 \in 0..MaxVersion /\ MaxTroubles \in 0..MaxTroubles
  BY RatesAssumption
<1> QED
  BY <1>1 DEF Init, TypeOK, Busy

LEMMA StartUpdateTyped ==
  ASSUME TypeOK, NEW p \in Updates, StartUpdate(p)
  PROVE  TypeOK'
<1>1. JobsTyped'
  BY NewJobsTyped, JobTyped DEF StartUpdate, TypeOK, JobsTyped, Processes
<1> QED
  BY <1>1 DEF StartUpdate, TypeOK, JobsTyped

LEMMA StartPricesTyped ==
  ASSUME TypeOK, NEW p \in Prices, NEW list \in PriceLists, StartPrices(p, list)
  PROVE  TypeOK'
<1>1. PICK s \in Sources :
        job' = [job EXCEPT ![p] = [NoJob EXCEPT !.kind = "price",
                  !.plan = <<[i \in DOMAIN list |-> Price(list[i], s)]>>]]
  BY DEF StartPrices
<1>2. p \in Processes
  BY DEF Processes
<1>3. JobsTyped
  BY DEF TypeOK, JobsTyped
<1>4. JobsTyped'
  <2> DEFINE j == [NoJob EXCEPT !.kind = "price",
                  !.plan = <<[i \in DOMAIN list |-> Price(list[i], s)]>>]
  <2>1. JobOK(j)
    BY NewJobsTyped
  <2>2. job' = [job EXCEPT ![p] = j]
    BY <1>1
  <2> HIDE DEF j
  <2> QED
    BY <1>2, <1>3, <2>1, <2>2, JobTyped
<1> QED
  BY <1>4 DEF StartPrices, TypeOK, JobsTyped

\* A pair that is asked for is two places.
LEMMA PlacesOfAnItem ==
  ASSUME TypeOK, NEW i \in Items
  PROVE  stored[i.first] \in Entry \cup {None} /\ stored[i.second] \in Entry \cup {None}
BY ItemFacts DEF TypeOK

LEMMA ConvertTyped ==
  ASSUME TypeOK, NEW p \in Requests, NEW pair \in Conversions, Convert(p, pair[1], pair[2])
  PROVE  TypeOK'
<1> DEFINE i == Rate(pair[1], pair[2])
           e == stored[RateKey(pair[1], pair[2])]
           next == Conversion(pair[1], pair[2])
<1>1. p \in Processes /\ pair \in Pairs
  BY RatesAssumption DEF Processes
<1>2. i \in Items /\ e = stored[i.first]
  BY <1>1, RateFacts DEF Rate
<1>3. e \in Entry \cup {None}
  BY <1>2, PlacesOfAnItem
<1>4. JobOK(next)
  BY <1>1, NewJobsTyped
<1>5. Found(p, i, e) \/ NotFound(p, e, next)
  BY DEF Convert
<1> HIDE DEF i, e, next
<1>6. /\ JobsTyped'
      /\ answer' \in [pair : Togethers, version : 0..MaxVersion] \cup {None}
  BY <1>1, <1>2, <1>3, <1>4, <1>5, FoundTyped, NotFoundTyped
<1> QED
  BY <1>6 DEF Convert, TypeOK, JobsTyped

LEMMA LookInverseTyped ==
  ASSUME TypeOK, NEW p \in Processes, LookInverse(p)
  PROVE  TypeOK'
<1> DEFINE i == Head(job[p].todo)
           e == stored[i.second]
           next == [job[p] EXCEPT !.step = "fetch"]
<1>1. JobsTyped /\ p \in Busy /\ job[p].step = "inverse"
  BY DEF TypeOK, JobsTyped, LookInverse
<1>2. job[p] \in Jobs /\ WellFormed(job[p])
  BY <1>1, BusyTyped
<1>3. job[p].kind = "convert" /\ job[p].todo # <<>> /\ job[p].todo \in Seq(Items)
  BY <1>1, <1>2 DEF WellFormed, Jobs
<1>4. i \in Items
  BY <1>3
<1>5. e \in Entry \cup {None}
  BY <1>4, PlacesOfAnItem
<1>6. JobOK(next)
  BY <1>1, <1>2, <1>3 DEF JobOK, Jobs, WellFormed
<1>7. Found(p, i, e) \/ NotFound(p, e, next)
  BY DEF LookInverse
<1> HIDE DEF i, e, next
<1>8. /\ JobsTyped'
      /\ answer' \in [pair : Togethers, version : 0..MaxVersion] \cup {None}
  BY <1>4, <1>5, <1>6, <1>7, FoundTyped, NotFoundTyped
<1> QED
  BY <1>8 DEF LookInverse, TypeOK, JobsTyped

LEMMA ObservedTyped ==
  ASSUME TypeOK
  PROVE  Observed \in 0..MaxVersion /\ Observed >= clock
BY RatesAssumption DEF TypeOK, Observed

LEMMA FetchTyped ==
  ASSUME TypeOK, NEW p \in Processes, Fetch(p)
  PROVE  TypeOK'
<1>1. JobsTyped /\ p \in Busy /\ job[p].step = "fetch"
  BY DEF TypeOK, JobsTyped, Fetch
<1>2. job[p] \in Jobs /\ WellFormed(job[p])
  BY <1>1, BusyTyped
<1>3. PICK brought \in Parts(Wanted(job[p])) : FetchBrings(p, brought)
  BY DEF Fetch
<1>4. JobOK(Fetched(job[p], brought))
  BY <1>1, <1>2, ObservedTyped, FetchedTyped
<1>5. JobsTyped'
  BY <1>1, <1>3, <1>4, JobTyped DEF FetchBrings
<1> QED
  BY <1>3, <1>5, ObservedTyped DEF FetchBrings, TypeOK, JobsTyped

LEMMA NotFetchedTyped ==
  ASSUME NEW j \in Jobs, WellFormed(j), j.step = "fetch"
  PROVE  JobOK(NotFetched(j))
<1>1. CASE j.kind = "convert"
  BY <1>1 DEF NotFetched, JobOK
<1>2. CASE j.kind # "convert"
  <2> DEFINE rest == [j EXCEPT !.plan = Tail(@)]
  <2>1. j.todo = <<>> /\ j.plan # <<>>
    BY <1>2 DEF WellFormed
  <2>2. j.plan \in Seq(Part)
    BY DEF Jobs, Part
  <2>3. Tail(j.plan) \in Seq(Part)
    BY <2>1, <2>2
  <2>4. rest \in Jobs
    BY <2>3 DEF Jobs, Part
  <2>5. rest.kind # "convert" /\ rest.todo = <<>>
    BY <1>2, <2>1 DEF Jobs
  <2> HIDE DEF rest
  <2>6. Len(rest.todo) = 0
    BY <2>5
  <2>7. JobOK(GiveUp(rest))
    BY <2>4, <2>5, <2>6, GiveUpTyped
  <2> QED
    BY <1>2, <2>7 DEF NotFetched, rest
<1> QED
  BY <1>1, <1>2

LEMMA FetchFailsTyped ==
  ASSUME TypeOK, NEW p \in Processes, FetchFails(p)
  PROVE  TypeOK'
<1>1. JobsTyped /\ p \in Busy /\ job[p].step = "fetch"
  BY DEF TypeOK, JobsTyped, FetchFails
<1>2. job[p] \in Jobs /\ WellFormed(job[p])
  BY <1>1, BusyTyped
<1>3. JobOK(NotFetched(job[p]))
  BY <1>1, <1>2, NotFetchedTyped
<1>4. JobsTyped'
  BY <1>1, <1>3, JobTyped DEF FetchFails
<1> QED
  BY <1>4 DEF FetchFails, TypeOK, JobsTyped

\* A place that is written, by a process that writes, and what it belongs to.
LEMMA WriterFacts ==
  ASSUME TypeOK, NEW p \in Busy, job[p].step = "write"
  PROVE  /\ p \in Processes /\ job[p] \in Jobs /\ WellFormed(job[p])
         /\ job[p].todo \in Seq(Items) /\ job[p].todo # <<>>
         /\ job[p].version \in 0..MaxVersion
         /\ Head(job[p].todo) \in Items
         /\ Written(p) \in {Head(job[p].todo).first, Head(job[p].todo).second}
         /\ Written(p) \in Places
         /\ Written(p) \in Head(job[p].todo).together
<1>1. p \in Processes /\ job[p] \in Jobs /\ WellFormed(job[p])
  BY BusyTyped DEF TypeOK, JobsTyped, Busy
<1>2. job[p].todo \in Seq(Items) /\ job[p].todo # <<>> /\ job[p].version \in 0..MaxVersion
  BY <1>1 DEF WellFormed, Jobs
<1>3. Head(job[p].todo) \in Items
  BY <1>2
<1> QED
  BY <1>1, <1>2, <1>3, ItemFacts DEF Written

\* The write of p is carried out, and p goes on with n.
Landing(p, n, v) ==
  /\ p \in Busy /\ job[p].step = "write"
  /\ Land(p, n, v)
  /\ clock' = clock

LEMMA LandTyped ==
  ASSUME TypeOK, NEW p \in Processes, NEW n, JobOK(n), NEW v \in 0..MaxVersion,
         Landing(p, n, v)
  PROVE  /\ stored' \in [Places -> Entry \cup {None}]
         /\ JobsTyped'
         /\ known' \in [Togethers -> 0..MaxVersion]
<1> DEFINE j == job[p]
           item == Head(job[p].todo)
<1>1. p \in Busy /\ job[p].step = "write"
  BY DEF Landing
<1>2. /\ item \in Items /\ j \in Jobs /\ WellFormed(j) /\ j.version \in 0..MaxVersion
      /\ Written(p) \in Places
  BY <1>1, WriterFacts
<1>3. item.form \in {"number", "object"} /\ item.together \in Togethers
  BY <1>2, ItemFacts
<1>4. stored' \in [Places -> Entry \cup {None}]
  <2>1. [form |-> item.form, version |-> j.version] \in Entry
    BY <1>2, <1>3 DEF Entry
  <2> QED
    BY <2>1 DEF Landing, Land, TypeOK
<1>5. JobsTyped'
  <2>1. \A q \in Processes : JobOK(job'[q])
    <3> SUFFICES ASSUME NEW q \in Processes PROVE JobOK(job'[q])
      OBVIOUS
    <3>1. CASE q = p
      BY <3>1 DEF Landing, Land
    <3>2. CASE q # p /\ q \in Busy
      <4>1. job[q] \in Jobs /\ WellFormed(job[q])
        BY <3>2, BusyTyped DEF TypeOK, JobsTyped
      <4> QED
        BY <1>2, <3>2, <4>1, TouchedTyped DEF Landing, Land
    <3>3. CASE q # p /\ q \notin Busy
      BY <3>3 DEF Landing, Land, JobOK
    <3> QED
      BY <3>1, <3>2, <3>3
  <2>2. job' = [q \in Processes |-> job'[q]]
    BY DEF Landing, Land
  <2> QED
    BY <2>1, <2>2 DEF JobsTyped, JobOK, Busy
<1>6. known' \in [Togethers -> 0..MaxVersion]
  <2>1. 0 \in 0..MaxVersion
    BY RatesAssumption
  <2> QED
    BY <2>1 DEF Landing, Land, TypeOK
<1> QED
  BY <1>4, <1>5, <1>6

LEMMA WriteTyped ==
  ASSUME TypeOK, NEW p \in Processes, Write(p)
  PROVE  TypeOK'
<1> DEFINE j == job[p]
           item == Head(job[p].todo)
           v == IF j.half THEN j.version ELSE known[item.together]
<1>1. p \in Busy /\ job[p].step = "write"
  BY DEF Write
<1>2. item \in Items /\ j \in Jobs /\ WellFormed(j) /\ j.version \in 0..MaxVersion
  BY <1>1, WriterFacts
<1>3. item.together \in Togethers
  BY <1>2, ItemFacts
<1>4. v \in 0..MaxVersion
  BY <1>2, <1>3 DEF TypeOK
<1>5. JobOK(AfterWrite(j))
  BY <1>1, <1>2, AfterWriteTyped
<1>6. Landing(p, AfterWrite(j), v)
  BY DEF Write, Landing
<1>7. answer' \in [pair : Togethers, version : 0..MaxVersion] \cup {None}
  BY <1>2, <1>3 DEF Write, Answer
<1>8. clock' = clock /\ troubles' = troubles
  BY DEF Write
<1> HIDE DEF v, j
<1>9. /\ stored' \in [Places -> Entry \cup {None}]
      /\ JobsTyped'
      /\ known' \in [Togethers -> 0..MaxVersion]
  BY <1>4, <1>5, <1>6, LandTyped
<1> QED
  BY <1>7, <1>8, <1>9 DEF TypeOK, JobsTyped

LEMMA WriteRefusedTyped ==
  ASSUME TypeOK, NEW p \in Processes, WriteRefused(p)
  PROVE  TypeOK'
<1> DEFINE n == GiveUp(job[p])
           v == IF job[p].half THEN job[p].version ELSE 0
<1>1. JobsTyped /\ p \in Busy /\ job[p].step = "write"
  BY DEF TypeOK, JobsTyped, WriteRefused
<1>2. job[p] \in Jobs /\ WellFormed(job[p]) /\ job[p].version \in 0..MaxVersion
  BY <1>1, BusyTyped DEF Jobs
<1>3. JobOK(n)
  BY <1>1, <1>2, GiveUpTyped DEF WellFormed
<1>4. v \in 0..MaxVersion
  BY <1>2, RatesAssumption
<1>5. \/ job' = [job EXCEPT ![p] = n] /\ known' = Forgotten({p}) /\ UNCHANGED stored
      \/ Landing(p, n, v)
  BY DEF WriteRefused, Landing
<1>6. clock' = clock /\ answer' = None /\ Trouble
  BY DEF WriteRefused
<1> HIDE DEF n, v
<1>7. /\ stored' \in [Places -> Entry \cup {None}]
      /\ JobsTyped'
      /\ known' \in [Togethers -> 0..MaxVersion]
  <2>1. CASE job' = [job EXCEPT ![p] = n] /\ known' = Forgotten({p}) /\ UNCHANGED stored
    BY <1>1, <1>3, <2>1, JobTyped, ForgottenTyped DEF TypeOK
  <2>2. CASE Landing(p, n, v)
    BY <1>3, <1>4, <2>2, LandTyped
  <2> QED
    BY <1>5, <2>1, <2>2
<1> QED
  BY <1>6, <1>7, TroubleTyped DEF TypeOK, JobsTyped

LEMMA NextTyped == TypeOK /\ [Next]_vars => TypeOK'
<1> SUFFICES ASSUME TypeOK, [Next]_vars PROVE TypeOK'
  OBVIOUS
<1>1. ASSUME NEW p \in Updates, StartUpdate(p) PROVE TypeOK'
  BY <1>1, StartUpdateTyped
<1>2. ASSUME NEW p \in Prices, NEW list \in PriceLists, StartPrices(p, list) PROVE TypeOK'
  BY <1>2, StartPricesTyped
<1>3. ASSUME NEW p \in Requests, NEW pair \in Conversions, Convert(p, pair[1], pair[2])
      PROVE  TypeOK'
  BY <1>3, ConvertTyped
<1>4. ASSUME NEW p \in Processes, LookInverse(p) PROVE TypeOK'
  BY <1>4, LookInverseTyped
<1>5. ASSUME NEW p \in Processes, Write(p) PROVE TypeOK'
  BY <1>5, WriteTyped
<1>6. ASSUME NEW p \in Processes, Fetch(p) PROVE TypeOK'
  BY <1>6, FetchTyped
<1>7. ASSUME NEW p \in Processes, FetchFails(p) PROVE TypeOK'
  BY <1>7, FetchFailsTyped
<1>8. ASSUME NEW p \in Processes, WriteRefused(p) PROVE TypeOK'
  BY <1>8, WriteRefusedTyped
<1>9. ASSUME NEW k \in Places, Expire(k) PROVE TypeOK'
  BY <1>9, TroubleTyped DEF Expire, TypeOK, Busy, WellFormed
<1>10. CASE Restart
  BY <1>10, NoJobsTyped, ForgottenTyped, TroubleTyped DEF Restart, TypeOK, JobsTyped
<1>11. CASE UNCHANGED vars
  BY <1>11 DEF vars, TypeOK, Busy, WellFormed
<1> QED
  BY <1>1, <1>2, <1>3, <1>4, <1>5, <1>6, <1>7, <1>8, <1>9, <1>10, <1>11 DEF Next, Step

\* The variables have their types, and every process is in a state that its
\* step allows: whoever writes has something to write.
THEOREM RatesTypeCorrect == Spec => []TypeOK
BY InitTyped, NextTyped, PTL DEF Spec

-----------------------------------------------------------------------------
(* The inductive invariant.  What a version says about the places it was   *)
(* written to rests on what the writers under way have seen.               *)

\* Nothing is newer than the latest observation.
NothingIsAhead ==
  /\ \A k \in Places : stored[k] # None => stored[k].version <= clock
  /\ \A p \in Busy : job[p].version <= clock
  /\ \A t \in Togethers : known[t] <= clock

Untouched(j, together) == j.touched \cap together = {}

\* What a process is about to write is not older than what it will replace,
\* unless another process has written there since the fetch.
Replaces(j, t, places, versions) ==
  Untouched(j, t) =>
    /\ versions[t] <= j.version
    /\ \A k \in t : places[k] # None => places[k].version <= j.version
BringsNews(j, places, versions) ==
  j.step = "write" =>
    \A i \in DOMAIN j.todo : Replaces(j, j.todo[i].together, places, versions)
WritersBringNews == \A p \in Busy : BringsNews(job[p], stored, known)

\* A process half way finds what it has written, or nothing any more.
FindsHalf(j, places) ==
  j.half /\ Untouched(j, Head(j.todo).together) =>
    LET item == Head(j.todo)
    IN \/ places[item.first] = [form |-> item.form, version |-> j.version]
       \/ places[item.first] = None
HalfIsThere == \A p \in Busy : FindsHalf(job[p], stored)

\* The numbers of a pair are never older than the version it is known with.
KeepsUp(t) ==
  known[t] # 0 =>
    \A k \in t : stored[k] # None /\ stored[k].form = "number" =>
                   stored[k].version >= known[t]
PairsKeepUp == \A pair \in Pairs : KeepsUp(Pair(pair[1], pair[2]))

\* What is written in full is at the version that is known.
PairSettled(t) ==
  known[t] # 0 /\ ~HalfWay(t) =>
    \A k \in t : stored[k] # None /\ stored[k].form = "number" =>
                   stored[k].version = known[t]
PairsSettled == \A pair \in Pairs : PairSettled(Pair(pair[1], pair[2]))
PriceSettled(a) ==
  known[PriceOf(a)] # 0 /\ ~HalfWay(PriceOf(a)) =>
    /\ \A s \in Sources :
         stored[Document(a, s)] # None =>
           stored[Document(a, s)].version <= known[PriceOf(a)]
    /\ stored[PriceKey(a)] # None /\ stored[PriceKey(a)].form = "object" =>
         stored[PriceKey(a)].version = known[PriceOf(a)]
PricesSettled == \A a \in Priced : PriceSettled(a)

IndInv ==
  /\ TypeOK
  /\ NothingIsAhead
  /\ WritersBringNews
  /\ HalfIsThere
  /\ PairsKeepUp
  /\ PairsSettled
  /\ PricesSettled

LEMMA TogethersArePlaces ==
  /\ \A pair \in Pairs : /\ Pair(pair[1], pair[2]) \in Togethers
                         /\ Pair(pair[1], pair[2]) \subseteq CacheKeys
  /\ \A a \in Priced : /\ PriceOf(a) \in Togethers
                       /\ PriceOf(a) \subseteq Places
                       /\ PriceKey(a) \in PriceOf(a)
                       /\ \A s \in Sources : Document(a, s) \in PriceOf(a)
  /\ \A t \in Togethers : t \subseteq Places
  /\ CacheKeys \subseteq Places
<1>1. CacheKeys \subseteq Places /\ Keys \subseteq CacheKeys
  BY DEF CacheKeys, Places
<1>2. \A pair \in Pairs : /\ Pair(pair[1], pair[2]) \in Togethers
                          /\ Pair(pair[1], pair[2]) \subseteq CacheKeys
  BY <1>1, RateFacts DEF Rate
<1>3. ASSUME NEW a \in Priced
      PROVE  /\ PriceOf(a) \in Togethers
             /\ PriceOf(a) \subseteq Places
             /\ PriceKey(a) \in PriceOf(a)
             /\ \A s \in Sources : Document(a, s) \in PriceOf(a)
  <2>1. \A s \in Sources : Document(a, s) \in Places
    BY DEF Places
  <2> QED
    BY <1>1, <2>1, PriceKeyIsACacheKey DEF PriceOf, Togethers
<1>4. ASSUME NEW t \in Togethers PROVE t \subseteq Places
  BY <1>1, <1>2, <1>3 DEF Togethers
<1> QED
  BY <1>1, <1>2, <1>3, <1>4

LEMMA InitInv == Init => IndInv
<1> SUFFICES ASSUME Init PROVE IndInv
  OBVIOUS
<1>1. TypeOK
  BY InitTyped
<1>2. Busy = {}
  BY DEF Init, Busy
<1>3. (\A k \in Places : stored[k] = None) /\ (\A t \in Togethers : known[t] = 0) /\ clock = 0
  BY DEF Init
<1>4. NothingIsAhead /\ WritersBringNews /\ HalfIsThere
  BY <1>2, <1>3 DEF NothingIsAhead, WritersBringNews, HalfIsThere
<1>5. PairsKeepUp /\ PairsSettled /\ PricesSettled
  BY <1>3, TogethersArePlaces
     DEF PairsKeepUp, KeepsUp, PairsSettled, PairSettled, PricesSettled, PriceSettled
<1> QED
  BY <1>1, <1>4, <1>5 DEF IndInv

-----------------------------------------------------------------------------
(* Steps that write nothing: entries may go, what is known be forgotten.   *)
Fades ==
  /\ \A k \in Places : stored'[k] = stored[k] \/ stored'[k] = None
  /\ \A t \in Togethers : known'[t] = known[t] \/ known'[t] = 0

\* Whoever is half way still is, or it shows.
HalvesStay == \A t \in Togethers : HalfWay(t) /\ known'[t] # 0 => HalfWay(t)'

LEMMA FadingKeepsPlaces ==
  ASSUME TypeOK, Fades, HalvesStay, PairsKeepUp, PairsSettled, PricesSettled
  PROVE  PairsKeepUp' /\ PairsSettled' /\ PricesSettled'
<1>1. ASSUME NEW pair \in Pairs
      PROVE  KeepsUp(Pair(pair[1], pair[2]))' /\ PairSettled(Pair(pair[1], pair[2]))'
  <2> DEFINE t == Pair(pair[1], pair[2])
  <2>1. t \in Togethers /\ \A k \in t : k \in Places
    BY TogethersArePlaces
  <2>2. KeepsUp(t) /\ PairSettled(t)
    BY DEF PairsKeepUp, PairsSettled
  <2> HIDE DEF t
  <2>3. KeepsUp(t)' /\ PairSettled(t)'
    BY <2>1, <2>2 DEF KeepsUp, PairSettled, Fades, HalvesStay
  <2> QED
    BY <2>3 DEF t
<1>2. ASSUME NEW a \in Priced PROVE PriceSettled(a)'
  <2> SUFFICES ASSUME known'[PriceOf(a)] # 0, ~HalfWay(PriceOf(a))'
               PROVE  /\ \A s \in Sources :
                           stored'[Document(a, s)] # None =>
                             stored'[Document(a, s)].version <= known'[PriceOf(a)]
                      /\ stored'[PriceKey(a)] # None /\ stored'[PriceKey(a)].form = "object" =>
                           stored'[PriceKey(a)].version = known'[PriceOf(a)]
    BY DEF PriceSettled
  <2>1. PriceOf(a) \in Togethers /\ PriceKey(a) \in Places
    BY TogethersArePlaces
  <2>2. \A s \in Sources : Document(a, s) \in Places
    BY DEF Places
  <2>3. known'[PriceOf(a)] = known[PriceOf(a)] /\ ~HalfWay(PriceOf(a))
    BY <2>1 DEF Fades, HalvesStay
  <2>4. \A s \in Sources : \/ stored'[Document(a, s)] = stored[Document(a, s)]
                             \/ stored'[Document(a, s)] = None
    BY <2>2 DEF Fades
  <2>5. stored'[PriceKey(a)] = stored[PriceKey(a)] \/ stored'[PriceKey(a)] = None
    BY <2>1 DEF Fades
  <2>6. PriceSettled(a) /\ known[PriceOf(a)] # 0
    BY <2>3 DEF PricesSettled
  <2> QED
    BY <2>3, <2>4, <2>5, <2>6 DEF PriceSettled
<1> QED
  BY <1>1, <1>2 DEF PairsKeepUp, PairsSettled, PricesSettled

LEMMA FadingKeepsJobs ==
  ASSUME TypeOK, Fades, NEW j \in Jobs, WellFormed(j)
  PROVE  /\ BringsNews(j, stored, known) => BringsNews(j, stored', known')
         /\ FindsHalf(j, stored) => FindsHalf(j, stored')
<1>1. j.todo \in Seq(Items) /\ j.version \in Nat
  BY RatesAssumption DEF Jobs
<1>2. ASSUME NEW i \in DOMAIN j.todo, Replaces(j, j.todo[i].together, stored, known)
      PROVE  Replaces(j, j.todo[i].together, stored', known')
  <2> DEFINE t == j.todo[i].together
  <2>1. t \in Togethers
    BY <1>1, ItemFacts
  <2>2. \A k \in t : k \in Places
    BY <2>1, TogethersArePlaces
  <2> HIDE DEF t
  <2>3. Replaces(j, t, stored, known)
    BY <1>2 DEF t
  <2>4. Replaces(j, t, stored', known')
    BY <1>1, <2>1, <2>2, <2>3 DEF Replaces, Fades
  <2> QED
    BY <2>4 DEF t
<1>3. ASSUME FindsHalf(j, stored) PROVE FindsHalf(j, stored')
  <2>1. CASE j.half
    <3>1. Head(j.todo) \in Items
      BY <1>1, <2>1 DEF WellFormed
    <3>2. Head(j.todo).first \in Places
      BY <3>1, ItemFacts
    <3> QED
      BY <1>3, <3>2 DEF FindsHalf, Fades
  <2>2. CASE ~j.half
    BY <2>2 DEF FindsHalf
  <2> QED
    BY <2>1, <2>2
<1> QED
  BY <1>2, <1>3 DEF BringsNews

\* A step of one process that writes nothing.
LEMMA OneJobSteps ==
  ASSUME IndInv, TypeOK', Fades, HalvesStay, clock <= clock',
         NEW p \in Processes, NEW n, job' = [job EXCEPT ![p] = n],
         n # None => /\ n.version <= clock'
                     /\ BringsNews(n, stored', known')
                     /\ FindsHalf(n, stored')
  PROVE  IndInv'
<1>1. JobsTyped /\ JobsTyped' /\ clock \in Nat /\ clock' \in Nat
  BY RatesAssumption DEF IndInv, TypeOK, JobsTyped
<1>2. \A q \in Processes : job'[q] = IF q = p THEN n ELSE job[q]
  BY <1>1 DEF JobsTyped
<1>3. ASSUME NEW q \in Busy'
      PROVE  /\ job'[q].version <= clock'
             /\ BringsNews(job'[q], stored', known')
             /\ FindsHalf(job'[q], stored')
  <2>1. q \in Processes /\ job'[q] # None
    BY DEF Busy
  <2>2. CASE q = p
    BY <1>2, <2>1, <2>2
  <2>3. CASE q # p
    <3>1. job'[q] = job[q] /\ q \in Busy
      BY <1>2, <2>1, <2>3 DEF Busy
    <3>2. job[q] \in Jobs /\ WellFormed(job[q]) /\ job[q].version \in Nat
      BY <1>1, <2>1, <3>1, BusyTyped, RatesAssumption DEF Jobs
    <3>3. job[q].version <= clock
      BY <3>1 DEF IndInv, NothingIsAhead
    <3>4. BringsNews(job[q], stored, known) /\ FindsHalf(job[q], stored)
      BY <3>1 DEF IndInv, WritersBringNews, HalfIsThere
    <3>5. BringsNews(job[q], stored', known') /\ FindsHalf(job[q], stored')
      BY <3>2, <3>4, FadingKeepsJobs DEF IndInv
    <3> QED
      BY <1>1, <3>1, <3>2, <3>3, <3>5
  <2> QED
    BY <2>2, <2>3
<1>4. NothingIsAhead'
  <2>1. ASSUME NEW k \in Places, stored'[k] # None PROVE stored'[k].version <= clock'
    <3>1. stored'[k] = stored[k]
      BY <2>1 DEF Fades
    <3>2. stored[k].version \in Nat /\ stored[k].version <= clock
      BY <2>1, <3>1 DEF IndInv, TypeOK, Entry, NothingIsAhead
    <3> QED
      BY <1>1, <3>1, <3>2
  <2>2. ASSUME NEW t \in Togethers PROVE known'[t] <= clock'
    <3>1. known[t] \in Nat /\ known[t] <= clock
      BY DEF IndInv, TypeOK, NothingIsAhead
    <3> QED
      BY <1>1, <3>1 DEF Fades
  <2> QED
    BY <1>3, <2>1, <2>2 DEF NothingIsAhead
<1>5. WritersBringNews' /\ HalfIsThere'
  BY <1>3 DEF WritersBringNews, HalfIsThere
<1> QED
  BY <1>4, <1>5, FadingKeepsPlaces DEF IndInv

\* ... and is not half way before nor after.
LEMMA QuietSteps ==
  ASSUME IndInv, TypeOK', UNCHANGED <<stored, known>>, clock <= clock',
         NEW p \in Processes, NEW n, job' = [job EXCEPT ![p] = n],
         p \in Busy => ~job[p].half,
         n # None => n.version <= clock' /\ ~n.half /\ BringsNews(n, stored, known)
  PROVE  IndInv'
<1>1. Fades
  BY DEF Fades
<1>2. HalvesStay
  <2> SUFFICES ASSUME NEW t \in Togethers, HalfWay(t) PROVE HalfWay(t)'
    BY DEF HalvesStay
  <2>1. PICK q \in Busy : job[q].half /\ Head(job[q].todo).together = t
    BY DEF HalfWay
  <2>2. q \in Processes /\ q # p
    BY <2>1 DEF Busy
  <2>3. job'[q] = job[q]
    BY <2>2 DEF IndInv, TypeOK
  <2> QED
    BY <2>1, <2>2, <2>3 DEF HalfWay, Busy
<1>3. n # None => BringsNews(n, stored', known') /\ FindsHalf(n, stored')
  BY DEF FindsHalf
<1> QED
  BY <1>1, <1>2, <1>3, OneJobSteps

LEMMA IdleSteps ==
  ASSUME IndInv, TypeOK', UNCHANGED <<stored, known, clock>>,
         NEW p \in Processes, NEW n, JobOK(n), job' = [job EXCEPT ![p] = n],
         p \in Busy => job[p].step # "write",
         n # None => n.step # "write" /\ n.version <= clock
  PROVE  IndInv'
<1>1. p \in Busy => ~job[p].half
  BY BusyTyped DEF IndInv, TypeOK, JobsTyped, WellFormed
<1>2. n # None => ~n.half /\ BringsNews(n, stored, known)
  BY DEF JobOK, WellFormed, BringsNews
<1>3. clock <= clock
  BY DEF IndInv, TypeOK
<1> QED
  BY <1>1, <1>2, <1>3, QuietSteps

-----------------------------------------------------------------------------
(* The inductive invariant is preserved, action by action.                 *)
LEMMA StartUpdateInv ==
  ASSUME IndInv, NEW p \in Updates, StartUpdate(p)
  PROVE  IndInv'
<1>1. p \in Processes /\ p \notin Busy
  BY DEF Processes, StartUpdate, Busy
<1>2. JobOK(Update)
  BY NewJobsTyped
<1>3. Update.step = "fetch" /\ Update.version = 0
  BY DEF Update, NoJob
<1>4. TypeOK'
  BY StartUpdateTyped DEF IndInv
<1>5. 0 <= clock
  BY DEF IndInv, TypeOK
<1> QED
  BY <1>1, <1>2, <1>3, <1>4, <1>5, IdleSteps DEF StartUpdate

LEMMA StartPricesInv ==
  ASSUME IndInv, NEW p \in Prices, NEW list \in PriceLists, StartPrices(p, list)
  PROVE  IndInv'
<1>1. p \in Processes /\ p \notin Busy
  BY DEF Processes, StartPrices, Busy
<1>2. PICK s \in Sources :
        job' = [job EXCEPT ![p] = [NoJob EXCEPT !.kind = "price",
                  !.plan = <<[i \in DOMAIN list |-> Price(list[i], s)]>>]]
  BY DEF StartPrices
<1> DEFINE n == [NoJob EXCEPT !.kind = "price",
                   !.plan = <<[i \in DOMAIN list |-> Price(list[i], s)]>>]
<1>3. JobOK(n)
  BY NewJobsTyped
<1>4. n.step = "fetch" /\ n.version = 0
  BY DEF NoJob
<1>5. job' = [job EXCEPT ![p] = n]
  BY <1>2
<1>6. TypeOK'
  BY StartPricesTyped DEF IndInv
<1>7. 0 <= clock
  BY DEF IndInv, TypeOK
<1> HIDE DEF n
<1> QED
  BY <1>1, <1>3, <1>4, <1>5, <1>6, <1>7, IdleSteps DEF StartPrices

LEMMA ConvertInv ==
  ASSUME IndInv, NEW p \in Requests, NEW pair \in Conversions, Convert(p, pair[1], pair[2])
  PROVE  IndInv'
<1>1. p \in Processes /\ p \notin Busy /\ pair \in Pairs
  BY RatesAssumption DEF Processes, Convert, Busy
<1> DEFINE n == job'[p]
<1>2. n = None \/ n = Conversion(pair[1], pair[2])
  BY <1>1 DEF Convert, Found, NotFound, IndInv, TypeOK
<1>3. job' = [job EXCEPT ![p] = n]
  BY <1>1 DEF Convert, Found, NotFound, IndInv, TypeOK
<1>4. JobOK(n)
  BY <1>1, <1>2, NewJobsTyped DEF JobOK
<1>5. n # None => n.step # "write" /\ n.version = 0
  BY <1>2 DEF Conversion, NoJob
<1>6. TypeOK' /\ 0 <= clock
  BY ConvertTyped DEF IndInv, TypeOK
<1> HIDE DEF n
<1> QED
  BY <1>1, <1>3, <1>4, <1>5, <1>6, IdleSteps DEF Convert

LEMMA LookInverseInv ==
  ASSUME IndInv, NEW p \in Processes, LookInverse(p)
  PROVE  IndInv'
<1> DEFINE n == job'[p]
<1>1. p \in Busy /\ job[p].step = "inverse" /\ job[p] \in Jobs /\ JobsTyped /\ JobsTyped'
  BY BusyTyped, LookInverseTyped DEF LookInverse, IndInv, TypeOK, JobsTyped
<1>2. n = None \/ n = [job[p] EXCEPT !.step = "fetch"]
  BY <1>1 DEF LookInverse, Found, NotFound, JobsTyped
<1>3. job' = [job EXCEPT ![p] = n]
  BY <1>1 DEF LookInverse, Found, NotFound, JobsTyped
<1>4. JobOK(n)
  <2>1. n = None \/ (n \in Jobs /\ (JobsTyped' => WellFormed(n)))
    BY <1>1 DEF JobsTyped, Busy
  <2> QED
    BY <1>1, <2>1 DEF JobOK
<1>5. n # None => n.step # "write" /\ n.version <= clock
  BY <1>1, <1>2 DEF Jobs, IndInv, NothingIsAhead
<1>6. TypeOK'
  BY LookInverseTyped DEF IndInv
<1> HIDE DEF n
<1> QED
  BY <1>1, <1>3, <1>4, <1>5, <1>6, IdleSteps DEF LookInverse

LEMMA FetchFailsInv ==
  ASSUME IndInv, NEW p \in Processes, FetchFails(p)
  PROVE  IndInv'
<1>1. /\ p \in Busy /\ job[p].step = "fetch" /\ job[p] \in Jobs /\ WellFormed(job[p])
      /\ job[p].version <= clock /\ clock \in Nat
  BY BusyTyped, RatesAssumption DEF FetchFails, IndInv, TypeOK, JobsTyped, NothingIsAhead
<1> DEFINE n == NotFetched(job[p])
<1>2. JobOK(n)
  BY <1>1, NotFetchedTyped
<1>3. n # None => n.step = "fetch" /\ n.version = 0
  <2>1. CASE job[p].kind = "convert"
    BY <2>1 DEF NotFetched
  <2>2. CASE job[p].kind # "convert"
    <3> DEFINE rest == [job[p] EXCEPT !.plan = Tail(@)]
    <3>1. rest \in Jobs /\ rest.todo = <<>>
      <4>1. job[p].plan \in Seq(Part) /\ job[p].plan # <<>> /\ job[p].todo = <<>>
        BY <1>1, <2>2 DEF WellFormed, Jobs, Part
      <4>2. Tail(job[p].plan) \in Seq(Part)
        BY <4>1
      <4> QED
        BY <1>1, <4>1, <4>2 DEF Jobs, Part
    <3>2. n = GiveUp(rest)
      BY <2>2 DEF NotFetched
    <3> HIDE DEF rest
    <3>3. ~(Len(rest.todo) > 1)
      BY <3>1
    <3>4. n = Continue(rest) \/ n = None
      BY <3>2, <3>3 DEF GiveUp
    <3> QED
      BY <3>1, <3>4 DEF Continue, Jobs
  <2> QED
    BY <2>1, <2>2
<1>4. TypeOK'
  BY FetchFailsTyped DEF IndInv
<1>5. job' = [job EXCEPT ![p] = n]
  BY DEF FetchFails
<1>6. n # None => n.step # "write" /\ n.version <= clock
  BY <1>1, <1>3
<1>7. job[p].step # "write" /\ UNCHANGED <<stored, known, clock>>
  BY <1>1 DEF FetchFails
<1> HIDE DEF n
<1> QED
  BY <1>2, <1>4, <1>5, <1>6, <1>7, IdleSteps

\* A fetch brings what is newer than anything written so far.
LEMMA FetchInv ==
  ASSUME IndInv, NEW p \in Processes, Fetch(p)
  PROVE  IndInv'
<1>1. /\ p \in Busy /\ job[p].step = "fetch" /\ job[p] \in Jobs /\ WellFormed(job[p])
      /\ ~job[p].half
  BY BusyTyped DEF Fetch, IndInv, TypeOK, JobsTyped, WellFormed
<1>2. TypeOK' /\ Observed \in 0..MaxVersion /\ Observed >= clock /\ clock \in Nat /\ Observed \in Nat
  BY FetchTyped, ObservedTyped, RatesAssumption DEF IndInv, TypeOK
<1>3. PICK brought \in Parts(Wanted(job[p])) : FetchBrings(p, brought)
  BY DEF Fetch
<1> DEFINE n == Fetched(job[p], brought)
<1>4. clock' = Observed /\ UNCHANGED <<stored, known>> /\ job' = [job EXCEPT ![p] = n]
  BY <1>3 DEF FetchBrings
<1>5. JobOK(n)
  BY <1>1, <1>2, FetchedTyped
<1>6. n # None => (n.step = "fetch" /\ n.version = 0) \/ n.version = Observed
  <2> DEFINE rest == [job[p] EXCEPT !.plan = IF @ = <<>> THEN @ ELSE Tail(@)]
  <2>1. CASE brought = <<>>
    <3>1. n = Continue(rest)
      BY <2>1 DEF Fetched
    <3>2. n = None \/ n = [rest EXCEPT !.step = "fetch", !.todo = <<>>, !.half = FALSE,
                                        !.version = 0, !.touched = {}]
      BY <3>1 DEF Continue
    <3> QED
      BY <1>1, <3>2 DEF Jobs
  <2>2. CASE brought # <<>>
    <3>1. n = [rest EXCEPT !.step = "write", !.todo = brought, !.version = Observed,
                           !.touched = {}]
      BY <2>2 DEF Fetched
    <3> QED
      BY <1>1, <3>1 DEF Jobs
  <2> QED
    BY <2>1, <2>2
<1>7. n # None => ~n.half
  <2> DEFINE rest == [job[p] EXCEPT !.plan = IF @ = <<>> THEN @ ELSE Tail(@)]
  <2>1. ~rest.half
    BY <1>1 DEF Jobs
  <2>2. n \in {None,
               [rest EXCEPT !.step = "fetch", !.todo = <<>>, !.half = FALSE,
                            !.version = 0, !.touched = {}],
               [rest EXCEPT !.step = "write", !.todo = brought, !.version = Observed,
                            !.touched = {}]}
    BY DEF Fetched, Continue
  <2> QED
    BY <1>1, <2>1, <2>2 DEF Jobs
<1> HIDE DEF n
<1>8. ASSUME n # None PROVE BringsNews(n, stored, known)
  <2> SUFFICES ASSUME n.step = "write", NEW i \in DOMAIN n.todo
               PROVE  Replaces(n, n.todo[i].together, stored, known)
    BY DEF BringsNews
  <2>0. n.version = Observed /\ n \in Jobs
    BY <1>5, <1>6, <1>8 DEF JobOK
  <2>1. n.todo[i] \in Items
    BY <2>0 DEF Jobs
  <2> DEFINE t == n.todo[i].together
  <2>2. t \in Togethers
    BY <2>1, ItemFacts
  <2>3. \A k \in t : k \in Places
    BY <2>2, TogethersArePlaces
  <2> HIDE DEF t
  <2>4. known[t] \in Nat /\ known[t] <= clock
    BY <2>2 DEF IndInv, TypeOK, NothingIsAhead
  <2>5. \A k \in t : stored[k] # None => stored[k].version \in Nat /\ stored[k].version <= clock
    BY <2>3 DEF IndInv, TypeOK, NothingIsAhead, Entry
  <2>6. Replaces(n, t, stored, known)
    BY <1>2, <2>0, <2>4, <2>5 DEF Replaces
  <2> QED
    BY <2>6 DEF t
<1>9. clock <= clock' /\ (n # None => n.version <= clock')
  BY <1>2, <1>4, <1>6
<1> QED
  BY <1>1, <1>2, <1>4, <1>7, <1>8, <1>9, QuietSteps

\* A process that gives up half way leaves it open what it has written.
LEMMA ForgottenFades ==
  ASSUME IndInv, NEW ps, known' = Forgotten(ps), UNCHANGED stored
  PROVE  /\ Fades
         /\ \A q \in ps \cap Busy : job[q].half => known'[Head(job[q].todo).together] = 0
<1>1. Fades
  BY DEF Fades, Forgotten
<1>2. ASSUME NEW q \in ps \cap Busy, job[q].half
      PROVE  known'[Head(job[q].todo).together] = 0
  <2>1. q \in Processes /\ job[q] \in Jobs /\ WellFormed(job[q])
    BY BusyTyped DEF Busy, IndInv, TypeOK, JobsTyped
  <2>2. job[q].todo \in Seq(Items) /\ job[q].todo # <<>>
    BY <1>2, <2>1 DEF Jobs, WellFormed
  <2>3. Head(job[q].todo) \in Items
    BY <2>2
  <2>4. Head(job[q].todo).together \in Togethers
    BY <2>3, ItemFacts
  <2> QED
    BY <1>2, <2>4 DEF Forgotten
<1> QED
  BY <1>1, <1>2

\* What a process that gives up has still to write is news as before.
LEMMA GiveUpBringsNews ==
  ASSUME NEW j \in Jobs, WellFormed(j), j.step = "write", NEW places, NEW versions,
         \A i \in DOMAIN j.todo : Replaces(j, j.todo[i].together, places, versions),
         GiveUp(j) # None
  PROVE  /\ GiveUp(j).version \in {0, j.version} /\ ~GiveUp(j).half
         /\ BringsNews(GiveUp(j), places, versions)
         /\ FindsHalf(GiveUp(j), places)
<1> DEFINE n == GiveUp(j)
<1>1. j.todo \in Seq(Items) /\ j.todo # <<>>
  BY DEF Jobs, WellFormed
<1>2. \/ n = Continue(j) /\ j.plan # <<>>
      \/ n = [j EXCEPT !.todo = Tail(@), !.half = FALSE]
  BY DEF GiveUp, Continue
<1>3. CASE n = Continue(j) /\ j.plan # <<>>
  <2>1. n.version = 0 /\ n.step = "fetch" /\ ~n.half
    BY <1>3 DEF Continue, Jobs
  <2> QED
    BY <2>1 DEF BringsNews, FindsHalf
<1>4. CASE n = [j EXCEPT !.todo = Tail(@), !.half = FALSE]
  <2>1. /\ n.version = j.version /\ n.touched = j.touched /\ n.todo = Tail(j.todo)
        /\ ~n.half
    BY <1>4 DEF Jobs
  <2> HIDE DEF n
  <2>2. BringsNews(n, places, versions)
    <3> SUFFICES ASSUME NEW i \in DOMAIN n.todo
                 PROVE  Replaces(n, n.todo[i].together, places, versions)
      BY DEF BringsNews
    <3>1. i + 1 \in DOMAIN j.todo /\ n.todo[i] = j.todo[i + 1]
      BY <1>1, <2>1
    <3>2. Replaces(j, j.todo[i + 1].together, places, versions)
      BY <3>1
    <3> QED
      BY <2>1, <3>1, <3>2 DEF Replaces, Untouched
  <2>3. FindsHalf(n, places)
    BY <2>1 DEF FindsHalf
  <2> QED
    BY <2>1, <2>2, <2>3 DEF n
<1> QED
  BY <1>2, <1>3, <1>4

\* A write that is refused without having been carried out.
LEMMA NotCarriedOutInv ==
  ASSUME IndInv, TypeOK', NEW p \in Busy, job[p].step = "write",
         job' = [job EXCEPT ![p] = GiveUp(@)], known' = Forgotten({p}),
         UNCHANGED <<stored, clock>>
  PROVE  IndInv'
<1> DEFINE j == job[p]
           n == GiveUp(j)
<1>1. /\ p \in Processes /\ j \in Jobs /\ WellFormed(j) /\ j.version \in Nat
      /\ j.version <= clock /\ clock \in Nat
  <2>1. p \in Processes
    BY DEF Busy
  <2>2. j \in Jobs /\ WellFormed(j)
    BY <2>1, BusyTyped DEF IndInv, TypeOK, JobsTyped
  <2> QED
    BY <2>1, <2>2, RatesAssumption DEF IndInv, TypeOK, NothingIsAhead, Jobs
<1>2. Fades /\ (j.half => known'[Head(j.todo).together] = 0)
  BY <1>1, ForgottenFades
<1>3. HalvesStay
  <2> SUFFICES ASSUME NEW t \in Togethers, HalfWay(t), known'[t] # 0 PROVE HalfWay(t)'
    BY DEF HalvesStay
  <2>1. PICK q \in Busy : job[q].half /\ Head(job[q].todo).together = t
    BY DEF HalfWay
  <2>2. q \in Processes /\ q # p
    BY <1>2, <2>1 DEF Busy
  <2>3. job'[q] = job[q]
    BY <2>2 DEF IndInv, TypeOK
  <2> QED
    BY <2>1, <2>2, <2>3 DEF HalfWay, Busy
<1>4. \A i \in DOMAIN j.todo : Replaces(j, j.todo[i].together, stored', known')
  <2>1. BringsNews(j, stored, known)
    BY DEF IndInv, WritersBringNews
  <2>2. BringsNews(j, stored', known')
    BY <1>1, <1>2, <2>1, FadingKeepsJobs DEF IndInv
  <2> QED
    BY <2>2 DEF BringsNews
<1>5. ASSUME n # None
      PROVE  /\ n.version \in {0, j.version}
             /\ BringsNews(n, stored', known') /\ FindsHalf(n, stored')
  BY <1>1, <1>4, <1>5, GiveUpBringsNews
<1>6. job' = [job EXCEPT ![p] = n]
  OBVIOUS
<1> HIDE DEF n
<1>7. clock <= clock' /\ (n # None => n.version <= clock')
  BY <1>1, <1>5
<1> QED
  BY <1>1, <1>2, <1>3, <1>5, <1>6, <1>7, OneJobSteps

LEMMA RestartInv == IndInv /\ Restart => IndInv'
<1> SUFFICES ASSUME IndInv, Restart PROVE IndInv'
  OBVIOUS
<1>1. TypeOK'
  BY NextTyped DEF IndInv, Next
<1>2. Busy' = {}
  BY DEF Restart, Busy
<1>3. Fades
  BY ForgottenFades DEF Restart
<1>4. HalvesStay
  <2> SUFFICES ASSUME NEW t \in Togethers, HalfWay(t), known'[t] # 0 PROVE FALSE
    BY DEF HalvesStay
  <2>1. PICK q \in Busy : job[q].half /\ Head(job[q].todo).together = t
    BY DEF HalfWay
  <2>2. q \in Processes \cap Busy
    BY DEF Busy
  <2> QED
    BY <2>1, <2>2, ForgottenFades DEF Restart
<1>5. NothingIsAhead'
  <2>1. \A t \in Togethers : known[t] <= clock /\ 0 <= clock
    BY DEF IndInv, NothingIsAhead, TypeOK
  <2>2. \A t \in Togethers : known'[t] <= clock
    BY <1>3, <2>1 DEF Fades
  <2> QED
    BY <1>2, <2>2 DEF IndInv, NothingIsAhead, Restart
<1>6. WritersBringNews' /\ HalfIsThere'
  BY <1>2 DEF WritersBringNews, HalfIsThere
<1>7. PairsKeepUp' /\ PairsSettled' /\ PricesSettled'
  BY <1>3, <1>4, FadingKeepsPlaces DEF IndInv
<1> QED
  BY <1>1, <1>5, <1>6, <1>7 DEF IndInv

LEMMA ExpireInv ==
  ASSUME IndInv, NEW k \in Places, Expire(k)
  PROVE  IndInv'
<1>1. TypeOK'
  BY NextTyped DEF IndInv, Next
<1>2. Fades
  BY TogethersArePlaces DEF Fades, Expire, IndInv, TypeOK
<1>3. HalvesStay
  BY DEF HalvesStay, HalfWay, Expire, Busy
<1>4. PairsKeepUp' /\ PairsSettled' /\ PricesSettled'
  BY <1>2, <1>3, FadingKeepsPlaces DEF IndInv
<1>5. Busy' = Busy /\ \A q \in Busy : job'[q] = job[q]
  BY DEF Expire, Busy
<1>6. NothingIsAhead'
  BY <1>2, <1>5 DEF Expire, IndInv, NothingIsAhead, Fades
<1>7. ASSUME NEW q \in Busy
      PROVE  BringsNews(job'[q], stored', known') /\ FindsHalf(job'[q], stored')
  <2>1. job[q] \in Jobs /\ WellFormed(job[q])
    BY BusyTyped DEF Busy, IndInv, TypeOK, JobsTyped
  <2>2. BringsNews(job[q], stored, known) /\ FindsHalf(job[q], stored)
    BY DEF IndInv, WritersBringNews, HalfIsThere
  <2>3. BringsNews(job[q], stored', known') /\ FindsHalf(job[q], stored')
    BY <1>2, <2>1, <2>2, FadingKeepsJobs DEF IndInv
  <2> QED
    BY <1>5, <2>3
<1>8. WritersBringNews' /\ HalfIsThere'
  BY <1>5, <1>7 DEF WritersBringNews, HalfIsThere
<1> QED
  BY <1>1, <1>4, <1>6, <1>8 DEF IndInv

\* What is written together is the rate of one pair, or the price of one asset.
LEMMA ItemsOfAPair ==
  ASSUME NEW pair \in Pairs, NEW i \in Items, i.together = Pair(pair[1], pair[2])
  PROVE  i.together = {i.first, i.second}
<1>1. CASE \E p \in Pairs : i = Rate(p[1], p[2])
  BY <1>1, RateFacts
<1>2. CASE \E a \in Priced, s \in Sources : i = Price(a, s)
  BY <1>2, PriceFacts, TogethersArePlaces
<1> QED
  BY <1>1, <1>2, ItemCases

LEMMA ItemsOfAnAsset ==
  ASSUME NEW a \in Priced, NEW i \in Items, i.together = PriceOf(a)
  PROVE  \E s \in Sources : i = Price(a, s)
<1>1. CASE \E p \in Pairs : i = Rate(p[1], p[2])
  <2>1. i.together \subseteq CacheKeys /\ i.first \in i.together /\ i.second \in i.together
        /\ i.first # i.second
    BY <1>1, RateFacts DEF CacheKeys
  <2>2. Sources = {}
    BY <2>1, DocumentsAreNoKeys, TogethersArePlaces
  <2>3. PriceOf(a) = {PriceKey(a)}
    BY <2>2 DEF PriceOf
  <2> QED
    BY <2>1, <2>3
<1>2. CASE \E b \in Priced, s \in Sources : i = Price(b, s)
  <2>1. PICK b \in Priced, s \in Sources : i = Price(b, s)
    BY <1>2
  <2>2. PriceKey(b) \in PriceOf(a)
    BY <2>1, PriceFacts
  <2>3. PriceKey(b) = PriceKey(a)
    BY <2>2, DocumentsAreNoKeys, PriceKeyIsACacheKey DEF PriceOf
  <2> QED
    BY <2>1, <2>3, PriceKeysDiffer
<1> QED
  BY <1>1, <1>2, ItemCases

\* What a write does to the places and to what is known of them.
LEMMA LandFacts ==
  ASSUME IndInv, NEW p \in Processes, NEW n, NEW v, Landing(p, n, v)
  PROVE  LET j == job[p]
             item == Head(j.todo)
             w == Written(p)
         IN /\ p \in Busy /\ j.step = "write" /\ j \in Jobs /\ WellFormed(j)
            /\ j.todo \in Seq(Items) /\ j.todo # <<>> /\ item \in Items
            /\ j.version \in Nat /\ j.version <= clock /\ clock \in Nat
            /\ w = IF j.half THEN item.second ELSE item.first
            /\ w \in Places /\ w \in item.together /\ item.together \in Togethers
            /\ stored'[w] = [form |-> item.form, version |-> j.version]
            /\ stored'[w] # None
            /\ \A k \in Places : k # w => stored'[k] = stored[k]
            /\ known'[item.together] = IF Untouched(j, item.together) THEN v ELSE 0
            /\ \A t \in Togethers : t # item.together => known'[t] = known[t]
            /\ clock' = clock
            /\ \A q \in Processes :
                 job'[q] = IF q = p THEN n
                           ELSE IF q \in Busy THEN Touched(job[q], w) ELSE None
            /\ FindsHalf(j, stored)
            /\ \A i \in DOMAIN j.todo : Replaces(j, j.todo[i].together, stored, known)
            /\ Replaces(j, item.together, stored, known)
<1> DEFINE j == job[p]
           item == Head(j.todo)
           w == Written(p)
<1>1. p \in Busy /\ j.step = "write" /\ TypeOK
  BY DEF Landing, IndInv
<1>2. /\ j \in Jobs /\ WellFormed(j)
      /\ j.todo \in Seq(Items) /\ j.todo # <<>> /\ item \in Items
      /\ j.version \in Nat /\ clock \in Nat
      /\ w \in Places /\ w \in item.together
  BY <1>1, WriterFacts, RatesAssumption DEF TypeOK
<1>3. item.together \in Togethers /\ item.form \in {"number", "object"}
  BY <1>2, ItemFacts
<1>4. /\ stored'[w] = [form |-> item.form, version |-> j.version]
      /\ \A k \in Places : k # w => stored'[k] = stored[k]
  BY <1>1, <1>2 DEF Landing, Land, TypeOK
<1>5. stored'[w] # None
  <2>1. j.version \in 0..MaxVersion
    BY <1>2 DEF Jobs
  <2>2. stored'[w] \in Entry
    BY <1>3, <1>4, <2>1 DEF Entry
  <2> QED
    BY <2>2, NoneAssumption
<1>6. /\ known'[item.together] = IF Untouched(j, item.together) THEN v ELSE 0
      /\ \A t \in Togethers : t # item.together => known'[t] = known[t]
  BY <1>1, <1>3 DEF Landing, Land, TypeOK, Untouched
<1>7. /\ clock' = clock
      /\ \A q \in Processes :
           job'[q] = IF q = p THEN n
                     ELSE IF q \in Busy THEN Touched(job[q], w) ELSE None
  BY DEF Landing, Land
<1>8. FindsHalf(j, stored) /\ j.version <= clock
  BY <1>1 DEF IndInv, HalfIsThere, NothingIsAhead
<1>9. \A i \in DOMAIN j.todo : Replaces(j, j.todo[i].together, stored, known)
  BY <1>1 DEF IndInv, WritersBringNews, BringsNews
<1>10. Replaces(j, item.together, stored, known)
  <2>1. 1 \in DOMAIN j.todo /\ j.todo[1] = item
    BY <1>2
  <2> QED
    BY <1>9, <2>1
<1> QED
  BY <1>1, <1>2, <1>3, <1>4, <1>5, <1>6, <1>7, <1>8, <1>9, <1>10 DEF Written

\* The others: those that were going to write there are touched.
LEMMA LandOthers ==
  ASSUME IndInv, NEW p \in Processes, NEW m, NEW v, Landing(p, m, v), NEW q \in Busy, q # p
  PROVE  /\ job'[q].version <= clock'
         /\ BringsNews(job'[q], stored', known')
         /\ FindsHalf(job'[q], stored')
<1> DEFINE j == job[q]
           n == job'[q]
           w == Written(p)
           item == Head(job[p].todo)
<1>1. /\ w \in item.together /\ item.together \in Togethers
      /\ \A k \in Places : k # w => stored'[k] = stored[k]
      /\ \A t \in Togethers : t # item.together => known'[t] = known[t]
      /\ clock' = clock
  BY LandFacts
<1>2. q \in Processes /\ j \in Jobs /\ WellFormed(j) /\ j.version <= clock
  BY BusyTyped DEF Busy, IndInv, TypeOK, JobsTyped, NothingIsAhead
<1>3. n = Touched(j, w)
  BY <1>2, LandFacts
<1>4. BringsNews(j, stored, known) /\ FindsHalf(j, stored)
  BY DEF IndInv, WritersBringNews, HalfIsThere
<1> HIDE DEF w, item, n
<1>5. /\ n.version = j.version /\ n.todo = j.todo /\ n.half = j.half /\ n.step = j.step
      /\ j.touched \subseteq n.touched
      /\ \A i \in DOMAIN j.todo : w \in j.todo[i].together => w \in n.touched
  BY <1>2, <1>3 DEF Touched, Jobs
<1>6. j.todo \in Seq(Items)
  BY <1>2 DEF Jobs
<1>7. ASSUME NEW i \in DOMAIN j.todo, Untouched(n, j.todo[i].together)
      PROVE  /\ Untouched(j, j.todo[i].together)
             /\ known'[j.todo[i].together] = known[j.todo[i].together]
             /\ \A k \in j.todo[i].together : stored'[k] = stored[k]
  <2> DEFINE t == j.todo[i].together
  <2>1. t \in Togethers
    BY <1>6, ItemFacts
  <2>2. w \notin t /\ Untouched(j, t)
    BY <1>5, <1>7 DEF Untouched
  <2>3. \A k \in t : k \in Places /\ k # w
    BY <2>1, <2>2, TogethersArePlaces
  <2> QED
    BY <1>1, <2>1, <2>2, <2>3
<1>8. BringsNews(n, stored', known')
  <2> SUFFICES ASSUME n.step = "write", NEW i \in DOMAIN n.todo
               PROVE  Replaces(n, n.todo[i].together, stored', known')
    BY DEF BringsNews
  <2>1. Replaces(j, j.todo[i].together, stored, known)
    BY <1>4, <1>5 DEF BringsNews
  <2> QED
    BY <1>5, <1>7, <2>1 DEF Replaces
<1>9. FindsHalf(n, stored')
  <2> SUFFICES ASSUME n.half, Untouched(n, Head(n.todo).together)
               PROVE  LET i == Head(n.todo)
                      IN \/ stored'[i.first] = [form |-> i.form, version |-> n.version]
                         \/ stored'[i.first] = None
    BY DEF FindsHalf
  <2>1. j.todo # <<>>
    BY <1>2, <1>5 DEF WellFormed
  <2>2. 1 \in DOMAIN j.todo /\ j.todo[1] = Head(j.todo) /\ Head(j.todo) \in Items
    BY <1>6, <2>1
  <2>3. Head(j.todo).first \in Head(j.todo).together
    BY <2>2, ItemFacts
  <2>4. Untouched(n, j.todo[1].together)
    BY <1>5, <2>2
  <2>5. Untouched(j, Head(j.todo).together)
        /\ stored'[Head(j.todo).first] = stored[Head(j.todo).first]
    BY <1>7, <2>2, <2>3, <2>4
  <2> QED
    BY <1>4, <1>5, <2>5 DEF FindsHalf
<1> QED
  BY <1>1, <1>2, <1>5, <1>8, <1>9 DEF n

\* What is known of the places afterwards is the version of the writer, when
\* it has written both; or what it was, as long as the writer is half way.
Honest(p, n, v) ==
  IF job[p].half THEN v = job[p].version
  ELSE \/ v = 0
       \/ /\ n \in Jobs /\ n.half /\ n.todo = job[p].todo
          /\ v = known[Head(job[p].todo).together]

\* The writer itself: what it has still to write is news as before.
LEMMA LandIsNews ==
  ASSUME IndInv, NEW p \in Processes, NEW n, NEW v, Landing(p, n, v), Honest(p, n, v)
  PROVE  \A i \in DOMAIN job[p].todo :
           Replaces(job[p], job[p].todo[i].together, stored', known')
<1> DEFINE j == job[p]
           w == Written(p)
           item == Head(j.todo)
<1>1. /\ j.todo \in Seq(Items) /\ j.version \in Nat
      /\ stored'[w] = [form |-> item.form, version |-> j.version]
      /\ \A k \in Places : k # w => stored'[k] = stored[k]
      /\ known'[item.together] = IF Untouched(j, item.together) THEN v ELSE 0
      /\ \A t \in Togethers : t # item.together => known'[t] = known[t]
      /\ \A i \in DOMAIN j.todo : Replaces(j, j.todo[i].together, stored, known)
  BY LandFacts
<1>2. v \in {0, j.version, known[item.together]}
  BY DEF Honest
<1> HIDE DEF w, item
<1> SUFFICES ASSUME NEW i \in DOMAIN j.todo
             PROVE  Replaces(j, j.todo[i].together, stored', known')
  OBVIOUS
<1> DEFINE t == j.todo[i].together
<1>3. j.todo[i] \in Items
  BY <1>1
<1>4. t \in Togethers
  BY <1>3, ItemFacts
<1>5. \A k \in t : k \in Places
  BY <1>4, TogethersArePlaces
<1>6. Replaces(j, t, stored, known)
  BY <1>1
<1> HIDE DEF t
<1> SUFFICES Replaces(j, t, stored', known')
  BY DEF t
<1>7. ASSUME Untouched(j, t) PROVE known'[t] <= j.version
  <2>1. known[t] <= j.version
    BY <1>6, <1>7 DEF Replaces
  <2>2. t # item.together => known'[t] = known[t]
    BY <1>1, <1>4
  <2>3. t = item.together => known'[t] = v
    BY <1>1, <1>7
  <2> QED
    BY <1>1, <1>2, <2>1, <2>2, <2>3
<1>8. ASSUME Untouched(j, t), NEW k \in t, stored'[k] # None
      PROVE  stored'[k].version <= j.version
  <2>1. CASE k = w
    BY <1>1, <2>1
  <2>2. CASE k # w
    BY <1>1, <1>5, <1>6, <1>8, <2>2 DEF Replaces
  <2> QED
    BY <2>1, <2>2
<1> QED
  BY <1>7, <1>8 DEF Replaces

\* Who else is half way through what is not being written still is.
LEMMA LandKeepsHalves ==
  ASSUME IndInv, NEW p \in Processes, NEW n, NEW v, Landing(p, n, v), NEW t \in Togethers,
         t # Head(job[p].todo).together, HalfWay(t)
  PROVE  HalfWay(t)'
<1>1. PICK q \in Busy : job[q].half /\ Head(job[q].todo).together = t
  BY DEF HalfWay
<1>2. q \in Processes /\ q # p /\ job[q] \in Jobs /\ job[q] # None
  BY <1>1, BusyTyped DEF Busy, IndInv, TypeOK, JobsTyped
<1>3. job'[q] = Touched(job[q], Written(p))
  BY <1>1, <1>2, LandFacts
<1>4. job'[q] # None
  <2>1. WellFormed(job[q]) /\ Written(p) \in Places
    BY <1>1, <1>2, BusyTyped, LandFacts DEF IndInv, TypeOK, JobsTyped
  <2>2. Touched(job[q], Written(p)) \in Jobs
    BY <1>2, <2>1 DEF Touched, Jobs
  <2> QED
    BY <1>3, <2>2, NoneAssumption
<1>5. job'[q].half = job[q].half /\ job'[q].todo = job[q].todo
  BY <1>2, <1>3 DEF Touched, Jobs
<1> QED
  BY <1>1, <1>2, <1>4, <1>5 DEF HalfWay, Busy

\* After the first of two writes the writer is half way.
LEMMA FirstWriteIsHalfWay ==
  ASSUME IndInv, NEW p \in Processes, NEW n, NEW v, Landing(p, n, v),
         n \in Jobs, n.half, n.todo = job[p].todo,
         NEW t \in Togethers, t = Head(job[p].todo).together
  PROVE  HalfWay(t)'
<1>1. job'[p] = n
  BY LandFacts
<1> QED
  BY <1>1, NoneAssumption DEF HalfWay, Busy

LEMMA LandKeepsPairs ==
  ASSUME IndInv, NEW p \in Processes, NEW n, NEW v, Landing(p, n, v),
         Honest(p, n, v), NEW pair \in Pairs
  PROVE  KeepsUp(Pair(pair[1], pair[2]))' /\ PairSettled(Pair(pair[1], pair[2]))'
<1> DEFINE t == Pair(pair[1], pair[2])
           j == job[p]
           w == Written(p)
           item == Head(j.todo)
<1>1. /\ item \in Items /\ j.version \in Nat
      /\ w = IF j.half THEN item.second ELSE item.first
      /\ w \in item.together /\ item.together \in Togethers
      /\ stored'[w] = [form |-> item.form, version |-> j.version]
      /\ \A k \in Places : k # w => stored'[k] = stored[k]
      /\ known'[item.together] = IF Untouched(j, item.together) THEN v ELSE 0
      /\ \A u \in Togethers : u # item.together => known'[u] = known[u]
      /\ FindsHalf(j, stored)
      /\ Replaces(j, item.together, stored, known)
  BY LandFacts
<1>2. t \in Togethers /\ \A k \in t : k \in Places
  BY TogethersArePlaces
<1>3. KeepsUp(t) /\ PairSettled(t)
  BY DEF IndInv, PairsKeepUp, PairsSettled
<1>4. CASE t # item.together
  <2>1. known'[t] = known[t] /\ (HalfWay(t) => HalfWay(t)')
    BY <1>1, <1>2, <1>4, LandKeepsHalves
  <2>2. w \in t => stored'[w].form = "object"
    <3>1. w \in t => item.form = "object"
      BY <1>1, <1>4, OtherPlacesOfAPair
    <3> QED
      BY <1>1, <3>1
  <2> HIDE DEF t, j, w, item
  <2>3. ASSUME NEW k \in t, stored'[k] # None, stored'[k].form = "number"
        PROVE  stored'[k] = stored[k]
    <3>1. k # w
      BY <2>2, <2>3
    <3> QED
      BY <1>1, <1>2, <3>1
  <2>4. KeepsUp(t)'
    BY <1>3, <2>1, <2>3 DEF KeepsUp
  <2>5. PairSettled(t)'
    BY <1>3, <2>1, <2>3 DEF PairSettled
  <2> QED
    BY <2>4, <2>5 DEF t
<1>5. CASE t = item.together /\ ~Untouched(j, t)
  <2>1. known'[t] = 0
    BY <1>1, <1>5
  <2> HIDE DEF t
  <2> QED
    BY <2>1 DEF KeepsUp, PairSettled, t
<1>6. CASE t = item.together /\ Untouched(j, t) /\ ~j.half /\ v = 0
  <2>1. known'[t] = 0
    BY <1>1, <1>6
  <2> HIDE DEF t
  <2> QED
    BY <2>1 DEF KeepsUp, PairSettled, t
<1>7. CASE t = item.together /\ Untouched(j, t) /\ ~j.half /\ v # 0
  <2>0. n \in Jobs /\ n.half /\ n.todo = job[p].todo /\ v = known[item.together]
    BY <1>7 DEF Honest
  <2>1. HalfWay(t)' /\ known'[t] = known[t]
    BY <1>1, <1>7, <2>0, FirstWriteIsHalfWay
  <2>2. known[t] <= j.version
    BY <1>1, <1>7 DEF Replaces
  <2>3. known[t] \in Nat
    BY <1>2 DEF IndInv, TypeOK
  <2> HIDE DEF t, j, w, item
  <2>4. PairSettled(t)'
    BY <2>1 DEF PairSettled
  <2>5. ASSUME known'[t] # 0, NEW k \in t, stored'[k] # None, stored'[k].form = "number"
        PROVE  stored'[k].version >= known'[t]
    <3>1. CASE k = w
      BY <1>1, <2>1, <2>2, <2>3, <3>1
    <3>2. CASE k # w
      <4>1. stored'[k] = stored[k]
        BY <1>1, <1>2, <3>2
      <4> QED
        BY <1>3, <2>1, <2>5, <4>1 DEF KeepsUp
    <3> QED
      BY <3>1, <3>2
  <2>6. KeepsUp(t)'
    BY <2>5 DEF KeepsUp
  <2> QED
    BY <2>4, <2>6 DEF t
<1>8. CASE t = item.together /\ Untouched(j, t) /\ j.half
  <2>1. known'[t] = j.version /\ w = item.second
    BY <1>1, <1>8 DEF Honest
  <2>2. t = {item.first, item.second} /\ item.first # item.second
    BY <1>1, <1>8, ItemsOfAPair, ItemFacts
  <2>3. stored[item.first] = None \/ stored[item.first] = [form |-> item.form, version |-> j.version]
    BY <1>1, <1>8 DEF FindsHalf
  <2>4. item.first \in Places
    BY <1>1, ItemFacts
  <2>5. stored'[item.first] = stored[item.first]
    BY <1>1, <2>1, <2>2, <2>4
  <2> HIDE DEF t, j, w, item
  <2>6. \A k \in t : stored'[k] # None => stored'[k].version = known'[t]
    BY <1>1, <2>1, <2>2, <2>3, <2>5
  <2>7. KeepsUp(t)'
    BY <1>1, <2>1, <2>6 DEF KeepsUp
  <2>8. PairSettled(t)'
    BY <2>6 DEF PairSettled
  <2> QED
    BY <2>7, <2>8 DEF t
<1> QED
  BY <1>4, <1>5, <1>6, <1>7, <1>8

LEMMA LandKeepsPrices ==
  ASSUME IndInv, NEW p \in Processes, NEW n, NEW v, Landing(p, n, v),
         Honest(p, n, v), NEW a \in Priced
  PROVE  PriceSettled(a)'
<1> DEFINE t == PriceOf(a)
           j == job[p]
           w == Written(p)
           item == Head(j.todo)
<1>1. /\ item \in Items /\ j.version \in Nat
      /\ w = IF j.half THEN item.second ELSE item.first
      /\ w \in item.together /\ item.together \in Togethers
      /\ stored'[w] = [form |-> item.form, version |-> j.version]
      /\ \A k \in Places : k # w => stored'[k] = stored[k]
      /\ known'[item.together] = IF Untouched(j, item.together) THEN v ELSE 0
      /\ \A u \in Togethers : u # item.together => known'[u] = known[u]
      /\ FindsHalf(j, stored)
      /\ Replaces(j, item.together, stored, known)
  BY LandFacts
<1>2. /\ t \in Togethers /\ PriceKey(a) \in t /\ PriceKey(a) \in Places
      /\ \A s \in Sources : Document(a, s) \in t /\ Document(a, s) \in Places
  BY TogethersArePlaces
<1>3. \A s \in Sources : Document(a, s) # PriceKey(a)
  BY DocumentsAreNoKeys, PriceKeyIsACacheKey
<1>4. CASE t # item.together
  <2>1. known'[t] = known[t] /\ (HalfWay(t) => HalfWay(t)')
    BY <1>1, <1>2, <1>4, LandKeepsHalves
  <2>2. w \in t => stored'[w].form = "number" /\ w = PriceKey(a)
    <3>1. w \in t => item.form = "number" /\ w = PriceKey(a)
      BY <1>1, <1>4, OtherPlacesOfAPrice
    <3> QED
      BY <1>1, <3>1
  <2>3. \A s \in Sources : stored'[Document(a, s)] = stored[Document(a, s)]
    BY <1>1, <1>2, <1>3, <2>2
  <2>4. stored'[PriceKey(a)].form = "object" => stored'[PriceKey(a)] = stored[PriceKey(a)]
    BY <1>1, <1>2, <2>2
  <2>5. PriceSettled(a)
    BY DEF IndInv, PricesSettled
  <2> HIDE DEF j, w, item
  <2> QED
    BY <2>1, <2>3, <2>4, <2>5 DEF PriceSettled
<1>5. CASE t = item.together /\ ~Untouched(j, t)
  <2>1. known'[t] = 0
    BY <1>1, <1>5
  <2> QED
    BY <2>1 DEF PriceSettled
<1>6. CASE t = item.together /\ Untouched(j, t) /\ ~j.half
  <2>1. HalfWay(t)' \/ v = 0
    BY <1>2, <1>6, FirstWriteIsHalfWay DEF Honest
  <2>2. HalfWay(t)' \/ known'[t] = 0
    BY <1>1, <1>6, <2>1
  <2> QED
    BY <2>2 DEF PriceSettled
<1>7. CASE t = item.together /\ Untouched(j, t) /\ j.half
  <2>1. PICK s \in Sources : item = Price(a, s)
    BY <1>1, <1>7, ItemsOfAnAsset
  <2>2. item.first = Document(a, s) /\ w = PriceKey(a) /\ item.form = "object"
    BY <1>1, <1>7, <2>1, PriceFacts
  <2>3. known'[t] = j.version
    BY <1>1, <1>7 DEF Honest
  <2>5. \A r \in Sources : stored'[Document(a, r)] = stored[Document(a, r)]
    BY <1>1, <1>2, <1>3, <2>2
  <2>6. \A r \in Sources : stored[Document(a, r)] # None => stored[Document(a, r)].version <= j.version
    BY <1>1, <1>2, <1>7 DEF Replaces
  <2>7. stored'[PriceKey(a)].version = j.version
    BY <1>1, <2>2
  <2> HIDE DEF j, w, item
  <2> QED
    BY <2>3, <2>5, <2>6, <2>7 DEF PriceSettled
<1> QED
  BY <1>4, <1>5, <1>6, <1>7

LEMMA LandEnds ==
  ASSUME IndInv, NEW p \in Processes, NEW n, NEW v, Landing(p, n, v)
  PROVE  /\ job[p].version <= clock /\ clock' = clock /\ clock \in Nat /\ job'[p] = n
         /\ \A q \in Processes : q # p /\ q \notin Busy => job'[q] = None
<1>1. job[p].version <= clock /\ clock' = clock /\ clock \in Nat
  BY LandFacts
<1>2. \A q \in Processes :
        job'[q] = IF q = p THEN n
                  ELSE IF q \in Busy THEN Touched(job[q], Written(p)) ELSE None
  BY LandFacts
<1> QED
  BY <1>1, <1>2

LEMMA LandInv ==
  ASSUME IndInv, TypeOK', NEW p \in Processes, NEW n, NEW v, Landing(p, n, v), Honest(p, n, v),
         n # None => /\ n.version \in {0, job[p].version}
                     /\ BringsNews(n, stored', known')
                     /\ FindsHalf(n, stored')
  PROVE  IndInv'
<1>1. /\ job[p].version <= clock /\ clock' = clock /\ clock \in Nat /\ job'[p] = n
      /\ \A q \in Processes : q # p /\ q \notin Busy => job'[q] = None
  BY LandEnds
<1>2. ASSUME NEW q \in Busy'
      PROVE  /\ job'[q].version <= clock'
             /\ BringsNews(job'[q], stored', known')
             /\ FindsHalf(job'[q], stored')
  <2>1. q \in Processes /\ job'[q] # None
    BY DEF Busy
  <2>2. q = p \/ q \in Busy
    BY <1>1, <2>1
  <2>3. CASE q = p
    BY <1>1, <2>1, <2>3
  <2>4. CASE q # p
    BY <2>2, <2>4, LandOthers
  <2> QED
    BY <2>3, <2>4
<1>3. NothingIsAhead'
  <2>1. ASSUME NEW k \in Places, stored'[k] # None PROVE stored'[k].version <= clock'
    <3>1. CASE k = Written(p)
      <4>1. /\ stored'[Written(p)] = [form |-> Head(job[p].todo).form, version |-> job[p].version]
            /\ job[p].version <= clock /\ clock' = clock
        BY LandFacts
      <4> QED
        BY <3>1, <4>1
    <3>2. CASE k # Written(p)
      <4>1. stored'[k] = stored[k] /\ clock' = clock
        BY <3>2, LandFacts
      <4> QED
        BY <2>1, <4>1 DEF IndInv, NothingIsAhead
    <3> QED
      BY <3>1, <3>2
  <2>2. ASSUME NEW t \in Togethers PROVE known'[t] <= clock'
    <3>1. known[t] <= clock /\ 0 <= clock
      BY DEF IndInv, NothingIsAhead, TypeOK
    <3>2. clock' = clock /\ job[p].version <= clock
      BY LandFacts
    <3>3. known'[t] \in {0, known[t], job[p].version}
      <4> DEFINE u == Head(job[p].todo).together
      <4>1. /\ known'[u] = IF Untouched(job[p], u) THEN v ELSE 0
            /\ \A x \in Togethers : x # u => known'[x] = known[x]
        BY LandFacts
      <4>2. v \in {0, known[u], job[p].version}
        BY DEF Honest
      <4> HIDE DEF u
      <4> QED
        BY <4>1, <4>2
    <3> QED
      BY <3>1, <3>2, <3>3
  <2> QED
    BY <1>2, <2>1, <2>2 DEF NothingIsAhead
<1>4. WritersBringNews' /\ HalfIsThere'
  BY <1>2 DEF WritersBringNews, HalfIsThere
<1>5. PairsKeepUp' /\ PairsSettled' /\ PricesSettled'
  BY LandKeepsPairs, LandKeepsPrices DEF PairsKeepUp, PairsSettled, PricesSettled
<1> QED
  BY <1>3, <1>4, <1>5 DEF IndInv

LEMMA WriteInv ==
  ASSUME IndInv, NEW p \in Processes, Write(p)
  PROVE  IndInv'
<1> DEFINE j == job[p]
           n == AfterWrite(j)
           v == IF j.half THEN j.version ELSE known[Head(j.todo).together]
<1>1. TypeOK'
  BY WriteTyped DEF IndInv
<1>2. Landing(p, n, v)
  BY DEF Write, Landing
<1>3. j \in Jobs /\ WellFormed(j) /\ j.step = "write" /\ j.todo \in Seq(Items) /\ j.todo # <<>>
  BY WriterFacts DEF Write, IndInv
<1>4. ~j.half => n \in Jobs /\ n.half /\ n.todo = j.todo
  BY <1>3 DEF AfterWrite, Jobs
<1>5. Honest(p, n, v)
  BY <1>4 DEF Honest
<1>6. /\ \A i \in DOMAIN j.todo : Replaces(j, j.todo[i].together, stored', known')
      /\ ~j.half => stored'[Head(j.todo).first] = [form |-> Head(j.todo).form,
                                                   version |-> j.version]
  BY <1>2, <1>5, LandIsNews, LandFacts
<1>7. ASSUME n # None
      PROVE  /\ n.version \in {0, j.version}
             /\ BringsNews(n, stored', known')
             /\ FindsHalf(n, stored')
  <2>1. CASE ~j.half
    <3>1. n = [j EXCEPT !.half = TRUE]
      BY <2>1 DEF AfterWrite
    <3>2. n.version = j.version /\ n.todo = j.todo /\ n.touched = j.touched
      BY <1>3, <3>1 DEF Jobs
    <3> HIDE DEF n
    <3> QED
      BY <1>6, <2>1, <3>2 DEF BringsNews, FindsHalf, Replaces, Untouched
  <2>2. CASE j.half /\ Len(j.todo) > 1
    <3>1. n = [j EXCEPT !.half = FALSE, !.todo = Tail(@)]
      BY <2>2 DEF AfterWrite
    <3>2. n.version = j.version /\ n.todo = Tail(j.todo) /\ n.touched = j.touched /\ ~n.half
      BY <1>3, <3>1 DEF Jobs
    <3> HIDE DEF n
    <3>3. BringsNews(n, stored', known')
      <4> SUFFICES ASSUME NEW i \in DOMAIN n.todo
                   PROVE  Replaces(n, n.todo[i].together, stored', known')
        BY DEF BringsNews
      <4>1. i + 1 \in DOMAIN j.todo /\ n.todo[i] = j.todo[i + 1]
        BY <1>3, <3>2
      <4> QED
        BY <1>6, <3>2, <4>1 DEF Replaces, Untouched
    <3> QED
      BY <3>2, <3>3 DEF FindsHalf
  <2>3. CASE j.half /\ ~(Len(j.todo) > 1)
    <3>1. n = Continue(j)
      BY <2>3 DEF AfterWrite
    <3>2. n.version = 0 /\ n.step = "fetch" /\ ~n.half
      BY <1>3, <1>7, <3>1 DEF Continue, Jobs
    <3> QED
      BY <3>2 DEF BringsNews, FindsHalf
  <2> QED
    BY <2>1, <2>2, <2>3
<1> HIDE DEF n, v
<1> QED
  BY <1>1, <1>2, <1>5, <1>7, LandInv

LEMMA WriteRefusedInv ==
  ASSUME IndInv, NEW p \in Processes, WriteRefused(p)
  PROVE  IndInv'
<1> DEFINE j == job[p]
           n == GiveUp(j)
           v == IF j.half THEN j.version ELSE 0
<1>1. TypeOK' /\ p \in Busy /\ j.step = "write"
  BY WriteRefusedTyped DEF IndInv, WriteRefused
<1>2. \/ job' = [job EXCEPT ![p] = GiveUp(@)] /\ known' = Forgotten({p})
         /\ UNCHANGED <<stored, clock>>
      \/ Landing(p, n, v)
  BY DEF WriteRefused, Landing
<1>3. CASE job' = [job EXCEPT ![p] = GiveUp(@)] /\ known' = Forgotten({p})
           /\ UNCHANGED <<stored, clock>>
  BY <1>1, <1>3, NotCarriedOutInv
<1>4. CASE Landing(p, n, v)
  <2>1. j \in Jobs /\ WellFormed(j)
    BY <1>4, LandFacts
  <2>2. Honest(p, n, v)
    BY DEF Honest
  <2>3. \A i \in DOMAIN j.todo : Replaces(j, j.todo[i].together, stored', known')
    BY <1>4, <2>2, LandIsNews
  <2>4. n # None => /\ n.version \in {0, j.version}
                    /\ BringsNews(n, stored', known')
                    /\ FindsHalf(n, stored')
    BY <1>1, <2>1, <2>3, GiveUpBringsNews
  <2> HIDE DEF n, v
  <2> QED
    BY <1>1, <1>4, <2>2, <2>4, LandInv
<1> QED
  BY <1>2, <1>3, <1>4

LEMMA NextInv == IndInv /\ [Next]_vars => IndInv'
<1> SUFFICES ASSUME IndInv, [Next]_vars PROVE IndInv'
  OBVIOUS
<1>1. ASSUME NEW p \in Updates, StartUpdate(p) PROVE IndInv'
  BY <1>1, StartUpdateInv
<1>2. ASSUME NEW p \in Prices, NEW list \in PriceLists, StartPrices(p, list) PROVE IndInv'
  BY <1>2, StartPricesInv
<1>3. ASSUME NEW p \in Requests, NEW pair \in Conversions, Convert(p, pair[1], pair[2])
      PROVE  IndInv'
  BY <1>3, ConvertInv
<1>4. ASSUME NEW p \in Processes, LookInverse(p) PROVE IndInv'
  BY <1>4, LookInverseInv
<1>5. ASSUME NEW p \in Processes, Write(p) PROVE IndInv'
  BY <1>5, WriteInv
<1>6. ASSUME NEW p \in Processes, Fetch(p) PROVE IndInv'
  BY <1>6, FetchInv
<1>7. ASSUME NEW p \in Processes, FetchFails(p) PROVE IndInv'
  BY <1>7, FetchFailsInv
<1>8. ASSUME NEW p \in Processes, WriteRefused(p) PROVE IndInv'
  BY <1>8, WriteRefusedInv
<1>9. ASSUME NEW k \in Places, Expire(k) PROVE IndInv'
  BY <1>9, ExpireInv
<1>10. CASE Restart
  BY <1>10, RestartInv
<1>11. CASE UNCHANGED vars
  BY <1>11 DEF vars, IndInv, TypeOK, NothingIsAhead, WritersBringNews, HalfIsThere, Busy,
       PairsKeepUp, KeepsUp, PairsSettled, PairSettled, PricesSettled, PriceSettled, HalfWay
<1> QED
  BY <1>1, <1>2, <1>3, <1>4, <1>5, <1>6, <1>7, <1>8, <1>9, <1>10, <1>11 DEF Next, Step

LEMMA RatesInv == Spec => []IndInv
BY InitInv, NextInv, PTL DEF Spec

-----------------------------------------------------------------------------
(* What follows.                                                           *)
LEMMA SettledPlacesAgree == IndInv => PlacesAgree
<1> SUFFICES ASSUME IndInv PROVE PlacesAgree
  OBVIOUS
<1>1. ASSUME NEW a \in Currencies, NEW b \in Currencies, a # b PROVE RateAgrees(a, b)
  <2>1. <<a, b>> \in Pairs
    BY <1>1 DEF Pairs
  <2>2. PairSettled(Pair(a, b))
    BY <2>1 DEF IndInv, PairsSettled
  <2>3. None \notin Entry
    BY NoneAssumption
  <2> QED
    BY <2>2, <2>3 DEF RateAgrees, PairSettled, Pair
<1>2. ASSUME NEW a \in Priced PROVE PriceAgrees(a)
  <2>1. PriceSettled(a)
    BY DEF IndInv, PricesSettled
  <2>2. None \notin Entry
    BY NoneAssumption
  <2> QED
    BY <2>1, <2>2 DEF PriceAgrees, PriceSettled
<1> QED
  BY <1>1, <1>2 DEF PlacesAgree

\* A rate and its inverse are of one observation, and no document is newer
\* than the cached price, whenever nobody is half way through writing them,
\* and the last writer was neither refused or cut off between the two nor met
\* by another.
THEOREM PlacesAgreeAlways == Spec => []PlacesAgree
BY RatesInv, SettledPlacesAgree, PTL

LEMMA AnswersAreCurrent ==
  IndInv /\ [Next]_vars =>
    [answer' # None /\ known'[answer'.pair] # 0 => answer'.version >= known[answer'.pair]]_vars
<1> SUFFICES ASSUME IndInv, Next, answer' # None, known'[answer'.pair] # 0
             PROVE  answer'.version >= known[answer'.pair]
  BY DEF vars
<1>1. ASSUME NEW i \in Items, NEW k \in {i.first, i.second}, i.form = "number",
             stored[k] # None, stored[k].form = "number", UNCHANGED known,
             Answer(i, stored[k].version)
      PROVE  answer'.version >= known[answer'.pair]
  <2>1. answer'.pair = i.together /\ answer'.version = stored[k].version
    BY <1>1 DEF Answer
  <2>2. PICK pair \in Pairs : i = Rate(pair[1], pair[2])
    BY <1>1, ItemCases DEF Price
  <2>3. KeepsUp(i.together)
    BY <2>2 DEF IndInv, PairsKeepUp, Rate
  <2>4. k \in i.together /\ known[i.together] # 0
    BY <1>1, <2>1, ItemFacts
  <2> QED
    BY <1>1, <2>1, <2>3, <2>4 DEF KeepsUp
<1>2. ASSUME NEW p \in Requests, NEW pair \in Conversions, Convert(p, pair[1], pair[2])
      PROVE  answer'.version >= known[answer'.pair]
  <2> DEFINE i == Rate(pair[1], pair[2])
  <2>1. pair \in Pairs
    BY RatesAssumption
  <2>2. i \in Items /\ i.first = RateKey(pair[1], pair[2]) /\ i.form = "number"
    BY <2>1, RateFacts DEF Rate
  <2>3. Found(p, i, stored[i.first])
    BY <1>2, <2>2 DEF Convert, NotFound
  <2> HIDE DEF i
  <2>4. UNCHANGED known
    BY <1>2 DEF Convert
  <2> QED
    BY <1>1, <2>2, <2>3, <2>4 DEF Found
<1>3. ASSUME NEW p \in Processes, LookInverse(p)
      PROVE  answer'.version >= known[answer'.pair]
  <2> DEFINE i == Head(job[p].todo)
  <2>1. job[p] \in Jobs /\ WellFormed(job[p]) /\ job[p].step = "inverse"
    BY <1>3, BusyTyped DEF LookInverse, IndInv, TypeOK, JobsTyped
  <2>2. i.form = "number" /\ Len(job[p].todo) = 1
    BY <2>1 DEF WellFormed
  <2>3. i \in Items
    BY <2>1, <2>2 DEF Jobs
  <2>4. Found(p, i, stored[i.second]) /\ UNCHANGED known
    BY <1>3 DEF LookInverse, NotFound
  <2> HIDE DEF i
  <2> QED
    BY <1>1, <2>2, <2>3, <2>4 DEF Found
<1>4. ASSUME NEW p \in Processes, Write(p)
      PROVE  answer'.version >= known[answer'.pair]
  <2>1. job[p].half /\ Answer(Head(job[p].todo), job[p].version)
    BY <1>4 DEF Write
  <2>2. answer'.pair = Head(job[p].todo).together /\ answer'.version = job[p].version
    BY <2>1 DEF Answer
  <2> DEFINE n == AfterWrite(job[p])
             v == IF job[p].half THEN job[p].version ELSE known[Head(job[p].todo).together]
  <2>0. Landing(p, n, v)
    BY <1>4 DEF Write, Landing
  <2> HIDE DEF n, v
  <2>3. Untouched(job[p], Head(job[p].todo).together)
    BY <2>0, <2>2, LandFacts
  <2>4. /\ known[Head(job[p].todo).together] <= job[p].version
        /\ Head(job[p].todo).together \in Togethers /\ job[p].version \in Nat
    BY <2>0, <2>3, LandFacts DEF Replaces
  <2>5. known[Head(job[p].todo).together] \in Nat
    BY <2>4 DEF IndInv, TypeOK
  <2> QED
    BY <2>2, <2>4, <2>5
<1> QED
  BY <1>2, <1>3, <1>4
     DEF Next, Step, StartUpdate, StartPrices, Fetch, FetchBrings, FetchFails, WriteRefused, Expire, Restart

\* A conversion never answers with an older rate than the pair was last
\* written with, whichever key it is found under, by a writer that was neither
\* met by another nor refused or cut off between the two keys.
THEOREM ConversionsAreAlwaysCurrent == Spec => ConversionsAreCurrent
BY RatesInv, AnswersAreCurrent, PTL DEF Spec, ConversionsAreCurrent
=============================================================================
