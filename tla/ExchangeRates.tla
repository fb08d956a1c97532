--------------------------- MODULE ExchangeRates ---------------------------
(***************************************************************************)
(* Exchange rates in the currency conversion service.  Two classes of one  *)
(* process keep them: CurrencyConversionService caches a rate and its      *)
(* inverse under two Redis keys, refreshes them on a timer and fetches     *)
(* what a conversion misses; PriceUpdateService, on a cron schedule,       *)
(* writes a document to MongoDB and then a key to Redis.  For fiat         *)
(* currencies it is a key of the same form, with another content.          *)
(*                                                                         *)
(* Whatever is written goes to two places, one await after the other, and  *)
(* was observed by the provider some time before.  A version is the order  *)
(* of the observations; the numbers themselves are left out.               *)
(***************************************************************************)
EXTENDS Integers, FiniteSets, Sequences, SequencesExt

CONSTANTS
  USD,
  Fiat,              \* the others
  Batches,           \* the pairs <<from, to>> that one answer of a provider
                     \* brings: fiat currencies in USD, then coins in some
  MetalCurrencies,   \* precious metals, asked for one by one
  PriceLists,        \* what one answer of a provider of PriceUpdateService
                     \* prices: pairs <<base, currency>> in the base that it
                     \* answers in, or metals, or coins
  Sources,           \* providers it turns to
  None,              \* no entry, no job
  Updates,           \* bound: runs of updateAllExchangeRates at a time
  Prices,            \* bound: runs of the price updates at a time
  Requests,          \* bound: conversions at a time
  Conversions,       \* bound: pairs <<from, to>> that are asked for
  MaxVersion,        \* bound: later observations are not told apart
  MaxTroubles        \* bound: refused commands, restarts, entries that expire

Metals == ToSet(MetalCurrencies)
Priced == UNION {ToSet(list) : list \in PriceLists}
Currencies ==
  Fiat \cup Metals \cup {USD} \cup
  UNION {{pair[1], pair[2]} : pair \in UNION {ToSet(batch) : batch \in ToSet(Batches)}}
Pairs == {pair \in Currencies \X Currencies : pair[1] # pair[2]}
Processes == Updates \cup Prices \cup Requests

ASSUME RatesAssumption ==
  /\ USD \notin Fiat \cup Metals /\ Fiat \cap Metals = {}
  /\ {"price", "document"} \cap Currencies = {}
  /\ Batches \in Seq(Seq(Pairs) \ {<<>>}) \ {<<>>}
  /\ MetalCurrencies \in Seq(Metals)
  /\ PriceLists \subseteq Seq(Priced) \ {<<>>}
  /\ Conversions \subseteq Pairs
  /\ Updates \cap Prices = {} /\ (Updates \cup Prices) \cap Requests = {}
  /\ {MaxVersion, MaxTroubles} \subseteq Nat

VARIABLES
  stored,      \* Redis keys and MongoDB documents
  clock,       \* observations made so far
  job,         \* per process: what it is doing
  troubles,    \* those that are still to come
  known,       \* history: the version that a pair or a price was last written
               \* with; 0: in part, by two at once, or not yet
  answer       \* what a conversion has just answered, and for which pair

vars == <<stored, clock, job, troubles, known, answer>>
-----------------------------------------------------------------------------
(* Places, and what is written to them.                                    *)
RateKey(from, to) == <<from, to>>
Keys == {RateKey(pair[1], pair[2]) : pair \in Pairs}
PriceKey(asset) == IF asset \in Keys THEN asset ELSE <<"price", asset>>
Document(asset, source) == <<"document", asset, source>>

CacheKeys == Keys \cup {PriceKey(a) : a \in Priced}
Places == CacheKeys \cup {Document(a, s) : a \in Priced, s \in Sources}

\* A rate is a number under two keys; a price is a document, then an object.
Pair(from, to) == {RateKey(from, to), RateKey(to, from)}
\* (A setExchangeRate that builds both keys the same way.)
OneKey(from, to) ==
  [form |-> "number", first |-> RateKey(from, to), second |-> RateKey(from, to),
   together |-> Pair(from, to)]
Rate(from, to) ==
  [form |-> "number", first |-> RateKey(from, to), second |-> RateKey(to, from),
   together |-> Pair(from, to)]
PriceOf(asset) == {PriceKey(asset)} \cup {Document(asset, s) : s \in Sources}
Price(asset, source) ==
  [form |-> "object", first |-> Document(asset, source), second |-> PriceKey(asset),
   together |-> PriceOf(asset)]

Togethers == {Pair(pair[1], pair[2]) : pair \in Pairs} \cup {PriceOf(a) : a \in Priced}

Items ==
  {Rate(pair[1], pair[2]) : pair \in Pairs} \cup
  {Price(a, s) : a \in Priced, s \in Sources}
Entry == [form : {"number", "object"}, version : 0..MaxVersion]

(* Jobs.  todo is written with the version of the last fetch; then comes   *)
(* the next part of the plan.  touched is what others wrote since.         *)
Rates(pairs) == [i \in DOMAIN pairs |-> Rate(pairs[i][1], pairs[i][2])]
AllRates ==
  [i \in DOMAIN Batches |-> Rates(Batches[i])] \o
  [i \in DOMAIN MetalCurrencies |-> <<Rate(MetalCurrencies[i], USD)>>]
Jobs ==
  [kind : {"update", "price", "convert"}, step : {"inverse", "fetch", "write"},
   plan : Seq(Seq(Items) \ {<<>>}), todo : Seq(Items), half : BOOLEAN,
   version : 0..MaxVersion, touched : SUBSET Places]
ASSUME NoneAssumption == None \notin Entry \cup Jobs

NoJob == [kind |-> "update", step |-> "fetch", plan |-> <<>>, todo |-> <<>>,
          half |-> FALSE, version |-> 0, touched |-> {}]

Busy == {p \in Processes : job[p] # None}
Update == [NoJob EXCEPT !.plan = AllRates]

Conversion(from, to) ==
  [NoJob EXCEPT !.kind = "convert", !.step = "inverse", !.todo = <<Rate(from, to)>>]

Init ==
  /\ stored = [k \in Places |-> None]
  /\ clock = 0
  /\ job = [p \in Processes |-> None]
  /\ troubles = MaxTroubles
  /\ known = [t \in Togethers |-> 0]
  /\ answer = None

\* The next part of the plan is fetched; a job with none is done.
Continue(j) ==
  IF j.plan = <<>> THEN None
  ELSE [j EXCEPT !.step = "fetch", !.todo = <<>>, !.half = FALSE,
                 !.version = 0, !.touched = {}]

\* A failure is caught around a batch, around all metals, around one price,
\* or ends the conversion.
GiveUp(j) ==
  IF j.kind = "update" /\ Len(j.plan) >= Len(MetalCurrencies) THEN Continue(j)
  ELSE IF j.kind = "price" /\ Len(j.todo) > 1
    THEN [j EXCEPT !.todo = Tail(@), !.half = FALSE]
  ELSE None
-----------------------------------------------------------------------------
Trouble == troubles > 0 /\ troubles' = troubles - 1

\* (A timer that refreshes only when a rate is missing.)
StartIfMissing(p) ==
  /\ job[p] = None
  /\ \E rates \in ToSet(AllRates) : \E item \in ToSet(rates) : stored[item.first] = None
  /\ job' = [job EXCEPT ![p] = Update]
  /\ UNCHANGED <<stored, clock, troubles, known>>
  /\ answer' = None

\* The timer of the constructor, its first call, and the cron schedule.
StartUpdate(p) ==
  /\ job[p] = None
  /\ job' = [job EXCEPT ![p] = Update]
  /\ UNCHANGED <<stored, clock, troubles, known>>
  /\ answer' = None

StartPrices(p, assets) ==
  /\ job[p] = None
  /\ \E s \in Sources :
       job' = [job EXCEPT ![p] = [NoJob EXCEPT !.kind = "price",
                 !.plan = <<[i \in DOMAIN assets |-> Price(assets[i], s)]>>]]
  /\ UNCHANGED <<stored, clock, troubles, known>>
  /\ answer' = None

\* getExchangeRate: the key, the inverse key, the provider.  An object under
\* a key is no Decimal, and the conversion fails.
Answer(item, version) ==
  answer' = [pair |-> item.together, version |-> version]

Found(p, item, entry) ==
  /\ entry # None
  /\ job' = [job EXCEPT ![p] = None]
  /\ IF entry.form = "number" THEN Answer(item, entry.version) ELSE answer' = None

NotFound(p, entry, next) ==
  /\ entry = None
  /\ job' = [job EXCEPT ![p] = next]
  /\ answer' = None

Convert(p, from, to) ==
  /\ job[p] = None
  /\ LET entry == stored[RateKey(from, to)]
     IN Found(p, Rate(from, to), entry) \/ NotFound(p, entry, Conversion(from, to))
  /\ UNCHANGED <<stored, clock, troubles, known>>

LookInverse(p) ==
  /\ p \in Busy /\ job[p].step = "inverse"
  /\ LET item == Head(job[p].todo)
         entry == stored[item.second]
     IN \/ Found(p, item, entry)
        \/ NotFound(p, entry, [job[p] EXCEPT !.step = "fetch"])
  /\ UNCHANGED <<stored, clock, troubles, known>>

\* A provider answers.  Fiat and metals are converted over USD: the rate is as
\* old as the first of the two answers.  Metals are converted to nothing else.
Fetchable ==
  {Pair(a, b) : a \in Currencies, b \in Fiat \cup {USD}} \cup
  {Pair(a, b) : a, b \in Currencies \ Metals}
Observed == IF clock < MaxVersion THEN clock + 1 ELSE MaxVersion
\* An answer may leave out any of what it was asked for, which is skipped.
Increasing(n) ==
  {f \in UNION {[1..m -> 1..n] : m \in 0..n} :
     \A i, k \in DOMAIN f : i < k => f[i] < f[k]}
Parts(items) == {[i \in DOMAIN f |-> items[f[i]]] : f \in Increasing(Len(items))}
Wanted(j) == IF j.kind = "convert" THEN j.todo ELSE Head(j.plan)
Fetched(j, brought) ==
  LET rest == [j EXCEPT !.plan = IF @ = <<>> THEN @ ELSE Tail(@)]
  IN IF brought = <<>> THEN Continue(rest)
     ELSE [rest EXCEPT !.step = "write", !.todo = brought, !.version = Observed,
                       !.touched = {}]
FetchBrings(p, brought) ==
  /\ clock' = Observed
  /\ job' = [job EXCEPT ![p] = Fetched(@, brought)]
  /\ UNCHANGED <<stored, troubles, known>>
  /\ answer' = None
Fetch(p) ==
  /\ p \in Busy /\ job[p].step = "fetch"
  /\ job[p].kind = "convert" => Head(job[p].todo).together \in Fetchable
  /\ \E brought \in Parts(Wanted(job[p])) : FetchBrings(p, brought)

NotFetched(j) ==
  IF j.kind = "convert" THEN None ELSE GiveUp([j EXCEPT !.plan = Tail(@)])
FetchFails(p) ==
  /\ p \in Busy /\ job[p].step = "fetch"
  /\ job' = [job EXCEPT ![p] = NotFetched(@)]
  /\ UNCHANGED <<stored, clock, troubles, known>>
  /\ answer' = None

\* setExchangeRate and the process...Update methods: one place, then the
\* other.
Written(p) == IF job[p].half THEN Head(job[p].todo).second ELSE Head(job[p].todo).first
AfterWrite(j) ==
  IF ~j.half THEN [j EXCEPT !.half = TRUE]
  ELSE IF Len(j.todo) > 1 THEN [j EXCEPT !.half = FALSE, !.todo = Tail(@)]
  ELSE Continue(j)

\* To a job that will write to the same place it matters.
Touched(j, place) ==
  IF \E i \in DOMAIN j.todo : place \in j.todo[i].together
  THEN [j EXCEPT !.touched = @ \cup {place}] ELSE j

\* A write is carried out: its process goes on with next, and if no other
\* has met it, version is what is known of the places.
Land(p, next, version) ==
  LET j == job[p]
      item == Head(j.todo)
  IN /\ stored' = [stored EXCEPT ![Written(p)] =
                      [form |-> item.form, version |-> j.version]]
     /\ job' = [q \in Processes |->
          IF q = p THEN next
          ELSE IF q \in Busy THEN Touched(job[q], Written(p))
          ELSE None]
     /\ known' = [known EXCEPT ![item.together] =
          IF j.touched \cap item.together # {} THEN 0 ELSE version]

Write(p) ==
  /\ p \in Busy /\ job[p].step = "write"
  /\ LET j == job[p]
         item == Head(j.todo)
     IN /\ Land(p, AfterWrite(j), IF j.half THEN j.version ELSE known[item.together])
        /\ IF j.half /\ j.kind = "convert"
           THEN Answer(item, j.version) ELSE answer' = None
  /\ UNCHANGED <<clock, troubles>>

\* Jobs that end half way leave it unknown what they have written.
Forgotten(ps) ==
  [t \in Togethers |->
     IF \E p \in ps \cap Busy : job[p].half /\ Head(job[p].todo).together = t
     THEN 0 ELSE known[t]]

\* A command that fails may have been carried out before it timed out.
WriteRefused(p) ==
  /\ p \in Busy /\ job[p].step = "write"
  /\ Trouble
  /\ \/ /\ job' = [job EXCEPT ![p] = GiveUp(@)]
        /\ known' = Forgotten({p})
        /\ UNCHANGED stored
     \/ Land(p, GiveUp(job[p]), IF job[p].half THEN job[p].version ELSE 0)
  /\ UNCHANGED clock
  /\ answer' = None

\* The keys and the documents have a time to live, which ends at any time.
Expire(k) ==
  /\ stored[k] # None
  /\ Trouble
  /\ stored' = [stored EXCEPT ![k] = None]
  /\ UNCHANGED <<clock, job, known>>
  /\ answer' = None

Restart ==
  /\ Trouble
  /\ job' = [p \in Processes |-> None]
  /\ known' = Forgotten(Processes)
  /\ UNCHANGED <<stored, clock>>
  /\ answer' = None

Step(p) == LookInverse(p) \/ Write(p)

Next ==
  \/ \E p \in Updates : StartUpdate(p)
  \/ \E p \in Prices, list \in PriceLists : StartPrices(p, list)
  \/ \E p \in Requests, pair \in Conversions : Convert(p, pair[1], pair[2])
  \/ \E p \in Processes : Step(p) \/ Fetch(p) \/ FetchFails(p) \/ WriteRefused(p)
  \/ \E k \in Places : Expire(k)
  \/ Restart

Spec == Init /\ [][Next]_vars

\* The timer of the updates fires, their calls return, and the providers of
\* the batches answer in full again and again.
Proceed(p) == StartUpdate(p) \/ Step(p) \/ Fetch(p) \/ FetchFails(p)
FetchBatch(p, n) ==
  /\ p \in Busy /\ job[p].step = "fetch" /\ Len(job[p].plan) = n
  /\ FetchBrings(p, Wanted(job[p]))

FairSpec ==
  /\ Spec
  /\ \A p \in Updates : WF_vars(Proceed(p))
  /\ \A p \in Updates : \A n \in Len(MetalCurrencies) + 1..Len(AllRates) :
       SF_vars(FetchBatch(p, n))
-----------------------------------------------------------------------------
\* What a job at each step is like.
WellFormed(j) ==
  /\ j.step = "write" => j.todo # <<>>
  /\ j.step # "write" => ~j.half
  /\ j.step = "inverse" => j.kind = "convert"
  /\ j.kind = "convert" =>
       j.plan = <<>> /\ Len(j.todo) = 1 /\ Head(j.todo).form = "number"
  /\ j.step = "fetch" /\ j.kind # "convert" => j.todo = <<>> /\ j.plan # <<>>

\* The types of the variables.
TypeOK ==
  /\ stored \in [Places -> Entry \cup {None}]
  /\ clock \in 0..MaxVersion
  /\ job \in [Processes -> Jobs \cup {None}]
  /\ \A p \in Busy : WellFormed(job[p])
  /\ troubles \in 0..MaxTroubles
  /\ known \in [Togethers -> 0..MaxVersion]
  /\ answer \in [pair : Togethers, version : 0..MaxVersion] \cup {None}

HalfWay(together) ==
  \E p \in Busy : job[p].half /\ Head(job[p].todo).together = together

\* A rate and its inverse are of the same observation, and no document is
\* newer than the cached price, unless a process is half way through them, or
\* the last to write them was refused or cut off between the two, or met by
\* another writer.
RateAgrees(a, b) ==
  known[Pair(a, b)] # 0 /\ ~HalfWay(Pair(a, b)) =>
    \A there, back \in Entry :
      /\ stored[RateKey(a, b)] = there /\ there.form = "number"
      /\ stored[RateKey(b, a)] = back /\ back.form = "number"
      => there.version = back.version

PriceAgrees(a) ==
  known[PriceOf(a)] # 0 /\ ~HalfWay(PriceOf(a)) =>
    \A cached \in Entry :
      stored[PriceKey(a)] = cached /\ cached.form = "object" =>
        \A s \in Sources :
          stored[Document(a, s)] # None => stored[Document(a, s)].version <= cached.version

PlacesAgree ==
  /\ \A a, b \in Currencies : a # b => RateAgrees(a, b)
  /\ \A a \in Priced : PriceAgrees(a)

\* A conversion never answers with an older rate than the pair was last
\* written with, from whichever key or provider it comes, unless writers of
\* the pair overlapped, or the last one was refused or cut off between the
\* two keys.
ConversionsAreCurrent ==
  [][answer' # None /\ known'[answer'.pair] # 0 =>
       answer'.version >= known[answer'.pair]]_vars

\* The pairs that the batches bring, in both directions.
Refreshed ==
  UNION {Pair(pair[1], pair[2]) : pair \in UNION {ToSet(batch) : batch \in ToSet(Batches)}}

\* The objects that PriceUpdateService puts under the keys of the rates, and
\* that make every conversion of the pair fail, are replaced in the end where
\* updateAllExchangeRates brings the pair.  Elsewhere nothing replaces them.
UnreadableRatesAreReplaced ==
  \A k \in Refreshed :
    stored[k] # None /\ stored[k].form = "object" ~>
      stored[k] = None \/ stored[k].form = "number"
=============================================================================
