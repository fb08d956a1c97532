--------------------------- MODULE WorkflowProofs ---------------------------
(***************************************************************************)
(* Proofs about one instance in the workflow engine, for any workflows,    *)
(* any number of activities and any bound on what disturbs them.           *)
(***************************************************************************)
EXTENDS WorkflowEngine, FiniteSets, SequenceTheorems, FiniteSetTheorems, TLAPS

LEMMA Bounds == MaxChains \in Nat \ {0} /\ MaxEvents \in Nat
BY EngineAssumption

Working(f) == f.at \in {"handler", "try"}

\* The execution a frame works on.
Recorded(history, f) ==
  f.step \in DOMAIN history /\ f.exec \in DOMAIN history[f.step]

Same(f, g) == f.step = g.step /\ f.exec = g.exec

\* A handler is under way for this execution.
UnderWay(ch, s, i) ==
  \E c \in Activities : \E k \in DOMAIN ch[c] :
    ch[c][k].step = s /\ ch[c][k].exec = i /\ ch[c][k].at = "handler"

\* Frames that wait for their handler or inside their try block know their
\* execution, no two of them the same one, and what is recorded as running
\* are the executions whose handler is under way.
Fits(history, ch) ==
  /\ \A c \in Activities : \A k \in DOMAIN ch[c] :
       Working(ch[c][k]) => Recorded(history, ch[c][k])
  /\ \A c, d \in Activities : \A k \in DOMAIN ch[c], l \in DOMAIN ch[d] :
       Working(ch[c][k]) /\ Working(ch[d][l]) /\ Same(ch[c][k], ch[d][l]) =>
         c = d /\ k = l
  /\ \A s \in DOMAIN history : \A i \in DOMAIN history[s] :
       history[s][i] = "running" <=> UnderWay(ch, s, i)

NothingBefore ==
  instance = NoInstance =>
    timers = {} /\ \A c \in Activities : chains[c] = <<>>

RefusalsAreFaults ==
  \A c \in Activities : \A k \in DOMAIN chains[c] :
    ~ chains[c][k].ok => faults > 0

\* Whatever changed since the last save is saved by the handler under way, on
\* its way back.
HandlerUnderWay ==
  \E c \in Activities : \E k \in DOMAIN chains[c] : chains[c][k].at = "handler"

SomeStranded == \E a \in instance.approvals : Stranded(a)

SavedOrWorking ==
  instance # NoInstance /\ faults = 0 =>
    stored = instance \/ Expired \/ SomeStranded \/ HandlerUnderWay

IndInv ==
  /\ TypeOK
  /\ NothingBefore
  /\ instance # NoInstance => Fits(instance.executionHistory, chains)
  /\ RefusalsAreFaults
  /\ SavedOrWorking
-----------------------------------------------------------------------------
(* Stacks.                                                                 *)
Stacks == Seq(FrameType)
Chains == [Activities -> Stacks]

LEMMA StackFacts ==
  ASSUME NEW st \in Stacks
  PROVE  /\ Len(st) \in Nat
         /\ DOMAIN st = 1..Len(st)
         /\ \A k \in 1..Len(st) : st[k] \in FrameType
         /\ st # <<>> => Len(st) > 0 /\ Last(st) = st[Len(st)] /\ Last(st) \in FrameType
BY DEF Stacks, Last

LEMMA Cut ==
  ASSUME NEW st \in Stacks, NEW n \in 0..Len(st)
  PROVE  /\ SubSeq(st, 1, n) \in Stacks
         /\ Len(SubSeq(st, 1, n)) = n
         /\ \A k \in 1..n : SubSeq(st, 1, n)[k] = st[k]
BY DEF Stacks

LEMMA Pushed ==
  ASSUME NEW st \in Stacks, NEW f \in FrameType
  PROVE  /\ Append(st, f) \in Stacks
         /\ Len(Append(st, f)) = Len(st) + 1
         /\ \A k \in 1..Len(st) : Append(st, f)[k] = st[k]
         /\ Append(st, f)[Len(st) + 1] = f
         /\ Append(st, f) # <<>>
         /\ Last(Append(st, f)) = f
         /\ Front(Append(st, f)) = st
<1>1. /\ Append(st, f) \in Stacks
      /\ Len(Append(st, f)) = Len(st) + 1
      /\ \A k \in 1..Len(st) : Append(st, f)[k] = st[k]
      /\ Append(st, f)[Len(st) + 1] = f
  BY DEF Stacks
<1>2. Len(st) \in Nat
  BY DEF Stacks
<1>3. Append(st, f) # <<>>
  <2>1. Len(Append(st, f)) # 0
    BY <1>1, <1>2
  <2> QED
    BY <2>1, EmptySeq
<1>4. Last(Append(st, f)) = f
  BY <1>1 DEF Last
<1>5. Len(st) \in 0..Len(Append(st, f)) /\ Len(Append(st, f)) - 1 = Len(st)
  BY <1>1, <1>2
<1>6. /\ Front(Append(st, f)) \in Stacks
      /\ Len(Front(Append(st, f))) = Len(st)
      /\ \A k \in 1..Len(st) : Front(Append(st, f))[k] = st[k]
  BY <1>1, <1>5, Cut DEF Front
<1>7. Front(Append(st, f)) = st
  BY <1>6, SeqEqual DEF Stacks
<1> QED
  BY <1>1, <1>3, <1>4, <1>7

LEMMA Popped ==
  ASSUME NEW st \in Stacks, st # <<>>
  PROVE  /\ Front(st) \in Stacks
         /\ Len(Front(st)) = Len(st) - 1
         /\ \A k \in 1..Len(st) - 1 : Front(st)[k] = st[k]
<1>1. Len(st) \in Nat \ {0}
  BY DEF Stacks
<1>2. Len(st) - 1 \in 0..Len(st)
  BY <1>1
<1> QED
  BY <1>2, Cut DEF Front
-----------------------------------------------------------------------------
(* Fits, when a stack or a record changes.                                 *)

\* Frames above n leave the stack of c, none of them with a handler under way.
LEMMA Dropped ==
  ASSUME NEW h, NEW ch \in Chains, NEW ch2 \in Chains, NEW c \in Activities,
         Fits(h, ch), NEW n \in 0..Len(ch[c]),
         \A d \in Activities : d # c => ch2[d] = ch[d],
         Len(ch2[c]) = n, \A k \in 1..n : ch2[c][k] = ch[c][k],
         \A k \in DOMAIN ch[c] : k > n => ch[c][k].at # "handler"
  PROVE  Fits(h, ch2)
<1>1. \A d \in Activities : \A k \in DOMAIN ch2[d] :
        k \in DOMAIN ch[d] /\ ch2[d][k] = ch[d][k]
  BY StackFacts DEF Chains
<1>2. \A s, i : UnderWay(ch, s, i) <=> UnderWay(ch2, s, i)
  <2> SUFFICES ASSUME NEW d \in Activities, NEW k \in DOMAIN ch[d],
                      ch[d][k].at = "handler"
               PROVE  k \in DOMAIN ch2[d] /\ ch2[d][k] = ch[d][k]
    BY <1>1 DEF UnderWay
  <2> QED
    BY StackFacts DEF Chains
<1>3. \A d \in Activities : \A k \in DOMAIN ch2[d] :
        Working(ch2[d][k]) => Recorded(h, ch2[d][k])
  BY <1>1 DEF Fits
<1>4. \A b, d \in Activities : \A k \in DOMAIN ch2[b], l \in DOMAIN ch2[d] :
       Working(ch2[b][k]) /\ Working(ch2[d][l]) /\ Same(ch2[b][k], ch2[d][l]) =>
         b = d /\ k = l
  BY <1>1 DEF Fits
<1>5. \A s \in DOMAIN h : \A i \in DOMAIN h[s] :
       h[s][i] = "running" <=> UnderWay(ch2, s, i)
  BY <1>2 DEF Fits
<1> QED
  BY <1>3, <1>4, <1>5 DEF Fits

\* A frame that only saves is pushed.
LEMMA SavePushed ==
  ASSUME NEW h, NEW ch \in Chains, NEW ch2 \in Chains, NEW c \in Activities,
         Fits(h, ch),
         \A d \in Activities : d # c => ch2[d] = ch[d],
         Len(ch2[c]) = Len(ch[c]) + 1, \A k \in 1..Len(ch[c]) : ch2[c][k] = ch[c][k],
         ch2[c][Len(ch[c]) + 1].at \in {"save", "start"}
  PROVE  Fits(h, ch2)
<1>1. \A d \in Activities : \A k \in DOMAIN ch2[d] :
        \/ k \in DOMAIN ch[d] /\ ch2[d][k] = ch[d][k]
        \/ ch2[d][k].at \in {"save", "start"}
  BY StackFacts DEF Chains
<1>2. \A d \in Activities : \A k \in DOMAIN ch[d] :
        k \in DOMAIN ch2[d] /\ ch2[d][k] = ch[d][k]
  BY StackFacts DEF Chains
<1>3. \A s, i : UnderWay(ch, s, i) <=> UnderWay(ch2, s, i)
  <2> TAKE s, i
  <2>1. UnderWay(ch, s, i) => UnderWay(ch2, s, i)
    BY <1>2 DEF UnderWay
  <2>2. UnderWay(ch2, s, i) => UnderWay(ch, s, i)
    BY <1>1 DEF UnderWay
  <2> QED
    BY <2>1, <2>2
<1>4. \A d \in Activities : \A k \in DOMAIN ch2[d] :
        Working(ch2[d][k]) => k \in DOMAIN ch[d] /\ ch2[d][k] = ch[d][k]
  BY <1>1 DEF Working
<1>5. \A d \in Activities : \A k \in DOMAIN ch2[d] :
        Working(ch2[d][k]) => Recorded(h, ch2[d][k])
  BY <1>4 DEF Fits
<1>6. \A b, d \in Activities : \A k \in DOMAIN ch2[b], l \in DOMAIN ch2[d] :
       Working(ch2[b][k]) /\ Working(ch2[d][l]) /\ Same(ch2[b][k], ch2[d][l]) =>
         b = d /\ k = l
  BY <1>4 DEF Fits
<1>7. \A s \in DOMAIN h : \A i \in DOMAIN h[s] :
       h[s][i] = "running" <=> UnderWay(ch2, s, i)
  BY <1>3 DEF Fits
<1> QED
  BY <1>5, <1>6, <1>7 DEF Fits

\* Frame n, which is now on top, has an outcome and goes on to wait in its try
\* or its catch block.
LEMMA Settled ==
  ASSUME NEW h, NEW h2, NEW ch \in Chains, NEW ch2 \in Chains, NEW c \in Activities,
         Fits(h, ch), NEW n \in 1..Len(ch[c]),
         Working(ch[c][n]),
         \A k \in DOMAIN ch[c] : k > n => ch[c][k].at # "handler",
         \A d \in Activities : d # c => ch2[d] = ch[d],
         Len(ch2[c]) = n, \A k \in 1..n - 1 : ch2[c][k] = ch[c][k],
         Same(ch2[c][n], ch[c][n]), ch2[c][n].at \in {"try", "catch"},
         DOMAIN h2 = DOMAIN h,
         \A s \in DOMAIN h : DOMAIN h2[s] = DOMAIN h[s],
         \A s \in DOMAIN h : \A i \in DOMAIN h[s] :
           ~ (s = ch[c][n].step /\ i = ch[c][n].exec) => h2[s][i] = h[s][i],
         h2[ch[c][n].step][ch[c][n].exec] # "running"
  PROVE  Fits(h2, ch2)
<1>1. n \in DOMAIN ch[c] /\ n \in DOMAIN ch2[c]
  BY StackFacts DEF Chains
<1>2. \A d \in Activities : \A k \in DOMAIN ch2[d] :
        /\ k \in DOMAIN ch[d]
        /\ Same(ch2[d][k], ch[d][k])
        /\ Working(ch2[d][k]) => Working(ch[d][k])
  <2> SUFFICES ASSUME NEW d \in Activities, NEW k \in DOMAIN ch2[d]
               PROVE  /\ k \in DOMAIN ch[d]
                      /\ Same(ch2[d][k], ch[d][k])
                      /\ Working(ch2[d][k]) => Working(ch[d][k])
    OBVIOUS
  <2>1. CASE d = c /\ k = n
    BY <1>1, <2>1
  <2>2. CASE ~ (d = c /\ k = n)
    <3>1. k \in DOMAIN ch[d] /\ ch2[d][k] = ch[d][k]
      BY <2>2, StackFacts DEF Chains
    <3> QED
      BY <3>1 DEF Same
  <2> QED
    BY <2>1, <2>2
<1>3. \A d \in Activities : \A k \in DOMAIN ch2[d] :
        Working(ch2[d][k]) => Recorded(h2, ch2[d][k])
  <2> SUFFICES ASSUME NEW d \in Activities, NEW k \in DOMAIN ch2[d], Working(ch2[d][k])
               PROVE  Recorded(h2, ch2[d][k])
    OBVIOUS
  <2>1. Recorded(h, ch[d][k])
    BY <1>2 DEF Fits
  <2> QED
    BY <2>1, <1>2 DEF Recorded, Same
<1>4. \A b, d \in Activities : \A k \in DOMAIN ch2[b], l \in DOMAIN ch2[d] :
       Working(ch2[b][k]) /\ Working(ch2[d][l]) /\ Same(ch2[b][k], ch2[d][l]) =>
         b = d /\ k = l
  <2> SUFFICES ASSUME NEW b \in Activities, NEW d \in Activities,
                      NEW k \in DOMAIN ch2[b], NEW l \in DOMAIN ch2[d],
                      Working(ch2[b][k]), Working(ch2[d][l]), Same(ch2[b][k], ch2[d][l])
               PROVE  b = d /\ k = l
    OBVIOUS
  <2>1. Same(ch[b][k], ch[d][l])
    BY <1>2 DEF Same
  <2> QED
    BY <2>1, <1>2 DEF Fits
<1>5. ASSUME NEW s \in DOMAIN h2, NEW i \in DOMAIN h2[s]
      PROVE  h2[s][i] = "running" <=> UnderWay(ch2, s, i)
  <2>1. s \in DOMAIN h /\ i \in DOMAIN h[s]
    BY <1>5
  <2>2. CASE s = ch[c][n].step /\ i = ch[c][n].exec
    <3>1. h2[s][i] # "running"
      BY <2>2
    <3>2. ~ UnderWay(ch2, s, i)
      <4> SUFFICES ASSUME NEW d \in Activities, NEW k \in DOMAIN ch2[d],
                          ch2[d][k].step = s, ch2[d][k].exec = i, ch2[d][k].at = "handler"
                   PROVE  FALSE
        BY DEF UnderWay
      <4>1. Working(ch2[d][k])
        BY DEF Working
      <4>2. Same(ch[d][k], ch[c][n])
        BY <1>2, <2>2 DEF Same
      <4>3. d = c /\ k = n
        BY <4>1, <4>2, <1>1, <1>2 DEF Fits
      <4> QED
        BY <4>3
    <3> QED
      BY <3>1, <3>2
  <2>3. CASE ~ (s = ch[c][n].step /\ i = ch[c][n].exec)
    <3>1. h2[s][i] = h[s][i]
      BY <2>1, <2>3
    <3>2. UnderWay(ch2, s, i) => UnderWay(ch, s, i)
      <4> SUFFICES ASSUME NEW d \in Activities, NEW k \in DOMAIN ch2[d],
                          ch2[d][k].step = s, ch2[d][k].exec = i, ch2[d][k].at = "handler"
                   PROVE  UnderWay(ch, s, i)
        BY DEF UnderWay
      <4>1. ~ (d = c /\ k = n)
        OBVIOUS
      <4>2. k \in DOMAIN ch[d] /\ ch2[d][k] = ch[d][k]
        BY <4>1, StackFacts DEF Chains
      <4> QED
        BY <4>2 DEF UnderWay
    <3>3. UnderWay(ch, s, i) => UnderWay(ch2, s, i)
      <4> SUFFICES ASSUME NEW d \in Activities, NEW k \in DOMAIN ch[d],
                          ch[d][k].step = s, ch[d][k].exec = i, ch[d][k].at = "handler"
                   PROVE  UnderWay(ch2, s, i)
        BY DEF UnderWay
      <4>1. ~ (d = c /\ k = n)
        BY <2>3
      <4>2. k \in DOMAIN ch2[d] /\ ch2[d][k] = ch[d][k]
        BY <4>1, StackFacts DEF Chains
      <4> QED
        BY <4>2 DEF UnderWay
    <3> QED
      BY <3>1, <3>2, <3>3, <2>1 DEF Fits
  <2> QED
    BY <2>2, <2>3
<1> QED
  BY <1>3, <1>4, <1>5 DEF Fits

\* A new execution of s is recorded, and its handler is under way.
LEMMA HandlerPushed ==
  ASSUME NEW h, NEW h2, NEW ch \in Chains, NEW ch2 \in Chains, NEW c \in Activities,
         Fits(h, ch), NEW s \in DOMAIN h, NEW n \in Nat,
         DOMAIN h2 = DOMAIN h,
         DOMAIN h[s] = 1..n, DOMAIN h2[s] = 1..n + 1,
         \A t \in DOMAIN h : t # s => h2[t] = h[t],
         \A i \in 1..n : h2[s][i] = h[s][i],
         h2[s][n + 1] = "running",
         \A d \in Activities : d # c => ch2[d] = ch[d],
         Len(ch2[c]) = Len(ch[c]) + 1, \A k \in 1..Len(ch[c]) : ch2[c][k] = ch[c][k],
         NEW f, ch2[c][Len(ch[c]) + 1] = f,
         f.step = s, f.exec = n + 1, f.at = "handler"
  PROVE  Fits(h2, ch2)
<1> DEFINE top == Len(ch[c]) + 1
<1>1. /\ top \in DOMAIN ch2[c] /\ ch2[c][top] = f
      /\ \A d \in Activities : \A k \in DOMAIN ch2[d] :
           \/ k \in DOMAIN ch[d] /\ ch2[d][k] = ch[d][k]
           \/ d = c /\ k = top
      /\ \A d \in Activities : \A k \in DOMAIN ch[d] :
           k \in DOMAIN ch2[d] /\ ch2[d][k] = ch[d][k]
  <2>1. \A d \in Activities :
          /\ DOMAIN ch[d] = 1..Len(ch[d]) /\ Len(ch[d]) \in Nat
          /\ DOMAIN ch2[d] = 1..Len(ch2[d]) /\ Len(ch2[d]) \in Nat
    BY StackFacts DEF Chains
  <2>2. top \in DOMAIN ch2[c] /\ ch2[c][top] = f
    BY <2>1
  <2>3. ASSUME NEW d \in Activities, NEW k \in DOMAIN ch2[d]
        PROVE  \/ k \in DOMAIN ch[d] /\ ch2[d][k] = ch[d][k]
               \/ d = c /\ k = top
    <3>1. CASE d # c
      BY <3>1
    <3>2. CASE d = c /\ k # top
      <4>1. k \in 1..Len(ch[c])
        BY <2>1, <3>2
      <4> QED
        BY <2>1, <3>2, <4>1
    <3> QED
      BY <3>1, <3>2
  <2>4. ASSUME NEW d \in Activities, NEW k \in DOMAIN ch[d]
        PROVE  k \in DOMAIN ch2[d] /\ ch2[d][k] = ch[d][k]
    <3>1. CASE d # c
      BY <3>1
    <3>2. CASE d = c
      BY <2>1, <3>2
    <3> QED
      BY <3>1, <3>2
  <2> QED
    BY <2>2, <2>3, <2>4
<1> HIDE DEF top
<1>2. /\ \A t \in DOMAIN h : DOMAIN h[t] \subseteq DOMAIN h2[t]
      /\ \A t \in DOMAIN h : \A i \in DOMAIN h[t] : h2[t][i] = h[t][i]
      /\ \A t \in DOMAIN h : \A i \in DOMAIN h2[t] :
           i \in DOMAIN h[t] \/ (t = s /\ i = n + 1)
      /\ n + 1 \notin DOMAIN h[s]
      /\ n + 1 \in DOMAIN h2[s]
  OBVIOUS
<1>3. \A d \in Activities : \A k \in DOMAIN ch[d] :
        Working(ch[d][k]) => Recorded(h, ch[d][k]) /\ ~ Same(ch[d][k], f)
  BY <1>2 DEF Fits, Recorded, Same
<1>4. ASSUME NEW d \in Activities, NEW k \in DOMAIN ch2[d], Working(ch2[d][k])
      PROVE  Recorded(h2, ch2[d][k])
  <2>1. CASE d = c /\ k = top
    BY <1>1, <1>2, <2>1 DEF Recorded
  <2>2. CASE k \in DOMAIN ch[d] /\ ch2[d][k] = ch[d][k]
    BY <1>2, <1>3, <1>4, <2>2 DEF Recorded
  <2> QED
    BY <1>1, <2>1, <2>2
<1>5. ASSUME NEW b \in Activities, NEW d \in Activities,
             NEW k \in DOMAIN ch2[b], NEW l \in DOMAIN ch2[d],
             Working(ch2[b][k]), Working(ch2[d][l]), Same(ch2[b][k], ch2[d][l])
      PROVE  b = d /\ k = l
  <2>1. CASE k \in DOMAIN ch[b] /\ ch2[b][k] = ch[b][k] /\ l \in DOMAIN ch[d] /\ ch2[d][l] = ch[d][l]
    BY <1>5, <2>1 DEF Fits
  <2>2. CASE k \in DOMAIN ch[b] /\ ch2[b][k] = ch[b][k] /\ d = c /\ l = top
    BY <1>1, <1>3, <1>5, <2>2
  <2>3. CASE b = c /\ k = top /\ l \in DOMAIN ch[d] /\ ch2[d][l] = ch[d][l]
    BY <1>1, <1>3, <1>5, <2>3 DEF Same
  <2> QED
    BY <1>1, <2>1, <2>2, <2>3
<1>6. ASSUME NEW t \in DOMAIN h2, NEW i \in DOMAIN h2[t]
      PROVE  h2[t][i] = "running" <=> UnderWay(ch2, t, i)
  <2>1. CASE t = s /\ i = n + 1
    <3>1. UnderWay(ch2, t, i)
      BY <1>1, <2>1 DEF UnderWay
    <3> QED
      BY <3>1, <2>1
  <2>2. CASE ~ (t = s /\ i = n + 1)
    <3>1. t \in DOMAIN h /\ i \in DOMAIN h[t] /\ h2[t][i] = h[t][i]
      BY <1>2, <2>2
    <3>2. UnderWay(ch, t, i) => UnderWay(ch2, t, i)
      BY <1>1 DEF UnderWay
    <3>3. UnderWay(ch2, t, i) => UnderWay(ch, t, i)
      <4> SUFFICES ASSUME NEW d \in Activities, NEW k \in DOMAIN ch2[d],
                          ch2[d][k].step = t, ch2[d][k].exec = i, ch2[d][k].at = "handler"
                   PROVE  UnderWay(ch, t, i)
        BY DEF UnderWay
      <4>1. ~ (d = c /\ k = top)
        BY <1>1, <2>2
      <4>2. k \in DOMAIN ch[d] /\ ch2[d][k] = ch[d][k]
        BY <1>1, <4>1
      <4> QED
        BY <4>2 DEF UnderWay
    <3> QED
      BY <3>1, <3>2, <3>3 DEF Fits
  <2> QED
    BY <2>1, <2>2
<1> QED
  BY <1>4, <1>5, <1>6 DEF Fits
-----------------------------------------------------------------------------
(* Instances.                                                              *)
Status == {"running", "waiting_approval", "completed", "failed"}
Approvals == [stepId : Names, id : Nat, status : {"pending", "approved", "rejected"}]

\* The execution history of a workflow.
Histories(w) == [DOMAIN Definitions[w].steps -> Seq(Outcome)]

LEMMA HistoryFacts ==
  ASSUME NEW w, NEW h \in Histories(w)
  PROVE  /\ DOMAIN h = DOMAIN Definitions[w].steps
         /\ \A s \in DOMAIN h : h[s] \in Seq(Outcome) /\ Len(h[s]) \in Nat /\ DOMAIN h[s] = 1..Len(h[s])
BY DEF Histories

LEMMA NoInstanceIsNone ==
  ASSUME NEW x, IsInstance(x)
  PROVE  x # NoInstance
<1>1. DOMAIN NoInstance = {"status"}
  BY DEF NoInstance
<1>2. "workflowId" \in DOMAIN x
  BY DEF IsInstance
<1> QED
  BY <1>1, <1>2

\* Execution i of step s has the outcome v.
Settle(x, s, i, v) == [x EXCEPT !.executionHistory[s][i] = v]

LEMMA WithOutcome ==
  ASSUME NEW x, IsInstance(x), NEW s, NEW i, NEW v \in Outcome,
         s \in DOMAIN x.executionHistory, i \in DOMAIN x.executionHistory[s]
  PROVE  /\ IsInstance(Settle(x, s, i, v))
         /\ Settle(x, s, i, v).workflowId = x.workflowId
         /\ Settle(x, s, i, v).approvals = x.approvals
         /\ DOMAIN Settle(x, s, i, v).executionHistory = DOMAIN x.executionHistory
         /\ \A t \in DOMAIN x.executionHistory :
              DOMAIN Settle(x, s, i, v).executionHistory[t] = DOMAIN x.executionHistory[t]
         /\ \A t \in DOMAIN x.executionHistory : \A j \in DOMAIN x.executionHistory[t] :
              ~ (t = s /\ j = i) =>
                Settle(x, s, i, v).executionHistory[t][j] = x.executionHistory[t][j]
         /\ Settle(x, s, i, v).executionHistory[s][i] = v
<1> DEFINE y == Settle(x, s, i, v)
           h == x.executionHistory
           g == [h[s] EXCEPT ![i] = v]
           h2 == [h EXCEPT ![s] = g]
<1>1. h \in Histories(x.workflowId)
  BY DEF IsInstance, Histories
<1>2. y = [x EXCEPT !.executionHistory = h2]
  BY DEF Settle
<1> HIDE DEF y
<1>3. /\ DOMAIN y = DOMAIN x
      /\ y.executionHistory = h2
      /\ y.workflowId = x.workflowId /\ y.status = x.status /\ y.approvals = x.approvals
      /\ y.context = x.context /\ y.currentStep = x.currentStep
  BY <1>2 DEF IsInstance
<1>4. h[s] \in Seq(Outcome) /\ i \in 1..Len(h[s])
  BY <1>1, HistoryFacts
<1>5. /\ g \in Seq(Outcome)
      /\ Len(g) = Len(h[s])
      /\ \A j \in 1..Len(h[s]) : g[j] = IF j = i THEN v ELSE h[s][j]
  BY <1>4, ExceptSeq
<1>6. DOMAIN g = DOMAIN h[s]
  OBVIOUS
<1> HIDE DEF g
<1>7. /\ DOMAIN h2 = DOMAIN h
      /\ \A t \in DOMAIN h : h2[t] = IF t = s THEN g ELSE h[t]
  OBVIOUS
<1>8. h2 \in Histories(x.workflowId)
  BY <1>1, <1>5 DEF Histories
<1> HIDE DEF h2
<1>9. IsInstance(y)
  BY <1>3, <1>8 DEF IsInstance, Histories
<1>10. \A t \in DOMAIN h : DOMAIN h2[t] = DOMAIN h[t]
  BY <1>6, <1>7
<1>11. ASSUME NEW t \in DOMAIN h, NEW j \in DOMAIN h[t], ~ (t = s /\ j = i)
       PROVE  h2[t][j] = h[t][j]
  <2>1. CASE t # s
    BY <1>7, <2>1
  <2>2. CASE t = s
    <3>1. j \in 1..Len(h[s]) /\ j # i
      BY <1>1, <1>11, <2>2, HistoryFacts
    <3> QED
      BY <1>5, <1>7, <2>2, <3>1
  <2> QED
    BY <2>1, <2>2
<1>0. h2[s][i] = v
  BY <1>4, <1>5, <1>7
<1> QED
  BY <1>3, <1>7, <1>9, <1>10, <1>11, <1>0 DEF y

LEMMA OneMoreExecution ==
  ASSUME NEW w, NEW h \in Histories(w), NEW s \in DOMAIN h
  PROVE  /\ [h EXCEPT ![s] = Append(h[s], "running")] \in Histories(w)
         /\ Len(h[s]) + 1 \in Nat \ {0}
         /\ DOMAIN h[s] = 1..Len(h[s])
         /\ DOMAIN Append(h[s], "running") = 1..Len(h[s]) + 1
         /\ \A i \in 1..Len(h[s]) : Append(h[s], "running")[i] = h[s][i]
         /\ Append(h[s], "running")[Len(h[s]) + 1] = "running"
<1>1. h[s] \in Seq(Outcome) /\ Len(h[s]) \in Nat /\ "running" \in Outcome
  BY HistoryFacts DEF Outcome
<1>2. Append(h[s], "running") \in Seq(Outcome)
  BY <1>1
<1>3. [h EXCEPT ![s] = Append(h[s], "running")] \in Histories(w)
  BY <1>2 DEF Histories
<1> QED
  BY <1>1, <1>2, <1>3

\* Other fields change the status or the approvals only.
LEMMA WithStatus ==
  ASSUME NEW x, IsInstance(x), NEW v \in Status,
         NEW y, y = [x EXCEPT !.status = v]
  PROVE  /\ IsInstance(y)
         /\ y.workflowId = x.workflowId
         /\ y.approvals = x.approvals
         /\ y.executionHistory = x.executionHistory
BY DEF IsInstance, Status
-----------------------------------------------------------------------------
(* From one await to the next.                                             *)
TimerType == [kind : {"retry", "wait", "approval"}, step : Names, id : Nat]

\* Activity c continues on the instance, with stack waiting below it and these
\* timers.
Ready(c, inst, stack, tm) ==
  /\ c \in Activities
  /\ IsInstance(inst)
  /\ instance # NoInstance => inst.workflowId = instance.workflowId
  /\ stack \in Stacks
  /\ \A k \in DOMAIN stack :
       stack[k].at \in {"try", "catch"} /\ (~ stack[k].ok => faults > 0)
  /\ tm \subseteq TimerType
  /\ Fits(inst.executionHistory, [chains EXCEPT ![c] = stack])

PromptsFit == {prompts', faults, prompts' + faults} \subseteq 0..MaxEvents

\* Activity c awaits again, or has ended.
Moved(c) ==
  /\ TypeOK'
  /\ instance' # NoInstance
  /\ instance # NoInstance => instance'.workflowId = instance.workflowId
  /\ Fits(instance'.executionHistory, chains')
  /\ RefusalsAreFaults'
  /\ faults \in Nat /\ faults' \in Nat /\ faults <= faults'
  /\ \A d \in Activities : d # c => chains'[d] = chains[d]

LEMMA TypeFacts ==
  ASSUME TypeOK
  PROVE  /\ chains \in Chains
         /\ instance # NoInstance => IsInstance(instance)
         /\ timers \subseteq TimerType
         /\ prompts \in Nat /\ faults \in Nat
         /\ \A c \in Activities : \A k \in DOMAIN chains[c] :
              chains[c][k].at \in {"try", "catch"} <=> k < Len(chains[c])
BY DEF TypeOK, Chains, Stacks, TimerType

LEMMA OneMoreFits ==
  ASSUME NEW p \in Nat, NEW n \in Nat, NEW m \in Nat, p + n < m
  PROVE  /\ n + 1 \in 0..m /\ p + (n + 1) \in 0..m
         /\ n + 1 \in Nat /\ n <= n + 1 /\ n + 1 > 0
OBVIOUS

LEMMA IssueFacts ==
  ASSUME TypeOK, PromptsFit, NEW c \in Activities, NEW stack \in Stacks,
         NEW f \in FrameType, f.ok, Issue(c, stack, f)
  PROVE  \E g \in FrameType :
           /\ g.step = f.step /\ g.exec = f.exec /\ g.at = f.at
           /\ ~ g.ok => faults' > 0
           /\ chains' = [chains EXCEPT ![c] = Append(stack, g)]
           /\ {faults', prompts' + faults'} \subseteq 0..MaxEvents
           /\ faults \in Nat /\ faults' \in Nat /\ faults <= faults'
           /\ faults' = faults \/ faults' > 0
<1>1. faults \in Nat /\ prompts' \in Nat /\ MaxEvents \in Nat
  BY Bounds DEF PromptsFit
<1>2. CASE chains' = [chains EXCEPT ![c] = Append(stack, f)] /\ faults' = faults
  <2>1. {faults', prompts' + faults'} \subseteq 0..MaxEvents
    BY <1>2 DEF PromptsFit
  <2>2. faults' \in Nat /\ faults <= faults'
    BY <1>1, <1>2
  <2>3. ~ f.ok => faults' > 0
    OBVIOUS
  <2> QED
    BY <1>1, <1>2, <2>1, <2>2, <2>3
<1>3. CASE /\ prompts' + faults < MaxEvents
           /\ faults' = faults + 1
           /\ chains' = [chains EXCEPT ![c] = Append(stack, [f EXCEPT !.ok = FALSE])]
  <2> DEFINE g == [f EXCEPT !.ok = FALSE]
  <2>1. g \in FrameType /\ g.step = f.step /\ g.exec = f.exec /\ g.at = f.at
    BY DEF FrameType
  <2>2. /\ faults' \in 0..MaxEvents /\ prompts' + faults' \in 0..MaxEvents
        /\ faults' \in Nat /\ faults <= faults' /\ faults' > 0
    <3>1. prompts' + faults < MaxEvents /\ faults' = faults + 1
      BY <1>3
    <3> QED
      BY <1>1, <3>1, OneMoreFits
  <2> HIDE DEF g
  <2>3. chains' = [chains EXCEPT ![c] = Append(stack, g)]
    BY <1>3 DEF g
  <2> QED
    BY <1>1, <2>1, <2>2, <2>3
<1> QED
  BY <1>2, <1>3 DEF Issue

LEMMA PushMoves ==
  ASSUME TypeOK, RefusalsAreFaults, PromptsFit,
         NEW c, NEW inst, NEW stack, NEW tm, Ready(c, inst, stack, tm),
         NEW g \in FrameType, g.at \in {"handler", "save", "start"},
         ~ g.ok => faults' > 0,
         chains' = [chains EXCEPT ![c] = Append(stack, g)],
         {faults', prompts' + faults'} \subseteq 0..MaxEvents, faults <= faults',
         IsInstance(instance'), instance'.workflowId = inst.workflowId,
         Fits(instance'.executionHistory, chains'),
         stored' \in {stored, instance'}, lapsed' \in BOOLEAN,
         timers' \subseteq TimerType
  PROVE  Moved(c)
<1>1. /\ chains \in Chains /\ chains' \in Chains
      /\ c \in Activities /\ stack \in Stacks
      /\ \A d \in Activities : d # c => chains'[d] = chains[d]
      /\ Len(chains'[c]) = Len(stack) + 1
      /\ \A k \in 1..Len(stack) : chains'[c][k] = stack[k]
      /\ chains'[c][Len(stack) + 1] = g
  <2>1. chains \in Chains /\ c \in Activities /\ stack \in Stacks
    BY TypeFacts DEF Ready
  <2>2. /\ Append(stack, g) \in Stacks
        /\ Len(Append(stack, g)) = Len(stack) + 1
        /\ \A k \in 1..Len(stack) : Append(stack, g)[k] = stack[k]
        /\ Append(stack, g)[Len(stack) + 1] = g
    BY <2>1, Pushed
  <2>3. /\ chains'[c] = Append(stack, g) /\ chains' \in Chains
        /\ \A d \in Activities : d # c => chains'[d] = chains[d]
    BY <2>1, <2>2 DEF Chains
  <2> QED
    BY <2>1, <2>2, <2>3
<1>2. faults \in Nat /\ faults' \in Nat
  BY DEF PromptsFit
<1>3. \A d \in Activities : \A k \in DOMAIN chains'[d] :
        (chains'[d][k].at \in {"try", "catch"}) = (k < Len(chains'[d]))
  <2> SUFFICES ASSUME NEW d \in Activities, NEW k \in DOMAIN chains'[d]
               PROVE  (chains'[d][k].at \in {"try", "catch"}) = (k < Len(chains'[d]))
    OBVIOUS
  <2>1. CASE d # c
    BY <1>1, <2>1 DEF TypeOK
  <2>2. CASE d = c /\ k = Len(stack) + 1
    BY <1>1, <2>2
  <2>3. CASE d = c /\ k # Len(stack) + 1
    <3>1. k \in 1..Len(stack) /\ Len(stack) \in Nat
      BY <1>1, <2>3, StackFacts DEF Chains
    <3>2. stack[k].at \in {"try", "catch"}
      BY <1>1, <3>1, StackFacts DEF Ready
    <3> QED
      BY <1>1, <2>3, <3>1, <3>2
  <2> QED
    BY <2>1, <2>2, <2>3
<1>4. RefusalsAreFaults'
  <2> SUFFICES ASSUME NEW d \in Activities, NEW k \in DOMAIN chains'[d],
                      ~ chains'[d][k].ok
               PROVE  faults' > 0
    BY DEF RefusalsAreFaults
  <2>1. CASE d # c
    BY <1>1, <1>2, <2>1 DEF RefusalsAreFaults
  <2>2. CASE d = c /\ k = Len(stack) + 1
    BY <1>1, <2>2
  <2>3. CASE d = c /\ k # Len(stack) + 1
    <3>1. k \in 1..Len(stack)
      BY <1>1, <2>3, StackFacts DEF Chains
    <3>2. faults > 0
      BY <1>1, <2>3, <3>1, StackFacts DEF Ready
    <3> QED
      BY <1>2, <3>2
  <2> QED
    BY <2>1, <2>2, <2>3
<1>5. stored' = NoInstance \/ IsInstance(stored')
  BY DEF TypeOK
<1>6. TypeOK'
  <2>1. chains' \in [Activities -> Seq(FrameType)]
    BY <1>1 DEF Chains, Stacks
  <2>2. {prompts', faults', prompts' + faults'} \subseteq 0..MaxEvents
    BY DEF PromptsFit
  <2> QED
    BY <1>3, <1>5, <2>1, <2>2 DEF TypeOK, TimerType
<1>7. instance' # NoInstance
  BY NoInstanceIsNone
<1>8. instance # NoInstance => instance'.workflowId = instance.workflowId
  BY DEF Ready
<1> QED
  BY <1>1, <1>2, <1>4, <1>6, <1>7, <1>8 DEF Moved

LEMMA SaveMoves ==
  ASSUME TypeOK, RefusalsAreFaults, PromptsFit,
         NEW c, NEW inst, NEW stack, NEW tm, Ready(c, inst, stack, tm),
         NEW f \in FrameType, f.at \in {"save", "start"}, f.ok,
         Save(c, inst, stack, f, tm)
  PROVE  Moved(c) /\ instance' = inst /\ (stored' = instance' \/ faults' > 0)
<1>1. c \in Activities /\ stack \in Stacks /\ IsInstance(inst) /\ tm \subseteq TimerType
  BY DEF Ready
<1>2. /\ instance' = inst /\ timers' = tm /\ Issue(c, stack, f)
      /\ stored' \in IF faults' = faults THEN {inst} ELSE {stored, inst}
      /\ lapsed' = (lapsed /\ stored' = NoInstance)
  BY DEF Save
<1>3. PICK g \in FrameType :
        /\ g.at = f.at
        /\ ~ g.ok => faults' > 0
        /\ chains' = [chains EXCEPT ![c] = Append(stack, g)]
        /\ {faults', prompts' + faults'} \subseteq 0..MaxEvents
        /\ faults <= faults'
        /\ faults' = faults \/ faults' > 0
  BY <1>1, <1>2, IssueFacts
<1>4. Fits(instance'.executionHistory, chains')
  <2> DEFINE v == [chains EXCEPT ![c] = stack]
  <2>1. /\ chains \in Chains
        /\ v \in Chains /\ v[c] = stack
        /\ \A d \in Activities : d # c => v[d] = chains[d]
    BY <1>1, TypeFacts DEF Chains
  <2>2. Fits(inst.executionHistory, v)
    BY DEF Ready
  <2> HIDE DEF v
  <2>3. /\ chains' \in Chains
        /\ \A d \in Activities : d # c => chains'[d] = chains[d]
        /\ Len(chains'[c]) = Len(stack) + 1
        /\ \A k \in 1..Len(stack) : chains'[c][k] = stack[k]
        /\ chains'[c][Len(stack) + 1] = g
    <3>1. /\ Append(stack, g) \in Stacks
          /\ Len(Append(stack, g)) = Len(stack) + 1
          /\ \A k \in 1..Len(stack) : Append(stack, g)[k] = stack[k]
          /\ Append(stack, g)[Len(stack) + 1] = g
      BY <1>1, Pushed
    <3>2. /\ chains'[c] = Append(stack, g) /\ chains' \in Chains
          /\ \A d \in Activities : d # c => chains'[d] = chains[d]
      BY <1>1, <1>3, <2>1, <3>1 DEF Chains
    <3> QED
      BY <3>1, <3>2
  <2>4. \A d \in Activities : d # c => chains'[d] = v[d]
    BY <2>1, <2>3
  <2>5. /\ Len(chains'[c]) = Len(v[c]) + 1
        /\ \A k \in 1..Len(v[c]) : chains'[c][k] = v[c][k]
        /\ chains'[c][Len(v[c]) + 1].at \in {"save", "start"}
    BY <1>3, <2>1, <2>3
  <2> QED
    BY <1>1, <1>2, <2>1, <2>2, <2>3, <2>4, <2>5, SavePushed
<1>5. stored' = instance' \/ faults' > 0
  BY <1>2, <1>3
<1>6. stored' \in {stored, instance'} /\ lapsed' \in BOOLEAN
  BY <1>2 DEF TypeOK
<1> QED
  BY <1>1, <1>2, <1>3, <1>4, <1>5, <1>6, PushMoves

\* The part of Ready that does not depend on the stack.
LEMMA ReadyFacts ==
  ASSUME TypeOK, NEW c, NEW inst, NEW stack, NEW tm, Ready(c, inst, stack, tm)
  PROVE  /\ chains \in Chains /\ c \in Activities /\ stack \in Stacks
         /\ IsInstance(inst) /\ tm \subseteq TimerType
         /\ instance # NoInstance => inst.workflowId = instance.workflowId
         /\ \A k \in DOMAIN stack :
              stack[k].at \in {"try", "catch"} /\ (~ stack[k].ok => faults > 0)
         /\ Fits(inst.executionHistory, [chains EXCEPT ![c] = stack])
BY TypeFacts DEF Ready

\* An activity has ended: nothing is saved.
LEMMA EndMoves ==
  ASSUME TypeOK, RefusalsAreFaults, PromptsFit,
         NEW c, NEW inst, NEW tm, Ready(c, inst, <<>>, tm),
         instance' = inst, timers' = tm, chains' = [chains EXCEPT ![c] = <<>>],
         UNCHANGED <<stored, lapsed, faults>>
  PROVE  Moved(c)
<1>1. /\ chains \in Chains /\ c \in Activities
      /\ IsInstance(inst) /\ tm \subseteq TimerType
      /\ instance # NoInstance => inst.workflowId = instance.workflowId
      /\ Fits(inst.executionHistory, [chains EXCEPT ![c] = <<>>])
  BY ReadyFacts
<1>2. <<>> \in Stacks /\ DOMAIN <<>> = {}
  BY EmptySeq DEF Stacks
<1>3. /\ chains'[c] = <<>> /\ chains' \in Chains
      /\ \A d \in Activities : d # c => chains'[d] = chains[d]
  BY <1>1, <1>2 DEF Chains
<1>4. \A d \in Activities : \A k \in DOMAIN chains'[d] :
        k \in DOMAIN chains[d] /\ chains'[d] = chains[d]
  BY <1>2, <1>3
<1>5. faults \in Nat /\ faults' = faults
  BY DEF PromptsFit
<1>6. {prompts', faults', prompts' + faults'} \subseteq 0..MaxEvents
  BY DEF PromptsFit
<1>7. RefusalsAreFaults'
  BY <1>4, <1>5 DEF RefusalsAreFaults
<1>8. TypeOK'
  BY <1>1, <1>3, <1>4, <1>6 DEF TypeOK, TimerType, Chains, Stacks
<1>9. instance' # NoInstance
  BY <1>1, NoInstanceIsNone
<1> QED
  BY <1>1, <1>3, <1>5, <1>7, <1>8, <1>9 DEF Moved

LEMMA FramesAreTyped ==
  ASSUME NEW s \in Names \cup {None}, NEW i \in Nat,
         NEW at \in {"handler", "try", "catch", "save", "start"}
  PROVE  /\ Frame(s, i, at) \in FrameType
         /\ Frame(s, i, at).step = s /\ Frame(s, i, at).exec = i
         /\ Frame(s, i, at).at = at /\ Frame(s, i, at).ok
BY DEF Frame, FrameType

\* The frame above has returned, and the frame below saves.
LEMMA PopReady ==
  ASSUME TypeOK, NEW c, NEW inst, NEW stack, NEW tm, Ready(c, inst, stack, tm),
         stack # <<>>
  PROVE  Ready(c, inst, Front(stack), tm)
<1>1. /\ chains \in Chains /\ c \in Activities /\ stack \in Stacks
      /\ Fits(inst.executionHistory, [chains EXCEPT ![c] = stack])
      /\ \A k \in DOMAIN stack :
           stack[k].at \in {"try", "catch"} /\ (~ stack[k].ok => faults > 0)
  BY ReadyFacts
<1>2. /\ Front(stack) \in Stacks
      /\ Len(Front(stack)) = Len(stack) - 1
      /\ \A k \in 1..Len(stack) - 1 : Front(stack)[k] = stack[k]
      /\ Len(stack) \in Nat \ {0}
      /\ DOMAIN stack = 1..Len(stack) /\ DOMAIN Front(stack) = 1..Len(stack) - 1
  <2>1. Front(stack) \in Stacks
    BY <1>1, Popped
  <2> QED
    BY <1>1, <2>1, Popped, StackFacts
<1>3. \A k \in DOMAIN Front(stack) : k \in DOMAIN stack /\ Front(stack)[k] = stack[k]
  BY <1>2
<1>4. Fits(inst.executionHistory, [chains EXCEPT ![c] = Front(stack)])
  <2> DEFINE v == [chains EXCEPT ![c] = stack]
             w == [chains EXCEPT ![c] = Front(stack)]
  <2>1. /\ v \in Chains /\ v[c] = stack
        /\ \A d \in Activities : d # c => v[d] = chains[d]
    BY <1>1 DEF Chains
  <2>2. /\ w \in Chains /\ w[c] = Front(stack)
        /\ \A d \in Activities : d # c => w[d] = chains[d]
    BY <1>1, <1>2 DEF Chains
  <2>3. Fits(inst.executionHistory, v)
    BY <1>1
  <2> HIDE DEF v, w
  <2>4. \A k \in DOMAIN v[c] : v[c][k].at # "handler"
    BY <1>1, <2>1
  <2>5. \A d \in Activities : d # c => w[d] = v[d]
    BY <2>1, <2>2
  <2> DEFINE n == Len(stack) - 1
  <2>6. n \in 0..Len(v[c]) /\ Len(w[c]) = n /\ \A k \in 1..n : w[c][k] = v[c][k]
    BY <1>2, <2>1, <2>2
  <2> HIDE DEF n
  <2>7. Fits(inst.executionHistory, w)
    BY <1>1, <2>1, <2>2, <2>3, <2>4, <2>5, <2>6, Dropped
  <2> QED
    BY <2>7 DEF w
<1> QED
  BY <1>1, <1>2, <1>3, <1>4 DEF Ready

LEMMA ReturnMoves ==
  ASSUME TypeOK, RefusalsAreFaults, PromptsFit,
         NEW c, NEW inst, NEW stack, NEW tm, Ready(c, inst, stack, tm),
         Return(c, inst, stack, tm)
  PROVE  /\ Moved(c) /\ instance' = inst
         /\ \/ stack = <<>> /\ UNCHANGED <<stored, lapsed, faults>>
            \/ stack # <<>> /\ (stored' = instance' \/ faults' > 0)
<1>1. CASE stack = <<>>
  <2>1. /\ instance' = inst /\ timers' = tm
        /\ chains' = [chains EXCEPT ![c] = <<>>] /\ UNCHANGED <<stored, lapsed, faults>>
    BY <1>1 DEF Return
  <2>2. Ready(c, inst, <<>>, tm)
    BY <1>1
  <2>3. Moved(c)
    BY <2>1, <2>2, EndMoves
  <2> QED
    BY <1>1, <2>1, <2>3
<1>2. CASE stack # <<>>
  <2> DEFINE f == Frame(Last(stack).step, Last(stack).exec, "save")
  <2>1. Save(c, inst, Front(stack), f, tm)
    BY <1>2 DEF Return
  <2>2. Last(stack) \in FrameType
    BY <1>2, ReadyFacts, StackFacts
  <2>3. f \in FrameType /\ f.at = "save" /\ f.ok
    BY <2>2, FramesAreTyped DEF FrameType
  <2> HIDE DEF f
  <2>4. Ready(c, inst, Front(stack), tm)
    BY <1>2, PopReady
  <2> QED
    BY <1>2, <2>1, <2>3, <2>4, SaveMoves
<1> QED
  BY <1>1, <1>2

LEMMA StepsAreTyped ==
  ASSUME NEW w \in DOMAIN Definitions, NEW s \in DOMAIN Definitions[w].steps
  PROVE  /\ s \in Names
         /\ Definitions[w].steps[s].type \in StepType
         /\ Definitions[w].steps[s].retryCount \in Nat
BY EngineAssumption DEF Names

LEMMA ExecuteMoves ==
  ASSUME TypeOK, RefusalsAreFaults, PromptsFit, instance # NoInstance,
         NEW c, NEW inst, NEW stack, NEW tm, Ready(c, inst, stack, tm),
         NEW s, ExecuteStep(c, inst, stack, tm, s)
  PROVE  /\ Moved(c)
         /\ inst.approvals \subseteq instance'.approvals
         /\ \/ stored' = instance' \/ faults' > 0 \/ HandlerUnderWay'
            \/ /\ ~ Known(s) /\ stack = <<>> /\ instance' = inst
               /\ UNCHANGED <<stored, lapsed, faults>>
<1> DEFINE i == Len(inst.executionHistory[s]) + 1
           type == Steps[s].type
           f == Frame(s, i, "handler")
<1>1. /\ chains \in Chains /\ c \in Activities /\ stack \in Stacks
      /\ IsInstance(inst) /\ tm \subseteq TimerType
      /\ inst.workflowId = instance.workflowId
      /\ Fits(inst.executionHistory, [chains EXCEPT ![c] = stack])
  BY ReadyFacts
<1>2. CASE ~ Known(s)
  <2>1. Return(c, inst, stack, tm)
    BY <1>2 DEF ExecuteStep
  <2> HIDE DEF i, type, f
  <2>2. Moved(c) /\ instance' = inst
        /\ (\/ stack = <<>> /\ UNCHANGED <<stored, lapsed, faults>>
            \/ stored' = instance' \/ faults' > 0)
    BY <2>1, ReturnMoves
  <2> QED
    BY <1>2, <2>2
<1>3. CASE Known(s)
  <2>1. /\ instance' = [inst EXCEPT
               !.executionHistory[s] = Append(@, "running"),
               !.currentStep = s,
               !.status = IF type \in {"wait", "manual"}
                          THEN "waiting_approval" ELSE @,
               !.approvals = IF type = "manual"
                             THEN @ \cup {Approval(s, i, "pending")} ELSE @]
        /\ timers' = IF type = "wait" THEN tm \cup {Timer("wait", s, i)} ELSE tm
        /\ IF type \in {"manual", "notification"}
           THEN Issue(c, stack, f)
           ELSE chains' = [chains EXCEPT ![c] = Append(stack, f)] /\ faults' = faults
        /\ stored' = stored /\ lapsed' = lapsed
    BY <1>3 DEF ExecuteStep
  <2>2. s \in DOMAIN inst.executionHistory /\ s \in Names
    <3>1. s \in DOMAIN Definitions[inst.workflowId].steps
      BY <1>1, <1>3 DEF Known, Steps
    <3>2. inst.workflowId \in DOMAIN Definitions
          /\ inst.executionHistory \in Histories(inst.workflowId)
      BY <1>1 DEF IsInstance, Histories
    <3> QED
      BY <3>1, <3>2, HistoryFacts, StepsAreTyped
  <2>3. /\ inst.executionHistory \in Histories(inst.workflowId)
        /\ inst.workflowId \in DOMAIN Definitions
        /\ inst.approvals \subseteq Approvals
        /\ inst.status \in Status /\ inst.context \in BOOLEAN
    BY <1>1 DEF IsInstance, Histories, Approvals, Status
  <2> DEFINE h == inst.executionHistory
             es == Append(h[s], "running")
             h2 == [h EXCEPT ![s] = es]
             st == IF type \in {"wait", "manual"} THEN "waiting_approval" ELSE inst.status
             ap == IF type = "manual"
                   THEN inst.approvals \cup {Approval(s, i, "pending")}
                   ELSE inst.approvals
  <2>4. /\ IsInstance(instance')
        /\ i \in Nat \ {0}
        /\ instance'.workflowId = inst.workflowId
        /\ inst.approvals \subseteq instance'.approvals
        /\ DOMAIN instance'.executionHistory = DOMAIN inst.executionHistory
        /\ \A t \in DOMAIN inst.executionHistory :
             t # s => instance'.executionHistory[t] = inst.executionHistory[t]
        /\ DOMAIN instance'.executionHistory[s] = 1..i
        /\ DOMAIN inst.executionHistory[s] = 1..i - 1
        /\ \A j \in 1..i - 1 :
             instance'.executionHistory[s][j] = inst.executionHistory[s][j]
        /\ instance'.executionHistory[s][i] = "running"
    <3>1. /\ h2 \in Histories(inst.workflowId)
          /\ i \in Nat \ {0}
          /\ DOMAIN h[s] = 1..Len(h[s])
          /\ DOMAIN es = 1..i
          /\ \A j \in 1..Len(h[s]) : es[j] = h[s][j]
          /\ es[i] = "running"
      BY <2>2, <2>3, OneMoreExecution
    <3>2. i - 1 = Len(h[s])
      BY <2>2, <2>3, HistoryFacts
    <3>3. st \in Status
      BY <2>3 DEF Status
    <3>4. ap \subseteq Approvals /\ inst.approvals \subseteq ap
      BY <2>2, <2>3, <3>1 DEF Approvals, Approval
    <3>5. instance' = [inst EXCEPT !.executionHistory = h2, !.currentStep = s,
                                   !.status = st, !.approvals = ap]
      BY <2>1
    <3>6. /\ DOMAIN h2 = DOMAIN h /\ h2[s] = es
          /\ \A t \in DOMAIN h : t # s => h2[t] = h[t]
      BY <2>2
    <3> HIDE DEF h2, es, st, ap, i, type
    <3>7. /\ DOMAIN instance' = DOMAIN inst
          /\ instance'.executionHistory = h2
          /\ instance'.workflowId = inst.workflowId /\ instance'.status = st
          /\ instance'.approvals = ap
          /\ instance'.context = inst.context /\ instance'.currentStep = s
      BY <1>1, <3>5 DEF IsInstance
    <3>8. s \in DOMAIN Definitions[inst.workflowId].steps
      BY <2>2, <2>3, HistoryFacts
    <3>9. IsInstance(instance')
      BY <1>1, <2>3, <3>1, <3>3, <3>4, <3>7, <3>8
      DEF IsInstance, Histories, Status, Approvals
    <3> QED
      BY <3>1, <3>2, <3>4, <3>6, <3>7, <3>9
  <2> HIDE DEF i, type, h, es, h2, st, ap
  <2>5. /\ f \in FrameType /\ f.step = s /\ f.exec = i /\ f.at = "handler" /\ f.ok
    BY <2>2, <2>4, FramesAreTyped
  <2> HIDE DEF f
  <2>6. PICK g \in FrameType :
          /\ g.step = s /\ g.exec = i /\ g.at = "handler"
          /\ ~ g.ok => faults' > 0
          /\ chains' = [chains EXCEPT ![c] = Append(stack, g)]
          /\ {faults', prompts' + faults'} \subseteq 0..MaxEvents
          /\ faults <= faults'
    <3>1. CASE Issue(c, stack, f)
      BY <1>1, <2>5, <3>1, IssueFacts
    <3>2. CASE chains' = [chains EXCEPT ![c] = Append(stack, f)] /\ faults' = faults
      <4>1. {faults', prompts' + faults'} \subseteq 0..MaxEvents
        BY <3>2 DEF PromptsFit
      <4>2. faults <= faults'
        <5>1. faults \in Nat
          BY DEF PromptsFit
        <5> QED
          BY <3>2, <5>1
      <4> QED
        BY <2>5, <3>2, <4>1, <4>2
    <3> QED
      BY <2>1, <3>1, <3>2
  <2> DEFINE v == [chains EXCEPT ![c] = stack]
  <2>7. /\ v \in Chains /\ v[c] = stack
        /\ \A d \in Activities : d # c => v[d] = chains[d]
    BY <1>1 DEF Chains
  <2>8. Fits(inst.executionHistory, v)
    BY <1>1
  <2> HIDE DEF v
  <2>9. /\ chains' \in Chains
        /\ \A d \in Activities : d # c => chains'[d] = chains[d]
        /\ Len(chains'[c]) = Len(stack) + 1
        /\ \A k \in 1..Len(stack) : chains'[c][k] = stack[k]
        /\ chains'[c][Len(stack) + 1] = g
    <3>1. /\ Append(stack, g) \in Stacks
          /\ Len(Append(stack, g)) = Len(stack) + 1
          /\ \A k \in 1..Len(stack) : Append(stack, g)[k] = stack[k]
          /\ Append(stack, g)[Len(stack) + 1] = g
      BY <1>1, Pushed
    <3>2. /\ chains'[c] = Append(stack, g) /\ chains' \in Chains
          /\ \A d \in Activities : d # c => chains'[d] = chains[d]
      BY <1>1, <2>6, <3>1 DEF Chains
    <3> QED
      BY <3>1, <3>2
  <2>10. /\ \A d \in Activities : d # c => chains'[d] = v[d]
         /\ Len(chains'[c]) = Len(v[c]) + 1
         /\ \A k \in 1..Len(v[c]) : chains'[c][k] = v[c][k]
         /\ chains'[c][Len(v[c]) + 1] = g
    BY <2>7, <2>9
  <2>11. Fits(instance'.executionHistory, chains')
    <3> DEFINE n == i - 1
    <3>1. n \in Nat /\ n + 1 = i
      BY <2>4
    <3>2. /\ DOMAIN inst.executionHistory[s] = 1..n
          /\ DOMAIN instance'.executionHistory[s] = 1..n + 1
          /\ \A j \in 1..n :
             instance'.executionHistory[s][j] = inst.executionHistory[s][j]
          /\ instance'.executionHistory[s][n + 1] = "running"
          /\ g.exec = n + 1
      BY <2>4, <2>6, <3>1
    <3> HIDE DEF n
    <3> DEFINE x == inst.executionHistory
               y == instance'.executionHistory
               w == chains'
    <3>3. /\ DOMAIN y = DOMAIN x /\ s \in DOMAIN x
          /\ DOMAIN x[s] = 1..n /\ DOMAIN y[s] = 1..n + 1
          /\ \A t \in DOMAIN x : t # s => y[t] = x[t]
          /\ \A j \in 1..n : y[s][j] = x[s][j]
          /\ y[s][n + 1] = "running"
      BY <2>2, <2>4, <3>2
    <3>4. /\ v \in Chains /\ w \in Chains /\ Fits(x, v)
          /\ \A d \in Activities : d # c => w[d] = v[d]
          /\ Len(w[c]) = Len(v[c]) + 1
          /\ \A k \in 1..Len(v[c]) : w[c][k] = v[c][k]
          /\ w[c][Len(v[c]) + 1] = g
          /\ g.step = s /\ g.exec = n + 1 /\ g.at = "handler"
      BY <2>6, <2>7, <2>8, <2>9, <2>10, <3>2
    <3> HIDE DEF x, y, w
    <3>5. Fits(y, w)
      BY <1>1, <3>1, <3>3, <3>4, HandlerPushed
    <3> QED
      BY <3>5 DEF y, w
  <2>12. timers' \subseteq TimerType
    BY <1>1, <2>1, <2>2, <2>4 DEF TimerType, Timer
  <2>13. Moved(c)
    <3>1. stored' \in {stored, instance'} /\ lapsed' \in BOOLEAN
      BY <2>1 DEF TypeOK
    <3>2. {faults', prompts' + faults'} \subseteq 0..MaxEvents /\ faults <= faults'
      BY <2>6
    <3> QED
      BY <2>4, <2>6, <2>11, <2>12, <3>1, <3>2, PushMoves
  <2>14. HandlerUnderWay'
    <3>1. Len(stack) + 1 \in DOMAIN chains'[c]
      BY <1>1, <2>9, StackFacts DEF Chains
    <3> QED
      BY <1>1, <2>6, <2>9, <3>1 DEF HandlerUnderWay
  <2> QED
    BY <2>4, <2>13, <2>14
<1> QED
  BY <1>2, <1>3

LEMMA FinishMoves ==
  ASSUME TypeOK, RefusalsAreFaults, PromptsFit,
         NEW c, NEW inst, NEW stack, NEW tm, Ready(c, inst, stack, tm),
         NEW status \in Status, Finish(c, inst, stack, tm, status)
  PROVE  /\ Moved(c)
         /\ inst.approvals \subseteq instance'.approvals
         /\ stored' = instance' \/ faults' > 0
<1> DEFINE y == [inst EXCEPT !.status = status]
           f == Frame(None, 0, "save")
<1>1. Save(c, y, stack, f, tm)
  BY DEF Finish
<1>2. f \in FrameType /\ f.at = "save" /\ f.ok
  BY FramesAreTyped
<1>3. /\ chains \in Chains /\ c \in Activities /\ stack \in Stacks
      /\ IsInstance(inst) /\ tm \subseteq TimerType
      /\ instance # NoInstance => inst.workflowId = instance.workflowId
      /\ \A k \in DOMAIN stack :
           stack[k].at \in {"try", "catch"} /\ (~ stack[k].ok => faults > 0)
      /\ Fits(inst.executionHistory, [chains EXCEPT ![c] = stack])
  BY ReadyFacts
<1>4. /\ IsInstance(y) /\ y.workflowId = inst.workflowId
      /\ y.approvals = inst.approvals
      /\ y.executionHistory = inst.executionHistory
  BY <1>3 DEF IsInstance, Status
<1> HIDE DEF y, f
<1>5. Ready(c, y, stack, tm)
  BY <1>3, <1>4 DEF Ready
<1> QED
  BY <1>1, <1>2, <1>4, <1>5, SaveMoves

LEMMA WorkingIsKnown ==
  ASSUME TypeOK, instance # NoInstance, Fits(instance.executionHistory, chains),
         NEW c \in Activities, NEW n \in DOMAIN chains[c], Working(chains[c][n])
  PROVE  /\ Known(chains[c][n].step)
         /\ chains[c][n].step \in Names /\ chains[c][n].exec \in Nat
<1> DEFINE f == chains[c][n]
           h == instance.executionHistory
<1>1. IsInstance(instance) /\ f \in FrameType
  BY TypeFacts, StackFacts DEF Chains
<1>2. f.step \in DOMAIN h
  BY DEF Fits, Recorded
<1>3. h \in Histories(instance.workflowId) /\ instance.workflowId \in DOMAIN Definitions
  BY <1>1 DEF IsInstance, Histories
<1>4. f.step \in DOMAIN Definitions[instance.workflowId].steps
  BY <1>2, <1>3, HistoryFacts
<1>5. f.exec \in Nat
  BY <1>1 DEF FrameType
<1> QED
  BY <1>3, <1>4, <1>5, StepsAreTyped DEF Known, Steps

\* The execution of frame n, now on top, has an outcome.
LEMMA SettledReady ==
  ASSUME TypeOK, RefusalsAreFaults, instance # NoInstance,
         Fits(instance.executionHistory, chains),
         NEW c \in Activities, NEW n \in 1..Len(chains[c]), Working(chains[c][n]),
         \A k \in DOMAIN chains[c] : k > n => chains[c][k].at # "handler",
         NEW stack \in Stacks, Len(stack) = n,
         \A k \in 1..n - 1 : stack[k] = chains[c][k],
         Same(stack[n], chains[c][n]), stack[n].at \in {"try", "catch"},
         stack[n].ok = chains[c][n].ok,
         NEW v \in Outcome, v # "running",
         NEW tm, tm \subseteq TimerType
  PROVE  /\ Ready(c, Settle(instance, chains[c][n].step, chains[c][n].exec, v), stack, tm)
         /\ Settle(instance, chains[c][n].step, chains[c][n].exec, v).approvals
              = instance.approvals
<1> DEFINE f == chains[c][n]
           inst == Settle(instance, f.step, f.exec, v)
           h == instance.executionHistory
           h2 == inst.executionHistory
           w == [chains EXCEPT ![c] = stack]
<1>1. /\ chains \in Chains /\ IsInstance(instance)
      /\ n \in DOMAIN chains[c] /\ f \in FrameType
      /\ DOMAIN chains[c] = 1..Len(chains[c]) /\ Len(chains[c]) \in Nat
  BY TypeFacts, StackFacts DEF Chains
<1>2. f.step \in DOMAIN h /\ f.exec \in DOMAIN h[f.step]
  BY <1>1 DEF Fits, Recorded
<1>3. /\ IsInstance(inst)
      /\ inst.workflowId = instance.workflowId
      /\ inst.approvals = instance.approvals
      /\ DOMAIN h2 = DOMAIN h
      /\ \A t \in DOMAIN h : DOMAIN h2[t] = DOMAIN h[t]
      /\ \A t \in DOMAIN h : \A j \in DOMAIN h[t] :
           ~ (t = f.step /\ j = f.exec) => h2[t][j] = h[t][j]
      /\ h2[f.step][f.exec] = v
  BY <1>1, <1>2, WithOutcome
<1>5. /\ w \in Chains /\ w[c] = stack
      /\ \A d \in Activities : d # c => w[d] = chains[d]
  BY <1>1 DEF Chains
<1> HIDE DEF f, inst, w
<1>6. Fits(h2, w)
  <2> HIDE DEF h, h2
  <2> DEFINE ch == chains
  <2>1. /\ Same(w[c][n], ch[c][n]) /\ w[c][n].at \in {"try", "catch"}
        /\ Len(w[c]) = n /\ \A k \in 1..n - 1 : w[c][k] = ch[c][k]
        /\ \A d \in Activities : d # c => w[d] = ch[d]
        /\ ch \in Chains /\ w \in Chains /\ n \in 1..Len(ch[c])
        /\ \A k \in DOMAIN ch[c] : k > n => ch[c][k].at # "handler"
    BY <1>1, <1>5
  <2>2. /\ Fits(h, ch) /\ Working(ch[c][n]) /\ DOMAIN h2 = DOMAIN h
        /\ \A t \in DOMAIN h : DOMAIN h2[t] = DOMAIN h[t]
        /\ \A t \in DOMAIN h : \A j \in DOMAIN h[t] :
             ~ (t = ch[c][n].step /\ j = ch[c][n].exec) => h2[t][j] = h[t][j]
        /\ h2[ch[c][n].step][ch[c][n].exec] # "running"
    BY <1>3 DEF f, h, h2
  <2> HIDE DEF ch
  <2> QED
    BY <2>1, <2>2, Settled
<1>7. \A k \in DOMAIN stack :
        stack[k].at \in {"try", "catch"} /\ (~ stack[k].ok => faults > 0)
  <2> SUFFICES ASSUME NEW k \in DOMAIN stack
               PROVE  stack[k].at \in {"try", "catch"} /\ (~ stack[k].ok => faults > 0)
    OBVIOUS
  <2>1. k \in 1..n /\ k \in DOMAIN chains[c]
    BY <1>1, StackFacts
  <2>2. CASE k = n
    BY <1>1, <2>2 DEF RefusalsAreFaults
  <2>3. CASE k # n
    <3>1. k \in 1..n - 1 /\ k < Len(chains[c])
      BY <1>1, <2>1, <2>3
    <3>2. stack[k] = chains[c][k]
      BY <3>1
    <3>3. chains[c][k].at \in {"try", "catch"}
      BY <2>1, <3>1, TypeFacts
    <3>4. ~ chains[c][k].ok => faults > 0
      BY <2>1 DEF RefusalsAreFaults
    <3> QED
      BY <3>2, <3>3, <3>4
  <2> QED
    BY <2>2, <2>3
<1>8. Ready(c, inst, stack, tm)
  BY <1>3, <1>6, <1>7 DEF Ready, w
<1> QED
  BY <1>3, <1>8 DEF inst, f

\* What an activity leaves unsaved, a handler under way will save.
Accounted ==
  \/ stored' = instance' \/ Expired'
  \/ faults' > 0 \/ HandlerUnderWay' \/ SomeStranded'

\* The rejection of a call ends in the catch block of frame n.
LEMMA CatchMoves ==
  ASSUME TypeOK, RefusalsAreFaults, PromptsFit, instance # NoInstance,
         Fits(instance.executionHistory, chains),
         NEW c \in Activities, NEW n \in 1..Len(chains[c]), Working(chains[c][n]),
         \A k \in DOMAIN chains[c] : k > n => chains[c][k].at # "handler",
         NEW st \in Stacks, Len(st) = n, \A k \in 1..n : st[k] = chains[c][k],
         Catch(c, instance, st, timers)
  PROVE  Moved(c) /\ Accounted
<1> DEFINE f == Last(st)
           failed == Settle(instance, f.step, f.exec, "failed")
           caught == [f EXCEPT !.at = "catch"]
           handling == Append(Front(st), caught)
<1>1. /\ chains \in Chains /\ IsInstance(instance) /\ timers \subseteq TimerType
      /\ chains[c] \in Stacks /\ Len(chains[c]) \in Nat /\ n \in Nat \ {0}
      /\ n \in DOMAIN chains[c]
  BY TypeFacts, StackFacts DEF Chains
<1>2. st # <<>> /\ f = chains[c][n] /\ f \in FrameType
  <2>1. st # <<>>
    BY <1>1, EmptySeq
  <2> QED
    BY <1>1, <2>1, StackFacts
<1>3. Known(f.step) /\ f.step \in Names /\ f.exec \in Nat
  BY <1>1, <1>2, WorkingIsKnown
<1>4. caught \in FrameType /\ Same(caught, f) /\ caught.at = "catch" /\ caught.ok = f.ok
  BY <1>2 DEF FrameType, Same
<1>5. /\ handling \in Stacks /\ Len(handling) = n /\ handling # <<>>
      /\ \A k \in 1..n - 1 : handling[k] = chains[c][k]
      /\ handling[n] = caught
  <2> HIDE DEF caught
  <2>1. /\ Front(st) \in Stacks /\ Len(Front(st)) = n - 1
        /\ \A k \in 1..n - 1 : Front(st)[k] = st[k]
    BY <1>2, Popped
  <2>2. /\ Append(Front(st), caught) \in Stacks
        /\ Len(Append(Front(st), caught)) = Len(Front(st)) + 1
        /\ \A k \in 1..Len(Front(st)) : Append(Front(st), caught)[k] = Front(st)[k]
        /\ Append(Front(st), caught)[Len(Front(st)) + 1] = caught
        /\ Append(Front(st), caught) # <<>>
    BY <1>4, <2>1, Pushed
  <2> QED
    BY <1>1, <2>1, <2>2
<1> DEFINE later == timers \cup {Timer("retry", f.step, f.exec)}
<1>6. later \subseteq TimerType
  BY <1>1, <1>3 DEF TimerType, Timer
<1>7. \/ Return(c, failed, handling, later)
      \/ ExecuteStep(c, failed, handling, timers, Steps[f.step].onFailure)
      \/ Finish(c, failed, handling, timers, "failed")
  BY DEF Catch, Settle
<1> HIDE DEF f, failed, caught, handling, later
<1>8. \A tm \in SUBSET TimerType : Ready(c, failed, handling, tm)
  <2> SUFFICES ASSUME NEW tm \in SUBSET TimerType
               PROVE  Ready(c, failed, handling, tm)
    OBVIOUS
  <2>1. failed = Settle(instance, chains[c][n].step, chains[c][n].exec, "failed")
    BY <1>2 DEF failed
  <2>2. /\ Same(handling[n], chains[c][n]) /\ handling[n].at \in {"try", "catch"}
        /\ handling[n].ok = chains[c][n].ok
    BY <1>2, <1>4, <1>5
  <2>3. "failed" \in Outcome /\ "failed" # "running"
    BY DEF Outcome
  <2> QED
    BY <1>5, <2>1, <2>2, <2>3, SettledReady
<1>9. CASE Return(c, failed, handling, later)
  BY <1>5, <1>6, <1>8, <1>9, ReturnMoves DEF Accounted
<1>10. CASE ExecuteStep(c, failed, handling, timers, Steps[f.step].onFailure)
  <2> DEFINE s == Steps[f.step].onFailure
  <2>1. Ready(c, failed, handling, timers) /\ ExecuteStep(c, failed, handling, timers, s)
    BY <1>1, <1>8, <1>10
  <2> HIDE DEF s
  <2> QED
    BY <1>5, <2>1, ExecuteMoves DEF Accounted
<1>11. CASE Finish(c, failed, handling, timers, "failed")
  <2>1. "failed" \in Status
    BY DEF Status
  <2> QED
    BY <1>1, <1>8, <1>11, <2>1, FinishMoves DEF Accounted
<1> QED
  BY <1>7, <1>9, <1>10, <1>11
-----------------------------------------------------------------------------
(* The invariant, after a move.                                            *)
LEMMA MovedOn ==
  ASSUME NEW c, Moved(c), Accounted
  PROVE  IndInv'
<1>1. /\ TypeOK' /\ instance' # NoInstance
      /\ Fits(instance'.executionHistory, chains') /\ RefusalsAreFaults'
      /\ faults' \in Nat
  BY DEF Moved
<1>2. NoInstance' = NoInstance
  BY DEF NoInstance
<1>3. NothingBefore'
  BY <1>1, <1>2 DEF NothingBefore
<1>4. SavedOrWorking'
  BY <1>1 DEF SavedOrWorking, Accounted
<1> QED
  BY <1>1, <1>3, <1>4 DEF IndInv

\* An activity ends that leaves everything as it was.
LEMMA MovedOut ==
  ASSUME IndInv, instance # NoInstance, NEW c \in Activities, Moved(c),
         \A k \in DOMAIN chains[c] : chains[c][k].at # "handler",
         instance' = instance, UNCHANGED <<stored, lapsed, faults>>
  PROVE  IndInv'
<1>1. CASE faults > 0
  BY <1>1, MovedOn DEF Accounted
<1>2. CASE ~ faults > 0
  <2>1. faults = 0
    BY <1>2 DEF Moved
  <2>2. stored = instance \/ Expired \/ SomeStranded \/ HandlerUnderWay
    BY <2>1 DEF IndInv, SavedOrWorking
  <2>3. SomeStranded => SomeStranded'
    BY DEF SomeStranded, Stranded, Known, Steps
  <2>4. HandlerUnderWay => HandlerUnderWay'
    <3> SUFFICES ASSUME NEW d \in Activities, NEW k \in DOMAIN chains[d],
                        chains[d][k].at = "handler"
                 PROVE  HandlerUnderWay'
      BY DEF HandlerUnderWay
    <3>1. chains'[d] = chains[d]
      BY DEF Moved
    <3> QED
      BY <3>1 DEF HandlerUnderWay
  <2>5. Expired => Expired'
    BY DEF Expired, NoInstance
  <2> QED
    BY <2>2, <2>3, <2>4, <2>5, MovedOn DEF Accounted
<1> QED
  BY <1>1, <1>2

LEMMA PromptFacts ==
  ASSUME TypeOK, prompts' = prompts \/ Prompt
  PROVE  PromptsFit
<1>1. /\ prompts \in Nat /\ faults \in Nat /\ MaxEvents \in Nat
      /\ {prompts, faults, prompts + faults} \subseteq 0..MaxEvents
  BY Bounds, TypeFacts DEF TypeOK
<1>2. CASE prompts' = prompts
  BY <1>1, <1>2 DEF PromptsFit
<1>3. CASE Prompt
  <2>1. prompts + faults < MaxEvents /\ prompts' = prompts + 1
    BY <1>3 DEF Prompt
  <2>2. prompts + 1 \in 0..MaxEvents /\ prompts + 1 + faults \in 0..MaxEvents
    BY <1>1, <2>1
  <2> QED
    BY <1>1, <2>1, <2>2 DEF PromptsFit
<1> QED
  BY <1>2, <1>3

\* A new activity works on the instance, whose history has not changed.
LEMMA IdleReady ==
  ASSUME IndInv, instance # NoInstance, NEW c \in Activities, Free(c),
         NEW inst, IsInstance(inst), inst.workflowId = instance.workflowId,
         inst.executionHistory = instance.executionHistory,
         NEW tm, tm \subseteq TimerType
  PROVE  Ready(c, inst, <<>>, tm) /\ chains[c] = <<>>
<1>1. chains[c] = <<>>
  BY DEF Free, Idle
<1>2. chains \in Chains /\ Fits(inst.executionHistory, chains)
  BY TypeFacts DEF IndInv
<1>3. [chains EXCEPT ![c] = <<>>] = chains
  BY <1>1, <1>2 DEF Chains
<1>4. <<>> \in Stacks /\ DOMAIN <<>> = {}
  BY EmptySeq DEF Stacks
<1> QED
  BY <1>1, <1>2, <1>3, <1>4 DEF Ready
-----------------------------------------------------------------------------
(* Every action preserves the invariant.                                   *)
LEMMA InvariantFacts ==
  ASSUME IndInv
  PROVE  /\ TypeOK /\ RefusalsAreFaults
         /\ chains \in Chains /\ timers \subseteq TimerType
         /\ instance # NoInstance =>
              IsInstance(instance) /\ Fits(instance.executionHistory, chains)
         /\ \A c \in Activities :
              chains[c] \in Stacks /\ DOMAIN chains[c] = 1..Len(chains[c])
                /\ Len(chains[c]) \in Nat
         /\ \A c \in Activities : chains[c] # <<>> =>
              /\ Len(chains[c]) > 0 /\ Last(chains[c]) = chains[c][Len(chains[c])]
              /\ instance # NoInstance
BY TypeFacts, StackFacts DEF IndInv, NothingBefore, Chains

LEMMA StartStep ==
  ASSUME IndInv, NEW w \in DOMAIN Definitions, StartWorkflow(w)
  PROVE  IndInv'
<1> DEFINE new(holds) ==
             [workflowId |-> w, status |-> "running",
              currentStep |-> Definitions[w].startStep, context |-> holds,
              executionHistory |-> [s \in DOMAIN Definitions[w].steps |-> <<>>],
              approvals |-> {}]
           f == Frame(None, 0, "start")
<1>1. instance = NoInstance /\ prompts' = prompts
  BY DEF StartWorkflow
<1>2. PICK c \in Activities, holds \in BOOLEAN : Save(c, new(holds), <<>>, f, timers)
  BY DEF StartWorkflow
<1>3. /\ TypeOK /\ RefusalsAreFaults /\ chains \in Chains
      /\ timers \subseteq TimerType /\ PromptsFit
  BY <1>1, InvariantFacts, PromptFacts
<1>4. IsInstance(new(holds)) /\ \A s \in DOMAIN new(holds).executionHistory :
                                  DOMAIN new(holds).executionHistory[s] = {}
  <2>1. Definitions[w].startStep \in DOMAIN Definitions[w].steps
    BY EngineAssumption
  <2>2. <<>> \in Seq(Outcome) /\ DOMAIN <<>> = {}
    BY EmptySeq
  <2> QED
    BY <2>1, <2>2 DEF IsInstance
<1>5. f \in FrameType /\ f.at = "start" /\ f.ok
  BY FramesAreTyped
<1> HIDE DEF new, f
<1>6. Ready(c, new(holds), <<>>, timers)
  <2>1. \A d \in Activities : chains[d] = <<>>
    BY <1>1 DEF IndInv, NothingBefore
  <2>2. <<>> \in Stacks /\ DOMAIN <<>> = {}
    BY EmptySeq DEF Stacks
  <2>3. [chains EXCEPT ![c] = <<>>] = chains
    BY <1>3, <2>1 DEF Chains
  <2>4. Fits(new(holds).executionHistory, chains)
    BY <1>4, <2>1, <2>2 DEF Fits
  <2> QED
    BY <1>1, <1>3, <1>4, <2>2, <2>3, <2>4 DEF Ready
<1>7. Moved(c) /\ (stored' = instance' \/ faults' > 0)
  BY <1>2, <1>3, <1>5, <1>6, SaveMoves
<1> QED
  BY <1>7, MovedOn DEF Accounted

LEMMA AnswerStep ==
  ASSUME IndInv, NEW c \in Activities, HandlerAnswers(c)
  PROVE  IndInv'
<1> DEFINE n == Len(chains[c])
           f == Last(chains[c])
           done == Settle(instance, f.step, f.exec, "completed")
           tried == [f EXCEPT !.at = "try"]
           trying == Append(Front(chains[c]), tried)
           tm == IF Steps[f.step].type = "manual"
                 THEN timers \cup {Timer("approval", f.step, f.exec)}
                 ELSE timers
           s == NextStep(f.step)
<1>1. /\ chains[c] # <<>> /\ prompts' = prompts
      /\ f.at = "handler"
      /\ \/ ExecuteStep(c, done, trying, tm, s)
         \/ Finish(c, done, trying, tm, "completed")
  BY DEF HandlerAnswers, Settle
<1>2. /\ TypeOK /\ RefusalsAreFaults /\ PromptsFit /\ chains[c] \in Stacks
      /\ instance # NoInstance /\ Fits(instance.executionHistory, chains)
      /\ timers \subseteq TimerType
      /\ n \in Nat \ {0} /\ n \in 1..n /\ DOMAIN chains[c] = 1..n
      /\ f = chains[c][n]
  BY <1>1, InvariantFacts, PromptFacts
<1>3. f \in FrameType /\ Working(f)
  BY <1>1, <1>2, StackFacts DEF Working
<1>4. tried \in FrameType /\ Same(tried, f) /\ tried.at = "try" /\ tried.ok = f.ok
  BY <1>3 DEF FrameType, Same
<1>5. f.step \in Names /\ f.exec \in Nat
  BY <1>2, <1>3, WorkingIsKnown
<1>6. tm \subseteq TimerType
  BY <1>2, <1>5 DEF TimerType, Timer
<1>7. /\ trying \in Stacks /\ Len(trying) = n /\ trying # <<>>
      /\ \A k \in 1..n - 1 : trying[k] = chains[c][k]
      /\ trying[n] = tried
  <2> HIDE DEF tried
  <2>1. /\ Front(chains[c]) \in Stacks /\ Len(Front(chains[c])) = n - 1
        /\ \A k \in 1..n - 1 : Front(chains[c])[k] = chains[c][k]
    BY <1>1, <1>2, Popped
  <2>2. /\ Append(Front(chains[c]), tried) \in Stacks
        /\ Len(Append(Front(chains[c]), tried)) = Len(Front(chains[c])) + 1
        /\ \A k \in 1..Len(Front(chains[c])) :
             Append(Front(chains[c]), tried)[k] = Front(chains[c])[k]
        /\ Append(Front(chains[c]), tried)[Len(Front(chains[c])) + 1] = tried
        /\ Append(Front(chains[c]), tried) # <<>>
    BY <1>4, <2>1, Pushed
  <2> QED
    BY <1>2, <2>1, <2>2
<1> HIDE DEF f, done, tried, trying, tm, s
<1>8. Ready(c, done, trying, tm)
  <2>1. done = Settle(instance, chains[c][n].step, chains[c][n].exec, "completed")
    BY <1>2 DEF done
  <2>2. /\ Same(trying[n], chains[c][n]) /\ trying[n].at \in {"try", "catch"}
        /\ trying[n].ok = chains[c][n].ok /\ Working(chains[c][n])
    BY <1>2, <1>3, <1>4, <1>7
  <2>3. "completed" \in Outcome /\ "completed" # "running"
    BY DEF Outcome
  <2>4. \A k \in DOMAIN chains[c] : k > n => chains[c][k].at # "handler"
    BY <1>2
  <2> HIDE DEF n
  <2>5. n \in 1..Len(chains[c])
    BY <1>2 DEF n
  <2> QED
    BY <1>2, <1>6, <1>7, <2>1, <2>2, <2>3, <2>4, <2>5, SettledReady
<1>9. CASE ExecuteStep(c, done, trying, tm, s)
  BY <1>2, <1>7, <1>8, <1>9, ExecuteMoves, MovedOn DEF Accounted
<1>10. CASE Finish(c, done, trying, tm, "completed")
  <2>1. "completed" \in Status
    BY DEF Status
  <2> QED
    BY <1>2, <1>8, <1>10, <2>1, FinishMoves, MovedOn DEF Accounted
<1> QED
  BY <1>1, <1>9, <1>10

LEMMA FailStep ==
  ASSUME IndInv, NEW c \in Activities, HandlerFails(c)
  PROVE  IndInv'
<1> DEFINE n == Len(chains[c])
<1>1. /\ chains[c] # <<>> /\ prompts' = prompts
      /\ Last(chains[c]).at = "handler"
      /\ Catch(c, instance, chains[c], timers)
  BY DEF HandlerFails
<1>2. /\ TypeOK /\ RefusalsAreFaults /\ PromptsFit /\ chains[c] \in Stacks
      /\ instance # NoInstance /\ Fits(instance.executionHistory, chains)
      /\ n \in 1..Len(chains[c]) /\ DOMAIN chains[c] = 1..n
      /\ Working(chains[c][n])
  BY <1>1, InvariantFacts, PromptFacts DEF Working
<1>3. \A k \in DOMAIN chains[c] : k > n => chains[c][k].at # "handler"
  BY <1>2
<1>4. Len(chains[c]) = n
  OBVIOUS
<1> HIDE DEF n
<1>5. \A k \in 1..n : chains[c][k] = chains[c][k]
  OBVIOUS
<1>6. Moved(c) /\ Accounted
  BY <1>1, <1>2, <1>3, <1>4, <1>5, CatchMoves
<1> QED
  BY <1>6, MovedOn

\* An activity goes on with the lower m frames of its stack.
LEMMA CutReady ==
  ASSUME IndInv, instance # NoInstance, NEW c \in Activities,
         NEW m \in 0..Len(chains[c]), m < Len(chains[c]),
         \A k \in DOMAIN chains[c] : chains[c][k].at # "handler",
         NEW st \in Stacks, Len(st) = m, \A k \in 1..m : st[k] = chains[c][k]
  PROVE  Ready(c, instance, st, timers)
<1> DEFINE h == instance.executionHistory
           w == [chains EXCEPT ![c] = st]
<1>1. /\ TypeOK /\ RefusalsAreFaults /\ chains \in Chains /\ timers \subseteq TimerType
      /\ IsInstance(instance) /\ Fits(h, chains)
      /\ DOMAIN chains[c] = 1..Len(chains[c]) /\ Len(chains[c]) \in Nat
      /\ DOMAIN st = 1..m
  BY InvariantFacts, StackFacts
<1>2. /\ w \in Chains /\ w[c] = st
      /\ \A d \in Activities : d # c => w[d] = chains[d]
  BY <1>1 DEF Chains
<1> HIDE DEF h, w
<1>3. Fits(h, w)
  <2> DEFINE ch == chains
  <2>1. /\ ch \in Chains /\ w \in Chains /\ Fits(h, ch) /\ m \in 0..Len(ch[c])
        /\ \A d \in Activities : d # c => w[d] = ch[d]
        /\ Len(w[c]) = m /\ \A k \in 1..m : w[c][k] = ch[c][k]
        /\ \A k \in DOMAIN ch[c] : k > m => ch[c][k].at # "handler"
    BY <1>1, <1>2
  <2> HIDE DEF ch
  <2> QED
    BY <2>1, Dropped
<1>4. ASSUME NEW k \in DOMAIN st
      PROVE  st[k].at \in {"try", "catch"} /\ (~ st[k].ok => faults > 0)
  <2>1. k \in DOMAIN chains[c] /\ k < Len(chains[c]) /\ st[k] = chains[c][k]
    BY <1>1, <1>4
  <2>2. chains[c][k].at \in {"try", "catch"}
    BY <1>1, <2>1, TypeFacts
  <2>3. ~ chains[c][k].ok => faults > 0
    BY <1>1, <2>1 DEF RefusalsAreFaults
  <2> QED
    BY <2>1, <2>2, <2>3
<1> QED
  BY <1>1, <1>3, <1>4 DEF Ready, h, w

\* The frame on top awaits a save: no handler is under way in its activity.
LEMMA SavingStack ==
  ASSUME IndInv, NEW c \in Activities, chains[c] # <<>>,
         Last(chains[c]).at \in {"save", "start"}
  PROVE  \A k \in DOMAIN chains[c] : chains[c][k].at # "handler"
<1>1. /\ TypeOK /\ Len(chains[c]) \in Nat /\ DOMAIN chains[c] = 1..Len(chains[c])
      /\ chains[c][Len(chains[c])].at \in {"save", "start"}
  BY InvariantFacts
<1> SUFFICES ASSUME NEW k \in DOMAIN chains[c]
             PROVE  chains[c][k].at # "handler"
  OBVIOUS
<1>2. CASE k < Len(chains[c])
  BY <1>1, <1>2, TypeFacts
<1>3. CASE ~ k < Len(chains[c])
  <2>1. k = Len(chains[c])
    BY <1>1, <1>3
  <2> QED
    BY <1>1, <2>1
<1> QED
  BY <1>2, <1>3

LEMMA SavedStep ==
  ASSUME IndInv, NEW c \in Activities, SaveAnswers(c)
  PROVE  IndInv'
<1>1. /\ chains[c] # <<>> /\ prompts' = prompts
      /\ \/ /\ Last(chains[c]).at = "save"
            /\ Return(c, instance, Front(chains[c]), timers)
         \/ /\ Last(chains[c]).at = "start"
            /\ ExecuteStep(c, instance, <<>>, timers, instance.currentStep)
  BY DEF SaveAnswers
<1>2. /\ TypeOK /\ RefusalsAreFaults /\ PromptsFit /\ chains[c] \in Stacks
      /\ instance # NoInstance /\ IsInstance(instance)
      /\ Len(chains[c]) \in Nat \ {0}
  BY <1>1, InvariantFacts, PromptFacts
<1>3. \A k \in DOMAIN chains[c] : chains[c][k].at # "handler"
  BY <1>1, SavingStack
<1>4. CASE Return(c, instance, Front(chains[c]), timers)
  <2> DEFINE st == Front(chains[c])
             m == Len(chains[c]) - 1
  <2>1. st \in Stacks /\ Len(st) = m /\ \A k \in 1..m : st[k] = chains[c][k]
    BY <1>1, <1>2, Popped
  <2>2. m \in 0..Len(chains[c]) /\ m < Len(chains[c])
    BY <1>2
  <2>3. Return(c, instance, st, timers)
    BY <1>4
  <2> HIDE DEF st, m
  <2>4. Ready(c, instance, st, timers)
    BY <1>2, <1>3, <2>1, <2>2, CutReady
  <2>5. /\ Moved(c) /\ instance' = instance
        /\ UNCHANGED <<stored, lapsed, faults>> \/ stored' = instance' \/ faults' > 0
    BY <1>2, <2>3, <2>4, ReturnMoves
  <2> QED
    BY <1>2, <1>3, <2>5, MovedOn, MovedOut DEF Accounted
<1>5. CASE ExecuteStep(c, instance, <<>>, timers, instance.currentStep)
  <2> DEFINE s == instance.currentStep
  <2>1. Known(s)
    BY <1>2 DEF IsInstance, Known, Steps
  <2>2. <<>> \in Stacks /\ Len(<<>>) = 0
    BY EmptySeq DEF Stacks
  <2>3. 0 \in 0..Len(chains[c]) /\ 0 < Len(chains[c])
    BY <1>2
  <2>4. \A k \in 1..0 : <<>>[k] = chains[c][k]
    OBVIOUS
  <2>5. Ready(c, instance, <<>>, timers)
    BY <1>2, <1>3, <2>2, <2>3, <2>4, CutReady
  <2>6. ExecuteStep(c, instance, <<>>, timers, s)
    BY <1>5
  <2> HIDE DEF s
  <2>7. Moved(c) /\ Accounted
    BY <1>2, <2>1, <2>5, <2>6, ExecuteMoves DEF Accounted
  <2> QED
    BY <2>7, MovedOn
<1> QED
  BY <1>1, <1>4, <1>5

LEMMA RefusedStep ==
  ASSUME IndInv, NEW c \in Activities, SaveFails(c)
  PROVE  IndInv'
<1> DEFINE trying == {i \in DOMAIN chains[c] : chains[c][i].at = "try"}
<1>1. /\ chains[c] # <<>> /\ prompts' = prompts
      /\ Last(chains[c]).at \in {"save", "start"} /\ ~ Last(chains[c]).ok
      /\ \/ /\ chains' = [chains EXCEPT ![c] = <<>>]
            /\ UNCHANGED <<instance, stored, lapsed, timers, faults>>
         \/ \E n \in trying : Catch(c, instance, SubSeq(chains[c], 1, n), timers)
  BY DEF SaveFails
<1>2. /\ TypeOK /\ RefusalsAreFaults /\ PromptsFit /\ chains[c] \in Stacks
      /\ instance # NoInstance /\ Fits(instance.executionHistory, chains)
      /\ Len(chains[c]) \in Nat \ {0} /\ DOMAIN chains[c] = 1..Len(chains[c])
      /\ Last(chains[c]) = chains[c][Len(chains[c])]
  BY <1>1, InvariantFacts, PromptFacts
<1>3. \A k \in DOMAIN chains[c] : chains[c][k].at # "handler"
  BY <1>1, SavingStack
<1>4. CASE /\ chains' = [chains EXCEPT ![c] = <<>>]
           /\ UNCHANGED <<instance, stored, lapsed, timers, faults>>
  <2>1. <<>> \in Stacks /\ Len(<<>>) = 0
    BY EmptySeq DEF Stacks
  <2>2. 0 \in 0..Len(chains[c]) /\ 0 < Len(chains[c])
    BY <1>2
  <2>3. \A k \in 1..0 : <<>>[k] = chains[c][k]
    OBVIOUS
  <2>4. Ready(c, instance, <<>>, timers)
    BY <1>2, <1>3, <2>1, <2>2, <2>3, CutReady
  <2>5. Moved(c)
    BY <1>2, <1>4, <2>4, EndMoves
  <2>6. faults > 0
    BY <1>1, <1>2 DEF RefusalsAreFaults
  <2> QED
    BY <1>4, <2>5, <2>6, MovedOn DEF Accounted
<1>5. CASE \E n \in trying : Catch(c, instance, SubSeq(chains[c], 1, n), timers)
  <2>1. PICK n \in trying : Catch(c, instance, SubSeq(chains[c], 1, n), timers)
    BY <1>5
  <2> DEFINE st == SubSeq(chains[c], 1, n)
  <2>2. n \in 1..Len(chains[c]) /\ n \in 0..Len(chains[c]) /\ Working(chains[c][n])
    BY <1>2 DEF Working
  <2>3. st \in Stacks /\ Len(st) = n /\ \A k \in 1..n : st[k] = chains[c][k]
    BY <1>2, <2>2, Cut
  <2> HIDE DEF st
  <2>4. Catch(c, instance, st, timers)
    BY <2>1 DEF st
  <2>5. Moved(c) /\ Accounted
    BY <1>2, <1>3, <2>2, <2>3, <2>4, CatchMoves
  <2> QED
    BY <2>5, MovedOn
<1> QED
  BY <1>1, <1>4, <1>5

\* Approval a is decided, and the instance has status u.
Verdict(a, v) == [a EXCEPT !.status = v]
Decide(x, a, v, u) ==
  [x EXCEPT !.approvals = (@ \ {a}) \cup {Verdict(a, v)}, !.status = u]

LEMMA Decided ==
  ASSUME IndInv, instance # NoInstance, NEW a \in instance.approvals,
         NEW v \in {"approved", "rejected"}, NEW u \in Status
  PROVE  /\ IsInstance(Decide(instance, a, v, u))
         /\ Decide(instance, a, v, u).workflowId = instance.workflowId
         /\ Decide(instance, a, v, u).executionHistory = instance.executionHistory
         /\ Verdict(a, v) \in Decide(instance, a, v, u).approvals
         /\ Verdict(a, v).status = v /\ Verdict(a, v).stepId = a.stepId
<1>1. IsInstance(instance)
  BY InvariantFacts
<1>2. a \in Approvals
  BY <1>1 DEF IsInstance, Approvals
<1>3. /\ Verdict(a, v) \in Approvals
      /\ Verdict(a, v).status = v /\ Verdict(a, v).stepId = a.stepId
  BY <1>2 DEF Approvals, Verdict
<1> QED
  BY <1>1, <1>3 DEF IsInstance, Status, Approvals, Decide

\* A decision that runs into an undefined step is all that is left unsaved.
LEMMA DecisionStranded ==
  ASSUME NEW c, Moved(c), instance # NoInstance, NEW b \in instance'.approvals, Stranded(b)
  PROVE  Accounted
<1>1. Steps' = Steps
  BY DEF Moved, Steps
<1>2. Stranded(b)'
  BY <1>1 DEF Stranded, Known
<1> QED
  BY <1>2 DEF Accounted, SomeStranded

\* What an activity starts with, and the fewest facts about it.
LEMMA StartFacts ==
  ASSUME IndInv, instance # NoInstance, prompts' = prompts \/ Prompt
  PROVE  /\ TypeOK /\ RefusalsAreFaults /\ PromptsFit /\ IsInstance(instance)
         /\ timers \subseteq TimerType
         /\ {"running", "failed", instance.status} \subseteq Status
BY InvariantFacts, PromptFacts DEF IsInstance, Status

LEMMA ApprovalStep ==
  ASSUME IndInv, instance # NoInstance, NEW c \in Activities,
         NEW a \in instance.approvals, ApproveStep(c, a)
  PROVE  IndInv'
<1> DEFINE s == Steps[a.stepId].onSuccess
<1>1. PICK b : b = Verdict(a, "approved")
  OBVIOUS
<1>2. PICK y : y = Decide(instance, a, "approved", "running")
  OBVIOUS
<1>3. Free(c) /\ Prompt /\ ExecuteStep(c, y, <<>>, timers, s)
  BY <1>2 DEF ApproveStep, Decide, Verdict
<1>4. /\ TypeOK /\ RefusalsAreFaults /\ PromptsFit /\ timers \subseteq TimerType
      /\ "running" \in Status
  BY <1>3, StartFacts
<1>5. /\ IsInstance(y) /\ y.workflowId = instance.workflowId
      /\ y.executionHistory = instance.executionHistory
      /\ b \in y.approvals /\ b.status = "approved" /\ b.stepId = a.stepId
  BY <1>1, <1>2, <1>4, Decided
<1>6. Ready(c, y, <<>>, timers)
  BY <1>3, <1>4, <1>5, IdleReady
<1> HIDE DEF s
<1>7. /\ Moved(c) /\ y.approvals \subseteq instance'.approvals
      /\ Accounted \/ ~ Known(s)
  BY <1>3, <1>4, <1>6, ExecuteMoves DEF Accounted
<1>8. ~ Known(s) => Accounted
  BY <1>5, <1>7, DecisionStranded DEF Stranded, s
<1> QED
  BY <1>7, <1>8, MovedOn

LEMMA RejectionStep ==
  ASSUME IndInv, instance # NoInstance, NEW c \in Activities,
         NEW a \in instance.approvals, RejectStep(c, a)
  PROVE  IndInv'
<1> DEFINE s == Steps[a.stepId].onFailure
<1>1. PICK b : b = Verdict(a, "rejected")
  OBVIOUS
<1>2. PICK y : y = Decide(instance, a, "rejected", instance.status)
  OBVIOUS
<1>3. /\ Free(c) /\ Prompt
      /\ \/ ExecuteStep(c, y, <<>>, timers, s)
         \/ Finish(c, y, <<>>, timers, "failed")
  <2>1. y = [instance EXCEPT !.approvals = (@ \ {a}) \cup {Verdict(a, "rejected")}]
    <3>1. IsInstance(instance)
      BY InvariantFacts
    <3> QED
      BY <1>2, <3>1 DEF IsInstance, Decide
  <2> QED
    BY <2>1 DEF RejectStep, Verdict
<1>4. /\ TypeOK /\ RefusalsAreFaults /\ PromptsFit /\ timers \subseteq TimerType
      /\ instance.status \in Status /\ "failed" \in Status
  BY <1>3, StartFacts
<1>5. /\ IsInstance(y) /\ y.workflowId = instance.workflowId
      /\ y.executionHistory = instance.executionHistory
      /\ b \in y.approvals /\ b.status = "rejected" /\ b.stepId = a.stepId
  BY <1>1, <1>2, <1>4, Decided
<1>6. Ready(c, y, <<>>, timers)
  BY <1>3, <1>4, <1>5, IdleReady
<1> HIDE DEF s
<1>7. CASE ExecuteStep(c, y, <<>>, timers, s)
  <2>1. /\ Moved(c) /\ y.approvals \subseteq instance'.approvals
        /\ Accounted \/ ~ Known(s)
    BY <1>4, <1>6, <1>7, ExecuteMoves DEF Accounted
  <2>2. ~ Known(s) => Accounted
    BY <1>5, <2>1, DecisionStranded DEF Stranded, s
  <2> QED
    BY <2>1, <2>2, MovedOn
<1>8. CASE Finish(c, y, <<>>, timers, "failed")
  BY <1>4, <1>6, <1>8, FinishMoves, MovedOn DEF Accounted
<1> QED
  BY <1>3, <1>7, <1>8

\* A new activity executes a step, or fails the workflow, on the instance as
\* it is.
LEMMA FreshStep ==
  ASSUME IndInv, instance # NoInstance, NEW c \in Activities, Free(c),
         prompts' = prompts \/ Prompt, NEW tm, tm \subseteq TimerType, NEW s,
         \/ ExecuteStep(c, instance, <<>>, tm, s)
         \/ Finish(c, instance, <<>>, tm, "failed")
  PROVE  IndInv'
<1>1. /\ TypeOK /\ RefusalsAreFaults /\ PromptsFit /\ IsInstance(instance)
      /\ "failed" \in Status
  BY StartFacts
<1>2. Ready(c, instance, <<>>, tm) /\ chains[c] = <<>>
  BY <1>1, IdleReady
<1>3. \A k \in DOMAIN chains[c] : chains[c][k].at # "handler"
  BY <1>2, EmptySeq
<1>4. CASE ExecuteStep(c, instance, <<>>, tm, s)
  <2>1. /\ Moved(c)
        /\ Accounted \/ (instance' = instance /\ UNCHANGED <<stored, lapsed, faults>>)
    BY <1>1, <1>2, <1>4, ExecuteMoves DEF Accounted
  <2> QED
    BY <1>3, <2>1, MovedOn, MovedOut
<1>5. CASE Finish(c, instance, <<>>, tm, "failed")
  BY <1>1, <1>2, <1>5, FinishMoves, MovedOn DEF Accounted
<1> QED
  BY <1>4, <1>5

LEMMA TimeoutStep ==
  ASSUME IndInv, NEW c \in Activities, NEW t \in timers, Timeout(c, t)
  PROVE  IndInv'
<1>1. instance # NoInstance
  BY DEF IndInv, NothingBefore
<1>2. /\ Free(c) /\ Prompt /\ timers \ {t} \subseteq TimerType
      /\ \/ ExecuteStep(c, instance, <<>>, timers \ {t}, Steps[t.step].onTimeout)
         \/ Finish(c, instance, <<>>, timers \ {t}, "failed")
  BY InvariantFacts DEF Timeout
<1> QED
  BY <1>1, <1>2, FreshStep

LEMMA RetryStep ==
  ASSUME IndInv, NEW c \in Activities, NEW t \in timers, Retry(c, t)
  PROVE  IndInv'
<1>1. instance # NoInstance
  BY DEF IndInv, NothingBefore
<1>2. /\ Free(c) /\ prompts' = prompts /\ timers \ {t} \subseteq TimerType
      /\ ExecuteStep(c, instance, <<>>, timers \ {t}, t.step)
  BY InvariantFacts DEF Retry
<1> QED
  BY <1>1, <1>2, FreshStep

LEMMA MonitorStep ==
  ASSUME IndInv, NEW c \in Activities, Monitor(c)
  PROVE  IndInv'
<1>1. /\ instance # NoInstance /\ Free(c) /\ Prompt /\ timers \subseteq TimerType
      /\ Finish(c, instance, <<>>, timers, "failed")
  BY InvariantFacts DEF Monitor
<1> QED
  BY <1>1, FreshStep

LEMMA LateStep ==
  ASSUME IndInv, NEW t \in timers, LateTimeout(t)
  PROVE  IndInv'
<1>1. /\ timers' = timers \ {t}
      /\ UNCHANGED <<instance, stored, lapsed, chains, prompts, faults>>
  BY DEF LateTimeout
<1>2. TypeOK'
  BY <1>1 DEF IndInv, TypeOK, IsInstance
<1>3. NothingBefore' /\ RefusalsAreFaults'
  BY <1>1 DEF IndInv, NothingBefore, RefusalsAreFaults
<1>4. instance' # NoInstance => Fits(instance'.executionHistory, chains')
  BY <1>1 DEF IndInv
<1>5. SavedOrWorking'
  BY <1>1 DEF IndInv, SavedOrWorking, Expired, SomeStranded, Stranded, Known, Steps,
              HandlerUnderWay, NoInstance
<1> QED
  BY <1>2, <1>3, <1>4, <1>5, NoInstanceIsNone DEF IndInv, NoInstance

LEMMA ExpireStep ==
  ASSUME IndInv, Expire
  PROVE  IndInv'
<1>1. /\ stored' = NoInstance /\ lapsed' = TRUE
      /\ UNCHANGED <<instance, chains, timers, prompts, faults>>
  BY DEF Expire
<1>2. NoInstance' = NoInstance
  BY DEF NoInstance
<1>3. TypeOK'
  BY <1>1, <1>2 DEF IndInv, TypeOK, IsInstance
<1>4. NothingBefore' /\ RefusalsAreFaults'
  BY <1>1, <1>2 DEF IndInv, NothingBefore, RefusalsAreFaults
<1>5. instance' # NoInstance => Fits(instance'.executionHistory, chains')
  BY <1>1 DEF IndInv
<1>6. SavedOrWorking'
  BY <1>1, <1>2 DEF SavedOrWorking, Expired
<1> QED
  BY <1>2, <1>3, <1>4, <1>5, <1>6 DEF IndInv

LEMMA Stutter == IndInv /\ UNCHANGED vars => IndInv'
<1> SUFFICES ASSUME IndInv, UNCHANGED vars PROVE IndInv'
  OBVIOUS
<1>1. UNCHANGED <<instance, stored, chains, timers, prompts, faults, lapsed>>
  BY DEF vars
<1>2. TypeOK'
  BY <1>1 DEF IndInv, TypeOK, IsInstance
<1>3. NothingBefore' /\ RefusalsAreFaults'
  BY <1>1 DEF IndInv, NothingBefore, RefusalsAreFaults
<1>4. instance' # NoInstance => Fits(instance'.executionHistory, chains')
  BY <1>1 DEF IndInv
<1>5. SavedOrWorking'
  BY <1>1 DEF IndInv, SavedOrWorking, Expired, SomeStranded, Stranded, Known, Steps,
              HandlerUnderWay, NoInstance
<1> QED
  BY <1>2, <1>3, <1>4, <1>5 DEF IndInv, NoInstance
-----------------------------------------------------------------------------
LEMMA InvariantInit == Init => IndInv
<1> SUFFICES ASSUME Init PROVE IndInv
  OBVIOUS
<1>1. /\ instance = NoInstance /\ stored = NoInstance /\ timers = {}
      /\ prompts = 0 /\ faults = 0 /\ lapsed = FALSE
      /\ chains \in [Activities -> Seq(FrameType)]
      /\ \A c \in Activities : chains[c] = <<>>
  BY DEF Init
<1>2. DOMAIN <<>> = {}
  BY EmptySeq
<1>3. MaxEvents \in Nat
  BY Bounds
<1>4. TypeOK
  <2>1. {prompts, faults, prompts + faults} \subseteq 0..MaxEvents
    BY <1>1, <1>3
  <2>2. lapsed \in BOOLEAN
    BY <1>1
  <2> QED
    BY <1>1, <1>2, <2>1, <2>2 DEF TypeOK
<1>5. NothingBefore /\ RefusalsAreFaults /\ SavedOrWorking
  BY <1>1, <1>2 DEF NothingBefore, RefusalsAreFaults, SavedOrWorking
<1> QED
  BY <1>1, <1>4, <1>5 DEF IndInv

LEMMA InvariantStep == IndInv /\ [Next]_vars => IndInv'
<1> SUFFICES ASSUME IndInv, [Next]_vars PROVE IndInv'
  OBVIOUS
<1>1. CASE \E w \in DOMAIN Definitions : StartWorkflow(w)
  BY <1>1, StartStep
<1>2. ASSUME NEW c \in Activities, HandlerAnswers(c) \/ HandlerFails(c)
      PROVE  IndInv'
  BY <1>2, AnswerStep, FailStep
<1>3. ASSUME NEW c \in Activities, SaveAnswers(c) \/ SaveFails(c)
      PROVE  IndInv'
  BY <1>3, SavedStep, RefusedStep
<1>4. ASSUME NEW c \in Activities, instance # NoInstance,
             \E a \in instance.approvals : ApproveStep(c, a) \/ RejectStep(c, a)
      PROVE  IndInv'
  BY <1>4, ApprovalStep, RejectionStep
<1>5. ASSUME NEW c \in Activities, \E t \in timers : Timeout(c, t) \/ Retry(c, t)
      PROVE  IndInv'
  BY <1>5, TimeoutStep, RetryStep
<1>6. ASSUME NEW c \in Activities, Monitor(c)
      PROVE  IndInv'
  BY <1>6, MonitorStep
<1>7. CASE \E t \in timers : LateTimeout(t)
  BY <1>7, LateStep
<1>8. CASE UNCHANGED vars
  BY <1>8, Stutter
<1>9. CASE Waiting
  BY <1>9, Stutter DEF Waiting
<1>10. CASE Expire
  BY <1>10, ExpireStep
<1> QED
  BY <1>1, <1>2, <1>3, <1>4, <1>5, <1>6, <1>7, <1>8, <1>9, <1>10 DEF Next

LEMMA Invariant == Spec => []IndInv
BY InvariantInit, InvariantStep, PTL DEF Spec

\* The instance, its snapshot and the stacks of calls keep their form: below
\* the frame that awaits an answer, every frame of an activity awaits the one
\* above it.
THEOREM WorkflowTypeCorrect == Spec => []TypeOK
<1>1. IndInv => TypeOK
  BY DEF IndInv
<1> QED
  BY Invariant, <1>1, PTL

\* However activities, failures, decisions and retries interleave, an execution
\* is recorded as running exactly while its handler is under way.
THEOREM RunningIsAlwaysBeingRun == Spec => []RunningIsBeingRun
<1>1. IndInv => RunningIsBeingRun
  <2> SUFFICES ASSUME IndInv, instance # NoInstance,
                      NEW s \in DOMAIN Steps,
                      NEW i \in DOMAIN instance.executionHistory[s]
               PROVE  (instance.executionHistory[s][i] = "running") =
                      (\E c \in Activities : \E k \in DOMAIN chains[c] :
                         /\ chains[c][k].step = s /\ chains[c][k].exec = i
                         /\ chains[c][k].at = "handler")
    BY DEF RunningIsBeingRun
  <2>1. s \in DOMAIN instance.executionHistory
    BY InvariantFacts DEF IsInstance, Steps
  <2>2. instance.executionHistory[s][i] = "running" <=> UnderWay(chains, s, i)
    BY <2>1 DEF IndInv, Fits
  <2> QED
    BY <2>2 DEF UnderWay
<1> QED
  BY Invariant, <1>1, PTL

\* Once all activities have ended Redis holds the instance as it is in memory,
\* or nothing when its day is over, however their saves interleaved, and never
\* an earlier state, unless Redis refused a command or a decision ran into an
\* undefined step.
THEOREM QuietAlwaysMeansSaved == Spec => []QuietMeansSaved
<1>1. IndInv => QuietMeansSaved
  <2> SUFFICES ASSUME IndInv, instance # NoInstance, Quiet, faults = 0
               PROVE  \/ stored = instance \/ Expired
                      \/ \E a \in instance.approvals : Stranded(a)
    BY DEF QuietMeansSaved
  <2>1. \A c \in Activities : chains[c] = <<>>
    BY DEF Quiet, Idle
  <2>2. ~ HandlerUnderWay
    BY <2>1, EmptySeq DEF HandlerUnderWay
  <2> QED
    BY <2>2 DEF IndInv, SavedOrWorking, SomeStranded
<1> QED
  BY Invariant, <1>1, PTL
-----------------------------------------------------------------------------
(* What a step of activity c does to the frame on top, to the executions   *)
(* and to the timers; the invariant above says the rest.                   *)

Alone(c) == \A d \in Activities \ {c} : chains'[d] = chains[d]

\* Activity c awaits an answer, or has been refused the command.
Awaiting(c, at) ==
  /\ chains'[c] # <<>>
  /\ Last(chains'[c]).at = at
  /\ faults' = IF Last(chains'[c]).ok THEN faults ELSE faults + 1
  /\ Alone(c)

Ends(c) == chains'[c] = <<>> /\ faults' = faults /\ Alone(c)

\* The step of instance inst that s names.
Defined(inst, s) == s \in DOMAIN Definitions[inst.workflowId].steps

Retries(tm) == {t \in tm : t.kind = "retry"}

\* A new execution of s.
Executed(c, inst, s) ==
  /\ Awaiting(c, "handler") /\ Last(chains'[c]).step = s
  /\ instance'.workflowId = inst.workflowId /\ instance'.context = inst.context
  /\ inst.approvals \subseteq instance'.approvals
  /\ instance'.executionHistory
       = [inst.executionHistory EXCEPT ![s] = Append(@, "running")]

LEMMA IssueEffect ==
  ASSUME chains \in Chains, NEW c \in Activities, NEW stack \in Stacks,
         NEW f \in FrameType, f.ok, Issue(c, stack, f)
  PROVE  Awaiting(c, f.at) /\ Last(chains'[c]).step = f.step
<1>1. CASE chains' = [chains EXCEPT ![c] = Append(stack, f)] /\ faults' = faults
  <2>1. chains'[c] = Append(stack, f) /\ Alone(c)
    BY <1>1 DEF Chains, Alone
  <2>2. chains'[c] # <<>> /\ Last(chains'[c]) = f
    BY <2>1, Pushed
  <2> QED
    BY <1>1, <2>1, <2>2 DEF Awaiting
<1>2. CASE /\ faults' = faults + 1
           /\ chains' = [chains EXCEPT ![c] = Append(stack, [f EXCEPT !.ok = FALSE])]
  <2>1. PICK g : g = [f EXCEPT !.ok = FALSE]
    OBVIOUS
  <2>2. g \in FrameType /\ g.step = f.step /\ g.at = f.at /\ ~ g.ok
    BY <2>1 DEF FrameType
  <2>3. chains'[c] = Append(stack, g) /\ Alone(c)
    BY <1>2, <2>1 DEF Chains, Alone
  <2> QED
    BY <1>2, <2>2, <2>3, Pushed DEF Awaiting
<1> QED
  BY <1>1, <1>2 DEF Issue

LEMMA ReturnEffect ==
  ASSUME chains \in Chains, NEW c \in Activities, NEW stack \in Stacks,
         NEW inst, NEW tm, Return(c, inst, stack, tm)
  PROVE  /\ instance' = inst /\ timers' = tm
         /\ Ends(c) \/ Awaiting(c, "save")
<1>1. CASE stack = <<>>
  BY <1>1 DEF Return, Ends, Alone, Chains
<1>2. CASE stack # <<>>
  <2> DEFINE f == Frame(Last(stack).step, Last(stack).exec, "save")
  <2>1. /\ instance' = inst /\ timers' = tm /\ Issue(c, Front(stack), f)
    BY <1>2 DEF Return, Save
  <2>2. Last(stack) \in FrameType /\ Front(stack) \in Stacks
    BY <1>2, StackFacts, Popped
  <2>3. Last(stack).step \in Names \cup {None} /\ Last(stack).exec \in Nat
    BY <2>2 DEF FrameType
  <2>4. f \in FrameType /\ f.ok /\ f.at = "save"
    BY <2>3, FramesAreTyped
  <2> HIDE DEF f
  <2> QED
    BY <2>1, <2>2, <2>4, IssueEffect
<1> QED
  BY <1>1, <1>2

LEMMA FinishEffect ==
  ASSUME chains \in Chains, NEW c \in Activities, NEW stack \in Stacks,
         NEW inst, NEW tm, NEW status, Finish(c, inst, stack, tm, status)
  PROVE  /\ instance' = [inst EXCEPT !.status = status] /\ timers' = tm
         /\ Awaiting(c, "save")
<1> DEFINE f == Frame(None, 0, "save")
<1>1. /\ instance' = [inst EXCEPT !.status = status] /\ timers' = tm
      /\ Issue(c, stack, f)
  BY DEF Finish, Save
<1>2. f \in FrameType /\ f.ok /\ f.at = "save"
  BY FramesAreTyped
<1> HIDE DEF f
<1> QED
  BY <1>1, <1>2, IssueEffect

LEMMA ExecuteEffect ==
  ASSUME chains \in Chains, NEW c \in Activities, NEW stack \in Stacks,
         NEW inst, IsInstance(inst), inst.workflowId = instance.workflowId,
         NEW tm, NEW s, ExecuteStep(c, inst, stack, tm, s)
  PROVE  /\ Known(s) => Executed(c, inst, s)
         /\ ~ Known(s) => instance' = inst /\ (Ends(c) \/ Awaiting(c, "save"))
         /\ Retries(timers') = Retries(tm)
<1>1. CASE ~ Known(s)
  <2>1. Return(c, inst, stack, tm)
    BY <1>1 DEF ExecuteStep
  <2> QED
    BY <1>1, <2>1, ReturnEffect
<1>2. CASE Known(s)
  <2> DEFINE h == inst.executionHistory
             i == Len(h[s]) + 1
             type == Steps[s].type
             frame == Frame(s, i, "handler")
  <2>1. /\ instance' = [inst EXCEPT
               !.executionHistory[s] = Append(@, "running"),
               !.currentStep = s,
               !.status = IF type \in {"wait", "manual"}
                          THEN "waiting_approval" ELSE @,
               !.approvals = IF type = "manual"
                             THEN @ \cup {Approval(s, i, "pending")} ELSE @]
        /\ timers' = IF type = "wait" THEN tm \cup {Timer("wait", s, i)} ELSE tm
        /\ \/ Issue(c, stack, frame)
           \/ /\ chains' = [chains EXCEPT ![c] = Append(stack, frame)]
              /\ UNCHANGED faults
    BY <1>2 DEF ExecuteStep
  <2>2. /\ s \in Names /\ s \in DOMAIN h /\ i \in Nat
        /\ h \in [DOMAIN h -> Seq(Outcome)]
    <3>1. s \in DOMAIN h /\ h \in [DOMAIN h -> Seq(Outcome)]
          /\ inst.workflowId \in DOMAIN Definitions
      BY <1>2 DEF IsInstance, Known, Steps
    <3>2. s \in Names
      BY <1>2, <3>1, StepsAreTyped DEF Known, Steps
    <3>3. h[s] \in Seq(Outcome)
      BY <3>1
    <3> QED
      BY <3>1, <3>2, <3>3
  <2>3. frame \in FrameType /\ frame.ok /\ frame.at = "handler" /\ frame.step = s
    BY <2>2, FramesAreTyped
  <2>4. Retries(timers') = Retries(tm)
    BY <2>1 DEF Retries, Timer
  <2>5. /\ instance'.workflowId = inst.workflowId /\ instance'.context = inst.context
        /\ inst.approvals \subseteq instance'.approvals
        /\ instance'.executionHistory = [h EXCEPT ![s] = Append(@, "running")]
    <3> HIDE DEF i, type
    <3> QED
      BY <2>1 DEF IsInstance
  <2> HIDE DEF frame
  <2>6. Awaiting(c, "handler") /\ Last(chains'[c]).step = s
    <3>1. CASE Issue(c, stack, frame)
      BY <2>3, <3>1, IssueEffect
    <3>2. CASE /\ chains' = [chains EXCEPT ![c] = Append(stack, frame)]
               /\ UNCHANGED faults
      <4>1. chains'[c] = Append(stack, frame) /\ Alone(c)
        BY <3>2 DEF Chains, Alone
      <4>2. chains'[c] # <<>> /\ Last(chains'[c]) = frame
        BY <2>3, <4>1, Pushed
      <4> QED
        BY <2>3, <3>2, <4>1, <4>2 DEF Awaiting
    <3> QED
      BY <2>1, <3>1, <3>2
  <2> QED
    BY <1>2, <2>4, <2>5, <2>6 DEF Executed
<1> QED
  BY <1>1, <1>2
-----------------------------------------------------------------------------
(* A workflow without a verdict is being worked on, or was sent nowhere.   *)

Pending(x) == x.status \in {"running", "waiting_approval"}

DeadEnd ==
  \/ \E s \in DOMAIN Steps :
       Executions(s) > 0 /\ NextStep(s) \notin DOMAIN Steps \cup {None}
  \/ SomeStranded

\* A handler is under way, or the first one is about to be.
WorkedOn ==
  \E c \in Activities : /\ chains[c] # <<>>
                        /\ Last(chains[c]).at \in {"handler", "start"}

Pursued ==
  instance # NoInstance /\ faults = 0 /\ Pending(instance) => DeadEnd \/ WorkedOn

\* The same workflow goes on: nothing that was executed or decided is undone.
GoesOn ==
  /\ instance # NoInstance /\ instance' # NoInstance
  /\ instance'.workflowId = instance.workflowId
  /\ instance'.context = instance.context
  /\ \A s \in DOMAIN Steps :
       Len(instance.executionHistory[s]) <= Len(instance'.executionHistory[s])
  /\ \A a \in instance.approvals :
       a.status # "pending" => a \in instance'.approvals

LEMMA DeadEndsStay ==
  ASSUME IndInv, IndInv', GoesOn, DeadEnd
  PROVE  DeadEnd'
<1>1. Steps' = Steps /\ instance.context' = instance.context
  BY DEF GoesOn, Steps
<1>2. ASSUME NEW s \in DOMAIN Steps, Executions(s) > 0,
             NextStep(s) \notin DOMAIN Steps \cup {None}
      PROVE  DeadEnd'
  <2>1. NextStep(s)' = NextStep(s)
    BY <1>1 DEF NextStep
  <2>2. /\ Executions(s) \in Nat /\ Executions(s)' \in Nat
        /\ Executions(s) <= Executions(s)'
    <3>1. /\ IsInstance(instance) /\ IsInstance(instance')
          /\ instance'.workflowId = instance.workflowId
      BY InvariantFacts DEF GoesOn, IndInv, TypeOK
    <3>2. /\ instance.executionHistory[s] \in Seq(Outcome)
          /\ instance'.executionHistory[s] \in Seq(Outcome)
      BY <3>1 DEF IsInstance, Steps
    <3> QED
      BY <3>2 DEF GoesOn, Executions
  <2>3. Executions(s)' > 0
    BY <1>2, <2>2
  <2> QED
    BY <1>1, <1>2, <2>1, <2>3 DEF DeadEnd
<1>3. ASSUME NEW a \in instance.approvals, Stranded(a)
      PROVE  DeadEnd'
  <2>1. a \in instance'.approvals
    BY <1>3 DEF Stranded, GoesOn
  <2>2. Stranded(a)'
    BY <1>1, <1>3 DEF Stranded, Known
  <2> QED
    BY <2>1, <2>2 DEF DeadEnd, SomeStranded
<1> QED
  BY <1>2, <1>3 DEF DeadEnd, SomeStranded
-----------------------------------------------------------------------------
(* Every step of activity c in one form: on an instance that lost nothing, *)
(* with some timers, it executes s, or does not because s is not defined,  *)
(* or gives a verdict.                                                     *)

\* No execution and no decision is undone.
Keeps(inst) ==
  /\ IsInstance(inst)
  /\ inst.workflowId = instance.workflowId /\ inst.context = instance.context
  /\ \A s \in DOMAIN Steps :
       Len(inst.executionHistory[s]) = Len(instance.executionHistory[s])
  /\ \A a \in instance.approvals : a.status # "pending" => a \in inst.approvals

Did(c, inst, tm, s) ==
  /\ Retries(timers') = Retries(tm)
  /\ \/ Known(s) /\ Executed(c, inst, s)
     \/ ~ Known(s) /\ instance' = inst /\ (Ends(c) \/ Awaiting(c, "save"))
     \/ /\ \E v \in {"completed", "failed"} : instance' = [inst EXCEPT !.status = v]
        /\ Awaiting(c, "save")

\* A handler has answered.
Answered(c, inst, tm, s) ==
  /\ chains[c] # <<>> /\ Last(chains[c]).at = "handler"
  /\ Known(Last(chains[c]).step) /\ Executions(Last(chains[c]).step) > 0
  /\ s = NextStep(Last(chains[c]).step)
  /\ s = None => ~ Pending(instance')
  /\ Retries(tm) = Retries(timers) /\ prompts' = prompts

\* A save is answered: the frame below saves, or a workflow starts.
Resumed(c, inst, tm, s) ==
  /\ chains[c] # <<>>
  /\ \/ Last(chains[c]).at = "save" /\ s = None
     \/ Last(chains[c]).at = "start" /\ Known(s)
  /\ inst = instance /\ tm = timers /\ prompts' = prompts

\* A refused command is handled: with one retry later, or a step now.
Refused(c, inst, tm, s) ==
  /\ chains[c] # <<>> /\ ~ Last(chains[c]).ok /\ prompts' = prompts
  /\ \/ Retries(tm) = Retries(timers)
     \/ s = None /\ \E t : Retries(tm) = Retries(timers) \cup {t}

\* A prompt: what is not defined is executed only on a decision.
Prompted(c, inst, tm, s) ==
  /\ chains[c] = <<>> /\ prompts' = prompts + 1
  /\ Retries(tm) = Retries(timers)
  /\ Known(s) \/ inst = instance \/ \E a \in inst.approvals : Stranded(a)

Retried(c, inst, tm, s) ==
  /\ chains[c] = <<>> /\ prompts' = prompts /\ inst = instance
  /\ \E t \in Retries(timers) : s = t.step /\ Retries(tm) = Retries(timers) \ {t}

Acted(c) ==
  /\ instance # NoInstance
  /\ \E inst, tm, s :
       /\ Keeps(inst) /\ Did(c, inst, tm, s)
       /\ \/ Answered(c, inst, tm, s)
          \/ Resumed(c, inst, tm, s)
          \/ Refused(c, inst, tm, s)
          \/ Prompted(c, inst, tm, s)
          \/ Retried(c, inst, tm, s)

LEMMA NoneIsUnknown == ASSUME IsInstance(instance) PROVE ~ Known(None)
BY EngineAssumption DEF IsInstance, Known, Steps

LEMMA InstanceKeeps == ASSUME IsInstance(instance) PROVE Keeps(instance)
BY DEF Keeps

LEMMA SettledKeeps ==
  ASSUME IsInstance(instance), NEW f, Recorded(instance.executionHistory, f),
         NEW v \in Outcome
  PROVE  Keeps(Settle(instance, f.step, f.exec, v))
<1> DEFINE y == Settle(instance, f.step, f.exec, v)
<1>1. /\ IsInstance(y) /\ y.workflowId = instance.workflowId
      /\ y.approvals = instance.approvals
      /\ \A t \in DOMAIN instance.executionHistory :
              DOMAIN y.executionHistory[t] = DOMAIN instance.executionHistory[t]
  BY WithOutcome DEF Recorded
<1>2. y.context = instance.context
  BY DEF Settle, IsInstance
<1> HIDE DEF y
<1>3. ASSUME NEW s \in DOMAIN Steps
      PROVE  Len(y.executionHistory[s]) = Len(instance.executionHistory[s])
  <2>1. /\ y.executionHistory[s] \in Seq(Outcome)
        /\ instance.executionHistory[s] \in Seq(Outcome)
        /\ s \in DOMAIN instance.executionHistory
    BY <1>1 DEF IsInstance, Steps
  <2>2. DOMAIN y.executionHistory[s] = DOMAIN instance.executionHistory[s]
    BY <1>1, <2>1
  <2>3. ASSUME NEW a \in Seq(Outcome), NEW b \in Seq(Outcome), DOMAIN a = DOMAIN b
        PROVE  Len(a) = Len(b)
    <3>1. /\ DOMAIN a = 1..Len(a) /\ DOMAIN b = 1..Len(b)
          /\ Len(a) \in Nat /\ Len(b) \in Nat
      OBVIOUS
    <3>2. \A m, n \in Nat : 1..m = 1..n => m = n
      <4> SUFFICES ASSUME NEW m \in Nat, NEW n \in Nat, 1..m = 1..n, m # n
                   PROVE  FALSE
        OBVIOUS
      <4>1. CASE m < n
        BY <4>1
      <4>2. CASE n < m
        BY <4>2
      <4> QED
        BY <4>1, <4>2
    <3> QED
      BY <2>3, <3>1, <3>2
  <2> QED
    BY <2>1, <2>2, <2>3
<1> QED
  BY <1>1, <1>2, <1>3 DEF Keeps, y

LEMMA ExecuteDid ==
  ASSUME chains \in Chains, NEW c \in Activities, NEW stack \in Stacks,
         NEW inst, Keeps(inst), NEW tm, NEW s, ExecuteStep(c, inst, stack, tm, s)
  PROVE  Did(c, inst, tm, s)
BY ExecuteEffect DEF Keeps, Did

LEMMA ReturnDid ==
  ASSUME chains \in Chains, NEW c \in Activities, NEW stack \in Stacks,
         IsInstance(instance), NEW inst, NEW tm, Return(c, inst, stack, tm)
  PROVE  Did(c, inst, tm, None)
BY ReturnEffect, NoneIsUnknown DEF Did

LEMMA FinishDid ==
  ASSUME chains \in Chains, NEW c \in Activities, NEW stack \in Stacks,
         NEW inst, IsInstance(inst), NEW tm, NEW v \in {"completed", "failed"},
         Finish(c, inst, stack, tm, v)
  PROVE  \A s : Did(c, inst, tm, s) /\ ~ Pending(instance')
<1>1. /\ instance' = [inst EXCEPT !.status = v] /\ timers' = tm
      /\ Awaiting(c, "save")
  BY FinishEffect
<1>2. instance'.status = v
  BY <1>1 DEF IsInstance
<1> QED
  BY <1>1, <1>2 DEF Did, Pending

LEMMA AnswerActs ==
  ASSUME IndInv, NEW c \in Activities, HandlerAnswers(c)
  PROVE  Acted(c)
<1> DEFINE f == Last(chains[c])
           done == Settle(instance, f.step, f.exec, "completed")
           trying == Append(Front(chains[c]), [f EXCEPT !.at = "try"])
           tm == IF Steps[f.step].type = "manual"
                 THEN timers \cup {Timer("approval", f.step, f.exec)}
                 ELSE timers
           s == NextStep(f.step)
<1>1. /\ chains[c] # <<>> /\ prompts' = prompts /\ f.at = "handler"
      /\ \/ s # None /\ ExecuteStep(c, done, trying, tm, s)
         \/ s = None /\ Finish(c, done, trying, tm, "completed")
  BY DEF HandlerAnswers, Settle
<1>2. /\ chains \in Chains /\ chains[c] \in Stacks
      /\ instance # NoInstance /\ IsInstance(instance)
      /\ f = chains[c][Len(chains[c])] /\ Len(chains[c]) \in DOMAIN chains[c]
      /\ f \in FrameType /\ TypeOK /\ Fits(instance.executionHistory, chains)
  BY <1>1, InvariantFacts, StackFacts
<1>3. Working(f)
  BY <1>1 DEF Working
<1>4. /\ Recorded(instance.executionHistory, f) /\ Known(f.step)
  BY <1>2, <1>3, WorkingIsKnown DEF Fits
<1>5. Executions(f.step) > 0
  <2>1. instance.executionHistory[f.step] \in Seq(Outcome)
        /\ f.exec \in DOMAIN instance.executionHistory[f.step]
    BY <1>2, <1>4 DEF Recorded, IsInstance
  <2> QED
    BY <2>1 DEF Executions
<1>6. trying \in Stacks
  <2>1. PICK g : g = [f EXCEPT !.at = "try"]
    OBVIOUS
  <2>2. g \in FrameType
    BY <1>2, <2>1 DEF FrameType
  <2>3. Front(chains[c]) \in Stacks
    BY <1>1, <1>2, Popped
  <2> QED
    BY <2>1, <2>2, <2>3, Pushed
<1>7. Keeps(done) /\ IsInstance(done)
  BY <1>2, <1>4, SettledKeeps DEF Outcome, Keeps
<1>8. Retries(tm) = Retries(timers)
  BY DEF Retries, Timer
<1> HIDE DEF done, trying, tm
<1>9. Did(c, done, tm, s) /\ (s = None => ~ Pending(instance'))
  BY <1>1, <1>2, <1>6, <1>7, ExecuteDid, FinishDid
<1>10. Answered(c, done, tm, s)
  BY <1>1, <1>4, <1>5, <1>8, <1>9 DEF Answered
<1> QED
  BY <1>2, <1>7, <1>9, <1>10 DEF Acted

\* A catch block of the frame on top of st.
LEMMA CatchActs ==
  ASSUME IndInv, instance # NoInstance, NEW c \in Activities,
         chains[c] # <<>>, ~ Last(chains[c]).ok, prompts' = prompts,
         NEW n \in DOMAIN chains[c], Working(chains[c][n]),
         NEW st \in Stacks, st # <<>>, Last(st) = chains[c][n],
         Catch(c, instance, st, timers)
  PROVE  Acted(c)
<1> DEFINE f == Last(st)
           failed == Settle(instance, f.step, f.exec, "failed")
           handling == Append(Front(st), [f EXCEPT !.at = "catch"])
           t == Timer("retry", f.step, f.exec)
           s == Steps[f.step].onFailure
<1>1. \/ Return(c, failed, handling, timers \cup {t})
      \/ ExecuteStep(c, failed, handling, timers, s)
      \/ Finish(c, failed, handling, timers, "failed")
  BY DEF Catch, Settle
<1>2. /\ chains \in Chains /\ IsInstance(instance)
      /\ f \in FrameType /\ Fits(instance.executionHistory, chains)
  BY InvariantFacts, StackFacts
<1>3. Recorded(instance.executionHistory, f)
  BY <1>2 DEF Fits
<1>4. handling \in Stacks
  <2>1. PICK g : g = [f EXCEPT !.at = "catch"]
    OBVIOUS
  <2>2. g \in FrameType
    BY <1>2, <2>1 DEF FrameType
  <2>3. Front(st) \in Stacks
    BY Popped
  <2> QED
    BY <2>1, <2>2, <2>3, Pushed
<1>5. Keeps(failed) /\ IsInstance(failed)
  BY <1>2, <1>3, SettledKeeps DEF Outcome, Keeps
<1>6. Retries(timers \cup {t}) = Retries(timers) \cup {t}
  BY DEF Retries, Timer
<1> HIDE DEF failed, handling, t, s
<1>7. CASE Return(c, failed, handling, timers \cup {t})
  <2>1. Did(c, failed, timers \cup {t}, None)
    BY <1>2, <1>4, <1>7, ReturnDid
  <2>2. Refused(c, failed, timers \cup {t}, None)
    BY <1>6 DEF Refused
  <2> QED
    BY <1>5, <2>1, <2>2 DEF Acted
<1>8. CASE \/ ExecuteStep(c, failed, handling, timers, s)
           \/ Finish(c, failed, handling, timers, "failed")
  <2>1. Did(c, failed, timers, s)
    BY <1>2, <1>4, <1>5, <1>8, ExecuteDid, FinishDid
  <2>2. Refused(c, failed, timers, s)
    BY DEF Refused
  <2> QED
    BY <1>5, <2>1, <2>2 DEF Acted
<1> QED
  BY <1>1, <1>7, <1>8

LEMMA FailActs ==
  ASSUME IndInv, NEW c \in Activities, HandlerFails(c)
  PROVE  Acted(c)
<1>1. /\ chains[c] # <<>> /\ prompts' = prompts
      /\ Last(chains[c]).at = "handler" /\ ~ Last(chains[c]).ok
      /\ Catch(c, instance, chains[c], timers)
  BY DEF HandlerFails
<1>2. /\ chains[c] \in Stacks /\ instance # NoInstance
      /\ Len(chains[c]) \in DOMAIN chains[c]
      /\ Last(chains[c]) = chains[c][Len(chains[c])]
  BY <1>1, InvariantFacts
<1>3. Working(chains[c][Len(chains[c])])
  BY <1>1, <1>2 DEF Working
<1> QED
  BY <1>1, <1>2, <1>3, CatchActs

LEMMA SavedActs ==
  ASSUME IndInv, NEW c \in Activities, SaveAnswers(c)
  PROVE  Acted(c)
<1>1. /\ chains[c] # <<>> /\ prompts' = prompts
      /\ \/ /\ Last(chains[c]).at = "save"
            /\ Return(c, instance, Front(chains[c]), timers)
         \/ /\ Last(chains[c]).at = "start"
            /\ ExecuteStep(c, instance, <<>>, timers, instance.currentStep)
  BY DEF SaveAnswers
<1>2. /\ chains \in Chains /\ chains[c] \in Stacks
      /\ instance # NoInstance /\ IsInstance(instance) /\ Keeps(instance)
      /\ <<>> \in Stacks
  BY <1>1, InvariantFacts, InstanceKeeps, EmptySeq DEF Stacks
<1>3. Front(chains[c]) \in Stacks /\ Known(instance.currentStep)
  BY <1>1, <1>2, Popped DEF IsInstance, Known, Steps
<1>4. CASE /\ Last(chains[c]).at = "save"
           /\ Return(c, instance, Front(chains[c]), timers)
  <2>1. Did(c, instance, timers, None)
    BY <1>2, <1>3, <1>4, ReturnDid
  <2>2. Resumed(c, instance, timers, None)
    BY <1>1, <1>4 DEF Resumed
  <2> QED
    BY <1>2, <2>1, <2>2 DEF Acted
<1>5. CASE /\ Last(chains[c]).at = "start"
           /\ ExecuteStep(c, instance, <<>>, timers, instance.currentStep)
  <2>1. Did(c, instance, timers, instance.currentStep)
    BY <1>2, <1>5, ExecuteDid
  <2>2. Resumed(c, instance, timers, instance.currentStep)
    BY <1>1, <1>3, <1>5 DEF Resumed
  <2> QED
    BY <1>2, <2>1, <2>2 DEF Acted
<1> QED
  BY <1>1, <1>4, <1>5

LEMMA RefusedActs ==
  ASSUME IndInv, NEW c \in Activities, SaveFails(c)
  PROVE  Acted(c)
<1> DEFINE trying == {i \in DOMAIN chains[c] : chains[c][i].at = "try"}
<1>1. /\ chains[c] # <<>> /\ prompts' = prompts /\ ~ Last(chains[c]).ok
      /\ \/ /\ chains' = [chains EXCEPT ![c] = <<>>]
            /\ UNCHANGED <<instance, stored, lapsed, timers, faults>>
         \/ \E n \in trying : Catch(c, instance, SubSeq(chains[c], 1, n), timers)
  BY DEF SaveFails
<1>2. /\ chains \in Chains /\ chains[c] \in Stacks /\ instance # NoInstance
      /\ IsInstance(instance) /\ Keeps(instance)
      /\ DOMAIN chains[c] = 1..Len(chains[c]) /\ Len(chains[c]) \in Nat
  BY <1>1, InvariantFacts, InstanceKeeps
<1>3. CASE /\ chains' = [chains EXCEPT ![c] = <<>>]
           /\ UNCHANGED <<instance, stored, lapsed, timers, faults>>
  <2>1. Ends(c) /\ instance' = instance /\ Retries(timers') = Retries(timers)
    BY <1>2, <1>3 DEF Ends, Alone, Chains
  <2>2. Did(c, instance, timers, None) /\ Refused(c, instance, timers, None)
    BY <1>1, <1>2, <2>1, NoneIsUnknown DEF Did, Refused
  <2> QED
    BY <1>2, <2>2 DEF Acted
<1>4. CASE \E n \in trying : Catch(c, instance, SubSeq(chains[c], 1, n), timers)
  <2>1. PICK n \in trying : Catch(c, instance, SubSeq(chains[c], 1, n), timers)
    BY <1>4
  <2>2. /\ n \in DOMAIN chains[c] /\ Working(chains[c][n])
        /\ n \in 1..Len(chains[c]) /\ n \in 0..Len(chains[c]) /\ n \in 1..n
    BY <1>2 DEF Working
  <2> DEFINE st == SubSeq(chains[c], 1, n)
  <2>3. st \in Stacks /\ Len(st) = n /\ st[n] = chains[c][n]
    BY <1>2, <2>2, Cut
  <2>4. Catch(c, instance, st, timers)
    BY <2>1
  <2> HIDE DEF st
  <2>5. st # <<>> /\ Last(st) = chains[c][n]
    <3>1. Len(st) # 0
      BY <2>2, <2>3
    <3> QED
      BY <2>3, <3>1, EmptySeq DEF Last
  <2> QED
    BY <1>1, <1>2, <2>2, <2>3, <2>4, <2>5, CatchActs
<1> QED
  BY <1>1, <1>3, <1>4

\* A decision keeps all that was executed and decided before.
LEMMA DecidedKeeps ==
  ASSUME IndInv, instance # NoInstance, NEW a \in instance.approvals,
         a.status = "pending", NEW v \in {"approved", "rejected"}, NEW u \in Status
  PROVE  /\ Keeps(Decide(instance, a, v, u))
         /\ Verdict(a, v) \in Decide(instance, a, v, u).approvals
         /\ Verdict(a, v).status = v /\ Verdict(a, v).stepId = a.stepId
<1> DEFINE y == Decide(instance, a, v, u)
<1>1. /\ IsInstance(y) /\ y.workflowId = instance.workflowId
      /\ y.executionHistory = instance.executionHistory
      /\ Verdict(a, v) \in y.approvals
      /\ Verdict(a, v).status = v /\ Verdict(a, v).stepId = a.stepId
  BY Decided
<1>2. IsInstance(instance)
  BY InvariantFacts
<1>3. /\ y.context = instance.context
      /\ y.approvals = (instance.approvals \ {a}) \cup {Verdict(a, v)}
  BY <1>2 DEF Decide, IsInstance
<1> HIDE DEF y
<1> QED
  BY <1>1, <1>3 DEF Keeps, y

LEMMA ApprovalActs ==
  ASSUME IndInv, instance # NoInstance, NEW c \in Activities,
         NEW a \in instance.approvals, ApproveStep(c, a)
  PROVE  Acted(c)
<1> DEFINE s == Steps[a.stepId].onSuccess
           b == Verdict(a, "approved")
<1>1. PICK y : y = Decide(instance, a, "approved", "running")
  OBVIOUS
<1>2. /\ Free(c) /\ Prompt /\ ExecuteStep(c, y, <<>>, timers, s)
      /\ a.status = "pending"
  BY <1>1 DEF ApproveStep, Decide, Verdict
<1>3. "running" \in Status
  BY DEF Status
<1>4. Keeps(y) /\ b \in y.approvals /\ b.status = "approved" /\ b.stepId = a.stepId
  BY <1>1, <1>2, <1>3, DecidedKeeps
<1>5. chains \in Chains /\ <<>> \in Stacks /\ chains[c] = <<>>
  BY <1>2, InvariantFacts, EmptySeq DEF Stacks, Free, Idle
<1>6. Did(c, y, timers, s)
  BY <1>2, <1>4, <1>5, ExecuteDid
<1>7. Known(s) \/ Stranded(b)
  BY <1>4 DEF Stranded
<1>8. Prompted(c, y, timers, s)
  BY <1>2, <1>4, <1>5, <1>7 DEF Prompted, Prompt
<1> QED
  BY <1>4, <1>6, <1>8 DEF Acted

LEMMA RejectionActs ==
  ASSUME IndInv, instance # NoInstance, NEW c \in Activities,
         NEW a \in instance.approvals, RejectStep(c, a)
  PROVE  Acted(c)
<1> DEFINE s == Steps[a.stepId].onFailure
           b == Verdict(a, "rejected")
<1>1. PICK y : y = Decide(instance, a, "rejected", instance.status)
  OBVIOUS
<1>2. /\ Free(c) /\ Prompt /\ a.status = "pending"
      /\ \/ ExecuteStep(c, y, <<>>, timers, s)
         \/ Finish(c, y, <<>>, timers, "failed")
  <2>1. y = [instance EXCEPT !.approvals = (@ \ {a}) \cup {b}]
    <3>1. IsInstance(instance)
      BY InvariantFacts
    <3> QED
      BY <1>1, <3>1 DEF IsInstance, Decide
  <2> QED
    BY <2>1 DEF RejectStep, Verdict
<1>3. instance.status \in Status
  BY InvariantFacts DEF IsInstance, Status
<1>4. Keeps(y) /\ b \in y.approvals /\ b.status = "rejected" /\ b.stepId = a.stepId
      /\ IsInstance(y)
  BY <1>1, <1>2, <1>3, DecidedKeeps DEF Keeps
<1>5. chains \in Chains /\ <<>> \in Stacks /\ chains[c] = <<>>
  BY <1>2, InvariantFacts, EmptySeq DEF Stacks, Free, Idle
<1>6. Did(c, y, timers, s)
  BY <1>2, <1>4, <1>5, ExecuteDid, FinishDid
<1>7. Known(s) \/ Stranded(b)
  BY <1>4 DEF Stranded
<1>8. Prompted(c, y, timers, s)
  BY <1>2, <1>4, <1>5, <1>7 DEF Prompted, Prompt
<1> QED
  BY <1>4, <1>6, <1>8 DEF Acted

LEMMA TimeoutActs ==
  ASSUME IndInv, NEW c \in Activities, NEW t \in timers, Timeout(c, t)
  PROVE  Acted(c)
<1>1. instance # NoInstance
  BY DEF IndInv, NothingBefore
<1> DEFINE s == Steps[t.step].onTimeout
           tm == timers \ {t}
<1>2. /\ Free(c) /\ Prompt
      /\ \/ ExecuteStep(c, instance, <<>>, tm, s)
         \/ Finish(c, instance, <<>>, tm, "failed")
      /\ t.kind # "retry"
  BY DEF Timeout
<1>3. Retries(tm) = Retries(timers)
  BY <1>2 DEF Retries
<1>4. chains \in Chains /\ <<>> \in Stacks /\ chains[c] = <<>>
      /\ IsInstance(instance) /\ Keeps(instance)
  BY <1>1, <1>2, InvariantFacts, InstanceKeeps, EmptySeq DEF Stacks, Free, Idle
<1> HIDE DEF s, tm
<1>5. Did(c, instance, tm, s)
  BY <1>2, <1>4, ExecuteDid, FinishDid
<1>6. Prompted(c, instance, tm, s)
  BY <1>2, <1>3, <1>4 DEF Prompted, Prompt
<1> QED
  BY <1>1, <1>4, <1>5, <1>6 DEF Acted

LEMMA RetryActs ==
  ASSUME IndInv, NEW c \in Activities, NEW t \in timers, Retry(c, t)
  PROVE  Acted(c)
<1>1. instance # NoInstance
  BY DEF IndInv, NothingBefore
<1> DEFINE s == t.step
           tm == timers \ {t}
<1>2. /\ Free(c) /\ prompts' = prompts /\ ExecuteStep(c, instance, <<>>, tm, s)
      /\ t.kind = "retry"
  BY DEF Retry
<1>3. Retries(tm) = Retries(timers) \ {t} /\ t \in Retries(timers)
  BY <1>2 DEF Retries
<1>4. chains \in Chains /\ <<>> \in Stacks /\ chains[c] = <<>>
      /\ IsInstance(instance) /\ Keeps(instance)
  BY <1>1, <1>2, InvariantFacts, InstanceKeeps, EmptySeq DEF Stacks, Free, Idle
<1>5. Retried(c, instance, tm, s)
  BY <1>2, <1>3, <1>4 DEF Retried
<1> HIDE DEF s, tm
<1>6. Did(c, instance, tm, s)
  BY <1>2, <1>4, ExecuteDid
<1> QED
  BY <1>1, <1>4, <1>5, <1>6 DEF Acted

LEMMA MonitorActs ==
  ASSUME IndInv, NEW c \in Activities, Monitor(c)
  PROVE  Acted(c)
<1>1. /\ instance # NoInstance /\ Free(c) /\ Prompt
      /\ Finish(c, instance, <<>>, timers, "failed")
  BY DEF Monitor
<1>2. chains \in Chains /\ <<>> \in Stacks /\ chains[c] = <<>>
      /\ IsInstance(instance) /\ Keeps(instance)
  BY <1>1, InvariantFacts, InstanceKeeps, EmptySeq DEF Stacks, Free, Idle
<1>3. Did(c, instance, timers, None)
  BY <1>1, <1>2, FinishDid
<1>4. Prompted(c, instance, timers, None)
  BY <1>1, <1>2 DEF Prompted, Prompt
<1> QED
  BY <1>1, <1>2, <1>3, <1>4 DEF Acted

\* Whatever is not the start of the workflow is the step of an activity, or
\* leaves the executions, the activities and the retries as they are.
LEMMA EveryStep ==
  ASSUME IndInv, [Next]_vars
  PROVE  \/ \E w \in DOMAIN Definitions : StartWorkflow(w)
         \/ \E c \in Activities : Acted(c)
         \/ /\ UNCHANGED <<instance, chains, prompts, faults>>
            /\ Retries(timers') = Retries(timers)
<1>1. ASSUME NEW c \in Activities,
             HandlerAnswers(c) \/ HandlerFails(c) \/ SaveAnswers(c) \/ SaveFails(c)
      PROVE  Acted(c)
  BY <1>1, AnswerActs, FailActs, SavedActs, RefusedActs
<1>2. ASSUME NEW c \in Activities, instance # NoInstance,
             \E a \in instance.approvals : ApproveStep(c, a) \/ RejectStep(c, a)
      PROVE  Acted(c)
  BY <1>2, ApprovalActs, RejectionActs
<1>3. ASSUME NEW c \in Activities, \E t \in timers : Timeout(c, t) \/ Retry(c, t)
      PROVE  Acted(c)
  BY <1>3, TimeoutActs, RetryActs
<1>4. ASSUME NEW c \in Activities, Monitor(c)
      PROVE  Acted(c)
  BY <1>4, MonitorActs
<1>5. ASSUME \/ \E t \in timers : LateTimeout(t)
             \/ Expire \/ Waiting \/ UNCHANGED vars
      PROVE  /\ UNCHANGED <<instance, chains, prompts, faults>>
             /\ Retries(timers') = Retries(timers)
  BY <1>5 DEF LateTimeout, Expire, Waiting, vars, Retries
<1> QED
  BY <1>1, <1>2, <1>3, <1>4, <1>5 DEF Next
-----------------------------------------------------------------------------
(* No workflow that is well defined is dropped.                            *)

LEMMA ActedGoesOn ==
  ASSUME IndInv, IndInv', NEW c \in Activities, NEW inst, NEW tm, NEW s,
         instance # NoInstance, Keeps(inst), Did(c, inst, tm, s)
  PROVE  /\ GoesOn /\ inst.approvals \subseteq instance'.approvals
         /\ Alone(c) /\ instance' # NoInstance
<1>1. /\ IsInstance(inst)
      /\ inst.workflowId = instance.workflowId /\ inst.context = instance.context
      /\ \A t \in DOMAIN Steps :
           Len(inst.executionHistory[t]) = Len(instance.executionHistory[t])
      /\ \A a \in instance.approvals : a.status # "pending" => a \in inst.approvals
      /\ inst # NoInstance
  BY NoInstanceIsNone DEF Keeps
<1>2. ASSUME NEW t \in DOMAIN Steps
      PROVE  /\ inst.executionHistory[t] \in Seq(Outcome)
             /\ Len(inst.executionHistory[t]) \in Nat
             /\ t \in DOMAIN inst.executionHistory
  BY <1>1 DEF IsInstance, Steps
<1>3. CASE Known(s) /\ Executed(c, inst, s)
  <2>1. ASSUME NEW t \in DOMAIN Steps
        PROVE  Len(inst.executionHistory[t]) <= Len(instance'.executionHistory[t])
    <3>1. CASE t = s
      BY <1>2, <1>3, <3>1 DEF Executed
    <3>2. CASE t # s
      BY <1>2, <1>3, <3>2 DEF Executed
    <3> QED
      BY <3>1, <3>2
  <2>2. instance' # NoInstance
    <3>1. instance'.workflowId \in DOMAIN Definitions
      BY <1>1, <1>3 DEF Executed, IsInstance
    <3> QED
      BY <1>3, <2>1 DEF Executed, IndInv, NothingBefore, Awaiting
  <2> QED
    BY <1>1, <1>3, <2>1, <2>2 DEF Executed, GoesOn, Awaiting
<1>4. CASE /\ ~ Known(s) /\ instance' = inst
           /\ Ends(c) \/ Awaiting(c, "save")
  BY <1>1, <1>2, <1>4 DEF GoesOn, Ends, Awaiting
<1>5. CASE /\ \E v \in {"completed", "failed"} : instance' = [inst EXCEPT !.status = v]
           /\ Awaiting(c, "save")
  <2>1. PICK v \in {"completed", "failed"} : instance' = [inst EXCEPT !.status = v]
    BY <1>5
  <2>2. v \in Status
    BY DEF Status
  <2>3. /\ IsInstance(instance') /\ instance'.workflowId = inst.workflowId
        /\ instance'.approvals = inst.approvals
        /\ instance'.executionHistory = inst.executionHistory
    BY <1>1, <2>1, <2>2, WithStatus
  <2>4. instance'.context = inst.context
    BY <1>1, <2>1 DEF IsInstance
  <2> QED
    BY <1>1, <1>2, <1>5, <2>3, <2>4, NoInstanceIsNone DEF GoesOn, Awaiting
<1> QED
  BY <1>3, <1>4, <1>5 DEF Did

\* Activities other than c are worked on as before.
LEMMA OthersWork ==
  ASSUME NEW c \in Activities, Alone(c), WorkedOn,
         chains[c] # <<>> => Last(chains[c]).at \notin {"handler", "start"}
  PROVE  WorkedOn'
BY DEF WorkedOn, Alone

LEMMA ActedPursued ==
  ASSUME IndInv, IndInv', Pursued, NEW c \in Activities, Acted(c)
  PROVE  Pursued'
<1> SUFFICES ASSUME faults' = 0, Pending(instance')
             PROVE  DeadEnd' \/ WorkedOn'
  BY DEF Pursued, Pending
<1>1. PICK inst, tm, s :
       /\ Keeps(inst) /\ Did(c, inst, tm, s)
       /\ \/ Answered(c, inst, tm, s)
          \/ Resumed(c, inst, tm, s)
          \/ Refused(c, inst, tm, s)
          \/ Prompted(c, inst, tm, s)
          \/ Retried(c, inst, tm, s)
  BY DEF Acted
<1>2. instance # NoInstance
  BY DEF Acted
<1>3. /\ GoesOn /\ inst.approvals \subseteq instance'.approvals /\ Alone(c)
      /\ Steps' = Steps /\ instance'.context = instance.context
  BY <1>1, <1>2, ActedGoesOn DEF GoesOn, Steps
<1>4. DeadEnd => DeadEnd'
  BY <1>3, DeadEndsStay
<1>5. faults = 0
  <2>1. faults \in Nat /\ (faults' = faults \/ faults' = faults + 1)
    BY <1>1 DEF Did, Executed, Awaiting, Ends, IndInv, TypeOK
  <2> QED
    BY <2>1
<1>6. CASE Known(s) /\ Executed(c, inst, s)
  BY <1>6 DEF Executed, Awaiting, WorkedOn
<1>7. ASSUME \E v \in {"completed", "failed"} : instance' = [inst EXCEPT !.status = v]
      PROVE  FALSE
  <2>1. PICK v \in {"completed", "failed"} : instance' = [inst EXCEPT !.status = v]
    BY <1>7
  <2>2. instance'.status = v
    BY <1>1, <2>1 DEF Keeps, IsInstance
  <2> QED
    BY <2>2 DEF Pending
<1>8. CASE ~ Known(s) /\ instance' = inst
  <2>1. CASE Answered(c, inst, tm, s)
    <3> DEFINE u == Last(chains[c]).step
    <3>1. /\ u \in DOMAIN Steps /\ Executions(u) > 0
          /\ s = NextStep(u) /\ s # None /\ s \notin DOMAIN Steps
      BY <1>8, <2>1 DEF Answered, Known
    <3> HIDE DEF u
    <3> QED
      BY <1>4, <3>1 DEF DeadEnd
  <2>2. CASE Refused(c, inst, tm, s)
    <3>1. chains[c] # <<>> /\ ~ Last(chains[c]).ok
      BY <2>2 DEF Refused
    <3>2. Len(chains[c]) \in DOMAIN chains[c] /\ Last(chains[c]) = chains[c][Len(chains[c])]
      BY <3>1, InvariantFacts
    <3>3. faults > 0
      BY <3>1, <3>2, InvariantFacts DEF RefusalsAreFaults
    <3> QED
      BY <1>5, <3>3
  <2>3. ASSUME inst = instance,
               chains[c] # <<>> => Last(chains[c]).at \notin {"handler", "start"}
        PROVE  DeadEnd' \/ WorkedOn'
    <3>1. DeadEnd \/ WorkedOn
      BY <1>2, <1>5, <1>8, <2>3 DEF Pursued
    <3> QED
      BY <1>3, <1>4, <2>3, <3>1, OthersWork
  <2>4. CASE Resumed(c, inst, tm, s)
    BY <1>8, <2>3, <2>4 DEF Resumed
  <2>5. CASE Prompted(c, inst, tm, s)
    <3>1. CASE inst = instance
      BY <2>3, <2>5, <3>1 DEF Prompted
    <3>2. CASE \E a \in inst.approvals : Stranded(a)
      <4>1. PICK a \in inst.approvals : Stranded(a)
        BY <3>2
      <4>2. a \in instance'.approvals /\ Stranded(a)'
        BY <1>3, <4>1 DEF Stranded, Known
      <4> QED
        BY <4>2 DEF DeadEnd, SomeStranded
    <3> QED
      BY <1>8, <2>5, <3>1, <3>2 DEF Prompted
  <2>6. CASE Retried(c, inst, tm, s)
    BY <2>3, <2>6 DEF Retried
  <2> QED
    BY <1>1, <2>1, <2>2, <2>4, <2>5, <2>6
<1> QED
  BY <1>1, <1>6, <1>7, <1>8 DEF Did

LEMMA StartEffect ==
  ASSUME IndInv, NEW w \in DOMAIN Definitions, StartWorkflow(w)
  PROVE  /\ instance = NoInstance /\ prompts' = prompts /\ timers' = timers
         /\ timers = {} /\ \A c \in Activities : chains[c] = <<>>
         /\ \A s \in DOMAIN Steps' : Executions(s)' = 0
         /\ \E c \in Activities : Awaiting(c, "start")
<1> DEFINE f == Frame(None, 0, "start")
<1>1. instance = NoInstance /\ prompts' = prompts
  BY DEF StartWorkflow
<1>2. timers = {} /\ \A c \in Activities : chains[c] = <<>>
  BY <1>1 DEF IndInv, NothingBefore
<1>3. PICK c \in Activities : \E inst :
        /\ Save(c, inst, <<>>, f, timers)
        /\ inst.workflowId = w
        /\ inst.executionHistory = [s \in DOMAIN Definitions[w].steps |-> <<>>]
  <2>1. PICK c \in Activities, holds \in BOOLEAN :
          Save(c, [workflowId |-> w, status |-> "running",
                   currentStep |-> Definitions[w].startStep, context |-> holds,
                   executionHistory |-> [s \in DOMAIN Definitions[w].steps |-> <<>>],
                   approvals |-> {}],
               <<>>, f, timers)
    BY DEF StartWorkflow
  <2> QED
    BY <2>1
<1>4. /\ instance'.workflowId = w
      /\ instance'.executionHistory = [s \in DOMAIN Definitions[w].steps |-> <<>>]
      /\ timers' = timers /\ Issue(c, <<>>, f)
  BY <1>3 DEF Save
<1>5. /\ f \in FrameType /\ f.ok /\ f.at = "start"
      /\ <<>> \in Stacks /\ Len(<<>>) = 0 /\ chains \in Chains
  BY FramesAreTyped, EmptySeq, InvariantFacts DEF Stacks
<1> HIDE DEF f
<1>6. Awaiting(c, "start")
  BY <1>4, <1>5, IssueEffect
<1>7. \A s \in DOMAIN Steps' : Executions(s)' = 0
  BY <1>4, <1>5 DEF Steps, Executions
<1> QED
  BY <1>1, <1>2, <1>4, <1>6, <1>7

LEMMA StepPursued == IndInv /\ IndInv' /\ Pursued /\ [Next]_vars => Pursued'
<1> SUFFICES ASSUME IndInv, IndInv', Pursued, [Next]_vars
             PROVE  Pursued'
  OBVIOUS
<1>1. CASE \E w \in DOMAIN Definitions : StartWorkflow(w)
  <2>1. \E c \in Activities : Awaiting(c, "start")
    BY <1>1, StartEffect
  <2>2. WorkedOn'
    BY <2>1 DEF Awaiting, WorkedOn
  <2> QED
    BY <2>2 DEF Pursued
<1>2. CASE \E c \in Activities : Acted(c)
  BY <1>2, ActedPursued
<1>3. CASE UNCHANGED <<instance, chains, prompts, faults>>
  BY <1>3 DEF Pursued, Pending, DeadEnd, SomeStranded, Stranded, Known, Steps,
              Executions, NextStep, WorkedOn, NoInstance
<1> QED
  BY <1>1, <1>2, <1>3, EveryStep

\* A workflow that comes to rest without a verdict was sent to a step nobody has
\* defined, or Redis failed: executeStep, approvals, timeouts, retries and the
\* monitor together drop no workflow that is well defined.
THEOREM StopsOnlyWhereUndefined == Spec => []StopsOnlyAtUndefinedSteps
<1>1. Init => Pursued
  BY DEF Init, Pursued
<1>2. IndInv /\ Pursued => StopsOnlyAtUndefinedSteps
  <2> SUFFICES ASSUME IndInv, Pursued, instance # NoInstance, Quiet, faults = 0,
                      instance.status \in {"running", "waiting_approval"}
               PROVE  \/ \E s \in DOMAIN Steps :
                           /\ Executions(s) > 0
                           /\ NextStep(s) \notin DOMAIN Steps \cup {None}
                      \/ \E a \in instance.approvals : Stranded(a)
    BY DEF StopsOnlyAtUndefinedSteps
  <2>1. ~ WorkedOn
    BY DEF Quiet, Idle, WorkedOn
  <2> QED
    BY <2>1 DEF Pursued, Pending, DeadEnd, SomeStranded
<1> QED
  BY <1>1, <1>2, Invariant, StepPursued, PTL DEF Spec
-----------------------------------------------------------------------------
(* What may still be executed is paid for.                                 *)

One(b) == IF b THEN 1 ELSE 0

\* Activity c may still come to execute s.
MayCome(togo, c, s) ==
  /\ chains[c] # <<>>
  /\ \/ ~ Last(chains[c]).ok
     \/ Last(chains[c]).at = "start"
     \/ /\ Last(chains[c]).at = "handler"
        /\ togo[instance.workflowId][s]
             < togo[instance.workflowId][Last(chains[c]).step]

Coming(togo, s) == {c \in Activities : MayCome(togo, c, s)}

\* So may the retries of s and of the steps before it.
Leading(togo, R, s) ==
  {t \in R : togo[instance.workflowId][s] <= togo[instance.workflowId][t.step]}

InBudget(togo) ==
  /\ IsFiniteSet(Retries(timers))
  /\ instance # NoInstance =>
       \A s \in DOMAIN Steps :
         Executions(s) + Cardinality(Coming(togo, s))
             + Cardinality(Leading(togo, Retries(timers), s))
           <= 1 + prompts + faults

\* A set that may or may not have one more element.
LEMMA CountOne ==
  ASSUME NEW S, IsFiniteSet(S), NEW x, NEW b \in BOOLEAN, x \in S <=> b
  PROVE  /\ IsFiniteSet(S \ {x}) /\ Cardinality(S \ {x}) \in Nat
         /\ Cardinality(S) = Cardinality(S \ {x}) + One(b)
<1>1. /\ IsFiniteSet(S \ {x})
      /\ Cardinality(S \ {x}) = IF x \in S THEN Cardinality(S) - 1 ELSE Cardinality(S)
  BY FS_RemoveElement
<1>2. Cardinality(S \ {x}) \in Nat /\ Cardinality(S) \in Nat
  BY <1>1, FS_CardinalityType
<1> QED
  BY <1>1, <1>2 DEF One

LEMMA FiniteActivities ==
  ASSUME NEW S, S \subseteq Activities
  PROVE  IsFiniteSet(S) /\ Cardinality(S) \in Nat
<1>1. IsFiniteSet(Activities)
  BY Bounds, FS_Interval DEF Activities
<1> QED
  BY <1>1, FS_Subset, FS_CardinalityType

\* A step of c changes what c may come to, and nobody else.
LEMMA OnlyOneComes ==
  ASSUME NEW togo, NEW c \in Activities, NEW s, Alone(c),
         instance'.workflowId = instance.workflowId
  PROVE  \E n \in Nat :
           /\ Cardinality(Coming(togo, s)) = n + One(MayCome(togo, c, s))
           /\ Cardinality(Coming(togo, s))' = n + One(MayCome(togo, c, s)')
<1> DEFINE S == Coming(togo, s)
           T == Coming(togo, s)'
<1>1. /\ S \subseteq Activities /\ T \subseteq Activities
      /\ c \in S <=> MayCome(togo, c, s)
      /\ c \in T <=> MayCome(togo, c, s)'
  BY DEF Coming
<1>2. MayCome(togo, c, s) \in BOOLEAN /\ MayCome(togo, c, s)' \in BOOLEAN
  BY DEF MayCome
<1>3. S \ {c} = T \ {c}
  <2>1. ASSUME NEW d \in Activities \ {c}
        PROVE  MayCome(togo, d, s)' <=> MayCome(togo, d, s)
    BY DEF MayCome, Alone
  <2> QED
    BY <2>1 DEF Coming
<1> HIDE DEF S, T
<1>4. IsFiniteSet(S) /\ IsFiniteSet(T)
  BY <1>1, FiniteActivities
<1>5. /\ Cardinality(S \ {c}) \in Nat
      /\ Cardinality(S) = Cardinality(S \ {c}) + One(MayCome(togo, c, s))
  BY <1>1, <1>2, <1>4, CountOne
<1>6. Cardinality(T) = Cardinality(T \ {c}) + One(MayCome(togo, c, s)')
  BY <1>1, <1>2, <1>4, CountOne
<1>7. Cardinality(Coming(togo, s))' = Cardinality(T)
  BY DEF T
<1> QED
  BY <1>3, <1>5, <1>6, <1>7 DEF S

\* To execute s costs one for s itself and for all that may follow it.
Price(togo, s, q) ==
  One(Known(s) /\ togo[instance.workflowId][q] <= togo[instance.workflowId][s])

LEMMA OneIsSmall == \A b : One(b) \in {0, 1} /\ (b => One(b) = 1) /\ (~ b => One(b) = 0)
BY DEF One

LEMMA Surplus ==
  ASSUME NEW m \in Nat, NEW x \in Nat, NEW k \in Nat, NEW p \in Nat, NEW y \in Nat,
         m + x <= k + y, k <= p
  PROVE  m + x <= p + y
OBVIOUS

LEMMA OnTop ==
  ASSUME NEW e \in Nat, NEW m \in Nat, NEW x \in Nat, NEW p \in Nat, NEW y \in Nat,
         m + x <= p + y
  PROVE  e + m + x <= e + p + y
OBVIOUS

LEMMA OneMore ==
  ASSUME NEW e \in Nat, NEW m \in Nat, NEW x \in Nat, NEW y \in Nat, m + x <= 0 + y
  PROVE  (e + 1) + m + x <= e + 1 + y
OBVIOUS

LEMMA DidCosts ==
  ASSUME NEW togo, GoesForward(togo), IndInv, IndInv', instance # NoInstance,
         NEW c \in Activities, NEW inst, NEW tm, NEW s,
         Keeps(inst), Did(c, inst, tm, s), NEW q \in DOMAIN Steps
  PROVE  /\ Executions(q) \in Nat /\ Executions(q)' \in Nat
         /\ faults \in Nat /\ faults' \in Nat
         /\ Executions(q)' + One(MayCome(togo, c, q)') + faults
              <= Executions(q) + Price(togo, s, q) + faults'
<1> DEFINE w == instance.workflowId
<1>1. /\ GoesOn /\ Alone(c) /\ Steps' = Steps
      /\ instance'.workflowId = w
      /\ instance' # NoInstance
  BY ActedGoesOn DEF GoesOn, Steps
<1>2. /\ IsInstance(instance) /\ IsInstance(inst) /\ inst.workflowId = w
      /\ IsInstance(instance')
      /\ Len(inst.executionHistory[q]) = Executions(q)
  BY <1>1, InvariantFacts DEF Keeps, Executions, IndInv, TypeOK
<1>3. /\ Executions(q) \in Nat
      /\ inst.executionHistory[q] \in Seq(Outcome)
      /\ q \in DOMAIN inst.executionHistory
  BY <1>2 DEF IsInstance, Steps, Executions
<1>4. Executions(q)' \in Nat
  <2>1. q \in DOMAIN instance'.executionHistory
        /\ instance'.executionHistory[q] \in Seq(Outcome)
    BY <1>1, <1>2 DEF IsInstance, Steps
  <2> QED
    BY <2>1 DEF Executions
<1>5. faults \in Nat /\ faults' \in Nat
  BY DEF IndInv, TypeOK
<1>6. \A u \in DOMAIN Steps : togo[w][u] \in Nat
  BY <1>2 DEF GoesForward, IsInstance, Steps
<1> DEFINE may == One(MayCome(togo, c, q)')
           price == Price(togo, s, q)
<1>7. may \in Nat /\ price \in Nat
  BY DEF Price, One
<1> SUFFICES Executions(q)' + may + faults <= Executions(q) + price + faults'
  BY <1>3, <1>4, <1>5
<1>0. may <= 1
  BY DEF One
<1>8. ASSUME Executions(q)' = Executions(q), may + faults <= price + faults'
      PROVE  Executions(q)' + may + faults <= Executions(q) + price + faults'
  <2>1. may + faults <= price + faults'
    BY <1>8
  <2> HIDE DEF may, price
  <2>2. Executions(q) + may + faults <= Executions(q) + price + faults'
    BY <1>3, <1>5, <1>7, <2>1, OnTop
  <2> QED
    BY <1>8, <2>2
<1>9. CASE Known(s) /\ Executed(c, inst, s)
  <2> DEFINE top == Last(chains'[c])
  <2>1. /\ chains'[c] # <<>> /\ top.at = "handler" /\ top.step = s
        /\ faults' = IF top.ok THEN faults ELSE faults + 1
        /\ instance'.executionHistory
             = [inst.executionHistory EXCEPT ![s] = Append(@, "running")]
    BY <1>9 DEF Executed, Awaiting
  <2>2. MayCome(togo, c, q)' <=> ~ top.ok \/ togo[w][q] < togo[w][s]
    BY <1>1, <2>1 DEF MayCome
  <2>3. s \in DOMAIN Steps
    BY <1>9 DEF Known
  <2>4. togo[w][q] \in Nat /\ togo[w][s] \in Nat
    BY <1>6, <2>3
  <2>5. price = One(togo[w][q] <= togo[w][s])
    BY <1>9 DEF Price
  <2> DEFINE after == One(togo[w][q] < togo[w][s])
  <2> HIDE DEF top
  <2>6. may + faults <= One(togo[w][q] < togo[w][s]) + faults'
    <3>1. CASE top.ok
      <4>1. may = One(togo[w][q] < togo[w][s])
        BY <2>2, <3>1 DEF One
      <4> HIDE DEF may
      <4> QED
        BY <1>5, <1>7, <2>1, <3>1, <4>1
    <3>2. CASE ~ top.ok
      <4>1. faults' = faults + 1
        BY <2>1, <3>2
      <4>2. One(togo[w][q] < togo[w][s]) \in Nat
        BY DEF One
      <4> HIDE DEF may
      <4> QED
        BY <1>5, <1>7, <1>0, <4>1, <4>2
    <3> QED
      BY <3>1, <3>2
  <2>7. CASE q = s
    <3>1. instance'.executionHistory[q] = Append(inst.executionHistory[q], "running")
      BY <1>3, <2>1, <2>7
    <3>2. Len(Append(inst.executionHistory[q], "running"))
            = Len(inst.executionHistory[q]) + 1
      BY <1>3
    <3>3. Executions(q)' = Executions(q) + 1
      <4>1. Executions(q)' = Len(instance'.executionHistory[q])
        BY DEF Executions
      <4> QED
        BY <1>2, <3>1, <3>2, <4>1
    <3>4. One(togo[w][q] < togo[w][s]) = 0 /\ price = 1
      BY <2>4, <2>5, <2>7 DEF One
    <3>5. may + faults <= 0 + faults'
      BY <2>6, <3>4
    <3>6. price = 1
      BY <3>4
    <3> HIDE DEF may, price
    <3>7. (Executions(q) + 1) + may + faults <= Executions(q) + 1 + faults'
      BY <1>3, <1>5, <1>7, <3>5, OneMore
    <3> QED
      BY <3>3, <3>6, <3>7
  <2>8. CASE q # s
    <3>1. instance'.executionHistory[q] = inst.executionHistory[q]
      BY <1>3, <2>1, <2>8
    <3>2. Executions(q)' = Executions(q)
      BY <1>2, <3>1 DEF Executions
    <3>3. One(togo[w][q] < togo[w][s]) <= price
      BY <2>4, <2>5, OneIsSmall DEF One
    <3>4. One(togo[w][q] < togo[w][s]) \in Nat
      BY DEF One
    <3>5. may + faults <= price + faults'
      <4>1. after <= price /\ after \in Nat /\ may + faults <= after + faults'
        BY <2>6, <3>3, <3>4
      <4> HIDE DEF may, price, after
      <4> QED
        BY <1>5, <1>7, <4>1, Surplus
    <3> QED
      BY <1>8, <3>2, <3>5
  <2> QED
    BY <2>7, <2>8
<1>10. CASE /\ instance'.executionHistory = inst.executionHistory
            /\ Ends(c) \/ Awaiting(c, "save")
  <2>1. Executions(q)' = Executions(q)
    BY <1>2, <1>10 DEF Executions
  <2>2. may + faults <= faults'
    <3>1. CASE Ends(c)
      <4>1. ~ MayCome(togo, c, q)' /\ faults' = faults
        BY <3>1 DEF Ends, MayCome
      <4>2. may = 0
        BY <4>1, OneIsSmall
      <4> QED
        BY <1>5, <4>1, <4>2
    <3>2. CASE Awaiting(c, "save")
      <4>1. /\ MayCome(togo, c, q)' => ~ Last(chains'[c]).ok
            /\ faults' = IF Last(chains'[c]).ok THEN faults ELSE faults + 1
        BY <3>2 DEF Awaiting, MayCome
      <4>2. CASE Last(chains'[c]).ok
        <5>1. may = 0 /\ faults' = faults
          BY <4>1, <4>2, OneIsSmall
        <5> QED
          BY <1>5, <5>1
      <4>3. CASE ~ Last(chains'[c]).ok
        <5>1. faults' = faults + 1
          BY <4>1, <4>3
        <5> HIDE DEF may
        <5> QED
          BY <1>5, <1>7, <1>0, <5>1
      <4> QED
        BY <4>2, <4>3
    <3> QED
      BY <1>10, <3>1, <3>2
  <2>3. may + faults <= price + faults'
    <3>1. may + faults <= 0 + faults'
      BY <1>5, <2>2
    <3> HIDE DEF may, price
    <3>2. 0 <= price /\ 0 \in Nat
      BY <1>7
    <3> QED
      BY <1>5, <1>7, <3>1, <3>2, Surplus
  <2> QED
    BY <1>8, <2>1, <2>3
<1>11. \/ Known(s) /\ Executed(c, inst, s)
       \/ /\ instance'.executionHistory = inst.executionHistory
          /\ Ends(c) \/ Awaiting(c, "save")
  <2>1. ASSUME NEW v, instance' = [inst EXCEPT !.status = v]
        PROVE  instance'.executionHistory = inst.executionHistory
    BY <1>2, <2>1 DEF IsInstance
  <2> QED
    BY <2>1 DEF Did
<1> QED
  BY <1>9, <1>10, <1>11

\* How many retries of R lead to s.
Cost(togo, R, s) == Cardinality(Leading(togo, R, s))

LEMMA LeadingIsFinite ==
  ASSUME NEW togo, NEW R, IsFiniteSet(R), NEW q
  PROVE  IsFiniteSet(Leading(togo, R, q)) /\ Cost(togo, R, q) \in Nat
<1>1. Leading(togo, R, q) \subseteq R
  BY DEF Leading
<1> QED
  BY <1>1, FS_Subset, FS_CardinalityType DEF Cost

LEMMA OneMoreRetry ==
  ASSUME NEW togo, NEW R, IsFiniteSet(R), NEW t, NEW q
  PROVE  /\ IsFiniteSet(R \cup {t})
         /\ Cost(togo, R \cup {t}, q) <= Cost(togo, R, q) + 1
<1> DEFINE A == Leading(togo, R, q)
           B == Leading(togo, R \cup {t}, q)
<1>1. IsFiniteSet(R \cup {t})
  BY FS_AddElement
<1>2. IsFiniteSet(A) /\ Cardinality(A) \in Nat /\ B \subseteq A \cup {t}
  BY LeadingIsFinite DEF Leading, Cost
<1> HIDE DEF A, B
<1>3. /\ IsFiniteSet(A \cup {t})
      /\ Cardinality(A \cup {t}) = IF t \in A THEN Cardinality(A) ELSE Cardinality(A) + 1
  BY <1>2, FS_AddElement
<1>4. Cardinality(B) \in Nat /\ Cardinality(A \cup {t}) \in Nat
      /\ Cardinality(B) <= Cardinality(A \cup {t})
  BY <1>2, <1>3, FS_Subset, FS_CardinalityType
<1>5. Cardinality(B) <= Cardinality(A) + 1
  BY <1>2, <1>3, <1>4
<1> QED
  BY <1>1, <1>5 DEF A, B, Cost

LEMMA OneRetryLess ==
  ASSUME NEW togo, NEW R, IsFiniteSet(R), NEW t \in R, NEW q
  PROVE  /\ IsFiniteSet(R \ {t})
         /\ Cost(togo, R, q)
              = Cost(togo, R \ {t}, q)
                  + One(togo[instance.workflowId][q] <= togo[instance.workflowId][t.step])
<1> DEFINE A == Leading(togo, R, q)
           b == togo[instance.workflowId][q] <= togo[instance.workflowId][t.step]
<1>1. IsFiniteSet(R \ {t})
  BY FS_RemoveElement
<1>2. IsFiniteSet(A) /\ b \in BOOLEAN /\ (t \in A <=> b)
  <2>1. IsFiniteSet(A)
    BY LeadingIsFinite
  <2>2. t \in A <=> b
    BY DEF Leading
  <2>3. b \in BOOLEAN
    OBVIOUS
  <2> QED
    BY <2>1, <2>2, <2>3
<1>3. Leading(togo, R \ {t}, q) = A \ {t}
  BY DEF Leading
<1> HIDE DEF A, b
<1>4. Cardinality(A) = Cardinality(A \ {t}) + One(b)
  BY <1>2, CountOne
<1> QED
  BY <1>1, <1>3, <1>4 DEF A, b, Cost

\* Every step of an activity is paid for: by what it could come to, by its retry
\* or by a prompt.
LEMMA Paid ==
  ASSUME NEW togo, GoesForward(togo), IndInv, IsFiniteSet(Retries(timers)),
         instance # NoInstance, NEW c \in Activities, NEW inst, NEW tm, NEW s,
         \/ Answered(c, inst, tm, s)
         \/ Resumed(c, inst, tm, s)
         \/ Refused(c, inst, tm, s)
         \/ Prompted(c, inst, tm, s)
         \/ Retried(c, inst, tm, s),
         NEW q \in DOMAIN Steps
  PROVE  /\ IsFiniteSet(Retries(tm))
         /\ Price(togo, s, q) + Cost(togo, Retries(tm), q) + prompts
              <= One(MayCome(togo, c, q)) + Cost(togo, Retries(timers), q) + prompts'
<1> DEFINE w == instance.workflowId
           R == Retries(timers)
           price == Price(togo, s, q)
           may == One(MayCome(togo, c, q))
<1>1. /\ price \in Nat /\ price <= 1
      /\ may \in Nat /\ (MayCome(togo, c, q) => may = 1)
      /\ prompts \in Nat /\ Cost(togo, R, q) \in Nat
  BY LeadingIsFinite DEF Price, One, IndInv, TypeOK
<1>2. \A u \in DOMAIN Steps : togo[w][u] \in Nat
  BY InvariantFacts DEF GoesForward, IsInstance, Steps
<1>3. ASSUME Retries(tm) = R, prompts' = prompts,
             Known(s) /\ togo[w][q] <= togo[w][s] => MayCome(togo, c, q)
      PROVE  /\ IsFiniteSet(Retries(tm))
             /\ price + Cost(togo, Retries(tm), q) + prompts
                  <= may + Cost(togo, R, q) + prompts'
  <2>1. price <= may
    BY <1>1, <1>3 DEF Price, One
  <2> HIDE DEF price, may, R
  <2>2. price + Cost(togo, R, q) + prompts <= may + Cost(togo, R, q) + prompts
    BY <1>1, <2>1
  <2> QED
    BY <1>3, <2>2 DEF R
<1>4. CASE Answered(c, inst, tm, s)
  <2> DEFINE u == Last(chains[c]).step
  <2>1. /\ chains[c] # <<>> /\ Last(chains[c]).at = "handler"
        /\ u \in DOMAIN Steps /\ s = NextStep(u)
        /\ Retries(tm) = R /\ prompts' = prompts
    BY <1>4 DEF Answered, Known
  <2>2. ASSUME Known(s), togo[w][q] <= togo[w][s]
        PROVE  MayCome(togo, c, q)
    <3>1. s \in {Steps[u].onSuccess, Steps[u].onFailure} /\ s \in DOMAIN Steps
      BY <2>1, <2>2 DEF NextStep, Known
    <3>2. togo[w][s] < togo[w][u]
      <4>1. w \in DOMAIN Definitions
        BY InvariantFacts DEF IsInstance
      <4> HIDE DEF u
      <4> QED
        BY <2>1, <3>1, <4>1 DEF GoesForward, Steps
    <3>3. togo[w][q] \in Nat /\ togo[w][s] \in Nat /\ togo[w][u] \in Nat
      BY <1>2, <2>1, <3>1
    <3>4. togo[w][q] < togo[w][u]
      <4> HIDE DEF u
      <4> QED
        BY <2>2, <3>2, <3>3
    <3> QED
      BY <2>1, <3>4 DEF MayCome
  <2> QED
    BY <1>3, <2>1, <2>2
<1>5. CASE Resumed(c, inst, tm, s)
  <2>1. Retries(tm) = R /\ prompts' = prompts
    BY <1>5 DEF Resumed
  <2>2. Known(s) => MayCome(togo, c, q)
    BY <1>5, NoneIsUnknown, InvariantFacts DEF Resumed, MayCome
  <2> QED
    BY <1>3, <2>1, <2>2
<1>6. CASE Refused(c, inst, tm, s)
  <2>1. MayCome(togo, c, q) /\ prompts' = prompts
    BY <1>6 DEF Refused, MayCome
  <2>2. CASE Retries(tm) = R
    BY <1>3, <2>1, <2>2
  <2>3. CASE s = None /\ \E t : Retries(tm) = R \cup {t}
    <3>1. ~ Known(s)
      BY <2>3, NoneIsUnknown, InvariantFacts
    <3>2. price = 0 /\ may = 1
      BY <1>1, <2>1, <3>1 DEF Price, One
    <3>3. /\ IsFiniteSet(Retries(tm))
          /\ Cost(togo, Retries(tm), q) <= Cost(togo, R, q) + 1
      BY <2>3, OneMoreRetry
    <3>4. Cost(togo, Retries(tm), q) \in Nat
      BY <3>3, LeadingIsFinite
    <3> HIDE DEF price, may, R
    <3>5. 0 + Cost(togo, Retries(tm), q) + prompts <= 1 + Cost(togo, R, q) + prompts
      BY <1>1, <3>3, <3>4
    <3> QED
      BY <2>1, <3>2, <3>3, <3>5 DEF R, price, may
  <2> QED
    BY <1>6, <2>2, <2>3 DEF Refused
<1>7. CASE Prompted(c, inst, tm, s)
  <2>1. Retries(tm) = R /\ prompts' = prompts + 1
    BY <1>7 DEF Prompted
  <2> HIDE DEF price, may, R
  <2>2. price + Cost(togo, R, q) + prompts <= may + Cost(togo, R, q) + (prompts + 1)
    BY <1>1
  <2> QED
    BY <2>1, <2>2 DEF R, price, may
<1>8. CASE Retried(c, inst, tm, s)
  <2>1. PICK t \in R : s = t.step /\ Retries(tm) = R \ {t}
    BY <1>8 DEF Retried
  <2>2. prompts' = prompts
    BY <1>8 DEF Retried
  <2> DEFINE one == One(togo[w][q] <= togo[w][t.step])
  <2>3. price <= one /\ one \in Nat
    BY <2>1 DEF Price, One
  <2>4. IsFiniteSet(Retries(tm)) /\ Cost(togo, R, q) = Cost(togo, Retries(tm), q) + one
    BY <2>1, OneRetryLess
  <2>5. Cost(togo, Retries(tm), q) \in Nat
    BY <2>4, LeadingIsFinite
  <2> HIDE DEF price, may, R, one
  <2>6. price + Cost(togo, Retries(tm), q) + prompts
          <= may + (Cost(togo, Retries(tm), q) + one) + prompts
    BY <1>1, <2>3, <2>5
  <2> QED
    BY <2>2, <2>4, <2>6 DEF R, price, may
<1> QED
  BY <1>4, <1>5, <1>6, <1>7, <1>8

LEMMA ActedInBudget ==
  ASSUME NEW togo, GoesForward(togo), IndInv, IndInv', InBudget(togo),
         NEW c \in Activities, Acted(c)
  PROVE  InBudget(togo)'
<1>1. PICK inst, tm, s :
       /\ Keeps(inst) /\ Did(c, inst, tm, s)
       /\ \/ Answered(c, inst, tm, s)
          \/ Resumed(c, inst, tm, s)
          \/ Refused(c, inst, tm, s)
          \/ Prompted(c, inst, tm, s)
          \/ Retried(c, inst, tm, s)
  BY DEF Acted
<1>2. instance # NoInstance
  BY DEF Acted
<1>3. /\ Alone(c) /\ instance' # NoInstance /\ Steps' = Steps
      /\ instance'.workflowId = instance.workflowId
  BY <1>1, <1>2, ActedGoesOn DEF GoesOn, Steps
<1>4. IsFiniteSet(Retries(timers)) /\ Retries(timers') = Retries(tm)
  BY <1>1 DEF InBudget, Did
<1>5. DOMAIN Steps # {}
  BY <1>2, InvariantFacts, EngineAssumption DEF IsInstance, Steps
<1>6. IsFiniteSet(Retries(tm))
  BY <1>1, <1>2, <1>4, <1>5, Paid
<1>7. prompts \in Nat /\ prompts' \in Nat
  BY DEF IndInv, TypeOK
<1>8. ASSUME NEW q \in DOMAIN Steps
      PROVE  Executions(q)' + Cardinality(Coming(togo, q))'
                 + Cost(togo, Retries(timers'), q)
               <= 1 + prompts' + faults'
  <2> DEFINE may == One(MayCome(togo, c, q))
             may1 == One(MayCome(togo, c, q)')
             price == Price(togo, s, q)
             cost == Cost(togo, Retries(timers), q)
             cost1 == Cost(togo, Retries(tm), q)
  <2>1. PICK n \in Nat : /\ Cardinality(Coming(togo, q)) = n + may
                         /\ Cardinality(Coming(togo, q))' = n + may1
    BY <1>3, OnlyOneComes
  <2>2. /\ Executions(q) \in Nat /\ Executions(q)' \in Nat
        /\ faults \in Nat /\ faults' \in Nat
        /\ Executions(q)' + may1 + faults <= Executions(q) + price + faults'
    BY <1>1, <1>2, DidCosts
  <2>3. price + cost1 + prompts <= may + cost + prompts'
    BY <1>1, <1>2, <1>4, Paid
  <2>4. cost \in Nat /\ cost1 \in Nat
    BY <1>4, <1>6, LeadingIsFinite
  <2>5. may \in Nat /\ may1 \in Nat /\ price \in Nat
    BY DEF One, Price
  <2>6. Executions(q) + Cardinality(Coming(togo, q)) + cost <= 1 + prompts + faults
    BY <1>2 DEF InBudget, Cost
  <2> HIDE DEF may, may1, price, cost, cost1
  <2>7. Executions(q) + (n + may) + cost <= 1 + prompts + faults
    BY <2>1, <2>6
  <2>8. Executions(q)' + (n + may1) + cost1 <= 1 + prompts' + faults'
    <3> DEFINE e == Executions(q)
               e1 == Executions(q)'
               x == faults
               x1 == faults'
               y == prompts
               y1 == prompts'
    <3>1. /\ e \in Nat /\ e1 \in Nat /\ x \in Nat /\ x1 \in Nat
          /\ y \in Nat /\ y1 \in Nat
      BY <1>7, <2>2
    <3>2. e1 + may1 + x <= e + price + x1 /\ price + cost1 + y <= may + cost + y1
      BY <2>2, <2>3
    <3>3. e + (n + may) + cost <= 1 + y + x
      BY <2>7
    <3> HIDE DEF e, e1, x, x1, y, y1
    <3>4. e1 + (n + may1) + cost1 <= 1 + y1 + x1
      BY <2>4, <2>5, <3>1, <3>2, <3>3
    <3> QED
      BY <3>4 DEF e1, y1, x1
  <2> QED
    BY <1>4, <2>1, <2>8 DEF cost1
<1>9. ASSUME NEW q
      PROVE  Cardinality(Leading(togo, Retries(timers), q))'
               = Cost(togo, Retries(timers'), q)
  BY <1>3 DEF Cost, Leading, Retries
<1> QED
  BY <1>3, <1>4, <1>6, <1>8, <1>9 DEF InBudget, Retries

LEMMA StartInBudget ==
  ASSUME NEW togo, IndInv, NEW w \in DOMAIN Definitions, StartWorkflow(w)
  PROVE  InBudget(togo)'
<1>1. /\ timers' = {} /\ \A c \in Activities : chains[c] = <<>>
      /\ \A s \in DOMAIN Steps' : Executions(s)' = 0
      /\ \E c \in Activities : Awaiting(c, "start")
  BY StartEffect
<1>2. PICK c \in Activities : Awaiting(c, "start")
  BY <1>1
<1>3. Retries(timers)' = {}
  BY <1>1 DEF Retries
<1>4. IsFiniteSet(Retries(timers)')
  BY <1>3, FS_EmptySet
<1>5. ASSUME NEW q
      PROVE  Cardinality(Leading(togo, Retries(timers), q))' = 0
  <2>1. Leading(togo, Retries(timers), q)' = {}
    BY <1>3 DEF Leading
  <2> QED
    BY <2>1, FS_EmptySet
<1>6. ASSUME NEW q
      PROVE  Cardinality(Coming(togo, q))' \in Nat /\ Cardinality(Coming(togo, q))' <= 1
  <2>1. Coming(togo, q)' \subseteq {c}
    BY <1>1, <1>2 DEF Coming, MayCome, Awaiting, Alone
  <2>2. IsFiniteSet({c}) /\ Cardinality({c}) = 1
    BY FS_Singleton
  <2> QED
    BY <2>1, <2>2, FS_Subset, FS_CardinalityType
<1>7. prompts' \in Nat /\ faults' \in Nat
  <2>1. prompts' = prompts /\ (faults' = faults \/ faults' = faults + 1)
    BY <1>2, StartEffect DEF Awaiting
  <2>2. prompts \in Nat /\ faults \in Nat
    BY DEF IndInv, TypeOK
  <2> QED
    BY <2>1, <2>2
<1>8. ASSUME NEW q \in DOMAIN Steps'
      PROVE  Executions(q)' + Cardinality(Coming(togo, q))'
                 + Cardinality(Leading(togo, Retries(timers), q))'
               <= 1 + prompts' + faults'
  <2>1. Executions(q)' = 0
    BY <1>1
  <2> QED
    BY <1>5, <1>6, <1>7, <2>1
<1> QED
  BY <1>4, <1>8 DEF InBudget

LEMMA StepInBudget ==
  ASSUME NEW togo, GoesForward(togo)
  PROVE  IndInv /\ IndInv' /\ InBudget(togo) /\ [Next]_vars => InBudget(togo)'
<1> SUFFICES ASSUME IndInv, IndInv', InBudget(togo), [Next]_vars
             PROVE  InBudget(togo)'
  OBVIOUS
<1>1. CASE \E w \in DOMAIN Definitions : StartWorkflow(w)
  BY <1>1, StartInBudget
<1>2. CASE \E c \in Activities : Acted(c)
  BY <1>2, ActedInBudget
<1>3. CASE /\ UNCHANGED <<instance, chains, prompts, faults>>
           /\ Retries(timers') = Retries(timers)
  <2>1. Retries(timers)' = Retries(timers)
    BY <1>3 DEF Retries
  <2> QED
    BY <1>3, <2>1 DEF InBudget, Steps, Executions, Coming, MayCome, Leading, NoInstance
<1> QED
  BY <1>1, <1>2, <1>3, EveryStep

\* In a workflow whose steps never come back, a step is executed once, and once
\* more for every decision, timeout or failed Redis command: nothing else makes
\* executeStep, its catch blocks, the retries and the monitor repeat a service
\* call.  The hypothesis says what the registered workflows satisfy.
THEOREM RerunsAreBounded ==
  ASSUME NEW togo, GoesForward(togo)
  PROVE  Spec => []RerunsAreAccountedFor
<1>1. Init => InBudget(togo)
  <2> SUFFICES ASSUME Init PROVE InBudget(togo)
    OBVIOUS
  <2>1. Retries(timers) = {}
    BY DEF Init, Retries
  <2> QED
    BY <2>1, FS_EmptySet DEF Init, InBudget
<1>2. IndInv /\ InBudget(togo) => RerunsAreAccountedFor
  <2> SUFFICES ASSUME IndInv, InBudget(togo), instance # NoInstance,
                      NEW s \in DOMAIN Steps
               PROVE  Executions(s) <= 1 + prompts + faults
    BY DEF RerunsAreAccountedFor
  <2> DEFINE coming == Cardinality(Coming(togo, s))
             leading == Cost(togo, Retries(timers), s)
  <2>1. Executions(s) + coming + leading <= 1 + prompts + faults
    BY DEF InBudget, Cost
  <2>2. coming \in Nat /\ leading \in Nat
    <3>1. Coming(togo, s) \subseteq Activities
      BY DEF Coming
    <3> QED
      BY <3>1, FiniteActivities, LeadingIsFinite DEF InBudget
  <2>3. Executions(s) \in Nat /\ prompts \in Nat /\ faults \in Nat
    <3>1. instance.executionHistory[s] \in Seq(Outcome)
      BY InvariantFacts DEF IsInstance, Steps
    <3> QED
      BY <3>1 DEF Executions, IndInv, TypeOK
  <2> HIDE DEF coming, leading
  <2> QED
    BY <2>1, <2>2, <2>3
<1> QED
  BY <1>1, <1>2, Invariant, StepInBudget, PTL DEF Spec
=============================================================================
