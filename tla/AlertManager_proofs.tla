------------------------- MODULE AlertManager_proofs -------------------------
(***************************************************************************)
(* Proofs about AlertManager, for every set of actions, matches, batches,  *)
(* configurations, limits, windows and faults.                             *)
(***************************************************************************)
EXTENDS AlertManager, TLAPS

-----------------------------------------------------------------------------
(* Facts about the operators of the model.                                 *)

Fates == {"new", "open", "enqueued", "suppressed", "lost"}

(* Fated changes the given matches and no other. *)
LEMMA FatedFacts ==
    ASSUME fate \in [Matches -> Fates], NEW ms, NEW f \in Fates
    PROVE  /\ Fated(ms, f) \in [Matches -> Fates]
           /\ \A m \in Matches : Fated(ms, f)[m] = IF m \in ms THEN f ELSE fate[m]
BY DEF Fated

(* Where the loop goes after a match tells what it has left to do. *)
LEMMA AfterMatchFacts ==
    ASSUME NEW rest, NEW now
    PROVE  /\ AfterMatch(rest, now) \in {"match", "immediate", "recv"}
           /\ AfterMatch(rest, now) = "match" => rest # <<>>
           /\ AfterMatch(rest, now) = "immediate" => now # {} /\ rest = <<>>
           /\ AfterMatch(rest, now) = "recv" => now = {} /\ rest = <<>>
BY DEF AfterMatch

(* One tick keeps an age in its range. *)
LEMMA OlderFacts ==
    ASSUME NEW w \in Nat, NEW age \in 0..(w + 1)
    PROVE  Older(age, w) \in 0..(w + 1)
BY DEF Older

(* One tick ages every throttle state and changes no count. *)
LEMMA AgeTFacts ==
    ASSUME NEW f \in ThrottleStates
    PROVE  /\ AgeT(f) \in ThrottleStates
           /\ \A a \in Actions : /\ AgeT(f)[a].count = f[a].count
                                 /\ AgeT(f)[a].age = Older(f[a].age, ThrottleWindow)
<1>1. \A a \in Actions : /\ f[a] \in [count : 0..MaxCount, age : 0..(ThrottleWindow + 1)]
                         /\ f[a].age \in 0..(ThrottleWindow + 1)
  BY DEF ThrottleStates
<1>2. \A a \in Actions : Older(f[a].age, ThrottleWindow) \in 0..(ThrottleWindow + 1)
  BY <1>1, OlderFacts, AlertAssumption
<1>3. \A a \in Actions : AgeT(f)[a] = [f[a] EXCEPT !.age = Older(f[a].age, ThrottleWindow)]
  BY DEF AgeT
<1>4. \A a \in Actions : /\ AgeT(f)[a] \in [count : 0..MaxCount, age : 0..(ThrottleWindow + 1)]
                         /\ AgeT(f)[a].count = f[a].count
                         /\ AgeT(f)[a].age = Older(f[a].age, ThrottleWindow)
  BY <1>1, <1>2, <1>3
<1>5. AgeT(f) = [a \in Actions |-> AgeT(f)[a]]
  BY DEF AgeT
<1>6. QED BY <1>4, <1>5 DEF ThrottleStates

(* One tick changes the matches of no window. *)
LEMMA AgeAFacts ==
    ASSUME NEW f \in AggStates
    PROVE  /\ AgeA(f) \in AggStates
           /\ \A a \in Actions : AgeA(f)[a].matches = f[a].matches
<1>1. \A a \in Actions : /\ f[a] \in [matches : SUBSET Matches, age : 0..(AggWindow + 1)]
                         /\ f[a].age \in 0..(AggWindow + 1)
  BY DEF AggStates
<1>2. \A a \in Actions : Older(f[a].age, AggWindow) \in 0..(AggWindow + 1)
  BY <1>1, OlderFacts, AlertAssumption
<1>3. \A a \in Actions :
        AgeA(f)[a] = IF f[a].matches = {} THEN f[a]
                     ELSE [f[a] EXCEPT !.age = Older(f[a].age, AggWindow)]
  BY DEF AgeA
<1>4. \A a \in Actions : /\ AgeA(f)[a] \in [matches : SUBSET Matches, age : 0..(AggWindow + 1)]
                         /\ AgeA(f)[a].matches = f[a].matches
  BY <1>1, <1>2, <1>3
<1>5. AgeA(f) = [a \in Actions |-> AgeA(f)[a]]
  BY DEF AgeA
<1>6. QED BY <1>4, <1>5 DEF AggStates

(* Fresh states are states. *)
LEMMA FreshFacts ==
    /\ FreshThrottle \in ThrottleStates
    /\ FreshAgg \in AggStates
    /\ \A a \in Actions : FreshAgg[a].matches = {}
<1>1. 0 \in 0..MaxCount /\ ThrottleWindow + 1 \in 0..(ThrottleWindow + 1) /\ 0 \in 0..(AggWindow + 1)
  BY AlertAssumption
<1>2. QED BY <1>1 DEF FreshThrottle, FreshAgg, ThrottleStates, AggStates

(* The first match of a nonempty batch, and the rest. *)
LEMMA TakeFacts ==
    ASSUME IInv, NEW m \in Matches, Take(m)
    PROVE  /\ apc = "match" /\ up = "running" /\ sending = NoMatch
           /\ batch' = Tail(batch) /\ Tail(batch) \in Seq(Matches)
           /\ m # NoMatch /\ ActionOf[m] \in Actions
<1>1. apc = "match" /\ batch # <<>> /\ batch \in Seq(Matches) /\ batch' = Tail(batch)
  BY DEF Take, IInv, TaskInv
<1>2. up = "running" /\ sending = NoMatch
  BY <1>1 DEF IInv, TypeOK
<1>3. Tail(batch) \in Seq(Matches)
  BY <1>1
<1>4. QED BY <1>1, <1>2, <1>3, AlertAssumption

(* What counts of an action's throttle state when nothing of it changes.   *)
LEMMA FramedCount ==
    ASSUME CountInv, UNCHANGED <<up, savedT, throttle, sending, windowAge, sent, forgotten>>
    PROVE  CountInv'
BY DEF CountInv, Counted, InFlight

(* While the tasks run, nothing is asked of the flush. *)
LEMMA RunningFlush ==
    ASSUME up' # "flushing"
    PROVE  FlushInv'
BY DEF FlushInv

-----------------------------------------------------------------------------
(* The invariant, action by action.                                        *)

(* Nothing is held before the first boot. *)
LEMMA InitIInv == Init => IInv
<1> SUFFICES ASSUME Init PROVE IInv
  OBVIOUS
<1>1. TypeOK
  BY FreshFacts DEF Init, TypeOK
<1>2. TaskInv
  <2>1. windowAge \in [Actions -> 0..(ThrottleWindow + 1)] /\ sent \in [Actions -> 0..(MaxCount + 1)]
    BY AlertAssumption DEF Init
  <2>2. <<>> \in Seq(Matches)
    OBVIOUS
  <2>3. QED BY <2>1, <2>2 DEF Init, TaskInv
<1>3. FlushInv
  BY DEF Init, FlushInv
<1>4. CountInv
  <2>1. \A a \in Actions : FreshThrottle[a].age = ThrottleWindow + 1 /\ FreshThrottle[a].count = 0
    BY DEF FreshThrottle
  <2>2. \A a \in Actions : Counted(a) = FreshThrottle[a] /\ InFlight(a) = 0
    BY DEF Init, Counted, InFlight
  <2>3. \A a \in Actions : windowAge[a] = ThrottleWindow + 1 /\ sent[a] = 0
    BY DEF Init
  <2>4. ASSUME NEW a \in Actions
        PROVE  windowAge[a] = Counted(a).age /\ sent[a] + InFlight(a) <= Counted(a).count
    <3>1. Counted(a).count = 0 /\ sent[a] = 0 /\ InFlight(a) = 0
      BY <2>1, <2>2, <2>3
    <3>2. QED BY <2>1, <2>2, <2>3, <3>1
  <2>5. QED BY <2>4 DEF CountInv
<1>5. AlertsAccountedFor
  BY DEF Init, AlertsAccountedFor
<1>6. QED BY <1>1, <1>2, <1>3, <1>4, <1>5 DEF IInv

(* Time passes in memory, in the saved rows and for the real window alike. *)
LEMMA TickStep ==
    ASSUME IInv, Tick
    PROVE  IInv'
<1>1. /\ throttle' = AgeT(throttle) /\ savedT' = AgeT(savedT) /\ snapT' = AgeT(snapT)
      /\ agg' = AgeA(agg) /\ savedA' = AgeA(savedA) /\ snapA' = AgeA(snapA)
      /\ windowAge' = [a \in Actions |-> Older(windowAge[a], ThrottleWindow)]
      /\ UNCHANGED <<up, policy, apc, batch, sending, immediate, received, dpc, taken, left,
                     fate, sent, forgotten>>
  BY DEF Tick, loop
<1>2. /\ throttle \in ThrottleStates /\ savedT \in ThrottleStates /\ snapT \in ThrottleStates
      /\ agg \in AggStates /\ savedA \in AggStates /\ snapA \in AggStates
  BY DEF IInv, TypeOK
<1>3. /\ throttle' \in ThrottleStates /\ savedT' \in ThrottleStates /\ snapT' \in ThrottleStates
      /\ agg' \in AggStates /\ savedA' \in AggStates /\ snapA' \in AggStates
  BY <1>1, <1>2, AgeTFacts, AgeAFacts
<1>4. \A a \in Actions : /\ agg'[a].matches = agg[a].matches
                         /\ savedA'[a].matches = savedA[a].matches
                         /\ snapA'[a].matches = snapA[a].matches
  BY <1>1, <1>2, AgeAFacts
<1>5. TypeOK'
  BY <1>1, <1>3 DEF IInv, TypeOK
<1>6. TaskInv'
  <2>1. \A a \in Actions : Older(windowAge[a], ThrottleWindow) \in 0..(ThrottleWindow + 1)
    BY OlderFacts, AlertAssumption DEF IInv, TaskInv
  <2>2. windowAge' \in [Actions -> 0..(ThrottleWindow + 1)]
    BY <1>1, <2>1
  <2>3. QED BY <1>1, <2>2 DEF IInv, TaskInv
<1>7. FlushInv'
  <2>1. \A a \in Actions : savedT[a] = throttle[a] => savedT'[a] = throttle'[a]
    BY <1>1 DEF AgeT
  <2>2. snapT = throttle => snapT' = throttle'
    BY <1>1
  <2>3. QED BY <1>1, <1>4, <2>1, <2>2 DEF IInv, FlushInv
<1>8. CountInv'
  <2>1. \A a \in Actions : /\ windowAge'[a] = Older(windowAge[a], ThrottleWindow)
                           /\ throttle'[a].count = throttle[a].count
                           /\ throttle'[a].age = Older(throttle[a].age, ThrottleWindow)
                           /\ savedT'[a].count = savedT[a].count
                           /\ savedT'[a].age = Older(savedT[a].age, ThrottleWindow)
    BY <1>1, <1>2, AgeTFacts
  <2>2. \A a \in Actions : InFlight(a)' = InFlight(a)
    BY <1>1 DEF InFlight
  <2>3. ASSUME NEW a \in Actions \ forgotten'
        PROVE  windowAge'[a] = Counted(a)'.age /\ sent'[a] + InFlight(a)' <= Counted(a)'.count
    <3>1. windowAge[a] = Counted(a).age /\ sent[a] + InFlight(a) <= Counted(a).count
      BY <1>1 DEF IInv, CountInv
    <3>2. Counted(a)'.count = Counted(a).count
          /\ Counted(a)'.age = Older(Counted(a).age, ThrottleWindow)
      BY <1>1, <2>1 DEF Counted
    <3>3. QED BY <1>1, <2>1, <2>2, <3>1, <3>2
  <2>4. QED BY <2>3 DEF CountInv
<1>9. AlertsAccountedFor'
  <2>1. Held' = Held
    <3>1. Aggregated(agg)' = Aggregated(agg) /\ Aggregated(savedA)' = Aggregated(savedA)
      BY <1>4 DEF Aggregated
    <3>2. InPayloads(taken)' = InPayloads(taken) /\ InLoop' = InLoop
      BY <1>1 DEF InPayloads, InLoop
    <3>3. QED BY <1>1, <3>1, <3>2 DEF Held
  <2>2. QED BY <1>1, <2>1 DEF IInv, AlertsAccountedFor
<1>10. QED BY <1>5, <1>6, <1>7, <1>8, <1>9 DEF IInv

(* The loop's control after a match, for the parts every handler shares.   *)
LEMMA LoopTypes ==
    ASSUME IInv, NEW m \in Matches, Take(m),
           throttle' \in ThrottleStates, agg' \in AggStates,
           immediate' \subseteq Matches, sending' \in {NoMatch, m},
           \/ sending' = NoMatch /\ apc' = AfterMatch(Tail(batch), immediate')
           \/ sending' = m /\ apc' = "throttle",
           fate' \in [Matches -> Fates],
           windowAge' \in [Actions -> 0..(ThrottleWindow + 1)],
           sent' \in [Actions -> 0..(MaxCount + 1)], forgotten' \subseteq Actions,
           UNCHANGED <<up, policy, savedT, savedA, received, dpc, taken, snapT, snapA, left>>
    PROVE  TypeOK' /\ TaskInv' /\ FlushInv'
<1>1. /\ apc = "match" /\ up = "running" /\ sending = NoMatch /\ m # NoMatch
      /\ batch' = Tail(batch) /\ Tail(batch) \in Seq(Matches)
  BY TakeFacts
<1>2. /\ apc' \in {"match", "immediate", "recv", "throttle"}
      /\ apc' = "throttle" <=> sending' # NoMatch
      /\ apc' = "match" => batch' # <<>>
      /\ apc' = "immediate" => immediate' # {} /\ batch' = <<>>
      /\ apc' = "recv" => immediate' = {} /\ batch' = <<>>
  BY <1>1, AfterMatchFacts
<1>3. TypeOK'
  BY <1>1, <1>2 DEF IInv, TypeOK, Fates
<1>4. TaskInv'
  BY <1>1 DEF IInv, TaskInv
<1>5. FlushInv'
  BY <1>1, RunningFlush
<1>6. QED BY <1>3, <1>4, <1>5

(* The typed parts of the state before a step. *)
LEMMA Typed ==
    ASSUME IInv
    PROVE  /\ fate \in [Matches -> Fates]
           /\ throttle \in ThrottleStates /\ agg \in AggStates
           /\ windowAge \in [Actions -> 0..(ThrottleWindow + 1)]
           /\ sent \in [Actions -> 0..(MaxCount + 1)] /\ forgotten \subseteq Actions
           /\ immediate \subseteq Matches /\ sending \in Matches \cup {NoMatch}
BY DEF IInv, TypeOK, TaskInv, Fates

(* The loop receives a batch. *)
LEMMA ReceiveStep ==
    ASSUME IInv, NEW b \in Batches, Receive(b)
    PROVE  IInv'
<1>1. /\ up = "running" /\ apc = "recv" /\ apc' = "match" /\ batch' = b
      /\ UNCHANGED <<up, policy, throttle, agg, savedT, savedA, sending, immediate,
                     dpc, taken, snapT, snapA, left, fate, windowAge, sent, forgotten>>
  BY DEF Receive, memory, saved, dispatcher, history, limits
<1>2. b \in Seq(Matches) /\ b # <<>>
  BY AlertAssumption
<1>3. TypeOK' /\ TaskInv'
  BY <1>1, <1>2 DEF IInv, TypeOK, TaskInv
<1>4. CountInv' /\ FlushInv'
  BY <1>1, FramedCount, RunningFlush DEF IInv
<1>5. AlertsAccountedFor'
  <2>1. Held' = Held
    BY <1>1 DEF Held, InLoop, InPayloads, Aggregated
  <2>2. QED BY <1>1, <2>1 DEF IInv, AlertsAccountedFor
<1>6. QED BY <1>3, <1>4, <1>5 DEF IInv

(* A match of an unknown action is given up. *)
LEMMA SkipUnknownStep ==
    ASSUME IInv, NEW m \in Matches, SkipUnknown(m)
    PROVE  IInv'
<1>1. /\ Take(m) /\ apc' = AfterMatch(Tail(batch), immediate)
      /\ fate' = Fated({m}, "lost")
      /\ UNCHANGED <<up, policy, throttle, agg, savedT, savedA, sending, immediate, received,
                     dpc, taken, snapT, snapA, left, windowAge, sent, forgotten>>
  BY DEF SkipUnknown, memory, saved, dispatcher, limits
<1>2. sending = NoMatch /\ up = "running"
  BY <1>1, TakeFacts
<1>3. /\ fate' \in [Matches -> Fates]
      /\ \A n \in Matches : fate'[n] = IF n = m THEN "lost" ELSE fate[n]
  BY <1>1, Typed, FatedFacts DEF Fates
<1>4. TypeOK' /\ TaskInv' /\ FlushInv'
  BY <1>1, <1>2, <1>3, Typed, LoopTypes
<1>5. CountInv'
  BY <1>1, FramedCount DEF IInv
<1>6. AlertsAccountedFor'
  <2>1. Held' = Held
    BY <1>1 DEF Held, InLoop, InPayloads, Aggregated
  <2>2. QED BY <1>3, <2>1 DEF IInv, AlertsAccountedFor
<1>7. QED BY <1>4, <1>5, <1>6 DEF IInv

(* A match without policy waits for the end of the batch. *)
LEMMA CollectImmediateStep ==
    ASSUME IInv, NEW m \in Matches, CollectImmediate(m)
    PROVE  IInv'
<1>1. /\ Take(m) /\ immediate' = immediate \cup {m}
      /\ apc' = AfterMatch(Tail(batch), immediate')
      /\ fate' = Fated({m}, "open")
      /\ UNCHANGED <<up, policy, throttle, agg, savedT, savedA, sending, received,
                     dpc, taken, snapT, snapA, left, windowAge, sent, forgotten>>
  BY DEF CollectImmediate, memory, saved, dispatcher, limits
<1>2. sending = NoMatch /\ up = "running" /\ m # NoMatch
  BY <1>1, TakeFacts
<1>3. /\ fate' \in [Matches -> Fates]
      /\ \A n \in Matches : fate'[n] = IF n = m THEN "open" ELSE fate[n]
  BY <1>1, Typed, FatedFacts DEF Fates
<1>4. TypeOK' /\ TaskInv' /\ FlushInv'
  BY <1>1, <1>2, <1>3, Typed, LoopTypes
<1>5. CountInv'
  BY <1>1, FramedCount DEF IInv
<1>6. AlertsAccountedFor'
  <2>1. Held' = Held \cup {m}
    BY <1>1, <1>2 DEF Held, InLoop, InPayloads, Aggregated
  <2>2. QED BY <1>3, <2>1 DEF IInv, AlertsAccountedFor
<1>7. QED BY <1>4, <1>5, <1>6 DEF IInv

(* A match joins its action's window. *)
LEMMA HandleAggregationStep ==
    ASSUME IInv, NEW m \in Matches, HandleAggregation(m)
    PROVE  IInv'
<1> DEFINE a == ActionOf[m]
           joined == [matches |-> agg[a].matches \cup {m},
                      age |-> IF agg[a].matches = {} THEN 0 ELSE agg[a].age]
<1>1. /\ Take(m) /\ agg' = [agg EXCEPT ![a] = joined]
      /\ apc' = AfterMatch(Tail(batch), immediate)
      /\ fate' = Fated({m}, "open")
      /\ UNCHANGED <<up, policy, throttle, savedT, savedA, sending, immediate, received,
                     dpc, taken, snapT, snapA, left, windowAge, sent, forgotten>>
  BY DEF HandleAggregation, saved, dispatcher, limits
<1>2. sending = NoMatch /\ up = "running" /\ a \in Actions
  BY <1>1, TakeFacts
<1>3. /\ fate' \in [Matches -> Fates]
      /\ \A n \in Matches : fate'[n] = IF n = m THEN "open" ELSE fate[n]
  BY <1>1, Typed, FatedFacts DEF Fates
<1>4. agg' \in AggStates
  <2>1. agg[a] \in [matches : SUBSET Matches, age : 0..(AggWindow + 1)]
    BY <1>2, Typed DEF AggStates
  <2>2. joined \in [matches : SUBSET Matches, age : 0..(AggWindow + 1)]
    BY <2>1, AlertAssumption
  <2> HIDE DEF joined, a
  <2>3. QED BY <1>1, <1>2, <2>2, Typed DEF AggStates
<1>5. TypeOK' /\ TaskInv' /\ FlushInv'
  BY <1>1, <1>2, <1>3, <1>4, Typed, LoopTypes
<1>6. CountInv'
  BY <1>1, FramedCount DEF IInv
<1>7. AlertsAccountedFor'
  <2>1. /\ agg'[a].matches = agg[a].matches \cup {m}
        /\ \A c \in Actions \ {a} : agg'[c].matches = agg[c].matches
    BY <1>1, <1>2, Typed DEF AggStates
  <2> HIDE DEF joined, a
  <2>2. Aggregated(agg) \cup {m} \subseteq Aggregated(agg)'
    <3>1. \A c \in Actions : agg[c].matches \subseteq agg'[c].matches
      BY <2>1
    <3>2. QED BY <1>2, <2>1, <3>1 DEF Aggregated
  <2>3. Held \cup {m} \subseteq Held'
    BY <1>1, <1>2, <2>2 DEF Held, InLoop, InPayloads
  <2>4. QED BY <1>3, <2>3 DEF IInv, AlertsAccountedFor
<1>8. QED BY <1>5, <1>6, <1>7 DEF IInv

(* A throttled match is counted or suppressed.  A window that expired both *)
(* in memory and by the clock starts again.                                *)
LEMMA HandleThrottleStep ==
    ASSUME IInv, NEW m \in Matches, HandleThrottle(m)
    PROVE  IInv'
<1> DEFINE a == ActionOf[m]
           t == Current(throttle[a])
           counted == [t EXCEPT !.count = t.count + 1]
           renewed == Expired(throttle[a]) /\ windowAge[a] > ThrottleWindow
<1>1. /\ Take(m)
      /\ \/ /\ MayDispatch(t) /\ throttle' = [throttle EXCEPT ![a] = counted]
            /\ sending' = m /\ apc' = "throttle" /\ fate' = Fated({m}, "open")
         \/ /\ throttle' = [throttle EXCEPT ![a] = t]
            /\ sending' = sending /\ apc' = AfterMatch(Tail(batch), immediate)
            /\ fate' = Fated({m}, "suppressed")
      /\ \/ /\ renewed /\ windowAge' = [windowAge EXCEPT ![a] = 0]
            /\ sent' = [sent EXCEPT ![a] = 0] /\ forgotten' = forgotten \ {a}
         \/ ~renewed /\ UNCHANGED <<windowAge, sent, forgotten>>
      /\ UNCHANGED <<up, policy, agg, savedT, savedA, immediate, received,
                     dpc, taken, snapT, snapA, left>>
  BY DEF HandleThrottle, saved, dispatcher, limits
<1>2. sending = NoMatch /\ up = "running" /\ a \in Actions /\ m # NoMatch
  BY <1>1, TakeFacts
<1>3. throttle[a] \in [count : 0..MaxCount, age : 0..(ThrottleWindow + 1)]
  BY <1>2, Typed DEF ThrottleStates
<1>4. /\ t \in [count : 0..MaxCount, age : 0..(ThrottleWindow + 1)]
      /\ Expired(throttle[a]) => t.count = 0 /\ t.age = 0
      /\ ~Expired(throttle[a]) => t = throttle[a]
  BY <1>3, AlertAssumption DEF Current
<1>5. Expired(throttle[a]) <=> throttle[a].age > ThrottleWindow
  BY DEF Expired
<1>6. MayDispatch(t) <=> t.count < MaxCount
  BY DEF MayDispatch
<1> HIDE DEF t
<1>7. counted.count = t.count + 1 /\ counted.age = t.age
      /\ (MayDispatch(t) => counted \in [count : 0..MaxCount, age : 0..(ThrottleWindow + 1)])
  <2>1. MayDispatch(t) => t.count + 1 \in 0..MaxCount
    BY <1>4, <1>6, AlertAssumption
  <2>2. QED BY <1>4, <2>1
<1> HIDE DEF counted, a
<1>8. throttle' \in ThrottleStates
  BY <1>1, <1>2, <1>4, <1>7, Typed DEF ThrottleStates
<1>9. /\ throttle'[a] \in {t, counted}
      /\ sending' = m => throttle'[a] = counted
      /\ sending' \in {m, NoMatch}
      /\ \A c \in Actions \ {a} : throttle'[c] = throttle[c]
  BY <1>1, <1>2, Typed DEF ThrottleStates
<1>10. /\ windowAge' \in [Actions -> 0..(ThrottleWindow + 1)]
       /\ sent' \in [Actions -> 0..(MaxCount + 1)]
       /\ forgotten' \subseteq Actions
  <2>1. 0 \in 0..(ThrottleWindow + 1) /\ 0 \in 0..(MaxCount + 1)
    BY AlertAssumption
  <2>2. QED BY <1>1, <2>1, Typed
<1>11. /\ fate' \in [Matches -> Fates]
       /\ fate'[m] = "open" => sending' = m
       /\ \A n \in Matches \ {m} : fate'[n] = fate[n]
  BY <1>1, Typed, FatedFacts DEF Fates
<1>12. TypeOK' /\ TaskInv' /\ FlushInv'
  BY <1>1, <1>2, <1>8, <1>10, <1>11, Typed, LoopTypes
<1>13. CountInv'
  <2>1. \A c \in Actions : InFlight(c) = 0 /\ Counted(c) = throttle[c] /\ Counted(c)' = throttle'[c]
    BY <1>1, <1>2 DEF InFlight, Counted
  <2>2. \A c \in Actions : InFlight(c)' = IF sending' = m /\ c = a THEN 1 ELSE 0
    BY <1>2, <1>9 DEF InFlight, a
  <2>3. ASSUME NEW c \in Actions \ forgotten', c # a
        PROVE  windowAge'[c] = Counted(c)'.age /\ sent'[c] + InFlight(c)' <= Counted(c)'.count
    <3>1. c \notin forgotten /\ windowAge'[c] = windowAge[c] /\ sent'[c] = sent[c]
      BY <1>1, <2>3, Typed
    <3>2. windowAge[c] = Counted(c).age /\ sent[c] + InFlight(c) <= Counted(c).count
      BY <3>1 DEF IInv, CountInv
    <3>3. InFlight(c)' = InFlight(c) /\ Counted(c)' = Counted(c)
      BY <1>9, <2>1, <2>2, <2>3
    <3>4. QED BY <3>1, <3>2, <3>3
  <2>4. ASSUME a \notin forgotten'
        PROVE  windowAge'[a] = Counted(a)'.age /\ sent'[a] + InFlight(a)' <= Counted(a)'.count
    <3>1. /\ sent[a] \in Nat /\ windowAge[a] \in Nat /\ t.count \in Nat /\ t.age \in Nat
          /\ throttle[a].count \in Nat /\ throttle[a].age \in Nat
      BY <1>2, <1>3, <1>4, Typed
    <3>2. Counted(a)' = throttle'[a] /\ throttle'[a].age = t.age
      BY <1>2, <1>7, <1>9, <2>1
    <3>3. /\ sending' = m => throttle'[a].count = t.count + 1 /\ InFlight(a)' = 1
          /\ sending' # m => InFlight(a)' = 0
          /\ throttle'[a].count \in {t.count, t.count + 1}
      BY <1>2, <1>7, <1>9, <2>2
    <3>4. CASE renewed
      <4>1. windowAge'[a] = 0 /\ sent'[a] = 0 /\ t.count = 0 /\ t.age = 0
        BY <1>1, <1>2, <1>4, <3>4, Typed
      <4>2. QED BY <3>2, <3>3, <4>1
    <3>5. CASE ~renewed
      <4>1. a \notin forgotten /\ windowAge'[a] = windowAge[a] /\ sent'[a] = sent[a]
        BY <1>1, <2>4, <3>5
      <4>2. windowAge[a] = throttle[a].age /\ sent[a] + 0 <= throttle[a].count
        BY <1>2, <2>1, <4>1 DEF IInv, CountInv
      <4>3. ~Expired(throttle[a])
        BY <1>5, <3>5, <4>2
      <4>4. t = throttle[a]
        BY <1>4, <4>3
      <4>5. sent'[a] <= t.count /\ windowAge'[a] = t.age
        BY <3>1, <4>1, <4>2, <4>4
      <4>6. QED BY <3>1, <3>2, <3>3, <4>1, <4>5
    <3>6. QED BY <3>4, <3>5
  <2>5. QED BY <2>3, <2>4 DEF CountInv
<1>14. AlertsAccountedFor'
  <2>1. Held \subseteq Held' /\ (sending' = m => m \in Held')
    BY <1>1, <1>2 DEF Held, InLoop, InPayloads, Aggregated
  <2>2. QED BY <1>11, <2>1 DEF IInv, AlertsAccountedFor
<1>15. QED BY <1>12, <1>13, <1>14 DEF IInv

(* The loop's control after an enqueue. *)
LEMMA EnqueueTypes ==
    ASSUME IInv, apc \in {"throttle", "immediate"},
           immediate' \subseteq Matches, sending' = NoMatch, batch' = batch,
           apc' = AfterMatch(batch, immediate'),
           fate' \in [Matches -> Fates], sent' \in [Actions -> 0..(MaxCount + 1)],
           UNCHANGED <<up, policy, throttle, agg, savedT, savedA, received,
                       dpc, taken, snapT, snapA, left, windowAge, forgotten>>
    PROVE  TypeOK' /\ TaskInv' /\ FlushInv'
<1>1. up = "running" /\ batch \in Seq(Matches)
  BY DEF IInv, TypeOK, TaskInv
<1>2. /\ apc' \in {"match", "immediate", "recv"}
      /\ apc' = "match" => batch' # <<>>
      /\ apc' = "immediate" => immediate' # {} /\ batch' = <<>>
      /\ apc' = "recv" => immediate' = {} /\ batch' = <<>>
  BY AfterMatchFacts
<1>3. TypeOK'
  BY <1>1, <1>2 DEF IInv, TypeOK, Fates
<1>4. TaskInv'
  BY <1>1 DEF IInv, TaskInv
<1>5. FlushInv'
  BY <1>1, RunningFlush
<1>6. QED BY <1>3, <1>4, <1>5

(* The throttled match is enqueued, or lost; its count stays consumed. *)
LEMMA ThrottleEnqueueStep ==
    ASSUME IInv, ThrottleEnqueue
    PROVE  IInv'
<1> DEFINE a == ActionOf[sending]
           more == [sent EXCEPT ![a] = IF sent[a] > MaxCount THEN sent[a] ELSE sent[a] + 1]
<1>1. /\ apc = "throttle"
      /\ \/ fate' = Fated({sending}, "enqueued") /\ sent' = more
         \/ fate' = Fated({sending}, "lost") /\ sent' = sent
      /\ sending' = NoMatch /\ apc' = AfterMatch(batch, immediate)
      /\ UNCHANGED <<up, policy, throttle, agg, savedT, savedA, batch, immediate, received,
                     dpc, taken, snapT, snapA, left, windowAge, forgotten>>
  BY DEF ThrottleEnqueue, memory, saved, dispatcher
<1>2. sending \in Matches /\ sending # NoMatch /\ a \in Actions /\ up = "running"
  <2>1. sending # NoMatch /\ sending \in Matches \cup {NoMatch} /\ up = "running"
    BY <1>1 DEF IInv, TypeOK, TaskInv
  <2>2. QED BY <2>1, AlertAssumption
<1>3. /\ fate' \in [Matches -> Fates]
      /\ \A n \in Matches : fate'[n] = "open" => n # sending /\ fate[n] = "open"
  BY <1>1, Typed, FatedFacts DEF Fates
<1>4. /\ more \in [Actions -> 0..(MaxCount + 1)]
      /\ more[a] <= sent[a] + 1
      /\ \A c \in Actions \ {a} : more[c] = sent[c]
  <2>1. sent[a] \in 0..(MaxCount + 1) /\ sent \in [Actions -> 0..(MaxCount + 1)]
    BY <1>2, Typed
  <2>2. (IF sent[a] > MaxCount THEN sent[a] ELSE sent[a] + 1) \in 0..(MaxCount + 1)
        /\ (IF sent[a] > MaxCount THEN sent[a] ELSE sent[a] + 1) <= sent[a] + 1
    BY <2>1, AlertAssumption
  <2> HIDE DEF a
  <2>3. more[a] = IF sent[a] > MaxCount THEN sent[a] ELSE sent[a] + 1
    BY <1>2, <2>1
  <2>4. QED BY <1>2, <2>1, <2>2, <2>3
<1> HIDE DEF more
<1>5. TypeOK' /\ TaskInv' /\ FlushInv'
  BY <1>1, <1>3, <1>4, Typed, EnqueueTypes
<1>6. CountInv'
  <2>1. \A c \in Actions : /\ InFlight(c) = IF c = a THEN 1 ELSE 0
                           /\ InFlight(c)' = 0
                           /\ Counted(c) = throttle[c] /\ Counted(c)' = throttle[c]
    BY <1>1, <1>2 DEF InFlight, Counted
  <2> HIDE DEF a
  <2>2. ASSUME NEW c \in Actions \ forgotten'
        PROVE  windowAge'[c] = Counted(c)'.age /\ sent'[c] + InFlight(c)' <= Counted(c)'.count
    <3>1. windowAge[c] = Counted(c).age /\ sent[c] + InFlight(c) <= Counted(c).count
      BY <1>1 DEF IInv, CountInv
    <3>2. sent[c] \in Nat /\ sent'[c] \in Nat /\ throttle[c].count \in Nat
      BY <1>1, <1>4, Typed DEF ThrottleStates
    <3>3. sent'[c] <= sent[c] + InFlight(c)
      BY <1>1, <1>4, <2>1, <3>2
    <3>4. sent'[c] + InFlight(c)' <= Counted(c)'.count
      BY <2>1, <3>1, <3>2, <3>3
    <3>5. QED BY <1>1, <2>1, <3>1, <3>4
  <2>3. QED BY <2>2 DEF CountInv
<1>7. AlertsAccountedFor'
  <2>1. Held \subseteq Held' \cup {sending}
    BY <1>1, <1>2 DEF Held, InLoop, InPayloads, Aggregated
  <2>2. QED BY <1>3, <2>1 DEF IInv, AlertsAccountedFor
<1>8. QED BY <1>5, <1>6, <1>7 DEF IInv

(* The matches without policy are enqueued, or lost, together. *)
LEMMA ImmediateEnqueueStep ==
    ASSUME IInv, ImmediateEnqueue
    PROVE  IInv'
<1>1. /\ apc = "immediate"
      /\ \/ fate' = Fated(immediate, "enqueued")
         \/ fate' = Fated(immediate, "lost")
      /\ immediate' = {} /\ apc' = "recv"
      /\ UNCHANGED <<up, policy, throttle, agg, savedT, savedA, batch, sending, received,
                     dpc, taken, snapT, snapA, left, windowAge, sent, forgotten>>
  BY DEF ImmediateEnqueue, memory, saved, dispatcher, limits
<1>2. sending = NoMatch /\ up = "running" /\ batch = <<>>
  BY <1>1 DEF IInv, TypeOK
<1>3. /\ fate' \in [Matches -> Fates]
      /\ \A n \in Matches : fate'[n] = "open" => n \notin immediate /\ fate[n] = "open"
  BY <1>1, Typed, FatedFacts DEF Fates
<1>4. apc' = AfterMatch(batch, immediate')
  BY <1>1, <1>2 DEF AfterMatch
<1>5. TypeOK' /\ TaskInv' /\ FlushInv'
  BY <1>1, <1>2, <1>3, <1>4, Typed, EnqueueTypes
<1>6. CountInv'
  BY <1>1, FramedCount DEF IInv
<1>7. AlertsAccountedFor'
  <2>1. Held \subseteq Held' \cup immediate
    BY <1>1, <1>2 DEF Held, InLoop, InPayloads, Aggregated
  <2>2. QED BY <1>3, <2>1 DEF IInv, AlertsAccountedFor
<1>8. QED BY <1>5, <1>6, <1>7 DEF IInv

-----------------------------------------------------------------------------
(* The dispatcher and the final flush.                                     *)

(* A sync starts from what the maps hold now. *)
LEMMA StartSyncFacts ==
    ASSUME IInv, NEW now \in AggStates, StartSync(now)
    PROVE  /\ dpc' = "write" /\ snapT' = throttle /\ snapA' = now
           /\ left' \subseteq {"throttle", "aggregation"} \X Actions
           /\ \A a \in Actions :
                /\ <<"throttle", a>> \notin left' => savedT[a] = throttle[a]
                /\ <<"aggregation", a>> \notin left' => savedA[a].matches = {}
<1> DEFINE T == {a \in Actions : throttle[a] # FreshThrottle[a] \/ savedT[a] # FreshThrottle[a]}
           A == {a \in Actions : now[a].matches # {} \/ savedA[a].matches # {}}
<1>1. /\ dpc' = "write" /\ snapT' = throttle /\ snapA' = now
      /\ left' = {<<"throttle", a>> : a \in T} \cup {<<"aggregation", a>> : a \in A}
  BY DEF StartSync
<1>2. \A a \in Actions : a \notin T => savedT[a] = throttle[a]
  OBVIOUS
<1>3. \A a \in Actions : a \notin A => savedA[a].matches = {}
  OBVIOUS
<1>4. T \subseteq Actions /\ A \subseteq Actions
  OBVIOUS
<1> HIDE DEF T, A
<1>5. QED BY <1>1, <1>2, <1>3, <1>4

(* Due windows are taken, orphaned ones given up.  A forced check leaves   *)
(* no window behind.                                                       *)
LEMMA CheckStep ==
    ASSUME IInv, Check
    PROVE  IInv'
<1> DEFINE due == {a \in Actions : Due(a, up = "flushing")}
           orphans == {a \in Actions : Orphaned(a)}
<1>1. /\ up # "stopped" /\ dpc = "tick"
      /\ taken' = {Payload(a, agg[a].matches) : a \in due}
      /\ agg' = Emptied(due \cup orphans)
      /\ fate' = Fated(UNION {agg[a].matches : a \in orphans}, "lost")
      /\ \/ due # {} /\ dpc' = "enqueue" /\ UNCHANGED <<snapT, snapA, left>>
         \/ due = {} /\ StartSync(agg')
      /\ UNCHANGED <<up, policy, throttle, savedT, savedA, apc, batch, sending, immediate,
                     received, windowAge, sent, forgotten>>
  BY DEF Check, saved, loop, limits
<1>2. up = "flushing" => \A a \in Actions : agg[a].matches # {} => a \in due \cup orphans
  BY DEF Due, Orphaned
<1>3. due \subseteq Actions /\ orphans \subseteq Actions
  OBVIOUS
<1> HIDE DEF due, orphans
<1>4. \A a \in Actions : agg'[a] = IF a \in due \cup orphans THEN [matches |-> {}, age |-> 0]
                                                             ELSE agg[a]
  BY <1>1 DEF Emptied
<1>5. agg' \in AggStates
  <2>1. [matches |-> {}, age |-> 0] \in [matches : SUBSET Matches, age : 0..(AggWindow + 1)]
    BY AlertAssumption
  <2>2. agg' = [a \in Actions |-> agg'[a]]
    BY <1>1 DEF Emptied
  <2>3. QED BY <1>4, <2>1, <2>2, Typed DEF AggStates
<1>6. /\ fate' \in [Matches -> Fates]
      /\ \A m \in Matches : fate'[m] = "open" =>
            fate[m] = "open" /\ m \notin UNION {agg[a].matches : a \in orphans}
  BY <1>1, Typed, FatedFacts DEF Fates
<1>7. /\ taken' \subseteq [action : Actions, matches : SUBSET Matches]
      /\ InPayloads(taken)' = UNION {agg[a].matches : a \in due}
      /\ taken' # {} <=> due # {}
  <2>1. \A a \in Actions : agg[a].matches \subseteq Matches
    BY Typed DEF AggStates
  <2>2. taken' = {[action |-> a, matches |-> agg[a].matches] : a \in due}
    BY <1>1 DEF Payload
  <2>3. taken' \subseteq [action : Actions, matches : SUBSET Matches] /\ (taken' # {} <=> due # {})
    <3>1. \A a \in due : [action |-> a, matches |-> agg[a].matches]
                            \in [action : Actions, matches : SUBSET Matches]
      BY <1>3, <2>1
    <3>2. taken' \subseteq [action : Actions, matches : SUBSET Matches]
      BY <2>2, <3>1, Zenon
    <3>3. taken' # {} <=> due # {}
      BY <2>2, Zenon
    <3>4. QED BY <3>2, <3>3
  <2>4. {p.matches : p \in taken'} = {agg[a].matches : a \in due}
    <3>1. \A a \in due : [action |-> a, matches |-> agg[a].matches] \in taken'
                         /\ [action |-> a, matches |-> agg[a].matches].matches = agg[a].matches
      BY <2>2
    <3>2. \A p \in taken' : \E a \in due : p.matches = agg[a].matches
      BY <2>2
    <3>3. {p.matches : p \in taken'} \subseteq {agg[a].matches : a \in due}
      BY <3>2, Zenon
    <3>4. ASSUME NEW a \in due PROVE agg[a].matches \in {p.matches : p \in taken'}
      <4>1. PICK p \in taken' : p.matches = agg[a].matches
        BY <3>1
      <4>2. QED BY <4>1, Zenon
    <3>5. {agg[a].matches : a \in due} \subseteq {p.matches : p \in taken'}
      BY <3>4, Zenon
    <3>6. QED BY <3>3, <3>5
  <2>5. InPayloads(taken)' = UNION {p.matches : p \in taken'}
    BY DEF InPayloads
  <2>6. QED BY <2>3, <2>4, <2>5
<1>8. due = {} => /\ dpc' = "write" /\ snapT' = throttle /\ snapA' = agg'
                  /\ left' \subseteq {"throttle", "aggregation"} \X Actions
                  /\ \A a \in Actions :
                       /\ <<"throttle", a>> \notin left' => savedT[a] = throttle[a]
                       /\ <<"aggregation", a>> \notin left' => savedA[a].matches = {}
  BY <1>1, <1>5, StartSyncFacts
<1>9. due # {} => dpc' = "enqueue" /\ UNCHANGED <<snapT, snapA, left>> /\ left = {}
  BY <1>1 DEF IInv, TypeOK
<1>10. TypeOK' /\ TaskInv'
  <2>1. TypeOK'
    BY <1>1, <1>5, <1>6, <1>7, <1>8, <1>9 DEF IInv, TypeOK, Fates
  <2>2. TaskInv'
    BY <1>1, <1>7, <1>8, <1>9 DEF IInv, TaskInv
  <2>3. QED BY <2>1, <2>2
<1>11. FlushInv'
  <2>1. up = "flushing" => \A a \in Actions : agg'[a].matches = {}
    BY <1>2, <1>4
  <2>2. CASE due = {}
    BY <1>1, <1>8, <2>1, <2>2 DEF FlushInv
  <2>3. CASE due # {}
    BY <1>1, <1>9, <2>1, <2>3 DEF FlushInv
  <2>4. QED BY <2>2, <2>3
<1>12. CountInv'
  BY <1>1, FramedCount DEF IInv
<1>13. AlertsAccountedFor'
  <2>1. taken = {}
    BY <1>1 DEF IInv, TypeOK
  <2>2. Held = Aggregated(agg) \cup InLoop
    BY <1>1, <2>1 DEF Held, InPayloads
  <2>3. Held' = Aggregated(agg)' \cup InPayloads(taken)' \cup InLoop
    BY <1>1 DEF Held, InLoop
  <2>4. ASSUME NEW a \in Actions, a \notin orphans, NEW m \in agg[a].matches
        PROVE  m \in Aggregated(agg)' \cup InPayloads(taken)'
    <3>1. CASE a \in due
      BY <1>7, <2>4, <3>1
    <3>2. CASE a \notin due
      BY <1>4, <2>4, <3>2 DEF Aggregated
    <3>3. QED BY <3>1, <3>2
  <2>5. \A m \in Aggregated(agg) : \/ m \in UNION {agg[a].matches : a \in orphans}
                                   \/ m \in Aggregated(agg)' \cup InPayloads(taken)'
    BY <2>4 DEF Aggregated
  <2>6. ASSUME NEW m \in Matches, fate'[m] = "open" PROVE m \in Held'
    <3>1. m \in Held /\ m \notin UNION {agg[a].matches : a \in orphans}
      BY <1>6, <2>6 DEF IInv, AlertsAccountedFor
    <3>2. QED BY <2>2, <2>3, <2>5, <3>1, Zenon
  <2>7. QED BY <2>6 DEF AlertsAccountedFor
<1>14. QED BY <1>10, <1>11, <1>12, <1>13 DEF IInv

(* The taken windows are enqueued, or lost; then the sync starts. *)
LEMMA DispatchWindowsStep ==
    ASSUME IInv, DispatchWindows
    PROVE  IInv'
<1>1. /\ dpc = "enqueue"
      /\ \/ fate' = Fated(InPayloads(taken), "enqueued")
         \/ fate' = Fated(InPayloads(taken), "lost")
      /\ taken' = {} /\ StartSync(agg)
      /\ UNCHANGED <<up, policy, throttle, agg, savedT, savedA, apc, batch, sending, immediate,
                     received, windowAge, sent, forgotten>>
  BY DEF DispatchWindows, memory, saved, loop, limits
<1>2. /\ dpc' = "write" /\ snapT' = throttle /\ snapA' = agg
      /\ left' \subseteq {"throttle", "aggregation"} \X Actions
      /\ \A a \in Actions :
           /\ <<"throttle", a>> \notin left' => savedT[a] = throttle[a]
           /\ <<"aggregation", a>> \notin left' => savedA[a].matches = {}
  BY <1>1, Typed, StartSyncFacts
<1>3. /\ fate' \in [Matches -> Fates]
      /\ \A m \in Matches : fate'[m] = "open" => fate[m] = "open" /\ m \notin InPayloads(taken)
  BY <1>1, Typed, FatedFacts DEF Fates
<1>4. up # "stopped"
  BY <1>1 DEF IInv, TypeOK
<1>5. TypeOK'
  BY <1>1, <1>2, <1>3 DEF IInv, TypeOK, Fates
<1>6. TaskInv'
  BY <1>1, <1>2 DEF IInv, TaskInv
<1>7. FlushInv'
  BY <1>1, <1>2 DEF IInv, FlushInv
<1>8. CountInv'
  BY <1>1, FramedCount DEF IInv
<1>9. AlertsAccountedFor'
  <2>1. Held \subseteq Held' \cup InPayloads(taken)
    BY <1>1, <1>4 DEF Held, InLoop, Aggregated
  <2>2. QED BY <1>3, <2>1 DEF IInv, AlertsAccountedFor
<1>10. QED BY <1>5, <1>6, <1>7, <1>8, <1>9 DEF IInv

(* One row is written from the snapshot. *)
LEMMA WriteStateStep ==
    ASSUME IInv, NEW w \in left, WriteState(w)
    PROVE  IInv'
<1>1. /\ dpc = "write" /\ left' = left \ {w}
      /\ \/ /\ w[1] = "throttle"
            /\ savedT' = [savedT EXCEPT ![w[2]] = snapT[w[2]]] /\ savedA' = savedA
         \/ /\ w[1] # "throttle"
            /\ savedA' = [savedA EXCEPT ![w[2]] = snapA[w[2]]] /\ savedT' = savedT
      /\ UNCHANGED <<up, policy, throttle, agg, apc, batch, sending, immediate, received,
                     dpc, taken, snapT, snapA, fate, windowAge, sent, forgotten>>
  BY DEF WriteState, memory, loop, history, limits
<1>2. /\ up # "stopped" /\ left \subseteq {"throttle", "aggregation"} \X Actions
      /\ savedT \in ThrottleStates /\ snapT \in ThrottleStates
      /\ savedA \in AggStates /\ snapA \in AggStates
  BY <1>1 DEF IInv, TypeOK, TaskInv
<1>3. PICK k \in {"throttle", "aggregation"}, c \in Actions : w = <<k, c>>
  BY <1>2
<1>4. /\ \/ /\ k = "throttle"
            /\ savedT' = [savedT EXCEPT ![c] = snapT[c]] /\ savedA' = savedA
         \/ /\ k = "aggregation"
            /\ savedA' = [savedA EXCEPT ![c] = snapA[c]] /\ savedT' = savedT
      /\ w[1] = k /\ w[2] = c
  BY <1>1, <1>3
<1>5. savedT' \in ThrottleStates /\ savedA' \in AggStates
  BY <1>2, <1>4 DEF ThrottleStates, AggStates
<1>6. TypeOK' /\ TaskInv'
  BY <1>1, <1>5 DEF IInv, TypeOK, TaskInv
<1>7. FlushInv'
  <2>1. ASSUME NEW a \in Actions, <<"throttle", a>> \notin left'
        PROVE  \/ <<"throttle", a>> \notin left /\ savedT'[a] = savedT[a]
               \/ savedT'[a] = snapT[a]
    <3>1. CASE w = <<"throttle", a>>
      BY <1>2, <1>3, <1>4, <3>1 DEF ThrottleStates
    <3>2. CASE w # <<"throttle", a>>
      <4>1. <<"throttle", a>> \notin left
        BY <1>1, <2>1, <3>2
      <4>2. k = "throttle" => c # a
        BY <1>3, <3>2
      <4>3. savedT'[a] = savedT[a]
        BY <1>2, <1>4, <4>2 DEF ThrottleStates
      <4>4. QED BY <4>1, <4>3
    <3>3. QED BY <3>1, <3>2
  <2>2. ASSUME NEW a \in Actions, <<"aggregation", a>> \notin left'
        PROVE  \/ <<"aggregation", a>> \notin left /\ savedA'[a] = savedA[a]
               \/ savedA'[a] = snapA[a]
    <3>1. CASE w = <<"aggregation", a>>
      BY <1>2, <1>3, <1>4, <3>1 DEF AggStates
    <3>2. CASE w # <<"aggregation", a>>
      <4>1. <<"aggregation", a>> \notin left
        BY <1>1, <2>2, <3>2
      <4>2. k = "aggregation" => c # a
        BY <1>3, <3>2
      <4>3. savedA'[a] = savedA[a]
        BY <1>2, <1>4, <4>2 DEF AggStates
      <4>4. QED BY <4>1, <4>3
    <3>3. QED BY <3>1, <3>2
  <2>3. ASSUME up = "flushing"
        PROVE  /\ snapT = throttle
               /\ \A a \in Actions :
                    /\ agg[a].matches = {} /\ snapA[a].matches = {}
                    /\ <<"throttle", a>> \notin left => savedT[a] = throttle[a]
                    /\ <<"aggregation", a>> \notin left => savedA[a].matches = {}
    BY <1>1, <2>3 DEF IInv, FlushInv
  <2>4. ASSUME up = "flushing", NEW a \in Actions
        PROVE  /\ agg[a].matches = {} /\ snapA[a].matches = {}
               /\ <<"throttle", a>> \notin left' => savedT'[a] = throttle[a]
               /\ <<"aggregation", a>> \notin left' => savedA'[a].matches = {}
    BY <2>1, <2>2, <2>3, <2>4
  <2>5. QED BY <1>1, <2>3, <2>4 DEF FlushInv
<1>8. CountInv'
  <2>1. \A a \in Actions : Counted(a)' = Counted(a) /\ InFlight(a)' = InFlight(a)
    BY <1>1, <1>2 DEF Counted, InFlight
  <2>2. QED BY <1>1, <2>1 DEF IInv, CountInv
<1>9. AlertsAccountedFor'
  <2>1. Held' = Held
    BY <1>1, <1>2 DEF Held, InLoop, InPayloads, Aggregated
  <2>2. QED BY <1>1, <2>1 DEF IInv, AlertsAccountedFor
<1>10. QED BY <1>6, <1>7, <1>8, <1>9 DEF IInv

-----------------------------------------------------------------------------
(* The end of a sync, boots, shutdown and crash.                           *)

(* Going back to sleep after a sync changes nothing but the place. *)
LEMMA SleepStep ==
    ASSUME IInv, dpc = "write", up = "running", NoSnapshot, dpc' = "tick",
           UNCHANGED <<up, policy, throttle, agg, savedT, savedA, apc, batch, sending, immediate,
                       taken, fate, windowAge, sent, forgotten>>
    PROVE  IInv'
<1>1. left' = {} /\ snapT' = FreshThrottle /\ snapA' = FreshAgg
  BY DEF NoSnapshot
<1>2. TypeOK'
  BY <1>1, FreshFacts DEF IInv, TypeOK
<1>3. TaskInv'
  BY <1>1 DEF IInv, TaskInv
<1>4. CountInv' /\ FlushInv'
  BY FramedCount, RunningFlush DEF IInv
<1>5. AlertsAccountedFor'
  <2>1. Held' = Held
    BY DEF Held, InLoop, InPayloads, Aggregated
  <2>2. QED BY <2>1 DEF IInv, AlertsAccountedFor
<1>6. QED BY <1>2, <1>3, <1>4, <1>5 DEF IInv

(* The process ends: what the saved rows do not hold is lost, and a count  *)
(* they do not hold is forgotten.                                          *)
LEMMA EndStep ==
    ASSUME IInv, up' = "stopped", dpc' = "off", taken' = {}, NoSnapshot, MemoryGone,
           apc' = "off", batch' = <<>>, sending' = NoMatch, immediate' = {},
           fate' \in [Matches -> Fates],
           \A m \in Matches : fate'[m] = "open" => fate[m] = "open" /\ m \in Aggregated(savedA),
           forgotten \subseteq forgotten', forgotten' \subseteq Actions,
           \A a \in Actions \ forgotten' : savedT[a] = Counted(a),
           UNCHANGED <<savedT, savedA, windowAge, sent>>
    PROVE  IInv'
<1>1. /\ left' = {} /\ snapT' = FreshThrottle /\ snapA' = FreshAgg
      /\ throttle' = FreshThrottle /\ agg' = FreshAgg /\ policy' = policy
  BY DEF NoSnapshot, MemoryGone
<1>2. TypeOK'
  BY <1>1, FreshFacts DEF IInv, TypeOK, Fates
<1>3. TaskInv'
  <2>1. <<>> \in Seq(Matches)
    OBVIOUS
  <2>2. QED BY <1>1, <2>1 DEF IInv, TaskInv
<1>4. FlushInv'
  BY RunningFlush
<1>5. CountInv'
  <2>1. ASSUME NEW a \in Actions \ forgotten'
        PROVE  windowAge'[a] = Counted(a)'.age /\ sent'[a] + InFlight(a)' <= Counted(a)'.count
    <3>1. windowAge[a] = Counted(a).age /\ sent[a] + InFlight(a) <= Counted(a).count
      BY DEF IInv, CountInv
    <3>2. Counted(a)' = savedT[a] /\ savedT[a] = Counted(a) /\ InFlight(a)' = 0
      BY DEF Counted, InFlight
    <3>3. InFlight(a) \in {0, 1} /\ sent[a] \in Nat
      BY Typed DEF InFlight
    <3>4. Counted(a).count \in Nat
      <4>1. savedT \in ThrottleStates
        BY DEF IInv, TypeOK
      <4>2. QED BY <3>2, <4>1 DEF ThrottleStates
    <3>5. sent[a] + 0 <= Counted(a).count
      BY <3>1, <3>3, <3>4
    <3>6. QED BY <3>1, <3>2, <3>5
  <2>2. QED BY <2>1 DEF CountInv
<1>6. AlertsAccountedFor'
  <2>1. Held' = Aggregated(savedA)
    BY DEF Held, Aggregated
  <2>2. QED BY <2>1 DEF AlertsAccountedFor
<1>7. QED BY <1>2, <1>3, <1>4, <1>5, <1>6 DEF IInv

(* During the flush the alert loop is gone. *)
LEMMA FlushingLoop ==
    ASSUME IInv, up = "flushing"
    PROVE  apc = "off" /\ batch = <<>> /\ sending = NoMatch /\ immediate = {} /\ InLoop = {}
<1>1. apc = "off" /\ batch = <<>> /\ sending = NoMatch /\ immediate = {}
  BY DEF IInv, TypeOK
<1>2. QED BY <1>1 DEF InLoop

(* A completed sync: back to sleep, or the end of a clean shutdown, where  *)
(* the rows already hold what memory holds.                                *)
LEMMA SyncDoneStep ==
    ASSUME IInv, SyncDone
    PROVE  IInv'
<1>1. /\ dpc = "write" /\ left = {} /\ SyncEnds
      /\ UNCHANGED <<savedT, savedA, apc, batch, sending, immediate, received, taken,
                     fate, windowAge, sent, forgotten>>
  BY DEF SyncDone, saved, loop, history, limits
<1>2. taken = {} /\ up \in {"running", "flushing"}
  BY <1>1 DEF IInv, TypeOK
<1>3. CASE up = "running"
  BY <1>1, <1>3, SleepStep DEF SyncEnds, memory
<1>4. CASE up = "flushing"
  <2>1. /\ up' = "stopped" /\ dpc' = "off" /\ MemoryGone /\ NoSnapshot
    BY <1>1, <1>4 DEF SyncEnds
  <2>2. \A a \in Actions : agg[a].matches = {} /\ savedT[a] = throttle[a]
    BY <1>1, <1>4 DEF IInv, FlushInv
  <2>3. Held = {}
    BY <1>2, <1>4, <2>2, FlushingLoop DEF Held, Aggregated, InPayloads
  <2>4. \A m \in Matches : fate'[m] = "open" => fate[m] = "open" /\ m \in Aggregated(savedA)
    BY <1>1, <2>3 DEF IInv, AlertsAccountedFor
  <2>5. \A a \in Actions : savedT[a] = Counted(a)
    BY <1>4, <2>2 DEF Counted
  <2>6. QED BY <1>1, <1>2, <1>4, <2>1, <2>4, <2>5, FlushingLoop, Typed, EndStep
<1>5. QED BY <1>2, <1>3, <1>4

(* A failed write: back to sleep, or the end of a shutdown that lost what  *)
(* it had not written.                                                     *)
LEMMA WriteFailsStep ==
    ASSUME IInv, WriteFails
    PROVE  IInv'
<1>1. /\ dpc = "write" /\ SyncEnds
      /\ IF up = "flushing"
         THEN fate' = Fated(Unsaved, "lost") /\ forgotten' = forgotten \cup RolledBack
         ELSE UNCHANGED <<fate, forgotten>>
      /\ UNCHANGED <<savedT, savedA, apc, batch, sending, immediate, received, taken,
                     windowAge, sent>>
  BY DEF WriteFails, saved, loop
<1>2. taken = {} /\ up \in {"running", "flushing"}
  BY <1>1 DEF IInv, TypeOK
<1>3. CASE up = "running"
  BY <1>1, <1>3, SleepStep DEF SyncEnds, memory
<1>4. CASE up = "flushing"
  <2>1. /\ up' = "stopped" /\ dpc' = "off" /\ MemoryGone /\ NoSnapshot
    BY <1>1, <1>4 DEF SyncEnds
  <2>2. /\ fate' \in [Matches -> Fates]
        /\ \A m \in Matches : fate'[m] = "open" => fate[m] = "open" /\ m \notin Unsaved
    BY <1>1, <1>4, Typed, FatedFacts DEF Fates
  <2>3. Held = Aggregated(agg) \cup InPayloads(taken)
    BY <1>4, FlushingLoop DEF Held
  <2>4. \A m \in Matches : fate'[m] = "open" => fate[m] = "open" /\ m \in Aggregated(savedA)
    BY <2>2, <2>3 DEF IInv, AlertsAccountedFor, Unsaved
  <2>5. /\ forgotten \subseteq forgotten' /\ forgotten' \subseteq Actions
        /\ \A a \in Actions \ forgotten' : savedT[a] = Counted(a)
    BY <1>1, <1>4, Typed DEF RolledBack, Counted
  <2>6. QED BY <1>1, <1>2, <1>4, <2>1, <2>2, <2>4, <2>5, FlushingLoop, EndStep
<1>5. QED BY <1>2, <1>3, <1>4

(* A crash, or a shutdown cut off by its timeout. *)
LEMMA DieStep ==
    ASSUME IInv, Die
    PROVE  IInv'
<1>1. /\ up # "stopped" /\ up' = "stopped" /\ dpc' = "off" /\ taken' = {} /\ NoSnapshot
      /\ apc' = "off" /\ batch' = <<>> /\ sending' = NoMatch /\ immediate' = {} /\ MemoryGone
      /\ fate' = Fated(InLoop \cup Unsaved, "lost")
      /\ forgotten' = forgotten \cup RolledBack
      /\ UNCHANGED <<savedT, savedA, windowAge, sent>>
  BY DEF Die, LoopGone, saved
<1>2. /\ fate' \in [Matches -> Fates]
      /\ \A m \in Matches : fate'[m] = "open" => fate[m] = "open" /\ m \notin InLoop \cup Unsaved
  BY <1>1, Typed, FatedFacts DEF Fates
<1>3. \A m \in Matches : fate'[m] = "open" => fate[m] = "open" /\ m \in Aggregated(savedA)
  BY <1>1, <1>2 DEF IInv, AlertsAccountedFor, Held, Unsaved
<1>4. /\ forgotten \subseteq forgotten' /\ forgotten' \subseteq Actions
      /\ \A a \in Actions \ forgotten' : savedT[a] = Counted(a)
  BY <1>1, Typed DEF RolledBack, Counted
<1>5. QED BY <1>1, <1>2, <1>3, <1>4, EndStep

(* A boot loads the saved rows. *)
LEMMA BootStep ==
    ASSUME IInv, Boot
    PROVE  IInv'
<1>1. /\ up = "stopped" /\ up' = "running" /\ policy' \in Configs
      /\ throttle' = savedT /\ agg' = savedA /\ apc' = "recv" /\ dpc' = "tick"
      /\ UNCHANGED <<savedT, savedA, batch, sending, immediate, received, taken, snapT, snapA,
                     left, fate, windowAge, sent, forgotten>>
  BY DEF Boot, saved, history, limits
<1>2. taken = {} /\ left = {} /\ batch = <<>> /\ sending = NoMatch /\ immediate = {}
  BY <1>1 DEF IInv, TypeOK
<1>3. TypeOK'
  BY <1>1, <1>2 DEF IInv, TypeOK
<1>4. TaskInv'
  BY <1>1 DEF IInv, TaskInv
<1>5. FlushInv'
  BY <1>1, RunningFlush
<1>6. CountInv'
  <2>1. \A a \in Actions : Counted(a)' = Counted(a) /\ InFlight(a)' = InFlight(a)
    BY <1>1 DEF Counted, InFlight
  <2>2. QED BY <1>1, <2>1 DEF IInv, CountInv
<1>7. AlertsAccountedFor'
  <2>1. Held \subseteq Held'
    BY <1>1 DEF Held, Aggregated
  <2>2. QED BY <1>1, <2>1 DEF IInv, AlertsAccountedFor
<1>8. QED BY <1>3, <1>4, <1>5, <1>6, <1>7 DEF IInv

(* Cancelled: both tasks are dropped at their await, the maps stay. *)
LEMMA StopStep ==
    ASSUME IInv, Stop
    PROVE  IInv'
<1>1. /\ up = "running" /\ up' = "flushing" /\ dpc' = "tick" /\ taken' = {} /\ NoSnapshot
      /\ apc' = "off" /\ batch' = <<>> /\ sending' = NoMatch /\ immediate' = {}
      /\ fate' = Fated(InLoop \cup InPayloads(taken), "lost")
      /\ UNCHANGED <<policy, throttle, agg, savedT, savedA, windowAge, sent, forgotten>>
  BY DEF Stop, LoopGone, memory, saved, limits
<1>2. left' = {} /\ snapT' = FreshThrottle /\ snapA' = FreshAgg
  BY <1>1 DEF NoSnapshot
<1>3. /\ fate' \in [Matches -> Fates]
      /\ \A m \in Matches : fate'[m] = "open" =>
            fate[m] = "open" /\ m \notin InLoop \cup InPayloads(taken)
  BY <1>1, Typed, FatedFacts DEF Fates
<1>4. TypeOK'
  BY <1>1, <1>2, <1>3, FreshFacts DEF IInv, TypeOK, Fates
<1>5. TaskInv'
  <2>1. <<>> \in Seq(Matches)
    OBVIOUS
  <2>2. QED BY <1>1, <1>2, <2>1 DEF IInv, TaskInv
<1>6. FlushInv'
  BY <1>1 DEF FlushInv
<1>7. CountInv'
  <2>1. ASSUME NEW a \in Actions \ forgotten'
        PROVE  windowAge'[a] = Counted(a)'.age /\ sent'[a] + InFlight(a)' <= Counted(a)'.count
    <3>1. windowAge[a] = Counted(a).age /\ sent[a] + InFlight(a) <= Counted(a).count
      BY <1>1 DEF IInv, CountInv
    <3>2. Counted(a)' = throttle[a] /\ throttle[a] = Counted(a) /\ InFlight(a)' = 0
      BY <1>1 DEF Counted, InFlight
    <3>3. InFlight(a) \in {0, 1} /\ sent[a] \in Nat /\ throttle[a].count \in Nat
      BY Typed DEF InFlight, ThrottleStates
    <3>4. sent[a] + 0 <= Counted(a).count
      BY <3>1, <3>2, <3>3
    <3>5. QED BY <1>1, <3>1, <3>2, <3>4
  <2>2. QED BY <2>1 DEF CountInv
<1>8. AlertsAccountedFor'
  <2>1. Held \subseteq Held' \cup InLoop \cup InPayloads(taken)
    BY <1>1 DEF Held, Aggregated
  <2>2. QED BY <1>3, <2>1 DEF IInv, AlertsAccountedFor
<1>9. QED BY <1>4, <1>5, <1>6, <1>7, <1>8 DEF IInv

(* Every step keeps the invariant. *)
LEMMA NextIInv == IInv /\ [Next]_vars => IInv'
<1> SUFFICES ASSUME IInv, [Next]_vars PROVE IInv'
  OBVIOUS
<1>1. CASE Tick
  BY <1>1, TickStep
<1>2. CASE \E b \in Batches : Receive(b)
  BY <1>2, ReceiveStep
<1>3. CASE \E m \in Matches : HandleMatch(m)
  BY <1>3, SkipUnknownStep, CollectImmediateStep, HandleThrottleStep, HandleAggregationStep
     DEF HandleMatch
<1>4. CASE ThrottleEnqueue \/ ImmediateEnqueue
  BY <1>4, ThrottleEnqueueStep, ImmediateEnqueueStep
<1>5. CASE Check \/ DispatchWindows
  BY <1>5, CheckStep, DispatchWindowsStep
<1>6. CASE \E w \in left : WriteState(w)
  BY <1>6, WriteStateStep
<1>7. CASE SyncDone \/ WriteFails
  BY <1>7, SyncDoneStep, WriteFailsStep
<1>8. CASE Boot \/ Stop \/ Die
  BY <1>8, BootStep, StopStep, DieStep
<1>9. CASE UNCHANGED vars
  <2>1. UNCHANGED <<up, policy, throttle, agg, savedT, savedA, apc, batch, sending, immediate,
                    received, dpc, taken, snapT, snapA, left, fate, windowAge, sent, forgotten>>
    BY <1>9 DEF vars, memory, saved, loop, dispatcher, history, limits
  <2>2. TypeOK' /\ TaskInv'
    BY <2>1 DEF IInv, TypeOK, TaskInv
  <2>3. CountInv' /\ FlushInv'
    BY <2>1, FramedCount DEF IInv, FlushInv
  <2>4. Held' = Held
    BY <2>1 DEF Held, InLoop, InPayloads, Aggregated
  <2>5. AlertsAccountedFor'
    BY <2>1, <2>4 DEF IInv, AlertsAccountedFor
  <2>6. QED BY <2>2, <2>3, <2>5 DEF IInv
<1>10. QED
  BY <1>1, <1>2, <1>3, <1>4, <1>5, <1>6, <1>7, <1>8, <1>9 DEF Next

-----------------------------------------------------------------------------
(* The strengthened invariant holds in every reachable state, for every    *)
(* set of actions, matches, batches, configurations, limits and faults.    *)
THEOREM Inductive == Spec => []IInv
<1>1. QED BY InitIInv, NextIInv, PTL DEF Spec

(* The maps, their saved rows and the places of the two tasks keep their   *)
(* types; no throttle count exceeds max_count.                             *)
THEOREM TypeCorrect == Spec => []TypeOK
<1>1. IInv => TypeOK
  BY DEF IInv
<1>2. QED BY <1>1, Inductive, PTL

(* The alert loop, the dispatcher, the flush and a restart never drop a    *)
(* match between them without it being enqueued, suppressed or lost to a   *)
(* fault, an abort or a changed configuration.                             *)
THEOREM NoAlertDropped == Spec => []AlertsAccountedFor
<1>1. IInv => AlertsAccountedFor
  BY DEF IInv
<1>2. QED BY <1>1, Inductive, PTL

(* handle_throttle enqueues at most max_count notifications per window,    *)
(* also across restarts, unless the count was rolled back.                 *)
THEOREM ThrottleLimitKept == Spec => []ThrottleLimit
<1>1. ASSUME IInv PROVE ThrottleLimit
  <2>1. ASSUME NEW a \in Actions \ forgotten PROVE sent[a] <= MaxCount
    <3>1. sent[a] + InFlight(a) <= Counted(a).count
      BY <1>1 DEF IInv, CountInv
    <3>2. Counted(a).count \in 0..MaxCount
      <4>1. throttle \in ThrottleStates /\ savedT \in ThrottleStates
        BY <1>1 DEF IInv, TypeOK
      <4>2. QED BY <4>1 DEF ThrottleStates, Counted
    <3>3. InFlight(a) \in {0, 1} /\ sent[a] \in Nat /\ MaxCount \in Nat
      BY <1>1, Typed, AlertAssumption DEF InFlight
    <3>4. QED BY <3>1, <3>2, <3>3
  <2>2. QED BY <2>1 DEF ThrottleLimit
<1>2. QED BY <1>1, Inductive, PTL

(* A shutdown whose flush completes leaves no window that a restart would  *)
(* dispatch again, and every throttle count in its row.                    *)
THEOREM StopsClean == Spec => CleanStop
<1>1. ASSUME IInv, SyncDone, up' = "stopped"
      PROVE  Aggregated(savedA) = {} /\ savedT = throttle
  <2>1. dpc = "write" /\ left = {} /\ up = "flushing"
    BY <1>1 DEF SyncDone, SyncEnds, IInv, TypeOK
  <2>2. \A a \in Actions : savedA[a].matches = {} /\ savedT[a] = throttle[a]
    BY <1>1, <2>1 DEF IInv, FlushInv
  <2>3. savedT \in ThrottleStates /\ throttle \in ThrottleStates
    BY <1>1 DEF IInv, TypeOK
  <2>4. savedT = throttle
    BY <2>2, <2>3 DEF ThrottleStates
  <2>5. QED BY <2>2, <2>4 DEF Aggregated
<1>2. IInv /\ [Next]_vars =>
        [SyncDone /\ up' = "stopped" => Aggregated(savedA) = {} /\ savedT = throttle]_vars
  BY <1>1
<1>3. QED BY <1>2, Inductive, PTL DEF Spec, CleanStop

=============================================================================
