--------------------------- MODULE Delivery_proofs ---------------------------
(***************************************************************************)
(* Proofs about Delivery: what the passes over monitors and logs keep, the *)
(* rows of the outbox, what scripts and templates that were accepted can   *)
(* still do, and that monitors which share an item do not disturb each     *)
(* other.                                                                  *)
(***************************************************************************)
EXTENDS Delivery, SequenceLemmas

\* The recursive function behind the runs of a monitor's script on the logs of
\* an item unfolds, since the contexts it goes through are in some set T.
LogSteps(f, ctx, monitors, item, i) ==
    LET names == EventNames(monitors[i].script)
    IN  /\ f[0] = ctx
        /\ \A k \in 1..Len(item.logs) :
              f[k] = IF names # {} /\ item.logs[k].name \notin names THEN f[k - 1]
                     ELSE EvaluateScript(f[k - 1], monitors, item, i, item.logs[k])
        /\ EvaluateLogs(ctx, monitors, item, i) =
              IF LogAware(monitors[i]) /\ CanDecode(monitors) THEN f[Len(item.logs)] ELSE ctx

LEMMA EvaluateLogsSteps ==
    ASSUME NEW T, NEW monitors, NEW item, NEW i, NEW ctx, ctx \in T,
           item.logs \in Seq(ToSet(item.logs)),
           \A c \in T, log \in ToSet(item.logs) : EvaluateScript(c, monitors, item, i, log) \in T
    PROVE  \E f : LogSteps(f, ctx, monitors, item, i)
<1> DEFINE n == Len(item.logs)
           names == EventNames(monitors[i].script)
           op(c, k) == IF names # {} /\ item.logs[k].name \notin names THEN c
                       ELSE EvaluateScript(c, monitors, item, i, item.logs[k])
           G(f) == [k \in 0..n |->
                       IF k = 0 THEN ctx
                       ELSE IF names # {} /\ item.logs[k].name \notin names THEN f[k - 1]
                       ELSE EvaluateScript(f[k - 1], monitors, item, i, item.logs[k])]
           step == [p \in T \X (1..n) |-> op(p[1], p[2])]
<1>1. n \in Nat /\ \A k \in 1..n : item.logs[k] \in ToSet(item.logs)
  OBVIOUS
<1>2. \A c \in T, k \in 1..n : op(c, k) \in T
  BY <1>1
<1>3. step \in [T \X (1..n) -> T]
  <2> HIDE DEF op, n
  <2> SUFFICES ASSUME NEW p \in T \X (1..n) PROVE op(p[1], p[2]) \in T
    OBVIOUS
  <2> QED BY <1>2
<1>4. PICK g \in [0..n -> T] : g[0] = ctx /\ \A k \in 1..n : g[k] = step[<<g[k - 1], k>>]
  <2> HIDE DEF step, n
  <2>1. n \in Nat /\ ctx \in T /\ step \in [T \X (1..n) -> T]
    BY <1>1, <1>3
  <2>2. \E g \in [0..n -> T] : Passes(g, ctx, step, n)
    BY ONLY <2>1, PassExists
  <2> QED BY <2>2 DEF Passes
<1>5. \A k \in 1..n : g[k] = op(g[k - 1], k)
  <2> SUFFICES ASSUME NEW k \in 1..n PROVE g[k] = op(g[k - 1], k)
    OBVIOUS
  <2> HIDE DEF op, n
  <2>1. <<g[k - 1], k>> \in T \X (1..n)
    BY <1>1
  <2> QED BY <1>4, <2>1
<1>6. g = G(g)
  <2>1. \A k \in 0..n : g[k] = G(g)[k]
    <3> SUFFICES ASSUME NEW k \in 0..n PROVE g[k] = IF k = 0 THEN ctx ELSE op(g[k - 1], k)
      OBVIOUS
    <3> HIDE DEF op
    <3>1. k = 0 \/ k \in 1..n
      BY <1>1
    <3> QED BY <1>4, <1>5, <3>1
  <2> QED BY <2>1
<1> DEFINE f == CHOOSE h : h = G(h)
<1>7. f = G(f)
  BY <1>6
<1>8. EvaluateLogs(ctx, monitors, item, i) =
         IF LogAware(monitors[i]) /\ CanDecode(monitors) THEN f[n] ELSE ctx
  BY DEF EvaluateLogs
<1> HIDE DEF f
<1>9. f[0] = ctx /\ \A k \in 1..n : f[k] = op(f[k - 1], k)
  <2> DEFINE h == G(f)
  <2>1. h[0] = ctx /\ \A k \in 1..n : h[k] = op(f[k - 1], k)
    <3>1. 0 \in 0..n /\ \A k \in 1..n : k \in 0..n /\ k # 0
      BY <1>1
    <3> QED BY <3>1
  <2> HIDE DEF h, op
  <2>2. h = f
    BY <1>7 DEF h
  <2> QED BY <2>1, <2>2
<1> QED BY <1>8, <1>9 DEF LogSteps

\* What every run of a script keeps is kept by the runs of a monitor's script
\* on the logs of an item.
LEMMA EvaluateLogsIn ==
    ASSUME NEW T, NEW monitors, NEW item, NEW i, NEW ctx, ctx \in T,
           item.logs \in Seq(ToSet(item.logs)),
           \A c \in T, log \in ToSet(item.logs) : EvaluateScript(c, monitors, item, i, log) \in T
    PROVE  EvaluateLogs(ctx, monitors, item, i) \in T
<1> DEFINE n == Len(item.logs)
<1>1. n \in Nat /\ \A k \in 1..n : item.logs[k] \in ToSet(item.logs)
  OBVIOUS
<1>2. PICK f : LogSteps(f, ctx, monitors, item, i)
  BY EvaluateLogsSteps
<1>3. f[0] \in T /\ \A k \in 1..n : f[k - 1] \in T => f[k] \in T
  BY <1>1, <1>2 DEF LogSteps
<1>4. f[n] \in T
  <2> HIDE DEF n
  <2> QED BY ONLY <1>1, <1>3, PassStays
<1> QED BY <1>2, <1>4 DEF LogSteps

LogPassSteps(f, ctx, monitors, item) ==
    /\ f[0] = ctx
    /\ \A k \in 1..Len(monitors) : f[k] = EvaluateLogs(f[k - 1], monitors, item, k)
    /\ LogPass(ctx, monitors, item) = f[Len(monitors)]

LEMMA LogPassUnfolds ==
    ASSUME NEW T, NEW monitors, NEW item, NEW ctx, ctx \in T,
           monitors \in Seq(ToSet(monitors)),
           \A c \in T, i \in DOMAIN monitors : EvaluateLogs(c, monitors, item, i) \in T
    PROVE  \E f : LogPassSteps(f, ctx, monitors, item)
<1> DEFINE n == Len(monitors)
           G(f) == [k \in 0..n |-> IF k = 0 THEN ctx ELSE EvaluateLogs(f[k - 1], monitors, item, k)]
           step == [p \in T \X (1..n) |-> EvaluateLogs(p[1], monitors, item, p[2])]
<1>1. n \in Nat /\ DOMAIN monitors = 1..n
  OBVIOUS
<1>2. \A c \in T, k \in 1..n : EvaluateLogs(c, monitors, item, k) \in T
  BY <1>1
<1>3. step \in [T \X (1..n) -> T]
  <2> HIDE DEF n
  <2> SUFFICES ASSUME NEW p \in T \X (1..n) PROVE EvaluateLogs(p[1], monitors, item, p[2]) \in T
    OBVIOUS
  <2> QED BY <1>2
<1>4. PICK g \in [0..n -> T] : g[0] = ctx /\ \A k \in 1..n : g[k] = step[<<g[k - 1], k>>]
  <2> HIDE DEF step, n
  <2>1. n \in Nat /\ ctx \in T /\ step \in [T \X (1..n) -> T]
    BY <1>1, <1>3
  <2>2. \E g \in [0..n -> T] : Passes(g, ctx, step, n)
    BY ONLY <2>1, PassExists
  <2> QED BY <2>2 DEF Passes
<1>5. \A k \in 1..n : g[k] = EvaluateLogs(g[k - 1], monitors, item, k)
  <2> SUFFICES ASSUME NEW k \in 1..n PROVE g[k] = EvaluateLogs(g[k - 1], monitors, item, k)
    OBVIOUS
  <2> HIDE DEF n
  <2>1. <<g[k - 1], k>> \in T \X (1..n)
    BY <1>1
  <2> QED BY <1>4, <2>1
<1>6. g = G(g)
  <2>1. \A k \in 0..n : g[k] = G(g)[k]
    <3> SUFFICES ASSUME NEW k \in 0..n
                 PROVE  g[k] = IF k = 0 THEN ctx ELSE EvaluateLogs(g[k - 1], monitors, item, k)
      OBVIOUS
    <3>1. k = 0 \/ k \in 1..n
      BY <1>1
    <3> QED BY <1>4, <1>5, <3>1
  <2> QED BY <2>1
<1> DEFINE f == CHOOSE h : h = G(h)
<1>7. f = G(f)
  BY <1>6
<1>8. LogPass(ctx, monitors, item) = f[n]
  BY DEF LogPass
<1> HIDE DEF f
<1>9. f[0] = ctx /\ \A k \in 1..n : f[k] = EvaluateLogs(f[k - 1], monitors, item, k)
  <2> DEFINE h == G(f)
  <2>1. h[0] = ctx /\ \A k \in 1..n : h[k] = EvaluateLogs(f[k - 1], monitors, item, k)
    <3>1. 0 \in 0..n /\ \A k \in 1..n : k \in 0..n /\ k # 0
      BY <1>1
    <3> QED BY <3>1
  <2> HIDE DEF h
  <2>2. h = f
    BY <1>7 DEF h
  <2> QED BY <2>1, <2>2
<1> QED BY <1>8, <1>9 DEF LogPassSteps

LEMMA LogPassIn ==
    ASSUME NEW T, NEW monitors, NEW item, NEW ctx, ctx \in T,
           monitors \in Seq(ToSet(monitors)),
           \A c \in T, i \in DOMAIN monitors : EvaluateLogs(c, monitors, item, i) \in T
    PROVE  LogPass(ctx, monitors, item) \in T
<1> DEFINE n == Len(monitors)
<1>1. n \in Nat /\ DOMAIN monitors = 1..n
  OBVIOUS
<1>2. PICK f : LogPassSteps(f, ctx, monitors, item)
  BY LogPassUnfolds
<1>3. f[0] \in T /\ \A k \in 1..n : f[k - 1] \in T => f[k] \in T
  BY <1>1, <1>2 DEF LogPassSteps
<1>4. f[n] \in T
  <2> HIDE DEF n
  <2> QED BY ONLY <1>1, <1>3, PassStays
<1> QED BY <1>2, <1>4 DEF LogPassSteps

TxPassSteps(f, ctx, monitors, item) ==
    /\ f[0] = ctx
    /\ \A k \in 1..Len(monitors) : f[k] = EvaluateTx(f[k - 1], monitors, item, k)
    /\ TxPass(ctx, monitors, item) = f[Len(monitors)]

LEMMA TxPassUnfolds ==
    ASSUME NEW T, NEW monitors, NEW item, NEW ctx, ctx \in T,
           monitors \in Seq(ToSet(monitors)),
           \A c \in T, i \in DOMAIN monitors : EvaluateTx(c, monitors, item, i) \in T
    PROVE  \E f : TxPassSteps(f, ctx, monitors, item)
<1> DEFINE n == Len(monitors)
           G(f) == [k \in 0..n |-> IF k = 0 THEN ctx ELSE EvaluateTx(f[k - 1], monitors, item, k)]
           step == [p \in T \X (1..n) |-> EvaluateTx(p[1], monitors, item, p[2])]
<1>1. n \in Nat /\ DOMAIN monitors = 1..n
  OBVIOUS
<1>2. \A c \in T, k \in 1..n : EvaluateTx(c, monitors, item, k) \in T
  BY <1>1
<1>3. step \in [T \X (1..n) -> T]
  <2> HIDE DEF n
  <2> SUFFICES ASSUME NEW p \in T \X (1..n) PROVE EvaluateTx(p[1], monitors, item, p[2]) \in T
    OBVIOUS
  <2> QED BY <1>2
<1>4. PICK g \in [0..n -> T] : g[0] = ctx /\ \A k \in 1..n : g[k] = step[<<g[k - 1], k>>]
  <2> HIDE DEF step, n
  <2>1. n \in Nat /\ ctx \in T /\ step \in [T \X (1..n) -> T]
    BY <1>1, <1>3
  <2>2. \E g \in [0..n -> T] : Passes(g, ctx, step, n)
    BY ONLY <2>1, PassExists
  <2> QED BY <2>2 DEF Passes
<1>5. \A k \in 1..n : g[k] = EvaluateTx(g[k - 1], monitors, item, k)
  <2> SUFFICES ASSUME NEW k \in 1..n PROVE g[k] = EvaluateTx(g[k - 1], monitors, item, k)
    OBVIOUS
  <2> HIDE DEF n
  <2>1. <<g[k - 1], k>> \in T \X (1..n)
    BY <1>1
  <2> QED BY <1>4, <2>1
<1>6. g = G(g)
  <2>1. \A k \in 0..n : g[k] = G(g)[k]
    <3> SUFFICES ASSUME NEW k \in 0..n
                 PROVE  g[k] = IF k = 0 THEN ctx ELSE EvaluateTx(g[k - 1], monitors, item, k)
      OBVIOUS
    <3>1. k = 0 \/ k \in 1..n
      BY <1>1
    <3> QED BY <1>4, <1>5, <3>1
  <2> QED BY <2>1
<1> DEFINE f == CHOOSE h : h = G(h)
<1>7. f = G(f)
  BY <1>6
<1>8. TxPass(ctx, monitors, item) = f[n]
  BY DEF TxPass
<1> HIDE DEF f
<1>9. f[0] = ctx /\ \A k \in 1..n : f[k] = EvaluateTx(f[k - 1], monitors, item, k)
  <2> DEFINE h == G(f)
  <2>1. h[0] = ctx /\ \A k \in 1..n : h[k] = EvaluateTx(f[k - 1], monitors, item, k)
    <3>1. 0 \in 0..n /\ \A k \in 1..n : k \in 0..n /\ k # 0
      BY <1>1
    <3> QED BY <3>1
  <2> HIDE DEF h
  <2>2. h = f
    BY <1>7 DEF h
  <2> QED BY <2>1, <2>2
<1> QED BY <1>8, <1>9 DEF TxPassSteps

LEMMA TxPassIn ==
    ASSUME NEW T, NEW monitors, NEW item, NEW ctx, ctx \in T,
           monitors \in Seq(ToSet(monitors)),
           \A c \in T, i \in DOMAIN monitors : EvaluateTx(c, monitors, item, i) \in T
    PROVE  TxPass(ctx, monitors, item) \in T
<1> DEFINE n == Len(monitors)
<1>1. n \in Nat /\ DOMAIN monitors = 1..n
  OBVIOUS
<1>2. PICK f : TxPassSteps(f, ctx, monitors, item)
  BY TxPassUnfolds
<1>3. f[0] \in T /\ \A k \in 1..n : f[k - 1] \in T => f[k] \in T
  BY <1>1, <1>2 DEF TxPassSteps
<1>4. f[n] \in T
  <2> HIDE DEF n
  <2> QED BY ONLY <1>1, <1>3, PassStays
<1> QED BY <1>2, <1>4 DEF TxPassSteps

\* Induction over evaluate_item: what holds of a fresh context and is kept by
\* every run of a script holds of the context at the end.
LEMMA EvaluateItemIn ==
    ASSUME NEW T, NEW monitors, NEW item, FreshContext \in T,
           monitors \in Seq(ToSet(monitors)), item.logs \in Seq(ToSet(item.logs)),
           \A c \in T, i \in DOMAIN monitors, log \in ToSet(item.logs) \cup {NoLog} :
               EvaluateScript(c, monitors, item, i, log) \in T
    PROVE  EvaluateItem(monitors, item) \in T
<1>1. \A c \in T, i \in DOMAIN monitors : EvaluateLogs(c, monitors, item, i) \in T
  <2> SUFFICES ASSUME NEW c \in T, NEW i \in DOMAIN monitors
               PROVE  EvaluateLogs(c, monitors, item, i) \in T
    OBVIOUS
  <2>1. \A d \in T, log \in ToSet(item.logs) : EvaluateScript(d, monitors, item, i, log) \in T
    OBVIOUS
  <2> QED BY <2>1, EvaluateLogsIn
<1>2. \A c \in T, i \in DOMAIN monitors : EvaluateTx(c, monitors, item, i) \in T
  BY DEF EvaluateTx
<1>3. LogPass(FreshContext, monitors, item) \in T
  BY <1>1, LogPassIn
<1> QED BY <1>2, <1>3, TxPassIn DEF EvaluateItem

----------------------------------------------------------------------------
\* The types.

Contexts(monitors) ==
    [matches : Seq(MatchOf(monitors)), matched : SUBSET Nat, decoded : BOOLEAN, failed : BOOLEAN]

\* The call a match or a script may be given.
LEMMA CallOfItem ==
    ASSUME NEW monitors, NEW item, item \in Items
    PROVE  DecodeFunctionInput(monitors, item) \in {NoCall} \cup {i.call : i \in Items}
  BY DEF DecodeFunctionInput

\* A run of a script keeps the types, and every match it makes is one of the
\* item.
LEMMA EvaluateScriptTyped ==
    ASSUME NEW monitors, NEW item, NEW i, NEW log, NEW ctx,
           item \in Items, i \in DOMAIN monitors, i \in Nat, ctx \in Contexts(monitors),
           log \in ToSet(item.logs) \cup {NoLog}
    PROVE  EvaluateScript(ctx, monitors, item, i, log) \in Contexts(monitors)
<1> DEFINE m == monitors[i]
           aware == CallAware(m)
           next == [ctx EXCEPT !.decoded = @ \/ aware]
           match == [monitor |-> i, item |-> item.tx, log |-> log,
                     call |-> CallJson(next, monitors, item)]
           new == [next EXCEPT !.matches = Append(@, match),
                               !.matched = IF log = NoLog THEN @ ELSE @ \cup {i}]
<1>1. aware \in BOOLEAN
  BY DEF CallAware, Accesses
<1> HIDE DEF aware
<1>2. next \in Contexts(monitors) /\ [next EXCEPT !.failed = TRUE] \in Contexts(monitors)
  <2>1. (ctx.decoded \/ aware) \in BOOLEAN
    BY <1>1
  <2> QED BY <2>1 DEF Contexts
<1>3. match \in MatchOf(monitors)
  <2>1. item.tx \in {j.tx : j \in Items}
    OBVIOUS
  <2>2. log \in {NoLog} \cup UNION {ToSet(j.logs) : j \in Items}
    <3>1. ToSet(item.logs) \in {ToSet(j.logs) : j \in Items}
      OBVIOUS
    <3> QED BY <3>1
  <2>3. CallJson(next, monitors, item) \in {NoCall} \cup {j.call : j \in Items}
    BY CallOfItem DEF CallJson
  <2> HIDE DEF next
  <2> QED BY <2>1, <2>2, <2>3 DEF MatchOf
<1> HIDE DEF next, match
<1>4. new \in Contexts(monitors)
  <2>1. next.matches \in Seq(MatchOf(monitors)) /\ next.matched \in SUBSET Nat
    BY <1>2 DEF Contexts
  <2>2. Append(next.matches, match) \in Seq(MatchOf(monitors))
    <3> DEFINE s == next.matches
               M == MatchOf(monitors)
    <3> HIDE DEF s, M
    <3>1. s \in Seq(M) /\ match \in M
      BY <1>3, <2>1 DEF s, M
    <3>2. Append(s, match) \in Seq(M)
      BY <3>1
    <3> QED BY <3>2 DEF s, M
  <2> DEFINE S == Seq(MatchOf(monitors))
  <2>3. next \in [matches : S, matched : SUBSET Nat, decoded : BOOLEAN, failed : BOOLEAN]
    BY <1>2 DEF Contexts
  <2>4. Append(next.matches, match) \in S
    BY <2>2
  <2> HIDE DEF S
  <2>5. new \in [matches : S, matched : SUBSET Nat, decoded : BOOLEAN, failed : BOOLEAN]
    BY <2>1, <2>3, <2>4
  <2> QED BY <2>5 DEF S, Contexts
<1>5. CreateMatches(next, monitors, item, i, log) = new
  BY DEF CreateMatches, match
<1> DEFINE result == RunScript(m.script, item.tx, log,
                               IF aware THEN DecodeFunctionInput(monitors, item) ELSE NoCall)
<1>6. EvaluateScript(ctx, monitors, item, i, log) =
        CASE ctx.failed -> ctx
          [] ~ctx.failed /\ result = "error" -> [next EXCEPT !.failed = TRUE]
          [] ~ctx.failed /\ result = "true" -> CreateMatches(next, monitors, item, i, log)
          [] OTHER -> next
  BY DEF EvaluateScript, next, aware
<1> HIDE DEF result, new
<1> QED BY <1>2, <1>4, <1>5, <1>6

LEMMA EvaluateItemTyped ==
    ASSUME NEW monitors, NEW item, item \in Items, monitors \in Seq(ToSet(monitors))
    PROVE  EvaluateItem(monitors, item) \in Contexts(monitors)
<1>1. item.logs \in Seq(ToSet(item.logs))
  BY ItemAssumption
<1>2. FreshContext \in Contexts(monitors)
  <2>1. <<>> \in Seq(MatchOf(monitors)) /\ {} \in SUBSET Nat
    OBVIOUS
  <2> QED BY <2>1 DEF FreshContext, Contexts
<1>3. \A c \in Contexts(monitors), i \in DOMAIN monitors, log \in ToSet(item.logs) \cup {NoLog} :
         EvaluateScript(c, monitors, item, i, log) \in Contexts(monitors)
  <2>1. \A i \in DOMAIN monitors : i \in Nat
    OBVIOUS
  <2> HIDE DEF Contexts
  <2> QED BY <2>1, EvaluateScriptTyped
<1> HIDE DEF Contexts
<1> QED BY <1>1, <1>2, <1>3, EvaluateItemIn

----------------------------------------------------------------------------
\* The rows.

\* What rendering ends with.
LEMMA RenderOutcome ==
    ASSUME NEW t, NEW ctx, t.at \in Places, ctx.matches \in Seq(ToSet(ctx.matches))
    PROVE  Render(t, ctx) \in {"ok", "error", "panic"}
<1>1. \A obj, path, filter : RenderPath(obj, path, filter) \in {"ok", "error"}
  BY DEF RenderPath, ApplyFilter
<1>2. \A vs : Sum(vs) \in {"ok", "error", "panic"}
  BY DEF Sum
<1> DEFINE results == [i \in DOMAIN ctx.matches |-> RenderPath(ctx.matches[i], t.path, t.filter)]
<1>3. FirstBad(results) \in {"ok", "error"}
  <2> DEFINE bad == {i \in DOMAIN results : results[i] # "ok"}
  <2>1. bad \subseteq Nat /\ bad \subseteq DOMAIN results
    OBVIOUS
  <2>2. FirstBad(results) = IF bad = {} THEN "ok" ELSE results[Min(bad)]
    BY DEF FirstBad
  <2>3. \A i \in DOMAIN results : results[i] \in {"ok", "error"}
    BY <1>1
  <2> HIDE DEF bad, results
  <2>4. bad # {} => Min(bad) \in bad
    BY <2>1, LeastNatural DEF Min
  <2> QED BY <2>1, <2>2, <2>3, <2>4
<1> HIDE DEF results
<1>4. CASE t.at = "top"
  BY <1>1, <1>4 DEF Render
<1>5. CASE t.at = "if"
  BY <1>1, <1>5 DEF Render
<1>6. CASE t.at = "each"
  BY <1>3, <1>6 DEF Render, results
<1>7. CASE t.at = "all"
  BY <1>2, <1>7 DEF Render
<1>8. CASE t.at = "test"
  BY <1>1, <1>8 DEF Render
<1> QED BY <1>4, <1>5, <1>6, <1>7, <1>8 DEF Places

\* Only an aggregation for a publisher is skipped.
LEMMA SkippedRow ==
    ASSUME IInv, NEW id \in DOMAIN queue, Attempt(queue[id]) = "skipped"
    PROVE  queue[id].kind = "aggregated" /\ setup.actions[queue[id].action].type \in Publishers
<1> DEFINE row == queue[id]
           a == setup.actions[row.action]
<1>1. row \in Row /\ RowOK(row) /\ setup \in Setups
  BY DEF IInv, ShapeInv, TypeOK
<1>2. row.action \in DOMAIN setup.actions
  BY <1>1 DEF RowOK
<1>3. /\ a.type \in Publishers \cup Webhooks \cup {"stdout"}
      /\ a.type \in Webhooks => a.message.at \in Places
      /\ a.type \in Webhooks /\ a.policy = "aggregation" => a.template.at \in Places
      /\ a.message.at \in Places \cup {"none"}
  BY <1>1, <1>2, SetupAssumption
<1>4. row.kind = "aggregated" => a.policy = "aggregation"
  <2>1. row.kind = "aggregated" => Aggregates(row.action)
    BY <1>1 DEF RowOK
  <2> QED BY <2>1 DEF Aggregates
<1>5. Context(row).matches \in Seq(ToSet(Context(row).matches))
  <2>1. row.matches \in Seq(Match)
    BY <1>1 DEF Row
  <2> DEFINE n == Len(row.matches)
             json == [i \in 1..n |-> MatchJson(row.matches[i])]
  <2>2. n \in Nat /\ DOMAIN row.matches = 1..n
    BY <2>1
  <2>3. Context(row).matches = <<>> \/ Context(row).matches = json
    BY <2>2 DEF Context
  <2>4. json \in [1..n -> ToSet(json)]
    BY DEF ToSet
  <2> HIDE DEF json, n
  <2>5. json \in Seq(ToSet(json))
    BY <2>2, <2>4
  <2>6. <<>> \in Seq(ToSet(<<>>))
    OBVIOUS
  <2> QED BY <2>3, <2>5, <2>6
<1>6. Attempt(row) \in {"error", Rendered(a, row)}
         \/ (row.kind = "aggregated" /\ a.type \in Publishers)
  BY DEF Attempt
<1> DEFINE ctx == Context(row)
<1> HIDE DEF row, a, ctx
<1>7. Rendered(a, row) # "skipped"
  <2>1. CASE a.type \in Publishers
    <3>1. a.type \notin Webhooks /\ a.type # "stdout"
      BY <2>1 DEF Publishers, Webhooks
    <3> QED BY <2>1, <3>1 DEF Rendered
  <2>2. CASE a.type = "stdout"
    <3>1. a.type \notin Webhooks /\ a.type \notin Publishers
      BY <2>2 DEF Publishers, Webhooks
    <3>2. Rendered(a, row) = RenderStdout(a, row)
      BY <2>2, <3>1 DEF Rendered
    <3>3. a.message.at \in Places => Render(a.message, ctx) \in {"ok", "error", "panic"}
      BY <1>5, RenderOutcome DEF ctx
    <3> QED BY <1>3, <3>2, <3>3 DEF RenderStdout, ctx
  <2>3. CASE a.type \in Webhooks
    <3>1. a.type # "stdout" /\ a.type \notin Publishers
      BY <2>3 DEF Publishers, Webhooks
    <3>2. Rendered(a, row) = Render(TemplateFor(a, row), ctx)
      BY <2>3, <3>1 DEF Rendered, RenderWebhook, ctx
    <3>3. TemplateFor(a, row).at \in Places
      BY <1>3, <1>4, <2>3 DEF TemplateFor
    <3>4. Render(TemplateFor(a, row), ctx) \in {"ok", "error", "panic"}
      BY <1>5, <3>3, RenderOutcome DEF ctx
    <3> QED BY <3>2, <3>4
  <2> QED BY <1>3, <2>1, <2>2, <2>3
<1>8. Attempt(row) = "skipped"
  BY DEF row
<1> QED BY <1>6, <1>7, <1>8 DEF row, a

\* Rows that are enqueued wait, and the others keep their place.
LEMMA EnqueueStep ==
    ASSUME IInv, NEW rows, rows \in Seq(Row), \A k \in DOMAIN rows : RowOK(rows[k]),
           Enqueue(rows), phase' # "down", phase # "down",
           UNCHANGED <<setup, buffer, received, killed>>
    PROVE  /\ queue' \in Seq(Row)
           /\ \A id \in DOMAIN queue' : RowOK(queue'[id])
           /\ DOMAIN queue \subseteq DOMAIN queue' /\ pending' \subseteq DOMAIN queue'
           /\ RowsDelivered'
<1> DEFINE R == Row
           m == Len(queue)
           n == Len(rows)
<1>1. queue \in Seq(R) /\ rows \in Seq(R)
  BY DEF IInv, ShapeInv
<1>2. queue' = queue \o rows /\ pending' = pending \cup (m + 1 .. m + n)
  BY DEF Enqueue
<1> HIDE DEF R
<1>3. /\ queue' \in Seq(R) /\ Len(queue') = m + n /\ m \in Nat /\ n \in Nat
      /\ \A k \in 1 .. m + n : queue'[k] = IF k <= m THEN queue[k] ELSE rows[k - m]
  BY <1>1, <1>2, ConcatElements
<1>4. DOMAIN queue = 1..m /\ DOMAIN rows = 1..n /\ DOMAIN queue' = 1 .. m + n
  BY <1>1, <1>3
<1> HIDE DEF m, n
<1>5. \A id \in 1..m : id \in 1 .. m + n /\ queue'[id] = queue[id]
  BY <1>3
<1>6. \A id \in 1 .. m + n : id \in 1..m \/ (id \in m + 1 .. m + n /\ id - m \in 1..n
                                              /\ queue'[id] = rows[id - m])
  BY <1>3
<1>7. m + 1 .. m + n \subseteq 1 .. m + n /\ 1..m \subseteq 1 .. m + n
  BY <1>3
<1>8. pending \subseteq 1..m /\ \A id \in 1..m : RowOK(queue[id])
  BY <1>4 DEF IInv, TypeOK
<1>9. \A id \in DOMAIN queue' : RowOK(queue'[id])
  <2> SUFFICES ASSUME NEW id \in 1 .. m + n PROVE RowOK(queue'[id])
    BY <1>4
  <2>1. CASE id \in 1..m
    BY <1>5, <1>8, <2>1
  <2>2. CASE id \notin 1..m
    <3>1. id - m \in DOMAIN rows /\ queue'[id] = rows[id - m]
      BY <1>4, <1>6, <2>2
    <3> QED BY <3>1
  <2> QED BY <2>1, <2>2
<1>10. RowsDelivered'
  <2> SUFFICES ASSUME NEW id \in 1 .. m + n
               PROVE  LET type == setup.actions[queue'[id].action].type
                      IN  \/ id \in pending' \cup received'
                          \/ id \in buffer' /\ type \in Unconfirmed /\ phase' # "down"
                          \/ id \in killed' /\ type \in Unconfirmed
                          \/ queue'[id].kind = "aggregated" /\ type \in Publishers
    BY <1>4 DEF RowsDelivered
  <2>1. CASE id \in 1..m
    <3>1. queue'[id] = queue[id] /\ id \in DOMAIN queue
      BY <1>4, <1>5, <2>1
    <3> QED BY <1>2, <3>1 DEF IInv, RowsDelivered
  <2>2. CASE id \notin 1..m
    BY <1>2, <1>6, <2>2
  <2> QED BY <2>1, <2>2
<1> QED BY <1>2, <1>3, <1>4, <1>7, <1>8, <1>9, <1>10 DEF R

\* The rows an item's matches become: one for every match and every action
\* that does not aggregate.
LEMMA DirectRows ==
    ASSUME setup \in Setups, NEW found, found \in Seq(Match)
    PROVE  LET direct == SetToSeq({a \in DOMAIN setup.actions : ~Aggregates(a)})
               rowsOf(m) == [k \in DOMAIN direct |->
                               [action |-> direct[k], kind |-> "single", matches |-> <<m>>]]
           IN  FlattenSeq([k \in DOMAIN found |-> rowsOf(found[k])]) \in Seq({r \in Row : RowOK(r)})
<1> DEFINE D == {a \in DOMAIN setup.actions : ~Aggregates(a)}
           direct == SetToSeq(D)
           rowsOf(m) == [k \in DOMAIN direct |->
                           [action |-> direct[k], kind |-> "single", matches |-> <<m>>]]
           G == {r \in Row : RowOK(r)}
           all == [k \in DOMAIN found |-> rowsOf(found[k])]
<1>1. direct \in Seq(D)
  <2>1. IsFiniteSet(DOMAIN setup.actions) /\ D \subseteq DOMAIN setup.actions
    BY SetupAssumption
  <2> HIDE DEF D
  <2>2. IsFiniteSet(D)
    BY <2>1, FS_Subset
  <2> QED BY <2>2, SetToSeqFacts
<1> HIDE DEF direct
<1>2. ASSUME NEW a \in D, NEW m \in Match
      PROVE  [action |-> a, kind |-> "single", matches |-> <<m>>] \in G
  <2> DEFINE s == <<m>>
             r == [action |-> a, kind |-> "single", matches |-> s]
  <2>1. s \in Seq(Match) /\ Len(s) = 1 /\ s # <<>> /\ DOMAIN s = {1} /\ s[1] = m
    <3> DEFINE M == Match
    <3>1. m \in M
      OBVIOUS
    <3> HIDE DEF M
    <3>2. s \in Seq(M) /\ Len(s) = 1 /\ s # <<>> /\ DOMAIN s = {1} /\ s[1] = m
      BY <3>1
    <3> QED BY <3>2 DEF M
  <2> HIDE DEF s
  <2>2. r.action = a /\ r.kind = "single" /\ r.matches = s /\ a \in DOMAIN setup.actions
        /\ ~Aggregates(a)
    OBVIOUS
  <2>3. r \in Row
    <3> DEFINE S == Seq(Match)
    <3>1. s \in S
      BY <2>1
    <3> HIDE DEF S
    <3>2. r \in [action : DOMAIN setup.actions, kind : {"single", "aggregated"}, matches : S]
      BY <2>2, <3>1
    <3> QED BY <3>2 DEF S, Row
  <2> HIDE DEF r
  <2>4. RowOK(r)
    <3>1. \A k \in DOMAIN r.matches : r.matches[k] \in Match
      <4> HIDE DEF Match
      <4> QED BY <2>1, <2>2
    <3>2. r.matches # <<>> /\ Len(r.matches) = 1
      BY <2>1, <2>2
    <3>3. r.kind = "single" <=> ~Aggregates(r.action)
      BY <2>2
    <3> QED BY <2>2, <3>1, <3>2, <3>3 DEF RowOK
  <2> QED BY <2>3, <2>4 DEF r, s
<1>3. ASSUME NEW m \in Match PROVE rowsOf(m) \in Seq(G)
  <2> DEFINE n == Len(direct)
             f == rowsOf(m)
  <2>1. n \in Nat /\ DOMAIN direct = 1..n /\ \A k \in 1..n : direct[k] \in D
    BY <1>1
  <2> HIDE DEF G, D, n
  <2>2. f \in [1..n -> G]
    BY <1>2, <2>1
  <2> HIDE DEF f
  <2>3. f \in Seq(G)
    BY <2>1, <2>2
  <2> QED BY <2>3 DEF f
<1>4. all \in Seq(Seq(G))
  <2> DEFINE n == Len(found)
             T == Seq(G)
             M == Match
  <2> HIDE DEF G, M, rowsOf
  <2>1. n \in Nat /\ DOMAIN found = 1..n /\ \A k \in 1..n : found[k] \in M
    <3>1. found \in Seq(M)
      BY DEF M
    <3> QED BY <3>1
  <2>2. \A k \in 1..n : rowsOf(found[k]) \in T
    BY <1>3, <2>1 DEF M
  <2> HIDE DEF T, n
  <2>3. all \in [1..n -> T]
    BY <2>1, <2>2
  <2> HIDE DEF all
  <2>4. all \in Seq(T)
    BY <2>1, <2>3
  <2> QED BY <2>4 DEF T
<1>5. FlattenSeq(all) \in Seq(G)
  <2> HIDE DEF G, all
  <2> QED BY <1>4, FlattenFacts
<1> QED BY <1>5 DEF direct

\* The row of a window that collected something.
LEMMA WindowRowOK ==
    ASSUME IInv, NEW a \in OpenWindows
    PROVE  WindowRow(a) \in {r \in Row : RowOK(r)}
<1>1. /\ windows \in [DOMAIN setup.actions -> Seq(Match)] /\ a \in DOMAIN setup.actions
      /\ windows[a] # <<>> /\ Aggregates(a)
  BY DEF IInv, ShapeInv, OpenWindows
<1> DEFINE S == Seq(Match)
           s == windows[a]
           r == [action |-> a, kind |-> "aggregated", matches |-> s]
<1>2. s \in S /\ \A k \in DOMAIN s : s[k] \in Match
  BY <1>1
<1> HIDE DEF S, s
<1>3. r \in [action : DOMAIN setup.actions, kind : {"single", "aggregated"}, matches : S]
  BY <1>1, <1>2
<1>4. r.action = a /\ r.kind = "aggregated" /\ r.matches = s
  OBVIOUS
<1> HIDE DEF r
<1>5. RowOK(r)
  BY <1>1, <1>2, <1>4 DEF RowOK, s
<1>6. WindowRow(a) = r
  BY DEF WindowRow, r, s
<1> QED BY <1>3, <1>5, <1>6 DEF S, Row

\* Sequences of good rows, for EnqueueStep.
LEMMA GoodRows ==
    ASSUME NEW rows, rows \in Seq({r \in Row : RowOK(r)})
    PROVE  rows \in Seq(Row) /\ \A k \in DOMAIN rows : RowOK(rows[k])
<1> DEFINE G == {r \in Row : RowOK(r)}
           R == Row
           n == Len(rows)
<1>1. G \subseteq R /\ \A r \in G : RowOK(r)
  OBVIOUS
<1>2. rows \in Seq(G)
  OBVIOUS
<1> HIDE DEF G, R
<1>3. rows \in [1..n -> G] /\ n \in Nat /\ DOMAIN rows = 1..n
  BY <1>2
<1>4. rows \in Seq(R)
  <2> HIDE DEF n
  <2>1. rows \in [1..n -> R]
    BY <1>1, <1>3
  <2> QED BY <1>3, <2>1
<1> QED BY <1>1, <1>3, <1>4 DEF R

----------------------------------------------------------------------------
\* The steps.

\* A step that enqueues rows keeps the invariant if it keeps the windows in
\* shape.
LEMMA EnqueueKeeps ==
    ASSUME IInv, NEW rows, rows \in Seq({r \in Row : RowOK(r)}), Enqueue(rows),
           phase # "down", phase' \in {"up", "draining"},
           UNCHANGED <<setup, actions, buffer, received, killed>>,
           evaluated' \subseteq Items, stops' \in 0..MaxStops,
           windows' \in [DOMAIN setup.actions -> Seq(Match)],
           \A a \in DOMAIN setup.actions : ~Aggregates(a) => windows'[a] = <<>>
    PROVE  IInv'
<1>1. rows \in Seq(Row) /\ \A k \in DOMAIN rows : RowOK(rows[k])
  BY GoodRows
<1>2. /\ queue' \in Seq(Row)
      /\ \A id \in DOMAIN queue' : RowOK(queue'[id])
      /\ DOMAIN queue \subseteq DOMAIN queue' /\ pending' \subseteq DOMAIN queue'
      /\ RowsDelivered'
  BY <1>1, EnqueueStep
<1>3. ShapeInv'
  <2>1. Row' = Row /\ Match' = Match
    BY DEF Row, Match
  <2>2. Accepted(setup)'
    BY DEF IInv, ShapeInv, Accepted
  <2>3. \A a \in DOMAIN setup'.actions : ~Aggregates(a)' => windows'[a] = <<>>
    BY DEF Aggregates
  <2>4. windows' \in [DOMAIN setup'.actions -> Seq(Match)']
    BY <2>1
  <2> QED BY <1>2, <2>1, <2>2, <2>3, <2>4 DEF ShapeInv
<1>4. TypeOK'
  <2>1. \A id \in DOMAIN queue' : RowOK(queue[id])'
    <3>1. \A id \in DOMAIN queue' : RowOK(queue[id])' <=> RowOK(queue'[id])
      BY DEF RowOK, Aggregates, Match
    <3> QED BY <1>2, <3>1
  <2>2. \A ids \in {pending', buffer', received', killed'} : ids \subseteq DOMAIN queue'
    BY <1>2 DEF IInv, TypeOK
  <2>3. \A a \in DOMAIN windows' : \A k \in DOMAIN windows'[a] : windows'[a][k] \in Match
    <3> DEFINE M == Match
    <3>1. windows' \in [DOMAIN setup.actions -> Seq(M)]
      OBVIOUS
    <3> HIDE DEF M
    <3>2. \A a \in DOMAIN windows' : windows'[a] \in Seq(M)
      BY <3>1
    <3>3. \A a \in DOMAIN windows' : \A k \in DOMAIN windows'[a] : windows'[a][k] \in M
      BY <3>2
    <3> QED BY <3>3 DEF M
  <2>4. setup' \in Setups /\ actions' \subseteq DOMAIN setup'.actions
    BY DEF IInv, TypeOK
  <2>5. Match' = Match
    BY DEF Match
  <2> QED BY <2>1, <2>2, <2>3, <2>4, <2>5 DEF TypeOK
<1> QED BY <1>2, <1>3, <1>4 DEF IInv

LEMMA EvaluateKeepsRows ==
    ASSUME IInv, NEW item \in Items, Evaluate(item)
    PROVE  IInv'
<1> DEFINE ctx == EvaluateItem(setup.monitors, item)
           found == IF ctx.failed THEN <<>> ELSE ctx.matches
           direct == SetToSeq({a \in DOMAIN setup.actions : ~Aggregates(a)})
           rowsOf(m) == [k \in DOMAIN direct |->
                           [action |-> direct[k], kind |-> "single", matches |-> <<m>>]]
           rows == FlattenSeq([k \in DOMAIN found |-> rowsOf(found[k])])
<1>1. setup \in Setups /\ evaluated \subseteq Items /\ stops \in 0..MaxStops
  BY DEF IInv, TypeOK
<1>2. found \in Seq(Match)
  <2>1. setup.monitors \in Seq(ToSet(setup.monitors))
    BY <1>1, SetupAssumption
  <2>2. ctx \in Contexts(setup.monitors)
    BY <2>1, EvaluateItemTyped
  <2> HIDE DEF ctx
  <2>3. ctx.matches \in Seq(MatchOf(setup.monitors)) /\ <<>> \in Seq(MatchOf(setup.monitors))
    BY <2>2 DEF Contexts
  <2> QED BY <2>3 DEF Match
<1> HIDE DEF found
<1>3. rows \in Seq({r \in Row : RowOK(r)})
  BY <1>1, <1>2, DirectRows
<1>4. /\ Enqueue(rows)
      /\ phase = "up" /\ evaluated' = evaluated \cup {item}
      /\ windows' = [a \in DOMAIN windows |->
                        IF Aggregates(a) THEN windows[a] \o found ELSE windows[a]]
      /\ UNCHANGED <<setup, phase, actions, buffer, received, killed, stops>>
  BY DEF Evaluate, found
<1> HIDE DEF rows
<1>5. /\ windows' \in [DOMAIN setup.actions -> Seq(Match)]
      /\ \A a \in DOMAIN setup.actions : ~Aggregates(a) => windows'[a] = <<>>
  <2> DEFINE T == Seq(Match)
  <2>1. /\ windows \in [DOMAIN setup.actions -> T]
        /\ \A a \in DOMAIN setup.actions : ~Aggregates(a) => windows[a] = <<>>
    BY DEF IInv, ShapeInv
  <2>2. \A s \in T : s \o found \in T
    BY <1>2, ConcatElements
  <2> HIDE DEF T
  <2>3. /\ windows' \in [DOMAIN setup.actions -> T]
        /\ \A a \in DOMAIN setup.actions : ~Aggregates(a) => windows'[a] = <<>>
    BY <1>4, <2>1, <2>2
  <2> QED BY <2>3 DEF T
<1>6. phase' \in {"up", "draining"} /\ phase # "down" /\ evaluated' \subseteq Items
      /\ stops' \in 0..MaxStops
  BY <1>1, <1>4
<1> QED BY ONLY IInv, <1>3, <1>4, <1>5, <1>6, EnqueueKeeps

LEMMA NoWindowsTyped ==
    ASSUME TRUE
    PROVE  /\ NoWindows(setup) \in [DOMAIN setup.actions -> Seq(Match)]
           /\ \A a \in DOMAIN setup.actions : NoWindows(setup)[a] = <<>>
<1>1. <<>> \in Seq(Match)
  OBVIOUS
<1> QED BY <1>1 DEF NoWindows

LEMMA CloseKeepsRows ==
    ASSUME IInv, NEW a, CloseWindow(a)
    PROVE  IInv'
<1> DEFINE G == {r \in Row : RowOK(r)}
           row == WindowRow(a)
           rows == <<row>>
<1>1. /\ a \in OpenWindows /\ Enqueue(rows) /\ phase = "up"
      /\ windows' = [windows EXCEPT ![a] = <<>>]
      /\ UNCHANGED <<setup, phase, actions, evaluated, buffer, received, killed, stops>>
  BY DEF CloseWindow
<1>2. rows \in Seq({r \in Row : RowOK(r)})
  <2>1. row \in G
    BY <1>1, WindowRowOK
  <2> HIDE DEF G, row
  <2>2. rows \in Seq(G)
    BY <2>1
  <2> QED BY <2>2 DEF G
<1> HIDE DEF rows
<1>3. /\ windows' \in [DOMAIN setup.actions -> Seq(Match)]
      /\ \A b \in DOMAIN setup.actions : ~Aggregates(b) => windows'[b] = <<>>
  <2> DEFINE T == Seq(Match)
  <2>1. /\ windows \in [DOMAIN setup.actions -> T] /\ <<>> \in T
        /\ \A b \in DOMAIN setup.actions : ~Aggregates(b) => windows[b] = <<>>
    BY DEF IInv, ShapeInv
  <2> HIDE DEF T
  <2>2. /\ windows' \in [DOMAIN setup.actions -> T]
        /\ \A b \in DOMAIN setup.actions : ~Aggregates(b) => windows'[b] = <<>>
    BY <1>1, <2>1
  <2> QED BY <2>2 DEF T
<1>4. phase' \in {"up", "draining"} /\ phase # "down" /\ evaluated' \subseteq Items
      /\ stops' \in 0..MaxStops
  BY <1>1 DEF IInv, TypeOK
<1> QED BY ONLY IInv, <1>1, <1>2, <1>3, <1>4, EnqueueKeeps

LEMMA StopKeepsRows ==
    ASSUME IInv, Stop
    PROVE  IInv'
<1> DEFINE G == {r \in Row : RowOK(r)}
           open == SetToSeq(OpenWindows)
           rows == [k \in DOMAIN open |-> WindowRow(open[k])]
<1>1. /\ Enqueue(rows) /\ phase = "up" /\ phase' = "draining"
      /\ windows' = NoWindows(setup) /\ stops' = stops + 1 /\ stops < MaxStops
      /\ UNCHANGED <<setup, actions, evaluated, buffer, received, killed>>
  BY DEF Stop
<1>2. open \in Seq(OpenWindows)
  <2>1. OpenWindows \subseteq DOMAIN setup.actions /\ IsFiniteSet(DOMAIN setup.actions)
    BY SetupAssumption DEF IInv, ShapeInv, TypeOK, OpenWindows
  <2>2. IsFiniteSet(OpenWindows)
    BY <2>1, FS_Subset
  <2> QED BY <2>2, SetToSeqFacts
<1> HIDE DEF open
<1>3. rows \in Seq({r \in Row : RowOK(r)})
  <2> DEFINE n == Len(open)
  <2>1. n \in Nat /\ DOMAIN open = 1..n /\ \A k \in 1..n : open[k] \in OpenWindows
    BY <1>2
  <2>2. \A k \in 1..n : WindowRow(open[k]) \in G
    BY <2>1, WindowRowOK
  <2> HIDE DEF G, n
  <2>3. rows \in [1..n -> G]
    BY <2>1, <2>2
  <2> HIDE DEF rows
  <2>4. rows \in Seq(G)
    BY <2>1, <2>3
  <2> QED BY <2>4 DEF G
<1> HIDE DEF rows
<1>4. /\ windows' \in [DOMAIN setup.actions -> Seq(Match)]
      /\ \A b \in DOMAIN setup.actions : ~Aggregates(b) => windows'[b] = <<>>
  BY <1>1, NoWindowsTyped
<1>5. phase' \in {"up", "draining"} /\ phase # "down" /\ evaluated' \subseteq Items
      /\ stops' \in 0..MaxStops
  <2>1. stops \in 0..MaxStops /\ MaxStops \in Nat /\ evaluated \subseteq Items
    BY DeliveryAssumption DEF IInv, TypeOK
  <2> QED BY <1>1, <2>1
<1> QED BY ONLY IInv, <1>1, <1>3, <1>4, <1>5, EnqueueKeeps

\* A step that enqueues nothing keeps the rows as they are.
LEMMA RowsKept ==
    ASSUME IInv, UNCHANGED <<setup, evaluated, queue>>,
           phase' \in {"down", "up", "draining"}, actions' \subseteq DOMAIN setup.actions,
           stops' \in 0..MaxStops,
           \A ids \in {pending', buffer', received', killed'} : ids \subseteq DOMAIN queue,
           windows' \in {windows, NoWindows(setup)},
           RowsDelivered'
    PROVE  IInv'
<1>1. /\ windows' \in [DOMAIN setup.actions -> Seq(Match)]
      /\ \A a \in DOMAIN setup.actions : ~Aggregates(a) => windows'[a] = <<>>
  <2>1. CASE windows' = windows
    BY <2>1 DEF IInv, ShapeInv
  <2>2. CASE windows' = NoWindows(setup)
    BY <2>2, NoWindowsTyped
  <2> QED BY <2>1, <2>2
<1>2. ShapeInv'
  <2>1. Row' = Row /\ Match' = Match
    BY DEF Row, Match
  <2>2. Accepted(setup)'
    BY DEF IInv, ShapeInv, Accepted
  <2>3. \A a \in DOMAIN setup'.actions : ~Aggregates(a)' => windows'[a] = <<>>
    BY <1>1 DEF Aggregates
  <2>4. windows' \in [DOMAIN setup'.actions -> Seq(Match)']
    BY <1>1, <2>1
  <2>5. queue' \in Seq(Row)
    BY DEF IInv, ShapeInv
  <2> QED BY <2>1, <2>2, <2>3, <2>4, <2>5 DEF ShapeInv
<1>3. TypeOK'
  <2>1. \A id \in DOMAIN queue' : RowOK(queue[id])'
    <3>1. \A id \in DOMAIN queue : RowOK(queue[id])' <=> RowOK(queue[id])
      BY DEF RowOK, Aggregates, Match
    <3> QED BY <3>1 DEF IInv, TypeOK
  <2>2. \A a \in DOMAIN windows' : \A k \in DOMAIN windows'[a] : windows'[a][k] \in Match
    <3> DEFINE M == Match
    <3>1. windows' \in [DOMAIN setup.actions -> Seq(M)]
      BY <1>1
    <3> HIDE DEF M
    <3>2. \A a \in DOMAIN windows' : windows'[a] \in Seq(M)
      BY <3>1
    <3>3. \A a \in DOMAIN windows' : \A k \in DOMAIN windows'[a] : windows'[a][k] \in M
      BY <3>2
    <3> QED BY <3>3 DEF M
  <2>3. /\ setup' \in Setups /\ actions' \subseteq DOMAIN setup'.actions
        /\ evaluated' \subseteq Items
    BY DEF IInv, TypeOK
  <2>4. Match' = Match
    BY DEF Match
  <2> QED BY <2>1, <2>2, <2>3, <2>4 DEF TypeOK
<1> QED BY <1>2, <1>3 DEF IInv

\* What is known of each row before a step.
LEMMA RowCases ==
    ASSUME IInv, NEW id \in DOMAIN queue
    PROVE  LET type == setup.actions[queue[id].action].type
           IN  \/ id \in pending \cup received
               \/ id \in buffer /\ type \in Unconfirmed /\ phase # "down"
               \/ id \in killed /\ type \in Unconfirmed
               \/ queue[id].kind = "aggregated" /\ type \in Publishers
  BY DEF IInv, RowsDelivered

\* A row that was executed is with its receiver or with the client, or was
\* skipped.
LEMMA ExecuteKeepsRows ==
    ASSUME IInv, NEW id, Execute(id)
    PROVE  IInv'
<1> DEFINE Type(k) == setup.actions[queue[k].action].type
<1>1. /\ phase # "down" /\ id \in pending /\ pending' = pending \ {id}
      /\ Attempt(queue[id]) \in {"ok", "skipped"}
      /\ UNCHANGED <<setup, phase, actions, evaluated, windows, queue, killed, stops>>
  BY DEF Execute
<1>2. id \in DOMAIN queue
  BY <1>1 DEF IInv, TypeOK
<1>3. \/ /\ Attempt(queue[id]) = "skipped" /\ UNCHANGED <<buffer, received>>
      \/ received' = received \cup {id} /\ buffer' = buffer
      \/ Type(id) \in Unconfirmed /\ buffer' = buffer \cup {id} /\ received' = received
  <2>1. CASE Attempt(queue[id]) = "skipped"
    BY <2>1 DEF Execute
  <2>2. CASE Attempt(queue[id]) # "skipped"
    <3>1. Send(Type(id), id)
      BY <2>2 DEF Execute
    <3> QED BY <3>1 DEF Send, KafkaPublish, NatsPublish, RabbitMqPublish, Arrives, Held, Unconfirmed
  <2> QED BY <2>1, <2>2
<1>4. RowsDelivered'
  <2> SUFFICES ASSUME NEW k \in DOMAIN queue
               PROVE  \/ k \in pending' \cup received'
                      \/ k \in buffer' /\ Type(k) \in Unconfirmed /\ phase # "down"
                      \/ k \in killed /\ Type(k) \in Unconfirmed
                      \/ queue[k].kind = "aggregated" /\ Type(k) \in Publishers
    BY <1>1 DEF RowsDelivered
  <2>1. \/ k \in pending \cup received
        \/ k \in buffer /\ Type(k) \in Unconfirmed /\ phase # "down"
        \/ k \in killed /\ Type(k) \in Unconfirmed
        \/ queue[k].kind = "aggregated" /\ Type(k) \in Publishers
    BY RowCases
  <2>2. Attempt(queue[id]) = "skipped" => queue[id].kind = "aggregated" /\ Type(id) \in Publishers
    BY <1>2, SkippedRow
  <2> HIDE DEF Type
  <2> QED BY <1>1, <1>3, <2>1, <2>2
<1>5. \A ids \in {pending', buffer', received', killed'} : ids \subseteq DOMAIN queue
  BY <1>1, <1>2, <1>3 DEF IInv, TypeOK
<1>6. /\ phase' \in {"down", "up", "draining"} /\ actions' \subseteq DOMAIN setup.actions
      /\ stops' \in 0..MaxStops /\ windows' \in {windows, NoWindows(setup)}
  BY <1>1 DEF IInv, TypeOK
<1> QED BY ONLY IInv, <1>1, <1>4, <1>5, <1>6, RowsKept

\* The process goes down: what the clients held and did not get to write is
\* lost with them.
LEMMA DownKeepsRows ==
    ASSUME IInv, NEW written, written \subseteq buffer,
           phase' = "down", actions' = {}, stops' \in 0..MaxStops,
           buffer' = {}, received' = received \cup written,
           killed' = killed \cup (buffer \ written),
           windows' \in {windows, NoWindows(setup)},
           UNCHANGED <<setup, evaluated, queue, pending>>
    PROVE  IInv'
<1> DEFINE Type(k) == setup.actions[queue[k].action].type
<1>1. RowsDelivered'
  <2> SUFFICES ASSUME NEW k \in DOMAIN queue
               PROVE  \/ k \in pending \cup received'
                      \/ k \in killed' /\ Type(k) \in Unconfirmed
                      \/ queue[k].kind = "aggregated" /\ Type(k) \in Publishers
    BY DEF RowsDelivered
  <2>1. \/ k \in pending \cup received
        \/ k \in buffer /\ Type(k) \in Unconfirmed /\ phase # "down"
        \/ k \in killed /\ Type(k) \in Unconfirmed
        \/ queue[k].kind = "aggregated" /\ Type(k) \in Publishers
    BY RowCases
  <2> HIDE DEF Type
  <2> QED BY <2>1
<1>2. \A ids \in {pending', buffer', received', killed'} : ids \subseteq DOMAIN queue
  BY DEF IInv, TypeOK
<1>3. phase' \in {"down", "up", "draining"} /\ actions' \subseteq DOMAIN setup.actions
  OBVIOUS
<1> QED BY <1>1, <1>2, <1>3, RowsKept

LEMMA GoDownKeepsRows ==
    ASSUME IInv, GoDown, stops' \in 0..MaxStops, windows' \in {windows, NoWindows(setup)}
    PROVE  IInv'
<1> DEFINE written == {}
<1>1. /\ written \subseteq buffer /\ phase' = "down" /\ actions' = {} /\ buffer' = {}
      /\ received' = received \cup written /\ killed' = killed \cup (buffer \ written)
      /\ UNCHANGED <<setup, evaluated, queue, pending>>
  BY DEF GoDown
<1> HIDE DEF written
<1> QED BY <1>1, DownKeepsRows

LEMMA InitIInv == Init => IInv
<1> SUFFICES ASSUME Init PROVE IInv
  OBVIOUS
<1>1. /\ setup \in Setups /\ Accepted(setup) /\ phase = "down" /\ actions = {}
      /\ evaluated = {} /\ windows = NoWindows(setup) /\ queue = <<>>
      /\ pending = {} /\ buffer = {} /\ received = {} /\ killed = {} /\ stops = 0
  BY DEF Init
<1>2. <<>> \in Seq(Row) /\ DOMAIN <<>> = {}
  OBVIOUS
<1>3. ShapeInv
  BY <1>1, <1>2, NoWindowsTyped DEF ShapeInv
<1>4. TypeOK
  <2>1. \A a \in DOMAIN windows : windows[a] = <<>>
    BY <1>1 DEF NoWindows
  <2> QED BY <1>1, <1>2, <2>1, DeliveryAssumption DEF TypeOK
<1>5. RowsDelivered
  BY <1>1, <1>2 DEF RowsDelivered
<1> QED BY <1>3, <1>4, <1>5 DEF IInv

LEMMA NextIInv == ASSUME IInv, [Next]_vars PROVE IInv'
<1>1. /\ stops \in 0..MaxStops /\ MaxStops \in Nat
      /\ actions \subseteq DOMAIN setup.actions /\ phase \in {"down", "up", "draining"}
      /\ \A ids \in {pending, buffer, received, killed} : ids \subseteq DOMAIN queue
  BY DeliveryAssumption DEF IInv, TypeOK
<1>2. ASSUME NEW failing, Start(failing) PROVE IInv'
  <2>1. /\ phase = "down" /\ phase' = "up" /\ actions' \subseteq DOMAIN setup.actions
        /\ UNCHANGED <<setup, evaluated, windows, queue, pending, buffer, received, killed, stops>>
    BY <1>2 DEF Start
  <2>2. RowsDelivered'
    BY <2>1 DEF IInv, RowsDelivered
  <2> QED BY <1>1, <2>1, <2>2, RowsKept
<1>3. ASSUME NEW id, BrokerReceives(id) PROVE IInv'
  <2>1. /\ id \in buffer /\ buffer' = buffer \ {id} /\ received' = received \cup {id}
        /\ UNCHANGED <<setup, phase, actions, evaluated, windows, queue, pending, killed, stops>>
    BY <1>3 DEF BrokerReceives
  <2>2. RowsDelivered'
    BY <2>1 DEF IInv, RowsDelivered
  <2>3. \A ids \in {pending', buffer', received', killed'} : ids \subseteq DOMAIN queue
    BY <1>1, <2>1
  <2> QED BY <1>1, <2>1, <2>2, <2>3, RowsKept
<1>4. CASE DrainEnds
  <2>1. PICK written \in SUBSET buffer :
           /\ buffer' = {} /\ received' = received \cup written
           /\ killed' = killed \cup (buffer \ written)
    BY <1>4 DEF DrainEnds, Shutdown
  <2>2. /\ phase' = "down" /\ actions' = {} /\ windows' = windows /\ stops' = stops
        /\ UNCHANGED <<setup, evaluated, queue, pending>>
    BY <1>4 DEF DrainEnds
  <2> QED BY <1>1, <2>1, <2>2, DownKeepsRows
<1>5. ASSUME GoDown, UNCHANGED <<windows, stops>> PROVE IInv'
  BY <1>1, <1>5, GoDownKeepsRows
<1>6. CASE DrainTimesOut
  BY <1>5, <1>6 DEF DrainTimesOut
<1>7. ASSUME NEW id, Panic(id) PROVE IInv'
  BY <1>5, <1>7, StopKeepsRows DEF Panic
<1>8. CASE Crash
  <2>1. GoDown /\ windows' \in {windows, NoWindows(setup)} /\ stops' \in 0..MaxStops
    BY <1>1, <1>8 DEF Crash
  <2> QED BY <2>1, GoDownKeepsRows
<1>9. CASE UNCHANGED vars
  <2>1. UNCHANGED <<setup, phase, actions, evaluated, windows, queue, pending, buffer, received,
                    killed, stops>>
    BY <1>9 DEF vars
  <2>2. RowsDelivered'
    BY <2>1 DEF IInv, RowsDelivered
  <2> QED BY <1>1, <2>1, <2>2, RowsKept
<1> QED BY <1>2, <1>3, <1>4, <1>6, <1>7, <1>8, <1>9, EvaluateKeepsRows, CloseKeepsRows,
           ExecuteKeepsRows, StopKeepsRows
        DEF Next

\* The types of Delivery, for every configuration, ABI and stream of items:
\* every match carries data of one item, every row is one the dispatcher can
\* be asked for (evaluate_item, process_matches_batch, the outbox).
THEOREM TypeCorrect == Spec => []TypeOK
<1>1. Init => IInv
  BY InitIInv
<1>2. IInv /\ [Next]_vars => IInv'
  BY NextIInv
<1>3. IInv => TypeOK
  BY DEF IInv
<1> QED BY <1>1, <1>2, <1>3, PTL DEF Spec

\* A row leaves the outbox only for the receiver, for the client of an
\* unconfirmed publisher, or because no publisher sends aggregations
\* (ActionDispatcher::execute, the publishers, shutdown), for every
\* configuration and through any number of stops, panics and crashes.
THEOREM RowsAreDelivered == Spec => []RowsDelivered
<1>1. Init => IInv
  BY InitIInv
<1>2. IInv /\ [Next]_vars => IInv'
  BY NextIInv
<1>3. IInv => RowsDelivered
  BY DEF IInv
<1> QED BY <1>1, <1>2, <1>3, PTL DEF Spec

----------------------------------------------------------------------------
\* Scripts.

\* A script ends at the first condition that does not let it go on.
LEMMA OutcomeFacts ==
    ASSUME NEW script, NEW results, NEW n, n \in Nat, DOMAIN results = 1..n
    PROVE  LET ends == {i \in 1..n : results[i] # GoesOn(script)}
           IN  /\ ends = {} => Outcome(script, results) = GoesOn(script)
               /\ ends # {} => \E k \in ends : /\ Outcome(script, results) = results[k]
                                               /\ \A j \in ends : k <= j
<1> DEFINE ends == {i \in 1..n : results[i] # GoesOn(script)}
<1>1. Outcome(script, results) = IF ends = {} THEN GoesOn(script) ELSE results[Min(ends)]
  BY DEF Outcome
<1>2. ends \subseteq Nat
  OBVIOUS
<1> HIDE DEF ends
<1>3. ends # {} => Min(ends) \in ends /\ \A j \in ends : Min(ends) <= j
  BY <1>2, LeastNatural DEF Min
<1> QED BY <1>1, <1>3 DEF ends

\* A condition fails over a field that cannot be read or does not compute.
LEMMA HoldsError ==
    ASSUME NEW c, NEW v, Holds(c, v) = "error"
    PROVE  v.is = "none" \/ c.op = "calc" \/ c.op = "loop" \/ (v.is = "u64" /\ c.arg.is = "num")
  BY DEF Holds

\* Of the names the validator knows, only those of WithoutGetter cannot be
\* read.
LEMMA ReadFacts ==
    ASSUME NEW abi, NEW item, NEW log, NEW call, NEW path,
           path \in TxPaths \cup ReceiptPaths \cup LogPaths \cup CallPaths \cup ParamPaths(abi),
           Read(item, log, call, path).is = "none"
    PROVE  path \in WithoutGetter
<1>1. /\ \A n : Num(n).is # "none" /\ U64(n).is # "none"
      /\ \A s : Text(s).is # "none"
      /\ Unit.is # "none"
  BY DEF Num, U64, Text, Unit
<1>2. \A params, p : ReadParams(params, p).is # "none"
  <2>1. \A v : ToRhai(v).is # "none"
    BY <1>1 DEF ToRhai
  <2> QED BY <1>1, <2>1 DEF ReadParams, Get, ParamsMap
<1>3. CASE path \in TxPaths \cup ReceiptPaths
  <2>1. PICK f \in TxFields \cup ReceiptFields : path = <<"tx", f>>
    BY <1>3 DEF TxPaths, ReceiptPaths
  <2>2. path[1] = "tx" /\ path[2] = f
    BY <2>1
  <2>3. Read(item, log, call, path) = Get(TxMap(item), f)
    BY <2>2 DEF Read
  <2>4. \A g \in DOMAIN TxMap(item) : TxMap(item)[g].is # "none"
    BY <1>1 DEF TxMap
  <2>5. Get(TxMap(item), f).is # "none"
    <3> DEFINE map == TxMap(item)
    <3> HIDE DEF map
    <3>1. \A g \in DOMAIN map : map[g].is # "none"
      BY <2>4 DEF map
    <3>2. Get(map, f).is # "none"
      BY <1>1, <3>1 DEF Get
    <3> QED BY <3>2 DEF map
  <2> QED BY <2>3, <2>5
<1>4. CASE path \in CallPaths
  <2>1. path[1] = "decoded_call"
    BY <1>4 DEF CallPaths
  <2>2. Read(item, log, call, path) = ReadCall(call, path)
    BY <2>1 DEF Read
  <2>3. Len(path) \in {1, 2}
    BY <1>4 DEF CallPaths
  <2>4. ReadCall(call, path).is # "none"
    BY <1>1, <2>3 DEF ReadCall
  <2> QED BY <2>2, <2>4
<1>5. CASE path \in ParamPaths(abi)
  <2>1. PICK p : path = <<"log", "params", p>> \/ path = <<"decoded_call", "params", p>>
    BY <1>5 DEF ParamPaths
  <2>2. Len(path) = 3 /\ path[2] = "params" /\ path[3] = p /\ path[1] \in {"log", "decoded_call"}
    BY <2>1
  <2>3. \/ Read(item, log, call, path) = ReadLog(log, path)
        \/ Read(item, log, call, path) = ReadCall(call, path)
    BY <2>2 DEF Read
  <2>4. ReadLog(log, path) = ReadParams(log.params, p)
    BY <2>2 DEF ReadLog
  <2>5. ReadCall(call, path) = ReadParams(call.params, p)
    BY <2>2 DEF ReadCall
  <2> QED BY <1>2, <2>3, <2>4, <2>5
<1>6. CASE path \in LogPaths
  <2>1. PICK f \in LogFields : path = <<"log", f>>
    BY <1>6 DEF LogPaths
  <2>2. path[1] = "log" /\ path[2] = f /\ Len(path) = 2
    BY <2>1
  <2>3. Read(item, log, call, path) = ReadLog(log, path)
    BY <2>2 DEF Read
  <2>4. f \notin {"name", "address", "log_index"}
    BY <1>1, <2>2, <2>3 DEF ReadLog
  <2>5. f \in {"block_number", "transaction_hash", "transaction_index"}
    BY <2>4 DEF LogFields
  <2> QED BY <2>1, <2>5 DEF WithoutGetter
<1> QED BY <1>3, <1>4, <1>5, <1>6

\* Of the fields only the index of a log is a u64.
LEMMA ReadU64 ==
    ASSUME NEW abi, NEW item, NEW log, NEW call, NEW path,
           path \in TxPaths \cup ReceiptPaths \cup LogPaths \cup CallPaths \cup ParamPaths(abi),
           Read(item, log, call, path).is = "u64"
    PROVE  path = <<"log", "log_index">>
<1>1. /\ \A n : Num(n).is # "u64"
      /\ \A s : Text(s).is # "u64"
      /\ Unit.is # "u64" /\ NoProperty.is # "u64"
  BY DEF Num, Text, Unit, NoProperty
<1>2. \A params, p : ReadParams(params, p).is # "u64"
  <2>1. \A v : ToRhai(v).is # "u64"
    BY <1>1 DEF ToRhai
  <2> QED BY <1>1, <2>1 DEF ReadParams, Get, ParamsMap
<1>3. CASE path[1] = "tx"
  <2>1. \A g \in DOMAIN TxMap(item) : TxMap(item)[g].is # "u64"
    BY <1>1 DEF TxMap
  <2> DEFINE map == TxMap(item)
  <2>2. \A g \in DOMAIN map : map[g].is # "u64"
    BY <2>1
  <2>3. Read(item, log, call, path) = Get(map, path[2])
    BY <1>3 DEF Read
  <2> HIDE DEF map
  <2> QED BY <1>1, <2>2, <2>3 DEF Get
<1>4. CASE path[1] = "decoded_call"
  <2>1. Read(item, log, call, path) = ReadCall(call, path)
    BY <1>4 DEF Read
  <2> QED BY <1>1, <1>2, <2>1 DEF ReadCall
<1>5. CASE path[1] = "log"
  <2>1. Read(item, log, call, path) = ReadLog(log, path)
    BY <1>5 DEF Read
  <2>2. path \in LogPaths \cup ParamPaths(abi)
    BY <1>5 DEF TxPaths, ReceiptPaths, CallPaths
  <2>3. path \notin ParamPaths(abi)
    <3>1. SUFFICES ASSUME NEW p, path = <<"log", "params", p>> PROVE FALSE
      BY <1>5 DEF ParamPaths
    <3>2. Len(path) = 3 /\ path[2] = "params" /\ path[3] = p
      BY <3>1
    <3>3. ReadLog(log, path) = ReadParams(log.params, p)
      BY <3>2 DEF ReadLog
    <3> QED BY <1>2, <2>1, <3>3
  <2>4. PICK f \in LogFields : path = <<"log", f>>
    BY <2>2, <2>3 DEF LogPaths
  <2>5. Len(path) = 2 /\ path[2] = f
    BY <2>4
  <2>6. f = "log_index"
    BY <1>1, <2>1, <2>5 DEF ReadLog
  <2> QED BY <2>4, <2>6
<1>6. path[1] \in {"tx", "decoded_call", "log"}
  BY DEF TxPaths, ReceiptPaths, LogPaths, CallPaths, ParamPaths
<1> QED BY <1>3, <1>4, <1>5, <1>6

\* On the empty maps of the validator a condition is false or an error, and an
\* error if it computes.
LEMMA DummyFacts ==
    ASSUME NEW script, NEW c
    PROVE  LET r == Holds(c, ReadDummy(script, c.path))
           IN  r \in {"error", "false"} /\ (c.op = "calc" => r = "error")
<1>1. ReadDummy(script, c.path) \in {Unit, NoProperty}
  BY DEF ReadDummy
<1>2. Unit.is = "unit" /\ NoProperty.is = "none"
  BY DEF Unit, NoProperty
<1> DEFINE v == ReadDummy(script, c.path)
<1>3. v.is \in {"unit", "none"}
  BY <1>1, <1>2
<1> HIDE DEF v
<1>4. Holds(c, v) \in {"error", "false"} /\ (c.op = "calc" => Holds(c, v) = "error")
  BY <1>3 DEF Holds
<1> QED BY <1>4 DEF v

\* A script that the validator accepted fails only over a field without
\* getter, over the u64 of log_index, in a loop, or by computing behind a
\* condition joined with &&: a computation in front, or one joined with ||,
\* fails on the empty maps already.
LEMMA ScriptErrorExplained ==
    ASSUME NEW script, NEW abi, NEW item, NEW log, NEW call,
           ScriptValid(script, abi), script.conds \in Seq(ToSet(script.conds)),
           RunScript(script, item, log, call) = "error"
    PROVE  Overlooked(script)
<1> DEFINE conds == script.conds
           n == Len(conds)
           real == [i \in 1..n |-> Holds(conds[i], Read(item, log, call, conds[i].path))]
           dummy == [i \in 1..n |-> Holds(conds[i], ReadDummy(script, conds[i].path))]
<1>1. n \in Nat /\ DOMAIN conds = 1..n
  OBVIOUS
<1>2. DOMAIN real = 1..n /\ DOMAIN dummy = 1..n
  OBVIOUS
<1>3. Outcome(script, real) = "error"
  BY <1>1 DEF RunScript
<1>4. Outcome(script, dummy) # "error"
  BY <1>1 DEF ScriptValid, ReturnsBoolean
<1>5. GoesOn(script) \in {"true", "false"}
  BY DEF GoesOn
<1>6. PICK k \in 1..n : real[k] = "error"
  <2> HIDE DEF real
  <2>1. \E k \in 1..n : Outcome(script, real) = real[k]
    BY <1>1, <1>2, <1>3, <1>5, OutcomeFacts
  <2> QED BY <1>3, <2>1
<1> DEFINE c == conds[k]
           v == Read(item, log, call, c.path)
<1>7. v.is = "none" \/ c.op = "calc" \/ c.op = "loop" \/ (v.is = "u64" /\ c.arg.is = "num")
  BY <1>6, HoldsError
<1>8. \A i \in 1..n : /\ dummy[i] \in {"error", "false"}
                      /\ conds[i].op = "calc" => dummy[i] = "error"
  BY DummyFacts
<1> HIDE DEF real, dummy
<1>9. /\ c.path \in Accessed(script)
      /\ c.path \in TxPaths \cup ReceiptPaths \cup LogPaths \cup CallPaths \cup ParamPaths(abi)
      /\ k \in DOMAIN script.conds
  BY <1>1 DEF Accessed, ScriptValid
<1>10. CASE v.is = "none"
  <2>1. c.path \in WithoutGetter
    BY <1>9, <1>10, ReadFacts
  <2> QED BY <1>9, <2>1 DEF Overlooked
<1>11. CASE v.is = "u64" /\ c.arg.is = "num"
  <2>1. c.path = <<"log", "log_index">>
    BY <1>9, <1>11, ReadU64
  <2> QED BY <1>9, <1>11, <2>1 DEF Overlooked
<1>12. CASE c.op = "loop"
  BY <1>9, <1>12 DEF Overlooked
<1>13. CASE c.op = "calc"
  <2>1. dummy[k] = "error"
    BY <1>8, <1>13
  <2> DEFINE ends == {i \in 1..n : dummy[i] # GoesOn(script)}
  <2>2. k \in ends
    BY <1>5, <2>1
  <2>3. PICK e \in ends : Outcome(script, dummy) = dummy[e] /\ \A j \in ends : e <= j
    BY <1>1, <1>2, <2>2, OutcomeFacts
  <2>4. dummy[e] = "false"
    BY <1>4, <1>8, <2>3
  <2>5. GoesOn(script) # "false"
    BY <2>3, <2>4
  <2>6. script.join = "and" /\ GoesOn(script) = "true"
    BY <2>5 DEF GoesOn
  <2>7. 1 \in ends
    <3>1. 1 \in 1..n
      BY <1>1
    <3> QED BY <1>8, <2>6, <3>1
  <2>8. e = 1 /\ e # k
    <3>1. e <= 1 /\ e \in 1..n
      BY <2>3, <2>7
    <3> QED BY <2>1, <2>4, <3>1
  <2>9. k > 1 /\ k \in DOMAIN script.conds /\ script.conds[k].op = "calc"
    BY <1>1, <1>13, <2>8
  <2> QED BY <2>6, <2>9 DEF Overlooked
<1> QED BY <1>7, <1>10, <1>11, <1>12, <1>13

\* It carries over to the evaluation of an item with all monitors.
LEMMA ItemFailureExplained ==
    ASSUME NEW s \in Setups, Accepted(s), NEW item \in Items,
           EvaluateItem(s.monitors, item).failed
    PROVE  \E i \in DOMAIN s.monitors : Overlooked(s.monitors[i].script)
<1> DEFINE monitors == s.monitors
           Known(i) == Overlooked(monitors[i].script)
           T == {c \in Contexts(monitors) : c.failed => \E i \in DOMAIN monitors : Known(i)}
<1>1. /\ monitors \in Seq(ToSet(monitors)) /\ item.logs \in Seq(ToSet(item.logs))
      /\ \A i \in DOMAIN monitors :
            monitors[i].script.conds \in Seq(ToSet(monitors[i].script.conds))
  BY SetupAssumption, ItemAssumption
<1>2. \A i \in DOMAIN monitors : i \in Nat /\ ScriptValid(monitors[i].script, monitors[i].abi)
  BY <1>1 DEF Accepted
<1>3. ASSUME NEW i \in DOMAIN monitors, NEW log, NEW call,
             RunScript(monitors[i].script, item.tx, log, call) = "error"
      PROVE  Known(i)
  <2> DEFINE script == monitors[i].script
             abi == monitors[i].abi
             tx == item.tx
  <2>1. /\ ScriptValid(script, abi) /\ script.conds \in Seq(ToSet(script.conds))
        /\ RunScript(script, tx, log, call) = "error"
    BY <1>1, <1>2, <1>3
  <2> HIDE DEF script, abi, tx
  <2>2. Overlooked(script)
    BY ONLY <2>1, ScriptErrorExplained
  <2> QED BY <2>2 DEF script
<1> HIDE DEF Known, monitors
<1>4. FreshContext \in T
  <2>1. <<>> \in Seq(MatchOf(monitors)) /\ {} \in SUBSET Nat
    OBVIOUS
  <2> QED BY <2>1 DEF FreshContext, Contexts
<1>5. ASSUME NEW c \in T, NEW i \in DOMAIN monitors, NEW log \in ToSet(item.logs) \cup {NoLog}
      PROVE  EvaluateScript(c, monitors, item, i, log) \in T
  <2> DEFINE call == IF CallAware(monitors[i]) THEN DecodeFunctionInput(monitors, item) ELSE NoCall
             next == [c EXCEPT !.decoded = @ \/ CallAware(monitors[i])]
             result == RunScript(monitors[i].script, item.tx, log, call)
             new == EvaluateScript(c, monitors, item, i, log)
  <2>1. new \in Contexts(monitors)
    BY <1>2, EvaluateScriptTyped
  <2>2. new = CASE c.failed -> c
                [] ~c.failed /\ result = "error" -> [next EXCEPT !.failed = TRUE]
                [] ~c.failed /\ result = "true" -> CreateMatches(next, monitors, item, i, log)
                [] OTHER -> next
    BY DEF EvaluateScript
  <2>3. result = "error" => Known(i)
    BY <1>3
  <2>4. next.failed = c.failed /\ CreateMatches(next, monitors, item, i, log).failed = c.failed
    BY DEF CreateMatches, Contexts
  <2> HIDE DEF next, result, new
  <2>5. new.failed => c.failed \/ result = "error"
    BY <2>2, <2>4
  <2>6. new.failed => \E j \in DOMAIN monitors : Known(j)
    BY <2>3, <2>5
  <2> QED BY <2>1, <2>6 DEF new
<1>6. EvaluateItem(monitors, item) \in T
  <2> HIDE DEF T
  <2> QED BY <1>1, <1>4, <1>5, EvaluateItemIn
<1>7. EvaluateItem(monitors, item).failed
  BY DEF monitors
<1> QED BY <1>6, <1>7 DEF Known, monitors

\* An accepted script costs an item its matches only in the four ways the
\* validator's run on empty maps cannot see (validate_return_type,
\* eval_ast_bool_secure), whatever the scripts, the ABI and the items.
THEOREM ScriptFailureHasReason == Spec => []ScriptFailureExplained
<1>1. Init => IInv
  BY InitIInv
<1>2. IInv /\ [Next]_vars => IInv'
  BY NextIInv
<1>3. IInv => ScriptFailureExplained
  BY ItemFailureExplained DEF IInv, ShapeInv, TypeOK, ScriptFailureExplained
<1> QED BY <1>1, <1>2, <1>3, PTL DEF Spec

----------------------------------------------------------------------------
\* The paths of the JSON of a match.

LEMMA Tuples ==
    ASSUME NEW a, NEW b, NEW c, NEW d, NEW e, NEW f
    PROVE  /\ <<a>>[1] = a /\ <<a, b>>[1] = a
           /\ <<a, b, c>>[1] = a /\ <<a, b, c>>[3] = c /\ Len(<<a, b, c>>) = 3
           /\ <<a>> # <<d, e>> /\ <<a>> # <<d, e, f>> /\ <<a, b>> # <<d, e, f>>
           /\ <<a>> = <<d>> => a = d
           /\ <<a, b>> = <<d, e>> => a = d /\ b = e
           /\ <<a, b, c>> = <<d, e, f>> => a = d /\ b = e /\ c = f
<1>3. /\ <<a>>[1] = a /\ <<a, b>>[1] = a /\ <<a, b, c>>[1] = a /\ <<a, b, c>>[3] = c
      /\ Len(<<a, b, c>>) = 3
  OBVIOUS
<1>4. <<a>> # <<d, e>> /\ <<a>> # <<d, e, f>> /\ <<a, b>> # <<d, e, f>>
  <2>1. Len(<<a>>) = 1 /\ Len(<<a, b>>) = 2 /\ Len(<<d, e>>) = 2 /\ Len(<<d, e, f>>) = 3
    OBVIOUS
  <2> QED BY <2>1
<1>5. /\ <<a>> = <<d>> => a = d
      /\ <<a, b>> = <<d, e>> => a = d /\ b = e
      /\ <<a, b, c>> = <<d, e, f>> => a = d /\ b = e /\ c = f
  OBVIOUS
<1> QED BY <1>3, <1>4, <1>5

\* Paths are put together name by name.
LEMMA JoinTwo ==
    ASSUME NEW a, NEW b
    PROVE  <<a>> \o <<b>> = <<a, b>> /\ Last(<<a, b>>) = b
<1> DEFINE s == <<a>> \o <<b>>
           t == <<a, b>>
           T == {a, b}
<1>1. <<a>> \in Seq(T) /\ <<b>> \in Seq(T) /\ Len(<<a>>) = 1 /\ Len(<<b>>) = 1
  OBVIOUS
<1>2. s \in Seq(T) /\ Len(s) = 2 /\ s[1] = a /\ s[2] = b
  BY <1>1
<1>3. t \in Seq(T) /\ Len(t) = 2 /\ t[1] = a /\ t[2] = b
  OBVIOUS
<1> HIDE DEF s, t, T
<1>4. \A i \in 1..2 : s[i] = t[i]
  BY <1>2, <1>3
<1>5. s = t
  BY <1>2, <1>3, <1>4
<1> QED BY <1>3, <1>5 DEF s, t, Last

LEMMA JoinThree ==
    ASSUME NEW a, NEW b, NEW c
    PROVE  <<a, b>> \o <<c>> = <<a, b, c>> /\ Last(<<a, b, c>>) = c
<1> DEFINE s == <<a, b>> \o <<c>>
           t == <<a, b, c>>
           T == {a, b, c}
<1>1. <<a, b>> \in Seq(T) /\ <<c>> \in Seq(T) /\ Len(<<a, b>>) = 2 /\ Len(<<c>>) = 1
  OBVIOUS
<1>2. s \in Seq(T) /\ Len(s) = 3 /\ s[1] = a /\ s[2] = b /\ s[3] = c
  BY <1>1
<1>3. t \in Seq(T) /\ Len(t) = 3 /\ t[1] = a /\ t[2] = b /\ t[3] = c
  OBVIOUS
<1> HIDE DEF s, t, T
<1>4. \A i \in 1..3 : s[i] = t[i]
  BY <1>2, <1>3
<1>5. s = t
  BY <1>2, <1>3, <1>4
<1> QED BY <1>3, <1>5 DEF s, t, Last

LEMMA UnderRoot ==
    ASSUME NEW obj
    PROVE  /\ \A p : p \in DOMAIN Under(<<>>, obj) <=> \E f \in DOMAIN obj : p = <<f>>
           /\ \A f \in DOMAIN obj : Under(<<>>, obj)[<<f>>] = obj[f]
<1>1. \A f : <<>> \o <<f>> = <<f>> /\ Last(<<f>>) = f
  BY DEF Last
<1> QED BY <1>1 DEF Under

LEMMA UnderOne ==
    ASSUME NEW a, NEW obj
    PROVE  /\ \A p : p \in DOMAIN Under(<<a>>, obj) <=> \E f \in DOMAIN obj : p = <<a, f>>
           /\ \A f \in DOMAIN obj : Under(<<a>>, obj)[<<a, f>>] = obj[f]
<1>1. \A f : <<a>> \o <<f>> = <<a, f>> /\ Last(<<a, f>>) = f
  BY JoinTwo
<1> QED BY <1>1 DEF Under

LEMMA UnderTwo ==
    ASSUME NEW a, NEW b, NEW obj
    PROVE  /\ \A p : p \in DOMAIN Under(<<a, b>>, obj) <=> \E f \in DOMAIN obj : p = <<a, b, f>>
           /\ \A f \in DOMAIN obj : Under(<<a, b>>, obj)[<<a, b, f>>] = obj[f]
<1>1. \A f : <<a, b>> \o <<f>> = <<a, b, f>> /\ Last(<<a, b, f>>) = f
  BY JoinThree
<1> QED BY <1>1 DEF Under

LEMMA LogDetailsFacts ==
    ASSUME NEW log
    PROVE  LET obj == LogDetails(log)
           IN  /\ <<"log">> \in DOMAIN obj /\ obj[<<"log">>] = JText
               /\ \A f \in {"address", "name", "params"} :
                     <<"log", f>> \in DOMAIN obj /\ obj[<<"log", f>>] = JText
               /\ <<"log", "log_index">> \in DOMAIN obj
               /\ obj[<<"log", "log_index">>] = JNumber(log.index)
               /\ \A p \in DOMAIN log.params :
                     /\ <<"log", "params", p>> \in DOMAIN obj
                     /\ obj[<<"log", "params", p>>] = ToJson(log.params[p])
               /\ \A path \in DOMAIN obj :
                     \/ path = <<"log">>
                     \/ \E f \in {"address", "log_index", "name", "params"} : path = <<"log", f>>
                     \/ \E p \in DOMAIN log.params : path = <<"log", "params", p>>
<1> DEFINE root == [log |-> JText]
           fields == [address |-> JText, log_index |-> JNumber(log.index), name |-> JText,
                      params |-> JText]
           params == LogParamsPayload(log.params)
           a == Under(<<>>, root)
           b == Under(<<"log">>, fields)
           c == Under(<<"log", "params">>, params)
           obj == Merge(a, Merge(b, c))
<1>1. LogDetails(log) = obj
  BY DEF LogDetails
<1>2. /\ DOMAIN root = {"log"} /\ root["log"] = JText
      /\ DOMAIN fields = {"address", "log_index", "name", "params"}
      /\ \A f \in {"address", "name", "params"} : fields[f] = JText
      /\ fields["log_index"] = JNumber(log.index)
      /\ DOMAIN params = DOMAIN log.params
      /\ \A p \in DOMAIN log.params : params[p] = ToJson(log.params[p])
  BY DEF LogParamsPayload
<1> HIDE DEF root, fields, params
<1>3. /\ \A p : p \in DOMAIN a <=> \E f \in DOMAIN root : p = <<f>>
      /\ \A f \in DOMAIN root : a[<<f>>] = root[f]
  BY UnderRoot
<1>4. /\ \A p : p \in DOMAIN b <=> \E f \in DOMAIN fields : p = <<"log", f>>
      /\ \A f \in DOMAIN fields : b[<<"log", f>>] = fields[f]
  BY UnderOne
<1>5. /\ \A p : p \in DOMAIN c <=> \E f \in DOMAIN params : p = <<"log", "params", f>>
      /\ \A f \in DOMAIN params : c[<<"log", "params", f>>] = params[f]
  BY UnderTwo
<1> HIDE DEF a, b, c
<1>6. \A p : /\ p \in DOMAIN obj <=> p \in DOMAIN a \/ p \in DOMAIN b \/ p \in DOMAIN c
             /\ p \in DOMAIN c => obj[p] = c[p]
             /\ p \in DOMAIN b /\ p \notin DOMAIN c => obj[p] = b[p]
             /\ p \in DOMAIN a /\ p \notin DOMAIN b /\ p \notin DOMAIN c => obj[p] = a[p]
  BY DEF Merge
<1> HIDE DEF obj
<1>7. <<"log">> \in DOMAIN obj /\ obj[<<"log">>] = JText
  <2>1. <<"log">> \in DOMAIN a /\ a[<<"log">>] = JText
    BY <1>2, <1>3
  <2>2. <<"log">> \notin DOMAIN b /\ <<"log">> \notin DOMAIN c
    BY <1>4, <1>5, Tuples
  <2> QED BY <1>6, <2>1, <2>2
<1>8. \A f \in DOMAIN fields : <<"log", f>> \in DOMAIN obj /\ obj[<<"log", f>>] = fields[f]
  <2> TAKE f \in DOMAIN fields
  <2>1. <<"log", f>> \in DOMAIN b /\ b[<<"log", f>>] = fields[f]
    BY <1>4
  <2>2. <<"log", f>> \notin DOMAIN c
    BY <1>5, Tuples
  <2> QED BY <1>6, <2>1, <2>2
<1>9. \A p \in DOMAIN log.params : /\ <<"log", "params", p>> \in DOMAIN obj
                                   /\ obj[<<"log", "params", p>>] = ToJson(log.params[p])
  <2> TAKE p \in DOMAIN log.params
  <2>1. <<"log", "params", p>> \in DOMAIN c /\ c[<<"log", "params", p>>] = ToJson(log.params[p])
    BY <1>2, <1>5
  <2> QED BY <1>6, <2>1
<1>10. ASSUME NEW path \in DOMAIN obj
       PROVE  \/ path = <<"log">>
              \/ \E f \in {"address", "log_index", "name", "params"} : path = <<"log", f>>
              \/ \E p \in DOMAIN log.params : path = <<"log", "params", p>>
  BY <1>2, <1>3, <1>4, <1>5, <1>6
<1> QED BY <1>1, <1>2, <1>7, <1>8, <1>9, <1>10

LEMMA CallDetailsFacts ==
    ASSUME NEW call
    PROVE  LET obj == CallDetails(call)
           IN  /\ <<"decoded_call">> \in DOMAIN obj /\ obj[<<"decoded_call">>] = JText
               /\ \A f \in {"name", "params"} :
                     <<"decoded_call", f>> \in DOMAIN obj /\ obj[<<"decoded_call", f>>] = JText
               /\ \A p \in DOMAIN call.params :
                     /\ <<"decoded_call", "params", p>> \in DOMAIN obj
                     /\ obj[<<"decoded_call", "params", p>>] = CallToJson(call.params[p])
               /\ \A path \in DOMAIN obj :
                     \/ path = <<"decoded_call">>
                     \/ \E f \in {"name", "params"} : path = <<"decoded_call", f>>
                     \/ \E p \in DOMAIN call.params : path = <<"decoded_call", "params", p>>
<1> DEFINE root == [decoded_call |-> JText]
           fields == [name |-> JText, params |-> JText]
           params == [p \in DOMAIN call.params |-> CallToJson(call.params[p])]
           a == Under(<<>>, root)
           b == Under(<<"decoded_call">>, fields)
           c == Under(<<"decoded_call", "params">>, params)
           obj == Merge(a, Merge(b, c))
<1>1. CallDetails(call) = obj
  BY DEF CallDetails
<1>2. /\ DOMAIN root = {"decoded_call"} /\ root["decoded_call"] = JText
      /\ DOMAIN fields = {"name", "params"}
      /\ \A f \in {"name", "params"} : fields[f] = JText
      /\ DOMAIN params = DOMAIN call.params
      /\ \A p \in DOMAIN call.params : params[p] = CallToJson(call.params[p])
  OBVIOUS
<1> HIDE DEF root, fields, params
<1>3. /\ \A p : p \in DOMAIN a <=> \E f \in DOMAIN root : p = <<f>>
      /\ \A f \in DOMAIN root : a[<<f>>] = root[f]
  BY UnderRoot
<1>4. /\ \A p : p \in DOMAIN b <=> \E f \in DOMAIN fields : p = <<"decoded_call", f>>
      /\ \A f \in DOMAIN fields : b[<<"decoded_call", f>>] = fields[f]
  BY UnderOne
<1>5. /\ \A p : p \in DOMAIN c <=> \E f \in DOMAIN params : p = <<"decoded_call", "params", f>>
      /\ \A f \in DOMAIN params : c[<<"decoded_call", "params", f>>] = params[f]
  BY UnderTwo
<1> HIDE DEF a, b, c
<1>6. \A p : /\ p \in DOMAIN obj <=> p \in DOMAIN a \/ p \in DOMAIN b \/ p \in DOMAIN c
             /\ p \in DOMAIN c => obj[p] = c[p]
             /\ p \in DOMAIN b /\ p \notin DOMAIN c => obj[p] = b[p]
             /\ p \in DOMAIN a /\ p \notin DOMAIN b /\ p \notin DOMAIN c => obj[p] = a[p]
  BY DEF Merge
<1> HIDE DEF obj
<1>7. <<"decoded_call">> \in DOMAIN obj /\ obj[<<"decoded_call">>] = JText
  <2>1. <<"decoded_call">> \in DOMAIN a /\ a[<<"decoded_call">>] = JText
    BY <1>2, <1>3
  <2>2. <<"decoded_call">> \notin DOMAIN b /\ <<"decoded_call">> \notin DOMAIN c
    BY <1>4, <1>5, Tuples
  <2> QED BY <1>6, <2>1, <2>2
<1>8. \A f \in DOMAIN fields :
         <<"decoded_call", f>> \in DOMAIN obj /\ obj[<<"decoded_call", f>>] = fields[f]
  <2> TAKE f \in DOMAIN fields
  <2>1. <<"decoded_call", f>> \in DOMAIN b /\ b[<<"decoded_call", f>>] = fields[f]
    BY <1>4
  <2>2. <<"decoded_call", f>> \notin DOMAIN c
    BY <1>5, Tuples
  <2> QED BY <1>6, <2>1, <2>2
<1>9. \A p \in DOMAIN call.params :
         /\ <<"decoded_call", "params", p>> \in DOMAIN obj
         /\ obj[<<"decoded_call", "params", p>>] = CallToJson(call.params[p])
  <2> TAKE p \in DOMAIN call.params
  <2>1. /\ <<"decoded_call", "params", p>> \in DOMAIN c
        /\ c[<<"decoded_call", "params", p>>] = CallToJson(call.params[p])
    BY <1>2, <1>5
  <2> QED BY <1>6, <2>1
<1>10. ASSUME NEW path \in DOMAIN obj
       PROVE  \/ path = <<"decoded_call">>
              \/ \E f \in {"name", "params"} : path = <<"decoded_call", f>>
              \/ \E p \in DOMAIN call.params : path = <<"decoded_call", "params", p>>
  BY <1>2, <1>3, <1>4, <1>5, <1>6
<1> QED BY <1>1, <1>2, <1>7, <1>8, <1>9, <1>10

\* The fields every match has and those of its transaction.
LEMMA BaseFacts ==
    ASSUME NEW item
    PROVE  LET obj == Merge(Under(<<>>, MatchFields), Under(<<"tx">>, TxDetails(item)))
           IN  /\ \A f \in DOMAIN MatchFields : <<f>> \in DOMAIN obj /\ obj[<<f>>] = MatchFields[f]
               /\ \A f \in DOMAIN TxDetails(item) :
                     <<"tx", f>> \in DOMAIN obj /\ obj[<<"tx", f>>] = TxDetails(item)[f]
               /\ \A path \in DOMAIN obj :
                     \/ \E f \in DOMAIN MatchFields : path = <<f>>
                     \/ \E f \in DOMAIN TxDetails(item) : path = <<"tx", f>>
<1> DEFINE tx == TxDetails(item)
           fields == MatchFields
           a == Under(<<>>, fields)
           b == Under(<<"tx">>, tx)
           obj == Merge(a, b)
<1> HIDE DEF tx, fields
<1>1. /\ \A p : p \in DOMAIN a <=> \E f \in DOMAIN fields : p = <<f>>
      /\ \A f \in DOMAIN fields : a[<<f>>] = fields[f]
  BY UnderRoot
<1>2. /\ \A p : p \in DOMAIN b <=> \E f \in DOMAIN tx : p = <<"tx", f>>
      /\ \A f \in DOMAIN tx : b[<<"tx", f>>] = tx[f]
  BY UnderOne
<1> HIDE DEF a, b
<1>3. \A p : /\ p \in DOMAIN obj <=> p \in DOMAIN a \/ p \in DOMAIN b
             /\ p \in DOMAIN b => obj[p] = b[p]
             /\ p \in DOMAIN a /\ p \notin DOMAIN b => obj[p] = a[p]
  BY DEF Merge
<1> HIDE DEF obj
<1>4. \A f \in DOMAIN fields : <<f>> \in DOMAIN obj /\ obj[<<f>>] = fields[f]
  <2> TAKE f \in DOMAIN fields
  <2>1. <<f>> \in DOMAIN a /\ a[<<f>>] = fields[f]
    BY <1>1
  <2>2. <<f>> \notin DOMAIN b
    BY <1>2, Tuples
  <2> QED BY <1>3, <2>1, <2>2
<1>5. \A f \in DOMAIN tx : <<"tx", f>> \in DOMAIN obj /\ obj[<<"tx", f>>] = tx[f]
  BY <1>2, <1>3
<1>6. ASSUME NEW path \in DOMAIN obj
      PROVE  (\E f \in DOMAIN fields : path = <<f>>) \/ \E f \in DOMAIN tx : path = <<"tx", f>>
  BY <1>1, <1>2, <1>3
<1> QED BY <1>4, <1>5, <1>6 DEF obj, a, b, tx, fields

\* Objects without a common path, one after the other.
LEMMA DisjointMerge ==
    ASSUME NEW f, NEW g, NEW h,
           \A p \in DOMAIN f : p \notin DOMAIN g /\ p \notin DOMAIN h,
           \A p \in DOMAIN g : p \notin DOMAIN h
    PROVE  LET obj == Merge(f, Merge(g, h))
           IN  /\ \A p : p \in DOMAIN obj <=> p \in DOMAIN f \/ p \in DOMAIN g \/ p \in DOMAIN h
               /\ \A p \in DOMAIN f : obj[p] = f[p]
               /\ \A p \in DOMAIN g : obj[p] = g[p]
               /\ \A p \in DOMAIN h : obj[p] = h[p]
  BY DEF Merge

\* The roots of the parts of a match.
LEMMA Roots ==
    /\ \A item : LET obj == Merge(Under(<<>>, MatchFields), Under(<<"tx">>, TxDetails(item)))
                 IN  \A p \in DOMAIN obj : p[1] \notin {"log", "decoded_call"}
    /\ \A log : \A p \in DOMAIN LogDetails(log) : p[1] = "log"
    /\ \A call : \A p \in DOMAIN CallDetails(call) : p[1] = "decoded_call"
<1>1. \A a, b, c : <<a>>[1] = a /\ <<a, b>>[1] = a /\ <<a, b, c>>[1] = a
  OBVIOUS
<1>2. ASSUME NEW item, NEW p \in DOMAIN Merge(Under(<<>>, MatchFields), Under(<<"tx">>, TxDetails(item)))
      PROVE  p[1] \notin {"log", "decoded_call"}
  <2>1. \A f \in DOMAIN MatchFields : f \notin {"log", "decoded_call"}
    BY DEF MatchFields
  <2>2. (\E f \in DOMAIN MatchFields : p = <<f>>) \/ (\E f \in DOMAIN TxDetails(item) : p = <<"tx", f>>)
    BY <1>2, BaseFacts
  <2> QED BY <1>1, <2>1, <2>2
<1>3. ASSUME NEW log, NEW p \in DOMAIN LogDetails(log) PROVE p[1] = "log"
  <2>1. \/ p = <<"log">>
        \/ \E f \in {"address", "log_index", "name", "params"} : p = <<"log", f>>
        \/ \E q \in DOMAIN log.params : p = <<"log", "params", q>>
    BY <1>3, LogDetailsFacts
  <2> QED BY <1>1, <2>1
<1>4. ASSUME NEW call, NEW p \in DOMAIN CallDetails(call) PROVE p[1] = "decoded_call"
  <2>1. \/ p = <<"decoded_call">>
        \/ \E f \in {"name", "params"} : p = <<"decoded_call", f>>
        \/ \E q \in DOMAIN call.params : p = <<"decoded_call", "params", q>>
    BY <1>4, CallDetailsFacts
  <2> QED BY <1>1, <2>1
<1> QED BY <1>2, <1>3, <1>4

\* What a template can read of a match.
LEMMA MatchJsonFacts ==
    ASSUME NEW m
    PROVE  LET obj == MatchJson(m)
           IN  /\ \A f \in DOMAIN MatchFields : <<f>> \in DOMAIN obj /\ obj[<<f>>] = MatchFields[f]
               /\ \A f \in DOMAIN TxDetails(m.item) :
                     <<"tx", f>> \in DOMAIN obj /\ obj[<<"tx", f>>] = TxDetails(m.item)[f]
               /\ m.log # NoLog => \A p \in DOMAIN LogDetails(m.log) :
                                      p \in DOMAIN obj /\ obj[p] = LogDetails(m.log)[p]
               /\ m.call # NoCall => \A p \in DOMAIN CallDetails(m.call) :
                                      p \in DOMAIN obj /\ obj[p] = CallDetails(m.call)[p]
               /\ \A p \in DOMAIN obj :
                     \/ \E f \in DOMAIN MatchFields : obj[p] = MatchFields[f]
                     \/ \E f \in DOMAIN TxDetails(m.item) : obj[p] = TxDetails(m.item)[f]
                     \/ p \in DOMAIN LogDetails(m.log) /\ obj[p] = LogDetails(m.log)[p]
                     \/ p \in DOMAIN CallDetails(m.call) /\ obj[p] = CallDetails(m.call)[p]
<1> DEFINE base == Merge(Under(<<>>, MatchFields), Under(<<"tx">>, TxDetails(m.item)))
           log == IF m.log = NoLog THEN <<>> ELSE LogDetails(m.log)
           call == IF m.call = NoCall THEN <<>> ELSE CallDetails(m.call)
           obj == Merge(base, Merge(log, call))
<1>1. MatchJson(m) = obj
  BY DEF MatchJson
<1>2. /\ \A f \in DOMAIN MatchFields : <<f>> \in DOMAIN base /\ base[<<f>>] = MatchFields[f]
      /\ \A f \in DOMAIN TxDetails(m.item) :
            <<"tx", f>> \in DOMAIN base /\ base[<<"tx", f>>] = TxDetails(m.item)[f]
      /\ \A p \in DOMAIN base : \/ \E f \in DOMAIN MatchFields : p = <<f>>
                                \/ \E f \in DOMAIN TxDetails(m.item) : p = <<"tx", f>>
  BY BaseFacts
<1>3. \A p \in DOMAIN base : p[1] \notin {"log", "decoded_call"}
  BY Roots
<1> HIDE DEF base
<1>4. DOMAIN <<>> = {}
  OBVIOUS
<1>5. \A p \in DOMAIN log : p[1] = "log"
  BY <1>4, Roots
<1>6. \A p \in DOMAIN call : p[1] = "decoded_call"
  BY <1>4, Roots
<1>7. /\ m.log # NoLog => log = LogDetails(m.log)
      /\ m.call # NoCall => call = CallDetails(m.call)
  OBVIOUS
<1> HIDE DEF log, call
<1>8. /\ \A p \in DOMAIN base : p \notin DOMAIN log /\ p \notin DOMAIN call
      /\ \A p \in DOMAIN log : p \notin DOMAIN call
  BY <1>3, <1>5, <1>6
<1>9. /\ \A p : p \in DOMAIN obj <=> p \in DOMAIN base \/ p \in DOMAIN log \/ p \in DOMAIN call
      /\ \A p \in DOMAIN base : obj[p] = base[p]
      /\ \A p \in DOMAIN log : obj[p] = log[p]
      /\ \A p \in DOMAIN call : obj[p] = call[p]
  BY ONLY <1>8, DisjointMerge
<1> HIDE DEF obj
<1>10. ASSUME NEW p \in DOMAIN obj
       PROVE  \/ \E f \in DOMAIN MatchFields : obj[p] = MatchFields[f]
              \/ \E f \in DOMAIN TxDetails(m.item) : obj[p] = TxDetails(m.item)[f]
              \/ p \in DOMAIN LogDetails(m.log) /\ obj[p] = LogDetails(m.log)[p]
              \/ p \in DOMAIN CallDetails(m.call) /\ obj[p] = CallDetails(m.call)[p]
  <2>1. CASE p \in DOMAIN base
    BY <1>2, <1>9, <2>1
  <2>2. CASE p \in DOMAIN log
    BY <1>4, <1>9, <2>2 DEF log
  <2>3. CASE p \in DOMAIN call
    BY <1>4, <1>9, <2>3 DEF call
  <2> QED BY <1>9, <2>1, <2>2, <2>3
<1> QED BY <1>1, <1>2, <1>7, <1>9, <1>10

\* What a template can read of the validator's dummy match.
LEMMA DummyTopFacts ==
    ASSUME NEW abi, NEW path, path \in DOMAIN DummyTop(abi)
    PROVE  \/ \E f \in DOMAIN MatchFields :
                 path = <<f>> /\ DummyTop(abi)[path] = MatchFields[f]
           \/ \E f \in DOMAIN TxDetails(DummyItem) :
                 path = <<"tx", f>> /\ DummyTop(abi)[path] = TxDetails(DummyItem)[f]
           \/ path = <<"log">> /\ DummyTop(abi)[path] = JText
           \/ \E f \in {"address", "name", "params"} :
                 path = <<"log", f>> /\ DummyTop(abi)[path] = JText
           \/ path = <<"log", "log_index">>
           \/ \E p : path = <<"log", "params", p>>
           \/ path = <<"decoded_call">> /\ DummyTop(abi)[path] = JText
           \/ \E f \in {"name", "params"} :
                 path = <<"decoded_call", f>> /\ DummyTop(abi)[path] = JText
           \/ \E p : path = <<"decoded_call", "params", p>>
<1> DEFINE logParams == IF abi THEN DummyParams(AbiEvents) ELSE <<>>
           callParams == IF abi THEN DummyParams(AbiCalls) ELSE <<>>
           tx == TxDetails(DummyItem)
           base == Merge(Under(<<>>, MatchFields), Under(<<"tx">>, tx))
           dummy == MatchJson([item |-> DummyItem, log |-> NoLog, call |-> NoCall])
           logs == LogDetails(NoLog)
           calls == CallDetails(NoCall)
           lp == Under(<<"log", "params">>, logParams)
           cp == Under(<<"decoded_call", "params">>, callParams)
           log == Merge(logs, lp)
           call == Merge(calls, cp)
           top == Merge(dummy, Merge(log, call))
<1>1. DummyTop(abi) = top
  BY DEF DummyTop
<1>2. /\ \A p : p \in DOMAIN dummy <=> p \in DOMAIN base
      /\ \A p \in DOMAIN base : dummy[p] = base[p]
  <2> DEFINE m == [item |-> DummyItem, log |-> NoLog, call |-> NoCall]
             none == <<>>
  <2>1. m.item = DummyItem /\ m.log = NoLog /\ m.call = NoCall
    OBVIOUS
  <2>2. DOMAIN none = {}
    OBVIOUS
  <2> HIDE DEF m, none
  <2>3. MatchJson(m) = Merge(base, Merge(none, none))
    BY <2>1 DEF MatchJson, none
  <2> HIDE DEF base
  <2>4. /\ \A p : p \in DOMAIN MatchJson(m) <=> p \in DOMAIN base
        /\ \A p \in DOMAIN base : MatchJson(m)[p] = base[p]
    BY <2>2, <2>3 DEF Merge
  <2> QED BY <2>4 DEF m
<1>3. /\ \A f \in DOMAIN MatchFields : base[<<f>>] = MatchFields[f]
      /\ \A f \in DOMAIN tx : base[<<"tx", f>>] = tx[f]
      /\ \A p \in DOMAIN base : \/ \E f \in DOMAIN MatchFields : p = <<f>>
                                \/ \E f \in DOMAIN tx : p = <<"tx", f>>
  BY BaseFacts
<1>4. \A p \in DOMAIN base : p[1] \notin {"log", "decoded_call"}
  BY Roots
<1> HIDE DEF base, dummy, tx
<1>5. /\ logs[<<"log">>] = JText
      /\ \A f \in {"address", "name", "params"} : logs[<<"log", f>>] = JText
      /\ \A p \in DOMAIN logs :
            \/ p = <<"log">>
            \/ \E f \in {"address", "log_index", "name", "params"} : p = <<"log", f>>
            \/ \E q : p = <<"log", "params", q>>
  BY LogDetailsFacts
<1>6. /\ calls[<<"decoded_call">>] = JText
      /\ \A f \in {"name", "params"} : calls[<<"decoded_call", f>>] = JText
      /\ \A p \in DOMAIN calls :
            \/ p = <<"decoded_call">>
            \/ \E f \in {"name", "params"} : p = <<"decoded_call", f>>
            \/ \E q : p = <<"decoded_call", "params", q>>
  BY CallDetailsFacts
<1>7. /\ \A p \in DOMAIN logs : p[1] = "log"
      /\ \A p \in DOMAIN calls : p[1] = "decoded_call"
  BY Roots
<1> HIDE DEF logs, calls, logParams, callParams
<1>8. /\ \A p \in DOMAIN lp : \E q : p = <<"log", "params", q>>
      /\ \A p \in DOMAIN cp : \E q : p = <<"decoded_call", "params", q>>
  BY UnderTwo
<1> HIDE DEF lp, cp
<1>9. /\ \A p : p \in DOMAIN log <=> p \in DOMAIN logs \/ p \in DOMAIN lp
      /\ \A p \in DOMAIN logs : p \notin DOMAIN lp => log[p] = logs[p]
      /\ \A p : p \in DOMAIN call <=> p \in DOMAIN calls \/ p \in DOMAIN cp
      /\ \A p \in DOMAIN calls : p \notin DOMAIN cp => call[p] = calls[p]
  BY DEF Merge
<1> HIDE DEF log, call
<1>10. /\ \A p \in DOMAIN log : p[1] = "log"
       /\ \A p \in DOMAIN call : p[1] = "decoded_call"
  <2>1. \A a, b, c : <<a, b, c>>[1] = a
    OBVIOUS
  <2> QED BY <1>7, <1>8, <1>9, <2>1
<1>11. /\ \A p \in DOMAIN dummy : p \notin DOMAIN log /\ p \notin DOMAIN call
       /\ \A p \in DOMAIN log : p \notin DOMAIN call
  BY <1>2, <1>4, <1>10
<1>12. /\ \A p : p \in DOMAIN top <=> p \in DOMAIN dummy \/ p \in DOMAIN log \/ p \in DOMAIN call
       /\ \A p \in DOMAIN dummy : top[p] = dummy[p]
       /\ \A p \in DOMAIN log : top[p] = log[p]
       /\ \A p \in DOMAIN call : top[p] = call[p]
  BY ONLY <1>11, DisjointMerge
<1> HIDE DEF top
<1>13. CASE path \in DOMAIN dummy
  <2>1. path \in DOMAIN base /\ top[path] = base[path]
    BY <1>2, <1>12, <1>13
  <2> QED BY <1>1, <1>3, <2>1 DEF tx
<1>14. CASE path \in DOMAIN log
  <2>1. CASE path \in DOMAIN lp
    BY <1>8, <2>1
  <2>2. CASE path \in DOMAIN logs /\ path \notin DOMAIN lp
    <3>1. top[path] = logs[path]
      BY <1>9, <1>12, <1>14, <2>2
    <3> QED BY <1>1, <1>5, <2>2, <3>1
  <2> QED BY <1>9, <1>14, <2>1, <2>2
<1>15. CASE path \in DOMAIN call
  <2>1. CASE path \in DOMAIN cp
    BY <1>8, <2>1
  <2>2. CASE path \in DOMAIN calls /\ path \notin DOMAIN cp
    <3>1. top[path] = calls[path]
      BY <1>9, <1>12, <1>15, <2>2
    <3> QED BY <1>1, <1>6, <2>2, <3>1
  <2> QED BY <1>9, <1>15, <2>1, <2>2
<1> QED BY <1>1, <1>12, <1>13, <1>14, <1>15

\* The numbers of a match: u64 fields fit a Decimal, amounts need not.
NumbersOK(m) ==
    /\ m.item.value \in Nat /\ m.item.nonce \in 0..MaxDecimal
    /\ m.log.index \in 0..MaxDecimal
    /\ \A p \in DOMAIN m.log.params : m.log.params[p].n \in Nat
    /\ \A p \in DOMAIN m.call.params : m.call.params[p].n \in Nat

\* The fields of a transaction: which are missing, and which do not scale.
LEMMA TxFieldFacts ==
    ASSUME NEW item, NEW f \in DOMAIN TxDetails(DummyItem),
           item.value \in Nat, item.nonce \in 0..MaxDecimal
    PROVE  /\ \/ f \in DOMAIN TxDetails(item)
              \/ f = "to" /\ item.create
              \/ f \in {"max_fee_per_gas", "max_priority_fee_per_gas"} /\ item.kind # "eip1559"
           /\ f \in DOMAIN TxDetails(item) /\ Parses(TxDetails(DummyItem)[f]) =>
                 Parses(TxDetails(item)[f]) \/ item.value > MaxDecimal
<1>1. /\ ~DummyItem.create /\ ~DummyItem.receipt /\ ~DummyItem.mined /\ DummyItem.kind = "eip1559"
  BY DEF DummyItem
<1>2. f \in {"from", "hash", "value", "gas_limit", "nonce", "input", "to", "max_fee_per_gas",
             "max_priority_fee_per_gas"}
  BY <1>1 DEF TxDetails
<1>3. \/ f \in DOMAIN TxDetails(item)
      \/ f = "to" /\ item.create
      \/ f \in {"max_fee_per_gas", "max_priority_fee_per_gas"} /\ item.kind # "eip1559"
  <2> DEFINE D == {"from", "hash", "value", "gas_limit", "nonce", "input"}
                  \cup (IF item.create THEN {} ELSE {"to"})
                  \cup (IF item.mined THEN {"transaction_index"} ELSE {})
                  \cup (IF item.kind = "legacy" THEN {"gas_price"} ELSE {})
                  \cup (IF item.kind = "eip1559"
                        THEN {"max_fee_per_gas", "max_priority_fee_per_gas"} ELSE {})
                  \cup (IF item.receipt THEN ReceiptFields ELSE {})
  <2>1. DOMAIN TxDetails(item) = D
    BY DEF TxDetails
  <2>2. \/ f \in D
        \/ f = "to" /\ item.create
        \/ f \in {"max_fee_per_gas", "max_priority_fee_per_gas"} /\ item.kind # "eip1559"
    BY <1>2
  <2> QED BY <2>1, <2>2
<1>4. ASSUME f \in DOMAIN TxDetails(item), Parses(TxDetails(DummyItem)[f])
      PROVE  Parses(TxDetails(item)[f]) \/ item.value > MaxDecimal
  <2> DEFINE Field(i) == CASE f \in {"from", "to", "hash", "input"} -> JText
                           [] f = "value" -> JDigits(i.value)
                           [] f = "nonce" -> JNumber(i.nonce)
                           [] f \in {"gas_limit", "transaction_index", "status"} -> JNumber(1)
                           [] OTHER -> JDigits(1)
  <2>1. TxDetails(item)[f] = Field(item) /\ TxDetails(DummyItem)[f] = Field(DummyItem)
    BY <1>4 DEF TxDetails
  <2>2. CASE f = "value"
    <3>1. Field(item) = JDigits(item.value)
      BY <2>2
    <3> QED BY <2>1, <3>1, DecimalAssumption DEF Parses, JDigits
  <2>3. CASE f = "nonce"
    <3>1. Field(item) = JNumber(item.nonce)
      BY <2>3
    <3> QED BY <2>1, <3>1, DecimalAssumption DEF Parses, JNumber
  <2>4. CASE f \notin {"value", "nonce"}
    <3>1. Field(item) = Field(DummyItem)
      BY <2>4
    <3> HIDE DEF Field
    <3> QED BY <1>4, <2>1, <3>1
  <2> QED BY <2>2, <2>3, <2>4
<1> QED BY <1>3, <1>4

\* Where the dummy match renders, a match renders too, except in the ways it
\* can differ from the dummy.
Differs(t, filter, m) ==
    LacksPart(t, m) \/ ForeignParam(t, m) \/ (filter # "none" /\ HasLargeValue(m))

LEMMA PathExplained ==
    ASSUME NEW abi, NEW t, NEW filter, NEW m, NumbersOK(m),
           RenderPath(DummyTop(abi), t.path, filter) = "ok"
    PROVE  \/ Differs(t, filter, m)
           \/ /\ RenderPath(MatchJson(m), t.path, filter) = "ok"
              /\ <<t.path[1]>> \in DOMAIN MatchJson(m)
<1> DEFINE path == t.path
           top == DummyTop(abi)
           obj == MatchJson(m)
           Fine == /\ path \in DOMAIN obj /\ <<path[1]>> \in DOMAIN obj
                   /\ Parses(top[path]) => Parses(obj[path]) \/ HasLargeValue(m)
<1>1. path \in DOMAIN top /\ (filter = "none" \/ (filter = "scale" /\ Parses(top[path])))
  BY DEF RenderPath, ApplyFilter
<1>2. SUFFICES LacksPart(t, m) \/ ForeignParam(t, m) \/ Fine
  <2> HIDE DEF top, obj
  <2>1. filter = "none" \/ (filter = "scale" /\ Parses(obj[path])) =>
           ApplyFilter(filter, obj[path]) = "ok"
    BY DEF ApplyFilter
  <2>2. ASSUME Fine
        PROVE  \/ filter # "none" /\ HasLargeValue(m)
               \/ RenderPath(obj, path, filter) = "ok" /\ <<path[1]>> \in DOMAIN obj
    <3>1. CASE filter = "none"
      BY <2>1, <2>2, <3>1 DEF RenderPath
    <3>2. CASE filter = "scale" /\ Parses(top[path])
      BY <2>1, <2>2, <3>2 DEF RenderPath
    <3> QED BY <1>1, <3>1, <3>2
  <2> QED BY <1>2, <2>2 DEF Differs, obj
<1>3. /\ \A f \in DOMAIN MatchFields : <<f>> \in DOMAIN obj /\ obj[<<f>>] = MatchFields[f]
      /\ \A f \in DOMAIN TxDetails(m.item) :
            <<"tx", f>> \in DOMAIN obj /\ obj[<<"tx", f>>] = TxDetails(m.item)[f]
      /\ m.log # NoLog => \A p \in DOMAIN LogDetails(m.log) :
                             p \in DOMAIN obj /\ obj[p] = LogDetails(m.log)[p]
      /\ m.call # NoCall => \A p \in DOMAIN CallDetails(m.call) :
                             p \in DOMAIN obj /\ obj[p] = CallDetails(m.call)[p]
  BY MatchJsonFacts
<1> HIDE DEF obj
<1>4. \A a, b, c : /\ <<a>>[1] = a /\ <<a, b>>[1] = a /\ <<a, b, c>>[1] = a
                   /\ <<a, b, c>>[3] = c /\ Len(<<a, b, c>>) = 3
  OBVIOUS
<1>5. ~Parses(JText)
  BY DEF Parses, JText
<1>6. CASE \E f \in DOMAIN MatchFields : path = <<f>> /\ top[path] = MatchFields[f]
  <2>1. PICK f \in DOMAIN MatchFields : path = <<f>> /\ top[path] = MatchFields[f]
    BY <1>6
  <2>2. path[1] = f
    BY <1>4, <2>1
  <2> HIDE DEF top, path
  <2>3. Fine
    BY <1>3, <2>1, <2>2
  <2> QED BY <2>3
<1>7. CASE \E f \in DOMAIN TxDetails(DummyItem) :
              path = <<"tx", f>> /\ top[path] = TxDetails(DummyItem)[f]
  <2>1. PICK f \in DOMAIN TxDetails(DummyItem) :
           path = <<"tx", f>> /\ top[path] = TxDetails(DummyItem)[f]
    BY <1>7
  <2>2. "tx" \in DOMAIN MatchFields
    BY DEF MatchFields
  <2>3. <<path[1]>> \in DOMAIN obj
    BY <1>3, <1>4, <2>1, <2>2
  <2>4. CASE f \in DOMAIN TxDetails(m.item)
    <3>1. path \in DOMAIN obj /\ obj[path] = TxDetails(m.item)[f]
      BY <1>3, <2>1, <2>4
    <3>2. Parses(TxDetails(DummyItem)[f]) =>
             Parses(TxDetails(m.item)[f]) \/ m.item.value > MaxDecimal
      BY <2>4, TxFieldFacts DEF NumbersOK
    <3> HIDE DEF top, path
    <3> QED BY <2>1, <2>3, <3>1, <3>2 DEF HasLargeValue
  <2>5. CASE f \notin DOMAIN TxDetails(m.item)
    <3>1. \/ f = "to" /\ m.item.create
          \/ f \in {"max_fee_per_gas", "max_priority_fee_per_gas"} /\ m.item.kind # "eip1559"
      BY <2>5, TxFieldFacts DEF NumbersOK
    <3> QED BY <2>1, <3>1 DEF LacksPart
  <2> QED BY <2>4, <2>5
<1>8. ASSUME path[1] = "log", m.log # NoLog PROVE <<path[1]>> \in DOMAIN obj
  <2>1. <<"log">> \in DOMAIN LogDetails(m.log)
    BY LogDetailsFacts
  <2> QED BY <1>3, <1>8, <2>1
<1>9. ASSUME path[1] = "decoded_call", m.call # NoCall PROVE <<path[1]>> \in DOMAIN obj
  <2>1. <<"decoded_call">> \in DOMAIN CallDetails(m.call)
    BY CallDetailsFacts
  <2> QED BY <1>3, <1>9, <2>1
<1>10. ASSUME NEW v, v.sol = "uint256", v.n \in Nat
       PROVE  /\ Parses(ToJson(v)) \/ v.n > MaxDecimal
              /\ Parses(CallToJson(v)) \/ v.n > MaxDecimal
  <2>1. ToJson(v) \in {JNumber(v.n), JDigits(v.n)} /\ CallToJson(v) = JDigits(v.n)
    BY <1>10 DEF ToJson, CallToJson
  <2>2. \A n \in Nat : (Parses(JNumber(n)) \/ n > MaxDecimal) /\ (Parses(JDigits(n)) \/ n > MaxDecimal)
    BY DecimalAssumption DEF Parses, JNumber, JDigits
  <2> QED BY <1>10, <2>1, <2>2
<1>11. CASE \/ path[1] = "log" /\ m.log = NoLog
            \/ path[1] = "decoded_call" /\ m.call = NoCall
  BY <1>11 DEF LacksPart
<1>12. CASE /\ path = <<"log">> \/ \E f \in {"address", "name", "params"} : path = <<"log", f>>
            /\ top[path] = JText
  <2>1. path[1] = "log"
    BY <1>4, <1>12
  <2>2. path \in DOMAIN LogDetails(m.log)
    <3>1. <<"log">> \in DOMAIN LogDetails(m.log)
      BY LogDetailsFacts
    <3>2. \A f \in {"address", "name", "params"} : <<"log", f>> \in DOMAIN LogDetails(m.log)
      BY LogDetailsFacts
    <3> HIDE DEF path
    <3> QED BY <1>12, <3>1, <3>2
  <2> HIDE DEF top, path
  <2> QED BY <1>3, <1>5, <1>8, <1>11, <1>12, <2>1, <2>2
<1>13. CASE path = <<"log", "log_index">>
  <2>1. path[1] = "log"
    BY <1>4, <1>13
  <2>2. path \in DOMAIN LogDetails(m.log) /\ LogDetails(m.log)[path] = JNumber(m.log.index)
    BY <1>13, LogDetailsFacts
  <2>3. Parses(JNumber(m.log.index))
    BY DecimalAssumption DEF NumbersOK, Parses, JNumber
  <2> HIDE DEF top, path
  <2> QED BY <1>3, <1>8, <1>11, <2>1, <2>2, <2>3
<1>14. CASE \E p : path = <<"log", "params", p>>
  <2>1. PICK p : path = <<"log", "params", p>>
    BY <1>14
  <2>2. path[1] = "log" /\ path[3] = p /\ Len(path) = 3
    BY <1>4, <2>1
  <2> DEFINE params == m.log.params
  <2>3. CASE p \notin DOMAIN params \/ params[p].sol # "uint256"
    BY <2>2, <2>3 DEF ForeignParam
  <2>4. CASE p \in DOMAIN params /\ params[p].sol = "uint256"
    <3>1. path \in DOMAIN LogDetails(m.log) /\ LogDetails(m.log)[path] = ToJson(params[p])
      BY <2>1, <2>4, LogDetailsFacts
    <3>2. params[p].n \in Nat
      BY <2>4 DEF NumbersOK
    <3>3. Parses(ToJson(params[p])) \/ params[p].n > MaxDecimal
      BY <1>10, <2>4, <3>2
    <3>4. params[p].n > MaxDecimal => HasLargeValue(m)
      BY <2>4 DEF HasLargeValue
    <3> HIDE DEF top, path, params
    <3> QED BY <1>3, <1>8, <1>11, <2>2, <3>1, <3>3, <3>4
  <2> QED BY <2>3, <2>4
<1>15. CASE /\ path = <<"decoded_call">> \/ \E f \in {"name", "params"} : path = <<"decoded_call", f>>
            /\ top[path] = JText
  <2>1. path[1] = "decoded_call"
    BY <1>4, <1>15
  <2>2. path \in DOMAIN CallDetails(m.call)
    BY <1>15, CallDetailsFacts
  <2> HIDE DEF top, path
  <2> QED BY <1>3, <1>5, <1>9, <1>11, <1>15, <2>1, <2>2
<1>16. CASE \E p : path = <<"decoded_call", "params", p>>
  <2>1. PICK p : path = <<"decoded_call", "params", p>>
    BY <1>16
  <2>2. path[1] = "decoded_call" /\ path[3] = p /\ Len(path) = 3
    BY <1>4, <2>1
  <2> DEFINE params == m.call.params
  <2>3. CASE p \notin DOMAIN params \/ params[p].sol # "uint256"
    BY <2>2, <2>3 DEF ForeignParam
  <2>4. CASE p \in DOMAIN params /\ params[p].sol = "uint256"
    <3>1. path \in DOMAIN CallDetails(m.call) /\ CallDetails(m.call)[path] = CallToJson(params[p])
      BY <2>1, <2>4, CallDetailsFacts
    <3>2. params[p].n \in Nat
      BY <2>4 DEF NumbersOK
    <3>3. Parses(CallToJson(params[p])) \/ params[p].n > MaxDecimal
      BY <1>10, <2>4, <3>2
    <3>4. params[p].n > MaxDecimal => HasLargeValue(m)
      BY <2>4 DEF HasLargeValue
    <3> HIDE DEF top, path, params
    <3> QED BY <1>3, <1>9, <1>11, <2>2, <3>1, <3>3, <3>4
  <2> QED BY <2>3, <2>4
<1>17. \/ \E f \in DOMAIN MatchFields : path = <<f>> /\ top[path] = MatchFields[f]
       \/ \E f \in DOMAIN TxDetails(DummyItem) :
             path = <<"tx", f>> /\ top[path] = TxDetails(DummyItem)[f]
       \/ /\ path = <<"log">> \/ \E f \in {"address", "name", "params"} : path = <<"log", f>>
          /\ top[path] = JText
       \/ path = <<"log", "log_index">>
       \/ \E p : path = <<"log", "params", p>>
       \/ /\ path = <<"decoded_call">> \/ \E f \in {"name", "params"} : path = <<"decoded_call", f>>
          /\ top[path] = JText
       \/ \E p : path = <<"decoded_call", "params", p>>
  <2>1. path \in DOMAIN DummyTop(abi)
    BY <1>1
  <2> HIDE DEF path
  <2> QED BY <2>1, DummyTopFacts
<1> HIDE DEF path, top, Fine
<1> QED BY <1>6, <1>7, <1>12, <1>13, <1>14, <1>15, <1>16, <1>17

----------------------------------------------------------------------------
\* Rows.

\* The numbers of a match are those of its item.
LEMMA MatchNumbers ==
    ASSUME NEW monitors, NEW m \in MatchOf(monitors)
    PROVE  NumbersOK(m)
<1>1. PICK i \in Items : m.item = i.tx
  BY DEF MatchOf
<1>2. m.item.value \in Nat /\ m.item.nonce \in 0..MaxDecimal
  BY <1>1, ItemAssumption
<1>3. m.log.index \in 0..MaxDecimal /\ \A p \in DOMAIN m.log.params : m.log.params[p].n \in Nat
  <2>1. CASE m.log = NoLog
    <3>1. NoLog.index = 0 /\ NoLog.params = <<>> /\ DOMAIN <<>> = {}
      BY DEF NoLog
    <3> QED BY <2>1, <3>1, DecimalAssumption
  <2>2. CASE m.log # NoLog
    <3>1. PICK j \in Items : m.log \in ToSet(j.logs)
      BY <2>2 DEF MatchOf
    <3> QED BY <3>1, ItemAssumption
  <2> QED BY <2>1, <2>2
<1>4. \A p \in DOMAIN m.call.params : m.call.params[p].n \in Nat
  <2>1. CASE m.call = NoCall
    <3>1. NoCall.params = <<>> /\ DOMAIN <<>> = {}
      BY DEF NoCall
    <3> QED BY <2>1, <3>1
  <2>2. CASE m.call # NoCall
    <3>1. PICK j \in Items : m.call = j.call
      BY <2>2 DEF MatchOf
    <3> QED BY <3>1, ItemAssumption
  <2> QED BY <2>1, <2>2
<1> QED BY <1>2, <1>3, <1>4 DEF NumbersOK

\* What parses in the JSON of a match is a natural number.
LEMMA JsonNumbers ==
    ASSUME NEW m, NumbersOK(m), NEW p \in DOMAIN MatchJson(m), Parses(MatchJson(m)[p])
    PROVE  MatchJson(m)[p].n \in Nat
<1> DEFINE Good(v) == Parses(v) => v.n \in Nat
           v == MatchJson(m)[p]
<1>1. Good(JText) /\ Good(JList) /\ \A n \in Nat : Good(JNumber(n)) /\ Good(JDigits(n))
  BY DEF Parses, JText, JList, JNumber, JDigits
<1>2. \A w : w.n \in Nat => Good(ToJson(w)) /\ Good(CallToJson(w))
  BY DEF Parses, JText, JList, JNumber, JDigits, ToJson, CallToJson
<1>3. \A f \in DOMAIN MatchFields : Good(MatchFields[f])
  BY DEF Parses, JText, JNumber, MatchFields
<1>4. \A f \in DOMAIN TxDetails(m.item) : Good(TxDetails(m.item)[f])
  <2> TAKE f \in DOMAIN TxDetails(m.item)
  <2> DEFINE w == TxDetails(m.item)[f]
  <2>1. w = CASE f \in {"from", "to", "hash", "input"} -> JText
              [] f = "value" -> JDigits(m.item.value)
              [] f = "nonce" -> JNumber(m.item.nonce)
              [] f \in {"gas_limit", "transaction_index", "status"} -> JNumber(1)
              [] OTHER -> JDigits(1)
    BY DEF TxDetails
  <2> HIDE DEF w
  <2>2. w \in {JText, JDigits(m.item.value), JNumber(m.item.nonce), JNumber(1), JDigits(1)}
    BY <2>1
  <2>3. m.item.value \in Nat /\ m.item.nonce \in Nat /\ 1 \in Nat
    BY DecimalAssumption DEF NumbersOK
  <2> HIDE DEF Good
  <2>4. Good(w)
    BY <1>1, <2>2, <2>3
  <2> QED BY <2>4 DEF w
<1>5. ASSUME p \in DOMAIN LogDetails(m.log) PROVE Good(LogDetails(m.log)[p])
  <2> DEFINE obj == LogDetails(m.log)
  <2>1. /\ p = <<"log">> => obj[p] = JText
        /\ \A f \in {"address", "name", "params"} : p = <<"log", f>> => obj[p] = JText
        /\ p = <<"log", "log_index">> => obj[p] = JNumber(m.log.index)
        /\ \A q \in DOMAIN m.log.params :
              p = <<"log", "params", q>> => obj[p] = ToJson(m.log.params[q])
        /\ \/ p = <<"log">>
           \/ \E f \in {"address", "log_index", "name", "params"} : p = <<"log", f>>
           \/ \E q \in DOMAIN m.log.params : p = <<"log", "params", q>>
    <3>1. p = <<"log">> => obj[p] = JText
      BY LogDetailsFacts
    <3>2. \A f \in {"address", "name", "params"} : p = <<"log", f>> => obj[p] = JText
      BY LogDetailsFacts
    <3>3. p = <<"log", "log_index">> => obj[p] = JNumber(m.log.index)
      BY LogDetailsFacts
    <3>4. \A q \in DOMAIN m.log.params :
             p = <<"log", "params", q>> => obj[p] = ToJson(m.log.params[q])
      BY LogDetailsFacts
    <3>5. \/ p = <<"log">>
          \/ \E f \in {"address", "log_index", "name", "params"} : p = <<"log", f>>
          \/ \E q \in DOMAIN m.log.params : p = <<"log", "params", q>>
      BY <1>5, LogDetailsFacts
    <3> QED BY <3>1, <3>2, <3>3, <3>4, <3>5
  <2>2. m.log.index \in Nat /\ \A q \in DOMAIN m.log.params : m.log.params[q].n \in Nat
    BY DecimalAssumption DEF NumbersOK
  <2> HIDE DEF obj, Good
  <2>3. Good(obj[p])
    BY <1>1, <1>2, <2>1, <2>2
  <2> QED BY <2>3 DEF obj
<1>6. ASSUME p \in DOMAIN CallDetails(m.call) PROVE Good(CallDetails(m.call)[p])
  <2> DEFINE obj == CallDetails(m.call)
  <2>1. /\ p = <<"decoded_call">> => obj[p] = JText
        /\ \A f \in {"name", "params"} : p = <<"decoded_call", f>> => obj[p] = JText
        /\ \A q \in DOMAIN m.call.params :
              p = <<"decoded_call", "params", q>> => obj[p] = CallToJson(m.call.params[q])
        /\ \/ p = <<"decoded_call">>
           \/ \E f \in {"name", "params"} : p = <<"decoded_call", f>>
           \/ \E q \in DOMAIN m.call.params : p = <<"decoded_call", "params", q>>
    BY <1>6, CallDetailsFacts
  <2>2. \A q \in DOMAIN m.call.params : m.call.params[q].n \in Nat
    BY DEF NumbersOK
  <2> HIDE DEF obj, Good
  <2>3. Good(obj[p])
    BY <1>1, <1>2, <2>1, <2>2
  <2> QED BY <2>3 DEF obj
<1>7. \/ \E f \in DOMAIN MatchFields : v = MatchFields[f]
      \/ \E f \in DOMAIN TxDetails(m.item) : v = TxDetails(m.item)[f]
      \/ p \in DOMAIN LogDetails(m.log) /\ v = LogDetails(m.log)[p]
      \/ p \in DOMAIN CallDetails(m.call) /\ v = CallDetails(m.call)[p]
  BY MatchJsonFacts
<1>8. Parses(v)
  OBVIOUS
<1> HIDE DEF v, Good
<1>9. Good(v)
  BY <1>3, <1>4, <1>5, <1>6, <1>7
<1> QED BY <1>8, <1>9 DEF Good, v

\* One value never leaves the range of Decimal.
LEMMA SumOfOne ==
    ASSUME NEW vs, DOMAIN vs = {1}, Len(vs) = 1, Parses(vs[1]) => vs[1].n \in Nat
    PROVE  Sum(vs) # "panic"
<1> DEFINE G(f) == [i \in 0..Len(vs) |-> IF i = 0 THEN 0 ELSE f[i - 1] + vs[i].n]
           total == CHOOSE f : f = G(f)
           over == {i \in DOMAIN vs : (\A j \in 1..i : Parses(vs[j])) /\ total[i] > MaxDecimal}
           bad == {i \in DOMAIN vs : ~Parses(vs[i])}
<1>1. Sum(vs) = CASE over # {} -> "panic" [] over = {} /\ bad # {} -> "error" [] OTHER -> "ok"
  BY DEF Sum
<1>2. total = G(total)
  <2> DEFINE g == [i \in 0..1 |-> IF i = 0 THEN 0 ELSE 0 + vs[1].n]
  <2>1. g[0] = 0
    OBVIOUS
  <2>2. \A i \in 0..1 : g[i] = G(g)[i]
    <3> TAKE i \in 0..1
    <3>1. CASE i = 0
      BY <3>1
    <3>2. CASE i = 1
      <4>1. g[1] = 0 + vs[1].n /\ G(g)[1] = g[0] + vs[1].n
        OBVIOUS
      <4> HIDE DEF g, G
      <4> QED BY <2>1, <3>2, <4>1
    <3> QED BY <3>1, <3>2
  <2>3. g = G(g)
    BY <2>2
  <2> HIDE DEF g
  <2> QED BY <2>3
<1> HIDE DEF total
<1>3. total[0] = 0 /\ total[1] = total[0] + vs[1].n
  <2> DEFINE h == G(total)
  <2>1. h[0] = 0 /\ h[1] = total[0] + vs[1].n
    OBVIOUS
  <2> HIDE DEF h
  <2>2. h = total
    BY <1>2 DEF h
  <2> QED BY <2>1, <2>2
<1>4. Parses(vs[1]) => total[1] <= MaxDecimal
  <2> DEFINE x == vs[1].n
             y == total[1]
  <2>1. Parses(vs[1]) => x \in Nat /\ x <= MaxDecimal /\ y = 0 + x
    BY <1>3 DEF Parses
  <2> HIDE DEF x, y
  <2>2. Parses(vs[1]) => y <= MaxDecimal
    BY <2>1
  <2> QED BY <2>2 DEF y
<1>5. over = {}
  <2> SUFFICES ASSUME Parses(vs[1]), total[1] > MaxDecimal PROVE FALSE
    OBVIOUS
  <2> DEFINE y == total[1]
  <2>1. y \in Nat
    BY <1>3
  <2>2. y <= MaxDecimal /\ y > MaxDecimal
    BY <1>4
  <2> HIDE DEF y
  <2> QED BY <2>1, <2>2, DecimalAssumption
<1> HIDE DEF over, bad
<1> QED BY <1>1, <1>5

\* A list of matches fails to render over one of them.
LEMMA EachExplained ==
    ASSUME NEW t, NEW ms, NEW S, ms \in Seq(S), \A m \in S : NumbersOK(m),
           RenderPath(DummyTop(TRUE), t.path, t.filter) = "ok",
           FirstBad([i \in DOMAIN ms |-> RenderPath(MatchJson(ms[i]), t.path, t.filter)]) # "ok"
    PROVE  \E k \in DOMAIN ms : Differs(t, t.filter, ms[k])
<1> DEFINE results == [i \in DOMAIN ms |-> RenderPath(MatchJson(ms[i]), t.path, t.filter)]
           bad == {i \in DOMAIN results : results[i] # "ok"}
<1>1. bad # {}
  BY DEF FirstBad
<1>2. PICK k \in DOMAIN ms : RenderPath(MatchJson(ms[k]), t.path, t.filter) # "ok"
  BY <1>1
<1>3. NumbersOK(ms[k])
  OBVIOUS
<1> DEFINE m == ms[k]
           filter == t.filter
<1>4. NumbersOK(m) /\ RenderPath(DummyTop(TRUE), t.path, filter) = "ok"
  BY <1>3
<1> HIDE DEF m, filter
<1>5. \/ Differs(t, filter, m)
      \/ RenderPath(MatchJson(m), t.path, filter) = "ok"
  BY ONLY <1>4, PathExplained
<1> QED BY <1>2, <1>5 DEF m, filter

\* So does a sum over them, unless the total of several leaves the range.
LEMMA AllExplained ==
    ASSUME NEW t, NEW ms, NEW S, ms \in Seq(S), ms # <<>>, \A m \in S : NumbersOK(m),
           t.filter # "none",
           RenderPath(DummyTop(TRUE), t.path, "scale") = "ok",
           \A i \in DOMAIN ms : t.path \in DOMAIN MatchJson(ms[i]),
           Sum([i \in DOMAIN ms |-> MatchJson(ms[i])[t.path]]) # "ok"
    PROVE  \/ \E k \in DOMAIN ms : Differs(t, t.filter, ms[k])
           \/ Len(ms) > 1 /\ Sum([i \in DOMAIN ms |-> MatchJson(ms[i])[t.path]]) = "panic"
<1> DEFINE n == Len(ms)
           vs == [i \in DOMAIN ms |-> MatchJson(ms[i])[t.path]]
           bad == {i \in DOMAIN vs : ~Parses(vs[i])}
<1>1. n \in Nat /\ DOMAIN ms = 1..n /\ n # 0 /\ DOMAIN vs = 1..n /\ Len(vs) = n
  OBVIOUS
<1>2. CASE bad # {}
  <2>1. PICK k \in DOMAIN ms : ~Parses(MatchJson(ms[k])[t.path])
    BY <1>2
  <2> DEFINE m == ms[k]
             filter == "scale"
  <2>2. NumbersOK(m) /\ RenderPath(DummyTop(TRUE), t.path, filter) = "ok"
    <3>1. ms[k] \in S
      OBVIOUS
    <3>2. NumbersOK(ms[k])
      BY <3>1
    <3> QED BY <3>2
  <2>3. RenderPath(MatchJson(m), t.path, filter) # "ok"
    BY <2>1 DEF RenderPath, ApplyFilter
  <2> HIDE DEF m, filter
  <2>4. Differs(t, filter, m)
    BY ONLY <2>2, <2>3, PathExplained
  <2>5. Differs(t, t.filter, m)
    BY <2>4 DEF Differs
  <2> QED BY <2>5 DEF m
<1>3. CASE bad = {}
  <2>1. Sum(vs) = "panic"
    <3>1. Sum(vs) \in {"panic", "error", "ok"} /\ (Sum(vs) = "error" => bad # {})
      BY DEF Sum
    <3> QED BY <1>3, <3>1
  <2>2. n # 1
    <3> SUFFICES ASSUME n = 1 PROVE FALSE
      OBVIOUS
    <3>1. DOMAIN vs = {1} /\ Len(vs) = 1 /\ vs[1] = MatchJson(ms[1])[t.path] /\ 1 \in DOMAIN ms
      BY <1>1
    <3> DEFINE m == ms[1]
               p == t.path
    <3>2. NumbersOK(m) /\ p \in DOMAIN MatchJson(m)
      BY <3>1
    <3> HIDE DEF m, p
    <3>3. Parses(MatchJson(m)[p]) => MatchJson(m)[p].n \in Nat
      BY ONLY <3>2, JsonNumbers
    <3>4. Parses(vs[1]) => vs[1].n \in Nat
      BY <3>1, <3>3 DEF m, p
    <3> HIDE DEF vs
    <3> QED BY <2>1, <3>1, <3>4, SumOfOne
  <2>3. Len(ms) > 1
    BY <1>1, <2>2
  <2> QED BY <2>1, <2>3
<1> QED BY <1>2, <1>3

\* The row of an action that the dispatcher has fails only with its template.
LEMMA RowTemplate ==
    ASSUME IInv, NEW id \in DOMAIN queue, queue[id].action \in actions,
           Attempt(queue[id]) \in {"error", "panic"}
    PROVE  LET row == queue[id]
               a == setup.actions[row.action]
               t == TemplateFor(a, row)
           IN  /\ t \in {a.message, a.template} /\ t.at \in Places
               /\ Attempt(row) = Render(t, Context(row))
<1> DEFINE row == queue[id]
           a == setup.actions[row.action]
           t == TemplateFor(a, row)
<1>1. RowOK(row) /\ setup \in Setups
  BY DEF IInv, TypeOK
<1>2. row.action \in DOMAIN setup.actions /\ (row.kind = "aggregated" => Aggregates(row.action))
  BY <1>1 DEF RowOK
<1>3. /\ a.type \in Publishers \cup Webhooks \cup {"stdout"}
      /\ a.type \in Webhooks => a.message.at \in Places
      /\ a.type \in Webhooks /\ a.policy = "aggregation" => a.template.at \in Places
      /\ a.message.at \in Places \cup {"none"}
  BY <1>1, <1>2, SetupAssumption
<1>4. row.kind = "aggregated" => a.policy = "aggregation"
  BY <1>2 DEF Aggregates
<1>5. Attempt(row) \in {"skipped", Rendered(a, row)}
  BY DEF Attempt
<1>6. Attempt(row) = Rendered(a, row) /\ Rendered(a, row) # "ok"
  BY <1>5
<1>7. t \in {a.message, a.template}
  BY DEF TemplateFor
<1> DEFINE ctx == Context(row)
<1> HIDE DEF row, a, ctx
<1>8. CASE a.type \in Publishers
  <2>1. a.type \notin Webhooks /\ a.type # "stdout"
    BY <1>8 DEF Publishers, Webhooks
  <2> QED BY <1>6, <1>8, <2>1 DEF Rendered
<1>9. CASE a.type = "stdout"
  <2>1. a.type \notin Webhooks /\ a.type \notin Publishers
    BY <1>9 DEF Publishers, Webhooks
  <2>2. Rendered(a, row) = RenderStdout(a, row)
    BY <1>9, <2>1 DEF Rendered
  <2>3. t = a.message
    BY <2>1 DEF TemplateFor
  <2>4. a.message.at # "none" /\ RenderStdout(a, row) = Render(a.message, ctx)
    BY <1>6, <2>2 DEF RenderStdout, ctx
  <2> HIDE DEF t
  <2>5. t.at \in Places /\ Attempt(row) = Render(t, ctx)
    BY <1>3, <1>6, <2>2, <2>3, <2>4
  <2> QED BY <1>7, <2>5 DEF row, a, t, ctx
<1>10. CASE a.type \in Webhooks
  <2>1. a.type # "stdout" /\ a.type \notin Publishers
    BY <1>10 DEF Publishers, Webhooks
  <2>2. Rendered(a, row) = Render(t, ctx)
    BY <1>10, <2>1 DEF Rendered, RenderWebhook, ctx
  <2>3. t.at \in Places
    BY <1>3, <1>4, <1>10 DEF TemplateFor
  <2> HIDE DEF t
  <2> QED BY <1>6, <1>7, <2>2, <2>3 DEF row, a, t, ctx
<1> QED BY <1>3, <1>8, <1>9, <1>10

\* What the validator found of the template of a row.
LEMMA TemplateAccepted ==
    ASSUME IInv, NEW id \in DOMAIN queue, NEW t, t.at \in Places, t.at # "test",
           t \in {setup.actions[queue[id].action].message, setup.actions[queue[id].action].template}
    PROVE  \E abi : Render(t, DummyContext(setup.actions[queue[id].action], abi)) = "ok"
<1> DEFINE row == queue[id]
           a == setup.actions[row.action]
<1>1. RowOK(row) /\ Accepted(setup) /\ row \in Row
  BY DEF IInv, TypeOK, ShapeInv
<1>2. row.action \in DOMAIN setup.actions /\ row.matches # <<>>
  BY <1>1 DEF RowOK
<1>3. row.matches \in Seq(Match)
  BY <1>1 DEF Row
<1>4. row.matches[1] \in Match
  <2> DEFINE M == Match
             ms == row.matches
  <2>1. ms \in Seq(M) /\ ms # <<>>
    BY <1>2, <1>3
  <2> HIDE DEF M, ms
  <2>2. ms[1] \in M
    BY <2>1
  <2> QED BY <2>2 DEF M, ms
<1>5. PICK i \in DOMAIN setup.monitors : TRUE
  BY <1>4 DEF Match, MatchOf
<1>6. TemplatesValid(a, setup.monitors[i].abi)
  BY <1>1, <1>2, <1>5 DEF Accepted
<1>7. t \in TemplatesOf(a)
  BY DEF TemplatesOf, Places
<1> QED BY <1>6, <1>7 DEF TemplatesValid

LEMMA RowFailureExplained ==
    ASSUME IInv, NEW id \in pending, queue[id].action \in actions,
           Attempt(queue[id]) \in {"error", "panic"},
           TemplateFor(setup.actions[queue[id].action], queue[id]).at # "test"
    PROVE  LET row == queue[id]
               t == TemplateFor(setup.actions[row.action], row)
           IN  \/ row.kind = "aggregated" /\ t.at \in {"top", "if"}
               \/ UncheckedLoop(t)
               \/ \E k \in DOMAIN row.matches : Differs(t, t.filter, row.matches[k])
               \/ t.at = "all" /\ Len(row.matches) > 1 /\ Attempt(row) = "panic"
<1> DEFINE row == queue[id]
           a == setup.actions[row.action]
           t == TemplateFor(a, row)
           ms == row.matches
           ctx == Context(row)
<1>1. id \in DOMAIN queue
  BY DEF IInv, TypeOK
<1>2. RowOK(row) /\ row \in Row /\ setup \in Setups
  BY <1>1 DEF IInv, TypeOK, ShapeInv
<1>3. /\ t \in {a.message, a.template} /\ t.at \in Places /\ t.at # "test"
      /\ Attempt(row) = Render(t, ctx)
  BY <1>1, RowTemplate
<1>4. PICK abi : Render(t, DummyContext(a, abi)) = "ok"
  BY <1>1, <1>3, TemplateAccepted
<1>5. /\ ms \in Seq(Match) /\ ms # <<>> /\ row.kind \in {"single", "aggregated"}
      /\ row.kind = "single" => Len(ms) = 1
  BY <1>2 DEF RowOK, Row
<1>6. \A m \in Match : NumbersOK(m)
  BY MatchNumbers DEF Match
<1>7. Attempt(row) # "ok"
  OBVIOUS
<1>8. (row.kind = "single" => a.policy # "aggregation") /\ (t.at = "all" => t.filter = "sum")
  <2>1. row.action \in DOMAIN setup.actions /\ (row.kind = "single" => ~Aggregates(row.action))
    BY <1>2 DEF RowOK
  <2>2. t.at = "all" => t.filter = "sum"
    BY <1>2, <1>3, <2>1, SetupAssumption
  <2> QED BY <2>1, <2>2 DEF Aggregates
<1> DEFINE dummy == DummyContext(a, abi)
           M == Match
<1>9. dummy.top = DummyTop(abi) /\ dummy.list = (a.policy = "aggregation") /\ dummy.matches = <<>>
  BY DEF DummyContext
<1>10. /\ row.kind = "single" =>
             ctx.top = MatchJson(ms[1]) /\ ctx.list = FALSE
       /\ row.kind = "aggregated" =>
             ctx.list = TRUE /\ ctx.matches = [i \in DOMAIN ms |-> MatchJson(ms[i])]
  BY DEF Context
<1> SUFFICES \/ row.kind = "aggregated" /\ t.at \in {"top", "if"}
             \/ UncheckedLoop(t)
             \/ \E k \in DOMAIN ms : Differs(t, t.filter, ms[k])
             \/ t.at = "all" /\ Len(ms) > 1 /\ Attempt(row) = "panic"
  OBVIOUS
<1> HIDE DEF ctx, dummy, t, a, ms, row, M
<1>11. CASE row.kind = "single"
  <2>1. t.at \notin {"each", "all"}
    <3>1. ~dummy.list
      BY <1>8, <1>9, <1>11
    <3>2. Render(t, dummy) = "ok"
      BY <1>4 DEF dummy
    <3> QED BY <3>1, <3>2 DEF Render
  <2>2. t.at \in {"top", "if"}
    BY <1>3, <2>1 DEF Places
  <2> DEFINE m == ms[1]
             filter == t.filter
  <2>3. RenderPath(DummyTop(abi), t.path, filter) = "ok"
    <3>1. Render(t, dummy) = "ok"
      BY <1>4 DEF dummy
    <3> QED BY <1>9, <2>2, <3>1 DEF Render
  <2>4. \/ RenderPath(MatchJson(m), t.path, filter) # "ok"
        \/ <<t.path[1]>> \notin DOMAIN MatchJson(m)
    <3>1. Render(t, ctx) # "ok"
      BY <1>3, <1>7
    <3> QED BY <1>10, <1>11, <2>2, <3>1 DEF Render
  <2>5. 1 \in DOMAIN ms /\ m \in M
    <3>1. ms \in Seq(M) /\ ms # <<>>
      BY <1>5 DEF M
    <3> QED BY <3>1
  <2>6. NumbersOK(m)
    BY <1>6, <2>5 DEF M
  <2> HIDE DEF m, filter
  <2>7. Differs(t, filter, m)
    BY ONLY <2>3, <2>4, <2>6, PathExplained
  <2> QED BY <2>5, <2>7 DEF m, filter
<1>12. CASE row.kind = "aggregated" /\ t.at = "each"
  <2> SUFFICES ASSUME ~UncheckedLoop(t) PROVE \E k \in DOMAIN ms : Differs(t, t.filter, ms[k])
    OBVIOUS
  <2>1. RenderPath(DummyTop(TRUE), t.path, t.filter) = "ok"
    BY <1>12 DEF UncheckedLoop
  <2>2. FirstBad([i \in DOMAIN ms |-> RenderPath(MatchJson(ms[i]), t.path, t.filter)]) # "ok"
    <3> DEFINE cs == [i \in DOMAIN ms |-> MatchJson(ms[i])]
    <3>1. Render(t, ctx) = FirstBad([i \in DOMAIN cs |-> RenderPath(cs[i], t.path, t.filter)])
      BY <1>10, <1>12 DEF Render
    <3>2. [i \in DOMAIN cs |-> RenderPath(cs[i], t.path, t.filter)] =
             [i \in DOMAIN ms |-> RenderPath(MatchJson(ms[i]), t.path, t.filter)]
      OBVIOUS
    <3> QED BY <1>3, <1>7, <3>1, <3>2
  <2>3. ms \in Seq(M) /\ \A m \in M : NumbersOK(m)
    BY <1>5, <1>6 DEF M
  <2> QED BY ONLY <2>1, <2>2, <2>3, EachExplained
<1>13. CASE row.kind = "aggregated" /\ t.at = "all"
  <2> SUFFICES ASSUME ~UncheckedLoop(t)
               PROVE  \/ \E k \in DOMAIN ms : Differs(t, t.filter, ms[k])
                      \/ Len(ms) > 1 /\ Attempt(row) = "panic"
    BY <1>13
  <2> DEFINE cs == [i \in DOMAIN ms |-> MatchJson(ms[i])]
             vs == [i \in DOMAIN ms |-> MatchJson(ms[i])[t.path]]
  <2>1. RenderPath(DummyTop(TRUE), t.path, "scale") = "ok"
    BY <1>13 DEF UncheckedLoop
  <2>2. ms \in Seq(M) /\ ms # <<>> /\ \A m \in M : NumbersOK(m)
    BY <1>5, <1>6 DEF M
  <2>3. t.filter # "none"
    BY <1>8, <1>13
  <2>4. CASE \E i \in DOMAIN ms : t.path \notin DOMAIN MatchJson(ms[i])
    <3>1. PICK k \in DOMAIN ms : t.path \notin DOMAIN MatchJson(ms[k])
      BY <2>4
    <3> DEFINE m == ms[k]
               filter == "scale"
    <3>2. NumbersOK(m)
      <4>1. m \in M
        BY <2>2
      <4> QED BY <2>2, <4>1
    <3>3. RenderPath(MatchJson(m), t.path, filter) # "ok"
      BY <3>1 DEF RenderPath
    <3>4. RenderPath(DummyTop(TRUE), t.path, filter) = "ok"
      BY <2>1
    <3> HIDE DEF m, filter
    <3>5. Differs(t, filter, m)
      BY ONLY <3>2, <3>3, <3>4, PathExplained
    <3>6. Differs(t, t.filter, m)
      BY <2>3, <3>5 DEF Differs
    <3> QED BY <3>6 DEF m
  <2>5. CASE \A i \in DOMAIN ms : t.path \in DOMAIN MatchJson(ms[i])
    <3>1. ctx.matches = cs /\ ctx.list
      BY <1>10, <1>13
    <3>2. ~ \E i \in DOMAIN cs : t.path \notin DOMAIN cs[i]
      BY <2>5
    <3>3. [i \in DOMAIN cs |-> cs[i][t.path]] = vs
      OBVIOUS
    <3> HIDE DEF cs, vs
    <3>4. Render(t, ctx) = Sum(vs)
      BY <1>13, <3>1, <3>2, <3>3 DEF Render
    <3>5. Sum(vs) # "ok" /\ Attempt(row) = Sum(vs)
      BY <1>3, <1>7, <3>4
    <3>6. \/ \E k \in DOMAIN ms : Differs(t, t.filter, ms[k])
          \/ Len(ms) > 1 /\ Sum(vs) = "panic"
      BY <2>1, <2>2, <2>3, <2>5, <3>5, AllExplained DEF vs
    <3> QED BY <3>5, <3>6
  <2> QED BY <2>4, <2>5
<1> QED BY <1>3, <1>5, <1>11, <1>12, <1>13 DEF Places

\* A row whose template the validator accepted fails to render only because
\* its match differs from the dummy match of generate_dummy_context in one of
\* the listed ways (TemplateValidator, ActionPayload::context, the filters),
\* for every template, ABI, item and width of the numbers.
THEOREM RenderFailureHasReason == Spec => []RenderFailureExplained
<1>1. Init => IInv
  BY InitIInv
<1>2. IInv /\ [Next]_vars => IInv'
  BY NextIInv
<1>3. IInv => RenderFailureExplained
  <2> SUFFICES ASSUME IInv, NEW id \in pending, queue[id].action \in actions,
                      Attempt(queue[id]) \in {"error", "panic"}
               PROVE  LET row == queue[id]
                          t == TemplateFor(setup.actions[row.action], row)
                      IN  \/ row.kind = "aggregated" /\ t.at \in {"top", "if"}
                          \/ UncheckedLoop(t)
                          \/ t.at = "test"
                          \/ \E k \in DOMAIN row.matches :
                                \/ LacksPart(t, row.matches[k])
                                \/ ForeignParam(t, row.matches[k])
                                \/ t.filter # "none" /\ HasLargeValue(row.matches[k])
                          \/ t.at = "all" /\ Len(row.matches) > 1 /\ Attempt(row) = "panic"
    BY DEF RenderFailureExplained
  <2>1. CASE TemplateFor(setup.actions[queue[id].action], queue[id]).at = "test"
    BY <2>1
  <2>2. CASE TemplateFor(setup.actions[queue[id].action], queue[id]).at # "test"
    BY <2>2, RowFailureExplained DEF Differs
  <2> QED BY <2>1, <2>2
<1> QED BY <1>1, <1>2, <1>3, PTL DEF Spec

----------------------------------------------------------------------------
\* Monitors that share an item.

\* The context of one evaluation and that of another, step by step: a match of
\* another monitor adds nothing to the matches of monitor i ...
LEMMA OtherMatch ==
    ASSUME NEW monitors, NEW i, NEW M, NEW s, NEW t, NEW x,
           s \in Seq(M), t \in Seq(M), x \in M, x.monitor # i, SameMatches(monitors, i, s, t)
    PROVE  SameMatches(monitors, i, Append(s, x), t)
<1> DEFINE u == Append(s, x)
           m == Len(s)
<1>1. PICK at \in [DOMAIN t -> DOMAIN s] :
         /\ \A k, l \in DOMAIN t : k < l => at[k] < at[l]
         /\ \A p \in DOMAIN s : s[p].monitor = i <=> \E k \in DOMAIN t : at[k] = p
         /\ \A k \in DOMAIN t : SamePayload(monitors, i, s[at[k]], t[k])
  BY DEF SameMatches
<1>2. /\ m \in Nat /\ DOMAIN s = 1..m /\ DOMAIN u = 1 .. m + 1
      /\ u[m + 1] = x /\ \A p \in 1..m : u[p] = s[p]
  OBVIOUS
<1>3. \A p \in 1 .. m + 1 : p \in 1..m \/ p = m + 1
  BY <1>2
<1>4. m + 1 \notin 1..m
  BY <1>2
<1> HIDE DEF u, m
<1>5. at \in [DOMAIN t -> DOMAIN u]
  <2>1. \A p \in 1..m : p \in 1 .. m + 1
    BY <1>2
  <2> QED BY <1>2, <2>1
<1>6. \A p \in DOMAIN u : u[p].monitor = i <=> \E k \in DOMAIN t : at[k] = p
  <2> SUFFICES ASSUME NEW p \in DOMAIN u
               PROVE  u[p].monitor = i <=> \E k \in DOMAIN t : at[k] = p
    OBVIOUS
  <2>1. CASE p \in 1..m
    BY <1>1, <1>2, <2>1
  <2>2. CASE p = m + 1
    BY <1>2, <1>4, <2>2
  <2> QED BY <1>2, <1>3, <2>1, <2>2
<1>7. \A k \in DOMAIN t : SamePayload(monitors, i, u[at[k]], t[k])
  BY <1>1, <1>2
<1>8. SameMatches(monitors, i, u, t)
  BY <1>1, <1>5, <1>6, <1>7 DEF SameMatches
<1> QED BY <1>8 DEF u

\* ... and a match of monitor i is one more on both sides.
LEMMA SharedMatch ==
    ASSUME NEW monitors, NEW i, NEW M, NEW s, NEW t, NEW x, NEW y,
           s \in Seq(M), t \in Seq(M), x \in M, y \in M,
           x.monitor = i, SamePayload(monitors, i, x, y), SameMatches(monitors, i, s, t)
    PROVE  SameMatches(monitors, i, Append(s, x), Append(t, y))
<1> DEFINE u == Append(s, x)
           v == Append(t, y)
           m == Len(s)
           n == Len(t)
<1>1. PICK at \in [DOMAIN t -> DOMAIN s] :
         /\ \A k, l \in DOMAIN t : k < l => at[k] < at[l]
         /\ \A p \in DOMAIN s : s[p].monitor = i <=> \E k \in DOMAIN t : at[k] = p
         /\ \A k \in DOMAIN t : SamePayload(monitors, i, s[at[k]], t[k])
  BY DEF SameMatches
<1>2. /\ m \in Nat /\ DOMAIN s = 1..m /\ DOMAIN u = 1 .. m + 1
      /\ u[m + 1] = x /\ \A p \in 1..m : u[p] = s[p]
  OBVIOUS
<1>3. /\ n \in Nat /\ DOMAIN t = 1..n /\ DOMAIN v = 1 .. n + 1
      /\ v[n + 1] = y /\ \A k \in 1..n : v[k] = t[k]
  OBVIOUS
<1> HIDE DEF u, v, m, n
<1>4. /\ \A p \in 1 .. m + 1 : p \in 1..m \/ p = m + 1
      /\ \A p \in 1..m : p \in 1 .. m + 1 /\ p # m + 1 /\ p < m + 1
      /\ m + 1 \in 1 .. m + 1
  BY <1>2
<1>5. /\ \A k \in 1 .. n + 1 : k \in 1..n \/ k = n + 1
      /\ \A k \in 1..n : k \in 1 .. n + 1 /\ k # n + 1 /\ ~ (n + 1 < k)
      /\ n + 1 \in 1 .. n + 1 /\ ~ (n + 1 < n + 1)
  BY <1>3
<1> DEFINE to == [k \in 1 .. n + 1 |-> IF k = n + 1 THEN m + 1 ELSE at[k]]
<1>6. to[n + 1] = m + 1 /\ \A k \in 1..n : to[k] = at[k] /\ at[k] \in 1..m
  BY <1>1, <1>2, <1>3, <1>5
<1>7. to \in [DOMAIN v -> DOMAIN u]
  <2>1. \A k \in 1 .. n + 1 : to[k] \in 1 .. m + 1
    BY <1>4, <1>5, <1>6
  <2> QED BY <1>2, <1>3, <2>1
<1> HIDE DEF to
<1>8. \A k, l \in DOMAIN v : k < l => to[k] < to[l]
  <2> SUFFICES ASSUME NEW k \in 1 .. n + 1, NEW l \in 1 .. n + 1, k < l PROVE to[k] < to[l]
    BY <1>3
  <2>1. k \in 1..n
    BY <1>5
  <2>2. CASE l = n + 1
    <3>1. to[k] = at[k] /\ at[k] \in 1..m /\ to[l] = m + 1
      BY <1>6, <2>1, <2>2
    <3> QED BY <1>4, <3>1
  <2>3. CASE l \in 1..n
    <3>1. at[k] < at[l]
      BY <1>1, <1>3, <2>1, <2>3
    <3> QED BY <1>6, <2>1, <2>3, <3>1
  <2> QED BY <1>5, <2>2, <2>3
<1>9. \A p \in DOMAIN u : u[p].monitor = i <=> \E k \in DOMAIN v : to[k] = p
  <2> SUFFICES ASSUME NEW p \in 1 .. m + 1
               PROVE  u[p].monitor = i <=> \E k \in 1 .. n + 1 : to[k] = p
    BY <1>2, <1>3
  <2>1. CASE p \in 1..m
    <3>1. u[p].monitor = i <=> \E k \in 1..n : at[k] = p
      BY <1>1, <1>2, <1>3, <2>1
    <3>2. (\E k \in 1..n : at[k] = p) <=> \E k \in 1 .. n + 1 : to[k] = p
      BY <1>4, <1>5, <1>6, <2>1
    <3> QED BY <3>1, <3>2
  <2>2. CASE p = m + 1
    BY <1>2, <1>5, <1>6, <2>2
  <2> QED BY <1>4, <2>1, <2>2
<1>10. \A k \in DOMAIN v : SamePayload(monitors, i, u[to[k]], v[k])
  <2> SUFFICES ASSUME NEW k \in 1 .. n + 1 PROVE SamePayload(monitors, i, u[to[k]], v[k])
    BY <1>3
  <2>1. CASE k \in 1..n
    <3>1. u[to[k]] = s[at[k]] /\ v[k] = t[k]
      BY <1>2, <1>3, <1>6, <2>1
    <3> QED BY <1>1, <1>3, <2>1, <3>1
  <2>2. CASE k = n + 1
    BY <1>2, <1>3, <1>6, <2>2
  <2> QED BY <1>5, <2>1, <2>2
<1>11. SameMatches(monitors, i, u, v)
  BY <1>7, <1>8, <1>9, <1>10 DEF SameMatches
<1> QED BY <1>11 DEF u, v

\* A silenced monitor reads tx.value only, and never matches.
LEMMA SilencedFacts ==
    ASSUME NEW m, NEW item, NEW log, NEW call
    PROVE  /\ ~CallAware(Silenced(m)) /\ ~LogAware(Silenced(m))
           /\ RunScript(Silenced(m).script, item, log, call) = "false"
<1> DEFINE path == <<"tx", "value">>
           c == [path |-> path, op |-> "cmp", arg |-> Text("")]
           script == [join |-> "and", conds |-> <<c>>]
<1>1. Silenced(m).script = script
  BY DEF Silenced
<1>2. DOMAIN script.conds = {1} /\ script.conds[1] = c
  <2>1. script.conds = <<c>>
    OBVIOUS
  <2> HIDE DEF script, c
  <2> QED BY <2>1
<1>3. Accessed(script) = {path}
  <2> HIDE DEF script
  <2>1. {script.conds[k] : k \in DOMAIN script.conds} = {c}
    BY <1>2
  <2>2. c.path = path
    OBVIOUS
  <2> HIDE DEF c, path
  <2> QED BY <2>1, <2>2 DEF Accessed
<1>4. path[1] = "tx" /\ path[2] = "value"
  OBVIOUS
<1>5. ~CallAware(Silenced(m)) /\ ~LogAware(Silenced(m))
  <2> HIDE DEF script, path
  <2> QED BY <1>1, <1>3, <1>4 DEF CallAware, LogAware, Accesses
<1>6. Read(item, log, call, path) = Num(item.value)
  <2>1. "value" \in DOMAIN TxMap(item) /\ TxMap(item)["value"] = Num(item.value)
    BY DEF TxMap, TxFields, ReceiptFields
  <2>2. Get(TxMap(item), "value") = Num(item.value)
    BY <2>1 DEF Get
  <2> HIDE DEF path
  <2> QED BY <1>4, <2>2 DEF Read
<1>7. Holds(c, Num(item.value)) = "false"
  <2>1. c.op = "cmp" /\ c.arg.is = "text"
    BY DEF Text
  <2>2. Num(item.value).is = "num"
    BY DEF Num
  <2> HIDE DEF c
  <2> QED BY <2>1, <2>2 DEF Holds
<1> DEFINE results == [k \in DOMAIN script.conds |->
                         Holds(script.conds[k], Read(item, log, call, script.conds[k].path))]
<1>8. DOMAIN results = {1} /\ results[1] = "false"
  <2>1. c.path = path
    OBVIOUS
  <2> HIDE DEF script, c, path
  <2> QED BY <1>2, <1>6, <1>7, <2>1
<1>9. Outcome(script, results) = "false"
  <2> DEFINE ends == {k \in DOMAIN results : results[k] # "true"}
  <2>1. GoesOn(script) = "true"
    BY DEF GoesOn
  <2>2. ends = {1}
    <3> HIDE DEF results
    <3> QED BY <1>8
  <2> HIDE DEF script, results, ends
  <2>3. ends \subseteq Nat /\ ends # {}
    BY <2>2
  <2>4. Outcome(script, results) = results[Min(ends)]
    BY <2>1, <2>3 DEF Outcome, ends
  <2>5. Min(ends) = 1
    BY <2>2, <2>3, LeastNatural DEF Min
  <2> QED BY <1>8, <2>4, <2>5
<1> HIDE DEF script
<1> QED BY <1>1, <1>5, <1>9 DEF RunScript

\* What the monitor that is left alone keeps.
LEMMA AloneFacts ==
    ASSUME NEW monitors, NEW i, monitors \in Seq(ToSet(monitors)), i \in DOMAIN monitors
    PROVE  /\ DOMAIN Alone(monitors, i) = DOMAIN monitors
           /\ Len(Alone(monitors, i)) = Len(monitors)
           /\ Alone(monitors, i) \in Seq(ToSet(Alone(monitors, i)))
           /\ Alone(monitors, i)[i] = monitors[i]
           /\ \A j \in DOMAIN monitors : j # i => Alone(monitors, i)[j] = Silenced(monitors[j])
           /\ CanDecode(Alone(monitors, i)) <=> CanDecode(monitors)
           /\ \A item : DecodeFunctionInput(Alone(monitors, i), item) =
                           DecodeFunctionInput(monitors, item)
           /\ MatchOf(Alone(monitors, i)) = MatchOf(monitors)
<1> DEFINE ms == Alone(monitors, i)
           n == Len(monitors)
<1>1. DOMAIN monitors = 1..n /\ n \in Nat
  OBVIOUS
<1>2. /\ DOMAIN ms = DOMAIN monitors /\ ms[i] = monitors[i]
      /\ \A j \in DOMAIN monitors : j # i => ms[j] = Silenced(monitors[j])
  BY DEF Alone
<1>3. ms \in [1..n -> ToSet(ms)]
  BY <1>1 DEF Alone, ToSet
<1> HIDE DEF ms, n
<1>4. ms \in Seq(ToSet(ms)) /\ Len(ms) = n
  BY <1>1, <1>3
<1>5. \A j \in DOMAIN monitors : ms[j].abi = monitors[j].abi
  <2>1. \A m : Silenced(m).abi = m.abi
    BY DEF Silenced
  <2> SUFFICES ASSUME NEW j \in DOMAIN monitors PROVE ms[j].abi = monitors[j].abi
    OBVIOUS
  <2>2. CASE j = i
    BY <1>2, <2>2
  <2>3. CASE j # i
    BY <1>2, <2>1, <2>3
  <2> QED BY <2>2, <2>3
<1>6. CanDecode(ms) <=> CanDecode(monitors)
  BY <1>2, <1>5 DEF CanDecode
<1>7. \A item : DecodeFunctionInput(ms, item) = DecodeFunctionInput(monitors, item)
  BY <1>6 DEF DecodeFunctionInput
<1>8. MatchOf(ms) = MatchOf(monitors)
  BY <1>2 DEF MatchOf
<1> QED BY <1>2, <1>4, <1>6, <1>7, <1>8 DEF ms, n

----------------------------------------------------------------------------
\* What one run of a script makes of the context.

ScriptCall(monitors, item, i) ==
    IF CallAware(monitors[i]) THEN DecodeFunctionInput(monitors, item) ELSE NoCall

ScriptResult(monitors, item, i, log) ==
    RunScript(monitors[i].script, item.tx, log, ScriptCall(monitors, item, i))

\* The match it makes, if the call is there or not.
MatchMade(monitors, item, i, log, decoded) ==
    [monitor |-> i, item |-> item.tx, log |-> log,
     call |-> IF decoded THEN DecodeFunctionInput(monitors, item) ELSE NoCall]

Stepped(monitors, item, i, log, ctx, e) ==
    /\ e \in Contexts(monitors)
    /\ ctx.failed => e = ctx
    /\ ~ctx.failed =>
         /\ e.failed <=> ScriptResult(monitors, item, i, log) = "error"
         /\ e.decoded <=> (ctx.decoded \/ CallAware(monitors[i]))
         /\ ScriptResult(monitors, item, i, log) # "true" =>
               e.matches = ctx.matches /\ e.matched = ctx.matched
         /\ ScriptResult(monitors, item, i, log) = "true" =>
               /\ e.matches = Append(ctx.matches, MatchMade(monitors, item, i, log, e.decoded))
               /\ MatchMade(monitors, item, i, log, e.decoded) \in MatchOf(monitors)
               /\ e.matched = IF log = NoLog THEN ctx.matched ELSE ctx.matched \cup {i}

LEMMA ScriptStep ==
    ASSUME NEW monitors, NEW item, NEW i, NEW log, NEW ctx, NEW e,
           item \in Items, i \in DOMAIN monitors, i \in Nat, ctx \in Contexts(monitors),
           log \in ToSet(item.logs) \cup {NoLog},
           e = EvaluateScript(ctx, monitors, item, i, log)
    PROVE  Stepped(monitors, item, i, log, ctx, e)
<1> DEFINE aware == CallAware(monitors[i])
           result == ScriptResult(monitors, item, i, log)
           next == [ctx EXCEPT !.decoded = @ \/ aware]
           match == [monitor |-> i, item |-> item.tx, log |-> log,
                     call |-> CallJson(next, monitors, item)]
           new == [next EXCEPT !.matches = Append(@, match),
                               !.matched = IF log = NoLog THEN @ ELSE @ \cup {i}]
<1>1. e \in Contexts(monitors)
  BY EvaluateScriptTyped
<1>2. aware \in BOOLEAN
  BY DEF CallAware, Accesses
<1>3. e = CASE ctx.failed -> ctx
            [] ~ctx.failed /\ result = "error" -> [next EXCEPT !.failed = TRUE]
            [] ~ctx.failed /\ result = "true" -> CreateMatches(next, monitors, item, i, log)
            [] OTHER -> next
  BY DEF EvaluateScript, ScriptResult, ScriptCall
<1>4. CreateMatches(next, monitors, item, i, log) = new
  BY DEF CreateMatches
<1> HIDE DEF aware, result, match
<1>5. ctx.failed \in BOOLEAN /\ ctx.decoded \in BOOLEAN
  BY DEF Contexts
<1> DEFINE b == ctx.decoded \/ aware
           app == Append(ctx.matches, match)
           all == IF log = NoLog THEN ctx.matched ELSE ctx.matched \cup {i}
<1>6. /\ next.failed = ctx.failed /\ next.matches = ctx.matches /\ next.matched = ctx.matched
      /\ next.decoded = b
  BY DEF Contexts
<1>7. LET f == [next EXCEPT !.failed = TRUE]
      IN  /\ f.failed = TRUE /\ f.matches = ctx.matches /\ f.matched = ctx.matched
          /\ f.decoded = b
  BY DEF Contexts
<1>8. new.failed = ctx.failed /\ new.matches = app /\ new.matched = all /\ new.decoded = b
  BY DEF Contexts
<1> HIDE DEF next, new, app, all
<1>9. ctx.failed => e = ctx
  BY <1>3
<1>10. ASSUME ~ctx.failed, result = "error"
       PROVE  e.failed /\ (e.decoded <=> b) /\ e.matches = ctx.matches /\ e.matched = ctx.matched
  <2>1. e = [next EXCEPT !.failed = TRUE]
    BY <1>3, <1>10
  <2> QED BY <1>7, <2>1
<1>11. ASSUME ~ctx.failed, result = "true"
       PROVE  ~e.failed /\ (e.decoded <=> b) /\ e.matches = app /\ e.matched = all
  <2>1. e = new
    BY <1>3, <1>4, <1>11
  <2> QED BY <1>8, <1>11, <2>1
<1>12. ASSUME ~ctx.failed, result # "true", result # "error"
       PROVE  ~e.failed /\ (e.decoded <=> b) /\ e.matches = ctx.matches /\ e.matched = ctx.matched
  <2>1. e = next
    BY <1>3, <1>12
  <2> QED BY <1>6, <1>12, <2>1
<1>13. (e.decoded <=> b) => match = MatchMade(monitors, item, i, log, e.decoded)
  BY <1>6 DEF match, MatchMade, CallJson
<1>14. ASSUME ~ctx.failed, result = "true" PROVE match \in MatchOf(monitors)
  <2> DEFINE s == ctx.matches
             M == MatchOf(monitors)
  <2>1. s \in Seq(M) /\ Append(s, match) \in Seq(M)
    <3>1. e.matches \in Seq(M) /\ e.matches = app
      BY <1>1, <1>11, <1>14 DEF Contexts
    <3> QED BY <3>1 DEF Contexts, app
  <2> HIDE DEF s, M
  <2>2. Append(s, match)[Len(s) + 1] = match /\ Len(s) + 1 \in DOMAIN Append(s, match)
    BY <2>1
  <2>3. match \in M
    BY <2>1, <2>2
  <2> QED BY <2>3 DEF M
<1> QED BY <1>1, <1>9, <1>10, <1>11, <1>12, <1>13, <1>14 DEF aware, result, app, all, Stepped

----------------------------------------------------------------------------
\* The simulation: the context c of the evaluation of all monitors and the
\* context d of the one with monitor i alone.

OtherCalls(monitors, i) == \E j \in DOMAIN monitors \ {i} : CallAware(monitors[j])

Agrees(monitors, i, c, d) ==
    /\ ~d.failed
    /\ i \in c.matched <=> i \in d.matched
    /\ d.decoded => c.decoded
    /\ c.decoded /\ ~d.decoded => OtherCalls(monitors, i)
    /\ SameMatches(monitors, i, c.matches, d.matches)

Agreeing(monitors, i) ==
    {p \in Contexts(monitors) \X Contexts(monitors) : p[1].failed \/ Agrees(monitors, i, p[1], p[2])}

LEMMA AgreeingPair ==
    ASSUME NEW monitors, NEW i, NEW c, NEW d
    PROVE  <<c, d>> \in Agreeing(monitors, i) <=>
               /\ c \in Contexts(monitors) /\ d \in Contexts(monitors)
               /\ c.failed \/ Agrees(monitors, i, c, d)
<1> DEFINE T == Contexts(monitors)
           A(p) == p[1].failed \/ Agrees(monitors, i, p[1], p[2])
           q == <<c, d>>
<1>1. q[1] = c /\ q[2] = d /\ (q \in T \X T <=> c \in T /\ d \in T)
  OBVIOUS
<1>2. q \in Agreeing(monitors, i) <=> q \in T \X T /\ A(q)
  BY DEF Agreeing
<1>3. A(q) <=> c.failed \/ Agrees(monitors, i, c, d)
  BY <1>1
<1> QED BY <1>1, <1>2, <1>3

\* A fresh context agrees with itself.
LEMMA FreshAgrees ==
    ASSUME NEW monitors, NEW i
    PROVE  <<FreshContext, FreshContext>> \in Agreeing(monitors, i)
<1> DEFINE f == FreshContext
<1>1. f \in Contexts(monitors)
  <2>1. <<>> \in Seq(MatchOf(monitors)) /\ {} \in SUBSET Nat
    OBVIOUS
  <2> QED BY <2>1 DEF FreshContext, Contexts
<1>2. ~f.failed /\ ~f.decoded /\ f.matches = <<>>
  BY DEF FreshContext
<1>3. SameMatches(monitors, i, <<>>, <<>>)
  <2> DEFINE at == <<>>
             none == <<>>
  <2>1. DOMAIN none = {} /\ at \in [DOMAIN none -> DOMAIN none]
    OBVIOUS
  <2> HIDE DEF at, none
  <2>2. SameMatches(monitors, i, none, none)
    BY <2>1 DEF SameMatches
  <2> QED BY <2>2 DEF none
<1> HIDE DEF f
<1>4. Agrees(monitors, i, f, f)
  BY <1>2, <1>3 DEF Agrees
<1>5. <<f, f>> \in Agreeing(monitors, i)
  BY <1>1, <1>4, AgreeingPair
<1> QED BY <1>5 DEF f

\* A run of another monitor's script.
LEMMA OtherScriptAgrees ==
    ASSUME NEW monitors, NEW item, NEW i, NEW j, NEW log, NEW c, NEW d,
           item \in Items, j \in DOMAIN monitors, j \in Nat, j # i,
           log \in ToSet(item.logs) \cup {NoLog},
           <<c, d>> \in Agreeing(monitors, i)
    PROVE  <<EvaluateScript(c, monitors, item, j, log), d>> \in Agreeing(monitors, i)
<1> DEFINE e == EvaluateScript(c, monitors, item, j, log)
           result == ScriptResult(monitors, item, j, log)
           match == MatchMade(monitors, item, j, log, e.decoded)
           M == MatchOf(monitors)
<1>1. /\ c \in Contexts(monitors) /\ d \in Contexts(monitors)
      /\ c.failed \/ Agrees(monitors, i, c, d)
  BY AgreeingPair
<1>2. /\ e \in Contexts(monitors)
      /\ c.failed => e = c
      /\ ~c.failed =>
           /\ e.failed <=> result = "error"
           /\ e.decoded <=> (c.decoded \/ CallAware(monitors[j]))
           /\ result # "true" => e.matches = c.matches /\ e.matched = c.matched
           /\ result = "true" =>
                 /\ e.matches = Append(c.matches, match)
                 /\ match \in M
                 /\ e.matched = IF log = NoLog THEN c.matched ELSE c.matched \cup {j}
  <2> HIDE DEF e
  <2>1. e = EvaluateScript(c, monitors, item, j, log)
    BY DEF e
  <2>2. Stepped(monitors, item, j, log, c, e)
    BY <1>1, <2>1, ScriptStep
  <2> QED BY <2>2 DEF Stepped
<1>3. match.monitor = j
  BY DEF MatchMade
<1> HIDE DEF e, result, match
<1>4. ASSUME ~c.failed, ~e.failed PROVE Agrees(monitors, i, e, d)
  <2>1. Agrees(monitors, i, c, d)
    BY <1>1, <1>4
  <2>2. i \in e.matched <=> i \in c.matched
    BY <1>2, <1>4
  <2>3. e.decoded /\ ~c.decoded => OtherCalls(monitors, i)
    BY <1>2, <1>4 DEF OtherCalls
  <2>4. c.decoded => e.decoded
    BY <1>2, <1>4
  <2>5. SameMatches(monitors, i, e.matches, d.matches)
    <3>1. CASE result # "true"
      BY <1>2, <1>4, <2>1, <3>1 DEF Agrees
    <3>2. CASE result = "true"
      <4> DEFINE s == c.matches
                 t == d.matches
      <4>1. s \in Seq(M) /\ t \in Seq(M) /\ match \in M /\ match.monitor # i
        BY <1>1, <1>2, <1>3, <1>4, <3>2 DEF Contexts
      <4>2. SameMatches(monitors, i, s, t)
        BY <2>1 DEF Agrees
      <4> HIDE DEF s, t, M
      <4>3. SameMatches(monitors, i, Append(s, match), t)
        BY ONLY <4>1, <4>2, OtherMatch
      <4> QED BY <1>2, <1>4, <3>2, <4>3 DEF s, t
    <3> QED BY <3>1, <3>2
  <2> QED BY <2>1, <2>2, <2>3, <2>4, <2>5 DEF Agrees
<1>5. e.failed \/ Agrees(monitors, i, e, d)
  BY <1>2, <1>4
<1>6. <<e, d>> \in Agreeing(monitors, i)
  BY <1>1, <1>2, <1>5, AgreeingPair
<1> QED BY <1>6 DEF e

\* A run of monitor i's own script on both sides.
LEMMA OwnScriptAgrees ==
    ASSUME NEW monitors, NEW item, NEW i, NEW log, NEW c, NEW d,
           monitors \in Seq(ToSet(monitors)), item \in Items, i \in DOMAIN monitors,
           log \in ToSet(item.logs) \cup {NoLog},
           <<c, d>> \in Agreeing(monitors, i)
    PROVE  <<EvaluateScript(c, monitors, item, i, log),
             EvaluateScript(d, Alone(monitors, i), item, i, log)>> \in Agreeing(monitors, i)
<1> DEFINE ms == Alone(monitors, i)
           e == EvaluateScript(c, monitors, item, i, log)
           f == EvaluateScript(d, ms, item, i, log)
           result == ScriptResult(monitors, item, i, log)
           aware == CallAware(monitors[i])
           x == MatchMade(monitors, item, i, log, e.decoded)
           y == MatchMade(monitors, item, i, log, f.decoded)
           M == MatchOf(monitors)
<1>1. /\ c \in Contexts(monitors) /\ d \in Contexts(monitors)
      /\ c.failed \/ Agrees(monitors, i, c, d)
  BY AgreeingPair
<1>2. /\ DOMAIN ms = DOMAIN monitors /\ ms[i] = monitors[i] /\ MatchOf(ms) = M
      /\ DecodeFunctionInput(ms, item) = DecodeFunctionInput(monitors, item)
  BY AloneFacts
<1>3. Contexts(ms) = Contexts(monitors) /\ i \in Nat
  BY <1>2 DEF Contexts
<1>4. ScriptResult(ms, item, i, log) = result
  BY <1>2 DEF ScriptResult, ScriptCall
<1>5. MatchMade(ms, item, i, log, f.decoded) = y
  BY <1>2 DEF MatchMade
<1>6. /\ e \in Contexts(monitors)
      /\ c.failed => e = c
      /\ ~c.failed =>
           /\ e.failed <=> result = "error"
           /\ e.decoded <=> (c.decoded \/ aware)
           /\ result # "true" => e.matches = c.matches /\ e.matched = c.matched
           /\ result = "true" =>
                 /\ e.matches = Append(c.matches, x)
                 /\ x \in M
                 /\ e.matched = IF log = NoLog THEN c.matched ELSE c.matched \cup {i}
  <2> HIDE DEF e
  <2>1. e = EvaluateScript(c, monitors, item, i, log)
    BY DEF e
  <2>2. Stepped(monitors, item, i, log, c, e)
    BY <1>1, <1>3, <2>1, ScriptStep
  <2> QED BY <2>2 DEF Stepped
<1>7. /\ f \in Contexts(monitors)
      /\ ~d.failed =>
           /\ f.failed <=> result = "error"
           /\ f.decoded <=> (d.decoded \/ aware)
           /\ result # "true" => f.matches = d.matches /\ f.matched = d.matched
           /\ result = "true" =>
                 /\ f.matches = Append(d.matches, y)
                 /\ y \in M
                 /\ f.matched = IF log = NoLog THEN d.matched ELSE d.matched \cup {i}
  <2>1. d \in Contexts(ms) /\ i \in DOMAIN ms
    BY <1>1, <1>2, <1>3
  <2> HIDE DEF ms, f
  <2>2. f = EvaluateScript(d, ms, item, i, log)
    BY DEF f
  <2>3. Stepped(ms, item, i, log, d, f)
    BY <1>3, <2>1, <2>2, ScriptStep
  <2> HIDE DEF result, y, M
  <2> QED BY <1>2, <1>3, <1>4, <1>5, <2>3 DEF Stepped
<1>8. /\ x.monitor = i
      /\ (f.decoded => e.decoded) /\ (e.decoded /\ ~f.decoded => OtherCalls(monitors, i))
            => SamePayload(monitors, i, x, y)
  <2> DEFINE p == e.decoded
             q == f.decoded
             call == DecodeFunctionInput(monitors, item)
             xc == IF p THEN call ELSE NoCall
             yc == IF q THEN call ELSE NoCall
             tx == item.tx
  <2>1. x = [monitor |-> i, item |-> tx, log |-> log, call |-> xc]
    BY DEF MatchMade
  <2>2. y = [monitor |-> i, item |-> tx, log |-> log, call |-> yc]
    BY DEF MatchMade
  <2>3. p \in BOOLEAN /\ q \in BOOLEAN
    BY <1>6, <1>7 DEF Contexts
  <2>4. (q => p) /\ xc # yc => p /\ ~q
    BY <2>3
  <2>5. p /\ ~q => yc = NoCall
    OBVIOUS
  <2> HIDE DEF p, q, xc, yc, call, tx, x, y, e, f
  <2>6. x.monitor = i /\ x.call = xc /\ y.call = yc
    BY <2>1, <2>2
  <2>7. [x EXCEPT !.call = NoCall] = [y EXCEPT !.call = NoCall]
    BY <2>1, <2>2
  <2>8. (q => p) /\ (p /\ ~q => OtherCalls(monitors, i)) => SamePayload(monitors, i, x, y)
    BY <2>4, <2>5, <2>6, <2>7 DEF SamePayload, OtherCalls
  <2> QED BY <2>6, <2>8 DEF p, q
<1> HIDE DEF e, f, result, x, y, aware, ms
<1>9. ASSUME ~c.failed, ~e.failed PROVE Agrees(monitors, i, e, f)
  <2>1. Agrees(monitors, i, c, d) /\ ~d.failed
    BY <1>1, <1>9 DEF Agrees
  <2>2. ~f.failed
    BY <1>6, <1>7, <1>9, <2>1
  <2>3. i \in e.matched <=> i \in f.matched
    BY <1>6, <1>7, <1>9, <2>1 DEF Agrees
  <2>4. (f.decoded => e.decoded) /\ (e.decoded /\ ~f.decoded => OtherCalls(monitors, i))
    BY <1>6, <1>7, <1>9, <2>1 DEF Agrees
  <2>5. SameMatches(monitors, i, e.matches, f.matches)
    <3>1. CASE result # "true"
      BY <1>6, <1>7, <1>9, <2>1, <3>1 DEF Agrees
    <3>2. CASE result = "true"
      <4> DEFINE s == c.matches
                 t == d.matches
      <4>1. s \in Seq(M) /\ t \in Seq(M) /\ x \in M /\ y \in M
        BY <1>1, <1>6, <1>7, <1>9, <2>1, <3>2 DEF Contexts
      <4>2. SameMatches(monitors, i, s, t)
        BY <2>1 DEF Agrees
      <4>3. x.monitor = i /\ SamePayload(monitors, i, x, y)
        BY <1>8, <2>4
      <4> HIDE DEF s, t, M
      <4>4. SameMatches(monitors, i, Append(s, x), Append(t, y))
        BY ONLY <4>1, <4>2, <4>3, SharedMatch
      <4> QED BY <1>6, <1>7, <1>9, <2>1, <3>2, <4>4 DEF s, t
    <3> QED BY <3>1, <3>2
  <2> QED BY <2>2, <2>3, <2>4, <2>5 DEF Agrees
<1>10. e.failed \/ Agrees(monitors, i, e, f)
  BY <1>6, <1>9
<1>11. <<e, f>> \in Agreeing(monitors, i)
  BY <1>6, <1>7, <1>10, AgreeingPair
<1> QED BY <1>11 DEF e, f, ms

\* Every run keeps the contexts typed, so that the passes unfold.
LEMMA ContextsClosed ==
    ASSUME NEW monitors, NEW item, item \in Items, monitors \in Seq(ToSet(monitors))
    PROVE  /\ item.logs \in Seq(ToSet(item.logs))
           /\ \A c \in Contexts(monitors), i \in DOMAIN monitors,
                 log \in ToSet(item.logs) \cup {NoLog} :
                   EvaluateScript(c, monitors, item, i, log) \in Contexts(monitors)
           /\ \A c \in Contexts(monitors), i \in DOMAIN monitors :
                 /\ EvaluateLogs(c, monitors, item, i) \in Contexts(monitors)
                 /\ EvaluateTx(c, monitors, item, i) \in Contexts(monitors)
<1> DEFINE T == Contexts(monitors)
<1>1. item.logs \in Seq(ToSet(item.logs))
  BY ItemAssumption
<1>2. \A c \in T, i \in DOMAIN monitors, log \in ToSet(item.logs) \cup {NoLog} :
         EvaluateScript(c, monitors, item, i, log) \in T
  <2>1. \A i \in DOMAIN monitors : i \in Nat
    OBVIOUS
  <2> QED BY <2>1, EvaluateScriptTyped
<1> HIDE DEF T
<1>3. \A c \in T, i \in DOMAIN monitors : EvaluateLogs(c, monitors, item, i) \in T
  <2> SUFFICES ASSUME NEW c \in T, NEW i \in DOMAIN monitors
               PROVE  EvaluateLogs(c, monitors, item, i) \in T
    OBVIOUS
  <2>1. \A d \in T, log \in ToSet(item.logs) : EvaluateScript(d, monitors, item, i, log) \in T
    BY <1>2
  <2> QED BY <1>1, <2>1, EvaluateLogsIn
<1>4. \A c \in T, i \in DOMAIN monitors : EvaluateTx(c, monitors, item, i) \in T
  BY <1>2 DEF EvaluateTx
<1> QED BY <1>1, <1>2, <1>3, <1>4 DEF T

\* The silenced monitors leave the context alone.
LEMMA SilencedSteps ==
    ASSUME NEW monitors, NEW item, NEW i, NEW j, NEW d,
           monitors \in Seq(ToSet(monitors)), item \in Items,
           i \in DOMAIN monitors, j \in DOMAIN monitors, j # i, d \in Contexts(monitors)
    PROVE  /\ EvaluateLogs(d, Alone(monitors, i), item, j) = d
           /\ EvaluateTx(d, Alone(monitors, i), item, j) = d
<1> DEFINE ms == Alone(monitors, i)
<1>1. ms[j] = Silenced(monitors[j])
  BY AloneFacts
<1>2. ~CallAware(ms[j]) /\ ~LogAware(ms[j])
  BY <1>1, SilencedFacts
<1>3. EvaluateLogs(d, ms, item, j) = d
  <2> HIDE DEF ms
  <2> QED BY <1>2 DEF EvaluateLogs
<1>4. EvaluateScript(d, ms, item, j, NoLog) = d
  <2> DEFINE result == RunScript(ms[j].script, item.tx, NoLog, NoCall)
             next == [d EXCEPT !.decoded = @ \/ CallAware(ms[j])]
  <2>1. result = "false"
    BY <1>1, SilencedFacts
  <2>2. next = d
    <3> DEFINE aware == CallAware(ms[j])
    <3>1. aware = FALSE
      BY <1>2 DEF CallAware, Accesses
    <3> HIDE DEF aware
    <3>2. (d.decoded \/ aware) = d.decoded
      BY <3>1 DEF Contexts
    <3>3. [d EXCEPT !.decoded = @ \/ aware] = d
      BY <3>2 DEF Contexts
    <3> QED BY <3>3 DEF aware
  <2> HIDE DEF ms
  <2>3. EvaluateScript(d, ms, item, j, NoLog) =
          CASE d.failed -> d
            [] ~d.failed /\ result = "error" -> [next EXCEPT !.failed = TRUE]
            [] ~d.failed /\ result = "true" -> CreateMatches(next, ms, item, j, NoLog)
            [] OTHER -> next
    BY <1>2 DEF EvaluateScript
  <2> HIDE DEF result, next
  <2>4. d.failed \in BOOLEAN
    BY DEF Contexts
  <2> QED BY <2>1, <2>2, <2>3, <2>4
<1>5. EvaluateTx(d, ms, item, j) = d
  <2> HIDE DEF ms
  <2> QED BY <1>4 DEF EvaluateTx
<1> QED BY <1>3, <1>5

\* The logs of an item, for another monitor ...
LEMMA OtherLogsAgree ==
    ASSUME NEW monitors, NEW item, NEW i, NEW j, NEW c, NEW d,
           monitors \in Seq(ToSet(monitors)), item \in Items,
           i \in DOMAIN monitors, j \in DOMAIN monitors, j # i,
           <<c, d>> \in Agreeing(monitors, i)
    PROVE  <<EvaluateLogs(c, monitors, item, j),
             EvaluateLogs(d, Alone(monitors, i), item, j)>> \in Agreeing(monitors, i)
<1> DEFINE T == {e \in Contexts(monitors) : <<e, d>> \in Agreeing(monitors, i)}
<1>1. c \in Contexts(monitors) /\ d \in Contexts(monitors)
  BY AgreeingPair
<1>2. item.logs \in Seq(ToSet(item.logs))
  BY ContextsClosed
<1>3. \A e \in T, log \in ToSet(item.logs) : EvaluateScript(e, monitors, item, j, log) \in T
  <2> SUFFICES ASSUME NEW e \in T, NEW log \in ToSet(item.logs)
               PROVE  EvaluateScript(e, monitors, item, j, log) \in T
    OBVIOUS
  <2>1. <<e, d>> \in Agreeing(monitors, i) /\ j \in Nat
    OBVIOUS
  <2>2. <<EvaluateScript(e, monitors, item, j, log), d>> \in Agreeing(monitors, i)
    BY <2>1, OtherScriptAgrees
  <2>3. EvaluateScript(e, monitors, item, j, log) \in Contexts(monitors)
    BY ContextsClosed
  <2> QED BY <2>2, <2>3
<1>4. c \in T
  BY <1>1
<1> HIDE DEF T
<1>5. EvaluateLogs(c, monitors, item, j) \in T
  BY ONLY <1>2, <1>3, <1>4, EvaluateLogsIn
<1>6. EvaluateLogs(d, Alone(monitors, i), item, j) = d
  BY <1>1, SilencedSteps
<1> QED BY <1>5, <1>6 DEF T

\* ... and for monitor i itself.
LEMMA OwnLogsAgree ==
    ASSUME NEW monitors, NEW item, NEW i, NEW c, NEW d,
           monitors \in Seq(ToSet(monitors)), item \in Items, i \in DOMAIN monitors,
           <<c, d>> \in Agreeing(monitors, i)
    PROVE  <<EvaluateLogs(c, monitors, item, i),
             EvaluateLogs(d, Alone(monitors, i), item, i)>> \in Agreeing(monitors, i)
<1> DEFINE ms == Alone(monitors, i)
           n == Len(item.logs)
           R == Agreeing(monitors, i)
           T == Contexts(monitors)
<1>1. c \in T /\ d \in T
  BY AgreeingPair
<1>2. /\ DOMAIN ms = DOMAIN monitors /\ ms[i] = monitors[i] /\ ms \in Seq(ToSet(ms))
      /\ CanDecode(ms) <=> CanDecode(monitors)
  BY AloneFacts
<1>3. Contexts(ms) = T
  <2>1. MatchOf(ms) = MatchOf(monitors)
    BY AloneFacts
  <2> QED BY <2>1 DEF Contexts
<1>4. /\ n \in Nat /\ item.logs \in Seq(ToSet(item.logs))
      /\ \A k \in 1..n : item.logs[k] \in ToSet(item.logs)
  <2>1. item.logs \in Seq(ToSet(item.logs))
    BY ContextsClosed
  <2> QED BY <2>1
<1> HIDE DEF ms, n, T
<1>5. \A e \in T, log \in ToSet(item.logs) : EvaluateScript(e, monitors, item, i, log) \in T
  BY ContextsClosed DEF T
<1>6. \A e \in T, log \in ToSet(item.logs) : EvaluateScript(e, ms, item, i, log) \in T
  BY <1>2, <1>3, ContextsClosed
<1>7. PICK f : LogSteps(f, c, monitors, item, i)
  BY <1>1, <1>4, <1>5, EvaluateLogsSteps
<1>8. PICK g : LogSteps(g, d, ms, item, i)
  BY <1>1, <1>4, <1>6, EvaluateLogsSteps
<1>9. <<f[0], g[0]>> \in R
  BY <1>7, <1>8 DEF LogSteps
<1>10. ASSUME NEW k \in 1..n, <<f[k - 1], g[k - 1]>> \in R PROVE <<f[k], g[k]>> \in R
  <2> DEFINE names == EventNames(monitors[i].script)
             log == item.logs[k]
  <2>1. CASE names # {} /\ log.name \notin names
    <3>1. f[k] = f[k - 1] /\ g[k] = g[k - 1]
      BY <1>2, <1>7, <1>8, <2>1 DEF LogSteps, n
    <3> QED BY <1>10, <3>1
  <2>2. CASE ~ (names # {} /\ log.name \notin names)
    <3>1. /\ f[k] = EvaluateScript(f[k - 1], monitors, item, i, log)
          /\ g[k] = EvaluateScript(g[k - 1], ms, item, i, log)
      BY <1>2, <1>7, <1>8, <2>2 DEF LogSteps, n
    <3> DEFINE a == f[k - 1]
               b == g[k - 1]
    <3>2. <<a, b>> \in Agreeing(monitors, i) /\ log \in ToSet(item.logs) \cup {NoLog}
      BY <1>4, <1>10
    <3> HIDE DEF a, b, log
    <3>3. <<EvaluateScript(a, monitors, item, i, log),
            EvaluateScript(b, Alone(monitors, i), item, i, log)>> \in Agreeing(monitors, i)
      BY <3>2, OwnScriptAgrees
    <3> QED BY <3>1, <3>3 DEF a, b, ms
  <2> QED BY <2>1, <2>2
<1> HIDE DEF R
<1>11. <<f[n], g[n]>> \in R
  BY ONLY <1>4, <1>9, <1>10, PairStays
<1>12. CASE LogAware(monitors[i]) /\ CanDecode(monitors)
  <2>1. EvaluateLogs(c, monitors, item, i) = f[n] /\ EvaluateLogs(d, ms, item, i) = g[n]
    BY <1>2, <1>7, <1>8, <1>12 DEF LogSteps, n
  <2> QED BY <1>11, <2>1 DEF R, ms
<1>13. CASE ~ (LogAware(monitors[i]) /\ CanDecode(monitors))
  <2>1. EvaluateLogs(c, monitors, item, i) = c /\ EvaluateLogs(d, ms, item, i) = d
    BY <1>2, <1>7, <1>8, <1>13 DEF LogSteps, n
  <2> QED BY <2>1 DEF ms
<1> QED BY <1>12, <1>13

\* The transaction of an item, for each monitor.
LEMMA TxAgrees ==
    ASSUME NEW monitors, NEW item, NEW i, NEW j, NEW c, NEW d,
           monitors \in Seq(ToSet(monitors)), item \in Items,
           i \in DOMAIN monitors, j \in DOMAIN monitors,
           <<c, d>> \in Agreeing(monitors, i)
    PROVE  <<EvaluateTx(c, monitors, item, j),
             EvaluateTx(d, Alone(monitors, i), item, j)>> \in Agreeing(monitors, i)
<1> DEFINE ms == Alone(monitors, i)
<1>1. /\ c \in Contexts(monitors) /\ d \in Contexts(monitors) /\ j \in Nat
      /\ c.failed \/ Agrees(monitors, i, c, d)
  BY AgreeingPair
<1>2. CASE j # i
  <2>1. EvaluateTx(d, ms, item, j) = d
    BY <1>1, <1>2, SilencedSteps
  <2>2. <<EvaluateScript(c, monitors, item, j, NoLog), d>> \in Agreeing(monitors, i)
    BY <1>1, <1>2, OtherScriptAgrees
  <2>3. EvaluateTx(c, monitors, item, j) \in {c, EvaluateScript(c, monitors, item, j, NoLog)}
    BY DEF EvaluateTx
  <2> QED BY <2>1, <2>2, <2>3
<1>3. CASE j = i
  <2>1. ms[i] = monitors[i] /\ DOMAIN ms = DOMAIN monitors /\ ms \in Seq(ToSet(ms))
    BY AloneFacts
  <2> DEFINE e == EvaluateTx(c, monitors, item, i)
             f == EvaluateTx(d, ms, item, i)
  <2>2. <<EvaluateScript(c, monitors, item, i, NoLog),
          EvaluateScript(d, ms, item, i, NoLog)>> \in Agreeing(monitors, i)
    BY OwnScriptAgrees
  <2>3. CASE c.failed
    <3>1. e = c
      <4>1. EvaluateScript(c, monitors, item, i, NoLog) = c
        BY <2>3 DEF EvaluateScript
      <4> QED BY <4>1 DEF EvaluateTx
    <3>2. f \in Contexts(monitors)
      <4>1. MatchOf(ms) = MatchOf(monitors)
        BY AloneFacts
      <4>2. Contexts(ms) = Contexts(monitors)
        BY <4>1 DEF Contexts
      <4> HIDE DEF ms
      <4> QED BY <1>1, <2>1, <4>2, ContextsClosed
    <3> HIDE DEF e, f
    <3>3. <<e, f>> \in Agreeing(monitors, i)
      BY <1>1, <2>3, <3>1, <3>2, AgreeingPair
    <3> QED BY <1>3, <3>3 DEF e, f
  <2>4. CASE ~c.failed
    <3>1. HasMatched(c, i) <=> HasMatched(d, i)
      BY <1>1, <2>4 DEF Agrees, HasMatched
    <3>2. CASE ~TxAware(monitors[i]) \/ HasMatched(c, i)
      <4> HIDE DEF ms
      <4>1. e = c /\ f = d
        BY <2>1, <3>1, <3>2 DEF EvaluateTx
      <4> QED BY <1>3, <4>1 DEF ms
    <3>3. CASE ~ (~TxAware(monitors[i]) \/ HasMatched(c, i))
      <4> HIDE DEF ms
      <4>1. /\ e = EvaluateScript(c, monitors, item, i, NoLog)
            /\ f = EvaluateScript(d, ms, item, i, NoLog)
        BY <2>1, <3>1, <3>3 DEF EvaluateTx
      <4> QED BY <1>3, <2>2, <4>1 DEF ms
    <3> QED BY <3>2, <3>3
  <2> QED BY <2>3, <2>4
<1> QED BY <1>2, <1>3

\* evaluate_item with all monitors and with monitor i alone end in contexts
\* that agree.
LEMMA ItemAgrees ==
    ASSUME NEW monitors, NEW item, NEW i,
           monitors \in Seq(ToSet(monitors)), item \in Items, i \in DOMAIN monitors
    PROVE  <<EvaluateItem(monitors, item), EvaluateItem(Alone(monitors, i), item)>>
              \in Agreeing(monitors, i)
<1> DEFINE ms == Alone(monitors, i)
           n == Len(monitors)
           R == Agreeing(monitors, i)
           T == Contexts(monitors)
           c0 == LogPass(FreshContext, monitors, item)
           d0 == LogPass(FreshContext, ms, item)
<1>1. /\ DOMAIN monitors = 1..n /\ n \in Nat /\ DOMAIN ms = DOMAIN monitors /\ Len(ms) = n
      /\ ms \in Seq(ToSet(ms))
  BY AloneFacts
<1>2. Contexts(ms) = T
  <2>1. MatchOf(ms) = MatchOf(monitors)
    BY AloneFacts
  <2> QED BY <2>1 DEF Contexts
<1>3. <<FreshContext, FreshContext>> \in R
  BY FreshAgrees
<1>4. FreshContext \in T
  BY <1>3, AgreeingPair
<1>5. \A c, d : <<c, d>> \in R => c \in T /\ d \in T
  BY AgreeingPair
<1>6. ASSUME NEW c, NEW d, NEW j \in 1..n, <<c, d>> \in R
      PROVE  /\ <<EvaluateLogs(c, monitors, item, j), EvaluateLogs(d, ms, item, j)>> \in R
             /\ <<EvaluateTx(c, monitors, item, j), EvaluateTx(d, ms, item, j)>> \in R
  <2>1. <<EvaluateTx(c, monitors, item, j), EvaluateTx(d, ms, item, j)>> \in R
    BY <1>1, <1>6, TxAgrees
  <2>2. CASE j = i
    BY <1>6, <2>1, <2>2, OwnLogsAgree
  <2>3. CASE j # i
    BY <1>1, <1>6, <2>1, <2>3, OtherLogsAgree
  <2> QED BY <2>2, <2>3
<1> HIDE DEF ms, n, T, R
<1>7. /\ \A c \in T, j \in DOMAIN monitors : EvaluateLogs(c, monitors, item, j) \in T
      /\ \A c \in T, j \in DOMAIN monitors : EvaluateTx(c, monitors, item, j) \in T
  BY ContextsClosed DEF T
<1>8. /\ \A c \in T, j \in DOMAIN ms : EvaluateLogs(c, ms, item, j) \in T
      /\ \A c \in T, j \in DOMAIN ms : EvaluateTx(c, ms, item, j) \in T
  BY <1>1, <1>2, ContextsClosed
<1>9. <<c0, d0>> \in R
  <2>1. PICK f : LogPassSteps(f, FreshContext, monitors, item)
    BY <1>4, <1>7, LogPassUnfolds
  <2>2. PICK g : LogPassSteps(g, FreshContext, ms, item)
    BY <1>1, <1>4, <1>8, LogPassUnfolds
  <2>3. <<f[0], g[0]>> \in R
    BY <1>3, <2>1, <2>2 DEF LogPassSteps
  <2>4. ASSUME NEW k \in 1..n, <<f[k - 1], g[k - 1]>> \in R PROVE <<f[k], g[k]>> \in R
    <3>1. /\ f[k] = EvaluateLogs(f[k - 1], monitors, item, k)
          /\ g[k] = EvaluateLogs(g[k - 1], ms, item, k)
      BY <1>1, <2>1, <2>2 DEF LogPassSteps, n
    <3> QED BY <1>6, <2>4, <3>1
  <2>5. <<f[n], g[n]>> \in R
    BY ONLY <1>1, <2>3, <2>4, PairStays
  <2> QED BY <1>1, <2>1, <2>2, <2>5 DEF LogPassSteps, n
<1> HIDE DEF c0, d0
<1>10. c0 \in T /\ d0 \in T
  BY <1>5, <1>9
<1>11. <<TxPass(c0, monitors, item), TxPass(d0, ms, item)>> \in R
  <2>1. PICK f : TxPassSteps(f, c0, monitors, item)
    BY <1>7, <1>10, TxPassUnfolds
  <2>2. PICK g : TxPassSteps(g, d0, ms, item)
    BY <1>1, <1>8, <1>10, TxPassUnfolds
  <2>3. <<f[0], g[0]>> \in R
    BY <1>9, <2>1, <2>2 DEF TxPassSteps
  <2>4. ASSUME NEW k \in 1..n, <<f[k - 1], g[k - 1]>> \in R PROVE <<f[k], g[k]>> \in R
    <3>1. /\ f[k] = EvaluateTx(f[k - 1], monitors, item, k)
          /\ g[k] = EvaluateTx(g[k - 1], ms, item, k)
      BY <1>1, <2>1, <2>2 DEF TxPassSteps, n
    <3> QED BY <1>6, <2>4, <3>1
  <2>5. <<f[n], g[n]>> \in R
    BY ONLY <1>1, <2>3, <2>4, PairStays
  <2> QED BY <1>1, <2>1, <2>2, <2>5 DEF TxPassSteps, n
<1> QED BY <1>11 DEF EvaluateItem, c0, d0, R, ms

\* The caches of EvaluationContext (decoded_call_cache, the set of monitors that
\* matched on a log) do not leak between the monitors of an item: for every list
\* of monitors, scripts and ABIs, and every item, a monitor finds the matches it
\* would find alone, in the same order and with the same data, but for a call
\* that was decoded for another monitor.
THEOREM MonitorsAreIndependent == Spec => []PayloadsIndependent
<1>1. Init => IInv
  BY InitIInv
<1>2. IInv /\ [Next]_vars => IInv'
  BY NextIInv
<1>3. IInv => PayloadsIndependent
  <2> SUFFICES ASSUME IInv, NEW item \in evaluated, NEW i \in DOMAIN setup.monitors
               PROVE  LET all == EvaluateItem(setup.monitors, item)
                          alone == EvaluateItem(Alone(setup.monitors, i), item)
                      IN  ~all.failed =>
                            /\ ~alone.failed
                            /\ SameMatches(setup.monitors, i, all.matches, alone.matches)
    BY DEF PayloadsIndependent
  <2> DEFINE ms == setup.monitors
             all == EvaluateItem(ms, item)
             alone == EvaluateItem(Alone(ms, i), item)
  <2>1. item \in Items /\ setup \in Setups
    BY DEF IInv, TypeOK
  <2>2. ms \in Seq(ToSet(ms)) /\ i \in DOMAIN ms
    BY <2>1, SetupAssumption
  <2> HIDE DEF ms
  <2>3. <<all, alone>> \in Agreeing(ms, i)
    BY <2>1, <2>2, ItemAgrees
  <2> HIDE DEF all, alone
  <2>4. all.failed \/ Agrees(ms, i, all, alone)
    BY <2>3, AgreeingPair
  <2> QED BY <2>4 DEF Agrees, all, alone, ms
<1> QED BY <1>1, <1>2, <1>3, PTL DEF Spec
============================================================================
