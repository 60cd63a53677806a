------------------------------ MODULE Delivery ------------------------------
(***************************************************************************)
(* From a block item to the receiver of an alert: evaluate_item with the   *)
(* caches of its EvaluationContext, the matches it makes, the rows of the  *)
(* outbox, and the dispatcher that renders and sends them.                 *)
(*                                                                         *)
(* What happens to matches and rows in between is the subject of           *)
(* AlertManager and Outbox; here a match becomes a row at once or when its *)
(* window is closed, and a row that was executed is deleted.               *)
(*                                                                         *)
(* A setup is what the validator let in: the actions by name and the       *)
(* monitors, in order, each of which names all the actions.                *)
(***************************************************************************)
EXTENDS Templates

CONSTANTS
    Setups,     \* candidates: [actions, monitors]
    Items,      \* [tx, logs, call]: what the block processor hands over
    MaxItems,   \* bound on the items evaluated
    MaxStops    \* bound on stops, crashes and failed starts

ASSUME DeliveryAssumption == MaxItems \in Nat /\ MaxStops \in Nat

VARIABLES
    setup,      \* the configuration, chosen at the start
    phase,      \* "down", "up" or "draining"
    actions,    \* the names the dispatcher has an implementation for
    evaluated,  \* the items evaluated so far
    windows,    \* the matches collected for an aggregation, by action
    queue,      \* every row that was enqueued
    pending,    \* the rows of the outbox, by their place in queue
    buffer,     \* published rows the broker has not received
    received,   \* rows the receiver has
    killed,     \* rows lost with the buffer of a process that went down
    stops

vars == <<setup, phase, actions, evaluated, windows, queue, pending, buffer, received, killed,
          stops>>

\* A Kafka producer may be configured with acks: "0".
Publishers == {"kafka", "kafka_acks0", "nats", "rabbitmq"}

\* Clients that hand a message on and do not wait for the broker.
Unconfirmed == {"kafka_acks0", "nats", "rabbitmq"}

\* as_webhook_components: these differ in URL and payload only.
Webhooks == {"webhook", "discord", "slack", "telegram"}

\* What the configuration hands over: lists are lists, every action has a
\* type, a webhook has a message and an aggregation a template.
ASSUME SetupAssumption ==
    \A s \in Setups :
        /\ s.monitors \in Seq(ToSet(s.monitors))
        /\ \A i \in DOMAIN s.monitors :
              LET conds == s.monitors[i].script.conds IN conds \in Seq(ToSet(conds))
        /\ IsFiniteSet(DOMAIN s.actions)
        /\ \A a \in DOMAIN s.actions :
              LET action == s.actions[a]
              IN  /\ action.type \in Publishers \cup Webhooks \cup {"stdout"}
                  /\ action.type \in Webhooks => action.message.at \in Places
                  /\ action.type \in Webhooks /\ action.policy = "aggregation" =>
                        action.template.at \in Places
                  /\ action.message.at \in Places \cup {"none"}
                  /\ \A t \in {action.message, action.template} :
                        t.at = "all" => t.filter = "sum"

\* What the block processor hands over.  Amounts may be beyond Decimal; a
\* nonce and an index, which are u64, never are.
ASSUME ItemAssumption ==
    \A item \in Items :
        /\ item.tx.value \in Nat /\ item.tx.nonce \in 0..MaxDecimal
        /\ item.logs \in Seq(ToSet(item.logs))
        /\ \A log \in ToSet(item.logs) :
              log.index \in 0..MaxDecimal /\ \A p \in DOMAIN log.params : log.params[p].n \in Nat
        /\ \A p \in DOMAIN item.call.params : item.call.params[p].n \in Nat

----------------------------------------------------------------------------
(* RhaiFilteringEngine::evaluate_item *)

LogAware(m) == Accesses(m.script, "log")
CallAware(m) == Accesses(m.script, "decoded_call")
TxAware(m) == Accesses(m.script, "tx") \/ CallAware(m) \/ ~LogAware(m)

\* An ABI that one monitor brings in decodes for all of them.
CanDecode(monitors) == \E i \in DOMAIN monitors : monitors[i].abi

DecodeFunctionInput(monitors, item) == IF CanDecode(monitors) THEN item.call ELSE NoCall

\* EvaluationContext: whether decoded_call_cache is filled, what matched.
FreshContext == [matches |-> <<>>, matched |-> {}, decoded |-> FALSE, failed |-> FALSE]

\* get_decoded_call_json: the cache is not filled here.
CallJson(ctx, monitors, item) ==
    IF ctx.decoded THEN DecodeFunctionInput(monitors, item) ELSE NoCall

\* create_log_matches and create_tx_matches.
CreateMatches(ctx, monitors, item, i, log) ==
    LET match == [monitor |-> i, item |-> item.tx, log |-> log, call |-> CallJson(ctx, monitors, item)]
    IN  [ctx EXCEPT !.matches = Append(@, match),
                    !.matched = IF log = NoLog THEN @ ELSE @ \cup {i}]

\* One run of a monitor's script.
EvaluateScript(ctx, monitors, item, i, log) ==
    LET m == monitors[i]
        call == IF CallAware(m) THEN DecodeFunctionInput(monitors, item) ELSE NoCall
        next == [ctx EXCEPT !.decoded = @ \/ CallAware(m)]
        result == RunScript(m.script, item.tx, log, call)
    IN  CASE ctx.failed -> ctx
          [] ~ctx.failed /\ result = "error" -> [next EXCEPT !.failed = TRUE]
          [] ~ctx.failed /\ result = "true" -> CreateMatches(next, monitors, item, i, log)
          [] OTHER -> next

\* Mutant: the set of matched monitors is asked whether it has any member.
HasMatchedAny(ctx, i) == ctx.matched # {}

HasMatched(ctx, i) == i \in ctx.matched

\* evaluate_log_aware_monitors, for one monitor: its script runs on the logs
\* in order, without those the names compared with log.name pre-filter.
EvaluateLogs(ctx, monitors, item, i) ==
    LET names == EventNames(monitors[i].script)
        upto[n \in 0..Len(item.logs)] ==
            IF n = 0 THEN ctx
            ELSE IF names # {} /\ item.logs[n].name \notin names THEN upto[n - 1]
            ELSE EvaluateScript(upto[n - 1], monitors, item, i, item.logs[n])
    IN  IF LogAware(monitors[i]) /\ CanDecode(monitors) THEN upto[Len(item.logs)] ELSE ctx

LogPass(ctx, monitors, item) ==
    LET upto[n \in 0..Len(monitors)] ==
            IF n = 0 THEN ctx ELSE EvaluateLogs(upto[n - 1], monitors, item, n)
    IN  upto[Len(monitors)]

\* evaluate_tx_aware_monitors.
EvaluateTx(ctx, monitors, item, i) ==
    IF ~TxAware(monitors[i]) \/ HasMatched(ctx, i) THEN ctx
    ELSE EvaluateScript(ctx, monitors, item, i, NoLog)

TxPass(ctx, monitors, item) ==
    LET upto[n \in 0..Len(monitors)] ==
            IF n = 0 THEN ctx ELSE EvaluateTx(upto[n - 1], monitors, item, n)
    IN  upto[Len(monitors)]

EvaluateItem(monitors, item) == TxPass(LogPass(FreshContext, monitors, item), monitors, item)

----------------------------------------------------------------------------
(* ActionDispatcher::execute *)

\* The template a webhook renders for a row; the others know one message.
TemplateFor(a, row) ==
    IF a.type \in Webhooks /\ row.kind = "aggregated" THEN a.template ELSE a.message

\* A stdout action without message prints the context itself.
RenderStdout(a, row) == IF a.message.at = "none" THEN "ok" ELSE Render(a.message, Context(row))

RenderWebhook(a, row) == Render(TemplateFor(a, row), Context(row))

\* Publishers send the context itself.
Rendered(a, row) ==
    CASE a.type \in Publishers -> "ok"
      [] a.type = "stdout" -> RenderStdout(a, row)
      [] a.type \in Webhooks -> RenderWebhook(a, row)

\* Mutant: an action the dispatcher does not have counts as executed.
AttemptKnown(row) ==
    LET a == setup.actions[row.action]
    IN  IF row.action \notin actions \/ (a.type \in Publishers /\ row.kind = "aggregated")
        THEN "skipped" ELSE Rendered(a, row)

\* What execute does up to the request: an unknown action and a template that
\* does not render are errors, and a publisher skips an aggregation.
Attempt(row) ==
    LET a == setup.actions[row.action]
    IN  CASE row.action \notin actions -> "error"
          [] row.action \in actions /\ a.type \in Publishers /\ row.kind = "aggregated" -> "skipped"
          [] OTHER -> Rendered(a, row)

----------------------------------------------------------------------------
NoWindows(s) == [a \in DOMAIN s.actions |-> <<>>]

Accepted(s) ==
    \A i \in DOMAIN s.monitors :
        /\ ScriptValid(s.monitors[i].script, s.monitors[i].abi)
        /\ \A a \in DOMAIN s.actions : TemplatesValid(s.actions[a], s.monitors[i].abi)

Init ==
    /\ setup \in {s \in Setups : Accepted(s)}
    /\ phase = "down"
    /\ actions = {}
    /\ evaluated = {}
    /\ windows = NoWindows(setup)
    /\ queue = <<>>
    /\ pending = {} /\ buffer = {} /\ received = {} /\ killed = {}
    /\ stops = 0

\* from_config of the publishers connects, or reads files, and may fail.
MayFail == {a \in DOMAIN setup.actions : setup.actions[a].type \in Publishers}

\* ActionDispatcher::new: a publisher that cannot be built is left out.
Start(failing) ==
    /\ phase = "down"
    /\ failing \subseteq MayFail
    /\ phase' = "up"
    /\ actions' = DOMAIN setup.actions \ failing
    /\ UNCHANGED <<setup, evaluated, windows, queue, pending, buffer, received, killed, stops>>

\* The rows of an enqueue go to the end of the queue.
Enqueue(rows) ==
    /\ queue' = queue \o rows
    /\ pending' = pending \cup (Len(queue) + 1 .. Len(queue) + Len(rows))

Aggregates(a) == setup.actions[a].policy = "aggregation"

\* A block item is evaluated; its matches become rows or go to their window.
Evaluate(item) ==
    LET ctx == EvaluateItem(setup.monitors, item)
        found == IF ctx.failed THEN <<>> ELSE ctx.matches
        direct == SetToSeq({a \in DOMAIN setup.actions : ~Aggregates(a)})
        rowsOf(m) == [k \in DOMAIN direct |->
                        [action |-> direct[k], kind |-> "single", matches |-> <<m>>]]
    IN  /\ phase = "up"
        /\ Cardinality(evaluated) < MaxItems
        /\ item \notin evaluated
        /\ evaluated' = evaluated \cup {item}
        /\ Enqueue(FlattenSeq([k \in DOMAIN found |-> rowsOf(found[k])]))
        /\ windows' = [a \in DOMAIN windows |->
                          IF Aggregates(a) THEN windows[a] \o found ELSE windows[a]]
        /\ UNCHANGED <<setup, phase, actions, buffer, received, killed, stops>>

WindowRow(a) == [action |-> a, kind |-> "aggregated", matches |-> windows[a]]

\* Mutant: a window is closed although nothing was collected in it.
AllWindows == DOMAIN windows

OpenWindows == {a \in DOMAIN windows : windows[a] # <<>>}

\* A window ends: check_and_dispatch_expired_windows.
CloseWindow(a) ==
    /\ phase = "up"
    /\ a \in OpenWindows
    /\ Enqueue(<<WindowRow(a)>>)
    /\ windows' = [windows EXCEPT ![a] = <<>>]
    /\ UNCHANGED <<setup, phase, actions, evaluated, buffer, received, killed, stops>>

Arrives(id) == received' = received \cup {id} /\ UNCHANGED buffer

Held(id) == buffer' = buffer \cup {id} /\ UNCHANGED received

\* The future of the record ends with the broker's report, or without one.
KafkaPublish(type, id) == IF type = "kafka" THEN Arrives(id) ELSE Held(id)

\* The message is queued for the connection task.
NatsPublish(id) == Held(id)

\* The channel is not in confirm mode, so the confirmation is there at once.
RabbitMqPublish(id) == Held(id)

\* ActionType::execute.  A webhook and stdout answer when the message arrived.
Send(type, id) ==
    CASE type \in {"kafka", "kafka_acks0"} -> KafkaPublish(type, id)
      [] type = "nats" -> NatsPublish(id)
      [] type = "rabbitmq" -> RabbitMqPublish(id)
      [] OTHER -> Arrives(id)

\* A row is executed and, when that went well, deleted.  A failed request
\* leaves the row alone.
Execute(id) ==
    /\ phase # "down"
    /\ id \in pending
    /\ Attempt(queue[id]) \in {"ok", "skipped"}
    /\ pending' = pending \ {id}
    /\ IF Attempt(queue[id]) = "skipped" THEN UNCHANGED <<buffer, received>>
       ELSE Send(setup.actions[queue[id].action].type, id)
    /\ UNCHANGED <<setup, phase, actions, evaluated, windows, queue, killed, stops>>

\* The client's connection task gets a message to the broker.
BrokerReceives(id) ==
    /\ phase # "down"
    /\ id \in buffer
    /\ buffer' = buffer \ {id}
    /\ received' = received \cup {id}
    /\ UNCHANGED <<setup, phase, actions, evaluated, windows, queue, pending, killed, stops>>

\* Cancellation: the tasks end and alert_manager.shutdown flushes the windows.
Stop ==
    /\ phase = "up"
    /\ stops < MaxStops
    /\ stops' = stops + 1
    /\ phase' = "draining"
    /\ Enqueue(LET open == SetToSeq(OpenWindows) IN [k \in DOMAIN open |-> WindowRow(open[k])])
    /\ windows' = NoWindows(setup)
    /\ UNCHANGED <<setup, actions, evaluated, buffer, received, killed>>

\* ActionDispatcher::shutdown: NATS drains, RabbitMQ closes its channel.  An
\* error is only logged, and neither waits for the broker: what the client
\* could not send before the process ends is lost.
Shutdown ==
    \E written \in SUBSET buffer :
        /\ buffer' = {}
        /\ received' = received \cup written
        /\ killed' = killed \cup (buffer \ written)

\* The drain found the outbox empty, or gave up on an error of the database;
\* the actions are shut down.
DrainEnds ==
    /\ phase = "draining"
    /\ Shutdown
    /\ phase' = "down"
    /\ actions' = {}
    /\ UNCHANGED <<setup, evaluated, windows, queue, pending, stops>>

GoDown ==
    /\ phase' = "down"
    /\ actions' = {}
    /\ killed' = killed \cup buffer
    /\ buffer' = {}
    /\ UNCHANGED <<setup, evaluated, queue, pending, received>>

\* The cleanup timeout, over a row that is never executed.
DrainTimesOut ==
    /\ phase = "draining"
    /\ pending # {}
    /\ GoDown
    /\ UNCHANGED <<windows, stops>>

\* A row whose rendering panics ends the outbox task, which the supervisor
\* answers with a shutdown; the drain meets the row again and unwinds main.
Panic(id) ==
    /\ id \in pending
    /\ Attempt(queue[id]) = "panic"
    /\ \/ Stop
       \/ phase = "draining" /\ GoDown /\ UNCHANGED <<windows, stops>>

Crash ==
    /\ phase # "down"
    /\ stops < MaxStops
    /\ stops' = stops + 1
    /\ GoDown
    /\ windows' \in {windows, NoWindows(setup)}   \* saved or not: AlertManager

Next ==
    \/ \E failing \in SUBSET DOMAIN setup.actions : Start(failing)
    \/ \E item \in Items : Evaluate(item)
    \/ \E a \in DOMAIN windows : CloseWindow(a)
    \/ \E id \in pending : Execute(id)
    \/ \E id \in buffer : BrokerReceives(id)
    \/ Stop
    \/ DrainEnds
    \/ DrainTimesOut
    \/ \E id \in pending : Panic(id)
    \/ Crash

Spec == Init /\ [][Next]_vars

----------------------------------------------------------------------------
MatchOf(monitors) ==
    [monitor : DOMAIN monitors,
     item : {i.tx : i \in Items},
     log : {NoLog} \cup UNION {ToSet(i.logs) : i \in Items},
     call : {NoCall} \cup {i.call : i \in Items}]

Match == MatchOf(setup.monitors)

\* A row names an action; a single row has one match, an aggregation at least
\* one, and every match carries the transaction, log and call of one item.
RowOK(row) ==
    /\ row.action \in DOMAIN setup.actions
    /\ row.kind = "single" <=> ~Aggregates(row.action)
    /\ row.matches # <<>>
    /\ row.kind = "single" => Len(row.matches) = 1
    /\ \A k \in DOMAIN row.matches : row.matches[k] \in Match

\* The types, and which rows the tables refer to.
TypeOK ==
    /\ setup \in Setups
    /\ phase \in {"down", "up", "draining"}
    /\ actions \subseteq DOMAIN setup.actions
    /\ evaluated \subseteq Items
    /\ \A a \in DOMAIN windows : \A k \in DOMAIN windows[a] : windows[a][k] \in Match
    /\ \A id \in DOMAIN queue : RowOK(queue[id])
    /\ \A ids \in {pending, buffer, received, killed} : ids \subseteq DOMAIN queue
    /\ stops \in 0..MaxStops

\* A row leaves the outbox only when the receiver has its message, when the
\* client of an unconfirmed publisher holds it, or when it is an aggregation
\* for a publisher, which none of them sends.  What such a client held is lost
\* only when the process goes down; a row that failed, or whose publisher could
\* not be built, waits in the outbox through every stop and restart.
RowsDelivered ==
    \A id \in DOMAIN queue :
        LET type == setup.actions[queue[id].action].type
        IN  \/ id \in pending \cup received
            \/ id \in buffer /\ type \in Unconfirmed /\ phase # "down"
            \/ id \in killed /\ type \in Unconfirmed
            \/ queue[id].kind = "aggregated" /\ type \in Publishers

\* The inductive invariant behind both: a window collects for an action that
\* aggregates, and rows keep their place in the queue.
Row == [action : DOMAIN setup.actions, kind : {"single", "aggregated"}, matches : Seq(Match)]

ShapeInv ==
    /\ Accepted(setup)
    /\ windows \in [DOMAIN setup.actions -> Seq(Match)]
    /\ \A a \in DOMAIN setup.actions : ~Aggregates(a) => windows[a] = <<>>
    /\ queue \in Seq(Row)

IInv == ShapeInv /\ TypeOK /\ RowsDelivered

\* The ways in which a match can differ from the validator's dummy match.
LacksPart(t, m) ==
    \/ t.path[1] = "log" /\ m.log = NoLog
    \/ t.path[1] = "decoded_call" /\ m.call = NoCall
    \/ t.path = <<"tx", "to">> /\ m.item.create
    \/ t.path \in {<<"tx", "max_fee_per_gas">>, <<"tx", "max_priority_fee_per_gas">>}
          /\ m.item.kind # "eip1559"

ForeignParam(t, m) ==
    LET params == IF t.path[1] = "log" THEN m.log.params ELSE m.call.params
    IN  /\ Len(t.path) = 3
        /\ t.path[3] \notin DOMAIN params \/ params[t.path[3]].sol # "uint256"

HasLargeValue(m) ==
    \/ m.item.value > MaxDecimal
    \/ \E params \in {m.log.params, m.call.params} :
          \E p \in DOMAIN params : params[p].n > MaxDecimal

\* The body of a loop would not render for the dummy match either.
UncheckedLoop(t) ==
    /\ t.at \in {"each", "all"}
    /\ RenderPath(DummyTop(TRUE), t.path, IF t.at = "all" THEN "scale" ELSE t.filter) # "ok"

\* A row of an action the dispatcher has, whose template the validator
\* accepted, can fail to render only because its match differs from the dummy
\* match in a known way: a part (log, call, recipient, fee field) or a
\* parameter it does not have or has with another type, an amount beyond
\* Decimal, an aggregation whose template reads the top level, a loop body
\* that the empty list of the dummy never ran, or a template without {{ that
\* the validator takes for text.  Such a row stays for ever.
RenderFailureExplained ==
    \A id \in pending :
        LET row == queue[id]
            t == TemplateFor(setup.actions[row.action], row)
        IN  row.action \in actions /\ Attempt(row) \in {"error", "panic"} =>
                \/ row.kind = "aggregated" /\ t.at \in {"top", "if"}
                \/ UncheckedLoop(t)
                \/ t.at = "test"
                \/ \E k \in DOMAIN row.matches :
                      \/ LacksPart(t, row.matches[k])
                      \/ ForeignParam(t, row.matches[k])
                      \/ t.filter # "none" /\ HasLargeValue(row.matches[k])
                \/ t.at = "all" /\ Len(row.matches) > 1 /\ Attempt(row) = "panic"

\* Names the validator knows and LogProxy has no getter for.
WithoutGetter == {<<"log", f>> : f \in {"block_number", "transaction_hash", "transaction_index"}}

\* What the validator's run on empty maps does not see.
Overlooked(script) ==
    \/ Accessed(script) \cap WithoutGetter # {}
    \/ \E k \in DOMAIN script.conds :
          LET c == script.conds[k]
          IN  \/ c.path = <<"log", "log_index">> /\ c.arg.is = "num"
              \/ c.op = "loop"
              \/ c.op = "calc" /\ script.join = "and" /\ k > 1

\* A script that was accepted costs an item its matches only by reading a log
\* field without a getter, by comparing log_index, a u64, with a number, by a
\* loop that the data drive to the limit of the engine, or by computing
\* behind a condition that kept the run on empty maps from getting there.
ScriptFailureExplained ==
    \A item \in evaluated :
        EvaluateItem(setup.monitors, item).failed =>
            \E i \in DOMAIN setup.monitors : Overlooked(setup.monitors[i].script)

\* A monitor with the same ABI that never matches and reads no call.
Silenced(m) ==
    [abi |-> m.abi,
     script |-> [join |-> "and",
                 conds |-> <<[path |-> <<"tx", "value">>, op |-> "cmp", arg |-> Text("")]>>]]

Alone(monitors, i) == [j \in DOMAIN monitors |-> IF j = i THEN monitors[j] ELSE Silenced(monitors[j])]

\* The match of a monitor that others share the item with, and the one it finds
\* alone: only the former may carry the call that was decoded for another.
SamePayload(monitors, i, shared, alone) ==
    /\ [shared EXCEPT !.call = NoCall] = [alone EXCEPT !.call = NoCall]
    /\ shared.call # alone.call =>
          /\ alone.call = NoCall
          /\ \E j \in DOMAIN monitors \ {i} : CallAware(monitors[j])

\* The matches of monitor i among those of all monitors are, in order, the ones
\* it finds alone: at[k] is the place of the k-th.
SameMatches(monitors, i, shared, alone) ==
    \E at \in [DOMAIN alone -> DOMAIN shared] :
        /\ \A k, l \in DOMAIN alone : k < l => at[k] < at[l]
        /\ \A p \in DOMAIN shared : shared[p].monitor = i <=> \E k \in DOMAIN alone : at[k] = p
        /\ \A k \in DOMAIN alone : SamePayload(monitors, i, shared[at[k]], alone[k])

\* The caches of an item do not leak between monitors: each finds the matches
\* it would find alone, and they carry the same data, except that a match may
\* also carry the call that was decoded for another monitor.
PayloadsIndependent ==
    \A item \in evaluated, i \in DOMAIN setup.monitors :
        LET all == EvaluateItem(setup.monitors, item)
            alone == EvaluateItem(Alone(setup.monitors, i), item)
        IN  ~all.failed =>
                ~alone.failed /\ SameMatches(setup.monitors, i, all.matches, alone.matches)

============================================================================
