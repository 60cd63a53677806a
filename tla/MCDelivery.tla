----------------------------- MODULE MCDelivery -----------------------------
(***************************************************************************)
(* A catalogue of scripts, templates and actions for Delivery, and items   *)
(* that differ in every way the scripts and templates can notice.          *)
(***************************************************************************)
EXTENDS Delivery

MCEvents == << [name |-> "Batch", params |-> [amounts |-> "uint256[]"]],
               [name |-> "Transfer", params |-> [amount |-> "uint256", who |-> "address"]],
               [name |-> "Withdraw", params |-> [amount |-> "string"]],
               [name |-> "Paused", params |-> <<>>] >>
MCCalls == << [name |-> "transfer", params |-> [value |-> "uint256"]],
              [name |-> "note", params |-> [memo |-> "string"]] >>

\* A decoded log or call of the ABI, with the amount n.
Params(types, n) == [p \in DOMAIN types |-> [sol |-> types[p], n |-> IF types[p] = "uint256" THEN n ELSE 0]]
LogOf(e, n, index) == [name |-> MCEvents[e].name, params |-> Params(MCEvents[e].params, n), index |-> index]
CallOf(f, n) == [name |-> MCCalls[f].name, params |-> Params(MCCalls[f].params, n)]

Tx(kind, create, receipt, value) ==
    [kind |-> kind, create |-> create, receipt |-> receipt, mined |-> TRUE, value |-> value, nonce |-> 0]

MCItems == {
    [tx |-> Tx("eip1559", FALSE, FALSE, 2), logs |-> <<LogOf(2, 2, 0)>>, call |-> CallOf(1, 2)],
    [tx |-> Tx("legacy", TRUE, TRUE, 6), logs |-> <<>>, call |-> NoCall],
    [tx |-> Tx("eip1559", FALSE, FALSE, 4), logs |-> <<LogOf(2, 7, 0), LogOf(1, 0, 1)>>, call |-> NoCall],
    [tx |-> Tx("other", FALSE, TRUE, 0), logs |-> <<LogOf(3, 0, 0), LogOf(4, 0, 1)>>, call |-> CallOf(2, 0)] }

Cond(path, op, arg) == [path |-> path, op |-> op, arg |-> arg]
Over(path, n) == Cond(path, "cmp", Num(n))
Is(path, s) == Cond(path, "eq", Text(s))
And(conds) == [join |-> "and", conds |-> conds]
Or(conds) == [join |-> "or", conds |-> conds]

Value == <<"tx", "value">>
LogName == <<"log", "name">>
Amount == <<"log", "params", "amount">>

OfTx == And(<<Over(Value, 1)>>)
OfLog == And(<<Is(<<"log", "address">>, "address")>>)
OfTransfer == And(<<Is(LogName, "Transfer"), Over(Amount, 1)>>)
OfCall == And(<<Is(<<"decoded_call", "name">>, "transfer")>>)
Hybrid == Or(<<Over(Value, 1), Is(LogName, "Withdraw")>>)
NoGetter == And(<<Is(LogName, "Transfer"), Over(<<"log", "block_number">>, 0)>>)
Guarded == And(<<Over(Value, 3), Cond(<<"tx", "gas_price">>, "calc", Num(0))>>)
Indexed == And(<<Is(LogName, "Transfer"), Over(<<"log", "log_index">>, -1)>>)
Loops == And(<<Cond(Value, "loop", Num(1))>>)
Computes == And(<<Cond(Amount, "calc", Num(0))>>)
Unknown == And(<<Is(<<"log", "topics">>, "x")>>)

Monitor(script, abi) == [script |-> script, abi |-> abi]

Top(path, filter) == [at |-> "top", path |-> path, filter |-> filter]
At(at, path, filter) == [at |-> at, path |-> path, filter |-> filter]
None == At("none", <<>>, "none")
Plain == Top(<<"monitor_name">>, "none")
CallValue == <<"decoded_call", "params", "value">>

Action(type, message, template, policy) ==
    [type |-> type, message |-> message, template |-> template, policy |-> policy]

Single(type, message) == Action(type, message, None, "none")
Aggregated(type, message, template) == Action(type, message, template, "aggregation")

Setup(as, ms) == [actions |-> as, monitors |-> ms]

\* Each template with each kind of match.
TemplateSetups ==
    { Setup([hook |-> Single(type, t)], <<Monitor(s, TRUE)>>) :
        type \in {"webhook", "stdout"},
        s \in {OfTx, OfLog, OfCall, Hybrid},
        t \in {Top(Value, "scale"), Top(Amount, "scale"), Top(<<"log", "params", "amounts">>, "scale"),
               At("if", CallValue, "scale"), At("if", LogName, "none"), Top(<<"tx", "to">>, "none"), Top(<<"tx", "nonce">>, "scale"),
               Top(<<"tx", "max_fee_per_gas">>, "scale"), Top(<<"tx", "gas_used">>, "none"),
               Top(<<"log", "params", "who">>, "scale"), At("each", Value, "none"),
               At("test", <<"tx", "gas_used">>, "none")} }

\* Aggregations, with what their templates may read.
AggregationSetups ==
    { Setup([hook |-> Aggregated(type, Plain, t)], <<Monitor(s, TRUE)>>) :
        type \in {"slack", "stdout", "kafka"},
        s \in {OfTx, OfTransfer, Hybrid},
        t \in {Plain, Top(Value, "none"), At("each", Value, "scale"), At("each", <<"nothing">>, "none"),
               At("each", <<"tx", "hash">>, "scale"),
               At("all", Value, "sum"), At("all", Amount, "sum")} }

\* Monitors that share an item, and every kind of script.
SharedSetups ==
    { Setup([bus |-> Single("kafka", None)], <<Monitor(s, TRUE), Monitor(t, FALSE)>>) :
        s \in {OfTx, OfLog, OfTransfer, OfCall, Hybrid, NoGetter, Indexed, Loops, Computes, Unknown},
        t \in {OfTx, OfCall, Guarded} }

\* Two actions, one of which may hold up the other.
PublisherSetups ==
    { Setup([bus |-> Single(type, None), hook |-> Single("webhook", t)], <<Monitor(OfTx, TRUE)>>) :
        type \in {"kafka", "kafka_acks0", "nats", "rabbitmq"}, t \in {Plain, Top(<<"tx", "to">>, "none")} }

MCSetups == TemplateSetups \cup AggregationSetups \cup SharedSetups \cup PublisherSetups

============================================================================
