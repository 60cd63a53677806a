----------------------------- MODULE Templates ------------------------------
(***************************************************************************)
(* The JSON a match carries, the templates that read it, and the check the *)
(* monitor validator makes of them.                                        *)
(*                                                                         *)
(* A template is one placeholder:                                          *)
(*   at "top"    {{ path | filter }}                                       *)
(*   at "if"     {% if root %}{{ path | filter }}{% endif %}               *)
(*   at "each"   {% for m in matches %}{{ m.path | filter }}{% endfor %}   *)
(*   at "all"    {{ matches | map(attribute=path) | filter }}              *)
(*   at "test"   {% if path %}text{% endif %}                              *)
(* Undefined values are errors (strict mode), also as a condition.         *)
(***************************************************************************)
EXTENDS ScriptView, SequencesExt

CONSTANT MaxDecimal  \* the largest Decimal, 2^96 - 1 in the library

ASSUME DecimalAssumption == MaxDecimal \in Nat /\ MaxDecimal >= I64Max

\* JSON values: numbers, text (the digits of an integer, or other text), lists.
JNumber(n) == [is |-> "number", n |-> n]
JDigits(n) == [is |-> "digits", n |-> n]
JText == [is |-> "text"]
JList == [is |-> "list"]

----------------------------------------------------------------------------
(* The conversions to JSON. *)

\* dyn_sol_value_to_json of argus-rhai, for the parameters of logs: an integer
\* is a number as long as it is an i64.
ToJson(v) ==
    CASE v.sol = "uint256" -> IF v.n <= I64Max THEN JNumber(v.n) ELSE JDigits(v.n)
      [] v.sol = "uint256[]" -> JList
      [] OTHER -> JText

\* Serialize of DecodedCall in argus-abi: integers are always text.
CallToJson(v) ==
    CASE v.sol = "uint256" -> JDigits(v.n)
      [] v.sol = "uint256[]" -> JList
      [] OTHER -> JText

\* build_transaction_details_payload: no block_number, and what is missing is
\* left out.
TxDetails(item) ==
    [f \in {"from", "hash", "value", "gas_limit", "nonce", "input"}
           \cup (IF item.create THEN {} ELSE {"to"})
           \cup (IF item.mined THEN {"transaction_index"} ELSE {})
           \cup (IF item.kind = "legacy" THEN {"gas_price"} ELSE {})
           \cup (IF item.kind = "eip1559" THEN {"max_fee_per_gas", "max_priority_fee_per_gas"}
                 ELSE {})
           \cup (IF item.receipt THEN ReceiptFields ELSE {}) |->
        CASE f \in {"from", "to", "hash", "input"} -> JText
          [] f = "value" -> JDigits(item.value)
          [] f = "nonce" -> JNumber(item.nonce)
          [] f \in {"gas_limit", "transaction_index", "status"} -> JNumber(1)
          [] OTHER -> JDigits(1)]

\* The paths of an object under a prefix.  Objects themselves are text.
Under(prefix, obj) ==
    [p \in {prefix \o <<f>> : f \in DOMAIN obj} |-> obj[Last(p)]]

Merge(f, g) == [p \in DOMAIN f \cup DOMAIN g |-> IF p \in DOMAIN g THEN g[p] ELSE f[p]]

MatchFields ==
    [id |-> JText, monitor_id |-> JNumber(1), monitor_name |-> JText, action_name |-> JText,
     block_number |-> JNumber(1), transaction_hash |-> JText, tx |-> JText]

\* build_log_params_payload
LogParamsPayload(params) == [p \in DOMAIN params |-> ToJson(params[p])]

LogDetails(log) ==
    Merge(Under(<<>>, [log |-> JText]),
          Merge(Under(<<"log">>, [address |-> JText, log_index |-> JNumber(log.index),
                                  name |-> JText, params |-> JText]),
                Under(<<"log", "params">>, LogParamsPayload(log.params))))

CallDetails(call) ==
    Merge(Under(<<>>, [decoded_call |-> JText]),
          Merge(Under(<<"decoded_call">>, [name |-> JText, params |-> JText]),
                Under(<<"decoded_call", "params">>,
                      [p \in DOMAIN call.params |-> CallToJson(call.params[p])])))

\* MonitorMatch, serialised: log only for a log match, decoded_call only when
\* it is there.
MatchJson(m) ==
    LET base == Merge(Under(<<>>, MatchFields), Under(<<"tx">>, TxDetails(m.item)))
        log == IF m.log = NoLog THEN <<>> ELSE LogDetails(m.log)
        call == IF m.call = NoCall THEN <<>> ELSE CallDetails(m.call)
    IN  Merge(base, Merge(log, call))

----------------------------------------------------------------------------
(* The filters. *)

\* Decimal::from_str of what the value prints.
Parses(v) == v.is \in {"number", "digits"} /\ v.n <= MaxDecimal

\* decimals, ether, gwei, usdc, usdt, wbtc; and printing without a filter.
ApplyFilter(filter, v) ==
    IF filter = "none" \/ (filter = "scale" /\ Parses(v)) THEN "ok" ELSE "error"

\* sum and avg: a value that does not parse is an error, a total that leaves
\* the range of Decimal panics at that addition.
Sum(vs) ==
    LET total[i \in 0..Len(vs)] == IF i = 0 THEN 0 ELSE total[i - 1] + vs[i].n
        bad == {i \in DOMAIN vs : ~Parses(vs[i])}
        over == {i \in DOMAIN vs : (\A j \in 1..i : Parses(vs[j])) /\ total[i] > MaxDecimal}
    IN  CASE over # {} -> "panic" [] over = {} /\ bad # {} -> "error" [] OTHER -> "ok"

----------------------------------------------------------------------------
(* TemplateService::render *)

Places == {"top", "if", "each", "all", "test"}

\* A context is [top, list, matches]: the JSON of the top level, whether it has
\* the name matches, and the list under it.

RenderPath(obj, path, filter) ==
    IF path \in DOMAIN obj THEN ApplyFilter(filter, obj[path]) ELSE "error"

\* The first result that is not "ok".
FirstBad(results) ==
    LET bad == {i \in DOMAIN results : results[i] # "ok"}
    IN  IF bad = {} THEN "ok" ELSE results[Min(bad)]

Render(t, ctx) ==
    CASE t.at = "top" -> RenderPath(ctx.top, t.path, t.filter)
      [] t.at = "if" ->
            IF <<t.path[1]>> \in DOMAIN ctx.top THEN RenderPath(ctx.top, t.path, t.filter) ELSE "error"
      [] t.at = "each" ->
            IF ~ctx.list THEN "error"
            ELSE FirstBad([i \in DOMAIN ctx.matches |-> RenderPath(ctx.matches[i], t.path, t.filter)])
      [] t.at = "all" ->
            IF ~ctx.list \/ \E i \in DOMAIN ctx.matches : t.path \notin DOMAIN ctx.matches[i]
            THEN "error"
            ELSE Sum([i \in DOMAIN ctx.matches |-> ctx.matches[i][t.path]])
      [] t.at = "test" -> RenderPath(ctx.top, t.path, "none")

\* ActionPayload::context.
Context(payload) ==
    IF payload.kind = "single"
    THEN [top |-> MatchJson(payload.matches[1]), list |-> FALSE, matches |-> <<>>]
    ELSE [top |-> Under(<<>>, [monitor_name |-> JText]), list |-> TRUE,
          matches |-> [i \in DOMAIN payload.matches |-> MatchJson(payload.matches[i])]]

----------------------------------------------------------------------------
(* TemplateValidator *)

\* create_dummy_value_for_type: the prefix "uint" also covers its arrays.
DummyValue(type) == IF type \in {"uint256", "uint256[]"} THEN JDigits(1) ELSE JText

\* extract_event_parameters and extract_function_inputs: one value per name,
\* of the first signature that has it.
DummyParams(signatures) ==
    [p \in Names(signatures) |->
        LET first == Min({s \in DOMAIN signatures : p \in DOMAIN signatures[s].params})
        IN  DummyValue(signatures[first].params[p])]

\* Mutant: the dummy transaction comes with a receipt.
DummyMinedItem == [kind |-> "eip1559", create |-> FALSE, receipt |-> TRUE, mined |-> TRUE,
                   value |-> 1, nonce |-> 0]

\* generate_dummy_context: a mined-nowhere EIP-1559 transfer without receipt,
\* with a log and a call that have the parameters of all events and functions.
DummyItem == [kind |-> "eip1559", create |-> FALSE, receipt |-> FALSE, mined |-> FALSE,
              value |-> 1, nonce |-> 0]

DummyTop(abi) ==
    LET params(sigs) == IF abi THEN DummyParams(sigs) ELSE <<>>
        log == Merge(LogDetails(NoLog), Under(<<"log", "params">>, params(AbiEvents)))
        call == Merge(CallDetails(NoCall), Under(<<"decoded_call", "params">>, params(AbiCalls)))
    IN  Merge(MatchJson([item |-> DummyItem, log |-> NoLog, call |-> NoCall]), Merge(log, call))

\* create_policy_aware_context: an aggregation adds an empty list of matches.
DummyContext(action, abi) ==
    [top |-> DummyTop(abi), list |-> action.policy = "aggregation", matches |-> <<>>]

\* extract_templates finds the message and the template of the policy, if they
\* have a {{ (is_template_string).
TemplatesOf(action) ==
    {t \in {action.message, action.template} : t.at \notin {"none", "test"}}

\* validate_single_action_template.
TemplatesValid(action, abi) ==
    \A t \in TemplatesOf(action) : Render(t, DummyContext(action, abi)) = "ok"

============================================================================
