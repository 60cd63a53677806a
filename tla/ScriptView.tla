----------------------------- MODULE ScriptView -----------------------------
(***************************************************************************)
(* What a filter script may read, what the validator accepts of it, and    *)
(* what it gives on an item.                                               *)
(*                                                                         *)
(* A script is a chain of conditions joined by && or ||, evaluated from    *)
(* the left.  A condition compares a field with a literal (another type    *)
(* compares as false), computes with it first (which fails on a value that *)
(* is no number), or first loops as often as the field says (which fails   *)
(* at the limit of the engine).  The validator knows the names of the      *)
(* fields; that the script returns a Boolean it finds out by running it on *)
(* empty maps.                                                             *)
(*                                                                         *)
(* A path is the sequence of its names: <<"log", "params", "amount">>.     *)
(***************************************************************************)
EXTENDS Integers, Sequences, FiniteSetsExt

CONSTANTS
    I64Max,       \* the largest i64
    MaxOperations, \* what max_operations lets a script loop
    AbiEvents,    \* the events of the ABI in order: [name, params], where
                  \* params is parameter |-> Solidity type
    AbiCalls      \* its functions, likewise

ASSUME ViewAssumption == I64Max \in Nat /\ MaxOperations \in Nat

NoLog == [name |-> "", params |-> <<>>, index |-> 0]
NoCall == [name |-> "", params |-> <<>>]

\* `as i64` of a u64.
AsI64(n) == IF n > I64Max THEN n - 2 * (I64Max + 1) ELSE n

\* Values of a script: integers (i64 and BigInt compare alike), a u64, which
\* has no operator with those, text, ().
Num(n) == [is |-> "num", n |-> n]
U64(n) == [is |-> "u64", n |-> n]
Text(s) == [is |-> "text", s |-> s]
Unit == [is |-> "unit"]
NoProperty == [is |-> "none"]   \* reading it is an error

Get(map, key) == IF key \in DOMAIN map THEN map[key] ELSE Unit

----------------------------------------------------------------------------
(* The names: get_valid_*_rhai_paths. *)

TxFields == {"from", "to", "hash", "value", "gas_limit", "nonce", "input", "block_number",
             "transaction_index", "gas_price", "max_fee_per_gas", "max_priority_fee_per_gas"}
ReceiptFields == {"gas_used", "status", "effective_gas_price"}
LogFields == {"name", "address", "log_index", "block_number", "transaction_hash",
              "transaction_index"}

TxPaths == {<<"tx", f>> : f \in TxFields}
ReceiptPaths == {<<"tx", f>> : f \in ReceiptFields}
LogPaths == {<<"log", f>> : f \in LogFields}
CallPaths == {<<"decoded_call">>, <<"decoded_call", "name">>, <<"decoded_call", "params">>}

Names(signatures) == UNION {DOMAIN signatures[s].params : s \in DOMAIN signatures}

\* valid_dynamic_fields; without ABI there are none.
ParamPaths(abi) ==
    IF ~abi THEN {}
    ELSE {<<"log", "params", p>> : p \in Names(AbiEvents)}
         \cup {<<"decoded_call", "params", p>> : p \in Names(AbiCalls)}

----------------------------------------------------------------------------
(* RhaiCompiler::analyze_script *)

Accessed(script) == {c.path : c \in {script.conds[i] : i \in DOMAIN script.conds}}

Accesses(script, root) == \E p \in Accessed(script) : p[1] = root

AccessesUnder(script, prefix) ==
    \E p \in Accessed(script) : Len(p) > Len(prefix) /\ SubSeq(p, 1, Len(prefix)) = prefix

\* string_comparisons of log.name.
EventNames(script) ==
    {c.arg.s : c \in {d \in {script.conds[i] : i \in DOMAIN script.conds} :
                        d.path = <<"log", "name">> /\ d.op = "eq"}}

----------------------------------------------------------------------------
(* The scope of a script. *)

\* build_transaction_map.  A fee field of another transaction type and the
\* recipient of a creation are not in the map, receipt fields are ().
TxMap(item) ==
    [f \in (TxFields \ {"to", "gas_price", "max_fee_per_gas", "max_priority_fee_per_gas"})
           \cup ReceiptFields
           \cup (IF item.create THEN {} ELSE {"to"})
           \cup (IF item.kind = "legacy" THEN {"gas_price"} ELSE {})
           \cup (IF item.kind = "eip1559" THEN {"max_fee_per_gas", "max_priority_fee_per_gas"}
                 ELSE {}) |->
        CASE f \in {"from", "to", "hash", "input"} -> Text(f)
          [] f = "value" -> Num(item.value)
          [] f = "nonce" -> Num(AsI64(item.nonce))
          [] f \in ReceiptFields /\ ~item.receipt -> Unit
          [] OTHER -> Num(1)]

\* dyn_sol_value_to_rhai: a decoded value is [sol, n], its Solidity type and,
\* for integers, its amount.
ToRhai(v) ==
    CASE v.sol = "uint256" -> Num(v.n)
      [] v.sol \in {"address", "bool", "bytes", "string"} -> Text(v.sol)
      [] OTHER -> [is |-> "list"]

ParamsMap(params) == [p \in DOMAIN params |-> ToRhai(params[p])]

\* ParamsProxy, LogProxy and CallProxy: the getters that are registered.
ReadParams(params, p) == Get(ParamsMap(params), p)

ReadLog(log, path) ==
    CASE Len(path) = 1 -> NoProperty
      [] path[2] = "name" -> Text(log.name)
      [] path[2] = "address" -> Text("address")
      [] path[2] = "log_index" -> U64(log.index)
      [] path[2] = "params" /\ Len(path) = 3 -> ReadParams(log.params, path[3])
      [] OTHER -> NoProperty

ReadCall(call, path) ==
    CASE Len(path) = 1 -> Text("proxy")   \* never (), also without a call
      [] path[2] = "name" -> Text(call.name)
      [] path[2] = "params" /\ Len(path) = 3 -> ReadParams(call.params, path[3])
      [] OTHER -> Text("proxy")

Read(item, log, call, path) ==
    CASE path[1] = "tx" -> Get(TxMap(item), path[2])
      [] path[1] = "log" -> ReadLog(log, path)
      [] path[1] = "decoded_call" -> ReadCall(call, path)

\* The dummy scope of validate_return_type: empty maps for the roots of which
\* a field is read; every field of them is ().
ReadDummy(script, path) ==
    IF AccessesUnder(script, <<path[1]>>) THEN Unit ELSE NoProperty

----------------------------------------------------------------------------
(* eval_ast_with_scope *)

\* One condition on the value of its field.
Holds(c, v) ==
    CASE v.is = "none" -> "error"
      [] c.op = "calc" /\ v.is # "num" -> "error"
      [] v.is = "u64" /\ (c.op = "loop" \/ c.arg.is = "num") -> "error"
      [] c.op = "loop" /\ v.is = "num" /\ v.n > MaxOperations -> "error"
      [] v.is = "num" /\ c.arg.is = "num" -> IF v.n > c.arg.n THEN "true" ELSE "false"
      [] v.is = "text" /\ c.arg.is = "text" -> IF v.s = c.arg.s THEN "true" ELSE "false"
      [] OTHER -> "false"

\* What lets && or || go on to the next condition.
GoesOn(script) == IF script.join = "and" THEN "true" ELSE "false"

\* results[i] is the result of condition i, if it is evaluated.
Outcome(script, results) ==
    LET ends == {i \in DOMAIN results : results[i] # GoesOn(script)}
    IN  IF ends = {} THEN GoesOn(script) ELSE results[Min(ends)]

RunScript(script, item, log, call) ==
    Outcome(script, [i \in DOMAIN script.conds |->
        Holds(script.conds[i], Read(item, log, call, script.conds[i].path))])

----------------------------------------------------------------------------
(* RhaiScriptValidator *)

\* validate_return_type.
ReturnsBoolean(script) ==
    Outcome(script, [i \in DOMAIN script.conds |->
        Holds(script.conds[i], ReadDummy(script, script.conds[i].path))]) # "error"

\* Mutant: any name is accepted.
ScriptReturnsBoolean(script, abi) == ReturnsBoolean(script) /\ (Accesses(script, "log") => abi)

\* validate_analysis, with the rule of the monitor validator that a script
\* which reads logs needs an ABI.
ScriptValid(script, abi) ==
    /\ Accessed(script) \subseteq
           TxPaths \cup ReceiptPaths \cup LogPaths \cup CallPaths \cup ParamPaths(abi)
    /\ ReturnsBoolean(script)
    /\ Accesses(script, "log") => abi

RequiresReceipt(script) == Accessed(script) \cap ReceiptPaths # {}

============================================================================
