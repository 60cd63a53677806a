---------------------------- MODULE AlertManager ----------------------------
(***************************************************************************)
(* AlertManager: notification policies over monitor matches, the two tasks *)
(* that share its maps, their periodic copy in the database, and shutdown, *)
(* crash and restart.                                                      *)
(*                                                                         *)
(* The alert loop (process_matches_batch) is at `apc`:                     *)
(*   "recv"       awaiting the next batch of matches                       *)
(*   "match"      about to handle Head(batch)                              *)
(*   "throttle"   awaiting the enqueue of the throttled match `sending`    *)
(*   "immediate"  awaiting the enqueue of the matches without policy       *)
(* The aggregation dispatcher, or the final flush, is at `dpc`:            *)
(*   "tick"       before check_and_dispatch_expired_windows                *)
(*   "enqueue"    awaiting the enqueue of the windows in `taken`           *)
(*   "write"      awaiting a set_json_state of sync_states_to_db           *)
(*                                                                         *)
(* Times only matter as the age of a window, counted up to one past the    *)
(* window's length.  The per-action lock is left out: the alert loop is    *)
(* its only holder.                                                        *)
(***************************************************************************)
EXTENDS Integers, Sequences

CONSTANTS
    Actions,         \* action names
    Matches,         \* ids of monitor matches
    ActionOf,        \* the action of each match
    Batches,         \* batches the filtering engine sends, one per block
    Configs,         \* action configurations a boot may load: action -> policy
    MaxCount,        \* throttle.max_count
    ThrottleWindow,  \* throttle.time_window_secs
    AggWindow,       \* aggregation.window_secs
    Faults           \* which faults the environment may inject

Policies == {"none", "throttle", "aggregation", "missing"}
FaultKinds == {"enqueue", "db", "stop", "timeout", "crash"}
NoMatch == "none"

ASSUME AlertAssumption ==
    /\ ActionOf \in [Matches -> Actions] /\ NoMatch \notin Matches
    /\ Batches \subseteq Seq(Matches) \ {<<>>}
    /\ Configs \subseteq [Actions -> Policies] /\ Configs # {}
    /\ MaxCount \in Nat /\ ThrottleWindow \in Nat /\ AggWindow \in Nat
    /\ Faults \subseteq FaultKinds

VARIABLES
    up,         \* "running", "flushing" (tasks aborted, shutdown()), "stopped"
    policy,     \* the loaded action configurations
    throttle,   \* throttle_states: action -> [count, age]
    agg,        \* aggregation_states: action -> [matches, age]
    savedT,     \* durable: throttle_state:<action> rows
    savedA,     \* durable: aggregation_state:<action> rows
    apc, batch, sending, immediate,
    dpc, taken, snapT, snapA, left,
    \* History, read by no action except as noted:
    received,   \* batches this process received (a batch comes once per process)
    fate,       \* per match: "open" once taken up, then "enqueued", "suppressed" by a
                \* throttle, or "lost" to a fault, an abort or a changed configuration
    windowAge,  \* per action, age of the throttle window by the wall clock
    sent,       \* ... notifications enqueued in it, counted up to MaxCount + 1
    forgotten   \* actions whose throttle state a crash or failed sync rolled back

memory == <<policy, throttle, agg>>
saved == <<savedT, savedA>>
loop == <<apc, batch, sending, immediate, received>>
dispatcher == <<dpc, taken, snapT, snapA, left>>
limits == <<windowAge, sent, forgotten>>
history == <<fate, limits>>
vars == <<up, memory, saved, loop, dispatcher, history>>

(* An absent throttle entry behaves like one whose window has expired.     *)
FreshThrottle == [a \in Actions |-> [count |-> 0, age |-> ThrottleWindow + 1]]
FreshAgg == [a \in Actions |-> [matches |-> {}, age |-> 0]]

Aggregated(f) == UNION {f[a].matches : a \in Actions}
Fated(ms, f) == [m \in Matches |-> IF m \in ms THEN f ELSE fate[m]]
InPayloads(ps) == UNION {p.matches : p \in ps}

Init ==
    /\ up = "stopped" /\ policy \in Configs
    /\ throttle = FreshThrottle /\ agg = FreshAgg
    /\ savedT = FreshThrottle /\ savedA = FreshAgg
    /\ apc = "off" /\ batch = <<>> /\ sending = NoMatch /\ immediate = {}
    /\ dpc = "off" /\ taken = {} /\ left = {}
    /\ snapT = FreshThrottle /\ snapA = FreshAgg
    /\ received = {} /\ fate = [m \in Matches |-> "new"]
    /\ windowAge = [a \in Actions |-> ThrottleWindow + 1]
    /\ sent = [a \in Actions |-> 0] /\ forgotten = {}

-----------------------------------------------------------------------------
(* Time passes.                                                            *)
Older(age, window) == IF age > window THEN age ELSE age + 1
AgeT(f) == [a \in Actions |-> [f[a] EXCEPT !.age = Older(@, ThrottleWindow)]]
AgeA(f) == [a \in Actions |->
              IF f[a].matches = {} THEN f[a] ELSE [f[a] EXCEPT !.age = Older(@, AggWindow)]]

Tick ==
    /\ throttle' = AgeT(throttle) /\ savedT' = AgeT(savedT) /\ snapT' = AgeT(snapT)
    /\ agg' = AgeA(agg) /\ savedA' = AgeA(savedA) /\ snapA' = AgeA(snapA)
    /\ windowAge' = [a \in Actions |-> Older(windowAge[a], ThrottleWindow)]
    /\ UNCHANGED <<up, policy, loop, dpc, taken, left, fate, sent, forgotten>>

-----------------------------------------------------------------------------
(* The alert loop.                                                         *)
Receive(b) ==
    /\ up = "running" /\ apc = "recv" /\ b \notin received
    /\ apc' = "match" /\ batch' = b /\ received' = received \cup {b}
    /\ UNCHANGED <<up, memory, saved, sending, immediate, dispatcher, history>>

(* Mutant: the collected matches are not dispatched at the end.            *)
AfterMatchForgetful(rest, now) == IF rest # <<>> THEN "match" ELSE "recv"

(* Where process_matches_batch goes after a match.                         *)
AfterMatch(rest, now) ==
    IF rest # <<>> THEN "match" ELSE IF now # {} THEN "immediate" ELSE "recv"

Take(m) ==
    /\ apc = "match" /\ batch # <<>> /\ m = Head(batch)
    /\ batch' = Tail(batch)

(* The action of the match is not configured: it is skipped with a warning. *)
SkipUnknown(m) ==
    /\ Take(m) /\ policy[ActionOf[m]] = "missing"
    /\ apc' = AfterMatch(Tail(batch), immediate)
    /\ fate' = Fated({m}, "lost")
    /\ UNCHANGED <<up, memory, saved, sending, immediate, received, dispatcher, limits>>

CollectImmediate(m) ==
    /\ Take(m) /\ policy[ActionOf[m]] = "none"
    /\ immediate' = immediate \cup {m}
    /\ apc' = AfterMatch(Tail(batch), immediate')
    /\ fate' = Fated({m}, "open")
    /\ UNCHANGED <<up, memory, saved, sending, received, dispatcher, limits>>

(* handle_throttle: the state the match sees, reset when the window has    *)
(* passed.                                                                 *)
Expired(t) == t.age > ThrottleWindow
Current(t) == IF Expired(t) THEN [count |-> 0, age |-> 0] ELSE t

(* Mutant: the limit is compared with <=.                                  *)
MayDispatchOneMore(t) == t.count <= MaxCount

MayDispatch(t) == t.count < MaxCount

HandleThrottle(m) ==
    LET a == ActionOf[m]
        t == Current(throttle[a])
    IN  /\ Take(m) /\ policy[a] = "throttle"
        /\ IF MayDispatch(t)
           THEN /\ throttle' = [throttle EXCEPT ![a] = [t EXCEPT !.count = @ + 1]]
                /\ sending' = m /\ apc' = "throttle"
                /\ fate' = Fated({m}, "open")
           ELSE /\ throttle' = [throttle EXCEPT ![a] = t]
                /\ apc' = AfterMatch(Tail(batch), immediate)
                /\ fate' = Fated({m}, "suppressed")
                /\ UNCHANGED sending
        /\ IF Expired(throttle[a]) /\ windowAge[a] > ThrottleWindow
           THEN /\ windowAge' = [windowAge EXCEPT ![a] = 0]
                /\ sent' = [sent EXCEPT ![a] = 0]
                /\ forgotten' = forgotten \ {a}
           ELSE UNCHANGED limits
        /\ UNCHANGED <<up, policy, agg, saved, immediate, received, dispatcher>>

(* A failed enqueue is only logged; the count stays consumed.              *)
ThrottleEnqueue ==
    LET a == ActionOf[sending]
    IN  /\ apc = "throttle"
        /\ \/ /\ fate' = Fated({sending}, "enqueued")
              /\ sent' = [sent EXCEPT ![a] = IF @ > MaxCount THEN @ ELSE @ + 1]
           \/ /\ "enqueue" \in Faults
              /\ fate' = Fated({sending}, "lost")
              /\ UNCHANGED sent
        /\ sending' = NoMatch
        /\ apc' = AfterMatch(batch, immediate)
        /\ UNCHANGED <<up, memory, saved, batch, immediate, received, dispatcher, windowAge,
                       forgotten>>

(* handle_aggregation: join the window, which the first match opens.       *)
HandleAggregation(m) ==
    LET a == ActionOf[m]
        s == agg[a]
    IN  /\ Take(m) /\ policy[a] = "aggregation"
        /\ agg' = [agg EXCEPT ![a] = [matches |-> s.matches \cup {m},
                                      age |-> IF s.matches = {} THEN 0 ELSE s.age]]
        /\ apc' = AfterMatch(Tail(batch), immediate)
        /\ fate' = Fated({m}, "open")
        /\ UNCHANGED <<up, policy, throttle, saved, sending, immediate, received, dispatcher,
                       limits>>

(* All matches without policy go to the outbox in one transaction, or an   *)
(* error is logged and none does.                                          *)
ImmediateEnqueue ==
    /\ apc = "immediate"
    /\ \/ fate' = Fated(immediate, "enqueued")
       \/ "enqueue" \in Faults /\ fate' = Fated(immediate, "lost")
    /\ immediate' = {} /\ apc' = "recv"
    /\ UNCHANGED <<up, memory, saved, batch, sending, received, dispatcher, limits>>

-----------------------------------------------------------------------------
(* The aggregation dispatcher and the final flush.                         *)

(* ActionPayload::Aggregated.                                              *)
Payload(a, ms) == [action |-> a, matches |-> ms]

(* sync_states_to_db: snapshot the entries of both maps, then write row by *)
(* row, throttle rows first.  An entry that was never touched has no row.  *)
StartSync(aggNow) ==
    /\ dpc' = "write"
    /\ snapT' = throttle /\ snapA' = aggNow
    /\ left' =
         {<<"throttle", a>> : a \in {a \in Actions :
             throttle[a] # FreshThrottle[a] \/ savedT[a] # FreshThrottle[a]}}
         \cup
         {<<"aggregation", a>> : a \in {a \in Actions :
             aggNow[a].matches # {} \/ savedA[a].matches # {}}}

NoSnapshot == left' = {} /\ snapT' = FreshThrottle /\ snapA' = FreshAgg

(* Mutant: the age of the window is compared the wrong way round.          *)
DueInverted(a, force) ==
    /\ agg[a].matches # {} /\ policy[a] = "aggregation"
    /\ force \/ agg[a].age < AggWindow

Due(a, force) ==
    /\ agg[a].matches # {} /\ policy[a] = "aggregation"
    /\ force \/ agg[a].age > AggWindow

(* A window collected under a policy that no longer exists is cleared.     *)
Orphaned(a) == agg[a].matches # {} /\ policy[a] # "aggregation"

(* Mutants: windows are enqueued but left in the map; all are emptied.     *)
EmptiedNever(cleared) == agg
EmptiedAll(cleared) == FreshAgg

Emptied(cleared) ==
    [a \in Actions |-> IF a \in cleared THEN [matches |-> {}, age |-> 0] ELSE agg[a]]

Check ==
    LET due == {a \in Actions : Due(a, up = "flushing")}
        orphans == {a \in Actions : Orphaned(a)}
    IN  /\ up # "stopped" /\ dpc = "tick"
        /\ taken' = {Payload(a, agg[a].matches) : a \in due}
        /\ agg' = Emptied(due \cup orphans)
        /\ fate' = Fated(UNION {agg[a].matches : a \in orphans}, "lost")
        /\ IF due # {}
           THEN dpc' = "enqueue" /\ UNCHANGED <<snapT, snapA, left>>
           ELSE StartSync(agg')
        /\ UNCHANGED <<up, policy, throttle, saved, loop, limits>>

(* A failed enqueue of the taken windows is only logged.                   *)
DispatchWindows ==
    /\ dpc = "enqueue"
    /\ \/ fate' = Fated(InPayloads(taken), "enqueued")
       \/ "enqueue" \in Faults /\ fate' = Fated(InPayloads(taken), "lost")
    /\ taken' = {} /\ StartSync(agg)
    /\ UNCHANGED <<up, memory, saved, loop, limits>>

MemoryGone == throttle' = FreshThrottle /\ agg' = FreshAgg /\ UNCHANGED policy

(* After the sync the dispatcher sleeps; the final flush is done, and the  *)
(* supervisor drains the outbox and exits.                                 *)
SyncEnds ==
    /\ NoSnapshot
    /\ IF up = "flushing"
       THEN up' = "stopped" /\ dpc' = "off" /\ MemoryGone
       ELSE dpc' = "tick" /\ UNCHANGED <<up, memory>>

WriteState(w) ==
    /\ dpc = "write" /\ w \in left
    /\ w[1] = "aggregation" => \A v \in left : v[1] = "aggregation"
    /\ IF w[1] = "throttle"
       THEN savedT' = [savedT EXCEPT ![w[2]] = snapT[w[2]]] /\ UNCHANGED savedA
       ELSE savedA' = [savedA EXCEPT ![w[2]] = snapA[w[2]]] /\ UNCHANGED savedT
    /\ left' = left \ {w}
    /\ UNCHANGED <<up, memory, loop, dpc, taken, snapT, snapA, history>>

SyncDone ==
    /\ dpc = "write" /\ left = {}
    /\ SyncEnds
    /\ UNCHANGED <<saved, loop, taken, history>>

(* What ending the process now loses: what only memory holds.              *)
Unsaved == (Aggregated(agg) \cup InPayloads(taken)) \ Aggregated(savedA)
RolledBack == {a \in Actions : throttle[a] # savedT[a]}

(* The first failed write ends the sync with an error, which is logged.    *)
WriteFails ==
    /\ "db" \in Faults
    /\ dpc = "write" /\ left # {}
    /\ SyncEnds
    /\ IF up = "flushing"
       THEN fate' = Fated(Unsaved, "lost") /\ forgotten' = forgotten \cup RolledBack
       ELSE UNCHANGED <<fate, forgotten>>
    /\ UNCHANGED <<saved, loop, taken, windowAge, sent>>

-----------------------------------------------------------------------------
(* The supervisor.                                                         *)

(* AlertManager::new loads the saved states; the outbox and history stay.  *)
Boot ==
    /\ up = "stopped" /\ up' = "running"
    /\ policy' \in Configs
    /\ throttle' = savedT /\ agg' = savedA
    /\ apc' = "recv" /\ dpc' = "tick"
    /\ UNCHANGED <<saved, batch, sending, immediate, received, taken, snapT, snapA, left, history>>

InLoop == (immediate \cup {sending}) \ {NoMatch}

LoopGone ==
    /\ apc' = "off" /\ batch' = <<>> /\ sending' = NoMatch /\ immediate' = {}
    /\ received' = {}

(* Cancelled: join_set.shutdown() drops both tasks at their await, then    *)
(* shutdown() runs one forced check on the same maps.                      *)
Stop ==
    /\ "stop" \in Faults
    /\ up = "running" /\ up' = "flushing"
    /\ LoopGone /\ dpc' = "tick" /\ taken' = {} /\ NoSnapshot
    /\ fate' = Fated(InLoop \cup InPayloads(taken), "lost")
    /\ UNCHANGED <<memory, saved, limits>>

(* The process ends without the flush: crash, or shutdown_timeout.         *)
Die ==
    /\ \/ "crash" \in Faults /\ up # "stopped"
       \/ "timeout" \in Faults /\ up = "flushing"
    /\ up' = "stopped" /\ dpc' = "off" /\ taken' = {} /\ NoSnapshot
    /\ LoopGone /\ MemoryGone
    /\ fate' = Fated(InLoop \cup Unsaved, "lost")
    /\ forgotten' = forgotten \cup RolledBack
    /\ UNCHANGED <<saved, windowAge, sent>>

HandleMatch(m) ==
    SkipUnknown(m) \/ CollectImmediate(m) \/ HandleThrottle(m) \/ HandleAggregation(m)

Next ==
    \/ Tick
    \/ \E b \in Batches : Receive(b)
    \/ \E m \in Matches : HandleMatch(m)
    \/ ThrottleEnqueue \/ ImmediateEnqueue
    \/ Check \/ DispatchWindows
    \/ \E w \in left : WriteState(w)
    \/ SyncDone \/ WriteFails
    \/ Boot \/ Stop \/ Die

Spec == Init /\ [][Next]_vars

(***************************************************************************)
(* Fairness: time passes, the interval ticks, the runtime polls every      *)
(* ready task and the supervisor's shutdown goes on.                       *)
(***************************************************************************)
Fairness ==
    /\ WF_vars(Tick) /\ WF_vars(Boot)
    /\ WF_vars(Check) /\ WF_vars(DispatchWindows)
    /\ WF_vars(\E w \in left : WriteState(w)) /\ WF_vars(SyncDone)

FairSpec == Spec /\ Fairness

-----------------------------------------------------------------------------
(* The maps, the saved rows and the places of the two tasks stay what the  *)
(* Rust types and the control flow say.                                    *)
ThrottleStates == [Actions -> [count : 0..MaxCount, age : 0..(ThrottleWindow + 1)]]
AggStates == [Actions -> [matches : SUBSET Matches, age : 0..(AggWindow + 1)]]

TypeOK ==
    /\ up \in {"running", "flushing", "stopped"} /\ policy \in Configs
    /\ {throttle, savedT, snapT} \subseteq ThrottleStates
    /\ {agg, savedA, snapA} \subseteq AggStates
    /\ apc \in {"off", "recv", "match", "throttle", "immediate"}
    /\ (apc = "throttle") <=> (sending # NoMatch)
    /\ apc \in {"off", "recv"} => batch = <<>> /\ immediate = {}
    /\ apc = "match" => batch # <<>>
    /\ apc = "immediate" => immediate # {} /\ batch = <<>>
    /\ apc # "off" <=> up = "running"
    /\ dpc \in {"off", "tick", "enqueue", "write"} /\ (dpc = "off" <=> up = "stopped")
    /\ (dpc = "enqueue") <=> (taken # {})
    /\ left # {} => dpc = "write"
    /\ fate \in [Matches -> {"new", "open", "enqueued", "suppressed", "lost"}]

(* Every match the alert manager took up and neither enqueued, suppressed  *)
(* nor lost to a fault, an abort or a configuration change is still held:  *)
(* in a map, by a task, or after the process ended in a saved row.  The    *)
(* two tasks never drop a match between them.                              *)
Held ==
    IF up = "stopped"
    THEN Aggregated(savedA)
    ELSE Aggregated(agg) \cup InPayloads(taken) \cup InLoop

AlertsAccountedFor == \A m \in Matches : fate[m] = "open" => m \in Held

(* A throttled action enqueues at most max_count notifications per window, *)
(* also across restarts, unless the process died before the count was      *)
(* synced.                                                                 *)
ThrottleLimit == \A a \in Actions \ forgotten : sent[a] <= MaxCount

(* A shutdown whose flush completes leaves no window that a restart would  *)
(* dispatch again and keeps the throttle counts.                           *)
CleanStop ==
    [][SyncDone /\ up' = "stopped" => Aggregated(savedA) = {} /\ savedT = throttle]_vars

(* A collected match is enqueued once its window ends, or by the shutdown  *)
(* flush, unless an abort cut off the enqueue.                             *)
WindowsAreDispatched ==
    \A m \in Matches :
        up = "running" /\ m \in Aggregated(agg) ~> fate[m] \in {"enqueued", "lost"}

-----------------------------------------------------------------------------
(***************************************************************************)
(* The inductive invariant behind the proofs in AlertManager_proofs.       *)
(***************************************************************************)

(* The types TypeOK leaves to the other variables.                         *)
TaskInv ==
    /\ batch \in Seq(Matches) /\ immediate \subseteq Matches
    /\ sending \in Matches \cup {NoMatch}
    /\ taken \subseteq [action : Actions, matches : SUBSET Matches]
    /\ left \subseteq {"throttle", "aggregation"} \X Actions
    /\ windowAge \in [Actions -> 0..(ThrottleWindow + 1)]
    /\ sent \in [Actions -> 0..(MaxCount + 1)] /\ forgotten \subseteq Actions

(* The forced check of the final flush empties every window, nothing fills *)
(* one or counts a notification after it, and a row that is no longer to   *)
(* be written holds what memory holds.                                     *)
FlushInv ==
    /\ up = "flushing" /\ dpc \in {"enqueue", "write"} => \A a \in Actions : agg[a].matches = {}
    /\ up = "flushing" /\ dpc = "write" =>
         /\ snapT = throttle
         /\ \A a \in Actions :
              /\ snapA[a].matches = {}
              /\ <<"throttle", a>> \notin left => savedT[a] = throttle[a]
              /\ <<"aggregation", a>> \notin left => savedA[a].matches = {}

(* The throttle state that counts: in memory, or the row a boot will load. *)
Counted(a) == IF up = "stopped" THEN savedT[a] ELSE throttle[a]
InFlight(a) == IF sending # NoMatch /\ ActionOf[sending] = a THEN 1 ELSE 0

(* Unless it was rolled back, that state has the age of the real window    *)
(* and counts everything that was, or is being, enqueued in it.            *)
CountInv ==
    \A a \in Actions \ forgotten :
        /\ windowAge[a] = Counted(a).age
        /\ sent[a] + InFlight(a) <= Counted(a).count

IInv == TypeOK /\ TaskInv /\ FlushInv /\ CountInv /\ AlertsAccountedFor
=============================================================================
