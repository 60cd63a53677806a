-------------------------- MODULE ConfigApi_proofs --------------------------
(***************************************************************************)
(* Proofs about ConfigApi, for every set of clients, requests, names,      *)
(* files and faults.                                                       *)
(***************************************************************************)
EXTENDS ConfigApi, TLAPS

-----------------------------------------------------------------------------
(* Requests.                                                               *)

(* The fields of a request have their types, the name by its operation. *)
LEMMA RequestFacts ==
    ASSUME NEW r \in Requests
    PROVE  /\ r \in Request
           /\ r.op = "createMonitor" => r.name \in MonitorName
           /\ r.op \in {"createAction", "updateAction"} => r.name \in ActionName
           /\ r.op = "uploadAbi" => r.name \in AbiName
<1>1. CASE r \in Menu
  BY <1>1, MenuAssumption
<1>2. CASE r \notin Menu
  <2>1. PICK q \in Menu, n \in ActionName : q.op = "deleteAction" /\ r = [q EXCEPT !.name = n]
    BY <1>2 DEF Requests
  <2>2. q \in Request
    BY MenuAssumption
  <2>3. r \in Request /\ r.op = "deleteAction"
    BY <2>1, <2>2 DEF Request
  <2>4. QED BY <2>3
<1>3. QED BY <1>1, <1>2

(* delete_action completes its request with the name it has read. *)
LEMMA NamedRequest ==
    ASSUME NEW r \in Requests, r.op = "deleteAction", NEW n \in ActionName
    PROVE  /\ [r EXCEPT !.name = n] \in Requests
           /\ [r EXCEPT !.name = n].op = "deleteAction"
           /\ [r EXCEPT !.name = n].id = r.id
           /\ [r EXCEPT !.name = n].name = n
<1>1. r \in Request
  BY RequestFacts
<1>2. /\ [r EXCEPT !.name = n].op = "deleteAction"
      /\ [r EXCEPT !.name = n].id = r.id
      /\ [r EXCEPT !.name = n].name = n
  BY <1>1 DEF Request
<1>3. PICK q \in Menu : q.op = "deleteAction" /\ [r EXCEPT !.name = n] = [q EXCEPT !.name = n]
  <2>1. CASE r \in Menu
    BY <2>1
  <2>2. CASE r \notin Menu
    <3>1. PICK q \in Menu, k \in ActionName : q.op = "deleteAction" /\ r = [q EXCEPT !.name = k]
      BY <2>2 DEF Requests
    <3>2. q \in Request
      BY MenuAssumption
    <3>3. [r EXCEPT !.name = n] = [q EXCEPT !.name = n]
      BY <3>1, <3>2 DEF Request
    <3>4. QED BY <3>1, <3>3
  <2>3. QED BY <2>1, <2>2
<1>4. [r EXCEPT !.name = n] \in Requests
  BY <1>3 DEF Requests
<1>5. QED BY <1>2, <1>4

(* A client at work has a request, in a process that serves. *)
LEMMA AtWork ==
    ASSUME IInv, NEW c \in Client, req[c].pc # "idle"
    PROVE  /\ req[c] \in [pc : Pcs, r : Requests \cup {Idle.r}]
           /\ req[c].r \in Requests /\ req[c].r \in Request
           /\ Serving /\ answer[c] = 0
<1>1. req[c].r \in Requests /\ Serving /\ answer[c] = 0
  BY DEF IInv, TypeOK, HandlerInv
<1>2. QED BY <1>1, RequestFacts DEF IInv, ShapeInv

(* Between two lives of the process and during its start no handler runs   *)
(* and nothing is reloaded.                                                *)
LEMMA NobodyAtWork ==
    ASSUME IInv, ~Serving
    PROVE  (\A c \in Client : req[c].pc = "idle") /\ reload.pc = "wait"
BY DEF IInv, TypeOK, Serving

(* The record of an idle client. *)
LEMMA IdleFacts ==
    /\ Idle \in [pc : Pcs, r : Requests \cup {Idle.r}]
    /\ Idle.pc = "idle"
    /\ Waiting \in [pc : {"wait", "read", "apply"}, got : SUBSET MonitorRow]
    /\ Waiting.pc = "wait" /\ Waiting.got = {}
BY DEF Idle, Pcs, Waiting

-----------------------------------------------------------------------------
(* Steps that leave the tables alone.                                      *)

(* What a client found stays true while neither it nor a table moves. *)
LEMMA StillTrueFrame ==
    ASSUME NEW c \in Client, req'[c] = req[c], UNCHANGED tables, StillTrue(c)
    PROVE  StillTrue(c)'
BY DEF StillTrue, tables, GetActionById, GetMonitorsByActionName, GetActionByName, CanRename,
       GetAbi, MonitorsUsingAbi

(* The checks a client has behind it matter only until its write. *)
LEMMA NothingChecked ==
    ASSUME NEW c \in Client, req[c].pc \notin {"unused", "write"}
    PROVE  StillTrue(c)
BY DEF StillTrue

(* The same of the next state. *)
LEMMA NothingCheckedNext ==
    ASSUME NEW c \in Client, req'[c].pc \notin {"unused", "write"}
    PROVE  StillTrue(c)'
BY DEF StillTrue

(* Table, phase and engine untouched: the facts about them carry over. *)
LEMMA StaticFrame ==
    ASSUME IInv, UNCHANGED <<tables, process, excused, edits>>
    PROVE  /\ IdInv' /\ TablesConsistent' /\ StartInv' /\ DanglingExplained' /\ RefusalExplained'
<1> USE DEF tables, process
<1>1. /\ ListAbis' = ListAbis /\ ActionNames' = ActionNames
      /\ CanLink' = CanLink /\ CanDispatch' = CanDispatch
  BY DEF ListAbis, ActionNames, CanLink, CanDispatch
<1>2. IdInv' /\ RefusalExplained'
  BY <1>1 DEF IInv, IdInv, RefusalExplained
<1>3. TablesConsistent'
  BY <1>1 DEF IInv, TablesConsistent, AbiStored
<1>4. StartInv'
  BY <1>1 DEF IInv, StartInv, Serving
<1>5. DanglingExplained'
  BY <1>1 DEF IInv, DanglingExplained
<1>6. QED BY <1>2, <1>3, <1>4, <1>5

(* A pending signal, or the need for one, keeps the engine's lag explained. *)
LEMMA LagFrame ==
    ASSUME IInv, UNCHANGED <<tables, process, reload>>, SignalDue => SignalDue'
    PROVE  ReloadInv' /\ NoChangeForgotten' /\ (RoutedInv /\ excused' = excused => RoutedInv')
<1> USE DEF tables, process
<1>1. Active(monitors)' = Active(monitors) /\ Active(reload.got)' = Active(reload.got)
      /\ Serving' = Serving
  BY DEF Active, Serving
<1>2. ReloadInv'
  BY <1>1 DEF IInv, ReloadInv
<1>3. phase = "up" /\ snapshot # Active(monitors) =>
        SignalDue \/ reload.pc = "read" \/ (reload.pc = "apply" /\ Active(reload.got) = Active(monitors))
  BY DEF IInv, NoChangeForgotten, SignalDue
<1>4. phase' = "up" /\ snapshot' # Active(monitors)' =>
        \/ SignalDue' \/ reload'.pc = "read"
        \/ (reload'.pc = "apply" /\ Active(reload.got)' = Active(monitors)')
  BY <1>1, <1>3
<1>5. NoChangeForgotten'
  BY <1>4 DEF NoChangeForgotten, SignalDue
<1>6. RoutedInv /\ excused' = excused => RoutedInv'
  BY <1>1 DEF RoutedInv
<1>7. QED BY <1>2, <1>5, <1>6

(* One client moves and nothing it can write changes. *)
LEMMA QuietStep ==
    ASSUME IInv, NEW c \in Client,
           NEW new \in [pc : Pcs, r : Requests \cup {Idle.r}],
           req' = [req EXCEPT ![c] = new],
           UNCHANGED <<tables, process, reload, excused, edits>>,
           answer' \in [Client -> Nat], signal' \in BOOLEAN,
           left' \in [requests : Nat, faults : Nat, starts : Nat],
           new.pc # "idle" => Serving /\ new.r \in Requests /\ answer'[c] = 0,
           \A d \in Client \ {c} : answer'[d] = answer[d] /\ (d \in raced => d \in raced'),
           OnPath(new),
           new.pc = "write" /\ new.r.op \in {"createMonitor", "updateMonitor"} =>
              new.r.acts \subseteq known /\ (new.r.logs => new.r.abi \in loaded),
           c \in raced' \/ StillTrue(c)',
           SignalDue => SignalDue'
    PROVE  IInv'
<1>1. /\ req \in [Client -> [pc : Pcs, r : Requests \cup {Idle.r}]]
      /\ req'[c] = new /\ \A d \in Client \ {c} : req'[d] = req[d]
      /\ req' \in [Client -> [pc : Pcs, r : Requests \cup {Idle.r}]]
  BY DEF IInv, ShapeInv
<1>2. ShapeInv'
  BY <1>1 DEF IInv, ShapeInv
<1>3. TypeOK'
  <2>1. Serving' = Serving
    BY DEF Serving, process
  <2>2. \A d \in Client : /\ req'[d].pc \in Pcs
                          /\ req'[d].pc # "idle" => Serving' /\ req'[d].r \in Requests
    BY <1>1, <2>1 DEF IInv, TypeOK
  <2>3. QED BY <2>2 DEF IInv, TypeOK, tables, process
<1>4. HandlerInv'
  <2>1. ASSUME NEW d \in Client \ {c}
        PROVE  /\ req'[d].pc # "idle" => answer'[d] = 0
               /\ OnPath(req'[d])
               /\ req'[d].pc = "write" /\ req'[d].r.op \in {"createMonitor", "updateMonitor"} =>
                     req'[d].r.acts \subseteq known' /\ (req'[d].r.logs => req'[d].r.abi \in loaded')
               /\ d \in raced' \/ StillTrue(d)'
    <3>1. known' = known /\ loaded' = loaded
      BY DEF process
    <3>2. d \in raced \/ StillTrue(d)
      BY DEF IInv, HandlerInv
    <3>3. d \in raced' \/ StillTrue(d)'
      BY <1>1, <3>2, StillTrueFrame
    <3>4. QED BY <1>1, <3>1, <3>3 DEF IInv, HandlerInv
  <2>2. /\ req'[c].pc # "idle" => answer'[c] = 0
        /\ OnPath(req'[c])
        /\ req'[c].pc = "write" /\ req'[c].r.op \in {"createMonitor", "updateMonitor"} =>
              req'[c].r.acts \subseteq known' /\ (req'[c].r.logs => req'[c].r.abi \in loaded')
    BY <1>1 DEF process
  <2>3. QED BY <2>1, <2>2 DEF HandlerInv
<1>5. IdInv' /\ TablesConsistent' /\ StartInv' /\ DanglingExplained' /\ RefusalExplained'
  BY StaticFrame
<1>6. ReloadInv' /\ NoChangeForgotten' /\ RoutedInv'
  BY LagFrame DEF IInv
<1>7. QED BY <1>2, <1>3, <1>4, <1>5, <1>6 DEF IInv

(* A client that is not about to signal moves: the others' signals stay. *)
LEMMA DueFrame ==
    ASSUME IInv, NEW c \in Client, NEW new, req' = [req EXCEPT ![c] = new],
           req[c].pc # "notify", UNCHANGED <<signal, missed>>
    PROVE  SignalDue => SignalDue'
<1>1. \A d \in Client \ {c} : req'[d] = req[d]
  BY DEF IInv, ShapeInv
<1>2. QED BY <1>1 DEF SignalDue

(* An answer ends the request. *)
LEMMA AnswerStep ==
    ASSUME IInv, NEW c \in Client, NEW code \in Nat, Answer(c, code),
           UNCHANGED <<tables, process, reload, excused, edits>>, signal' \in BOOLEAN,
           left' \in [requests : Nat, faults : Nat, starts : Nat],
           \A d \in Client \ {c} : d \in raced => d \in raced',
           SignalDue => SignalDue'
    PROVE  IInv'
<1>1. req' = [req EXCEPT ![c] = Idle] /\ answer' = [answer EXCEPT ![c] = code]
  BY DEF Answer
<1>2. answer' \in [Client -> Nat] /\ \A d \in Client \ {c} : answer'[d] = answer[d]
  BY <1>1 DEF IInv, ShapeInv
<1>3. req'[c] = Idle
  BY <1>1 DEF IInv, ShapeInv
<1>4. StillTrue(c)'
  BY <1>3, IdleFacts, NothingCheckedNext
<1>5. Idle \in [pc : Pcs, r : Requests \cup {Idle.r}] /\ Idle.pc = "idle"
  BY IdleFacts
<1>6. OnPath(Idle)
  BY <1>5 DEF OnPath
<1> HIDE DEF Idle
<1>7. QED BY <1>1, <1>2, <1>4, <1>5, <1>6, QuietStep

(* A check that only reads, and lets its handler go on. *)
LEMMA GotoStep ==
    ASSUME IInv, NEW c \in Client, req[c].pc \notin {"idle", "notify"},
           NEW pc \in {"name", "unused", "write"}, Goto(c, pc), Reads(c),
           pc = "name" => req[c].r.op = "updateAction",
           pc = "write" /\ req[c].r.op \in {"createMonitor", "updateMonitor"} =>
              req[c].r.acts \subseteq known /\ (req[c].r.logs => req[c].r.abi \in loaded),
           c \in raced' \/ StillTrue(c)'
    PROVE  IInv'
<1> DEFINE new == [req[c] EXCEPT !.pc = pc]
<1>1. /\ UNCHANGED <<tables, process, reload, excused, edits, signal, missed, left, answer>>
      /\ req' = [req EXCEPT ![c] = new]
      /\ \A d \in Client \ {c} : d \in raced => d \in raced'
  BY DEF Goto, Reads, channel
<1>2. /\ req[c] \in [pc : Pcs, r : Requests \cup {Idle.r}] /\ req[c].r \in Requests
      /\ Serving /\ answer[c] = 0
  BY AtWork
<1>3. new \in [pc : Pcs, r : Requests \cup {Idle.r}] /\ new.pc = pc /\ new.r = req[c].r
  BY <1>2 DEF Pcs
<1> HIDE DEF new
<1>4. SignalDue => SignalDue'
  BY <1>1, DueFrame
<1>5. answer' \in [Client -> Nat] /\ signal' \in BOOLEAN
      /\ left' \in [requests : Nat, faults : Nat, starts : Nat]
  BY <1>1 DEF IInv, ShapeInv, TypeOK
<1>6. OnPath(new)
  BY <1>3 DEF OnPath
<1>7. QED BY <1>1, <1>2, <1>3, <1>4, <1>5, <1>6, QuietStep

(* A check that only reads, and answers. *)
LEMMA RefusedStep ==
    ASSUME IInv, NEW c \in Client, req[c].pc # "notify", NEW code \in Nat, Answer(c, code), Reads(c)
    PROVE  IInv'
<1>1. /\ UNCHANGED <<tables, process, reload, excused, edits, signal, missed, left>>
      /\ \A d \in Client \ {c} : d \in raced => d \in raced'
  BY DEF Reads, channel
<1>2. SignalDue => SignalDue'
  BY <1>1, DueFrame DEF Answer
<1>3. signal' \in BOOLEAN /\ left' \in [requests : Nat, faults : Nat, starts : Nat]
  BY <1>1 DEF IInv, ShapeInv, TypeOK
<1>4. QED BY <1>1, <1>2, <1>3, AnswerStep

(* The codes are numbers. *)
LEMMA CodeFacts ==
    ASSUME NEW e
    PROVE  PersistenceCode(e) \in Nat /\ ValidationCode(e) \in Nat
<1>1. PersistenceCode(e) \in Nat
  BY DEF PersistenceCode
<1>2. QED BY <1>1 DEF ValidationCode

-----------------------------------------------------------------------------
(* The handlers' checks.                                                   *)

(* A request arrives. *)
LEMMA BeginStep ==
    ASSUME IInv, NEW c \in Client, NEW r \in Menu, Begin(c, r)
    PROVE  IInv'
<1>1. /\ Serving /\ req[c].pc = "idle" /\ left.requests > 0
      /\ left' = [left EXCEPT !.requests = left.requests - 1]
      /\ UNCHANGED <<tables, process, reload, excused, edits, signal, missed, raced>>
  BY DEF Begin, channel, history
<1>2. left' \in [requests : Nat, faults : Nat, starts : Nat] /\ signal' \in BOOLEAN
  <2>1. left.requests \in Nat /\ left.requests - 1 \in Nat
    BY <1>1 DEF IInv, ShapeInv
  <2>2. QED BY <1>1, <2>1 DEF IInv, ShapeInv, TypeOK
<1>3. CASE \E code \in Nat : Answer(c, code)
  <2>1. SignalDue => SignalDue'
    BY <1>1, <1>3, DueFrame DEF Answer
  <2>2. QED BY <1>1, <1>2, <1>3, <2>1, AnswerStep
<1>4. CASE ~ \E code \in Nat : Answer(c, code)
  <2> DEFINE new == [pc |-> FirstStep(r.op), r |-> r]
  <2>1. /\ req' = [req EXCEPT ![c] = new] /\ answer' = [answer EXCEPT ![c] = 0]
    BY <1>4, CodeFacts DEF Begin
  <2>2. r \in Requests /\ r.op \in Ops
    BY MenuAssumption DEF Requests, Request
  <2>3. /\ FirstStep(r.op) \in {"read", "validate", "exists", "name", "unused", "write"}
        /\ FirstStep(r.op) = "read" => r.op \in ReadOps
        /\ FirstStep(r.op) = "validate" => r.op \in {"createMonitor", "updateMonitor"}
        /\ FirstStep(r.op) = "name" => r.op = "createAction"
        /\ FirstStep(r.op) = "unused" => r.op = "deleteAbi"
        /\ FirstStep(r.op) = "write" => r.op \in {"deleteMonitor", "setStatus"}
    BY <2>2 DEF FirstStep, Ops, MonitorOps, ReadOps
  <2>4. new \in [pc : Pcs, r : Requests \cup {Idle.r}] /\ new.pc = FirstStep(r.op) /\ new.r = r
    BY <2>2, <2>3 DEF Pcs
  <2> HIDE DEF new
  <2>5. req'[c] = new /\ answer' \in [Client -> Nat] /\ answer'[c] = 0
        /\ \A d \in Client \ {c} : answer'[d] = answer[d]
    BY <2>1 DEF IInv, ShapeInv
  <2>6. StillTrue(c)'
    BY <2>3, <2>4, <2>5 DEF StillTrue
  <2>7. SignalDue => SignalDue'
    BY <1>1, <2>1, DueFrame
  <2>8. OnPath(new)
    BY <2>3, <2>4 DEF OnPath
  <2>9. QED BY <1>1, <1>2, <2>1, <2>2, <2>3, <2>4, <2>5, <2>6, <2>7, <2>8, QuietStep
<1>5. QED BY <1>3, <1>4

(* A read of the details answers. *)
LEMMA ReadDetailsStep ==
    ASSUME IInv, NEW c \in Client, ReadDetails(c)
    PROVE  IInv'
<1> DEFINE r == req[c].r
           code == CASE r.op = "getMonitor" -> MonitorDetails(r)
                     [] r.op = "getAction" -> ActionDetails(r)
                     [] r.op = "getAbi" -> AbiDetails(r)
<1>1. req[c].pc = "read" /\ Answer(c, code) /\ Reads(c)
  BY DEF ReadDetails
<1>2. r.op \in ReadOps
  BY <1>1 DEF IInv, HandlerInv, OnPath
<1>3. MonitorDetails(r) \in Nat /\ ActionDetails(r) \in Nat /\ AbiDetails(r) \in Nat
  BY CodeFacts DEF MonitorDetails, ActionDetails, AbiDetails
<1>4. code \in Nat
  BY <1>2, <1>3 DEF ReadOps
<1> HIDE DEF code
<1>5. QED BY <1>1, <1>4, RefusedStep

(* The validation of a monitor. *)
LEMMA ValidateMonitorStep ==
    ASSUME IInv, NEW c \in Client, ValidateMonitor(c)
    PROVE  IInv'
<1> DEFINE r == req[c].r
           taken == \E m \in GetMonitors :
                       m.name = r.name /\ (r.op = "updateMonitor" => m.id # r.id)
           code == ValidationCode(IF taken THEN "NameConflict" ELSE "Invalid")
<1>1. req[c].pc = "validate" /\ Step(c, ~taken /\ Validate(r, known), "write", code) /\ Reads(c)
  BY DEF ValidateMonitor
<1>2. code \in Nat
  BY CodeFacts
<1> HIDE DEF code
<1>3. CASE Goto(c, "write") /\ ~taken /\ Validate(r, known)
  <2>1. r.acts \subseteq known /\ (r.logs => r.abi \in loaded)
    BY <1>3 DEF Validate, ActionsExist
  <2>2. /\ req'[c].pc = "write" /\ req'[c].r = r /\ UNCHANGED tables
        /\ r.op \in Ops
    BY <1>1, <1>3, AtWork DEF Goto, Reads, IInv, ShapeInv, Request
  <2>3. CASE r.op = "createMonitor"
    <3>1. r.name \notin {m.name : m \in monitors}
      BY <1>3, <2>3 DEF GetMonitors
    <3>2. StillTrue(c)'
      BY <2>2, <2>3, <3>1 DEF StillTrue, tables
    <3>3. QED BY <1>1, <1>3, <2>1, <3>2, GotoStep
  <2>4. CASE r.op = "updateMonitor"
    <3>1. StillTrue(c)'
      BY <2>2, <2>4 DEF StillTrue
    <3>2. QED BY <1>1, <1>3, <2>1, <3>1, GotoStep
  <2>5. r.op \in {"createMonitor", "updateMonitor"}
    BY <1>1 DEF IInv, HandlerInv, OnPath
  <2>6. QED BY <2>3, <2>4, <2>5
<1>4. CASE Answer(c, code)
  BY <1>1, <1>2, <1>4, RefusedStep
<1>5. QED BY <1>1, <1>3, <1>4 DEF Step

(* Where a client stands after a check that let it go on. *)
LEMMA Moved ==
    ASSUME IInv, NEW c \in Client, NEW pc, Goto(c, pc)
    PROVE  req'[c].pc = pc /\ req'[c].r = req[c].r
BY DEF Goto, IInv, ShapeInv

(* The name of a new or renamed action is looked up. *)
LEMMA ActionNameFreeStep ==
    ASSUME IInv, NEW c \in Client, ActionNameFree(c)
    PROVE  IInv'
<1> DEFINE r == req[c].r
           taken == \E a \in GetActionByName(r.name) : r.op = "updateAction" => a.id # r.id
<1>1. req[c].pc = "name" /\ Step(c, ~taken, "write", ValidationCode("NameConflict")) /\ Reads(c)
  BY DEF ActionNameFree
<1>2. r.op \in {"createAction", "updateAction"}
  BY <1>1 DEF IInv, HandlerInv, OnPath
<1>3. CASE Goto(c, "write") /\ ~taken
  <2>1. req'[c].pc = "write" /\ req'[c].r = r /\ UNCHANGED tables
    BY <1>1, <1>3, Moved DEF Reads
  <2>2. CASE r.op = "createAction"
    <3>1. GetActionByName(r.name) = {}
      BY <1>3, <2>2
    <3>2. StillTrue(c)'
      BY <2>1, <2>2, <3>1 DEF StillTrue, tables, GetActionByName
    <3>3. QED BY <1>1, <1>3, <2>2, <3>2, GotoStep
  <2>3. CASE r.op = "updateAction"
    <3>1. CanRename(r.id, r.name)
      BY <1>3, <2>3 DEF CanRename
    <3>2. StillTrue(c)'
      BY <2>1, <2>3, <3>1 DEF StillTrue, tables, CanRename, GetActionByName
    <3>3. QED BY <1>1, <1>3, <2>3, <3>2, GotoStep
  <2>4. QED BY <1>2, <2>2, <2>3
<1>4. CASE Answer(c, ValidationCode("NameConflict"))
  BY <1>1, <1>4, CodeFacts, RefusedStep
<1>5. QED BY <1>1, <1>3, <1>4 DEF Step

(* The action to update is looked up. *)
LEMMA ActionExistsStep ==
    ASSUME IInv, NEW c \in Client, ActionExists(c)
    PROVE  IInv'
<1>1. /\ req[c].pc = "exists" /\ req[c].r.op = "updateAction" /\ Reads(c)
      /\ Goto(c, "name") \/ Answer(c, ValidationCode("NotFound"))
  BY DEF ActionExists, At, Step
<1>2. CASE Goto(c, "name")
  <2>1. StillTrue(c)'
    BY <1>2, Moved, NothingCheckedNext
  <2>2. QED BY <1>1, <1>2, <2>1, GotoStep
<1>3. CASE Answer(c, ValidationCode("NotFound"))
  BY <1>1, <1>3, CodeFacts, RefusedStep
<1>4. QED BY <1>1, <1>2, <1>3

(* delete_action reads the name of the action. *)
LEMMA ActionNameReadStep ==
    ASSUME IInv, NEW c \in Client, ActionNameRead(c)
    PROVE  IInv'
<1>1. req[c].pc = "exists" /\ req[c].r.op = "deleteAction" /\ Reads(c)
  BY DEF ActionNameRead, At
<1>2. CASE Answer(c, PersistenceCode("NotFound"))
  BY <1>1, <1>2, CodeFacts, RefusedStep
<1>3. CASE ~Answer(c, PersistenceCode("NotFound"))
  <2>1. PICK a \in GetActionById(req[c].r.id) :
          /\ req' = [req EXCEPT ![c] = [pc |-> "unused", r |-> [req[c].r EXCEPT !.name = a.name]]]
          /\ UNCHANGED answer
    BY <1>3 DEF ActionNameRead
  <2> DEFINE r == [req[c].r EXCEPT !.name = a.name]
             new == [pc |-> "unused", r |-> r]
  <2>2. a \in actions /\ a.id = req[c].r.id /\ a.name \in ActionName
    BY DEF GetActionById, IInv, TypeOK, ActionRow
  <2>3. /\ req[c].r \in Requests /\ Serving /\ answer[c] = 0
    BY <1>1, AtWork
  <2>4. r \in Requests /\ r.op = "deleteAction" /\ r.id = req[c].r.id /\ r.name = a.name
    BY <1>1, <2>2, <2>3, NamedRequest
  <2> HIDE DEF r
  <2>5. new \in [pc : Pcs, r : Requests \cup {Idle.r}] /\ new.pc = "unused" /\ new.r = r
    BY <2>4 DEF Pcs
  <2>6. req' = [req EXCEPT ![c] = new] /\ req'[c] = new
    BY <2>1 DEF IInv, ShapeInv, r
  <2> HIDE DEF new
  <2>7. /\ UNCHANGED <<tables, process, reload, excused, edits, signal, missed, left, answer>>
        /\ \A d \in Client \ {c} : d \in raced => d \in raced'
    BY <1>1, <2>1 DEF Reads, channel
  <2>8. \A b \in GetActionById(r.id) : b.name = r.name
    BY <2>2, <2>4 DEF GetActionById, IInv, TablesConsistent
  <2>9. StillTrue(c)'
    BY <2>4, <2>5, <2>6, <2>7, <2>8 DEF StillTrue, tables, GetActionById
  <2>10. SignalDue => SignalDue'
    BY <1>1, <2>6, <2>7, DueFrame
  <2>11. /\ answer' \in [Client -> Nat] /\ signal' \in BOOLEAN
         /\ left' \in [requests : Nat, faults : Nat, starts : Nat]
    BY <2>7 DEF IInv, ShapeInv, TypeOK
  <2>12. OnPath(new)
    BY <2>5 DEF OnPath
  <2>13. QED
    BY <2>3, <2>4, <2>5, <2>6, <2>7, <2>9, <2>10, <2>11, <2>12, QuietStep
<1>4. QED BY <1>2, <1>3

(* delete_action looks for monitors that name the action. *)
LEMMA ActionUnusedStep ==
    ASSUME IInv, NEW c \in Client, ActionUnused(c)
    PROVE  IInv'
<1> DEFINE r == req[c].r
           unused == GetMonitorsByActionName(r.name) = {}
<1>1. /\ req[c].pc = "unused" /\ r.op = "deleteAction" /\ Reads(c)
      /\ (Goto(c, "write") /\ unused) \/ Answer(c, 409)
  BY DEF ActionUnused, At, Step
<1>2. CASE Goto(c, "write") /\ unused
  <2>1. req'[c].pc = "write" /\ req'[c].r = r /\ UNCHANGED tables
    BY <1>1, <1>2, Moved DEF Reads
  <2>2. raced' = raced
    BY <1>1 DEF Reads, FirstStep
  <2>3. ASSUME c \notin raced
        PROVE  StillTrue(c)'
    <3>1. \A a \in GetActionById(r.id) : a.name = r.name
      BY <1>1, <2>3 DEF IInv, HandlerInv, StillTrue
    <3>2. QED BY <1>1, <1>2, <2>1, <3>1 DEF StillTrue, tables, GetActionById, GetMonitorsByActionName
  <2>4. QED BY <1>1, <1>2, <2>2, <2>3, GotoStep
<1>3. CASE Answer(c, 409)
  BY <1>1, <1>3, RefusedStep
<1>4. QED BY <1>1, <1>2, <1>3

(* The name of a new ABI is looked up. *)
LEMMA AbiNameFreeStep ==
    ASSUME IInv, NEW c \in Client, AbiNameFree(c)
    PROVE  IInv'
<1> DEFINE r == req[c].r
<1>1. /\ req[c].pc = "exists" /\ r.op = "uploadAbi" /\ Reads(c)
      /\ (Goto(c, "write") /\ GetAbi(r.name) = {}) \/ Answer(c, 409)
  BY DEF AbiNameFree, At, Step
<1>2. CASE Goto(c, "write") /\ GetAbi(r.name) = {}
  <2>1. req'[c].pc = "write" /\ req'[c].r = r /\ UNCHANGED tables
    BY <1>1, <1>2, Moved DEF Reads
  <2>2. StillTrue(c)'
    BY <1>1, <1>2, <2>1 DEF StillTrue, tables, GetAbi
  <2>3. QED BY <1>1, <1>2, <2>2, GotoStep
<1>3. CASE Answer(c, 409)
  BY <1>1, <1>3, RefusedStep
<1>4. QED BY <1>1, <1>2, <1>3

(* delete_abi looks for monitors that use the ABI. *)
LEMMA AbiUnusedStep ==
    ASSUME IInv, NEW c \in Client, AbiUnused(c)
    PROVE  IInv'
<1> DEFINE r == req[c].r
<1>1. /\ req[c].pc = "unused" /\ r.op = "deleteAbi" /\ Reads(c)
      /\ \/ Goto(c, "write") /\ MonitorsUsingAbi(r.name) = {}
         \/ Answer(c, PersistenceCode("AbiInUse"))
  BY DEF AbiUnused, At, Step
<1>2. CASE Goto(c, "write") /\ MonitorsUsingAbi(r.name) = {}
  <2>1. req'[c].pc = "write" /\ req'[c].r = r /\ UNCHANGED tables
    BY <1>1, <1>2, Moved DEF Reads
  <2>2. StillTrue(c)'
    BY <1>1, <1>2, <2>1 DEF StillTrue, tables, MonitorsUsingAbi
  <2>3. QED BY <1>1, <1>2, <2>2, GotoStep
<1>3. CASE Answer(c, PersistenceCode("AbiInUse"))
  BY <1>1, <1>3, CodeFacts, RefusedStep
<1>4. QED BY <1>1, <1>2, <1>3

-----------------------------------------------------------------------------
(* Signals, faults and refused writes.                                     *)

(* A statement of the repository refuses: the handler answers. *)
LEMMA RefuseStep ==
    ASSUME IInv, NEW c \in Client, req[c].pc # "notify", NEW e, Refuse(c, e)
    PROVE  IInv'
<1>1. /\ Answer(c, PersistenceCode(e))
      /\ UNCHANGED <<tables, process, reload, excused, edits, signal, missed, left, raced>>
  BY DEF Refuse, channel, history
<1>2. SignalDue => SignalDue'
  BY <1>1, DueFrame DEF Answer
<1>3. signal' \in BOOLEAN /\ left' \in [requests : Nat, faults : Nat, starts : Nat]
  BY <1>1 DEF IInv, ShapeInv, TypeOK
<1>4. QED BY <1>1, <1>2, <1>3, CodeFacts, AnswerStep

(* The signal is sent. *)
LEMMA NotifyStep ==
    ASSUME IInv, NEW c \in Client, Notify(c)
    PROVE  IInv'
<1>1. /\ Answer(c, 200) /\ signal' = TRUE
      /\ UNCHANGED <<tables, process, reload, excused, edits, missed, left, raced>>
  BY DEF Notify, history
<1>2. SignalDue'
  BY <1>1 DEF SignalDue
<1>3. left' \in [requests : Nat, faults : Nat, starts : Nat]
  BY <1>1 DEF IInv, ShapeInv
<1>4. QED BY <1>1, <1>2, <1>3, AnswerStep

(* A fault is counted. *)
LEMMA FaultFacts ==
    ASSUME IInv, NEW f, Fault(f)
    PROVE  /\ left' \in [requests : Nat, faults : Nat, starts : Nat]
           /\ left'.faults # left.faults
<1>1. /\ left.faults \in Nat /\ left.faults > 0 /\ left.faults - 1 \in Nat
      /\ left' = [left EXCEPT !.faults = left.faults - 1]
  BY DEF Fault, IInv, ShapeInv
<1>2. QED BY <1>1 DEF IInv, ShapeInv

(* A statement fails. *)
LEMMA DbErrorStep ==
    ASSUME IInv, NEW c \in Client, DbError(c)
    PROVE  IInv'
<1>1. /\ Answer(c, PersistenceCode("OperationFailed")) /\ req[c].pc # "notify" /\ Fault("db")
      /\ UNCHANGED <<tables, process, reload, excused, edits, signal, missed, raced>>
  BY DEF DbError, channel, history
<1>2. SignalDue => SignalDue'
  BY <1>1, DueFrame DEF Answer
<1>3. signal' \in BOOLEAN /\ left' \in [requests : Nat, faults : Nat, starts : Nat]
  BY <1>1, FaultFacts DEF IInv, TypeOK
<1>4. QED BY <1>1, <1>2, <1>3, CodeFacts, AnswerStep

(* A connection closes: the signal of its handler may be missed. *)
LEMMA DisconnectStep ==
    ASSUME IInv, NEW c \in Client, Disconnect(c)
    PROVE  IInv'
<1>1. /\ req' = [req EXCEPT ![c] = Idle] /\ Fault("disconnect")
      /\ missed' = (missed \/ (req[c].pc = "notify" /\ req[c].r.op \in MonitorOps))
      /\ UNCHANGED <<tables, process, reload, excused, edits, signal, answer, raced>>
  BY DEF Disconnect, channel
<1>2. req'[c] = Idle /\ \A d \in Client \ {c} : req'[d] = req[d]
  BY <1>1 DEF IInv, ShapeInv
<1>3. SignalDue => SignalDue'
  BY <1>1, <1>2 DEF SignalDue
<1>4. /\ signal' \in BOOLEAN /\ answer' \in [Client -> Nat]
      /\ left' \in [requests : Nat, faults : Nat, starts : Nat]
  BY <1>1, FaultFacts DEF IInv, TypeOK, ShapeInv
<1>5. StillTrue(c)'
  BY <1>2, IdleFacts, NothingCheckedNext
<1>6. Idle \in [pc : Pcs, r : Requests \cup {Idle.r}] /\ Idle.pc = "idle"
  BY IdleFacts
<1>7. OnPath(Idle)
  BY <1>6 DEF OnPath
<1> HIDE DEF Idle
<1>8. QED BY <1>1, <1>3, <1>4, <1>5, <1>6, <1>7, QuietStep

-----------------------------------------------------------------------------
(* Writes.                                                                 *)

(* What a write must leave: rows that have their types, are identified by  *)
(* their ids and names, name actions or are excused, and, when the         *)
(* monitors change, a handler about to signal it.                          *)
LEMMA WroteStep ==
    ASSUME IInv, NEW c \in Client, req[c].pc = "write", Wrote(c),
           NEW new \in [pc : {"notify", "idle"}, r : Requests \cup {Idle.r}],
           req' = [req EXCEPT ![c] = new], new.pc = "notify" => new.r = req[c].r,
           answer' \in [Client -> Nat], \A d \in Client \ {c} : answer'[d] = answer[d],
           new.pc = "notify" => answer'[c] = 0,
           actions' \subseteq ActionRow, monitors' \subseteq MonitorRow, abis' \subseteq AbiRow,
           nextId' \in [action : Nat, monitor : Nat],
           IdInv', TablesConsistent', DanglingExplained',
           excused \subseteq excused', edits \subseteq edits',
           (\E a \in abis' : a.kind = "json") => "json" \in edits',
           ActionNames \subseteq ActionNames' \/ "action" \in edits',
           \A m \in monitors' : \A n \in m.acts \ known : <<m.id, n>> \in excused',
           monitors' = monitors \/ (new.pc = "notify" /\ req[c].r.op \in MonitorOps)
    PROVE  IInv'
<1>1. /\ UNCHANGED <<phase, todo, known, dispatcher, loaded, snapshot, signal, reload, left, missed>>
      /\ \A d \in Client \ {c} : d \in raced'
  BY DEF Wrote, process, channel
<1>2. /\ req \in [Client -> [pc : Pcs, r : Requests \cup {Idle.r}]]
      /\ req'[c] = new /\ \A d \in Client \ {c} : req'[d] = req[d]
  BY DEF IInv, ShapeInv
<1>3. new \in [pc : Pcs, r : Requests \cup {Idle.r}]
  BY DEF Pcs
<1>4. req' \in [Client -> [pc : Pcs, r : Requests \cup {Idle.r}]]
  BY <1>2, <1>3
<1>5. ShapeInv'
  BY <1>1, <1>4 DEF IInv, ShapeInv
<1>6. Serving /\ Serving' /\ req[c].r \in Requests /\ todo = <<>>
  BY <1>1, AtWork DEF Serving, IInv, TypeOK
<1>7. TypeOK'
  <2>1. \A d \in Client : /\ req'[d].pc \in Pcs
                          /\ req'[d].pc # "idle" => Serving' /\ req'[d].r \in Requests
    BY <1>2, <1>3, <1>6 DEF IInv, TypeOK
  <2>2. QED BY <1>1, <2>1 DEF IInv, TypeOK
<1>8. HandlerInv'
  <2>1. OnPath(new) /\ StillTrue(c)'
    BY <1>2, NothingCheckedNext DEF OnPath
  <2>2. ASSUME NEW d \in Client
        PROVE  /\ req'[d].pc # "idle" => answer'[d] = 0
               /\ OnPath(req'[d])
               /\ req'[d].pc = "write" /\ req'[d].r.op \in {"createMonitor", "updateMonitor"} =>
                     req'[d].r.acts \subseteq known' /\ (req'[d].r.logs => req'[d].r.abi \in loaded')
               /\ d \in raced' \/ StillTrue(d)'
    <3>1. CASE d = c
      BY <1>2, <2>1, <3>1
    <3>2. CASE d # c
      BY <1>1, <1>2, <3>2 DEF IInv, HandlerInv
    <3>3. QED BY <3>1, <3>2
  <2>3. QED BY <2>2 DEF HandlerInv
<1>9. StartInv'
  <2>1. todo' = <<>> /\ phase' \in {"up", "stopping"} /\ phase \in {"up", "stopping"}
    BY <1>1, <1>6 DEF Serving
  <2>2. \/ edits \cap {"action", "load"} # {}
        \/ \A i \in DOMAIN FileActions : FileActions[i] \in ActionNames
    BY <1>6, <2>1 DEF IInv, StartInv
  <2>3. \/ edits' \cap {"action", "load"} # {}
        \/ \A i \in DOMAIN FileActions : FileActions[i] \in ActionNames'
    BY <2>2
  <2>4. QED BY <1>6, <2>1, <2>3 DEF StartInv
<1>10. RefusalExplained'
  BY <1>1, <1>6 DEF RefusalExplained, Serving
<1>11. RoutedInv'
  <2>1. \A m \in reload.got \cup snapshot : \A n \in m.acts \ known : <<m.id, n>> \in excused
    BY <1>6 DEF IInv, RoutedInv
  <2>2. known \subseteq dispatcher.routes \cup dispatcher.publishers
    BY <1>6 DEF IInv, RoutedInv
  <2>3. QED BY <1>1, <2>1, <2>2 DEF RoutedInv
<1>12. SignalDue \/ monitors' # monitors => SignalDue'
  BY <1>1, <1>2 DEF SignalDue
<1>13. ReloadInv' /\ NoChangeForgotten'
  <2>1. CASE monitors' = monitors
    <3>1. Active(monitors)' = Active(monitors) /\ Active(reload.got)' = Active(reload.got)
      BY <1>1, <2>1 DEF Active
    <3>2. phase = "up" /\ snapshot # Active(monitors) =>
            \/ SignalDue \/ reload.pc = "read"
            \/ reload.pc = "apply" /\ Active(reload.got) = Active(monitors)
      BY DEF IInv, NoChangeForgotten, SignalDue
    <3>3. phase' = "up" /\ snapshot' # Active(monitors)' =>
            \/ SignalDue' \/ reload'.pc = "read"
            \/ reload'.pc = "apply" /\ Active(reload.got)' = Active(monitors)'
      BY <1>1, <1>12, <3>1, <3>2
    <3>4. QED BY <1>1, <1>12, <3>1, <3>3 DEF IInv, ReloadInv, NoChangeForgotten, SignalDue
  <2>2. CASE monitors' # monitors
    BY <1>1, <1>12, <2>2 DEF IInv, ReloadInv, NoChangeForgotten, SignalDue
  <2>3. QED BY <2>1, <2>2
<1>14. QED
  BY <1>5, <1>7, <1>8, <1>9, <1>10, <1>11, <1>13 DEF IInv

(* A write of a monitor's row: the other tables stay. *)
LEMMA WroteMonitorStep ==
    ASSUME IInv, NEW c \in Client, req[c].pc = "write", req[c].r.op \in MonitorOps,
           Wrote(c), Goto(c, "notify"), UNCHANGED <<actions, abis, edits>>,
           monitors' \subseteq MonitorRow, nextId' \in [action : Nat, monitor : Nat],
           nextId'.action = nextId.action, excused \subseteq excused',
           \A m \in monitors' : m.id < nextId'.monitor /\ AbiStored(m.abi),
           \A m, n \in monitors' : m.id = n.id \/ m.name = n.name => m = n,
           \A m \in monitors' : \A n \in m.acts \ ActionNames : <<m.id, n>> \in excused',
           \A m \in monitors' : \A n \in m.acts \ known : <<m.id, n>> \in excused'
    PROVE  IInv'
<1> DEFINE new == [req[c] EXCEPT !.pc = "notify"]
<1>1. req[c] \in [pc : Pcs, r : Requests \cup {Idle.r}] /\ answer[c] = 0 /\ req[c].r \in Requests
  BY AtWork
<1>2. /\ new \in [pc : {"notify", "idle"}, r : Requests \cup {Idle.r}]
      /\ new.pc = "notify" /\ new.r = req[c].r
  BY <1>1
<1>3. req' = [req EXCEPT ![c] = new] /\ answer' = answer
  BY DEF Goto
<1> HIDE DEF new
<1>4. ListAbis' = ListAbis /\ ActionNames' = ActionNames
  BY DEF ListAbis, ActionNames
<1>5. IdInv' /\ DanglingExplained'
  BY <1>4 DEF IInv, IdInv, DanglingExplained
<1>6. TablesConsistent'
  BY <1>4 DEF IInv, TablesConsistent, AbiStored
<1>7. (\E a \in abis' : a.kind = "json") => "json" \in edits'
  BY DEF IInv, StartInv
<1>8. /\ answer' \in [Client -> Nat] /\ actions' \subseteq ActionRow /\ abis' \subseteq AbiRow
      /\ \A d \in Client \ {c} : answer'[d] = answer[d]
  BY <1>3 DEF IInv, ShapeInv, TypeOK
<1>9. QED
  BY <1>1, <1>2, <1>3, <1>4, <1>5, <1>6, <1>7, <1>8, WroteStep

(* What is known of a row and of the request of a write. *)
LEMMA WriteFacts ==
    ASSUME IInv, NEW c \in Client, req[c].pc = "write"
    PROVE  /\ req[c].r \in Request
           /\ req[c].r.op \in {"createMonitor", "updateMonitor"} =>
                 req[c].r.acts \subseteq known /\ (req[c].r.logs => req[c].r.abi \in loaded)
           /\ req[c].r.op = "createMonitor" => req[c].r.name \in MonitorName
           /\ req[c].r.op \in {"createAction", "updateAction"} => req[c].r.name \in ActionName
           /\ req[c].r.op = "uploadAbi" => req[c].r.name \in AbiName
           /\ nextId.action \in Nat /\ nextId.monitor \in Nat
           /\ \A m \in monitors : \A n \in m.acts \ known : <<m.id, n>> \in excused
           /\ \A m \in monitors : \A n \in m.acts \ ActionNames : <<m.id, n>> \in excused
<1>1. req[c].r \in Requests /\ Serving
  BY AtWork
<1>2. req[c].r.op \in {"createMonitor", "updateMonitor"} =>
        req[c].r.acts \subseteq known /\ (req[c].r.logs => req[c].r.abi \in loaded)
  BY DEF IInv, HandlerInv
<1>3. /\ nextId.action \in Nat /\ nextId.monitor \in Nat
      /\ \A m \in monitors : \A n \in m.acts \ known : <<m.id, n>> \in excused
      /\ \A m \in monitors : \A n \in m.acts \ ActionNames : <<m.id, n>> \in excused
  BY <1>1 DEF IInv, TypeOK, RoutedInv, DanglingExplained
<1>4. QED BY <1>1, <1>2, <1>3, RequestFacts

(* create_monitor inserts the row. *)
LEMMA WriteNewMonitorStep ==
    ASSUME IInv, NEW c \in Client, WriteNewMonitor(c)
    PROVE  IInv'
<1> DEFINE r == req[c].r
           row == [id |-> nextId.monitor, name |-> r.name, acts |-> r.acts,
                   abi |-> r.abi, status |-> r.status]
<1>1. req[c].pc = "write" /\ r.op = "createMonitor"
  BY DEF WriteNewMonitor, At
<1>2. CASE Refuse(c, "OperationFailed")
  BY <1>1, <1>2, RefuseStep
<1>3. CASE ~Refuse(c, "OperationFailed")
  <2>1. /\ CanInsertMonitor(r) /\ Goto(c, "notify") /\ Wrote(c)
        /\ excused' = excused \cup Unmatched(nextId.monitor, r.acts)
        /\ monitors' = monitors \cup {row}
        /\ nextId' = [nextId EXCEPT !.monitor = nextId.monitor + 1]
        /\ UNCHANGED <<actions, abis, edits>>
    BY <1>3 DEF WriteNewMonitor, InsertMonitor
  <2>2. /\ r \in Request /\ r.acts \subseteq known /\ r.name \in MonitorName
        /\ nextId.action \in Nat /\ nextId.monitor \in Nat
    BY <1>1, WriteFacts
  <2>3. /\ row \in MonitorRow /\ row.id = nextId.monitor /\ row.name = r.name
        /\ row.acts = r.acts /\ row.abi = r.abi
    BY <2>2 DEF MonitorRow, Request
  <2> HIDE DEF row
  <2>4. /\ nextId' \in [action : Nat, monitor : Nat] /\ nextId'.action = nextId.action
        /\ nextId'.monitor = nextId.monitor + 1
    BY <2>1, <2>2 DEF IInv, TypeOK
  <2>5. monitors' \subseteq MonitorRow
    BY <2>1, <2>3 DEF IInv, TypeOK
  <2>6. \A m \in monitors : m.id \in Nat /\ m.id < nextId.monitor /\ AbiStored(m.abi) /\ m.name # r.name
    BY <2>1 DEF IInv, TypeOK, IdInv, TablesConsistent, MonitorRow, CanInsertMonitor
  <2>7. \A m \in monitors' : m.id < nextId'.monitor /\ AbiStored(m.abi)
    BY <2>1, <2>2, <2>3, <2>4, <2>6 DEF CanInsertMonitor
  <2>8. \A m \in monitors : m.id # row.id /\ m.name # row.name
    BY <2>2, <2>3, <2>6
  <2>9. \A m, n \in monitors' : m.id = n.id \/ m.name = n.name => m = n
    BY <2>1, <2>8 DEF IInv, TablesConsistent
  <2>10. \A m \in monitors' : \A n \in m.acts \ ActionNames : <<m.id, n>> \in excused'
    BY <1>1, <2>1, <2>3, WriteFacts DEF Unmatched
  <2>11. \A m \in monitors' : \A n \in m.acts \ known : <<m.id, n>> \in excused'
    BY <1>1, <2>1, <2>2, <2>3, WriteFacts
  <2>12. QED
    BY <1>1, <2>1, <2>4, <2>5, <2>7, <2>9, <2>10, <2>11, WroteMonitorStep DEF MonitorOps
<1>4. QED BY <1>2, <1>3

(* update_monitor writes actions and ABI of a row. *)
LEMMA WriteMonitorStep ==
    ASSUME IInv, NEW c \in Client, WriteMonitor(c)
    PROVE  IInv'
<1> DEFINE r == req[c].r
           upd(y) == IF y.id = r.id THEN [y EXCEPT !.acts = r.acts, !.abi = r.abi] ELSE y
<1>1. req[c].pc = "write" /\ r.op = "updateMonitor"
  BY DEF WriteMonitor, At
<1>2. CASE Refuse(c, "OperationFailed") \/ Refuse(c, "NotFound")
  BY <1>1, <1>2, RefuseStep
<1>3. CASE ~(Refuse(c, "OperationFailed") \/ Refuse(c, "NotFound"))
  <2>1. /\ AbiStored(r.abi) /\ Goto(c, "notify") /\ Wrote(c)
        /\ excused' = excused \cup Unmatched(r.id, r.acts)
        /\ monitors' = {upd(y) : y \in monitors}
        /\ UNCHANGED <<actions, abis, nextId, edits>>
    BY <1>3 DEF WriteMonitor, UpdateMonitor
  <2>2. r \in Request /\ r.acts \subseteq known
    BY <1>1, WriteFacts
  <2>3. ASSUME NEW y \in monitors
        PROVE  /\ upd(y) \in MonitorRow /\ upd(y).id = y.id /\ upd(y).name = y.name
               /\ \/ upd(y) = y
                  \/ upd(y).id = r.id /\ upd(y).acts = r.acts /\ upd(y).abi = r.abi
    <3>1. y \in MonitorRow
      BY DEF IInv, TypeOK
    <3>2. QED BY <2>2, <3>1 DEF MonitorRow, Request
  <2> HIDE DEF upd
  <2>4. /\ monitors' \subseteq MonitorRow /\ nextId' \in [action : Nat, monitor : Nat]
        /\ nextId'.action = nextId.action
    BY <2>1, <2>3 DEF IInv, TypeOK
  <2>5. \A m \in monitors' : m.id < nextId'.monitor /\ AbiStored(m.abi)
    BY <2>1, <2>3 DEF IInv, IdInv, TablesConsistent
  <2>6. ASSUME NEW m \in monitors', NEW n \in monitors', m.id = n.id \/ m.name = n.name
        PROVE  m = n
    <3>1. PICK y \in monitors, z \in monitors : m = upd(y) /\ n = upd(z)
      BY <2>1
    <3>2. y = z
      BY <2>3, <2>6, <3>1 DEF IInv, TablesConsistent
    <3>3. QED BY <3>1, <3>2
  <2>7. ASSUME NEW m \in monitors'
        PROVE  /\ \A n \in m.acts \ ActionNames : <<m.id, n>> \in excused'
               /\ \A n \in m.acts \ known : <<m.id, n>> \in excused'
    <3>1. PICK y \in monitors : m = upd(y)
      BY <2>1
    <3>2. CASE m = y
      BY <1>1, <2>1, <3>2, WriteFacts
    <3>3. CASE m.id = r.id /\ m.acts = r.acts
      BY <2>1, <2>2, <3>3 DEF Unmatched
    <3>4. QED BY <2>3, <3>1, <3>2, <3>3
  <2>8. QED
    BY <1>1, <2>1, <2>4, <2>5, <2>6, <2>7, WroteMonitorStep DEF MonitorOps
<1>4. QED BY <1>2, <1>3

(* update_monitor_status writes the status of a row. *)
LEMMA WriteStatusStep ==
    ASSUME IInv, NEW c \in Client, WriteStatus(c)
    PROVE  IInv'
<1> DEFINE r == req[c].r
           upd(y) == IF y.id = r.id THEN [y EXCEPT !.status = r.status] ELSE y
<1>1. req[c].pc = "write" /\ r.op = "setStatus"
  BY DEF WriteStatus, At
<1>2. CASE Refuse(c, "NotFound")
  BY <1>1, <1>2, RefuseStep
<1>3. CASE ~Refuse(c, "NotFound")
  <2>1. /\ Goto(c, "notify") /\ Wrote(c)
        /\ monitors' = {upd(y) : y \in monitors}
        /\ UNCHANGED <<actions, abis, nextId, excused, edits>>
    BY <1>3 DEF WriteStatus, UpdateMonitorStatus
  <2>2. r \in Request
    BY <1>1, WriteFacts
  <2>3. ASSUME NEW y \in monitors
        PROVE  /\ upd(y) \in MonitorRow /\ upd(y).id = y.id /\ upd(y).name = y.name
               /\ upd(y).acts = y.acts /\ upd(y).abi = y.abi
    <3>1. y \in MonitorRow
      BY DEF IInv, TypeOK
    <3>2. QED BY <2>2, <3>1 DEF MonitorRow, Request
  <2> HIDE DEF upd
  <2>4. /\ monitors' \subseteq MonitorRow /\ nextId' \in [action : Nat, monitor : Nat]
        /\ nextId'.action = nextId.action
    BY <2>1, <2>3 DEF IInv, TypeOK
  <2>5. \A m \in monitors' : m.id < nextId'.monitor /\ AbiStored(m.abi)
    BY <2>1, <2>3 DEF IInv, IdInv, TablesConsistent
  <2>6. ASSUME NEW m \in monitors', NEW n \in monitors', m.id = n.id \/ m.name = n.name
        PROVE  m = n
    <3>1. PICK y \in monitors, z \in monitors : m = upd(y) /\ n = upd(z)
      BY <2>1
    <3>2. y = z
      BY <2>3, <2>6, <3>1 DEF IInv, TablesConsistent
    <3>3. QED BY <3>1, <3>2
  <2>7. ASSUME NEW m \in monitors'
        PROVE  /\ \A n \in m.acts \ ActionNames : <<m.id, n>> \in excused'
               /\ \A n \in m.acts \ known : <<m.id, n>> \in excused'
    BY <1>1, <2>1, <2>3, WriteFacts
  <2>8. QED
    BY <1>1, <2>1, <2>4, <2>5, <2>6, <2>7, WroteMonitorStep DEF MonitorOps
<1>4. QED BY <1>2, <1>3

(* delete_monitor removes a row. *)
LEMMA RemoveMonitorStep ==
    ASSUME IInv, NEW c \in Client, RemoveMonitor(c)
    PROVE  IInv'
<1> DEFINE r == req[c].r
<1>1. req[c].pc = "write" /\ r.op = "deleteMonitor"
  BY DEF RemoveMonitor, At
<1>2. CASE Refuse(c, "NotFound")
  BY <1>1, <1>2, RefuseStep
<1>3. CASE ~Refuse(c, "NotFound")
  <2>1. /\ Goto(c, "notify") /\ Wrote(c) /\ monitors' \subseteq monitors
        /\ UNCHANGED <<actions, abis, nextId, excused, edits>>
    BY <1>3 DEF RemoveMonitor, DeleteMonitor
  <2>2. /\ monitors' \subseteq MonitorRow /\ nextId' \in [action : Nat, monitor : Nat]
        /\ nextId'.action = nextId.action
    BY <2>1 DEF IInv, TypeOK
  <2>3. /\ \A m \in monitors' : m.id < nextId'.monitor /\ AbiStored(m.abi)
        /\ \A m, n \in monitors' : m.id = n.id \/ m.name = n.name => m = n
    BY <2>1 DEF IInv, IdInv, TablesConsistent
  <2>4. ASSUME NEW m \in monitors'
        PROVE  /\ \A n \in m.acts \ ActionNames : <<m.id, n>> \in excused'
               /\ \A n \in m.acts \ known : <<m.id, n>> \in excused'
    BY <1>1, <2>1, WriteFacts
  <2>5. QED
    BY <1>1, <2>1, <2>2, <2>3, <2>4, WroteMonitorStep DEF MonitorOps
<1>4. QED BY <1>2, <1>3

(* A write of an action's row: monitors and ABIs stay. *)
LEMMA WroteActionStep ==
    ASSUME IInv, NEW c \in Client, req[c].pc = "write",
           Wrote(c), Goto(c, "notify"), UNCHANGED <<monitors, abis>>,
           actions' \subseteq ActionRow, nextId' \in [action : Nat, monitor : Nat],
           nextId'.monitor = nextId.monitor, excused \subseteq excused', edits \subseteq edits',
           \A a \in actions' : a.id < nextId'.action,
           \A a, b \in actions' : a.id = b.id \/ a.name = b.name => a = b,
           ActionNames \subseteq ActionNames' \/ "action" \in edits',
           DanglingExplained'
    PROVE  IInv'
<1> DEFINE new == [req[c] EXCEPT !.pc = "notify"]
<1>1. req[c] \in [pc : Pcs, r : Requests \cup {Idle.r}] /\ answer[c] = 0 /\ req[c].r \in Requests
  BY AtWork
<1>2. /\ new \in [pc : {"notify", "idle"}, r : Requests \cup {Idle.r}]
      /\ new.pc = "notify" /\ new.r = req[c].r
  BY <1>1
<1>3. req' = [req EXCEPT ![c] = new] /\ answer' = answer
  BY DEF Goto
<1> HIDE DEF new
<1>4. ListAbis' = ListAbis
  BY DEF ListAbis
<1>5. IdInv'
  BY DEF IInv, IdInv
<1>6. TablesConsistent'
  BY <1>4 DEF IInv, TablesConsistent, AbiStored
<1>7. (\E a \in abis' : a.kind = "json") => "json" \in edits'
  BY DEF IInv, StartInv
<1>8. /\ answer' \in [Client -> Nat] /\ monitors' \subseteq MonitorRow /\ abis' \subseteq AbiRow
      /\ \A d \in Client \ {c} : answer'[d] = answer[d]
  BY <1>3 DEF IInv, ShapeInv, TypeOK
<1>9. \A m \in monitors' : \A n \in m.acts \ known : <<m.id, n>> \in excused'
  BY WriteFacts
<1>10. QED
  BY <1>1, <1>2, <1>3, <1>5, <1>6, <1>7, <1>8, <1>9, WroteStep

(* create_action inserts the row. *)
LEMMA WriteNewActionStep ==
    ASSUME IInv, NEW c \in Client, WriteNewAction(c)
    PROVE  IInv'
<1> DEFINE r == req[c].r
           row == [id |-> nextId.action, name |-> r.name, make |-> r.make]
<1>1. req[c].pc = "write" /\ r.op = "createAction"
  BY DEF WriteNewAction, At
<1>2. CASE Refuse(c, "OperationFailed")
  BY <1>1, <1>2, RefuseStep
<1>3. CASE ~Refuse(c, "OperationFailed")
  <2>1. /\ GetActionByName(r.name) = {} /\ Goto(c, "notify") /\ Wrote(c)
        /\ actions' = actions \cup {row}
        /\ nextId' = [nextId EXCEPT !.action = nextId.action + 1]
        /\ UNCHANGED <<monitors, abis, excused, edits>>
    BY <1>3 DEF WriteNewAction, CreateAction
  <2>2. r.name \in ActionName /\ nextId.action \in Nat /\ r.make \in Makes
    BY <1>1, WriteFacts DEF Request
  <2>3. row \in ActionRow /\ row.id = nextId.action /\ row.name = r.name
    BY <2>2 DEF ActionRow
  <2> HIDE DEF row
  <2>4. /\ nextId' \in [action : Nat, monitor : Nat] /\ nextId'.monitor = nextId.monitor
        /\ nextId'.action = nextId.action + 1
    BY <2>1, <2>2 DEF IInv, TypeOK
  <2>5. \A a \in actions : a.id \in Nat /\ a.id < nextId.action /\ a.name # r.name
    BY <2>1 DEF IInv, TypeOK, IdInv, ActionRow, GetActionByName
  <2>6. actions' \subseteq ActionRow /\ \A a \in actions' : a.id < nextId'.action
    BY <2>1, <2>2, <2>3, <2>4, <2>5 DEF IInv, TypeOK
  <2>7. \A a, b \in actions' : a.id = b.id \/ a.name = b.name => a = b
    <3>1. \A a \in actions : a.id # row.id /\ a.name # row.name
      BY <2>2, <2>3, <2>5
    <3>2. QED BY <2>1, <3>1 DEF IInv, TablesConsistent
  <2>8. ActionNames \subseteq ActionNames'
    BY <2>1 DEF ActionNames
  <2>9. DanglingExplained'
    BY <1>1, <2>1, <2>8, WriteFacts DEF DanglingExplained
  <2>10. QED
    BY <1>1, <2>1, <2>4, <2>6, <2>7, <2>8, <2>9, WroteActionStep
<1>4. QED BY <1>2, <1>3

(* A reference that dangles when the name of an action goes dangled before *)
(* or is one of those that break.                                          *)
LEMMA BrokenFacts ==
    ASSUME NEW id, NEW m \in monitors, NEW n \in m.acts, NEW a \in actions,
           a.id = id, a.name = n
    PROVE  <<m.id, n>> \in Broken(id)
<1>1. a \in GetActionById(id) /\ m \in Referring(a.name)
  BY DEF GetActionById, Referring
<1>2. <<m.id, n>> \in {<<k.id, a.name>> : k \in Referring(a.name)}
  BY <1>1
<1>3. QED BY <1>1, <1>2 DEF Broken

(* update_action renames the row. *)
LEMMA WriteActionStep ==
    ASSUME IInv, NEW c \in Client, WriteAction(c)
    PROVE  IInv'
<1> DEFINE r == req[c].r
           upd(a) == IF a.id = r.id THEN [id |-> r.id, name |-> r.name, make |-> r.make] ELSE a
<1>1. req[c].pc = "write" /\ r.op = "updateAction"
  BY DEF WriteAction, At
<1>2. CASE Refuse(c, "OperationFailed") \/ Refuse(c, "NotFound")
  BY <1>1, <1>2, RefuseStep
<1>3. CASE ~(Refuse(c, "OperationFailed") \/ Refuse(c, "NotFound"))
  <2>1. /\ CanRename(r.id, r.name) /\ Goto(c, "notify") /\ Wrote(c)
        /\ actions' = {upd(a) : a \in actions}
        /\ excused' = excused \cup Broken(r.id) /\ edits' = edits \cup {"action"}
        /\ UNCHANGED <<monitors, abis, nextId>>
    BY <1>3 DEF WriteAction, UpdateAction
  <2>2. r.name \in ActionName /\ r.make \in Makes
    BY <1>1, WriteFacts DEF Request
  <2>3. ASSUME NEW a \in actions
        PROVE  /\ upd(a) \in ActionRow /\ upd(a).id = a.id
               /\ a.id # r.id => upd(a) = a
               /\ a.id = r.id => upd(a).name = r.name
    <3>1. a \in ActionRow
      BY DEF IInv, TypeOK
    <3>2. QED BY <2>2, <3>1 DEF ActionRow
  <2> HIDE DEF upd
  <2>4. /\ nextId' \in [action : Nat, monitor : Nat] /\ nextId'.monitor = nextId.monitor
    BY <2>1 DEF IInv, TypeOK
  <2>5. actions' \subseteq ActionRow /\ \A a \in actions' : a.id < nextId'.action
    BY <2>1, <2>3 DEF IInv, IdInv
  <2>6. ASSUME NEW a \in actions', NEW b \in actions', a.id = b.id \/ a.name = b.name
        PROVE  a = b
    <3>1. PICK x \in actions, y \in actions : a = upd(x) /\ b = upd(y)
      BY <2>1
    <3>2. x.id = y.id
      <4>1. \A z \in actions : z.name = r.name => z.id = r.id
        BY <2>1 DEF CanRename, GetActionByName
      <4>2. QED BY <2>3, <2>6, <3>1, <4>1 DEF IInv, TablesConsistent
    <3>3. x = y
      BY <3>2 DEF IInv, TablesConsistent
    <3>4. QED BY <3>1, <3>3
  <2>7. DanglingExplained'
    <3>1. SUFFICES ASSUME NEW m \in monitors, NEW n \in m.acts, n \notin ActionNames'
                   PROVE  <<m.id, n>> \in excused'
      BY <2>1 DEF DanglingExplained
    <3>2. CASE n \notin ActionNames
      BY <1>1, <2>1, <3>2, WriteFacts
    <3>3. CASE n \in ActionNames
      <4>1. PICK a \in actions : a.name = n
        BY <3>3 DEF ActionNames
      <4>2. a.id = r.id
        BY <2>1, <2>3, <3>1, <4>1 DEF ActionNames
      <4>3. QED BY <2>1, <4>1, <4>2, BrokenFacts
    <3>4. QED BY <3>2, <3>3
  <2>8. QED
    BY <1>1, <2>1, <2>4, <2>5, <2>6, <2>7, WroteActionStep
<1>4. QED BY <1>2, <1>3

(* delete_action removes the row: a monitor that still names the action    *)
(* was written during the request, or names it in a way LIKE misses.       *)
LEMMA RemoveActionStep ==
    ASSUME IInv, NEW c \in Client, RemoveAction(c)
    PROVE  IInv'
<1> DEFINE r == req[c].r
<1>1. req[c].pc = "write" /\ r.op = "deleteAction"
  BY DEF RemoveAction, At
<1>2. CASE Refuse(c, "NotFound")
  BY <1>1, <1>2, RefuseStep
<1>3. CASE ~Refuse(c, "NotFound")
  <2>1. /\ Goto(c, "notify") /\ Wrote(c)
        /\ actions' = actions \ GetActionById(r.id)
        /\ excused' = excused \cup IF c \in raced \/ r.name \in Opaque THEN Broken(r.id) ELSE {}
        /\ edits' = edits \cup {"action"}
        /\ UNCHANGED <<monitors, abis, nextId>>
    BY <1>3 DEF RemoveAction, DeleteAction
  <2>2. /\ nextId' \in [action : Nat, monitor : Nat] /\ nextId'.monitor = nextId.monitor
        /\ actions' \subseteq ActionRow /\ \A a \in actions' : a.id < nextId'.action
        /\ \A a, b \in actions' : a.id = b.id \/ a.name = b.name => a = b
        /\ excused \subseteq excused'
    BY <2>1 DEF IInv, TypeOK, IdInv, TablesConsistent
  <2>3. DanglingExplained'
    <3>1. SUFFICES ASSUME NEW m \in monitors, NEW n \in m.acts, n \notin ActionNames'
                   PROVE  <<m.id, n>> \in excused'
      BY <2>1 DEF DanglingExplained
    <3>2. CASE n \notin ActionNames
      BY <1>1, <2>1, <3>2, WriteFacts
    <3>3. CASE n \in ActionNames
      <4>1. PICK a \in actions : a.name = n
        BY <3>3 DEF ActionNames
      <4>2. a.id = r.id
        BY <2>1, <3>1, <4>1 DEF ActionNames, GetActionById
      <4>3. CASE c \in raced \/ r.name \in Opaque
        BY <2>1, <4>1, <4>2, <4>3, BrokenFacts
      <4>4. CASE c \notin raced /\ r.name \notin Opaque
        <5>1. StillTrue(c)
          BY <4>4 DEF IInv, HandlerInv
        <5>2. a.name = r.name /\ GetMonitorsByActionName(r.name) = {}
          BY <1>1, <4>2, <5>1 DEF StillTrue, GetActionById
        <5>3. m \in GetMonitorsByActionName(r.name)
          <6>1. n \in ActionName /\ n = r.name
            BY <4>1, <5>2 DEF IInv, TypeOK, ActionRow
          <6>2. n \in Alike[r.name]
            BY <4>4, <6>1 DEF Opaque
          <6>3. QED BY <3>1, <6>1, <6>2 DEF GetMonitorsByActionName
        <5>4. QED BY <5>2, <5>3
      <4>5. QED BY <4>3, <4>4
    <3>4. QED BY <3>2, <3>3
  <2>4. QED
    BY <1>1, <2>1, <2>2, <2>3, WroteActionStep
<1>4. QED BY <1>2, <1>3

(* A write of an ABI's row answers at once. *)
LEMMA WroteAbiStep ==
    ASSUME IInv, NEW c \in Client, req[c].pc = "write",
           Wrote(c), Answer(c, 200), UNCHANGED <<actions, monitors, nextId, excused>>,
           abis' \subseteq AbiRow, edits \subseteq edits',
           (\E a \in abis' : a.kind = "json") => "json" \in edits',
           \A a, b \in abis' : a.name = b.name => a = b,
           \A m \in monitors : m.abi # NoAbi => m.abi \in ListAbis'
    PROVE  IInv'
<1>1. req' = [req EXCEPT ![c] = Idle] /\ answer' = [answer EXCEPT ![c] = 200]
  BY DEF Answer
<1>2. /\ Idle \in [pc : {"notify", "idle"}, r : Requests \cup {Idle.r}] /\ Idle.pc = "idle"
  BY DEF Idle
<1> HIDE DEF Idle
<1>3. ActionNames' = ActionNames
  BY DEF ActionNames
<1>4. IdInv' /\ DanglingExplained'
  BY <1>3 DEF IInv, IdInv, DanglingExplained
<1>5. TablesConsistent'
  BY DEF IInv, TablesConsistent, AbiStored
<1>6. /\ answer' \in [Client -> Nat] /\ \A d \in Client \ {c} : answer'[d] = answer[d]
      /\ monitors' \subseteq MonitorRow /\ actions' \subseteq ActionRow
      /\ nextId' \in [action : Nat, monitor : Nat]
  BY <1>1 DEF IInv, ShapeInv, TypeOK
<1>7. \A m \in monitors' : \A n \in m.acts \ known : <<m.id, n>> \in excused'
  BY WriteFacts
<1>8. QED
  BY <1>1, <1>2, <1>3, <1>4, <1>5, <1>6, <1>7, WroteStep

(* upload_abi inserts the row. *)
LEMMA WriteNewAbiStep ==
    ASSUME IInv, NEW c \in Client, WriteNewAbi(c)
    PROVE  IInv'
<1> DEFINE r == req[c].r
           row == [name |-> r.name, kind |-> r.kind]
<1>1. req[c].pc = "write" /\ r.op = "uploadAbi"
  BY DEF WriteNewAbi, At
<1>2. CASE Refuse(c, "OperationFailed")
  BY <1>1, <1>2, RefuseStep
<1>3. CASE ~Refuse(c, "OperationFailed")
  <2>1. /\ GetAbi(r.name) = {} /\ Answer(c, 200) /\ Wrote(c)
        /\ abis' = abis \cup {row}
        /\ edits' = edits \cup IF r.kind = "json" THEN {"json"} ELSE {}
        /\ UNCHANGED <<actions, monitors, nextId, excused>>
    BY <1>3 DEF WriteNewAbi, CreateAbi
  <2>2. r.name \in AbiName /\ r.kind \in {"abi", "json"}
    BY <1>1, WriteFacts DEF Request
  <2>3. row \in AbiRow /\ row.name = r.name /\ row.kind = r.kind
    BY <2>2 DEF AbiRow
  <2> HIDE DEF row
  <2>4. abis' \subseteq AbiRow /\ edits \subseteq edits' /\ ((\E a \in abis' : a.kind = "json") => "json" \in edits')
    BY <2>1, <2>3 DEF IInv, TypeOK, StartInv
  <2>5. \A a, b \in abis' : a.name = b.name => a = b
    BY <2>1, <2>3 DEF IInv, TablesConsistent, GetAbi
  <2>6. \A m \in monitors : m.abi # NoAbi => m.abi \in ListAbis'
    BY <2>1 DEF IInv, TablesConsistent, AbiStored, ListAbis
  <2>7. QED BY <1>1, <2>1, <2>4, <2>5, <2>6, WroteAbiStep
<1>4. QED BY <1>2, <1>3

(* delete_abi removes the row; the foreign key keeps the ABIs in use. *)
LEMMA RemoveAbiStep ==
    ASSUME IInv, NEW c \in Client, RemoveAbi(c)
    PROVE  IInv'
<1> DEFINE r == req[c].r
<1>1. req[c].pc = "write" /\ r.op = "deleteAbi"
  BY DEF RemoveAbi, At
<1>2. CASE Refuse(c, "OperationFailed") \/ Refuse(c, "NotFound")
  BY <1>1, <1>2, RefuseStep
<1>3. CASE ~(Refuse(c, "OperationFailed") \/ Refuse(c, "NotFound"))
  <2>1. /\ MonitorsUsingAbi(r.name) = {} /\ Answer(c, 200) /\ Wrote(c)
        /\ abis' = abis \ GetAbi(r.name)
        /\ UNCHANGED <<actions, monitors, nextId, excused, edits>>
    BY <1>3 DEF RemoveAbi, DeleteAbi
  <2>2. /\ abis' \subseteq AbiRow /\ ((\E a \in abis' : a.kind = "json") => "json" \in edits')
        /\ \A a, b \in abis' : a.name = b.name => a = b
    BY <2>1 DEF IInv, TypeOK, StartInv, TablesConsistent
  <2>3. ASSUME NEW m \in monitors, m.abi # NoAbi
        PROVE  m.abi \in ListAbis'
    <3>1. PICK a \in abis : a.name = m.abi
      BY <2>3 DEF IInv, TablesConsistent, AbiStored, ListAbis
    <3>2. a \notin GetAbi(r.name)
      BY <2>1, <3>1 DEF MonitorsUsingAbi, GetAbi
    <3>3. QED BY <2>1, <3>1, <3>2 DEF ListAbis
  <2>4. QED BY <1>1, <2>1, <2>2, <2>3, WroteAbiStep
<1>4. QED BY <1>2, <1>3

-----------------------------------------------------------------------------
(* The start of the process.                                               *)

(* While the process starts no handler runs: a step is right if the tables *)
(* and the progress of the start are, and going up takes over what the     *)
(* tables hold.                                                            *)
LEMMA StartingStep ==
    ASSUME IInv, ~Serving,
           UNCHANGED <<channel, req, answer, history>>,
           left' \in [requests : Nat, faults : Nat, starts : Nat],
           actions' \subseteq ActionRow, monitors' \subseteq MonitorRow, abis' \subseteq AbiRow,
           nextId' \in [action : Nat, monitor : Nat],
           phase' \in {"abis", "actions", "monitors", "link", "up", "refused"},
           todo' \in Seq(ActionName), known' \subseteq ActionName, loaded' \subseteq AbiName,
           dispatcher' \in [routes : SUBSET ActionName, publishers : SUBSET ActionName],
           todo' # <<>> => phase' = "actions",
           phase' # "up" => snapshot' = {},
           phase' = "up" => /\ snapshot' = Active(monitors)' /\ known' = ActionNames'
                            /\ known' \subseteq dispatcher'.routes \cup dispatcher'.publishers,
           IdInv', TablesConsistent', StartInv', DanglingExplained', RefusalExplained'
    PROVE  IInv'
<1>1. (\A c \in Client : req[c].pc = "idle") /\ reload.pc = "wait"
  BY NobodyAtWork
<1>2. /\ UNCHANGED <<signal, reload, req, answer, missed, raced, excused, edits>>
      /\ reload.got = {}
  BY <1>1 DEF channel, history, IInv, ReloadInv
<1>3. Active(monitors)' \subseteq monitors'
  BY DEF Active
<1>4. snapshot' \subseteq monitors' /\ (Serving' <=> phase' = "up")
  BY <1>3 DEF Serving
<1>5. TypeOK'
  BY <1>1, <1>2, <1>4 DEF IInv, TypeOK
<1>6. ShapeInv'
  BY <1>2 DEF IInv, ShapeInv
<1>7. HandlerInv'
  <2>1. ASSUME NEW c \in Client
        PROVE  /\ req'[c].pc = "idle" /\ OnPath(req'[c]) /\ StillTrue(c)'
    BY <1>1, <1>2, NothingCheckedNext DEF OnPath
  <2>2. QED BY <2>1 DEF HandlerInv
<1>8. RoutedInv'
  <2>1. ASSUME phase' = "up", NEW m \in monitors', NEW n \in m.acts \ known'
        PROVE  <<m.id, n>> \in excused'
    BY <2>1 DEF DanglingExplained
  <2>2. monitors' \cup reload'.got \cup snapshot' = monitors'
    BY <1>2, <1>4
  <2>3. QED BY <1>4, <2>1, <2>2 DEF RoutedInv
<1>9. ReloadInv' /\ NoChangeForgotten'
  BY <1>1, <1>2 DEF ReloadInv, NoChangeForgotten
<1>10. QED
  BY <1>5, <1>6, <1>7, <1>8, <1>9 DEF IInv

(* The tables as they were: what holds of their rows still does. *)
LEMMA SameTables ==
    ASSUME IInv, UNCHANGED tables, UNCHANGED excused
    PROVE  /\ actions' \subseteq ActionRow /\ monitors' \subseteq MonitorRow /\ abis' \subseteq AbiRow
           /\ nextId' \in [action : Nat, monitor : Nat]
           /\ IdInv' /\ TablesConsistent' /\ DanglingExplained'
           /\ ListAbis' = ListAbis /\ ActionNames' = ActionNames /\ CanDispatch' = CanDispatch
           /\ Active(monitors)' = Active(monitors)
<1>1. /\ ListAbis' = ListAbis /\ ActionNames' = ActionNames /\ CanDispatch' = CanDispatch
      /\ Active(monitors)' = Active(monitors)
  BY DEF ListAbis, ActionNames, CanDispatch, tables, Active
<1>2. /\ actions' \subseteq ActionRow /\ monitors' \subseteq MonitorRow /\ abis' \subseteq AbiRow
      /\ nextId' \in [action : Nat, monitor : Nat] /\ IdInv'
  BY DEF tables, IInv, TypeOK, IdInv
<1>3. TablesConsistent'
  BY <1>1 DEF IInv, TablesConsistent, AbiStored, tables
<1>4. DanglingExplained'
  BY <1>1 DEF IInv, DanglingExplained, tables
<1>5. QED BY <1>1, <1>2, <1>3, <1>4

(* Before the process is up. *)
LEMMA StartFacts ==
    ASSUME IInv, ~Serving
    PROVE  /\ snapshot = {}
           /\ todo \in Seq(ActionName) /\ known \subseteq ActionName /\ loaded \subseteq AbiName
           /\ dispatcher \in [routes : SUBSET ActionName, publishers : SUBSET ActionName]
           /\ left \in [requests : Nat, faults : Nat, starts : Nat]
           /\ phase # "actions" => todo = <<>>
BY DEF IInv, StartInv, TypeOK, ShapeInv

(* The process starts. *)
LEMMA StartStep ==
    ASSUME IInv, Start
    PROVE  IInv'
<1>1. /\ ~Serving /\ phase \in {"down", "refused"} /\ phase' = "abis"
      /\ left' = [left EXCEPT !.starts = left.starts - 1] /\ left.starts > 0
      /\ UNCHANGED <<tables, todo, known, dispatcher, loaded, snapshot, channel, req, answer, history>>
      /\ UNCHANGED excused /\ UNCHANGED edits
  BY DEF Start, Serving, history
<1>2. left' \in [requests : Nat, faults : Nat, starts : Nat]
  <2>1. left.starts \in Nat /\ left.starts - 1 \in Nat
    BY <1>1 DEF IInv, ShapeInv
  <2>2. QED BY <1>1, <2>1 DEF IInv, ShapeInv
<1>3. StartInv'
  BY <1>1, StartFacts, SameTables DEF IInv, StartInv, tables
<1>4. RefusalExplained'
  BY <1>1 DEF RefusalExplained
<1>5. QED
  BY <1>1, <1>2, <1>3, <1>4, StartFacts, SameTables, StartingStep

(* An ABI of a file is stored. *)
LEMMA SyncAbiStep ==
    ASSUME IInv, NEW name \in FileAbis, SyncAbi(name)
    PROVE  IInv'
<1> DEFINE row == [name |-> name, kind |-> "abi"]
<1>1. /\ ~Serving /\ phase = "abis" /\ name \notin ListAbis
      /\ abis' = abis \cup {row}
      /\ UNCHANGED <<actions, monitors, nextId, phase, todo, known, dispatcher, loaded, snapshot, left>>
      /\ UNCHANGED <<channel, req, answer, history>> /\ UNCHANGED excused /\ UNCHANGED edits
  BY DEF SyncAbi, CreateAbi, Serving, history, process
<1>2. row \in AbiRow /\ row.name = name /\ row.kind = "abi"
  BY FileAssumption DEF AbiRow
<1> HIDE DEF row
<1>3. abis' \subseteq AbiRow /\ \A a, b \in abis' : a.name = b.name => a = b
  BY <1>1, <1>2 DEF IInv, TypeOK, TablesConsistent, ListAbis
<1>4. ListAbis \subseteq ListAbis' /\ ActionNames' = ActionNames
  BY <1>1 DEF ListAbis, ActionNames
<1>5. TablesConsistent'
  BY <1>1, <1>3, <1>4 DEF IInv, TablesConsistent, AbiStored
<1>6. IdInv' /\ DanglingExplained' /\ RefusalExplained'
  BY <1>1, <1>4 DEF IInv, IdInv, DanglingExplained, RefusalExplained
<1>7. StartInv'
  BY <1>1, <1>2, <1>4, StartFacts DEF IInv, StartInv
<1>8. /\ actions' \subseteq ActionRow /\ monitors' \subseteq MonitorRow
      /\ nextId' \in [action : Nat, monitor : Nat]
  BY <1>1 DEF IInv, TypeOK
<1>9. QED
  BY <1>1, <1>3, <1>5, <1>6, <1>7, <1>8, StartFacts, StartingStep

(* The stored ABIs are parsed and loaded. *)
LEMMA LoadRepositoryStep ==
    ASSUME IInv, LoadRepository
    PROVE  IInv'
<1>1. /\ ~Serving /\ phase = "abis" /\ FileAbis \subseteq ListAbis
      /\ UNCHANGED <<tables, known, dispatcher, snapshot, channel, req, answer, left, history>>
      /\ UNCHANGED excused /\ UNCHANGED edits /\ UNCHANGED tables
  BY DEF LoadRepository, Serving, history
<1>2. ListAbis \subseteq AbiName /\ todo = <<>> /\ snapshot' = {}
  BY <1>1, StartFacts DEF IInv, TypeOK, ListAbis, AbiRow
<1>3. CASE \A a \in abis : a.kind = "abi"
  <2>1. /\ phase' = "actions" /\ loaded' = ListAbis
        /\ todo' = IF actions = {} THEN FileActions ELSE <<>>
    BY <1>3 DEF LoadRepository, GetAllAbis
  <2>2. todo' \in Seq(ActionName)
    BY <2>1, FileAssumption
  <2>3. actions = {} => ActionNames = {}
    BY DEF ActionNames
  <2>4. /\ \A i, j \in DOMAIN todo' : todo'[i] = todo'[j] => i = j
        /\ \A i \in DOMAIN todo' : todo'[i] \notin ActionNames
    BY <2>1, <2>3, FileAssumption
  <2>5. \/ edits' \cap {"action", "load"} # {}
        \/ \A i \in DOMAIN FileActions :
             FileActions[i] \in ActionNames \/ \E j \in DOMAIN todo' : todo'[j] = FileActions[i]
    BY <1>1, <1>2, <2>1 DEF IInv, StartInv
  <2>6. StartInv'
    BY <1>1, <1>2, <2>1, <2>4, <2>5, SameTables DEF IInv, StartInv, tables
  <2>7. RefusalExplained'
    BY <2>1 DEF RefusalExplained
  <2>8. QED
    BY <1>1, <1>2, <2>1, <2>2, <2>6, <2>7, StartFacts, SameTables, StartingStep
<1>4. CASE ~ \A a \in abis : a.kind = "abi"
  <2>1. phase' = "refused" /\ UNCHANGED <<loaded, todo>>
    BY <1>4 DEF LoadRepository, GetAllAbis
  <2>2. "json" \in edits /\ \E a \in abis : a.kind = "json"
    BY <1>4 DEF IInv, StartInv, TypeOK, AbiRow
  <2>3. StartInv'
    BY <1>1, <1>2, <2>1, SameTables DEF IInv, StartInv, tables
  <2>4. RefusalExplained'
    BY <1>1, <2>1, <2>2 DEF RefusalExplained, tables
  <2>5. QED
    BY <1>1, <1>2, <2>1, <2>3, <2>4, StartFacts, SameTables, StartingStep
<1>5. QED BY <1>3, <1>4

(* The next action of the file is stored. *)
LEMMA LoadActionStep ==
    ASSUME IInv, LoadAction
    PROVE  IInv'
<1> DEFINE row == [id |-> nextId.action, name |-> Head(todo), make |-> FileMake[Head(todo)]]
<1>1. /\ ~Serving /\ phase = "actions" /\ todo # <<>> /\ todo' = Tail(todo)
      /\ actions' = actions \cup {row}
      /\ nextId' = [nextId EXCEPT !.action = nextId.action + 1]
      /\ UNCHANGED <<monitors, abis, phase, known, dispatcher, loaded, snapshot, left>>
      /\ UNCHANGED <<channel, req, answer, history>> /\ UNCHANGED excused /\ UNCHANGED edits
  BY DEF LoadAction, CreateAction, Serving, history
<1>2. /\ todo \in Seq(ActionName) /\ nextId \in [action : Nat, monitor : Nat]
      /\ nextId.action \in Nat
  BY DEF IInv, TypeOK
<1>3. /\ Len(todo) \in Nat \ {0} /\ Head(todo) = todo[1] /\ 1 \in DOMAIN todo
      /\ DOMAIN todo = 1 .. Len(todo)
      /\ Head(todo) \in ActionName /\ todo' \in Seq(ActionName)
      /\ DOMAIN todo' = 1 .. Len(todo) - 1
      /\ \A i \in DOMAIN todo' : i + 1 \in DOMAIN todo /\ todo'[i] = todo[i + 1] /\ i \in Nat
  BY <1>1, <1>2
<1>4. row \in ActionRow /\ row.id = nextId.action /\ row.name = Head(todo)
  BY <1>2, <1>3, FileAssumption DEF ActionRow
<1> HIDE DEF row
<1>5. /\ nextId' \in [action : Nat, monitor : Nat] /\ nextId'.monitor = nextId.monitor
      /\ nextId'.action = nextId.action + 1
  BY <1>1, <1>2
<1>6. /\ ActionNames' = ActionNames \cup {Head(todo)} /\ ListAbis' = ListAbis
      /\ Head(todo) \notin ActionNames
  BY <1>1, <1>3, <1>4 DEF ActionNames, ListAbis, IInv, StartInv
<1>7. \A a \in actions : a.id \in Nat /\ a.id < nextId.action /\ a.name # row.name
  BY <1>4, <1>6 DEF IInv, TypeOK, IdInv, ActionRow, ActionNames
<1>8. actions' \subseteq ActionRow /\ IdInv'
  BY <1>1, <1>2, <1>4, <1>5, <1>7 DEF IInv, TypeOK, IdInv
<1>9. TablesConsistent'
  <2>1. \A a \in actions : a.id # row.id /\ a.name # row.name
    BY <1>2, <1>4, <1>7
  <2>2. \A a, b \in actions' : a.id = b.id \/ a.name = b.name => a = b
    BY <1>1, <2>1 DEF IInv, TablesConsistent
  <2>3. QED BY <1>1, <1>6, <2>2 DEF IInv, TablesConsistent, AbiStored
<1>10. DanglingExplained' /\ RefusalExplained'
  BY <1>1, <1>6 DEF IInv, DanglingExplained, RefusalExplained
<1>11. StartInv'
  <2>1. /\ \A i, j \in DOMAIN todo : todo[i] = todo[j] => i = j
        /\ \A i \in DOMAIN todo : todo[i] \notin ActionNames
    BY DEF IInv, StartInv
  <2>2. \A i, j \in DOMAIN todo' : todo'[i] = todo'[j] => i = j
    BY <1>3, <2>1
  <2>3. \A i \in DOMAIN todo' : todo'[i] \notin ActionNames'
    BY <1>3, <1>6, <2>1
  <2>4. ASSUME NEW j \in DOMAIN todo, j # 1
        PROVE  \E k \in DOMAIN todo' : todo'[k] = todo[j]
    <3>1. j \in Nat /\ j - 1 \in DOMAIN todo' /\ (j - 1) + 1 = j
      BY <1>3, <2>4
    <3>2. QED BY <1>3, <3>1
  <2>5. \/ edits \cap {"action", "load"} # {}
        \/ \A i \in DOMAIN FileActions :
             FileActions[i] \in ActionNames \/ \E j \in DOMAIN todo : todo[j] = FileActions[i]
    BY <1>1 DEF IInv, StartInv
  <2>6. ASSUME NEW x, x \in ActionNames \/ \E j \in DOMAIN todo : todo[j] = x
        PROVE  x \in ActionNames' \/ \E k \in DOMAIN todo' : todo'[k] = x
    BY <1>3, <1>6, <2>4, <2>6
  <2>7. \/ edits' \cap {"action", "load"} # {}
        \/ \A i \in DOMAIN FileActions :
             FileActions[i] \in ActionNames' \/ \E j \in DOMAIN todo' : todo'[j] = FileActions[i]
    BY <1>1, <2>5, <2>6
  <2>8. QED
    BY <1>1, <1>6, <2>2, <2>3, <2>7, StartFacts DEF IInv, StartInv
<1>12. monitors' \subseteq MonitorRow /\ abis' \subseteq AbiRow
  BY <1>1 DEF IInv, TypeOK
<1>13. QED
  BY <1>1, <1>3, <1>5, <1>8, <1>9, <1>10, <1>11, <1>12, StartFacts, StartingStep

(* The action file is done. *)
LEMMA ActionsLoadedStep ==
    ASSUME IInv, ActionsLoaded
    PROVE  IInv'
<1>1. /\ ~Serving /\ phase = "actions" /\ todo = <<>> /\ phase' = "monitors"
      /\ UNCHANGED <<tables, todo, known, dispatcher, loaded, snapshot, channel, req, answer, left, history>>
      /\ UNCHANGED tables /\ UNCHANGED excused /\ UNCHANGED edits
  BY DEF ActionsLoaded, Serving, history
<1>2. StartInv'
  BY <1>1, StartFacts, SameTables DEF IInv, StartInv, tables
<1>3. RefusalExplained'
  BY <1>1 DEF RefusalExplained
<1>4. QED
  BY <1>1, <1>2, <1>3, StartFacts, SameTables, StartingStep

(* The process goes up: it knows the actions of the table, has a route for *)
(* all but the publishers that failed, and runs the active monitors.       *)
LEMMA GoUpStep ==
    ASSUME IInv, NEW failing \in SUBSET Publishers, GoUp(failing)
    PROVE  IInv'
<1>1. /\ ~Serving /\ phase = "link" /\ phase' = "up"
      /\ known' = ActionNames /\ snapshot' = Active(monitors)
      /\ dispatcher' = [routes |-> ActionNames \ failing, publishers |-> Publishers]
      /\ UNCHANGED <<tables, todo, loaded, channel, req, answer, left, history>>
      /\ UNCHANGED tables /\ UNCHANGED excused /\ UNCHANGED edits
  BY DEF GoUp, Serving, history, GetMonitors
<1>2. ActionNames \subseteq ActionName /\ Publishers \subseteq ActionNames
  BY DEF IInv, TypeOK, ActionNames, ActionRow, Publishers
<1>3. /\ dispatcher' \in [routes : SUBSET ActionName, publishers : SUBSET ActionName]
      /\ known' \subseteq dispatcher'.routes \cup dispatcher'.publishers
  BY <1>1, <1>2
<1>4. StartInv'
  BY <1>1, StartFacts, SameTables DEF IInv, StartInv, tables, Serving
<1>5. RefusalExplained'
  BY <1>1 DEF RefusalExplained
<1>6. QED
  BY <1>1, <1>2, <1>3, <1>4, <1>5, StartFacts, SameTables, StartingStep

(* The build fails: the ABIs can be linked, so it is the dispatcher.       *)
LEMMA BuildFailsStep ==
    ASSUME IInv, BuildFails
    PROVE  IInv'
<1>1. /\ ~Serving /\ phase = "link" /\ phase' = "refused" /\ ~(CanLink /\ CanDispatch)
      /\ UNCHANGED <<tables, todo, known, dispatcher, loaded, snapshot, channel, req, answer, left, history>>
      /\ UNCHANGED tables /\ UNCHANGED excused /\ UNCHANGED edits
  BY DEF BuildFails, Serving, history
<1>2. ~CanDispatch
  BY <1>1 DEF IInv, RefusalExplained
<1>3. StartInv'
  BY <1>1, StartFacts, SameTables DEF IInv, StartInv, tables
<1>4. RefusalExplained'
  BY <1>1, <1>2, SameTables DEF RefusalExplained
<1>5. QED
  BY <1>1, <1>3, <1>4, StartFacts, SameTables, StartingStep

(* The monitor file is skipped, stored or refused. *)
LEMMA LoadMonitorFileStep ==
    ASSUME IInv, LoadMonitorFile
    PROVE  IInv'
<1>1. /\ ~Serving /\ phase = "monitors" /\ todo = <<>>
      /\ UNCHANGED <<todo, known, dispatcher, loaded, snapshot, channel, req, answer, left, history>>
      /\ UNCHANGED excused /\ UNCHANGED edits
  BY StartFacts DEF LoadMonitorFile, Serving, history
<1>2. /\ loaded = ListAbis /\ FileAbis \subseteq ListAbis
      /\ \/ edits \cap {"action", "load"} # {}
         \/ \A i \in DOMAIN FileActions : FileActions[i] \in ActionNames
  BY <1>1 DEF IInv, StartInv
<1>3. CASE UNCHANGED tables /\ phase' = "link"
  <2>1. StartInv'
    BY <1>1, <1>2, <1>3, StartFacts, SameTables DEF IInv, StartInv, tables
  <2>2. CanLink'
    BY <1>1, <1>2, <1>3 DEF CanLink, tables, IInv, TablesConsistent, AbiStored
  <2>3. RefusalExplained'
    BY <1>3, <2>2 DEF RefusalExplained
  <2>4. QED
    BY <1>1, <1>3, <2>1, <2>3, StartFacts, SameTables, StartingStep
<1>4. CASE /\ monitors = {} /\ UNCHANGED tables /\ phase' = "refused"
           /\ \E i \in DOMAIN FileMonitors : ~Validate(FileMonitors[i], ActionNames)
  <2>1. PICK i \in DOMAIN FileMonitors : ~Validate(FileMonitors[i], ActionNames)
    BY <1>4
  <2>2. FileMonitors[i].logs => FileMonitors[i].abi \in loaded
    BY <1>2, FileAssumption
  <2>3. ~(FileMonitors[i].acts \subseteq ActionNames)
    BY <2>1, <2>2 DEF Validate, ActionsExist
  <2>4. edits \cap {"action", "load"} # {}
    BY <1>2, <2>3, FileAssumption
  <2>5. StartInv'
    BY <1>1, <1>4, <2>4, StartFacts, SameTables DEF IInv, StartInv, tables
  <2>6. RefusalExplained'
    BY <1>1, <1>4, <2>4 DEF RefusalExplained, tables
  <2>7. QED
    BY <1>1, <1>4, <2>5, <2>6, StartFacts, SameTables, StartingStep
<1>5. CASE /\ monitors = {} /\ LoadMonitors(FileMonitors) /\ phase' = "link"
           /\ \A i \in DOMAIN FileMonitors : Validate(FileMonitors[i], ActionNames)
  <2> DEFINE row(i) == [id |-> nextId.monitor + i - 1, name |-> FileMonitors[i].name,
                        acts |-> FileMonitors[i].acts, abi |-> FileMonitors[i].abi,
                        status |-> FileMonitors[i].status]
             n0 == nextId.monitor
             n == Len(FileMonitors)
  <2>1. /\ monitors' = {row(i) : i \in DOMAIN FileMonitors}
        /\ nextId' = [nextId EXCEPT !.monitor = n0 + n] /\ UNCHANGED <<actions, abis>>
    BY <1>5 DEF LoadMonitors
  <2>2. n0 \in Nat /\ n \in Nat /\ DOMAIN FileMonitors = 1 .. n
    BY FileAssumption DEF IInv, TypeOK
  <2>3. nextId' \in [action : Nat, monitor : Nat] /\ nextId'.monitor = n0 + n
        /\ nextId'.action = nextId.action
    BY <2>1, <2>2 DEF IInv, TypeOK
  <2>4. ASSUME NEW i \in DOMAIN FileMonitors
        PROVE  /\ row(i) \in MonitorRow /\ row(i).id = n0 + i - 1 /\ row(i).id < n0 + n
               /\ row(i).name = FileMonitors[i].name /\ row(i).acts = FileMonitors[i].acts
               /\ row(i).abi = FileMonitors[i].abi
    <3> DEFINE FileRow == [name : MonitorName, acts : SUBSET ActionName,
                           abi : AbiName \cup {NoAbi}, logs : BOOLEAN,
                           status : {"active", "paused"}]
    <3>0. FileMonitors \in Seq(FileRow)
      BY FileAssumption
    <3>1. FileMonitors[i] \in FileRow
      <4> HIDE DEF FileRow
      <4>1. QED BY <3>0
    <3>2. i \in Nat /\ i >= 1 /\ i =< n /\ n0 + i - 1 \in Nat /\ n0 + i - 1 < n0 + n
      BY <2>2
    <3>3. QED BY <3>1, <3>2 DEF MonitorRow
  <2> HIDE DEF row
  <2>5. ListAbis' = ListAbis /\ ActionNames' = ActionNames
    BY <2>1 DEF ListAbis, ActionNames
  <2>6. monitors' \subseteq MonitorRow /\ actions' \subseteq ActionRow /\ abis' \subseteq AbiRow
    BY <2>1, <2>4 DEF IInv, TypeOK
  <2>7. IdInv'
    BY <2>1, <2>3, <2>4 DEF IInv, IdInv
  <2>8. ASSUME NEW k \in monitors', NEW l \in monitors', k.id = l.id \/ k.name = l.name
        PROVE  k = l
    <3>1. PICK i \in DOMAIN FileMonitors, j \in DOMAIN FileMonitors : k = row(i) /\ l = row(j)
      BY <2>1
    <3>2. CASE k.id = l.id
      <4>1. i \in Nat /\ j \in Nat /\ n0 + i - 1 = n0 + j - 1
        BY <2>2, <2>4, <3>1, <3>2
      <4>2. i = j
        BY <2>2, <4>1
      <4>3. QED BY <3>1, <4>2
    <3>3. CASE k.name = l.name
      <4>1. FileMonitors[i].name = FileMonitors[j].name
        BY <2>4, <3>1, <3>3
      <4>2. i = j
        BY <4>1, FileAssumption
      <4>3. QED BY <3>1, <4>2
    <3>4. QED BY <2>8, <3>2, <3>3
  <2>9. \A k \in monitors' : AbiStored(k.abi)
    <3>1. \A i \in DOMAIN FileMonitors : FileMonitors[i].abi \in FileAbis \cup {NoAbi}
      BY FileAssumption
    <3>2. QED BY <1>2, <2>1, <2>4, <3>1 DEF AbiStored
  <2>10. TablesConsistent'
    BY <2>1, <2>5, <2>8, <2>9 DEF IInv, TablesConsistent, AbiStored
  <2>11. DanglingExplained'
    <3>1. \A k \in monitors' : k.acts \subseteq ActionNames
      BY <1>5, <2>1, <2>4 DEF Validate, ActionsExist
    <3>2. QED BY <2>5, <3>1 DEF DanglingExplained
  <2>12. StartInv'
    BY <1>1, <1>2, <1>5, <2>1, <2>5, StartFacts DEF IInv, StartInv
  <2>13. RefusalExplained'
    <3>1. CanLink'
      BY <1>1, <1>2, <2>9 DEF CanLink, AbiStored
    <3>2. QED BY <1>5, <3>1 DEF RefusalExplained
  <2>14. QED
    BY <1>1, <1>5, <2>3, <2>6, <2>7, <2>10, <2>11, <2>12, <2>13, StartFacts, StartingStep
<1>6. QED
  BY <1>3, <1>4, <1>5 DEF LoadMonitorFile

-----------------------------------------------------------------------------
(* The end of the process and the reload.                                  *)

(* The supervisor leaves its loop. *)
LEMMA StopStep ==
    ASSUME IInv, Stop
    PROVE  IInv'
<1>1. /\ phase = "up" /\ phase' = "stopping" /\ reload.pc = "wait"
      /\ UNCHANGED <<tables, todo, known, dispatcher, loaded, snapshot, channel, req, answer, left, history>>
      /\ UNCHANGED tables /\ UNCHANGED <<signal, reload, missed, raced, excused, edits>>
  BY DEF Stop, channel, history
<1>2. Serving /\ Serving'
  BY <1>1 DEF Serving
<1>3. TypeOK'
  BY <1>1, <1>2, SameTables DEF IInv, TypeOK
<1>4. ShapeInv'
  BY <1>1 DEF IInv, ShapeInv
<1>5. HandlerInv'
  <2>1. \A c \in Client : StillTrue(c) => StillTrue(c)'
    BY <1>1, StillTrueFrame
  <2>2. QED BY <1>1, <2>1 DEF IInv, HandlerInv
<1>6. StartInv'
  BY <1>1, <1>2, SameTables DEF IInv, StartInv, tables
<1>7. RefusalExplained' /\ NoChangeForgotten'
  BY <1>1 DEF RefusalExplained, NoChangeForgotten
<1>8. RoutedInv' /\ ReloadInv'
  BY <1>1, <1>2 DEF IInv, RoutedInv, ReloadInv, tables
<1>9. QED
  BY <1>1, <1>3, <1>4, <1>5, <1>6, <1>7, <1>8, SameTables DEF IInv

(* The process is gone; the tables stay. *)
LEMMA ExitStep ==
    ASSUME IInv, Exit, left' \in [requests : Nat, faults : Nat, starts : Nat]
    PROVE  IInv'
<1>1. /\ phase' = "down" /\ todo' = <<>> /\ known' = {} /\ loaded' = {} /\ snapshot' = {}
      /\ dispatcher' = NoDispatcher
      /\ signal' = FALSE /\ reload' = Waiting /\ req' = [c \in Client |-> Idle] /\ missed' = FALSE
      /\ edits' = edits \cup IF todo # <<>> THEN {"load"} ELSE {}
      /\ UNCHANGED tables /\ UNCHANGED <<answer, raced, excused>>
  BY DEF Exit
<1>2. \A c \in Client : req'[c] = Idle /\ req'[c].pc = "idle"
  BY <1>1, IdleFacts
<1>3. reload'.pc = "wait" /\ reload'.got = {} /\ ~Serving'
      /\ reload' \in [pc : {"wait", "read", "apply"}, got : SUBSET MonitorRow]
  BY <1>1, IdleFacts DEF Serving
<1>4. req' \in [Client -> [pc : Pcs, r : Requests \cup {Idle.r}]]
  <2>1. Idle \in [pc : Pcs, r : Requests \cup {Idle.r}]
    BY IdleFacts
  <2> HIDE DEF Idle
  <2>2. QED BY <1>1, <2>1
<1>5. ShapeInv'
  BY <1>1, <1>3, <1>4 DEF IInv, ShapeInv
<1>6. TypeOK'
  <2>1. \A c \in Client : /\ req'[c].pc \in Pcs
                          /\ req'[c].pc # "idle" => Serving' /\ req'[c].r \in Requests
    BY <1>2 DEF Pcs
  <2>2. /\ todo' \in Seq(ActionName) /\ known' \subseteq ActionName /\ loaded' \subseteq AbiName
        /\ snapshot' \subseteq MonitorRow /\ signal' \in BOOLEAN /\ reload'.got \subseteq MonitorRow
    <3>1. <<>> \in Seq(ActionName)
      OBVIOUS
    <3>2. QED BY <1>1, <1>3, <3>1
  <2>3. /\ actions' \subseteq ActionRow /\ monitors' \subseteq MonitorRow /\ abis' \subseteq AbiRow
        /\ nextId' \in [action : Nat, monitor : Nat]
    BY <1>1, SameTables
  <2>4. dispatcher' \in [routes : SUBSET ActionName, publishers : SUBSET ActionName]
    BY <1>1 DEF NoDispatcher
  <2>5. QED BY <1>1, <1>3, <2>1, <2>2, <2>3, <2>4 DEF TypeOK
<1>7. HandlerInv'
  <2>1. ASSUME NEW c \in Client
        PROVE  OnPath(req'[c]) /\ StillTrue(c)'
    BY <1>2, NothingCheckedNext DEF OnPath
  <2>2. QED BY <1>2, <2>1 DEF HandlerInv
<1>8. StartInv'
  <2>1. \/ edits' \cap {"action", "load"} # {}
        \/ actions = {}
        \/ \A i \in DOMAIN FileActions : FileActions[i] \in ActionNames
    <3>1. CASE todo # <<>>
      BY <1>1, <3>1
    <3>2. CASE todo = <<>>
      BY <1>1, <3>2 DEF IInv, StartInv
    <3>3. QED BY <3>1, <3>2
  <2>2. ActionNames' = ActionNames /\ UNCHANGED <<actions, abis>>
    BY <1>1, SameTables DEF tables
  <2>3. /\ phase' \notin {"actions", "monitors", "link"} /\ phase' = "down"
        /\ snapshot' = {} /\ DOMAIN todo' = {}
    BY <1>1
  <2>4. (\E a \in abis' : a.kind = "json") => "json" \in edits'
    BY <1>1, <2>2 DEF IInv, StartInv
  <2>5. QED BY <2>1, <2>2, <2>3, <2>4 DEF StartInv
<1>9. RefusalExplained' /\ NoChangeForgotten' /\ RoutedInv' /\ ReloadInv'
  BY <1>1, <1>3 DEF RefusalExplained, NoChangeForgotten, RoutedInv, ReloadInv
<1>10. QED
  BY <1>1, <1>5, <1>6, <1>7, <1>8, <1>9, SameTables DEF IInv

(* A step of the reload: handlers, tables and phase stay. *)
LEMMA ReloadStep ==
    ASSUME IInv, UNCHANGED tables,
           UNCHANGED <<phase, todo, known, dispatcher, loaded, req, answer, raced, excused, edits>>,
           reload' \in [pc : {"wait", "read", "apply"}, got : SUBSET MonitorRow],
           left' \in [requests : Nat, faults : Nat, starts : Nat], signal' \in BOOLEAN,
           phase = "up", snapshot' \subseteq MonitorRow,
           reload'.got \cup snapshot' \subseteq monitors \cup reload.got \cup snapshot,
           ReloadInv', NoChangeForgotten'
    PROVE  IInv'
<1>1. Serving /\ Serving'
  BY DEF Serving
<1>2. TypeOK'
  BY <1>1, SameTables DEF IInv, TypeOK
<1>3. ShapeInv'
  BY DEF IInv, ShapeInv
<1>4. HandlerInv'
  <2>1. \A c \in Client : StillTrue(c) => StillTrue(c)'
    BY StillTrueFrame
  <2>2. QED BY <2>1 DEF IInv, HandlerInv
<1>5. StartInv'
  BY <1>1, SameTables DEF IInv, StartInv, tables
<1>6. RefusalExplained'
  BY DEF RefusalExplained
<1>7. RoutedInv'
  BY <1>1 DEF IInv, RoutedInv, tables
<1>8. QED
  BY <1>2, <1>3, <1>4, <1>5, <1>6, <1>7, SameTables DEF IInv

(* The supervisor sees the signal: it reads the table next. *)
LEMMA SeeChangeStep ==
    ASSUME IInv, SeeChange
    PROVE  IInv'
<1>1. /\ phase = "up" /\ reload.pc = "wait" /\ signal' = FALSE
      /\ reload' = [reload EXCEPT !.pc = "read"] /\ UNCHANGED tables
      /\ UNCHANGED <<phase, todo, known, dispatcher, loaded, snapshot, req, answer, left, raced, excused, edits>>
  BY DEF SeeChange, process, history
<1>2. /\ reload' \in [pc : {"wait", "read", "apply"}, got : SUBSET MonitorRow]
      /\ reload'.pc = "read" /\ reload'.got = {}
      /\ left' \in [requests : Nat, faults : Nat, starts : Nat] /\ snapshot' \subseteq MonitorRow
  BY <1>1 DEF IInv, ShapeInv, ReloadInv, TypeOK
<1>3. ReloadInv' /\ NoChangeForgotten'
  BY <1>2 DEF ReloadInv, NoChangeForgotten
<1>4. QED BY <1>1, <1>2, <1>3, ReloadStep

(* The reload reads the table. *)
LEMMA ReadTableStep ==
    ASSUME IInv, ReadTable
    PROVE  IInv'
<1>1. /\ reload.pc = "read" /\ reload' = [pc |-> "apply", got |-> monitors] /\ UNCHANGED tables
      /\ UNCHANGED <<phase, todo, known, dispatcher, loaded, snapshot, signal, req, answer, left, raced, excused, edits>>
  BY DEF ReadTable, process, GetMonitors
<1>2. /\ reload' \in [pc : {"wait", "read", "apply"}, got : SUBSET MonitorRow]
      /\ reload'.pc = "apply" /\ reload'.got = monitors /\ phase = "up"
      /\ left' \in [requests : Nat, faults : Nat, starts : Nat] /\ snapshot' \subseteq MonitorRow
      /\ signal' \in BOOLEAN
  BY <1>1 DEF IInv, ShapeInv, TypeOK
<1>3. Active(reload.got)' = Active(monitors)'
  BY <1>1, <1>2 DEF Active, tables
<1>4. ReloadInv' /\ NoChangeForgotten'
  BY <1>2, <1>3 DEF ReloadInv, NoChangeForgotten
<1>5. QED BY <1>1, <1>2, <1>4, ReloadStep

(* The read fails: the change is missed. *)
LEMMA ReadFailsStep ==
    ASSUME IInv, ReadFails
    PROVE  IInv'
<1>1. /\ reload.pc = "read" /\ reload' = Waiting /\ missed' = TRUE /\ Fault("db") /\ UNCHANGED tables
      /\ UNCHANGED <<phase, todo, known, dispatcher, loaded, snapshot, signal, req, answer, raced, excused, edits>>
  BY DEF ReadFails, process
<1>2. /\ reload' \in [pc : {"wait", "read", "apply"}, got : SUBSET MonitorRow]
      /\ reload'.pc = "wait" /\ reload'.got = {} /\ phase = "up"
      /\ left' \in [requests : Nat, faults : Nat, starts : Nat] /\ snapshot' \subseteq MonitorRow
      /\ signal' \in BOOLEAN
  BY <1>1, IdleFacts, FaultFacts DEF IInv, TypeOK
<1>3. ReloadInv' /\ NoChangeForgotten'
  BY <1>1, <1>2 DEF ReloadInv, NoChangeForgotten
<1>4. QED BY <1>1, <1>2, <1>3, ReloadStep

(* The engine takes over what was read; if the table has changed since, a  *)
(* signal is due.                                                          *)
LEMMA ApplyStep ==
    ASSUME IInv, Apply
    PROVE  IInv'
<1>1. /\ reload.pc = "apply" /\ reload' = Waiting /\ snapshot' = Active(reload.got)
      /\ UNCHANGED tables
      /\ UNCHANGED <<phase, todo, known, dispatcher, loaded, signal, missed, req, answer, left, raced, excused, edits>>
  BY DEF Apply, history
<1>2. /\ reload' \in [pc : {"wait", "read", "apply"}, got : SUBSET MonitorRow]
      /\ reload'.pc = "wait" /\ reload'.got = {} /\ phase = "up"
      /\ left' \in [requests : Nat, faults : Nat, starts : Nat] /\ signal' \in BOOLEAN
      /\ reload.got \subseteq MonitorRow
  BY <1>1, IdleFacts DEF IInv, TypeOK, ShapeInv
<1>3. snapshot' \subseteq reload.got
  BY <1>1 DEF Active
<1>4. snapshot' # Active(monitors)' => SignalDue
  BY <1>1, SameTables DEF IInv, ReloadInv
<1>5. SignalDue => SignalDue'
  BY <1>1 DEF SignalDue
<1>6. ReloadInv' /\ NoChangeForgotten'
  BY <1>2, <1>4, <1>5 DEF ReloadInv, NoChangeForgotten, SignalDue
<1>7. QED BY <1>1, <1>2, <1>3, <1>6, ReloadStep

-----------------------------------------------------------------------------
(* The theorems.                                                           *)

(* The initial state. *)
LEMMA InitIInv == Init => IInv
<1> SUFFICES ASSUME Init PROVE IInv
  OBVIOUS
<1>1. /\ actions = {} /\ monitors = {} /\ abis = {} /\ nextId = [action |-> 1, monitor |-> 1]
      /\ phase = "down" /\ todo = <<>> /\ known = {} /\ loaded = {} /\ snapshot = {}
      /\ dispatcher = NoDispatcher
      /\ signal = FALSE /\ reload = Waiting /\ req = [c \in Client |-> Idle]
      /\ answer = [c \in Client |-> 0] /\ raced = {} /\ edits = {}
      /\ left = [requests |-> MaxRequests, faults |-> MaxFaults, starts |-> MaxStarts]
  BY DEF Init, EmptyTables, Gone
<1>2. \A c \in Client : req[c] = Idle /\ req[c].pc = "idle"
  BY <1>1, IdleFacts
<1>3. /\ reload.pc = "wait" /\ reload.got = {} /\ ~Serving
      /\ reload \in [pc : {"wait", "read", "apply"}, got : SUBSET MonitorRow]
  BY <1>1, IdleFacts DEF Serving
<1>4. req \in [Client -> [pc : Pcs, r : Requests \cup {Idle.r}]]
  <2>1. Idle \in [pc : Pcs, r : Requests \cup {Idle.r}]
    BY IdleFacts
  <2> HIDE DEF Idle
  <2>2. QED BY <1>1, <2>1
<1>5. ShapeInv
  BY <1>1, <1>3, <1>4, BoundAssumption DEF ShapeInv
<1>6. TypeOK
  <2>1. \A c \in Client : req[c].pc \in Pcs /\ (req[c].pc # "idle" => Serving /\ req[c].r \in Requests)
    BY <1>2 DEF Pcs
  <2>2. nextId \in [action : Nat, monitor : Nat] /\ todo \in Seq(ActionName)
    BY <1>1
  <2>3. dispatcher \in [routes : SUBSET ActionName, publishers : SUBSET ActionName]
    BY <1>1 DEF NoDispatcher
  <2>4. QED BY <1>1, <1>3, <2>1, <2>2, <2>3 DEF TypeOK
<1>7. HandlerInv
  <2>1. ASSUME NEW c \in Client
        PROVE  OnPath(req[c]) /\ StillTrue(c)
    BY <1>2, NothingChecked DEF OnPath
  <2>2. QED BY <1>2, <2>1 DEF HandlerInv
<1>8. IdInv /\ TablesConsistent /\ StartInv /\ DanglingExplained
  BY <1>1 DEF IdInv, TablesConsistent, StartInv, DanglingExplained
<1>9. RefusalExplained /\ NoChangeForgotten /\ RoutedInv /\ ReloadInv
  BY <1>1, <1>3 DEF RefusalExplained, NoChangeForgotten, RoutedInv, ReloadInv
<1>10. QED
  BY <1>5, <1>6, <1>7, <1>8, <1>9 DEF IInv

(* A step that changes nothing. *)
LEMMA StutterIInv == IInv /\ UNCHANGED vars => IInv'
<1> SUFFICES ASSUME IInv, UNCHANGED vars PROVE IInv'
  OBVIOUS
<1>1. /\ UNCHANGED <<tables, process, excused, edits>> /\ UNCHANGED <<tables, process, reload>>
      /\ UNCHANGED <<actions, monitors, abis, nextId, phase, todo, known, dispatcher, loaded, snapshot>>
      /\ UNCHANGED tables /\ UNCHANGED <<signal, reload, req, answer, left, missed, raced, excused, edits>>
  BY DEF vars, channel, history, tables, process
<1>2. SignalDue => SignalDue'
  BY <1>1 DEF SignalDue
<1>3. ReloadInv' /\ NoChangeForgotten' /\ RoutedInv'
  BY <1>1, <1>2, LagFrame DEF IInv
<1>4. IdInv' /\ TablesConsistent' /\ StartInv' /\ DanglingExplained' /\ RefusalExplained'
  BY <1>1, StaticFrame
<1>5. TypeOK' /\ ShapeInv'
  BY <1>1 DEF IInv, TypeOK, ShapeInv, Serving
<1>6. HandlerInv'
  <2>1. \A c \in Client : StillTrue(c) => StillTrue(c)'
    BY <1>1, StillTrueFrame
  <2>2. QED BY <1>1, <2>1 DEF IInv, HandlerInv
<1>7. QED BY <1>3, <1>4, <1>5, <1>6 DEF IInv

(* Every step keeps the invariant. *)
LEMMA NextIInv == IInv /\ [Next]_vars => IInv'
<1> SUFFICES ASSUME IInv, [Next]_vars PROVE IInv'
  OBVIOUS
<1>1. CASE Build
  BY <1>1, StartStep, SyncAbiStep, LoadRepositoryStep, LoadActionStep, ActionsLoadedStep,
     LoadMonitorFileStep, GoUpStep, BuildFailsStep DEF Build
<1>2. ASSUME NEW c \in Client, NEW r \in Menu, Begin(c, r) PROVE IInv'
  BY <1>2, BeginStep
<1>3. ASSUME NEW c \in Client, Check(c) PROVE IInv'
  BY <1>3, ReadDetailsStep, ValidateMonitorStep, ActionNameFreeStep, ActionExistsStep,
     ActionNameReadStep, ActionUnusedStep, AbiNameFreeStep, AbiUnusedStep DEF Check
<1>4. ASSUME NEW c \in Client, Write(c) PROVE IInv'
  BY <1>4, WriteNewMonitorStep, WriteMonitorStep, RemoveMonitorStep, WriteStatusStep,
     WriteNewActionStep, WriteActionStep, RemoveActionStep, WriteNewAbiStep, RemoveAbiStep DEF Write
<1>5. ASSUME NEW c \in Client, Notify(c) \/ Disconnect(c) \/ DbError(c) PROVE IInv'
  BY <1>5, NotifyStep, DisconnectStep, DbErrorStep
<1>6. CASE Reload \/ ReadFails
  BY <1>6, SeeChangeStep, ReadTableStep, ReadFailsStep, ApplyStep DEF Reload
<1>7. CASE Stop
  BY <1>7, StopStep
<1>8. CASE StopEnds
  BY <1>8, ExitStep DEF StopEnds, IInv, ShapeInv
<1>9. CASE Crash
  BY <1>9, ExitStep, FaultFacts DEF Crash
<1>10. CASE UNCHANGED vars
  BY <1>10, StutterIInv
<1>11. QED
  BY <1>1, <1>2, <1>3, <1>4, <1>5, <1>6, <1>7, <1>8, <1>9, <1>10 DEF Next, Handle

(* The conjunction is an invariant of the configuration API. *)
THEOREM Inductive == Spec => []IInv
BY InitIInv, NextIInv, PTL DEF Spec

(* Every variable keeps its type, for every set of clients, requests and   *)
(* files: handlers exist only in a process that serves, and a reload only  *)
(* in one that is up.                                                      *)
THEOREM TypeCorrect == Spec => []TypeOK
<1>1. IInv => TypeOK
  BY DEF IInv
<1>2. QED BY <1>1, Inductive, PTL

(* Ids and names identify rows and a monitor's ABI is stored, whatever     *)
(* order the checks and the writes of concurrent handlers come in.         *)
THEOREM TablesStayConsistent == Spec => []TablesConsistent
<1>1. IInv => TablesConsistent
  BY DEF IInv
<1>2. QED BY <1>1, Inductive, PTL

(* No change of the monitors is forgotten: the collapse of signals in the  *)
(* watch channel loses none, only a fault does.                            *)
THEOREM ChangeRemembered == Spec => []NoChangeForgotten
<1>1. IInv => NoChangeForgotten
  BY DEF IInv
<1>2. QED BY <1>1, Inductive, PTL

(* A monitor names an action that does not exist only for one of the four  *)
(* reasons the history variable records.                                   *)
THEOREM DanglingHasReason == Spec => []DanglingExplained
<1>1. IInv => DanglingExplained
  BY DEF IInv
<1>2. QED BY <1>1, Inductive, PTL

(* The dispatcher has every action the running monitors name, but for the  *)
(* excused references and the publishers of its start that may have failed *)
(* to build, although a reload brings in monitors and never actions.       *)
THEOREM RunningMonitorsRouted == Spec => []AlertsRouted
<1>1. IInv => AlertsRouted
  BY DEF IInv, RoutedInv, AlertsRouted
<1>2. QED BY <1>1, Inductive, PTL

(* The start of the process fails only for the reasons named, a stored     *)
(* action without a dispatcher among them, and linking the ABIs of the     *)
(* monitors never does.                                                    *)
THEOREM RefusalHasReason == Spec => []RefusalExplained
<1>1. IInv => RefusalExplained
  BY DEF IInv
<1>2. QED BY <1>1, Inductive, PTL

-----------------------------------------------------------------------------
(* Internal errors.                                                        *)

(* The code of an answer, and the clients that got none. *)
LEMMA AnswerFacts ==
    ASSUME IInv, NEW d \in Client, NEW code, Answer(d, code)
    PROVE  /\ answer'[d] = code
           /\ \A c \in Client \ {d} : req'[c] = req[c]
BY DEF Answer, IInv, ShapeInv

(* A handler that goes on does not end. *)
LEMMA GotoFacts ==
    ASSUME IInv, NEW d \in Client, NEW pc, Goto(d, pc)
    PROVE  req'[d].pc = pc /\ \A c \in Client \ {d} : req'[c] = req[c]
BY DEF Goto, IInv, ShapeInv

(* The codes of the errors that are the client's. *)
LEMMA ClientErrors ==
    /\ PersistenceCode("NotFound") = 404 /\ PersistenceCode("AbiInUse") = 409
    /\ ValidationCode("Invalid") = 422 /\ ValidationCode("NameConflict") = 409
    /\ ValidationCode("NotFound") = 404
<1>1. PersistenceCode("NotFound") = 404 /\ PersistenceCode("AbiInUse") = 409
  BY DEF PersistenceCode
<1>2. QED BY <1>1 DEF ValidationCode

(* No check of a handler answers 500, but for an id that is no number. *)
LEMMA CheckErrors ==
    ASSUME IInv, NEW c \in Client, NEW d \in Client, Check(d),
           req[c].pc # "idle", req'[c].pc = "idle", answer'[c] = 500
    PROVE  req[c].r.op = "getMonitor" /\ req[c].r.id = 0
<1>1. CASE ReadDetails(d)
  <2> DEFINE r == req[d].r
             code == CASE r.op = "getMonitor" -> MonitorDetails(r)
                       [] r.op = "getAction" -> ActionDetails(r)
                       [] r.op = "getAbi" -> AbiDetails(r)
  <2>1. req[d].pc = "read" /\ Answer(d, code)
    BY <1>1 DEF ReadDetails
  <2>2. r.op \in ReadOps
    BY <2>1 DEF IInv, HandlerInv, OnPath
  <2>3. code = 500 => r.op = "getMonitor" /\ r.id = 0
    BY <2>2 DEF ReadOps, MonitorDetails, ActionDetails, AbiDetails
  <2> HIDE DEF code
  <2>4. QED BY <2>1, <2>3, AnswerFacts
<1>2. CASE ValidateMonitor(d)
  <2>1. Goto(d, "write") \/ Answer(d, ValidationCode("NameConflict")) \/ Answer(d, ValidationCode("Invalid"))
    BY <1>2 DEF ValidateMonitor, Step
  <2>2. QED BY <2>1, AnswerFacts, GotoFacts, ClientErrors
<1>3. CASE ActionNameFree(d)
  <2>1. Goto(d, "write") \/ Answer(d, ValidationCode("NameConflict"))
    BY <1>3 DEF ActionNameFree, Step
  <2>2. QED BY <2>1, AnswerFacts, GotoFacts, ClientErrors
<1>4. CASE ActionExists(d)
  <2>1. Goto(d, "name") \/ Answer(d, ValidationCode("NotFound"))
    BY <1>4 DEF ActionExists, Step
  <2>2. QED BY <2>1, AnswerFacts, GotoFacts, ClientErrors
<1>5. CASE ActionNameRead(d)
  <2>1. CASE Answer(d, PersistenceCode("NotFound"))
    BY <2>1, AnswerFacts, ClientErrors
  <2>2. CASE ~Answer(d, PersistenceCode("NotFound"))
    BY <1>5, <2>2 DEF ActionNameRead, IInv, ShapeInv
  <2>3. QED BY <2>1, <2>2
<1>6. CASE ActionUnused(d)
  <2>1. Goto(d, "write") \/ Answer(d, 409)
    BY <1>6 DEF ActionUnused, Step
  <2>2. QED BY <2>1, AnswerFacts, GotoFacts
<1>7. CASE AbiNameFree(d)
  <2>1. Goto(d, "write") \/ Answer(d, 409)
    BY <1>7 DEF AbiNameFree, Step
  <2>2. QED BY <2>1, AnswerFacts, GotoFacts
<1>8. CASE AbiUnused(d)
  <2>1. Goto(d, "write") \/ Answer(d, PersistenceCode("AbiInUse"))
    BY <1>8 DEF AbiUnused, Step
  <2>2. QED BY <2>1, AnswerFacts, GotoFacts, ClientErrors
<1>9. QED
  BY <1>1, <1>2, <1>3, <1>4, <1>5, <1>6, <1>7, <1>8 DEF Check

(* A write answers 500 only if a check was overtaken by another client, or *)
(* the validator missed that the ABI of the monitor is not stored.         *)
LEMMA WriteErrors ==
    ASSUME IInv, NEW c \in Client, NEW d \in Client, Write(d),
           req[c].pc # "idle", req'[c].pc = "idle", answer'[c] = 500
    PROVE  \/ c \in raced
           \/ MissedAbi(req[c].r)
<1> DEFINE r == req[d].r
<1>1. req[d].pc = "write"
  BY DEF Write, WriteNewMonitor, WriteMonitor, RemoveMonitor, WriteStatus, WriteNewAction,
         WriteAction, RemoveAction, WriteNewAbi, RemoveAbi, At
<1>2. ASSUME Goto(d, "notify") \/ Answer(d, 200) \/ Refuse(d, "NotFound") PROVE FALSE
  BY <1>2, AnswerFacts, GotoFacts, ClientErrors DEF Refuse
<1>3. ASSUME Refuse(d, "OperationFailed") PROVE c = d
  BY <1>3, AnswerFacts DEF Refuse
<1>4. /\ d \in raced \/ StillTrue(d)
      /\ r.op \in {"createMonitor", "updateMonitor"} => (r.logs => r.abi \in loaded)
  BY <1>1 DEF IInv, HandlerInv
<1>5. CASE WriteNewMonitor(d)
  <2>1. Refuse(d, "OperationFailed") /\ ~CanInsertMonitor(r) /\ r.op = "createMonitor"
    BY <1>2, <1>5 DEF WriteNewMonitor, At
  <2>2. StillTrue(d) => r.name \notin {m.name : m \in monitors}
    BY <1>1, <2>1 DEF StillTrue
  <2>3. QED BY <1>3, <1>4, <2>1, <2>2 DEF CanInsertMonitor, MissedAbi
<1>6. CASE WriteMonitor(d)
  <2>1. Refuse(d, "OperationFailed") /\ ~AbiStored(r.abi) /\ r.op = "updateMonitor"
    BY <1>2, <1>6 DEF WriteMonitor, At
  <2>2. QED BY <1>3, <1>4, <2>1 DEF MissedAbi
<1>7. CASE RemoveMonitor(d) \/ WriteStatus(d) \/ RemoveAction(d)
  BY <1>2, <1>7 DEF RemoveMonitor, WriteStatus, RemoveAction
<1>8. CASE WriteNewAction(d)
  <2>1. Refuse(d, "OperationFailed") /\ GetActionByName(r.name) # {} /\ r.op = "createAction"
    BY <1>2, <1>8 DEF WriteNewAction, At
  <2>2. ~StillTrue(d)
    BY <1>1, <2>1 DEF StillTrue
  <2>3. QED BY <1>3, <1>4, <2>1, <2>2
<1>9. CASE WriteAction(d)
  <2>1. Refuse(d, "OperationFailed") /\ ~CanRename(r.id, r.name) /\ r.op = "updateAction"
    BY <1>2, <1>9 DEF WriteAction, At
  <2>2. ~StillTrue(d)
    BY <1>1, <2>1 DEF StillTrue
  <2>3. QED BY <1>3, <1>4, <2>1, <2>2
<1>10. CASE WriteNewAbi(d)
  <2>1. Refuse(d, "OperationFailed") /\ GetAbi(r.name) # {} /\ r.op = "uploadAbi"
    BY <1>2, <1>10 DEF WriteNewAbi, At
  <2>2. ~StillTrue(d)
    BY <1>1, <2>1 DEF StillTrue
  <2>3. QED BY <1>3, <1>4, <2>1, <2>2
<1>11. CASE RemoveAbi(d)
  <2>1. Refuse(d, "OperationFailed") /\ MonitorsUsingAbi(r.name) # {} /\ r.op = "deleteAbi"
    BY <1>2, <1>11 DEF RemoveAbi, At
  <2>2. ~StillTrue(d)
    BY <1>1, <2>1 DEF StillTrue
  <2>3. QED BY <1>3, <1>4, <2>1, <2>2
<1>12. QED
  BY <1>5, <1>6, <1>7, <1>8, <1>9, <1>10, <1>11 DEF Write

(* Every step that ends a request with 500 has one of the reasons. *)
LEMMA ErrorStep ==
    ASSUME IInv, [Next]_vars, NEW c \in Client,
           req[c].pc # "idle", req'[c].pc = "idle", answer'[c] = 500
    PROVE  \/ left'.faults # left.faults
           \/ c \in raced
           \/ MissedAbi(req[c].r)
           \/ req[c].r.op = "getMonitor" /\ req[c].r.id = 0
<1>1. answer[c] = 0
  BY AtWork
<1>2. req'[c] # req[c] /\ answer' # answer
  BY <1>1
<1>3. ~Build /\ ~Reload /\ ~ReadFails /\ ~Stop /\ ~StopEnds /\ ~Crash /\ ~UNCHANGED vars
  BY <1>2 DEF Build, Start, SyncAbi, LoadRepository, LoadAction, ActionsLoaded, LoadMonitorFile,
     GoUp, BuildFails, Reload, SeeChange, ReadTable, Apply, ReadFails, Stop, StopEnds, Crash, Exit, vars
<1>4. PICK d \in Client : (\E r \in Menu : Begin(d, r)) \/ Handle(d) \/ Disconnect(d) \/ DbError(d)
  BY <1>3 DEF Next
<1>5. ASSUME NEW r \in Menu, Begin(d, r) PROVE FALSE
  BY <1>5 DEF Begin, Answer, IInv, ShapeInv
<1>6. CASE Check(d)
  BY <1>6, CheckErrors
<1>7. CASE Write(d)
  BY <1>7, WriteErrors
<1>8. CASE Notify(d)
  BY <1>8, AnswerFacts DEF Notify
<1>9. CASE Disconnect(d)
  BY <1>2, <1>9 DEF Disconnect
<1>10. CASE DbError(d)
  BY <1>10, FaultFacts DEF DbError
<1>11. QED
  BY <1>4, <1>5, <1>6, <1>7, <1>8, <1>9, <1>10 DEF Handle

(* A request ends with 500 only after a fault, when another client wrote   *)
(* while it ran, when its ABI is not stored and the validator did not look *)
(* or looked at the list of the start, or when its id is no number.        *)
THEOREM InternalErrorHasReason == Spec => InternalErrorExplained
<1>1. IInv /\ [Next]_vars =>
        [\A c \in Client :
            req[c].pc # "idle" /\ req'[c].pc = "idle" /\ answer'[c] = 500 =>
                \/ left'.faults # left.faults
                \/ c \in raced
                \/ MissedAbi(req[c].r)
                \/ req[c].r.op = "getMonitor" /\ req[c].r.id = 0]_vars
  BY ErrorStep
<1>2. QED BY <1>1, Inductive, PTL DEF Spec, InternalErrorExplained

=============================================================================
