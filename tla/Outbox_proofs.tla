---------------------------- MODULE Outbox_proofs ----------------------------
(***************************************************************************)
(* Proofs about Outbox, for every set of keys, payload batches, batch      *)
(* size, concurrency and faults.                                           *)
(***************************************************************************)
EXTENDS Outbox, FiniteSetTheorems, WellFoundedInduction, TLAPS

-----------------------------------------------------------------------------
(* Facts about the list of successful ids.                                 *)

(* Collecting an id that is not in the list yet. *)
LEMMA AppendFacts ==
    ASSUME NEW S, NEW s \in Seq(S), NEW e \in S
    PROVE  /\ Append(s, e) \in Seq(S)
           /\ Append(s, e) # <<>>
           /\ Len(Append(s, e)) = Len(s) + 1
           /\ Elems(Append(s, e)) = Elems(s) \cup {e}
           /\ (/\ \A i, j \in 1..Len(s) : s[i] = s[j] => i = j
               /\ e \notin Elems(s))
              => \A i, j \in 1..Len(Append(s, e)) :
                    Append(s, e)[i] = Append(s, e)[j] => i = j
<1>1. /\ Append(s, e) \in Seq(S) /\ Len(Append(s, e)) = Len(s) + 1
      /\ \A i \in 1..Len(s) : Append(s, e)[i] = s[i]
      /\ Append(s, e)[Len(s) + 1] = e
      /\ Len(s) \in Nat
  OBVIOUS
<1>2. Append(s, e) # <<>>
  BY <1>1
<1>3. 1..(Len(s) + 1) = 1..Len(s) \cup {Len(s) + 1}
  BY <1>1
<1>4. Elems(Append(s, e)) = Elems(s) \cup {e}
  BY <1>1, <1>3 DEF Elems
<1>5. ASSUME \A i, j \in 1..Len(s) : s[i] = s[j] => i = j, e \notin Elems(s)
      PROVE  \A i, j \in 1..Len(Append(s, e)) :
                Append(s, e)[i] = Append(s, e)[j] => i = j
  BY <1>1, <1>3, <1>5 DEF Elems
<1>6. QED BY <1>1, <1>2, <1>4, <1>5

(* Taking the first id off a list. *)
LEMMA TailFacts ==
    ASSUME NEW S, NEW s \in Seq(S), s # <<>>
    PROVE  /\ Head(s) \in S /\ Head(s) = s[1]
           /\ Tail(s) \in Seq(S)
           /\ Len(s) \in Nat \ {0}
           /\ Len(Tail(s)) = Len(s) - 1
           /\ \A i \in 1..(Len(s) - 1) : Tail(s)[i] = s[i + 1]
           /\ Len(s) = 1 <=> Tail(s) = <<>>
           /\ Elems(s) = {Head(s)} \cup Elems(Tail(s))
<1>1. /\ Head(s) \in S /\ Head(s) = s[1] /\ Tail(s) \in Seq(S)
      /\ Len(s) \in Nat \ {0} /\ Len(Tail(s)) = Len(s) - 1
      /\ \A i \in 1..(Len(s) - 1) : Tail(s)[i] = s[i + 1]
  OBVIOUS
<1>2. Len(s) = 1 <=> Tail(s) = <<>>
  <2>1. Len(s) = 1 <=> Len(Tail(s)) = 0
    BY <1>1
  <2>2. ASSUME NEW t \in Seq(S) PROVE Len(t) = 0 <=> t = <<>>
    OBVIOUS
  <2>3. QED BY <1>1, <2>1, <2>2
<1>3. Elems(s) = {Head(s)} \cup Elems(Tail(s))
  <2>1. \A i \in 1..Len(s) : i = 1 \/ (i - 1 \in 1..(Len(s) - 1) /\ (i - 1) + 1 = i)
    BY <1>1
  <2>2. Elems(s) \subseteq {Head(s)} \cup Elems(Tail(s))
    BY <1>1, <2>1 DEF Elems
  <2>3. 1 \in 1..Len(s) /\ \A i \in 1..(Len(s) - 1) : i + 1 \in 1..Len(s)
    BY <1>1
  <2>4. {Head(s)} \cup Elems(Tail(s)) \subseteq Elems(s)
    BY <1>1, <2>3 DEF Elems
  <2>5. QED BY <2>2, <2>4
<1>4. QED BY <1>1, <1>2, <1>3

(* In a list without duplicates the first id is not met again. *)
LEMMA DistinctTail ==
    ASSUME NEW S, NEW s \in Seq(S), s # <<>>,
           \A i, j \in 1..Len(s) : s[i] = s[j] => i = j
    PROVE  /\ Head(s) \notin Elems(Tail(s))
           /\ \A i, j \in 1..Len(Tail(s)) : Tail(s)[i] = Tail(s)[j] => i = j
<1>1. /\ Head(s) = s[1] /\ Len(s) \in Nat \ {0} /\ Len(Tail(s)) = Len(s) - 1
      /\ \A i \in 1..(Len(s) - 1) : Tail(s)[i] = s[i + 1]
  BY TailFacts
<1>2. 1 \in 1..Len(s) /\ \A i \in 1..(Len(s) - 1) : i + 1 \in 1..Len(s) /\ i + 1 # 1
  BY <1>1
<1>3. Head(s) \notin Elems(Tail(s))
  BY <1>1, <1>2 DEF Elems
<1>4. ASSUME NEW i \in 1..Len(Tail(s)), NEW j \in 1..Len(Tail(s)), Tail(s)[i] = Tail(s)[j]
      PROVE  i = j
  <2>1. s[i + 1] = s[j + 1] /\ i + 1 \in 1..Len(s) /\ j + 1 \in 1..Len(s)
    BY <1>1, <1>2, <1>4
  <2>2. i + 1 = j + 1
    BY <2>1
  <2>3. QED BY <1>1, <2>2
<1>5. QED BY <1>3, <1>4

(* The elements of a list over S are in S; an empty one has none.          *)
LEMMA ElemsFacts ==
    /\ Elems(<<>>) = {} /\ \A S : <<>> \in Seq(S)
    /\ \A i, j \in 1..Len(<<>>) : <<>>[i] = <<>>[j] => i = j
    /\ \A S : \A s \in Seq(S) : Elems(s) \subseteq S
BY DEF Elems

-----------------------------------------------------------------------------
(* Facts about the query ORDER BY id ASC LIMIT batch_size.                 *)

(* Every nonempty set of natural numbers has a least element. *)
LEMMA LeastNatural ==
    ASSUME NEW S, S \subseteq Nat, S # {}
    PROVE  \E m \in S : \A k \in S : m <= k
<1> DEFINE R == {ss \in Nat \X Nat : ss[1] < ss[2]}
<1>1. IsWellFoundedOn(R, Nat)
  BY NatLessThanWellFounded, Zenon DEF OpToRel
<1>2. \A k, m \in S : k < m => <<k, m>> \in R
  OBVIOUS
<1> HIDE DEF R
<1>3. PICK m \in S : \A k \in S : ~ (<<k, m>> \in R)
  BY <1>1, WFMin
<1>4. \A k \in S : ~ (k < m)
  BY <1>2, <1>3
<1>5. m \in Nat /\ \A k \in S : k \in Nat
  OBVIOUS
<1>6. \A k \in S : m <= k
  BY <1>4, <1>5
<1>7. QED BY <1>6

(* The table and every part of it is finite. *)
LEMMA FiniteRows ==
    ASSUME NEW S, S \subseteq Ids
    PROVE  S \subseteq Nat /\ IsFiniteSet(S)
<1>1. IsFiniteSet(Ids) /\ Ids \subseteq Nat
  BY OutboxAssumption, FS_Interval DEF Ids
<1>2. QED BY <1>1, FS_Subset

(* A batch is a downward closed part of the table, nonempty if the table   *)
(* is.                                                                     *)
LEMMA PendingFacts ==
    ASSUME rows \subseteq Ids
    PROVE  /\ Pending \subseteq rows
           /\ rows # {} => Pending # {}
           /\ \A id \in Pending : \A j \in rows : j < id => j \in Pending
<1>1. rows \subseteq Nat /\ IsFiniteSet(rows)
  BY FiniteRows
<1>2. ASSUME rows # {} PROVE Pending # {}
  <2>1. PICK m \in rows : \A k \in rows : m <= k
    BY <1>1, <1>2, LeastNatural
  <2>2. {j \in rows : j < m} = {}
    <3>1. \A j \in rows : j \in Nat /\ m \in Nat /\ m <= j
      BY <1>1, <2>1
    <3>2. \A j \in rows : ~ (j < m)
      BY <3>1
    <3>3. QED BY <3>2
  <2>3. Cardinality({j \in rows : j < m}) = 0 /\ 0 < BatchSize
    BY <2>2, FS_EmptySet, OutboxAssumption
  <2>4. QED BY <2>3 DEF Pending
<1>3. ASSUME NEW id \in Pending, NEW j \in rows, j < id PROVE j \in Pending
  <2> DEFINE A == {k \in rows : k < j}
             B == {k \in rows : k < id}
  <2>1. id \in rows /\ Cardinality(B) < BatchSize
    BY DEF Pending
  <2>2. A \in SUBSET B
    <3>1. \A k \in rows : k \in Nat /\ j \in Nat /\ id \in Nat
      BY <1>1, <2>1
    <3>2. \A k \in rows : k < j => k < id
      BY <1>3, <3>1
    <3>3. QED BY <3>2
  <2>3. IsFiniteSet(B)
    BY <1>1, FS_Subset
  <2>4. IsFiniteSet(A) /\ Cardinality(A) <= Cardinality(B)
    <3> HIDE DEF A, B
    <3> QED BY <2>2, <2>3, FS_Subset
  <2>5. Cardinality(A) \in Nat /\ Cardinality(B) \in Nat /\ BatchSize \in Nat
    <3> HIDE DEF A, B
    <3> QED BY <2>3, <2>4, FS_CardinalityType, OutboxAssumption
  <2>6. Cardinality(A) < BatchSize
    <3> HIDE DEF A, B
    <3> QED BY <2>1, <2>4, <2>5
  <2>7. QED BY <2>6 DEF Pending
<1>4. QED BY <1>2, <1>3 DEF Pending

-----------------------------------------------------------------------------
(* The invariant, action by action.                                        *)

(* The empty table satisfies the invariant. *)
LEMMA InitIInv == Init => IInv
<1> SUFFICES ASSUME Init PROVE IInv
  OBVIOUS
<1>1. TypeOK
  <2>1. (CHOOSE k \in Keys : TRUE) \in Keys
    BY OutboxAssumption
  <2>2. keyOf \in [Ids -> Keys] /\ retries \in [Ids -> 0..MaxRetries]
        /\ accepted \in [Ids -> 0..2]
    BY <2>1, OutboxAssumption DEF Init
  <2>3. QED BY <2>2, ElemsFacts DEF Init, TypeOK
<1>2. DeliveryInv
  BY ElemsFacts DEF Init, DeliveryInv, OnceUnlessFault
<1>3. QED BY <1>1, <1>2 DEF Init, IInv, IdleInv, UniqueInv, BatchInv

(* New rows get the next ids, so they are younger than the whole table and *)
(* were never accepted; their keys are new to it.                          *)
LEMMA EnqueueStep ==
    ASSUME IInv, NEW b \in Batches, Enqueue(b)
    PROVE  IInv'
<1> DEFINE New == {nextId + i - 1 : i \in Inserted(b)}
<1>1. /\ b \in Seq(Keys) /\ Len(b) \in Nat /\ nextId \in Nat \ {0} /\ MaxId \in Nat
      /\ \A i \in 1..Len(b) : b[i] \in Keys
  BY OutboxAssumption DEF IInv, TypeOK
<1>2. /\ nextId + Len(b) - 1 <= MaxId
      /\ rows' = rows \cup New /\ nextId' = nextId + Len(b)
      /\ keyOf' = [id \in Ids |-> IF id \in nextId..(nextId + Len(b) - 1)
                                  THEN b[id - nextId + 1] ELSE keyOf[id]]
      /\ UNCHANGED <<up, retries, opc, todo, succeeded, accepted, attempted, suspect>>
  BY DEF Enqueue, processor, history
<1>3. \A i \in 1..Len(b) : /\ nextId + i - 1 \in Ids
                           /\ nextId + i - 1 \in nextId..(nextId + Len(b) - 1)
                           /\ (nextId + i - 1) - nextId + 1 = i
  BY <1>1, <1>2 DEF Ids
<1>4. \A id \in New : \E i \in Inserted(b) : id = nextId + i - 1
  OBVIOUS
<1>5. Inserted(b) \subseteq 1..Len(b)
  BY DEF Inserted
<1>6. New \subseteq Ids /\ \A id \in New : id >= nextId /\ id < nextId + Len(b)
  BY <1>1, <1>3, <1>5
<1>7. rows \subseteq Ids /\ Ids \subseteq Nat /\ \A id \in rows : id < nextId
  BY OutboxAssumption DEF IInv, TypeOK, Ids
<1> HIDE DEF New
<1>8. \A id \in rows : keyOf'[id] = keyOf[id]
  <2>1. \A id \in rows : id \notin nextId..(nextId + Len(b) - 1)
    BY <1>1, <1>7
  <2>2. QED BY <1>2, <1>7, <2>1
<1>9. \A i \in Inserted(b) : keyOf'[nextId + i - 1] = b[i]
  BY <1>2, <1>3, <1>5
<1>10. TypeOK'
  <2>1. keyOf' \in [Ids -> Keys]
    <3>1. ASSUME NEW id \in Ids, id \in nextId..(nextId + Len(b) - 1)
          PROVE  id - nextId + 1 \in 1..Len(b)
      BY <1>1, <3>1
    <3>2. \A id \in Ids : keyOf[id] \in Keys
      BY DEF IInv, TypeOK
    <3>3. \A id \in Ids : (IF id \in nextId..(nextId + Len(b) - 1)
                           THEN b[id - nextId + 1] ELSE keyOf[id]) \in Keys
      BY <1>1, <3>1, <3>2
    <3>4. QED BY <1>2, <3>3
  <2>2. nextId' \in Nat \ {0} /\ rows' \subseteq Ids /\ \A id \in rows' : id < nextId'
    <3>1. \A id \in rows : id < nextId + Len(b)
      BY <1>1, <1>7
    <3>2. QED BY <1>1, <1>2, <1>6, <1>7, <3>1
  <2>3. todo' \subseteq rows' /\ Elems(succeeded)' \subseteq rows'
    BY <1>2 DEF IInv, TypeOK, Elems
  <2>4. QED BY <1>2, <2>1, <2>2, <2>3 DEF IInv, TypeOK
<1>11. UniqueInv'
  <2>1. \A i, j \in rows : keyOf'[i] = keyOf'[j] => i = j
    BY <1>8 DEF IInv, UniqueInv
  <2>2. \A i \in rows, j \in New : keyOf'[i] # keyOf'[j]
    <3>1. \A i \in rows, k \in Inserted(b) : keyOf[i] # b[k]
      BY DEF Inserted, PendingKeys
    <3>2. QED BY <1>4, <1>8, <1>9, <3>1
  <2>3. ASSUME NEW k \in Inserted(b), NEW l \in Inserted(b), b[k] = b[l] PROVE k = l
    <3>1. k \in 1..Len(b) /\ l \in 1..Len(b)
      BY <1>5
    <3>2. ~ (k < l) /\ ~ (l < k)
      <4>1. k < l => k \in 1..(l - 1)
        BY <1>1, <3>1
      <4>2. l < k => l \in 1..(k - 1)
        BY <1>1, <3>1
      <4>3. QED BY <2>3, <4>1, <4>2 DEF Inserted
    <3>3. QED BY <1>1, <3>1, <3>2
  <2>4. \A i, j \in New : keyOf'[i] = keyOf'[j] => i = j
    BY <1>4, <1>9, <2>3
  <2>5. ASSUME NEW i \in rows', NEW j \in rows', keyOf'[i] = keyOf'[j] PROVE i = j
    <3>1. i \in rows \cup New /\ j \in rows \cup New
      BY <1>2
    <3>2. QED BY <2>1, <2>2, <2>4, <2>5, <3>1, Zenon
  <2>6. QED BY <2>5 DEF UniqueInv
<1>12. DeliveryInv'
  <2>1. \A id \in New : accepted[id] = 0
    BY <1>6 DEF IInv, DeliveryInv
  <2>2. \A id \in Ids : id >= nextId' => accepted[id] = 0
    <3>1. \A id \in Ids : id >= nextId + Len(b) => id >= nextId
      BY <1>1, <1>7
    <3>2. QED BY <1>2, <3>1 DEF IInv, DeliveryInv
  <2>3. Elems(succeeded)' = Elems(succeeded)
    BY <1>2 DEF Elems
  <2>4. QED BY <1>2, <2>1, <2>2, <2>3 DEF IInv, DeliveryInv, OnceUnlessFault
<1>13. BatchInv'
  <2>1. \A id \in todo, j \in New : ~ (j < id)
    <3>1. todo \subseteq rows
      BY DEF IInv, TypeOK
    <3>2. QED BY <1>1, <1>6, <1>7, <3>1
  <2>2. QED BY <1>2, <2>1 DEF IInv, BatchInv
<1>14. IdleInv'
  BY <1>2 DEF IInv, IdleInv
<1>15. QED BY <1>10, <1>11, <1>12, <1>13, <1>14 DEF IInv

(* A batch is fetched, or an empty table ends the drain. *)
LEMMA FetchStep ==
    ASSUME IInv, Fetch
    PROVE  IInv'
<1>1. /\ opc = "fetch" /\ todo = {} /\ succeeded = <<>> /\ succeeded' = succeeded
      /\ UNCHANGED <<rows, keyOf, retries, nextId, accepted, attempted, suspect>>
  BY DEF Fetch, IInv, TypeOK, table, history
<1>2. Elems(succeeded)' = Elems(succeeded) /\ Elems(succeeded) = {}
  BY <1>1, ElemsFacts DEF Elems
<1>3. UniqueInv'
  BY <1>1 DEF IInv, UniqueInv
<1>4. rows \subseteq Ids
  BY DEF IInv, TypeOK
<1>5. CASE rows = {}
  <2>1. up' = "stopped" /\ opc' = "done" /\ todo' = todo
    BY <1>5 DEF Fetch
  <2>2. TypeOK' /\ IdleInv' /\ BatchInv'
    BY <1>1, <1>2, <2>1 DEF IInv, TypeOK, IdleInv, BatchInv
  <2>3. DeliveryInv'
    BY <1>1, <1>2, <2>1 DEF IInv, DeliveryInv, OnceUnlessFault
  <2>4. QED BY <1>3, <2>2, <2>3 DEF IInv
<1>6. CASE rows # {}
  <2>1. up' = up /\ opc' = "execute" /\ todo' = Pending /\ up # "stopped" /\ up # "flushing"
    BY <1>6 DEF Fetch
  <2>2. /\ Pending \subseteq rows /\ Pending # {}
        /\ \A id \in Pending : \A j \in rows : j < id => j \in Pending
    BY <1>4, <1>6, PendingFacts
  <2> HIDE DEF Pending
  <2>3. TypeOK' /\ IdleInv'
    BY <1>1, <1>2, <2>1, <2>2 DEF IInv, TypeOK, IdleInv
  <2>4. BatchInv'
    BY <1>1, <2>1, <2>2 DEF BatchInv
  <2>5. DeliveryInv'
    BY <1>1, <1>2, <2>1 DEF IInv, DeliveryInv, OnceUnlessFault
  <2>6. QED BY <1>3, <2>3, <2>4, <2>5 DEF IInv
<1>7. QED BY <1>5, <1>6

(* The processor stops between two batches. *)
LEMMA LeaveStep ==
    ASSUME IInv, DrainFetchFails \/ LoopCancelled
    PROVE  IInv'
<1>1. /\ opc = "fetch" /\ opc' = "done" /\ up' \in {up, "stopped"}
      /\ UNCHANGED <<todo, succeeded, rows, keyOf, retries, nextId, accepted, attempted, suspect>>
  BY DEF DrainFetchFails, LoopCancelled, table, history
<1>2. Elems(succeeded)' = Elems(succeeded)
  BY <1>1 DEF Elems
<1>3. TypeOK' /\ IdleInv'
  BY <1>1, <1>2 DEF IInv, TypeOK, IdleInv
<1>4. UniqueInv' /\ BatchInv' /\ DeliveryInv'
  BY <1>1, <1>2 DEF IInv, UniqueInv, BatchInv, DeliveryInv, OnceUnlessFault
<1>5. QED BY <1>3, <1>4 DEF IInv

(* The result of one item: it leaves the batch, and only what the receiver *)
(* accepted is collected for deletion.                                     *)
LEMMA FinishFacts ==
    ASSUME IInv, opc = "execute", NEW id \in Ids, NEW ok, Finish(id, ok),
           ok \in {succeeded, Append(succeeded, id)},
           UNCHANGED <<up, rows, keyOf, nextId>>
    PROVE  /\ id \in todo /\ id \in rows /\ id \notin Elems(succeeded)
           /\ succeeded' = ok /\ todo' = todo \ {id} /\ attempted' = attempted \cup {id}
           /\ Elems(succeeded)' \subseteq Elems(succeeded) \cup {id}
           /\ Elems(succeeded) \subseteq Elems(succeeded)'
           /\ ok # succeeded => id \in Elems(succeeded)'
           /\ (retries' \in [Ids -> 0..MaxRetries] /\ accepted' \in [Ids -> 0..2]
               /\ suspect' \subseteq Ids) => TypeOK'
           /\ IdleInv' /\ UniqueInv' /\ BatchInv'
<1>1. /\ id \in todo /\ todo' = todo \ {id} /\ succeeded' = ok
      /\ opc' = AfterResult(todo \ {id}, ok) /\ attempted' = attempted \cup {id}
  BY DEF Finish, Running
<1>2. /\ id \in rows /\ id \notin Elems(succeeded)
      /\ succeeded \in Seq(Ids) /\ Elems(succeeded) \subseteq rows
      /\ \A i, j \in 1..Len(succeeded) : succeeded[i] = succeeded[j] => i = j
  BY <1>1 DEF IInv, TypeOK, DeliveryInv
<1>3. Elems(succeeded)' = Elems(ok)
  BY <1>1 DEF Elems
<1>4. /\ ok \in Seq(Ids) /\ Elems(succeeded) \subseteq Elems(ok)
      /\ Elems(ok) \subseteq Elems(succeeded) \cup {id}
      /\ ok # succeeded => id \in Elems(ok)
      /\ \A i, j \in 1..Len(ok) : ok[i] = ok[j] => i = j
  <2>1. CASE ok = succeeded
    BY <1>2, <2>1
  <2>2. CASE ok = Append(succeeded, id)
    BY <1>2, <2>2, AppendFacts
  <2>3. QED BY <2>1, <2>2
<1>5. /\ opc' \in {"fetch", "execute", "delete"}
      /\ opc' = "execute" <=> todo' # {}
      /\ opc' = "delete" => ok # <<>>
      /\ opc' = "fetch" => ok = <<>>
  BY <1>1 DEF AfterResult
<1>6. ASSUME retries' \in [Ids -> 0..MaxRetries], accepted' \in [Ids -> 0..2], suspect' \subseteq Ids
      PROVE  TypeOK'
  <2>1. todo' \subseteq rows' /\ Elems(succeeded)' \subseteq rows' /\ attempted' \subseteq Ids
    BY <1>1, <1>2, <1>3, <1>4 DEF IInv, TypeOK
  <2>2. \A i, j \in 1..Len(succeeded') : succeeded'[i] = succeeded'[j] => i = j
    BY <1>1, <1>4
  <2>3. QED BY <1>1, <1>4, <1>5, <1>6, <2>1, <2>2 DEF IInv, TypeOK
<1>7. IdleInv'
  BY DEF IInv, IdleInv
<1>8. UniqueInv'
  BY DEF IInv, UniqueInv
<1>9. BatchInv'
  BY <1>1 DEF IInv, BatchInv
<1>10. QED BY <1>1, <1>2, <1>3, <1>4, <1>6, <1>7, <1>8, <1>9

(* One more acceptance keeps the counters' type; it is the first one of a  *)
(* row that was never accepted.                                            *)
LEMMA AcceptFacts ==
    ASSUME accepted \in [Ids -> 0..2], NEW id \in Ids, Accept(id)
    PROVE  /\ accepted' \in [Ids -> 0..2]
           /\ accepted'[id] > 0
           /\ accepted[id] = 0 => accepted'[id] = 1
           /\ \A j \in Ids \ {id} : accepted'[j] = accepted[j]
<1>1. accepted[id] \in 0..2
  OBVIOUS
<1>2. (IF accepted[id] = 2 THEN 2 ELSE accepted[id] + 1) \in 1..2
  BY <1>1
<1>3. accepted' = [accepted EXCEPT ![id] = IF accepted[id] = 2 THEN 2 ELSE accepted[id] + 1]
  BY DEF Accept
<1>4. accepted'[id] = IF accepted[id] = 2 THEN 2 ELSE accepted[id] + 1
  BY <1>3
<1>5. accepted'[id] \in 1..2 /\ (accepted[id] = 0 => accepted'[id] = 1)
  BY <1>1, <1>2, <1>4
<1>6. \A j \in Ids \ {id} : accepted'[j] = accepted[j]
  BY <1>3
<1>7. accepted' \in [Ids -> 0..2]
  BY <1>2, <1>3
<1>8. QED BY <1>5, <1>6, <1>7

(* A successful delivery. *)
LEMMA ExecuteOkStep ==
    ASSUME IInv, NEW id \in Ids, ExecuteOk(id)
    PROVE  IInv'
<1>1. /\ opc = "execute" /\ Accept(id) /\ Finish(id, Append(succeeded, id))
      /\ UNCHANGED <<up, rows, keyOf, nextId, retries, suspect>>
  BY DEF ExecuteOk, table
<1>2. /\ accepted \in [Ids -> 0..2] /\ rows \subseteq Ids
      /\ retries \in [Ids -> 0..MaxRetries] /\ suspect \subseteq Ids
  BY DEF IInv, TypeOK
<1>3. /\ accepted' \in [Ids -> 0..2] /\ accepted'[id] > 0
      /\ accepted[id] = 0 => accepted'[id] = 1
      /\ \A j \in Ids \ {id} : accepted'[j] = accepted[j]
  BY <1>1, <1>2, AcceptFacts
<1>4. Append(succeeded, id) # succeeded
  <2>1. succeeded \in Seq(Ids) /\ Len(succeeded) \in Nat
    BY DEF IInv, TypeOK
  <2>2. Len(Append(succeeded, id)) # Len(succeeded)
    BY <2>1, AppendFacts
  <2>3. QED BY <2>2
<1>5. /\ id \in todo /\ id \in rows /\ id \notin Elems(succeeded)
      /\ todo' = todo \ {id}
      /\ Elems(succeeded)' \subseteq Elems(succeeded) \cup {id}
      /\ Elems(succeeded) \subseteq Elems(succeeded)' /\ id \in Elems(succeeded)'
      /\ TypeOK' /\ IdleInv' /\ UniqueInv' /\ BatchInv'
  BY <1>1, <1>2, <1>3, <1>4, FinishFacts
<1>6. DeliveryInv'
  <2>1. \A j \in Ids : j >= nextId' => accepted'[j] = 0
    <3>1. ~ (id >= nextId)
      <4>1. id \in Nat /\ nextId \in Nat /\ id < nextId
        BY <1>5, OutboxAssumption DEF IInv, TypeOK, Ids
      <4>2. QED BY <4>1
    <3>2. QED BY <1>1, <1>3, <3>1 DEF IInv, DeliveryInv
  <2>2. \A j \in rows' : accepted'[j] = 0 \/ j \in suspect' \/ j \in Elems(succeeded)'
    BY <1>1, <1>2, <1>3, <1>5 DEF IInv, DeliveryInv
  <2>3. \A j \in Elems(succeeded)' : accepted'[j] > 0 /\ j \notin todo'
    <3>1. Elems(succeeded) \subseteq Ids
      BY <1>2 DEF IInv, TypeOK
    <3>2. QED BY <1>3, <1>5, <3>1 DEF IInv, DeliveryInv
  <2>4. OnceUnlessFault'
    <3>1. accepted'[id] <= 1 \/ id \in suspect
      <4>1. accepted[id] = 0 \/ id \in suspect
        BY <1>5 DEF IInv, DeliveryInv
      <4>2. QED BY <1>3, <4>1
    <3>2. \A j \in Ids \ {id} : accepted'[j] <= 1 \/ j \in suspect
      BY <1>3 DEF IInv, DeliveryInv, OnceUnlessFault
    <3>3. QED BY <1>1, <3>1, <3>2 DEF OnceUnlessFault
  <2>5. QED BY <2>1, <2>2, <2>3, <2>4 DEF DeliveryInv
<1>7. QED BY <1>5, <1>6 DEF IInv

(* Counting a retry keeps the column's type. *)
LEMMA RetryFacts ==
    ASSUME retries \in [Ids -> 0..MaxRetries], NEW id \in Ids,
           retries' = [retries EXCEPT ![id] = IF @ = MaxRetries THEN @ ELSE @ + 1]
    PROVE  retries' \in [Ids -> 0..MaxRetries]
<1>1. retries[id] \in 0..MaxRetries /\ MaxRetries \in Nat
  BY OutboxAssumption
<1>2. (IF retries[id] = MaxRetries THEN retries[id] ELSE retries[id] + 1) \in 0..MaxRetries
  BY <1>1
<1>3. QED BY <1>2

(* A failed delivery. *)
LEMMA ExecuteErrStep ==
    ASSUME IInv, NEW id \in Ids, ExecuteErr(id)
    PROVE  IInv'
<1>1. /\ opc = "execute" /\ Finish(id, succeeded)
      /\ UNCHANGED <<up, rows, keyOf, nextId, accepted, suspect>>
  BY DEF ExecuteErr
<1>2. /\ accepted \in [Ids -> 0..2] /\ retries \in [Ids -> 0..MaxRetries] /\ suspect \subseteq Ids
  BY DEF IInv, TypeOK
<1>3. retries' \in [Ids -> 0..MaxRetries]
  BY <1>2, RetryFacts DEF ExecuteErr
<1>4. /\ succeeded' = succeeded /\ todo' = todo \ {id}
      /\ TypeOK' /\ IdleInv' /\ UniqueInv' /\ BatchInv'
  BY <1>1, <1>2, <1>3, FinishFacts
<1>5. Elems(succeeded)' = Elems(succeeded)
  BY <1>4 DEF Elems
<1>6. DeliveryInv'
  BY <1>1, <1>4, <1>5 DEF IInv, DeliveryInv, OnceUnlessFault
<1>7. QED BY <1>4, <1>6 DEF IInv

(* A delivery whose answer is lost makes its row suspect. *)
LEMMA ExecuteAmbiguousStep ==
    ASSUME IInv, NEW id \in Ids, ExecuteAmbiguous(id)
    PROVE  IInv'
<1>1. /\ opc = "execute" /\ Accept(id) /\ Finish(id, succeeded)
      /\ retries' = [retries EXCEPT ![id] = IF @ = MaxRetries THEN @ ELSE @ + 1]
      /\ suspect' = suspect \cup {id}
      /\ UNCHANGED <<up, rows, keyOf, nextId>>
  BY DEF ExecuteAmbiguous
<1>2. /\ accepted \in [Ids -> 0..2] /\ rows \subseteq Ids
      /\ retries \in [Ids -> 0..MaxRetries] /\ suspect \subseteq Ids
  BY DEF IInv, TypeOK
<1>3. /\ accepted' \in [Ids -> 0..2]
      /\ \A j \in Ids \ {id} : accepted'[j] = accepted[j]
  BY <1>1, <1>2, AcceptFacts
<1>4. retries' \in [Ids -> 0..MaxRetries] /\ suspect' \subseteq Ids
  BY <1>1, <1>2, RetryFacts
<1>5. /\ id \in rows /\ id \notin Elems(succeeded)
      /\ succeeded' = succeeded /\ todo' = todo \ {id}
      /\ TypeOK' /\ IdleInv' /\ UniqueInv' /\ BatchInv'
  BY <1>1, <1>3, <1>4, FinishFacts
<1>6. Elems(succeeded)' = Elems(succeeded)
  BY <1>5 DEF Elems
<1>7. DeliveryInv'
  <2>1. \A j \in Ids : j >= nextId' => accepted'[j] = 0
    <3>1. ~ (id >= nextId)
      <4>1. id \in Nat /\ nextId \in Nat /\ id < nextId
        BY <1>5, OutboxAssumption DEF IInv, TypeOK, Ids
      <4>2. QED BY <4>1
    <3>2. QED BY <1>1, <1>3, <3>1 DEF IInv, DeliveryInv
  <2>2. \A j \in rows' : accepted'[j] = 0 \/ j \in suspect' \/ j \in Elems(succeeded)'
    BY <1>1, <1>2, <1>3, <1>6 DEF IInv, DeliveryInv
  <2>3. \A j \in Elems(succeeded)' : accepted'[j] > 0 /\ j \notin todo'
    <3>1. Elems(succeeded) \subseteq Ids \ {id}
      BY <1>2, <1>5 DEF IInv, TypeOK
    <3>2. QED BY <1>3, <1>5, <1>6, <3>1 DEF IInv, DeliveryInv
  <2>4. OnceUnlessFault'
    <3>1. \A j \in Ids \ {id} : accepted'[j] <= 1 \/ j \in suspect
      BY <1>3 DEF IInv, DeliveryInv, OnceUnlessFault
    <3>2. QED BY <1>1, <3>1 DEF OnceUnlessFault
  <2>5. QED BY <2>1, <2>2, <2>3, <2>4 DEF DeliveryInv
<1>8. QED BY <1>5, <1>7 DEF IInv

(* The batch delete removes exactly what was collected. *)
LEMMA DeleteBatchStep ==
    ASSUME IInv, DeleteBatch
    PROVE  IInv'
<1>1. /\ opc = "delete" /\ opc' = "fetch" /\ succeeded' = <<>>
      /\ rows' = rows \ Elems(succeeded)
      /\ UNCHANGED <<up, keyOf, retries, nextId, todo, accepted, attempted, suspect>>
  BY DEF DeleteBatch, history
<1>2. todo = {} /\ up \notin {"stopped", "flushing"}
  BY <1>1 DEF IInv, TypeOK, IdleInv
<1>3. Elems(succeeded)' = {}
  BY <1>1, ElemsFacts DEF Elems
<1>4. TypeOK'
  <2>1. \A i, j \in 1..Len(succeeded') : succeeded'[i] = succeeded'[j] => i = j
    BY <1>1, ElemsFacts
  <2>2. succeeded' \in Seq(Ids)
    BY <1>1, ElemsFacts
  <2>3. rows' \subseteq rows
    BY <1>1
  <2>4. QED BY <1>1, <1>2, <1>3, <2>1, <2>2, <2>3 DEF IInv, TypeOK
<1>5. IdleInv' /\ UniqueInv' /\ BatchInv'
  BY <1>1, <1>2 DEF IInv, IdleInv, UniqueInv, BatchInv
<1>6. DeliveryInv'
  BY <1>1, <1>3 DEF IInv, DeliveryInv, OnceUnlessFault
<1>7. QED BY <1>4, <1>5, <1>6 DEF IInv

(* The batch delete fails and the ids are deleted one by one ... *)
LEMMA DeleteBatchFailsStep ==
    ASSUME IInv, DeleteBatchFails
    PROVE  IInv'
<1>1. /\ opc = "delete" /\ opc' = "each"
      /\ UNCHANGED <<up, rows, keyOf, retries, nextId, todo, succeeded,
                     accepted, attempted, suspect>>
  BY DEF DeleteBatchFails, table, history
<1>2. Elems(succeeded)' = Elems(succeeded)
  BY <1>1 DEF Elems
<1>3. TypeOK' /\ IdleInv'
  BY <1>1, <1>2 DEF IInv, TypeOK, IdleInv
<1>4. UniqueInv' /\ BatchInv' /\ DeliveryInv'
  BY <1>1, <1>2 DEF IInv, UniqueInv, BatchInv, DeliveryInv, OnceUnlessFault
<1>5. QED BY <1>3, <1>4 DEF IInv

(* ... where an id whose delete fails as well becomes suspect.             *)
LEMMA DeleteEachStep ==
    ASSUME IInv, DeleteEach
    PROVE  IInv'
<1> DEFINE h == Head(succeeded)
           rest == Tail(succeeded)
<1>1. /\ opc = "each" /\ succeeded' = rest
      /\ opc' = IF Len(succeeded) = 1 THEN "fetch" ELSE "each"
      /\ \/ rows' = rows \ {h} /\ suspect' = suspect
         \/ rows' = rows /\ suspect' = suspect \cup {h}
      /\ UNCHANGED <<up, keyOf, retries, nextId, todo, accepted, attempted>>
  BY DEF DeleteEach
<1>2. /\ succeeded \in Seq(Ids) /\ succeeded # <<>> /\ Elems(succeeded) \subseteq rows
      /\ todo = {} /\ up \notin {"stopped", "flushing"}
      /\ rows \subseteq Ids /\ suspect \subseteq Ids
      /\ \A i, j \in 1..Len(succeeded) : succeeded[i] = succeeded[j] => i = j
  BY <1>1 DEF IInv, TypeOK, IdleInv
<1>3. /\ h \in Ids /\ rest \in Seq(Ids) /\ (Len(succeeded) = 1 <=> rest = <<>>)
      /\ Elems(succeeded) = {h} \cup Elems(rest) /\ h \notin Elems(rest)
      /\ \A i, j \in 1..Len(rest) : rest[i] = rest[j] => i = j
  <2>1. h \in Ids /\ rest \in Seq(Ids) /\ (Len(succeeded) = 1 <=> rest = <<>>)
        /\ Elems(succeeded) = {h} \cup Elems(rest)
    BY <1>2, TailFacts
  <2>2. h \notin Elems(rest) /\ \A i, j \in 1..Len(rest) : rest[i] = rest[j] => i = j
    BY <1>2, DistinctTail
  <2>3. QED BY <2>1, <2>2
<1> HIDE DEF h, rest
<1>4. Elems(succeeded)' = Elems(rest)
  BY <1>1 DEF Elems
<1>5. rows' \subseteq rows /\ Elems(rest) \subseteq rows' /\ suspect' \subseteq Ids
  BY <1>1, <1>2, <1>3
<1>6. TypeOK'
  <2>1. \A i, j \in 1..Len(succeeded') : succeeded'[i] = succeeded'[j] => i = j
    BY <1>1, <1>3
  <2>2. /\ opc' \in {"fetch", "each"} /\ (opc' = "each" => succeeded' # <<>>)
        /\ (opc' = "fetch" => succeeded' = <<>>)
    BY <1>1, <1>3
  <2>3. \A id \in rows' : id < nextId'
    BY <1>1, <1>5 DEF IInv, TypeOK
  <2>4. QED BY <1>1, <1>2, <1>3, <1>4, <1>5, <2>1, <2>2, <2>3 DEF IInv, TypeOK
<1>7. IdleInv' /\ UniqueInv' /\ BatchInv'
  BY <1>1, <1>2, <1>5 DEF IInv, IdleInv, UniqueInv, BatchInv
<1>8. DeliveryInv'
  <2>1. \A id \in rows' : accepted'[id] = 0 \/ id \in suspect' \/ id \in Elems(rest)
    BY <1>1, <1>3, <1>5 DEF IInv, DeliveryInv
  <2>2. OnceUnlessFault'
    BY <1>1 DEF IInv, DeliveryInv, OnceUnlessFault
  <2>3. QED BY <1>1, <1>2, <1>3, <1>4, <2>1, <2>2 DEF IInv, DeliveryInv
<1>9. QED BY <1>6, <1>7, <1>8 DEF IInv

(* Dropping the processor's future: what it had collected becomes suspect. *)
LEMMA DropStep ==
    ASSUME IInv, NEW place \in {"fetch", "done"}, Drop(place),
           up' \in {"running", "flushing", "stopped"},
           up' # "running" => place = "done"
    PROVE  IInv'
<1>1. /\ opc' = place /\ todo' = {} /\ succeeded' = <<>>
      /\ suspect' = suspect \cup Elems(succeeded)
      /\ UNCHANGED <<rows, keyOf, retries, nextId, accepted, attempted>>
  BY DEF Drop, table
<1>2. Elems(succeeded)' = {}
  BY <1>1, ElemsFacts DEF Elems
<1>3. TypeOK'
  <2>1. succeeded' \in Seq(Ids)
        /\ \A i, j \in 1..Len(succeeded') : succeeded'[i] = succeeded'[j] => i = j
    BY <1>1, ElemsFacts
  <2>2. suspect' \subseteq Ids
    BY <1>1 DEF IInv, TypeOK
  <2>3. QED BY <1>1, <1>2, <2>1, <2>2 DEF IInv, TypeOK
<1>4. IdleInv' /\ UniqueInv' /\ BatchInv'
  BY <1>1 DEF IInv, IdleInv, UniqueInv, BatchInv
<1>5. DeliveryInv'
  BY <1>1, <1>2 DEF IInv, DeliveryInv, OnceUnlessFault
<1>6. QED BY <1>3, <1>4, <1>5 DEF IInv

(* The supervisor's own steps. *)
LEMMA PhaseStep ==
    ASSUME IInv, Cancel \/ StartDrain
    PROVE  IInv'
<1>1. /\ up' \in {"cancelled", "draining"} /\ opc' \in {opc, "fetch"}
      /\ opc' # opc => opc = "done"
      /\ UNCHANGED <<rows, keyOf, retries, nextId, todo, succeeded, accepted, attempted, suspect>>
  BY DEF Cancel, StartDrain, IInv, IdleInv, table, processor, history
<1>2. Elems(succeeded)' = Elems(succeeded)
  BY <1>1 DEF Elems
<1>3. TypeOK' /\ IdleInv'
  BY <1>1, <1>2 DEF IInv, TypeOK, IdleInv
<1>4. UniqueInv' /\ BatchInv' /\ DeliveryInv'
  BY <1>1, <1>2 DEF IInv, UniqueInv, BatchInv, DeliveryInv, OnceUnlessFault
<1>5. QED BY <1>3, <1>4 DEF IInv

(* Every step keeps the invariant. *)
LEMMA NextIInv == IInv /\ [Next]_vars => IInv'
<1> SUFFICES ASSUME IInv, [Next]_vars PROVE IInv'
  OBVIOUS
<1>1. CASE \E b \in Batches : Enqueue(b)
  BY <1>1, EnqueueStep
<1>2. CASE Boot
  BY <1>2, DropStep DEF Boot
<1>3. CASE Cancel \/ StartDrain
  BY <1>3, PhaseStep
<1>4. CASE Abort \/ CleanupTimeout \/ Crash
  BY <1>4, DropStep DEF Abort, CleanupTimeout, Crash
<1>5. CASE Fetch \/ DrainFetchFails \/ LoopCancelled
  BY <1>5, FetchStep, LeaveStep
<1>6. CASE \E id \in Ids : Execute(id)
  BY <1>6, ExecuteOkStep, ExecuteErrStep, ExecuteAmbiguousStep DEF Execute
<1>7. CASE DeleteBatch \/ DeleteBatchFails \/ DeleteEach
  BY <1>7, DeleteBatchStep, DeleteBatchFailsStep, DeleteEachStep
<1>8. CASE UNCHANGED vars
  <2>1. UNCHANGED <<up, rows, keyOf, retries, nextId, opc, todo, succeeded,
                    accepted, attempted, suspect>>
    BY <1>8 DEF vars, table, processor, history
  <2>2. Elems(succeeded)' = Elems(succeeded)
    BY <2>1 DEF Elems
  <2>3. TypeOK' /\ IdleInv'
    BY <2>1, <2>2 DEF IInv, TypeOK, IdleInv
  <2>4. UniqueInv' /\ BatchInv' /\ DeliveryInv'
    BY <2>1, <2>2 DEF IInv, UniqueInv, BatchInv, DeliveryInv, OnceUnlessFault
  <2>5. QED BY <2>3, <2>4 DEF IInv
<1>9. QED
  BY <1>1, <1>2, <1>3, <1>4, <1>5, <1>6, <1>7, <1>8 DEF Next, SupervisorStep, ProcessorStep

-----------------------------------------------------------------------------
(* The strengthened invariant holds in every reachable state, for every    *)
(* set of keys, payload batches, batch size, concurrency and faults.       *)
THEOREM Inductive == Spec => []IInv
<1>1. QED BY InitIInv, NextIInv, PTL DEF Spec

(* The table, the batch in hand and the list of successful ids keep their  *)
(* types: a delete is only under way for a nonempty, duplicate-free list   *)
(* of rows that are still in the table.                                    *)
THEOREM TypeCorrect == Spec => []TypeOK
<1>1. IInv => TypeOK
  BY DEF IInv
<1>2. QED BY <1>1, Inductive, PTL

(* process_batch_items and the drain deliver a row twice only if a fault   *)
(* hit its answer or its deletion.                                         *)
THEOREM DeliveredOnceUnlessFault == Spec => []OnceUnlessFault
<1>1. IInv => OnceUnlessFault
  BY DEF IInv, DeliveryInv
<1>2. QED BY <1>1, Inductive, PTL

-----------------------------------------------------------------------------
(* Only an execution makes the receiver accept a row, and the row runs.    *)
LEMMA AcceptingStep ==
    ASSUME IInv, [Next]_vars, NEW id \in Ids, accepted'[id] > accepted[id]
    PROVE  opc = "execute" /\ Running(id)
<1>1. \A j \in Ids : accepted[j] \in 0..2
  BY DEF IInv, TypeOK
<1>2. accepted' # accepted
  BY <1>1
<1>3. PICK j \in Ids : ExecuteOk(j) \/ ExecuteAmbiguous(j)
  BY <1>2 DEF Next, SupervisorStep, ProcessorStep, Execute, Enqueue, Boot, Cancel, Abort,
     StartDrain, CleanupTimeout, Crash, Drop, Fetch, DrainFetchFails, LoopCancelled,
     ExecuteErr, DeleteBatch, DeleteBatchFails, DeleteEach, vars, history
<1>4. opc = "execute" /\ Running(j) /\ Accept(j)
  BY <1>3 DEF ExecuteOk, ExecuteAmbiguous, Finish
<1>5. j = id
  <2>1. accepted'[id] # accepted[id]
    BY <1>1
  <2>2. \A k \in Ids \ {j} : accepted'[k] = accepted[k]
    BY <1>4, AcceptFacts DEF IInv, TypeOK
  <2>3. QED BY <2>1, <2>2
<1>6. QED BY <1>4, <1>5

(* The older rows that were never attempted are in the batch, ahead of it. *)
LEMMA OvertakesFew ==
    ASSUME IInv, opc = "execute", NEW id \in Ids, Running(id)
    PROVE  FewOvertaken(id)
<1> DEFINE A == {j \in rows : j < id /\ j \notin attempted}
           B == {j \in todo : j < id}
<1>1. id \in todo /\ Cardinality(B) < Limit /\ Limit \in Nat
  BY OutboxAssumption DEF Running, Limit
<1>2. B \subseteq Ids
  BY DEF IInv, TypeOK
<1>3. A \in SUBSET B
  BY <1>1 DEF IInv, BatchInv
<1> HIDE DEF A, B
<1>4. IsFiniteSet(B)
  BY <1>2, FiniteRows
<1>5. IsFiniteSet(A) /\ Cardinality(A) <= Cardinality(B)
  BY <1>3, <1>4, FS_Subset
<1>6. Cardinality(A) \in Nat /\ Cardinality(B) \in Nat
  BY <1>4, <1>5, FS_CardinalityType
<1>7. Cardinality(A) < Limit
  BY <1>1, <1>5, <1>6
<1>8. QED BY <1>7 DEF FewOvertaken, A

(* A delivery overtakes fewer than `concurrency` older rows that were      *)
(* never attempted: what ORDER BY id ASC LIMIT n and buffer_unordered give *)
(* together.                                                               *)
THEOREM DeliversOldestFirst == Spec => OldestFirst
<1>1. IInv /\ [Next]_vars =>
        [\A id \in Ids : accepted'[id] > accepted[id] => FewOvertaken(id)]_vars
  BY AcceptingStep, OvertakesFew
<1>2. QED BY <1>1, Inductive, PTL DEF Spec, OldestFirst

-----------------------------------------------------------------------------
(* The empty table maps to the empty queue. *)
LEMMA InitImplements == Init => Abstract!Init
<1>1. \A id \in Ids : ~ (0 > 0)
  OBVIOUS
<1>2. QED BY <1>1 DEF Init, Abstract!Init

(* An enqueue adds entries, an acceptance delivers one, a delete removes   *)
(* delivered ones, and every other step leaves the queue alone.            *)
LEMMA NextImplements ==
    IInv /\ [Next]_vars =>
      [Abstract!Next]_<<{<<id, keyOf[id]>> : id \in rows}, {id \in Ids : accepted[id] > 0}>>
<1> DEFINE P == {<<id, keyOf[id]>> : id \in rows}
           D == {id \in Ids : accepted[id] > 0}
<1> SUFFICES ASSUME IInv, [Next]_vars
             PROVE  Abstract!Next \/ (P' = P /\ D' = D)
  BY DEF Abstract!Next
<1> USE DEF table, processor, history
<1>1. rows \subseteq Ids /\ accepted \in [Ids -> 0..2]
  BY DEF IInv, TypeOK
<1>2. CASE \E b \in Batches : Enqueue(b)
  <2>1. PICK b \in Batches : Enqueue(b)
    BY <1>2
  <2>2. IInv'
    BY <2>1, EnqueueStep
  <2>3. /\ accepted' = accepted /\ rows \subseteq rows'
        /\ nextId \in Nat /\ Len(b) \in Nat
        /\ keyOf' = [id \in Ids |-> IF id \in nextId..(nextId + Len(b) - 1)
                                    THEN b[id - nextId + 1] ELSE keyOf[id]]
    BY <2>1, OutboxAssumption DEF Enqueue, IInv, TypeOK
  <2>4. \A id \in rows : keyOf'[id] = keyOf[id]
    <3>1. \A id \in rows : id \in Nat /\ id < nextId
      BY OutboxAssumption DEF IInv, TypeOK, Ids
    <3>2. \A id \in rows : id \notin nextId..(nextId + Len(b) - 1)
      BY <2>3, <3>1
    <3>3. QED BY <1>1, <2>3, <3>2
  <2>5. P \subseteq P'
    BY <2>3, <2>4
  <2>6. \A e, f \in P' : e[2] = f[2] => e = f
    BY <2>2 DEF IInv, UniqueInv
  <2>7. \A e \in P' \ P : e[1] \notin D
    <3>1. ASSUME NEW id \in rows' \ rows PROVE id >= nextId /\ id \in Ids
      <4>1. PICK i \in 1..Len(b) : id = nextId + i - 1
        BY <2>1, <3>1 DEF Enqueue, Inserted
      <4>2. QED BY <2>2, <2>3, <4>1 DEF IInv, TypeOK
    <3>2. \A id \in rows' \ rows : accepted[id] = 0
      BY <3>1 DEF IInv, DeliveryInv
    <3>3. \A id \in rows' \ rows : ~ (accepted[id] > 0)
      BY <3>2
    <3>4. \A e \in P' \ P : e[1] \in rows' \ rows
      BY <2>4
    <3>5. QED BY <3>3, <3>4
  <2>8. D' = D
    BY <2>3
  <2>9. Abstract!Add
    BY <2>5, <2>6, <2>7, <2>8 DEF Abstract!Add
  <2>10. QED BY <2>9 DEF Abstract!Next
<1>3. CASE SupervisorStep
  BY <1>3 DEF SupervisorStep, Boot, Cancel, Abort, StartDrain, CleanupTimeout, Crash, Drop
<1>4. CASE Fetch \/ DrainFetchFails \/ LoopCancelled \/ DeleteBatchFails
  BY <1>4 DEF Fetch, DrainFetchFails, LoopCancelled, DeleteBatchFails
<1>5. CASE \E id \in Ids : ExecuteErr(id)
  BY <1>5 DEF ExecuteErr
<1>6. CASE \E id \in Ids : ExecuteOk(id) \/ ExecuteAmbiguous(id)
  <2>1. PICK id \in Ids : ExecuteOk(id) \/ ExecuteAmbiguous(id)
    BY <1>6
  <2>2. Accept(id) /\ id \in rows /\ P' = P
    BY <2>1 DEF ExecuteOk, ExecuteAmbiguous, Finish, Running, IInv, TypeOK
  <2>3. accepted'[id] > 0 /\ \A j \in Ids \ {id} : accepted'[j] = accepted[j]
    BY <1>1, <2>2, AcceptFacts
  <2>4. D' = D \cup {id}
    BY <2>3
  <2>5. <<id, keyOf[id]>> \in P
    BY <2>2
  <2>6. Abstract!Deliver
    BY <2>2, <2>4, <2>5 DEF Abstract!Deliver
  <2>7. QED BY <2>6 DEF Abstract!Next
<1>7. CASE DeleteBatch \/ DeleteEach
  <2>1. /\ rows' \subseteq rows /\ rows \ rows' \subseteq Elems(succeeded)
        /\ keyOf' = keyOf /\ accepted' = accepted
    <3>1. CASE DeleteBatch
      BY <3>1 DEF DeleteBatch
    <3>2. CASE DeleteEach
      <4>1. succeeded \in Seq(Ids) /\ succeeded # <<>>
        BY <3>2 DEF DeleteEach, IInv, TypeOK
      <4>2. Head(succeeded) \in Elems(succeeded)
        BY <4>1, TailFacts
      <4>3. QED BY <3>2, <4>2 DEF DeleteEach
    <3>3. QED BY <1>7, <3>1, <3>2
  <2>2. P' \subseteq P /\ D' = D
    BY <2>1
  <2>3. \A id \in rows \ rows' : id \in D
    BY <1>1, <2>1 DEF IInv, DeliveryInv
  <2>4. \A e \in P \ P' : e[1] \in D
    BY <2>1, <2>3
  <2>5. Abstract!Remove
    BY <2>2, <2>4 DEF Abstract!Remove
  <2>6. QED BY <2>5 DEF Abstract!Next
<1>8. CASE UNCHANGED vars
  BY <1>8 DEF vars
<1>9. QED
  BY <1>2, <1>3, <1>4, <1>5, <1>6, <1>7, <1>8 DEF Next, ProcessorStep, Execute

(* The outbox, with its batches, retries, failed deletes and restarts,     *)
(* implements an at-least-once queue without duplicate keys: an entry only *)
(* leaves once it was delivered.                                           *)
THEOREM RefinesDeliveryQueue == Spec => ImplementsDeliveryQueue
<1>1. QED
  BY InitImplements, NextImplements, Inductive, PTL
     DEF Spec, ImplementsDeliveryQueue, Abstract!Spec
=============================================================================
