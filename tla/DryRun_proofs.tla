---------------------------- MODULE DryRun_proofs ----------------------------
(***************************************************************************)
(* Proofs about the dry run: for every range, batch size, chunk size and   *)
(* number of concurrent requests the blocks go through the filters once    *)
(* each and in order.                                                      *)
(***************************************************************************)
EXTENDS DryRun, SequenceLemmas

----------------------------------------------------------------------------
\* Arithmetic of the chunk starts.

\* The multiples of s lie at least s apart.
LEMMA MultiplesApart ==
    ASSUME NEW i \in Nat, NEW j \in Nat, NEW s \in Nat, i < j
    PROVE  i * s + s <= j * s
<1>1. PICK d \in Nat : j = i + 1 + d
  OBVIOUS
<1>2. j * s = i * s + s + d * s
  BY <1>1
<1>3. d * s \in Nat /\ i * s \in Nat
  OBVIOUS
<1> QED BY <1>2, <1>3

\* Every number lies between two consecutive multiples of s.
LEMMA MultipleBelow ==
    ASSUME NEW a \in Nat, NEW s \in Nat, s # 0
    PROVE  /\ a \div s \in Nat
           /\ (a \div s) * s <= a
           /\ a < (a \div s) * s + s
  OBVIOUS

\* A multiple of a positive number is at least the factor.
LEMMA FactorBelow ==
    ASSUME NEW i \in Nat, NEW s \in Nat, s # 0
    PROVE  i <= i * s
<1>1. PICK d \in Nat : s = 1 + d
  OBVIOUS
<1>2. i * s = i + i * d
  BY <1>1
<1>3. i * d \in Nat
  OBVIOUS
<1> QED BY <1>2, <1>3

----------------------------------------------------------------------------
\* The chunks of a range are a partition of it (fetch_logs_chunked).

\* A chunk is a pair of numbers and stays within the range.
LEMMA ChunksInRange ==
    ASSUME NEW from \in Nat, NEW to \in Nat, NEW size \in Nat, from <= to,
           NEW c \in Chunks(from, to, size)
    PROVE  /\ c \in Nat \X Nat
           /\ BlocksOf(c) \subseteq from..to
<1>1. CASE size = 0 \/ to - from < size
  BY <1>1 DEF Chunks, BlocksOf
<1>2. CASE ~(size = 0 \/ to - from < size)
  <2>1. PICK start \in Starts(from, to, size) : c = <<start, ChunkEnd(start, to, size)>>
    BY <1>2 DEF Chunks
  <2>2. start \in from..to
    BY DEF Starts
  <2> QED BY <1>2, <2>1, <2>2 DEF ChunkEnd, Lesser, BlocksOf
<1> QED BY <1>1, <1>2

\* No block is in two chunks.
LEMMA ChunksDisjoint ==
    ASSUME NEW from \in Nat, NEW to \in Nat, NEW size \in Nat, from <= to,
           NEW c \in Chunks(from, to, size), NEW d \in Chunks(from, to, size),
           NEW b \in BlocksOf(c), b \in BlocksOf(d)
    PROVE  c = d
<1>1. CASE size = 0 \/ to - from < size
  BY <1>1 DEF Chunks
<1>2. CASE ~(size = 0 \/ to - from < size)
  <2>1. PICK i \in Nat : c = <<from + i * size, ChunkEnd(from + i * size, to, size)>>
    BY <1>2 DEF Chunks, Starts
  <2>2. PICK j \in Nat : d = <<from + j * size, ChunkEnd(from + j * size, to, size)>>
    BY <1>2 DEF Chunks, Starts
  <2>3. i * size \in Nat /\ j * size \in Nat
    OBVIOUS
  <2>4. b \in Int /\ from + i * size <= b /\ b < from + i * size + size
    BY <2>1, <2>3 DEF BlocksOf, ChunkEnd, Lesser
  <2>5. from + j * size <= b /\ b < from + j * size + size
    BY <2>2, <2>3 DEF BlocksOf, ChunkEnd, Lesser
  <2>6. ~(i < j)
    <3>1. i < j => i * size + size <= j * size
      BY MultiplesApart
    <3> QED BY <3>1, <2>3, <2>4, <2>5
  <2>7. ~(j < i)
    <3>1. j < i => j * size + size <= i * size
      BY MultiplesApart
    <3> QED BY <3>1, <2>3, <2>4, <2>5
  <2>8. i = j
    BY <2>6, <2>7
  <2> QED BY <2>1, <2>2, <2>8
<1> QED BY <1>1, <1>2

\* Every block of the range is in a chunk.
LEMMA ChunksCover ==
    ASSUME NEW from \in Nat, NEW to \in Nat, NEW size \in Nat, from <= to,
           NEW b \in from..to
    PROVE  \E c \in Chunks(from, to, size) : b \in BlocksOf(c)
<1>1. CASE size = 0 \/ to - from < size
  BY <1>1 DEF Chunks, BlocksOf
<1>2. CASE ~(size = 0 \/ to - from < size)
  <2> DEFINE i == (b - from) \div size
             start == from + i * size
             c == <<start, ChunkEnd(start, to, size)>>
  <2>1. b - from \in Nat
    OBVIOUS
  <2>2. i \in Nat /\ i * size <= b - from /\ b - from < i * size + size
    BY <1>2, <2>1, MultipleBelow
  <2>3. i <= i * size
    BY <1>2, <2>2, FactorBelow
  <2> HIDE DEF i
  <2>4. i * size \in Nat
    BY <2>2
  <2>5. start \in from..to /\ start <= b /\ b < start + size
    BY <2>2, <2>4
  <2>6. i \in 0 .. to - from
    BY <2>2, <2>3, <2>4
  <2>7. start \in Starts(from, to, size)
    BY <2>5, <2>6 DEF Starts
  <2>8. c \in Chunks(from, to, size)
    BY <1>2, <2>7 DEF Chunks
  <2> HIDE DEF start
  <2>9. b \in BlocksOf(c)
    BY <2>5 DEF BlocksOf, ChunkEnd, Lesser
  <2> QED BY <2>8, <2>9
<1> QED BY <1>1, <1>2

----------------------------------------------------------------------------
\* A fetch (fetch_blocks_concurrent).

\* What a step of the fetch keeps: the invariant, the range, the blocks known to
\* be without logs.
FetchKept(from, to, size) ==
    FetchInv(from, to, size)' /\ short \subseteq short'

\* The fetch starts with every block in a chunk to be asked for.
LEMMA FetchStarts ==
    ASSUME NEW from \in Nat, NEW to \in Nat, NEW size \in Nat, from <= to,
           StartFetch(from, to, size)
    PROVE  FetchKept(from, to, size)
<1>1. \A b \in from..to : \E c \in Chunks(from, to, size) : b \in BlocksOf(c)
  BY ChunksCover
<1> QED BY <1>1 DEF StartFetch, FetchInv, FetchKept

\* An answer for a chunk counts the logs of its blocks and of no others.
LEMMA AnswerKeeps ==
    ASSUME NEW from \in Nat, NEW to \in Nat, NEW size \in Nat, from <= to,
           FetchInv(from, to, size),
           NEW c \in asked, NEW h \in Heights, LogsAnswered(c, h)
    PROVE  FetchKept(from, to, size)
<1> DEFINE covered(b) == \E d \in todo \cup asked : b \in BlocksOf(d)
           left(b) == \E d \in todo' \cup asked' : b \in BlocksOf(d)
<1>1. c \in Chunks(from, to, size) /\ BlocksOf(c) \subseteq from..to
  BY ChunksInRange DEF FetchInv
<1>2. todo' = todo /\ asked' = asked \ {c} /\ wanted' = wanted /\ failed' = failed
  BY DEF LogsAnswered
<1>3. \A b \in BlocksOf(c) : covered(b) /\ ~left(b)
  BY <1>1, <1>2, ChunksDisjoint DEF FetchInv
<1>4. \A b \in from..to : b \notin BlocksOf(c) => (covered(b) <=> left(b))
  BY <1>2
<1>5. \A b \in from..to :
         /\ covered(b) => logs[b] = 0
         /\ ~covered(b) => logs[b] = 1 \/ b \in short \/ "logs" \in failed
  BY DEF FetchInv
<1>6. logs \in [from..to -> {0, 1}] /\ h \in Int
  BY HeightAssumption DEF FetchInv
<1>7. /\ logs' = [b \in from..to |-> IF b \in BlocksOf(c) /\ b <= h THEN logs[b] + 1 ELSE logs[b]]
      /\ short' = short \cup {b \in BlocksOf(c) : b > h}
  BY <1>6 DEF LogsAnswered
<1> HIDE DEF covered, left
<1>8. \A b \in from..to :
         /\ left(b) => logs'[b] = 0
         /\ ~left(b) => logs'[b] = 1 \/ b \in short' \/ "logs" \in failed'
         /\ logs'[b] \in {0, 1}
  <2> TAKE b \in from..to
  <2>1. CASE b \in BlocksOf(c)
    <3>1. logs[b] = 0 /\ ~left(b)
      BY <2>1, <1>3, <1>5
    <3>2. CASE b <= h
      BY <2>1, <3>1, <3>2, <1>7
    <3>3. CASE b > h
      BY <2>1, <3>1, <3>3, <1>6, <1>7
    <3> QED BY <3>2, <3>3, <1>6
  <2>2. CASE b \notin BlocksOf(c)
    BY <2>2, <1>2, <1>4, <1>5, <1>6, <1>7
  <2> QED BY <2>1, <2>2
<1>9. logs' \in [from..to -> {0, 1}]
  BY <1>7, <1>8
<1>10. /\ wanted' = <<from, to>>
       /\ todo' \cap asked' = {}
       /\ todo' \cup asked' \subseteq Chunks(from, to, size)
  BY <1>2 DEF FetchInv
<1> QED BY <1>7, <1>8, <1>9, <1>10 DEF FetchKept, FetchInv, left

\* Every other step of the fetch leaves what has come back alone.
LEMMA FetchStepKeeps ==
    ASSUME NEW from \in Nat, NEW to \in Nat, NEW size \in Nat, from <= to,
           FetchInv(from, to, size),
           \/ AskLogs
           \/ LogsFail
           \/ AskBlock
           \/ \E b \in Blocks, h \in Heights : BlockAnswered(b, h)
           \/ UNCHANGED fetchVars
    PROVE  FetchKept(from, to, size)
<1>1. CASE AskLogs
  <2>1. PICK c \in todo : todo' = todo \ {c} /\ asked' = asked \cup {c}
    BY <1>1 DEF AskLogs
  <2>2. todo' \cup asked' = todo \cup asked /\ todo' \cap asked' = {}
    BY <2>1 DEF FetchInv
  <2>3. UNCHANGED <<wanted, logs, short, failed>>
    BY <1>1 DEF AskLogs
  <2> QED BY <2>2, <2>3 DEF FetchInv, FetchKept
<1>2. CASE LogsFail
  BY <1>2 DEF LogsFail, FetchInv, FetchKept
<1>3. CASE AskBlock
  BY <1>3 DEF AskBlock, FetchInv, FetchKept
<1>4. CASE \E b \in Blocks, h \in Heights : BlockAnswered(b, h)
  <2>1. UNCHANGED <<wanted, todo, asked, logs, short>> /\ failed \subseteq failed'
    BY <1>4 DEF BlockAnswered
  <2> QED BY <2>1 DEF FetchInv, FetchKept
<1>5. CASE UNCHANGED fetchVars
  BY <1>5 DEF fetchVars, FetchInv, FetchKept
<1> QED BY <1>1, <1>2, <1>3, <1>4, <1>5

----------------------------------------------------------------------------
\* The run.

\* A function on 1..n is a sequence of length n.
LEMMA FunctionIsSeq ==
    ASSUME NEW S, NEW n \in Nat, NEW f \in [1..n -> S]
    PROVE  f \in Seq(S) /\ Len(f) = n
  OBVIOUS

\* Where the batch at current_block ends, given that the range is not exhausted.
LEMMA BatchInRange ==
    ASSUME RunInv, current <= args.range[2]
    PROVE  /\ args.range[1] \in Nat /\ args.range[2] \in Nat /\ args.chunk \in Nat
           /\ BatchEnd \in Nat
           /\ current \in Nat /\ current <= BatchEnd /\ BatchEnd <= args.range[2]
<1>1. args.range \in Nat \X Nat /\ args.chunk \in Nat
  BY DryRunAssumption DEF RunInv, TypeOfArgs
<1> QED BY <1>1, DryRunAssumption DEF RunInv, BatchEnd, Lesser

\* What a step that processes no block keeps.
LEMMA ProcessedKept ==
    ASSUME RunInv, UNCHANGED <<args, current, processed>>, short \subseteq short',
           phase' = "start" => phase = "start",
           phase' \in {"fetching", "evaluating"} =>
              current <= args.range[2] /\ FetchInv(current, BatchEnd, args.chunk)',
           phase' = "evaluating" => todo' = {} /\ asked' = {} /\ failed' = {}
    PROVE  RunInv'
<1>1. BlocksOnceInOrder'
  BY DEF RunInv, BlocksOnceInOrder
<1> QED BY <1>1 DEF RunInv, TypeOfArgs

\* run_dry_run_from starts at the first block of the range.
LEMMA InitRunInv == Init => RunInv
<1> SUFFICES ASSUME Init PROVE RunInv
  OBVIOUS
<1>1. args.range \in Nat \X Nat
  BY DryRunAssumption DEF Init, TypeOfArgs
<1> QED BY <1>1 DEF Init, RunInv, BlocksOnceInOrder

\* The batch that was fetched is appended, block by block.
LEMMA EvaluateKeeps == ASSUME RunInv, Evaluate PROVE RunInv'
<1> DEFINE to == BatchEnd
           n == to - current + 1
<1>1. /\ args.range[1] \in Nat /\ args.range[2] \in Nat /\ args.chunk \in Nat
      /\ to \in Nat /\ current \in Nat /\ current <= to /\ args.range[1] <= current
  BY BatchInRange DEF RunInv, Evaluate
<1>2. FetchInv(current, to, args.chunk) /\ todo = {} /\ asked = {} /\ failed = {}
  BY DEF RunInv, Evaluate
<1>3. /\ UNCHANGED <<args, short>>
      /\ processed' = processed \o BlockData
      /\ current' = to + 1
      /\ phase' = "next"
  BY <1>2 DEF Evaluate, fetchVars, FetchInv
<1> HIDE DEF to
<1>4. \A b \in current..to : logs[b] \in {0, 1} /\ (logs[b] = 1 \/ b \in short)
  BY <1>2 DEF FetchInv
<1>5. wanted = <<current, to>>
  BY <1>2 DEF FetchInv
<1>6. BlockData = [k \in 1..n |-> [number |-> current + k - 1, copies |-> logs[current + k - 1]]]
  BY <1>5 DEF BlockData, FromRawData
<1>7. n \in Nat
  BY <1>1
<1>8. \A k \in 1..n : current + k - 1 \in current..to /\ current + k - 1 \in Nat
  BY <1>1
<1> HIDE DEF n
<1>9. BlockData \in Seq([number : Nat, copies : {0, 1}]) /\ Len(BlockData) = n
  <2>1. BlockData \in [1..n -> [number : Nat, copies : {0, 1}]]
    BY <1>4, <1>6, <1>8
  <2> HIDE DEF BlockData
  <2> QED BY <2>1, <1>7, FunctionIsSeq
<1>10. processed \in Seq([number : Nat, copies : {0, 1}]) /\ Len(processed) = current - args.range[1]
  BY DEF RunInv
<1> DEFINE old == Len(processed)
<1>11. /\ processed' \in Seq([number : Nat, copies : {0, 1}])
       /\ Len(processed') = old + n
       /\ \A k \in 1..old + n : processed'[k] = IF k <= old THEN processed[k] ELSE BlockData[k - old]
  BY <1>3, <1>9, <1>10, ConcatElements
<1>12. BlocksOnceInOrder'
  <2> SUFFICES ASSUME NEW k \in 1..old + n
               PROVE  /\ processed'[k].number = args.range[1] + k - 1
                      /\ processed'[k].copies # 1 =>
                            processed'[k].copies = 0 /\ processed'[k].number \in short
    BY <1>3, <1>11 DEF BlocksOnceInOrder
  <2>1. CASE k <= old
    <3>1. k \in DOMAIN processed
      BY <2>1, <1>10
    <3> QED BY <2>1, <3>1, <1>11 DEF RunInv, BlocksOnceInOrder
  <2>2. CASE k > old
    <3>1. k - old \in 1..n
      BY <2>2, <1>7, <1>10
    <3> DEFINE b == current + (k - old) - 1
    <3>2. b = args.range[1] + k - 1
      BY <1>1, <1>10
    <3>3. processed'[k] = [number |-> b, copies |-> logs[b]]
      <4>1. processed'[k] = BlockData[k - old]
        BY <2>2, <1>10, <1>11
      <4> QED BY <4>1, <3>1, <1>6
    <3>4. b \in current..to
      BY <3>1, <1>8
    <3> HIDE DEF b
    <3> QED BY <3>2, <3>3, <3>4, <1>4
  <2> QED BY <2>1, <2>2, <1>10
<1>13. Len(processed') = current' - args'.range[1]
  <2>1. old + n = to + 1 - args.range[1]
    BY <1>1, <1>10 DEF n
  <2>2. args'.range[1] = args.range[1] /\ current' = to + 1
    BY <1>3
  <2>3. Len(processed') = old + n
    BY <1>11
  <2> HIDE DEF old
  <2> QED BY <2>1, <2>2, <2>3, <1>1
<1>14. current' \in Nat /\ args'.range[1] <= current' /\ args' \in TypeOfArgs
  BY <1>1, <1>3 DEF RunInv
<1> QED BY <1>3, <1>11, <1>12, <1>13, <1>14 DEF RunInv, TypeOfArgs

\* Every step of the run keeps the invariant.
LEMMA NextRunInv == ASSUME RunInv, [Next]_vars PROVE RunInv'
<1>1. CASE InvalidRange \/ FetchFails \/ EvaluateFails \/ FinishFails
  <2>1. Abort
    BY <1>1 DEF InvalidRange, FetchFails, EvaluateFails, FinishFails
  <2> QED BY <2>1, ProcessedKept DEF Abort, fetchVars
<1>2. CASE StartBatch
  <2>1. current <= args.range[2]
    <3>1. CASE phase = "start" /\ args.range[1] <= args.range[2]
      BY <3>1 DEF RunInv
    <3>2. CASE phase = "next" /\ current <= args.range[2]
      BY <3>2
    <3> QED BY <1>2, <3>1, <3>2 DEF StartBatch
  <2>2. FetchKept(current, BatchEnd, args.chunk)
    BY <1>2, <2>1, BatchInRange, FetchStarts DEF StartBatch
  <2>3. phase' = "fetching" /\ UNCHANGED <<args, current, processed>>
    BY <1>2 DEF StartBatch
  <2> QED BY <2>1, <2>2, <2>3, ProcessedKept DEF FetchKept, FetchInv, BatchEnd
<1>3. CASE Fetching
  <2>1. phase = "fetching" /\ phase' = phase /\ UNCHANGED <<args, current, processed>>
    BY <1>3 DEF Fetching, runVars
  <2>2. current <= args.range[2] /\ FetchInv(current, BatchEnd, args.chunk)
    BY <2>1 DEF RunInv
  <2>3. FetchKept(current, BatchEnd, args.chunk)
    <3>1. CASE \E c \in asked, h \in Heights : LogsAnswered(c, h)
      BY <3>1, <2>2, BatchInRange, AnswerKeeps
    <3>2. CASE \/ AskLogs
               \/ LogsFail
               \/ AskBlock
               \/ \E b \in Blocks, h \in Heights : BlockAnswered(b, h)
      BY <3>2, <2>2, BatchInRange, FetchStepKeeps
    <3> QED BY <1>3, <3>1, <3>2 DEF Fetching
  <2> QED BY <2>1, <2>2, <2>3, ProcessedKept DEF FetchKept, FetchInv, BatchEnd
<1>4. CASE FetchDone
  <2>1. /\ phase = "fetching"
        /\ phase' = "evaluating"
        /\ todo = {} /\ asked = {} /\ failed = {}
        /\ UNCHANGED <<args, current, processed, fetchVars>>
    BY <1>4 DEF FetchDone, Joined
  <2>2. current <= args.range[2] /\ FetchInv(current, BatchEnd, args.chunk)
    BY <2>1 DEF RunInv
  <2> QED BY <2>1, <2>2, ProcessedKept DEF fetchVars, FetchInv, BatchEnd
<1>5. CASE Evaluate
  BY <1>5, EvaluateKeeps
<1>6. CASE FinishLoop \/ (\E k \in DOMAIN rows : Deliver(k)) \/ Report
  <2>1. phase' \notin {"start", "fetching", "evaluating"} /\ UNCHANGED <<args, current, processed, short>>
    BY <1>6 DEF FinishLoop, Deliver, Report, fetchVars
  <2> QED BY <2>1, ProcessedKept
<1>7. CASE UNCHANGED vars
  <2>1. UNCHANGED <<args, current, processed, phase, fetchVars>>
    BY <1>7 DEF vars, runVars
  <2> QED BY <2>1, ProcessedKept DEF RunInv, fetchVars, FetchInv, BatchEnd
<1> QED BY <1>1, <1>2, <1>3, <1>4, <1>5, <1>6, <1>7 DEF Next

\* Whatever the range, the batches, the chunks, the heights of the nodes and the
\* order of their answers: the blocks go through the filters once each, in order
\* and with their logs exactly once, unless a node without the block was asked.
THEOREM BlocksGoThroughOnceInOrder == Spec => []BlocksOnceInOrder
<1>1. Init => RunInv
  BY InitRunInv
<1>2. RunInv /\ [Next]_vars => RunInv'
  BY NextRunInv
<1>3. RunInv => BlocksOnceInOrder
  BY DEF RunInv
<1> QED BY <1>1, <1>2, <1>3, PTL DEF Spec

----------------------------------------------------------------------------
\* The report.

\* A block has at most one match, and it carries the block's number.
LEMMA MatchesInBlock ==
    ASSUME NEW data, data.number \in Nat, data.copies \in {0, 1}
    PROVE  /\ MatchesIn(data) \in Seq(Found)
           /\ \A k \in DOMAIN MatchesIn(data) : k = 1 /\ MatchesIn(data)[k].block = data.number
<1> DEFINE size == CASE chain[data.number] = "log" -> data.copies
                     [] chain[data.number] = "tx" -> 1
                     [] OTHER -> 0
           m == [block |-> data.number, monitor |-> chain[data.number]]
<1>1. size \in {0, 1} /\ (size # 0 => chain[data.number] \in {"log", "tx"})
  OBVIOUS
<1>2. MatchesIn(data) = [k \in 1..size |-> m]
  BY DEF MatchesIn
<1>3. size # 0 => m \in Found
  <2> HIDE DEF size
  <2> QED BY <1>1 DEF Found
<1>4. m.block = data.number
  OBVIOUS
<1> HIDE DEF size, m
<1>5. [k \in 1..size |-> m] \in [1..size -> Found]
  BY <1>1, <1>3
<1>6. size \in Nat
  BY <1>1
<1>7. [k \in 1..size |-> m] \in Seq(Found)
  <2> HIDE DEF Found
  <2> QED BY <1>5, <1>6, FunctionIsSeq
<1>8. \A k \in 1..size : k = 1
  BY <1>1
<1> QED BY <1>2, <1>4, <1>7, <1>8

\* The matches of a batch are of its blocks, and none is found twice.
LEMMA BatchMatchesFacts ==
    ASSUME RunInv, phase = "evaluating"
    PROVE  /\ BatchMatches \in Seq(Found)
           /\ IsInjective(BatchMatches)
           /\ \A m \in ToSet(BatchMatches) : m.block \in Nat /\ current <= m.block /\ m.block <= BatchEnd
<1> DEFINE to == BatchEnd
           n == to - current + 1
           ss == [k \in DOMAIN BlockData |-> MatchesIn(BlockData[k])]
<1>1. to \in Nat /\ current \in Nat /\ current <= to
  BY BatchInRange DEF RunInv
<1>2. /\ wanted = <<current, to>>
      /\ \A b \in current..to : logs[b] \in {0, 1}
  BY DEF RunInv, FetchInv
<1>3. n \in Nat /\ \A k \in 1..n : current + k - 1 \in current..to /\ current + k - 1 \in Nat
  BY <1>1
<1>4. DOMAIN BlockData = 1..n
  BY <1>2 DEF BlockData
<1>5. \A k \in 1..n : BlockData[k].number = current + k - 1 /\ BlockData[k].copies \in {0, 1}
  <2>1. BlockData = [k \in 1..n |-> [number |-> current + k - 1, copies |-> logs[current + k - 1]]]
    BY <1>2 DEF BlockData, FromRawData
  <2> HIDE DEF n, to
  <2> QED BY <1>2, <1>3, <2>1
<1> HIDE DEF n, to
<1>6. \A k \in 1..n :
         /\ ss[k] \in Seq(Found)
         /\ \A i \in DOMAIN ss[k] : i = 1 /\ ss[k][i].block = current + k - 1
  BY <1>3, <1>4, <1>5, MatchesInBlock
<1>7. ss \in Seq(Seq(Found))
  <2> DEFINE T == Seq(Found)
  <2>1. ss \in [1..n -> T]
    BY <1>4, <1>6
  <2> HIDE DEF T, ss
  <2>2. ss \in Seq(T)
    BY <1>3, <2>1, FunctionIsSeq
  <2> QED BY <2>2 DEF T
<1>8. DOMAIN ss = 1..n
  BY <1>4
<1>9. BatchMatches = FlattenSeq(ss)
  BY DEF BatchMatches
<1> HIDE DEF ss
<1>10. OnceEach(ss)
  <2> SUFFICES ASSUME NEW i \in 1..n, NEW j \in 1..n, NEW k \in DOMAIN ss[i], NEW l \in DOMAIN ss[j],
                      ss[i][k] = ss[j][l]
               PROVE  i = j /\ k = l
    BY <1>8, Zenon DEF OnceEach
  <2>1. k = 1 /\ l = 1 /\ ss[i][k].block = current + i - 1 /\ ss[j][l].block = current + j - 1
    BY <1>6, Zenon
  <2>2. current + i - 1 = current + j - 1
    BY <2>1
  <2> QED BY <1>1, <1>3, <2>1, <2>2
<1>11. \A m \in AllOf(ss) : \E k \in 1..n : m.block = current + k - 1
  <2> SUFFICES ASSUME NEW k \in 1..n, NEW m \in ToSet(ss[k]) PROVE m.block = current + k - 1
    BY <1>8 DEF AllOf
  <2> QED BY <1>6 DEF ToSet
<1>12. \A m \in AllOf(ss) : m.block \in Nat /\ current <= m.block /\ m.block <= to
  <2> SUFFICES ASSUME NEW m \in AllOf(ss) PROVE m.block \in Nat /\ current <= m.block /\ m.block <= to
    OBVIOUS
  <2>1. PICK k \in 1..n : m.block = current + k - 1
    BY <1>11
  <2> QED BY <1>1, <1>3, <2>1
<1>13. /\ FlattenSeq(ss) \in Seq(Found)
       /\ ToSet(FlattenSeq(ss)) = AllOf(ss)
       /\ IsInjective(FlattenSeq(ss))
  <2> HIDE DEF Found
  <2> QED BY <1>7, <1>10, FlattenFacts
<1> QED BY <1>9, <1>12, <1>13 DEF to

\* One match is put into a window that does not hold it.
LEMMA AppendNew ==
    ASSUME NEW F, NEW s \in Seq(F), NEW x \in F
    PROVE  /\ Append(s, x) \in Seq(F)
           /\ ToSet(Append(s, x)) = ToSet(s) \cup {x}
           /\ IsInjective(s) /\ x \notin ToSet(s) => IsInjective(Append(s, x))
<1> DEFINE t == <<x>>
<1>1. t \in Seq(F) /\ DOMAIN t = {1} /\ t[1] = x /\ Append(s, x) = s \o t
  OBVIOUS
<1> HIDE DEF t
<1>2. ToSet(t) = {x} /\ IsInjective(t)
  BY <1>1 DEF ToSet, IsInjective
<1> QED BY <1>1, <1>2, ConcatSet

\* The window afterwards holds what it held and the matches of the batch, all
\* of them once (handle_aggregation).
LEMMA AggregationFacts ==
    ASSUME NEW F, window \in Seq(F), IsInjective(window), NEW found \in Seq(F)
    PROVE  /\ HandleAggregation(found) \in Seq(F)
           /\ ToSet(HandleAggregation(found)) = ToSet(window) \cup ToSet(found)
           /\ IsInjective(HandleAggregation(found))
<1> DEFINE n == Len(found)
           T == Seq(F)
           push(w, x) == IF Contains(w, x) THEN w ELSE Append(w, x)
           G(f) == [k \in 0..n |-> IF k = 0 THEN window
                                   ELSE IF Contains(f[k - 1], found[k]) THEN f[k - 1]
                                   ELSE Append(f[k - 1], found[k])]
           step == [p \in T \X (0 + 1 .. n) |-> push(p[1], found[p[2]])]
<1>1. n \in Nat /\ 0 <= n /\ DOMAIN found = 1..n /\ \A k \in 1..n : found[k] \in F
  OBVIOUS
<1>2. ASSUME NEW w \in T, NEW x \in F, IsInjective(w)
      PROVE  /\ push(w, x) \in T
             /\ ToSet(push(w, x)) = ToSet(w) \cup {x}
             /\ IsInjective(push(w, x))
  <2>1. Contains(w, x) <=> x \in ToSet(w)
    BY DEF Contains, ToSet
  <2>2. CASE Contains(w, x)
    BY <1>2, <2>1, <2>2
  <2>3. CASE ~ Contains(w, x)
    <3>1. push(w, x) = Append(w, x)
      BY <2>3
    <3> QED BY <1>2, <2>1, <2>3, <3>1, AppendNew
  <2> QED BY <2>2, <2>3
<1>3. step \in [T \X (0 + 1 .. n) -> T]
  <2> SUFFICES ASSUME NEW p \in T \X (0 + 1 .. n) PROVE push(p[1], found[p[2]]) \in T
    OBVIOUS
  <2>1. p[1] \in T /\ found[p[2]] \in F
    BY <1>1
  <2> QED BY <2>1, AppendNew
<1> HIDE DEF n, T
<1>4. \E f \in [0..n -> T] : Follows(f, window, step, 0, n)
  <2> DEFINE lo == 0
  <2>1. lo \in Nat /\ n \in Nat /\ lo <= n /\ window \in T /\ step \in [T \X (lo + 1 .. n) -> T]
    BY <1>1, <1>3 DEF T
  <2> HIDE DEF lo, step
  <2>2. \E f \in [lo..n -> T] : Follows(f, window, step, lo, n)
    BY <2>1, RecursionExists
  <2> QED BY <2>2 DEF lo
<1>5. PICK g \in [0..n -> T] :
         g[0] = window /\ \A k \in 1..n : g[k] = step[<<g[k - 1], k>>]
  <2> HIDE DEF step
  <2>1. 0 + 1 .. n = 1..n
    OBVIOUS
  <2> QED BY <1>4, <2>1 DEF Follows
<1>6. \A k \in 1..n : g[k] = push(g[k - 1], found[k])
  <2> SUFFICES ASSUME NEW k \in 1..n PROVE g[k] = push(g[k - 1], found[k])
    OBVIOUS
  <2>1. <<g[k - 1], k>> \in T \X (0 + 1 .. n)
    BY <1>1
  <2>2. step[<<g[k - 1], k>>] = push(g[k - 1], found[k])
    <3> HIDE DEF push
    <3> QED BY <2>1
  <2> HIDE DEF step, push
  <2> QED BY <1>5, <2>2
<1>7. g = G(g)
  <2>1. \A k \in 0..n : g[k] = G(g)[k]
    <3> SUFFICES ASSUME NEW k \in 0..n
                 PROVE  g[k] = IF k = 0 THEN window ELSE push(g[k - 1], found[k])
      OBVIOUS
    <3>1. k = 0 \/ k \in 1..n
      BY <1>1
    <3> HIDE DEF push
    <3> QED BY <1>5, <1>6, <3>1
  <2> QED BY <2>1
<1> DEFINE f == CHOOSE h : h = G(h)
<1>8. f = G(f)
  BY <1>7
<1>9. HandleAggregation(found) = f[n]
  BY DEF HandleAggregation, n
<1> HIDE DEF f
<1>10. f[0] = window /\ \A k \in 1..n : f[k] = push(f[k - 1], found[k])
  <2> DEFINE h == G(f)
  <2>1. h[0] = window /\ \A k \in 1..n : h[k] = push(f[k - 1], found[k])
    <3>1. 0 \in 0..n /\ \A k \in 1..n : k \in 0..n /\ k # 0
      BY <1>1
    <3> QED BY <3>1
  <2> HIDE DEF h, push
  <2>2. h = f
    BY <1>8 DEF h
  <2> QED BY <2>1, <2>2
<1> DEFINE Before(k) == ToSet(window) \cup {found[i] : i \in 1..k}
           Good == {k \in 0..n : f[k] \in T /\ ToSet(f[k]) = Before(k) /\ IsInjective(f[k])}
<1>11. 0 \in Good
  <2>1. Before(0) = ToSet(window) /\ 0 \in 0..n
    <3>1. 1..0 = {}
      OBVIOUS
    <3> QED BY <1>1, <3>1
  <2> HIDE DEF Before
  <2> QED BY <1>10, <2>1 DEF T
<1>12. ASSUME NEW k \in 0 + 1 .. n, k - 1 \in Good PROVE k \in Good
  <2>1. k \in 1..n /\ k \in 0..n /\ found[k] \in F
    BY <1>1
  <2>2. f[k] = push(f[k - 1], found[k])
    <3> HIDE DEF push
    <3> QED BY <1>10, <2>1
  <2>3. f[k - 1] \in T /\ ToSet(f[k - 1]) = Before(k - 1) /\ IsInjective(f[k - 1])
    BY <1>12
  <2>4. Before(k) = Before(k - 1) \cup {found[k]}
    <3>1. 1..k = (1 .. k - 1) \cup {k}
      BY <1>1
    <3> QED BY <3>1
  <2> HIDE DEF push, Before
  <2>5. f[k] \in T /\ ToSet(f[k]) = ToSet(f[k - 1]) \cup {found[k]} /\ IsInjective(f[k])
    BY <1>2, <2>1, <2>2, <2>3
  <2> QED BY <2>1, <2>3, <2>4, <2>5
<1>13. n \in Good
  <2> DEFINE lo == 0
  <2> HIDE DEF Good
  <2>1. lo \in Nat /\ lo \in Good /\ \A k \in lo + 1 .. n : k - 1 \in Good => k \in Good
    BY <1>11, <1>12
  <2>2. n \in lo..n
    BY <1>1
  <2> HIDE DEF lo
  <2> QED BY <1>1, <2>1, <2>2, IntervalInduction
<1>14. Before(n) = ToSet(window) \cup ToSet(found)
  BY <1>1 DEF ToSet
<1> HIDE DEF Before
<1> QED BY <1>9, <1>13, <1>14 DEF T

\* What holds at the start, and what steps that move no match keep.
LEMMA InitReportInv == Init => ReportInv
<1> SUFFICES ASSUME Init PROVE ReportInv
  OBVIOUS
<1>1. /\ matches = <<>> /\ window = <<>> /\ throttled = {} /\ rows = <<>> /\ delivered = <<>>
      /\ count = 0 /\ alerts = 0 /\ phase = "start"
  BY DEF Init
<1>2. <<>> \in Seq(Found) /\ <<>> \in Seq(Seq(Found)) /\ DOMAIN <<>> = {} /\ Len(<<>>) = 0
  OBVIOUS
<1>3. AllOf(<<>>) = {} /\ ToSet(<<>>) = {} /\ IsInjective(<<>>) /\ OnceEach(<<>>)
  BY <1>2 DEF AllOf, ToSet, IsInjective, OnceEach
<1>4. PlacesInv
  <2> HIDE DEF Found
  <2> QED BY <1>1, <1>2, <1>3 DEF PlacesInv
<1>5. LoopInv
  BY <1>1, <1>2, DryRunAssumption DEF LoopInv
<1> QED BY <1>4, <1>5 DEF ReportInv

LEMMA PlacesKept ==
    ASSUME PlacesInv, UNCHANGED <<chain, current, matches, window, throttled, rows, delivered>>
    PROVE  PlacesInv'
<1>1. Found' = Found
  BY DEF Found
<1> HIDE DEF Found
<1> QED BY <1>1 DEF PlacesInv

\* The batch brings new matches only, and each of them goes to one place: a
\* row of its own, the window, or the throttled ones.
LEMMA EvaluateReport ==
    ASSUME RunInv, ReportInv, Evaluate
    PROVE  ReportInv'
<1> DEFINE found == BatchMatches
           n == Len(found)
           F == Found
           single(s) == [k \in DOMAIN s |-> <<s[k]>>]
<1>1. /\ found \in Seq(F) /\ IsInjective(found)
      /\ \A m \in ToSet(found) : m.block \in Nat /\ current <= m.block /\ m.block <= BatchEnd
  BY BatchMatchesFacts DEF Evaluate
<1>2. /\ current \in Nat /\ BatchEnd \in Nat /\ BatchEnd <= args.range[2] /\ args.range[2] \in Nat
      /\ current <= BatchEnd
  BY BatchInRange DEF RunInv, Evaluate
<1>3. /\ matches' = matches \o found /\ current' = BatchEnd + 1 /\ phase' = "next"
      /\ UNCHANGED <<args, chain, delivered>>
  BY DEF Evaluate, RunInv, FetchInv
<1>4. F' = F
  BY <1>3 DEF Found
<1>5. \/ /\ args.policy = "none"
         /\ rows' = rows \o single(found)
         /\ alerts' = alerts + n
         /\ UNCHANGED <<window, throttled, count>>
      \/ /\ args.policy = "throttle"
         /\ \E c \in {count, 0} :
               LET k == Lesser(n, ThrottleMax - c)
               IN  /\ rows' = rows \o single(SubSeq(found, 1, k))
                   /\ alerts' = alerts + k
                   /\ count' = c + k
                   /\ throttled' = throttled \cup {found[i] : i \in k + 1 .. n}
         /\ UNCHANGED window
      \/ /\ args.policy = "aggregation"
         /\ window' = HandleAggregation(found)
         /\ UNCHANGED <<rows, alerts, throttled, count>>
  BY DEF Evaluate
<1>6. n \in Nat
  BY <1>1
<1> HIDE DEF found, F, n
<1>7. /\ matches \in Seq(F) /\ window \in Seq(F) /\ throttled \subseteq F
      /\ rows \in Seq(Seq(F)) /\ delivered \in Seq(Seq(F))
      /\ ToSet(matches) = throttled \cup ToSet(window) \cup AllOf(rows) \cup AllOf(delivered)
      /\ throttled \cap (ToSet(window) \cup AllOf(rows) \cup AllOf(delivered)) = {}
      /\ ToSet(window) \cap (AllOf(rows) \cup AllOf(delivered)) = {}
      /\ AllOf(rows) \cap AllOf(delivered) = {}
      /\ IsInjective(matches) /\ IsInjective(window) /\ OnceEach(rows) /\ OnceEach(delivered)
      /\ \A m \in ToSet(matches) : m.block < current
  BY DEF ReportInv, PlacesInv, F
<1>8. count \in 0..ThrottleMax /\ alerts \in Nat /\ alerts = Len(rows) + Len(delivered)
  BY DEF ReportInv, LoopInv
<1>9. ToSet(matches) \cap ToSet(found) = {}
  <2> SUFFICES ASSUME NEW m, m \in ToSet(matches), m \in ToSet(found) PROVE FALSE
    OBVIOUS
  <2>1. m.block \in Nat /\ current <= m.block /\ m.block < current
    BY <1>1, <1>7
  <2> QED BY <1>2, <2>1
<1>10. /\ matches' \in Seq(F) /\ IsInjective(matches')
       /\ ToSet(matches') = ToSet(matches) \cup ToSet(found)
  BY <1>1, <1>3, <1>7, <1>9, ConcatSet
<1>11. \A m \in ToSet(matches') : m.block < current'
  <2>1. \A m \in ToSet(matches) : m.block < current'
    <3>1. matches \in Seq(Found) /\ \A m \in Found : m.block \in Nat
      BY <1>7 DEF F, Found
    <3>2. \A m \in ToSet(matches) : m.block \in Nat
      <4> HIDE DEF Found
      <4> QED BY <3>1 DEF ToSet
    <3> QED BY <1>2, <1>3, <1>7, <3>2
  <2>2. \A m \in ToSet(found) : m.block < current'
    BY <1>1, <1>2, <1>3
  <2> QED BY <1>10, <2>1, <2>2
<1>12. AllOf(rows) \subseteq ToSet(matches) /\ ToSet(window) \subseteq ToSet(matches)
       /\ AllOf(delivered) \subseteq ToSet(matches) /\ throttled \subseteq ToSet(matches)
  BY <1>7
<1>13. SUFFICES /\ window' \in Seq(F) /\ throttled' \subseteq F /\ rows' \in Seq(Seq(F))
                /\ ToSet(matches') = throttled' \cup ToSet(window') \cup AllOf(rows') \cup AllOf(delivered)
                /\ throttled' \cap (ToSet(window') \cup AllOf(rows') \cup AllOf(delivered)) = {}
                /\ ToSet(window') \cap (AllOf(rows') \cup AllOf(delivered)) = {}
                /\ AllOf(rows') \cap AllOf(delivered) = {}
                /\ IsInjective(window') /\ OnceEach(rows')
                /\ count' \in 0..ThrottleMax /\ alerts' \in Nat
                /\ alerts' = Len(rows') + Len(delivered)
  <2> HIDE DEF single
  <2>1. PlacesInv'
    BY <1>3, <1>4, <1>7, <1>10, <1>11, <1>13 DEF PlacesInv, F
  <2>2. LoopInv'
    <3>1. current' <= args'.range[2] + 1
      BY <1>2, <1>3
    <3> QED BY <1>3, <1>13, <3>1 DEF LoopInv
  <2> QED BY <2>1, <2>2 DEF ReportInv
<1>14. CASE args.policy = "none"
  <2>1. rows' = rows \o single(found) /\ alerts' = alerts + n /\ UNCHANGED <<window, throttled, count>>
    BY <1>5, <1>14
  <2>2. /\ single(found) \in Seq(Seq(F)) /\ Len(single(found)) = n
        /\ AllOf(single(found)) = ToSet(found) /\ OnceEach(single(found))
    BY <1>1, RowsOfOne DEF n
  <2> HIDE DEF single
  <2>3. AllOf(rows) \cap AllOf(single(found)) = {}
    BY <1>9, <1>12, <2>2
  <2>4. /\ rows' \in Seq(Seq(F)) /\ Len(rows') = Len(rows) + n
        /\ AllOf(rows') = AllOf(rows) \cup ToSet(found) /\ OnceEach(rows')
    <3> DEFINE new == single(found)
               T == Seq(F)
    <3>1. /\ rows \in Seq(T) /\ new \in Seq(T) /\ rows' = rows \o new
          /\ OnceEach(rows) /\ OnceEach(new) /\ AllOf(rows) \cap AllOf(new) = {}
      BY <1>7, <2>1, <2>2, <2>3
    <3>2. Len(new) = n /\ AllOf(new) = ToSet(found)
      BY <2>2
    <3> HIDE DEF new, T
    <3>3. rows' \in Seq(T) /\ Len(rows') = Len(rows) + Len(new) /\ OnceEach(rows')
      BY ONLY <3>1, AddRows
    <3>4. AllOf(rows') = AllOf(rows) \cup AllOf(new)
      BY ONLY <3>1, AddRows
    <3> QED BY ONLY <3>2, <3>3, <3>4 DEF T
  <2>5. Len(rows) \in Nat /\ Len(delivered) \in Nat
    BY <1>7
  <2>6. alerts' \in Nat /\ alerts' = Len(rows') + Len(delivered)
    BY <1>6, <1>8, <2>1, <2>4, <2>5
  <2> QED BY <1>7, <1>8, <1>9, <1>10, <1>12, <2>1, <2>4, <2>6
<1>15. CASE args.policy = "throttle"
  <2>1. PICK c \in {count, 0} :
           LET k == Lesser(n, ThrottleMax - c)
           IN  /\ rows' = rows \o single(SubSeq(found, 1, k))
               /\ alerts' = alerts + k
               /\ count' = c + k
               /\ throttled' = throttled \cup {found[i] : i \in k + 1 .. n}
    BY <1>5, <1>15
  <2> DEFINE k == Lesser(n, ThrottleMax - c)
             sub == SubSeq(found, 1, k)
             rest == {found[i] : i \in k + 1 .. n}
  <2>2. window' = window
    BY <1>5, <1>15
  <2>3. k \in 0..n /\ c + k \in 0..ThrottleMax
    BY <1>6, <1>8, DryRunAssumption DEF Lesser
  <2>4. /\ rows' = rows \o single(sub) /\ alerts' = alerts + k /\ count' = c + k
        /\ throttled' = throttled \cup rest
    BY <2>1
  <2> HIDE DEF k
  <2>5. /\ sub \in Seq(F) /\ Len(sub) = k /\ IsInjective(sub)
        /\ ToSet(found) = ToSet(sub) \cup rest /\ ToSet(sub) \cap rest = {}
    BY <1>1, <2>3, PrefixFacts DEF n
  <2>6. rest \subseteq F
    <3>1. \A i \in k + 1 .. n : i \in DOMAIN found /\ found[i] \in F
      BY <1>1, <2>3 DEF n
    <3> QED BY <3>1
  <2> HIDE DEF sub, rest
  <2>7. /\ single(sub) \in Seq(Seq(F)) /\ Len(single(sub)) = k
        /\ AllOf(single(sub)) = ToSet(sub) /\ OnceEach(single(sub))
    BY <2>5, RowsOfOne
  <2> HIDE DEF single
  <2>8. AllOf(rows) \cap AllOf(single(sub)) = {}
    BY <1>9, <1>12, <2>5, <2>7
  <2>9. /\ rows' \in Seq(Seq(F)) /\ Len(rows') = Len(rows) + k
        /\ AllOf(rows') = AllOf(rows) \cup ToSet(sub) /\ OnceEach(rows')
    <3> DEFINE new == single(sub)
               T == Seq(F)
    <3>1. /\ rows \in Seq(T) /\ new \in Seq(T) /\ rows' = rows \o new
          /\ OnceEach(rows) /\ OnceEach(new) /\ AllOf(rows) \cap AllOf(new) = {}
      BY <1>7, <2>4, <2>7, <2>8
    <3>2. Len(new) = k /\ AllOf(new) = ToSet(sub)
      BY <2>7
    <3> HIDE DEF new, T
    <3>3. rows' \in Seq(T) /\ Len(rows') = Len(rows) + Len(new) /\ OnceEach(rows')
      BY ONLY <3>1, AddRows
    <3>4. AllOf(rows') = AllOf(rows) \cup AllOf(new)
      BY ONLY <3>1, AddRows
    <3> QED BY ONLY <3>2, <3>3, <3>4 DEF T
  <2>10. Len(rows) \in Nat /\ Len(delivered) \in Nat
    BY <1>7
  <2>11. alerts' \in Nat /\ alerts' = Len(rows') + Len(delivered) /\ count' \in 0..ThrottleMax
    BY <1>8, <2>3, <2>4, <2>9, <2>10
  <2> QED BY <1>7, <1>9, <1>10, <1>12, <2>2, <2>4, <2>5, <2>6, <2>9, <2>11
<1>16. CASE args.policy = "aggregation"
  <2>1. window' = HandleAggregation(found) /\ UNCHANGED <<rows, alerts, throttled, count>>
    BY <1>5, <1>16
  <2>2. window' \in Seq(F) /\ ToSet(window') = ToSet(window) \cup ToSet(found) /\ IsInjective(window')
    BY <1>1, <1>7, <2>1, AggregationFacts
  <2> QED BY <1>7, <1>8, <1>9, <1>10, <1>12, <2>1, <2>2
<1> QED BY <1>5, <1>14, <1>15, <1>16

\* One more row, of matches that no other row has.
LEMMA AddRow ==
    ASSUME NEW F, NEW rs, NEW s, NEW all,
           rs \in Seq(Seq(F)), s \in Seq(F), all = Append(rs, s),
           OnceEach(rs), IsInjective(s), AllOf(rs) \cap ToSet(s) = {}
    PROVE  /\ all \in Seq(Seq(F)) /\ Len(all) = Len(rs) + 1
           /\ OnceEach(all)
           /\ \A x : x \in AllOf(all) <=> x \in AllOf(rs) \/ x \in ToSet(s)
<1> DEFINE T == Seq(F)
           ts == <<s>>
<1>1. ts \in Seq(T) /\ Len(ts) = 1 /\ AllOf(ts) = ToSet(s) /\ OnceEach(ts)
  BY SingleRow
<1>2. all = rs \o ts
  OBVIOUS
<1>3. rs \in Seq(T)
  OBVIOUS
<1> HIDE DEF T, ts
<1>4. AllOf(rs) \cap AllOf(ts) = {}
  BY <1>1
<1>5. /\ all \in Seq(T) /\ Len(all) = Len(rs) + Len(ts) /\ OnceEach(all)
      /\ \A x : x \in AllOf(all) <=> x \in AllOf(rs) \/ x \in AllOf(ts)
  <2>1. OnceEach(rs) /\ OnceEach(ts)
    BY <1>1
  <2> QED BY ONLY <1>1, <1>2, <1>3, <1>4, <2>1, AddRows
<1> QED BY <1>1, <1>5 DEF T

\* The flush at the end of the loop moves the window into a row of its own.
LEMMA FinishReport ==
    ASSUME RunInv, ReportInv, FinishLoop
    PROVE  ReportInv'
<1> DEFINE F == Found
<1>1. /\ phase' = "draining" /\ current > args.range[2] /\ phase = "next"
      /\ UNCHANGED <<args, chain, current, matches, throttled, count, delivered>>
      /\ window' = <<>>
      /\ rows' = IF window = <<>> THEN rows ELSE Append(rows, window)
      /\ alerts' = IF window = <<>> THEN alerts ELSE alerts + 1
  BY DEF FinishLoop, Flush
<1>2. F' = F
  BY <1>1 DEF Found
<1> HIDE DEF F
<1>3. /\ matches \in Seq(F) /\ window \in Seq(F) /\ throttled \subseteq F
      /\ rows \in Seq(Seq(F)) /\ delivered \in Seq(Seq(F))
      /\ ToSet(matches) = throttled \cup ToSet(window) \cup AllOf(rows) \cup AllOf(delivered)
      /\ throttled \cap (ToSet(window) \cup AllOf(rows) \cup AllOf(delivered)) = {}
      /\ ToSet(window) \cap (AllOf(rows) \cup AllOf(delivered)) = {}
      /\ AllOf(rows) \cap AllOf(delivered) = {}
      /\ IsInjective(matches) /\ IsInjective(window) /\ OnceEach(rows) /\ OnceEach(delivered)
      /\ \A m \in ToSet(matches) : m.block < current
  BY DEF ReportInv, PlacesInv, F
<1>4. /\ count \in 0..ThrottleMax /\ alerts \in Nat /\ alerts = Len(rows) + Len(delivered)
      /\ current <= args.range[2] + 1
  BY <1>1 DEF ReportInv, LoopInv
<1>5. Len(rows) \in Nat /\ Len(delivered) \in Nat
  BY <1>3
<1>6. <<>> \in Seq(F) /\ ToSet(<<>>) = {} /\ IsInjective(<<>>)
  <2>1. <<>> \in Seq(F) /\ DOMAIN <<>> = {}
    OBVIOUS
  <2> QED BY <2>1 DEF ToSet, IsInjective
<1>7. /\ rows' \in Seq(Seq(F)) /\ OnceEach(rows')
      /\ \A x : x \in AllOf(rows') <=> x \in AllOf(rows) \/ x \in ToSet(window)
  <2>1. CASE window = <<>>
    <3>1. rows' = rows /\ ToSet(window) = {}
      BY <1>1, <1>6, <2>1
    <3> QED BY <1>3, <3>1
  <2>2. CASE window # <<>>
    <3>1. rows' = Append(rows, window) /\ AllOf(rows) \cap ToSet(window) = {}
      BY <1>1, <1>3, <2>2
    <3> QED BY <1>3, <3>1, AddRow
  <2> QED BY <2>1, <2>2
<1>8. alerts' \in Nat /\ alerts' = Len(rows') + Len(delivered)
  <2>1. CASE window = <<>>
    BY <1>1, <1>4, <2>1
  <2>2. CASE window # <<>>
    <3>1. rows' = Append(rows, window) /\ AllOf(rows) \cap ToSet(window) = {}
      BY <1>1, <1>3, <2>2
    <3>2. Len(rows') = Len(rows) + 1
      BY <1>3, <3>1, AddRow
    <3> QED BY <1>1, <1>4, <1>5, <2>2, <3>2
  <2> QED BY <2>1, <2>2
<1>9. PlacesInv'
  <2>1. AllOf(rows') = AllOf(rows) \cup ToSet(window)
    BY <1>7
  <2>2. ToSet(window') = {} /\ IsInjective(window') /\ window' \in Seq(F)
    BY <1>1, <1>6
  <2>3. /\ ToSet(matches) = throttled \cup ToSet(window') \cup AllOf(rows') \cup AllOf(delivered)
        /\ throttled \cap (ToSet(window') \cup AllOf(rows') \cup AllOf(delivered)) = {}
        /\ ToSet(window') \cap (AllOf(rows') \cup AllOf(delivered)) = {}
        /\ AllOf(rows') \cap AllOf(delivered) = {}
    BY <1>3, <2>1, <2>2
  <2> QED BY <1>1, <1>2, <1>3, <1>7, <2>2, <2>3 DEF PlacesInv, F
<1>10. LoopInv'
  BY <1>1, <1>4, <1>8 DEF LoopInv
<1> QED BY <1>9, <1>10 DEF ReportInv

\* A delivery moves a row from the outbox to the delivered ones.
LEMMA DeliverReport ==
    ASSUME ReportInv, NEW k \in DOMAIN rows, Deliver(k)
    PROVE  ReportInv'
<1> DEFINE F == Found
           row == rows[k]
<1>1. /\ phase = "draining"
      /\ UNCHANGED <<phase, args, chain, current, matches, throttled, count, window, alerts>>
      /\ rows' = RemoveAt(rows, k)
      /\ delivered' = Append(delivered, row)
  BY DEF Deliver
<1>2. F' = F
  BY <1>1 DEF Found
<1> HIDE DEF F
<1>3. /\ matches \in Seq(F) /\ window \in Seq(F) /\ throttled \subseteq F
      /\ rows \in Seq(Seq(F)) /\ delivered \in Seq(Seq(F))
      /\ ToSet(matches) = throttled \cup ToSet(window) \cup AllOf(rows) \cup AllOf(delivered)
      /\ throttled \cap (ToSet(window) \cup AllOf(rows) \cup AllOf(delivered)) = {}
      /\ ToSet(window) \cap (AllOf(rows) \cup AllOf(delivered)) = {}
      /\ AllOf(rows) \cap AllOf(delivered) = {}
      /\ IsInjective(matches) /\ IsInjective(window) /\ OnceEach(rows) /\ OnceEach(delivered)
      /\ \A m \in ToSet(matches) : m.block < current
  BY DEF ReportInv, PlacesInv, F
<1>4. /\ count \in 0..ThrottleMax /\ alerts \in Nat /\ alerts = Len(rows) + Len(delivered)
      /\ current <= args.range[2] + 1 /\ current > args.range[2] /\ window = <<>>
  BY <1>1 DEF ReportInv, LoopInv
<1>5. Len(rows) \in Nat /\ Len(delivered) \in Nat
  BY <1>3
<1>6. /\ rows' \in Seq(Seq(F)) /\ Len(rows') = Len(rows) - 1 /\ OnceEach(rows')
      /\ AllOf(rows') = AllOf(rows) \ ToSet(row)
  BY <1>1, <1>3, RemoveRow
<1>7. row \in Seq(F) /\ ToSet(row) \subseteq AllOf(rows) /\ IsInjective(row)
  <2>1. row \in Seq(F)
    BY <1>3
  <2>2. ToSet(row) \subseteq AllOf(rows)
    BY Zenon DEF AllOf
  <2>3. IsInjective(row)
    BY <1>3, Zenon DEF OnceEach, IsInjective
  <2> QED BY <2>1, <2>2, <2>3
<1> HIDE DEF row
<1>8. AllOf(delivered) \cap ToSet(row) = {}
  BY <1>3, <1>7
<1>9. /\ delivered' \in Seq(Seq(F)) /\ Len(delivered') = Len(delivered) + 1
      /\ OnceEach(delivered')
      /\ \A x : x \in AllOf(delivered') <=> x \in AllOf(delivered) \/ x \in ToSet(row)
  BY <1>1, <1>3, <1>7, <1>8, AddRow
<1>10. PlacesInv'
  <2>1. AllOf(delivered') = AllOf(delivered) \cup ToSet(row)
    BY <1>9
  <2>2. /\ ToSet(matches) = throttled \cup ToSet(window) \cup AllOf(rows') \cup AllOf(delivered')
        /\ throttled \cap (ToSet(window) \cup AllOf(rows') \cup AllOf(delivered')) = {}
        /\ ToSet(window) \cap (AllOf(rows') \cup AllOf(delivered')) = {}
        /\ AllOf(rows') \cap AllOf(delivered') = {}
    BY <1>3, <1>6, <1>7, <2>1
  <2> QED BY <1>1, <1>2, <1>3, <1>6, <1>9, <2>2 DEF PlacesInv, F
<1>11. LoopInv'
  <2>1. alerts' \in Nat /\ alerts' = Len(rows') + Len(delivered')
    BY <1>1, <1>4, <1>5, <1>6, <1>9
  <2> QED BY <1>1, <1>4, <2>1 DEF LoopInv
<1> QED BY <1>10, <1>11 DEF ReportInv

\* A step that moves no match and leaves the counts alone needs to keep the
\* facts about the phases only.
LEMMA PhaseStep ==
    ASSUME ReportInv,
           UNCHANGED <<args, chain, current, matches, window, throttled, count, rows, alerts,
                       delivered>>,
           phase' \notin {"start", "failed"} => current <= args.range[2] + 1,
           phase' \in {"draining", "done"} => phase = "draining",
           phase' = "done" => rows = <<>>
    PROVE  ReportInv'
<1>1. PlacesInv'
  BY PlacesKept DEF ReportInv
<1>2. LoopInv'
  BY DEF ReportInv, LoopInv
<1> QED BY <1>1, <1>2 DEF ReportInv

LEMMA NextReportInv == ASSUME RunInv, ReportInv, [Next]_vars PROVE ReportInv'
<1>1. args.range[2] \in Nat /\ current \in Nat
  BY DryRunAssumption DEF RunInv, TypeOfArgs
<1>2. phase \notin {"start", "failed"} => current <= args.range[2] + 1
  BY DEF ReportInv, LoopInv
<1>3. CASE Abort
  <2>1. /\ phase' = "failed"
        /\ UNCHANGED <<args, chain, current, matches, window, throttled, count, rows, alerts,
                       delivered>>
    BY <1>3 DEF Abort
  <2> QED BY <2>1, PhaseStep
<1>4. CASE StartBatch
  <2>1. /\ phase' = "fetching"
        /\ UNCHANGED <<args, chain, current, matches, window, throttled, count, rows, alerts,
                       delivered>>
    BY <1>4 DEF StartBatch
  <2>2. current <= args.range[2] + 1
    BY <1>1, <1>4 DEF StartBatch, RunInv
  <2> QED BY <2>1, <2>2, PhaseStep
<1>5. CASE Fetching \/ UNCHANGED vars
  <2>1. /\ phase' = phase
        /\ UNCHANGED <<args, chain, current, matches, window, throttled, count, rows, alerts,
                       delivered>>
    BY <1>5 DEF Fetching, runVars, vars
  <2>2. PlacesInv'
    BY <2>1, PlacesKept DEF ReportInv
  <2>3. LoopInv'
    BY <2>1 DEF ReportInv, LoopInv
  <2> QED BY <2>2, <2>3 DEF ReportInv
<1>6. CASE FetchDone
  <2>1. /\ phase' = "evaluating" /\ phase = "fetching"
        /\ UNCHANGED <<args, chain, current, matches, window, throttled, count, rows, alerts,
                       delivered>>
    BY <1>6 DEF FetchDone
  <2> QED BY <1>2, <2>1, PhaseStep
<1>7. CASE Evaluate
  BY <1>7, EvaluateReport
<1>8. CASE FinishLoop
  BY <1>8, FinishReport
<1>9. CASE \E k \in DOMAIN rows : Deliver(k)
  BY <1>9, DeliverReport
<1>10. CASE Report
  <2>1. /\ phase' = "done" /\ phase = "draining" /\ rows = <<>>
        /\ UNCHANGED <<args, chain, current, matches, window, throttled, count, rows, alerts,
                       delivered>>
    BY <1>10 DEF Report
  <2> QED BY <1>2, <2>1, PhaseStep
<1> QED BY <1>3, <1>4, <1>5, <1>6, <1>7, <1>8, <1>9, <1>10
        DEF Next, InvalidRange, FetchFails, EvaluateFails, FinishFails

\* What a report says follows from where the matches are.
LEMMA ReportInvConsistent == ASSUME RunInv, ReportInv PROVE ReportConsistent
<1> SUFFICES ASSUME phase = "done" PROVE ReportConsistent
  BY DEF ReportConsistent
<1> DEFINE F == Found
           sentMatches == FlattenSeq(delivered)
<1>1. /\ args.range[1] \in Nat /\ args.range[2] \in Nat /\ current \in Nat
      /\ Len(processed) = current - args.range[1]
  BY DryRunAssumption DEF RunInv, TypeOfArgs
<1>2. /\ current <= args.range[2] + 1 /\ current > args.range[2] /\ window = <<>> /\ rows = <<>>
      /\ alerts = Len(rows) + Len(delivered)
  BY DEF ReportInv, LoopInv
<1>3. Len(processed) = args.range[2] - args.range[1] + 1
  <2> DEFINE lo == args.range[1]
             hi == args.range[2]
  <2>1. /\ lo \in Nat /\ hi \in Nat /\ current \in Nat /\ Len(processed) = current - lo
        /\ current <= hi + 1 /\ current > hi
    BY <1>1, <1>2
  <2> HIDE DEF lo, hi
  <2>2. Len(processed) = hi - lo + 1
    BY ONLY <2>1
  <2> QED BY <2>2 DEF lo, hi
<1>4. /\ matches \in Seq(F) /\ delivered \in Seq(Seq(F))
      /\ ToSet(matches) = throttled \cup ToSet(window) \cup AllOf(rows) \cup AllOf(delivered)
      /\ throttled \cap AllOf(delivered) = {}
      /\ IsInjective(matches) /\ OnceEach(delivered)
  BY DEF ReportInv, PlacesInv
<1> HIDE DEF F
<1>5. alerts = Len(delivered)
  <2>1. Len(delivered) \in Nat /\ Len(rows) = 0
    BY <1>2, <1>4
  <2> QED BY <1>2, <2>1
<1>6. ToSet(matches) = throttled \cup AllOf(delivered)
  <2>1. DOMAIN <<>> = {}
    OBVIOUS
  <2>2. ToSet(window) = {} /\ AllOf(rows) = {}
    BY <1>2, <2>1 DEF ToSet, AllOf
  <2> QED BY <1>4, <2>2
<1>7. sentMatches \in Seq(F) /\ ToSet(sentMatches) = AllOf(delivered) /\ IsInjective(sentMatches)
  BY <1>4, FlattenFacts
<1> HIDE DEF sentMatches
<1>8. ASSUME NEW k \in DOMAIN matches
      PROVE  /\ Count(matches, matches[k]) = 1
             /\ Count(sentMatches, matches[k]) = IF matches[k] \in throttled THEN 0 ELSE 1
  <2> DEFINE m == matches[k]
  <2>1. m \in ToSet(matches)
    BY DEF ToSet
  <2> HIDE DEF m
  <2>2. Count(matches, m) = 1
    BY <1>4, <2>1, CountOnce DEF Count
  <2>3. Count(sentMatches, m) = IF m \in ToSet(sentMatches) THEN 1 ELSE 0
    BY <1>7, CountOnce DEF Count
  <2>4. m \in ToSet(sentMatches) <=> m \notin throttled
    BY <1>4, <1>6, <1>7, <2>1
  <2>5. Count(sentMatches, m) = IF m \in throttled THEN 0 ELSE 1
    BY <2>3, <2>4
  <2> QED BY <2>2, <2>5 DEF m
<1> QED BY <1>3, <1>5, <1>8 DEF ReportConsistent, sentMatches

\* The report of a dry run that ends is right for every range, batch size,
\* chunk size, concurrency and policy: every block was processed, and every
\* match is in exactly one delivered notification or was throttled
\* (run_dry_run_loop, AlertManager::flush, drain_queue,
\* print_summary_report).
THEOREM ReportIsConsistent == Spec => []ReportConsistent
<1>1. Init => RunInv /\ ReportInv
  BY InitRunInv, InitReportInv
<1>2. RunInv /\ ReportInv /\ [Next]_vars => RunInv' /\ ReportInv'
  BY NextRunInv, NextReportInv
<1>3. RunInv /\ ReportInv => ReportConsistent
  BY ReportInvConsistent
<1> QED BY <1>1, <1>2, <1>3, PTL DEF Spec
============================================================================
