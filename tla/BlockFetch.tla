----------------------------- MODULE BlockFetch -----------------------------
(***************************************************************************)
(* fetch_blocks_concurrent: the logs of a range, in chunks, and its blocks *)
(* are requested side by side, and put together by block number.           *)
(*                                                                         *)
(* Requests are answered by nodes of different heights.  A node that does  *)
(* not have a block yet answers a block request with BlockNotFound, and a  *)
(* log request, without an error, with the logs it has.                    *)
(***************************************************************************)
EXTENDS Integers, FiniteSets

CONSTANT Heights   \* the heights of the nodes that may answer

ASSUME HeightAssumption == Heights \subseteq Nat

VARIABLES
    wanted,     \* <<from, to>> of the range being fetched
    slots,      \* FetchConfig.concurrency
    todo,       \* chunks whose logs are not yet requested
    asked,      \* chunks whose request is under way
    logs,       \* block |-> how often its logs came back
    short,      \* blocks whose logs were asked of a node without the block
    sent,       \* the last block requested
    arrived,    \* the blocks received
    failed      \* which of the two sides gave up: "logs", "blocks"

fetchVars == <<wanted, slots, todo, asked, logs, short, sent, arrived, failed>>

Lesser(a, b) == IF a <= b THEN a ELSE b

\* Mutant: the end of a chunk is the start of the next.
ChunkEndInclusive(start, to, size) == Lesser(start + size, to)

ChunkEnd(start, to, size) == Lesser(start + size - 1, to)

\* from, from + size, ... as long as they are in the range.
Starts(from, to, size) == {from + i * size : i \in 0 .. to - from} \cap (from..to)

\* fetch_logs_chunked: the sub-ranges it asks for.
Chunks(from, to, size) ==
    IF size = 0 \/ to - from < size THEN {<<from, to>>}
    ELSE {<<start, ChunkEnd(start, to, size)>> : start \in Starts(from, to, size)}

BlocksOf(chunk) == chunk[1]..chunk[2]

----------------------------------------------------------------------------
\* While the range is fetched, the logs of a block have not come back as long
\* as its chunk is to be asked for or under way, and came back once after that
\* unless the request failed or went to a node without the block.
FetchInv(from, to, size) ==
    LET covered(b) == \E c \in todo \cup asked : b \in BlocksOf(c)
    IN  /\ wanted = <<from, to>>
        /\ todo \cap asked = {}
        /\ todo \cup asked \subseteq Chunks(from, to, size)
        /\ logs \in [from..to -> {0, 1}]
        /\ \A b \in from..to :
              /\ covered(b) => logs[b] = 0
              /\ ~covered(b) => logs[b] = 1 \/ b \in short \/ "logs" \in failed

NotFetching ==
    /\ wanted = <<1, 0>> /\ todo = {} /\ asked = {} /\ sent = 0
    /\ arrived = {} /\ failed = {} /\ short = {}

StartFetch(from, to, size) ==
    /\ wanted' = <<from, to>>
    /\ todo' = Chunks(from, to, size)
    /\ asked' = {}
    /\ logs' = [b \in from..to |-> 0]
    /\ sent' = from - 1
    /\ arrived' = {}
    /\ failed' = {}
    /\ UNCHANGED <<slots, short>>

\* Mutant: one request fewer than configured is let through.
RoomBelow(n) == n + 1 < slots

\* buffer_unordered and buffered.
Room(n) == n < slots

\* The next chunk, in order of the stream; a range in one piece needs no slot.
AskLogs ==
    /\ "logs" \notin failed
    /\ Room(Cardinality(asked)) \/ todo = {wanted}
    /\ \E c \in todo :
          /\ \A d \in todo : c[1] <= d[1]
          /\ todo' = todo \ {c}
          /\ asked' = asked \cup {c}
    /\ UNCHANGED <<wanted, slots, logs, short, sent, arrived, failed>>

\* A node of height h answers for chunk c; answers come in any order.
LogsAnswered(c, h) ==
    /\ c \in asked
    /\ asked' = asked \ {c}
    /\ logs' = [b \in DOMAIN logs |-> IF b \in BlocksOf(c) /\ b <= h THEN logs[b] + 1 ELSE logs[b]]
    /\ short' = short \cup {b \in BlocksOf(c) : b > h}
    /\ UNCHANGED <<wanted, slots, todo, sent, arrived, failed>>

\* An error ends try_collect, which drops the other requests.
LogsFail ==
    /\ asked # {}
    /\ todo' = {} /\ asked' = {}
    /\ failed' = failed \cup {"logs"}
    /\ UNCHANGED <<wanted, slots, logs, short, sent, arrived>>

\* The first block not received: buffered yields in order.
NextToYield == CHOOSE b \in wanted[1]..wanted[2] + 1 :
             b \notin arrived /\ wanted[1]..b - 1 \subseteq arrived

AskBlock ==
    /\ "blocks" \notin failed
    /\ sent < wanted[2]
    /\ Room(sent + 1 - NextToYield)
    /\ sent' = sent + 1
    /\ UNCHANGED <<wanted, slots, todo, asked, logs, short, arrived, failed>>

\* fetch_block_only, answered by a node of height h.
BlockAnswered(b, h) ==
    /\ "blocks" \notin failed
    /\ b \in wanted[1]..sent /\ b \notin arrived
    /\ IF b <= h THEN arrived' = arrived \cup {b} /\ UNCHANGED failed
                 ELSE failed' = failed \cup {"blocks"} /\ UNCHANGED arrived
    /\ UNCHANGED <<wanted, slots, todo, asked, logs, short, sent>>

\* Both sides of the join are done.
Joined ==
    /\ todo = {} /\ asked = {}
    /\ "blocks" \in failed \/ arrived = wanted[1]..wanted[2]

\* from_raw_data: a block with the logs that came back for it.
FromRawData(b) == [number |-> b, copies |-> logs[b]]

\* The blocks in order, each with the logs that carry its number.
BlockData == [k \in 1 .. wanted[2] - wanted[1] + 1 |-> FromRawData(wanted[1] + k - 1)]

============================================================================
