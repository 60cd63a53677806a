--------------------------- MODULE Pipeline_proofs ---------------------------
(***************************************************************************)
(* Invariance proofs for Pipeline, and for its composition with the outbox *)
(* table (Redelivery), for every chain, chunk size, channel capacity,      *)
(* start block and set of faults.                                          *)
(***************************************************************************)
EXTENDS Redelivery, TLAPS

-----------------------------------------------------------------------------
(* Facts about the sequences the channels are made of.                     *)

(* Appending adds one element at the end. *)
LEMMA AppendFacts ==
    ASSUME NEW S, NEW s \in Seq(S), NEW e \in S
    PROVE  /\ Append(s, e) \in Seq(S)
           /\ Append(s, e) # <<>>
           /\ Len(Append(s, e)) = Len(s) + 1
           /\ \A i \in 1..Len(s) : Append(s, e)[i] = s[i]
           /\ Append(s, e)[Len(s) + 1] = e
           /\ Elems(Append(s, e)) = Elems(s) \cup {e}
<1>1. /\ Append(s, e) \in Seq(S) /\ Len(Append(s, e)) = Len(s) + 1
      /\ \A i \in 1..Len(s) : Append(s, e)[i] = s[i]
      /\ Append(s, e)[Len(s) + 1] = e
  OBVIOUS
<1>2. Len(s) \in Nat
  OBVIOUS
<1>3. Append(s, e) # <<>>
  BY <1>1, <1>2
<1>4. Elems(Append(s, e)) = Elems(s) \cup {e}
  <2>1. 1..(Len(s) + 1) = 1..Len(s) \cup {Len(s) + 1}
    BY <1>2
  <2>2. QED BY <1>1, <1>2, <2>1 DEF Elems
<1>5. QED BY <1>1, <1>3, <1>4

(* Taking the head leaves the rest, shifted by one. *)
LEMMA TailFacts ==
    ASSUME NEW S, NEW s \in Seq(S), s # <<>>
    PROVE  /\ Head(s) \in S /\ Head(s) = s[1]
           /\ Tail(s) \in Seq(S)
           /\ Len(s) \in Nat \ {0}
           /\ Len(Tail(s)) = Len(s) - 1
           /\ \A i \in 1..(Len(s) - 1) : Tail(s)[i] = s[i + 1]
           /\ Elems(s) = {Head(s)} \cup Elems(Tail(s))
<1>1. /\ Head(s) \in S /\ Head(s) = s[1] /\ Tail(s) \in Seq(S)
      /\ Len(s) \in Nat \ {0} /\ Len(Tail(s)) = Len(s) - 1
      /\ \A i \in 1..(Len(s) - 1) : Tail(s)[i] = s[i + 1]
  OBVIOUS
<1>2. Elems(s) = {Head(s)} \cup Elems(Tail(s))
  <2>1. \A i \in 1..Len(s) : i = 1 \/ (i - 1 \in 1..(Len(s) - 1) /\ (i - 1) + 1 = i)
    BY <1>1
  <2>2. Elems(s) \subseteq {Head(s)} \cup Elems(Tail(s))
    BY <1>1, <2>1 DEF Elems
  <2>3. 1 \in 1..Len(s) /\ \A i \in 1..(Len(s) - 1) : i + 1 \in 1..Len(s)
    BY <1>1
  <2>4. {Head(s)} \cup Elems(Tail(s)) \subseteq Elems(s)
    BY <1>1, <2>3 DEF Elems
  <2>5. QED BY <2>2, <2>4
<1>3. QED BY <1>1, <1>2

(* The elements of a sequence over S are in S; an empty one has none.      *)
LEMMA ElemsFacts ==
    /\ Elems(<<>>) = {}
    /\ \A S : \A s \in Seq(S) : Elems(s) \subseteq S
BY DEF Elems

(* The run lo..hi as a sequence. *)
LEMMA RunFacts ==
    ASSUME NEW lo \in Nat, NEW hi \in Nat, lo <= hi
    PROVE  /\ Run(lo, hi) \in Seq(Nat)
           /\ Len(Run(lo, hi)) = hi - lo + 1
           /\ Run(lo, hi) # <<>>
           /\ \A i \in 1..Len(Run(lo, hi)) : Run(lo, hi)[i] = lo + i - 1
           /\ Elems(Run(lo, hi)) \subseteq lo..hi
<1>1. hi - lo + 1 \in Nat \ {0}
  OBVIOUS
<1>2. Run(lo, hi) \in Seq(Nat) /\ Len(Run(lo, hi)) = hi - lo + 1
  <2>1. \A i \in 1..(hi - lo + 1) : lo + i - 1 \in Nat
    OBVIOUS
  <2>2. QED BY <1>1, <2>1 DEF Run
<1>3. \A i \in 1..Len(Run(lo, hi)) : Run(lo, hi)[i] = lo + i - 1
  BY <1>1, <1>2 DEF Run
<1>4. Run(lo, hi) # <<>>
  BY <1>1, <1>2
<1>5. Elems(Run(lo, hi)) \subseteq lo..hi
  BY <1>1, <1>2, <1>3 DEF Elems
<1>6. QED BY <1>2, <1>3, <1>4, <1>5

-----------------------------------------------------------------------------
(* Consecutive runs under the channel operations.                          *)

(* A run grows at its end by its next block. *)
LEMMA ConsecAppend ==
    ASSUME NEW s \in Seq(Nat), NEW lo \in Int, NEW e \in Nat,
           Consec(s, lo), e = lo + Len(s)
    PROVE  Consec(Append(s, e), lo)
<1>1. Len(s) \in Nat
  OBVIOUS
<1>2. \A i \in 1..(Len(s) + 1) : i \in 1..Len(s) \/ i = Len(s) + 1
  BY <1>1
<1>3. QED
  BY <1>1, <1>2, AppendFacts DEF Consec

(* Without its first block, a run starts one later. *)
LEMMA ConsecTail ==
    ASSUME NEW s \in Seq(Nat), NEW lo \in Int, s # <<>>, Consec(s, lo)
    PROVE  Head(s) = lo /\ Consec(Tail(s), lo + 1)
<1>1. /\ Len(s) \in Nat \ {0} /\ Len(Tail(s)) = Len(s) - 1 /\ Head(s) = s[1]
      /\ \A i \in 1..(Len(s) - 1) : Tail(s)[i] = s[i + 1]
  BY TailFacts
<1>2. \A i \in 1..(Len(s) - 1) : i + 1 \in 1..Len(s)
  BY <1>1
<1>3. Head(s) = lo
  BY <1>1 DEF Consec
<1>4. \A i \in 1..(Len(s) - 1) : Tail(s)[i] = (lo + 1) + i - 1
  BY <1>1, <1>2 DEF Consec
<1>5. QED
  BY <1>1, <1>3, <1>4 DEF Consec

(* The empty sequence is a run from anywhere. *)
LEMMA ConsecEmpty ==
    ASSUME NEW lo PROVE Consec(<<>>, lo)
BY DEF Consec

-----------------------------------------------------------------------------
(* The inductive invariant.                                                *)

USE DEF NoBlock

(* The empty sequence.                                                     *)
LEMMA EmptyFacts == <<>> \in Seq(Nat) /\ Len(<<>>) = 0
OBVIOUS

(* A sequence of nonzero length is not empty.                              *)
LEMMA NonEmpty ==
    ASSUME NEW s, Len(s) # 0 PROVE s # <<>>
BY EmptyFacts

(* A sequence of length zero is empty.                                     *)
LEMMA EmptyByLength ==
    ASSUME NEW s \in Seq(Nat), Len(s) = 0 PROVE s = <<>>
OBVIOUS

(* The invariant holds before the first boot.                              *)
LEMMA InitIInv == Init => IInv
<1> SUFFICES ASSUME Init PROVE IInv
  OBVIOUS
<1> USE EmptyFacts, ElemsFacts, ConsecEmpty, PipelineAssumption DEF Init
<1>1. TypeOK
  BY DEF TypeOK, BlockChannelCap
<1>2. ProcessInv
  BY DEF ProcessInv
<1>3. IngestorInv
  BY DEF IngestorInv
<1>4. QueueInv
  BY DEF QueueInv, RawLo, BufLo, BatLo
<1>5. CoverInv
  BY DEF CoverInv, ProgressCovered
<1>6. ConfirmedOnly
  BY DEF ConfirmedOnly
<1>7. AccountInv
  BY DEF AccountInv, MatchesAccountedFor
<1>8. QED
  BY <1>1, <1>2, <1>3, <1>4, <1>5, <1>6, <1>7 DEF IInv

(* Each part of the invariant only reads some of the variables.            *)
LEMMA FramedIngestor ==
    IngestorInv /\ UNCHANGED <<ingestor, lastProcessed, head>> => IngestorInv'
BY DEF IngestorInv, ingestor, Resume, Consec, Elems

(* The queues are read from the channels and the high-water mark.          *)
LEMMA FramedQueue ==
    QueueInv /\ UNCHANGED <<nextBlock, raw, buffer, batch, lastHanded, ppc>> => QueueInv'
BY DEF QueueInv, RawLo, BufLo, BatLo, Consec

(* The cover is read from the row, the history and the run positions.      *)
LEMMA FramedCover ==
    CoverInv /\ UNCHANGED <<nextBlock, raw, buffer, batch, lastHanded, ppc,
                            lastProcessed, startBlock, handed, lost>> => CoverInv'
BY DEF CoverInv, ProgressCovered, Previous, RawLo, BufLo, BatLo

(* Confirmation is read from the head and the blocks in the pipeline.      *)
LEMMA FramedConfirmed ==
    ConfirmedOnly /\ UNCHANGED <<chunk, raw, buffer, batch, handed, head>> => ConfirmedOnly'
BY DEF ConfirmedOnly, Elems

(* The accounts are read from the row, the outbox and the match tasks.     *)
LEMMA FramedAccount ==
    AccountInv /\ UNCHANGED <<nextBlock, raw, buffer, batch, lastProcessed, startBlock,
                              outbox, correlated, matches, flow, lost>> => AccountInv'
BY DEF AccountInv, MatchesAccountedFor, InFlight, flow, RawLo, BufLo, BatLo, Elems

(* The process invariant is read from the task places and the row.         *)
LEMMA FramedProcess ==
    ProcessInv /\ UNCHANGED <<up, ipc, ppc, nextBlock, lastProcessed, correlated,
                              matches, flow>> => ProcessInv'
BY DEF ProcessInv, flow

(* What a step of the ingestor that sends nothing leaves alone.            *)
LEMMA IngestorFrame ==
    ASSUME IInv, UNCHANGED <<shared, processor, flow, nextBlock>>
    PROVE  QueueInv' /\ CoverInv' /\ AccountInv'
BY FramedQueue, FramedCover, FramedAccount
   DEF IInv, shared, durable, channels, history, processor, flow

(* Reading the row records the persisted block for this cycle.             *)
LEMMA ReadStateStep ==
    IInv /\ ReadState /\ UNCHANGED <<processor, flow>> => IInv'
<1> SUFFICES ASSUME IInv, ReadState, UNCHANGED <<processor, flow>> PROVE IInv'
  OBVIOUS
<1> USE DEF shared, durable, channels, history, processor, flow
<1>1. TypeOK'
  BY DEF IInv, TypeOK, ReadState
<1>2. ProcessInv'
  BY DEF IInv, ProcessInv, ReadState
<1>3. IngestorInv'
  BY DEF IInv, IngestorInv, ProcessInv, TypeOK, ReadState, Elems
<1>4. ConfirmedOnly'
  BY FramedConfirmed DEF IInv, ReadState
<1>5. QED
  BY <1>1, <1>2, <1>3, <1>4, IngestorFrame DEF IInv, ReadState

(* A cancelled ingestor returns from its select!.                          *)
LEMMA IngestorCancelledStep ==
    IInv /\ IngestorCancelled /\ UNCHANGED <<processor, flow>> => IInv'
<1> SUFFICES ASSUME IInv, IngestorCancelled, UNCHANGED <<processor, flow>> PROVE IInv'
  OBVIOUS
<1> USE DEF shared, durable, channels, history, processor, flow
<1>1. TypeOK'
  BY DEF IInv, TypeOK, IngestorCancelled
<1>2. ProcessInv'
  BY DEF IInv, ProcessInv, IngestorCancelled
<1>3. IngestorInv'
  BY DEF IInv, IngestorInv, IngestorCancelled, Elems
<1>4. ConfirmedOnly'
  BY FramedConfirmed DEF IInv, IngestorCancelled
<1>5. QED
  BY <1>1, <1>2, <1>3, <1>4, IngestorFrame DEF IInv, IngestorCancelled

(* The range a cycle drains starts at Resume: the high-water mark when     *)
(* blocks were already sent, the block after the row otherwise.            *)
LEMMA ReadHeadStep ==
    IInv /\ ReadHead /\ UNCHANGED <<processor, flow>> => IInv'
<1> SUFFICES ASSUME IInv, ReadHead, UNCHANGED <<processor, flow>> PROVE IInv'
  OBVIOUS
<1> USE PipelineAssumption DEF shared, durable, channels, history, processor, flow
<1>1. PICK h \in SatSub(head, MaxLag)..head :
         IF h < Confirmations
         THEN ipc' = "sleep" /\ UNCHANGED <<from, safe>>
         ELSE /\ from' = FromBlock(h)
              /\ safe' = SafeToBlock(h)
              /\ ipc' = LoopTop(from', safe')
  BY DEF ReadHead
<1>2. h \in Nat /\ h <= head
  BY DEF SatSub, IInv, TypeOK
<1>3. /\ ipc = "head" /\ chunk = <<>> /\ chunk' = <<>>
      /\ readLast \in Nat /\ lastProcessed \in Nat /\ readLast <= lastProcessed
      /\ nextBlock \in Nat /\ (nextBlock = 0 => readLast = lastProcessed)
      /\ up # "stopped"
  BY DEF ReadHead, IInv, TypeOK, ProcessInv, IngestorInv
<1>4. nextBlock # 0 => lastProcessed < nextBlock
  BY DEF IInv, TypeOK, CoverInv, BatLo, BufLo, RawLo
<1>5. FromBlock(h) = Resume
  BY <1>2, <1>3, <1>4 DEF FromBlock, StateNext, MaxOf, Resume
<1>6. /\ from' \in Nat /\ safe' \in Nat
      /\ ipc' \in {"sleep", "fetch", "done"}
      /\ ipc' = "fetch" => from' = Resume /\ from' <= safe' /\ safe' <= head - Confirmations
  <2>1. Resume \in Nat
    BY <1>3 DEF Resume
  <2>2. CASE h < Confirmations
    BY <1>1, <2>2 DEF IInv, TypeOK
  <2>3. CASE ~(h < Confirmations)
    <3>1. from' = Resume /\ safe' = h - Confirmations /\ ipc' = LoopTop(from', safe')
      BY <1>1, <1>5, <2>3 DEF SafeToBlock
    <3>2. safe' \in Nat /\ safe' <= head - Confirmations
      BY <1>2, <2>3, <3>1 DEF IInv, TypeOK
    <3>3. QED BY <2>1, <3>1, <3>2 DEF LoopTop
  <2>4. QED BY <2>2, <2>3
<1>7. TypeOK'
  BY <1>3, <1>6 DEF IInv, TypeOK, ReadHead
<1>8. ProcessInv'
  BY <1>3 DEF IInv, ProcessInv, ReadHead
<1>9. IngestorInv'
  BY <1>3, <1>6, ElemsFacts DEF IInv, IngestorInv, ReadHead, Resume
<1>10. ConfirmedOnly'
  BY FramedConfirmed DEF IInv, ReadHead
<1>11. QED
  BY <1>7, <1>8, <1>9, <1>10, IngestorFrame DEF IInv, ReadHead

(* A failed read or fetch returns to the polling delay.                    *)
LEMMA IngestErrorStep ==
    IInv /\ IngestError /\ UNCHANGED <<processor, flow>> => IInv'
<1> SUFFICES ASSUME IInv, IngestError, UNCHANGED <<processor, flow>> PROVE IInv'
  OBVIOUS
<1> USE DEF shared, durable, channels, history, processor, flow
<1>1. TypeOK'
  BY DEF IInv, TypeOK, IngestError
<1>2. ProcessInv'
  BY DEF IInv, ProcessInv, IngestError
<1>3. IngestorInv'
  BY DEF IInv, IngestorInv, IngestError, Elems
<1>4. ConfirmedOnly'
  BY FramedConfirmed DEF IInv, IngestError
<1>5. QED
  BY <1>1, <1>2, <1>3, <1>4, IngestorFrame DEF IInv, IngestError

(* A send into a dropped receiver gives up the rest of the chunk.          *)
LEMMA SendClosedStep ==
    IInv /\ SendClosed(ppc = "done") /\ UNCHANGED <<processor, flow>> => IInv'
<1> SUFFICES ASSUME IInv, SendClosed(ppc = "done"), UNCHANGED <<processor, flow>>
             PROVE IInv'
  OBVIOUS
<1> USE ElemsFacts DEF shared, durable, channels, history, processor, flow
<1>1. TypeOK'
  BY EmptyFacts DEF IInv, TypeOK, SendClosed
<1>2. ProcessInv'
  BY DEF IInv, ProcessInv, SendClosed
<1>3. IngestorInv'
  BY DEF IInv, IngestorInv, SendClosed
<1>4. ConfirmedOnly'
  BY DEF IInv, ConfirmedOnly, SendClosed, Elems
<1>5. QED
  BY <1>1, <1>2, <1>3, <1>4, IngestorFrame DEF IInv, SendClosed

(* The chunk fetched from f below the safe head s is a nonempty run from f. *)
LEMMA ChunkFacts ==
    ASSUME NEW f \in Nat, NEW s \in Nat, f <= s
    PROVE  /\ Run(f, MinOf(f + ChunkSize, s)) \in Seq(Nat)
           /\ Run(f, MinOf(f + ChunkSize, s)) # <<>>
           /\ Consec(Run(f, MinOf(f + ChunkSize, s)), f)
           /\ Elems(Run(f, MinOf(f + ChunkSize, s))) \subseteq 0..s
<1> DEFINE hi == MinOf(f + ChunkSize, s)
<1>1. hi \in Nat /\ f <= hi /\ hi <= s
  BY PipelineAssumption DEF MinOf
<1> HIDE DEF hi
<1>2. /\ Run(f, hi) \in Seq(Nat) /\ Run(f, hi) # <<>>
      /\ \A i \in 1..Len(Run(f, hi)) : Run(f, hi)[i] = f + i - 1
      /\ Elems(Run(f, hi)) \subseteq f..hi
  BY <1>1, RunFacts
<1>3. f..hi \subseteq 0..s
  BY <1>1
<1>4. QED BY <1>2, <1>3 DEF Consec, hi

(* A fetched chunk starts at the block the process must send next.         *)
LEMMA FetchChunkStep ==
    IInv /\ FetchChunk /\ UNCHANGED <<processor, flow>> => IInv'
<1> SUFFICES ASSUME IInv, FetchChunk, UNCHANGED <<processor, flow>> PROVE IInv'
  OBVIOUS
<1> USE PipelineAssumption DEF shared, durable, channels, history, processor, flow
<1>1. /\ ipc = "fetch" /\ chunk = <<>> /\ from = Resume /\ from <= safe
      /\ from \in Nat /\ safe \in Nat /\ safe <= head - Confirmations
      /\ up # "stopped"
  BY DEF FetchChunk, IInv, TypeOK, IngestorInv, ProcessInv
<1>2. \/ ipc' = "done" /\ chunk' = <<>>
      \/ ipc' = "send" /\ chunk' = Run(from, MinOf(from + ChunkSize, safe))
  BY <1>1 DEF FetchChunk
<1>4. ASSUME ipc' = "send"
      PROVE  /\ chunk' \in Seq(Nat) /\ chunk' # <<>>
             /\ Consec(chunk', Resume)
             /\ Elems(chunk') \subseteq 0..safe
  <2>1. chunk' = Run(from, MinOf(from + ChunkSize, safe))
    BY <1>2, <1>4
  <2>2. from \in Nat /\ safe \in Nat /\ from <= safe /\ from = Resume
    BY <1>1
  <2> HIDE PipelineAssumption DEF shared, durable, channels, history, processor, flow
  <2>3. /\ chunk' \in Seq(Nat) /\ chunk' # <<>>
        /\ Consec(chunk', from) /\ Elems(chunk') \subseteq 0..safe
    BY <2>1, <2>2, ChunkFacts
  <2>4. QED BY <2>2, <2>3
<1>5. Elems(chunk') \subseteq 0..safe
  BY <1>2, <1>4, ElemsFacts
<1>6. TypeOK'
  BY <1>1, <1>2, <1>4, EmptyFacts DEF IInv, TypeOK, FetchChunk
<1>7. ProcessInv'
  BY <1>1 DEF IInv, ProcessInv, FetchChunk
<1>8. IngestorInv'
  BY <1>1, <1>2, <1>4, <1>5 DEF IInv, IngestorInv, FetchChunk, Resume, Consec
<1>9. ConfirmedOnly'
  <2>1. Elems(chunk') \subseteq 0..(head - Confirmations)
    BY <1>1, <1>5 DEF IInv, TypeOK
  <2>2. QED BY <2>1 DEF IInv, ConfirmedOnly, FetchChunk, Elems
<1>10. QED
  BY <1>6, <1>7, <1>8, <1>9, IngestorFrame DEF IInv, FetchChunk

(* The send extends the run of consecutive blocks at its upper end.        *)
LEMMA SendBlockStep ==
    IInv /\ SendBlock(ppc = "done") /\ UNCHANGED <<processor, flow>> => IInv'
<1> SUFFICES ASSUME IInv, SendBlock(ppc = "done"), UNCHANGED <<processor, flow>> PROVE IInv'
  OBVIOUS
<1> USE DEF shared, durable, channels, history, processor, flow
<1>1. /\ ipc = "send" /\ chunk \in Seq(Nat) /\ chunk # <<>>
      /\ Consec(chunk, Resume) /\ Elems(chunk) \subseteq 0..safe
      /\ up # "stopped" /\ lastProcessed \in Nat /\ nextBlock \in Nat
      /\ Resume \in Nat /\ safe \in Nat /\ safe <= head - Confirmations
  BY DEF SendBlock, IInv, TypeOK, ProcessInv, IngestorInv, Resume
<1>2. /\ Head(chunk) = Resume /\ Consec(Tail(chunk), Resume + 1)
      /\ Tail(chunk) \in Seq(Nat) /\ Len(chunk) \in Nat \ {0}
      /\ Len(Tail(chunk)) = Len(chunk) - 1
      /\ Elems(chunk) = {Resume} \cup Elems(Tail(chunk))
  BY <1>1, ConsecTail, TailFacts
<1>3. /\ raw' = Append(raw, Resume) /\ nextBlock' = Resume + 1
      /\ Resume' = Resume + 1
  BY <1>1, <1>2 DEF SendBlock, Resume
<1>4. /\ raw \in Seq(Nat) /\ raw' \in Seq(Nat) /\ Len(raw) \in Nat
      /\ Len(raw') = Len(raw) + 1
      /\ Elems(raw') = Elems(raw) \cup {Resume}
  <2>1. raw \in Seq(Nat)
    BY DEF IInv, TypeOK
  <2>2. /\ Append(raw, Resume) \in Seq(Nat)
        /\ Len(Append(raw, Resume)) = Len(raw) + 1
        /\ Elems(Append(raw, Resume)) = Elems(raw) \cup {Resume}
    BY <1>1, <2>1, AppendFacts
  <2>3. Len(raw) \in Nat
    BY <2>1
  <2>4. QED BY <1>3, <2>1, <2>2, <2>3
<1>5. \/ /\ Len(chunk) > 1 /\ ipc' = "done" /\ chunk' = <<>> /\ from' = from
      \/ /\ Len(chunk) > 1 /\ ipc' = "send" /\ chunk' = Tail(chunk) /\ from' = from
      \/ /\ from' = Resume + 1 /\ chunk' = <<>> /\ ipc' = LoopTop(from', safe)
  BY <1>2 DEF SendBlock
<1>6. /\ ipc' \in {"sleep", "fetch", "send", "done"}
      /\ ipc' = "fetch" => from' = Resume' /\ from' <= safe
      /\ ipc' = "send" => Consec(chunk', Resume')
      /\ chunk' \in Seq(Nat) /\ (ipc' = "send" <=> chunk' # <<>>)
      /\ from' \in Nat
      /\ Elems(chunk') \subseteq 0..safe
  <2>1. CASE Len(chunk) > 1 /\ ipc' = "done" /\ chunk' = <<>> /\ from' = from
    BY <2>1, EmptyFacts, ElemsFacts DEF IInv, TypeOK
  <2>2. CASE Len(chunk) > 1 /\ ipc' = "send" /\ chunk' = Tail(chunk) /\ from' = from
    <3>1. Tail(chunk) # <<>>
      <4>1. Len(Tail(chunk)) # 0
        BY <1>2, <2>2
      <4>2. QED BY <4>1, NonEmpty
    <3>2. from' \in Nat
      BY <2>2 DEF IInv, TypeOK
    <3>3. QED BY <1>1, <1>2, <1>3, <2>2, <3>1, <3>2
  <2>3. CASE from' = Resume + 1 /\ chunk' = <<>> /\ ipc' = LoopTop(from', safe)
    BY <1>1, <1>3, <2>3, EmptyFacts, ElemsFacts DEF LoopTop
  <2>4. QED BY <1>5, <2>1, <2>2, <2>3
<1>7. TypeOK'
  <2>1. Len(raw') <= BlockChannelCap
    BY <1>4, PipelineAssumption DEF SendBlock, BlockChannelCap
  <2>2. nextBlock' \in Nat
    BY <1>1, <1>3
  <2>3. QED BY <1>4, <1>6, <2>1, <2>2 DEF IInv, TypeOK, SendBlock
<1>8. ProcessInv'
  BY <1>1 DEF IInv, ProcessInv, SendBlock
<1>9. IngestorInv'
  BY <1>1, <1>6 DEF IngestorInv, SendBlock
<1>10. ASSUME nextBlock = 0 PROVE QueueInv' /\ CoverInv' /\ AccountInv'
  <2>1. /\ raw = <<>> /\ buffer = <<>> /\ batch = <<>> /\ lastHanded = NoBlock
        /\ ppc # "persist" /\ Resume = lastProcessed + 1
    BY <1>10 DEF IInv, QueueInv, Resume
  <2>2. /\ RawLo' = Resume /\ BufLo' = Resume /\ BatLo' = Resume
        /\ buffer' = <<>> /\ batch' = <<>> /\ lastHanded' = NoBlock /\ ppc' = ppc
    BY <1>1, <1>3, <1>4, <2>1, EmptyFacts DEF RawLo, BufLo, BatLo
  <2>3. QueueInv'
    <3>1. Consec(raw', Resume)
      <4>1. raw \in Seq(Nat) /\ Consec(raw, Resume) /\ Resume = Resume + Len(raw)
        BY <1>1, <1>4, <2>1, EmptyFacts, ConsecEmpty
      <4>2. Consec(Append(raw, Resume), Resume)
        BY <1>1, <4>1, ConsecAppend
      <4>3. QED BY <1>3, <4>2
    <3>2. nextBlock' # 0
      BY <1>1, <1>3
    <3>3. QED BY <2>2, <3>1, <3>2, ConsecEmpty DEF QueueInv
  <2>4. CoverInv'
    <3>1. startBlock..(Resume - 1) \subseteq handed \cup lost
      BY <1>1, <2>1 DEF IInv, CoverInv, ProgressCovered
    <3>2. (Previous + 1)..(Resume - 1) = {}
      BY <1>1, <2>1 DEF Previous
    <3>3. /\ startBlock' = startBlock /\ handed' = handed /\ lost' = lost
          /\ lastProcessed' = lastProcessed /\ Previous' = Previous
      BY DEF SendBlock, Previous
    <3>4. ProgressCovered'
      BY <3>3 DEF IInv, CoverInv, ProgressCovered
    <3>5. lastProcessed' # NoBlock => startBlock' <= lastProcessed' + 1
      BY <3>3 DEF IInv, CoverInv
    <3>6. QED
      BY <1>1, <2>1, <2>2, <3>1, <3>2, <3>3, <3>4, <3>5 DEF CoverInv
  <2>5. AccountInv'
    <3>1. /\ startBlock' = startBlock /\ lost' = lost /\ outbox' = outbox
          /\ lastProcessed' = lastProcessed /\ InFlight' = InFlight
      BY DEF SendBlock, InFlight, Elems
    <3>2. BatLo' - 1 = lastProcessed
      BY <1>1, <2>1, <2>2
    <3>3. QED
      BY <1>1, <3>1, <3>2 DEF IInv, AccountInv, MatchesAccountedFor
  <2>6. QED BY <2>3, <2>4, <2>5
<1>11. ASSUME nextBlock # 0 PROVE QueueInv' /\ CoverInv' /\ AccountInv'
  <2>1. Resume = nextBlock
    BY <1>11 DEF Resume
  <2>2. RawLo' = RawLo /\ BufLo' = BufLo /\ BatLo' = BatLo
    BY <1>1, <1>3, <1>4, <2>1 DEF RawLo, BufLo, BatLo
  <2>3. QueueInv'
    <3>1. RawLo \in Int /\ Resume = RawLo + Len(raw)
      BY <1>1, <1>4, <2>1 DEF RawLo
    <3>2. Consec(raw', RawLo)
      BY <1>1, <1>3, <1>4, <3>1, ConsecAppend DEF IInv, QueueInv
    <3>3. nextBlock' # 0
      BY <1>1, <1>3
    <3>4. Consec(buffer', BufLo) /\ Consec(batch', BatLo)
      BY DEF IInv, QueueInv
    <3>5. QED BY <2>2, <3>2, <3>3, <3>4 DEF QueueInv
  <2>4. CoverInv'
    BY <1>11, <2>2 DEF IInv, CoverInv, ProgressCovered, Previous, SendBlock
  <2>5. AccountInv'
    <3>1. /\ startBlock' = startBlock /\ lost' = lost /\ outbox' = outbox
          /\ lastProcessed' = lastProcessed /\ InFlight' = InFlight
      BY DEF SendBlock, InFlight, Elems
    <3>2. QED
      BY <1>11, <2>2, <3>1 DEF IInv, AccountInv, MatchesAccountedFor
  <2>6. QED BY <2>3, <2>4, <2>5
<1>12. ConfirmedOnly'
  <2>1. Elems(chunk) \subseteq 0..(head - Confirmations) /\ Resume \in Elems(chunk)
    BY <1>2 DEF IInv, ConfirmedOnly
  <2>2. Elems(chunk') \subseteq Elems(chunk)
    BY <1>2, <1>5, ElemsFacts
  <2>3. /\ buffer' = buffer /\ batch' = batch /\ handed' = handed /\ head' = head
    BY DEF SendBlock
  <2>4. QED BY <1>4, <2>1, <2>2, <2>3 DEF IInv, ConfirmedOnly
<1>13. QED
  BY <1>7, <1>8, <1>9, <1>10, <1>11, <1>12 DEF IInv

-----------------------------------------------------------------------------
(* Steps of the processor.                                                 *)

(* A run holds exactly the blocks of its interval. *)
LEMMA ConsecElems ==
    ASSUME NEW s \in Seq(Nat), NEW lo \in Int, Consec(s, lo)
    PROVE  Elems(s) = lo..(lo + Len(s) - 1)
<1>1. Len(s) \in Nat
  OBVIOUS
<1>2. \A b \in lo..(lo + Len(s) - 1) : b - lo + 1 \in 1..Len(s) /\ lo + (b - lo + 1) - 1 = b
  BY <1>1
<1>3. lo..(lo + Len(s) - 1) \subseteq Elems(s)
  BY <1>2 DEF Elems, Consec
<1>4. Elems(s) \subseteq lo..(lo + Len(s) - 1)
  BY <1>1 DEF Elems, Consec
<1>5. QED BY <1>3, <1>4

(* The lengths and bounds the run positions are computed from. *)
LEMMA Positions ==
    ASSUME TypeOK
    PROVE  /\ Len(raw) \in Nat /\ Len(buffer) \in Nat /\ Len(batch) \in Nat
           /\ nextBlock \in Nat
           /\ RawLo \in Int /\ BufLo \in Int /\ BatLo \in Int
<1>1. Len(raw) \in Nat /\ Len(buffer) \in Nat /\ Len(batch) \in Nat /\ nextBlock \in Nat
  BY DEF TypeOK
<1>2. QED BY <1>1 DEF RawLo, BufLo, BatLo

(* A step that keeps the settled prefix and moves no block out of the      *)
(* match tasks keeps the cover and the accounts.                           *)
LEMMA SamePrefix ==
    ASSUME IInv, BatLo' = BatLo,
           UNCHANGED <<nextBlock, lastHanded, shared, flow>> \/
           UNCHANGED <<nextBlock, lastHanded, head, up, durable, correlated, matches,
                       history, flow>>,
           ppc' # "persist"
    PROVE  CoverInv' /\ AccountInv'
<1> USE DEF shared, durable, channels, history, flow
<1>1. CoverInv'
  BY DEF IInv, CoverInv, ProgressCovered, Previous
<1>2. /\ startBlock' = startBlock /\ lost' = lost /\ outbox' = outbox
      /\ lastProcessed' = lastProcessed /\ InFlight' = InFlight /\ nextBlock' = nextBlock
  BY DEF InFlight, Elems
<1>3. AccountInv'
  BY <1>2 DEF IInv, AccountInv, MatchesAccountedFor
<1>4. QED BY <1>1, <1>3

(* A received block moves from the front of raw to the end of buffer.      *)
LEMMA ReceiveBlockStep ==
    IInv /\ ReceiveBlock /\ UNCHANGED <<ingestor, flow>> => IInv'
<1> SUFFICES ASSUME IInv, ReceiveBlock, UNCHANGED <<ingestor, flow>> PROVE IInv'
  OBVIOUS
<1> USE DEF durable, channels, history, ingestor, flow
<1> DEFINE filled == Append(buffer, Head(raw))
<1>1. /\ ppc = "recv" /\ batch = <<>> /\ raw # <<>> /\ raw \in Seq(Nat)
      /\ buffer \in Seq(Nat) /\ Len(buffer) < ChunkSize /\ up = "running"
      /\ Consec(raw, RawLo) /\ Consec(buffer, BufLo)
  BY DEF ReceiveBlock, IInv, TypeOK, QueueInv
<1>2. /\ Head(raw) = RawLo /\ Consec(Tail(raw), RawLo + 1)
      /\ Head(raw) \in Nat /\ Tail(raw) \in Seq(Nat)
      /\ Len(Tail(raw)) = Len(raw) - 1
      /\ Elems(raw) = {Head(raw)} \cup Elems(Tail(raw))
  BY <1>1, Positions, ConsecTail, TailFacts DEF IInv
<1>3. /\ filled \in Seq(Nat) /\ filled # <<>> /\ Len(filled) = Len(buffer) + 1
      /\ Elems(filled) = Elems(buffer) \cup {Head(raw)}
  BY <1>1, <1>2, AppendFacts
<1>4. Consec(filled, BufLo)
  <2>1. Head(raw) = BufLo + Len(buffer)
    BY <1>2, Positions DEF IInv, BufLo
  <2>2. QED BY <1>1, <1>2, <2>1, Positions, ConsecAppend DEF IInv
<1>5. raw' = Tail(raw)
  BY DEF ReceiveBlock
<1>6. \/ buffer' = <<>> /\ batch' = filled /\ ppc' = "correlate"
      \/ buffer' = filled /\ batch' = <<>> /\ ppc' = "recv" /\ Len(filled) < ChunkSize
  BY <1>1, <1>3, PipelineAssumption DEF ReceiveBlock, Full
<1> HIDE DEF filled
<1>7. TypeOK'
  <2>1. Len(raw') <= BlockChannelCap
    BY <1>2, <1>5, Positions, PipelineAssumption DEF IInv, TypeOK, BlockChannelCap
  <2>2. Len(filled) <= ChunkSize /\ Len(<<>>) < ChunkSize /\ Len(<<>>) <= ChunkSize
    BY <1>1, <1>3, EmptyFacts, Positions, PipelineAssumption DEF IInv
  <2>3. CASE buffer' = <<>> /\ batch' = filled /\ ppc' = "correlate"
    BY <1>1, <1>2, <1>3, <1>5, <2>1, <2>2, <2>3, EmptyFacts
       DEF IInv, TypeOK, ReceiveBlock
  <2>4. CASE buffer' = filled /\ batch' = <<>> /\ ppc' = "recv" /\ Len(filled) < ChunkSize
    BY <1>1, <1>2, <1>3, <1>5, <2>1, <2>2, <2>4, EmptyFacts
       DEF IInv, TypeOK, ReceiveBlock
  <2>5. QED BY <1>6, <2>3, <2>4
<1>8. ProcessInv'
  BY <1>1 DEF IInv, ProcessInv, ReceiveBlock
<1>9. IngestorInv'
  BY FramedIngestor DEF IInv, ReceiveBlock
<1>10. RawLo' = RawLo + 1 /\ BatLo' = BatLo
       /\ Consec(buffer', BufLo') /\ Consec(batch', BatLo')
  <2>1. RawLo' = RawLo + 1
    BY <1>2, <1>5, Positions DEF IInv, RawLo
  <2>2. BatLo = BufLo
    BY <1>1, EmptyFacts, Positions DEF IInv, BatLo
  <2>3. CASE buffer' = <<>> /\ batch' = filled /\ ppc' = "correlate"
    <3>1. Len(buffer') = 0 /\ Len(batch') = Len(buffer) + 1
      BY <1>3, <2>3, EmptyFacts
    <3>2. BufLo' = RawLo + 1
      BY <2>1, <3>1, Positions DEF IInv, BufLo
    <3>3. BatLo' = BufLo
      BY <3>1, <3>2, Positions DEF IInv, BufLo, BatLo
    <3>4. QED BY <1>4, <2>1, <2>2, <2>3, <3>2, <3>3, ConsecEmpty
  <2>4. CASE buffer' = filled /\ batch' = <<>> /\ ppc' = "recv" /\ Len(filled) < ChunkSize
    <3>1. Len(buffer') = Len(buffer) + 1 /\ Len(batch') = 0
      BY <1>3, <2>4, EmptyFacts
    <3>2. BufLo' = BufLo
      BY <2>1, <3>1, Positions DEF IInv, BufLo
    <3>3. BufLo' = BufLo /\ BatLo' = BufLo
      BY <3>1, <3>2, Positions DEF IInv, BatLo
    <3>4. QED BY <1>4, <2>1, <2>2, <2>4, <3>3, ConsecEmpty
  <2>5. QED BY <1>6, <2>3, <2>4
<1>11. QueueInv'
  <2>1. nextBlock' # 0
    BY <1>1 DEF IInv, QueueInv
  <2>2. QED BY <1>2, <1>5, <1>10, <2>1 DEF QueueInv
<1>12. CoverInv' /\ AccountInv'
  BY <1>6, <1>10, SamePrefix DEF ReceiveBlock
<1>13. ConfirmedOnly'
  <2>1. Elems(raw) \cup Elems(buffer) \subseteq 0..(head - Confirmations)
    BY DEF IInv, ConfirmedOnly
  <2>2. /\ Elems(raw') \subseteq Elems(raw)
        /\ Elems(buffer') \subseteq Elems(buffer) \cup Elems(raw)
        /\ Elems(batch') \subseteq Elems(buffer) \cup Elems(raw)
    BY <1>2, <1>3, <1>5, <1>6, ElemsFacts
  <2>3. chunk' = chunk /\ handed' = handed /\ head' = head
    BY DEF ReceiveBlock
  <2>4. QED BY <2>1, <2>2, <2>3 DEF IInv, ConfirmedOnly
<1>14. QED
  BY <1>7, <1>8, <1>9, <1>11, <1>12, <1>13 DEF IInv

(* On cancellation the buffer becomes the last batch.                      *)
LEMMA ProcessorCancelledStep ==
    IInv /\ ProcessorCancelled /\ UNCHANGED <<ingestor, flow>> => IInv'
<1> SUFFICES ASSUME IInv, ProcessorCancelled, UNCHANGED <<ingestor, flow>> PROVE IInv'
  OBVIOUS
<1> USE DEF shared, durable, channels, history, ingestor, flow
<1>1. /\ ppc = "recv" /\ batch = <<>> /\ up = "cancelled" /\ buffer \in Seq(Nat)
      /\ Len(buffer) < ChunkSize
  BY DEF ProcessorCancelled, IInv, TypeOK
<1>2. \/ ppc' = "done" /\ buffer = <<>> /\ buffer' = <<>> /\ batch' = <<>>
      \/ ppc' = "correlate" /\ buffer # <<>> /\ buffer' = <<>> /\ batch' = buffer
  BY <1>1 DEF ProcessorCancelled
<1>3. TypeOK'
  <2>1. Len(buffer) <= ChunkSize /\ Len(<<>>) < ChunkSize /\ Len(<<>>) <= ChunkSize
    BY <1>1, EmptyFacts, Positions, PipelineAssumption DEF IInv
  <2>2. CASE ppc' = "done" /\ buffer = <<>> /\ buffer' = <<>> /\ batch' = <<>>
    BY <1>1, <2>1, <2>2, EmptyFacts DEF IInv, TypeOK, ProcessorCancelled
  <2>3. CASE ppc' = "correlate" /\ buffer # <<>> /\ buffer' = <<>> /\ batch' = buffer
    BY <1>1, <2>1, <2>3, EmptyFacts DEF IInv, TypeOK, ProcessorCancelled
  <2>4. QED BY <1>2, <2>2, <2>3
<1>4. ProcessInv'
  BY <1>1 DEF IInv, ProcessInv, ProcessorCancelled
<1>5. IngestorInv'
  BY FramedIngestor DEF IInv, ProcessorCancelled
<1>6. RawLo' = RawLo /\ BufLo' = RawLo /\ BatLo' = BatLo /\ BatLo = BufLo
  <2>1. raw' = raw /\ nextBlock' = nextBlock /\ Len(batch') = Len(buffer) /\ Len(buffer') = 0
    BY <1>2, EmptyFacts DEF ProcessorCancelled
  <2>2. QED BY <1>1, <2>1, EmptyFacts, Positions DEF IInv, RawLo, BufLo, BatLo
<1>7. QueueInv'
  BY <1>2, <1>6, ConsecEmpty DEF IInv, QueueInv, ProcessorCancelled, Consec
<1>8. CoverInv' /\ AccountInv'
  BY <1>2, <1>6, SamePrefix DEF ProcessorCancelled
<1>9. ConfirmedOnly'
  BY <1>2, ElemsFacts DEF IInv, ConfirmedOnly, ProcessorCancelled, Elems
<1>10. QED
  BY <1>3, <1>4, <1>5, <1>7, <1>8, <1>9 DEF IInv

(* A correlated batch is the same run of blocks.                           *)
LEMMA CorrelateStep ==
    IInv /\ Correlate /\ UNCHANGED <<ingestor, flow>> => IInv'
<1> SUFFICES ASSUME IInv, Correlate, UNCHANGED <<ingestor, flow>> PROVE IInv'
  OBVIOUS
<1> USE DEF shared, durable, channels, history, ingestor, flow
<1>1. TypeOK'
  BY DEF IInv, TypeOK, Correlate
<1>2. ProcessInv'
  BY DEF IInv, ProcessInv, Correlate
<1>3. IngestorInv'
  BY FramedIngestor DEF IInv, Correlate
<1>4. QueueInv' /\ BatLo' = BatLo
  BY DEF IInv, QueueInv, RawLo, BufLo, BatLo, Consec, Correlate
<1>5. CoverInv' /\ AccountInv'
  BY <1>4, SamePrefix DEF Correlate
<1>6. ConfirmedOnly'
  BY FramedConfirmed DEF IInv, Correlate
<1>7. QED
  BY <1>1, <1>2, <1>3, <1>4, <1>5, <1>6 DEF IInv

(* The failed batch is the run BatLo..(BufLo - 1); it joins `lost`.         *)
LEMMA BatchFailsStep ==
    IInv /\ BatchFails /\ UNCHANGED <<ingestor, flow>> => IInv'
<1> SUFFICES ASSUME IInv, BatchFails, UNCHANGED <<ingestor, flow>> PROVE IInv'
  OBVIOUS
<1> USE DEF durable, channels, history, ingestor, flow
<1>1. /\ ppc = "correlate" /\ ppc' = "recv" /\ batch # <<>> /\ batch' = <<>>
      /\ batch \in Seq(Nat) /\ Consec(batch, BatLo) /\ lost' = lost \cup Elems(batch)
      /\ nextBlock # 0 /\ nextBlock' = nextBlock
  BY DEF BatchFails, IInv, TypeOK, QueueInv
<1>2. BatLo' = BufLo /\ BufLo' = BufLo /\ RawLo' = RawLo
  BY <1>1, EmptyFacts, Positions DEF IInv, BatLo, BufLo, RawLo, BatchFails
<1>3. Elems(batch) = BatLo..(BufLo - 1)
  <2>1. BatLo + Len(batch) - 1 = BufLo - 1
    BY Positions DEF IInv, BatLo
  <2>2. QED BY <1>1, <2>1, Positions, ConsecElems DEF IInv
<1>4. TypeOK'
  <2>1. lost' \subseteq Nat
    BY <1>1, ElemsFacts DEF IInv, TypeOK
  <2>2. Len(<<>>) <= ChunkSize
    BY EmptyFacts, PipelineAssumption
  <2>3. QED BY <1>1, <2>1, <2>2, EmptyFacts DEF IInv, TypeOK, BatchFails
<1>5. ProcessInv'
  BY <1>1 DEF IInv, ProcessInv, BatchFails
<1>6. IngestorInv'
  BY FramedIngestor DEF IInv, BatchFails
<1>7. QueueInv'
  BY <1>1, <1>2, ConsecEmpty DEF IInv, QueueInv, BatchFails
<1>8. CoverInv'
  <2>1. /\ lastProcessed < BatLo /\ lastHanded < BatLo /\ BatLo <= BufLo
        /\ lastProcessed \in Int /\ lastHanded \in Int /\ startBlock \in Int
    BY <1>1, Positions DEF IInv, CoverInv, TypeOK, BatLo
  <2>2. /\ startBlock..(BatLo - 1) \subseteq handed \cup lost
        /\ (Previous + 1)..(BatLo - 1) \subseteq lost
        /\ ProgressCovered
    BY <1>1 DEF IInv, CoverInv
  <2>3. /\ lastProcessed' = lastProcessed /\ lastHanded' = lastHanded /\ handed' = handed
        /\ startBlock' = startBlock /\ Previous' = Previous /\ Previous \in Int
    BY <2>1 DEF BatchFails, Previous
  <2>4. \A lo \in Int : lo..(BufLo - 1) \subseteq lo..(BatLo - 1) \cup BatLo..(BufLo - 1)
    BY Positions DEF IInv
  <2>5. /\ startBlock..(BufLo - 1) \subseteq handed \cup lost'
        /\ (Previous + 1)..(BufLo - 1) \subseteq lost'
    <3>1. Previous + 1 \in Int
      BY <2>3
    <3>2. QED BY <1>1, <1>3, <2>1, <2>2, <2>4, <3>1
  <2>6. ProgressCovered'
    BY <1>1, <2>2, <2>3 DEF ProgressCovered
  <2>7. lastProcessed < BufLo /\ lastHanded < BufLo
    BY <2>1, Positions DEF IInv
  <2>8. lastProcessed' # NoBlock => startBlock' <= lastProcessed' + 1
    BY <2>3 DEF IInv, CoverInv
  <2>9. QED BY <1>1, <1>2, <2>3, <2>5, <2>6, <2>7, <2>8 DEF CoverInv
<1>9. AccountInv'
  <2>1. /\ startBlock' = startBlock /\ lost \subseteq lost' /\ outbox' = outbox
        /\ lastProcessed' = lastProcessed /\ InFlight' = InFlight
    BY <1>1 DEF BatchFails, InFlight, Elems
  <2>2. startBlock..(BufLo - 1) \subseteq startBlock..(BatLo - 1) \cup lost'
    BY <1>1, <1>3, Positions DEF IInv, TypeOK
  <2>3. QED
    BY <1>1, <1>2, <2>1, <2>2 DEF IInv, AccountInv, MatchesAccountedFor
<1>10. ConfirmedOnly'
  BY <1>1, ElemsFacts DEF IInv, ConfirmedOnly, BatchFails, Elems
<1>11. QED
  BY <1>4, <1>5, <1>6, <1>7, <1>8, <1>9, <1>10 DEF IInv

(* Dispatch hands over exactly the block BatLo.                             *)
LEMMA DispatchStep ==
    IInv /\ Dispatch /\ UNCHANGED <<ingestor, flow>> => IInv'
<1> SUFFICES ASSUME IInv, Dispatch, UNCHANGED <<ingestor, flow>> PROVE IInv'
  OBVIOUS
<1> USE DEF durable, channels, history, ingestor, flow
<1>1. /\ ppc = "dispatch" /\ batch # <<>> /\ batch \in Seq(Nat) /\ Consec(batch, BatLo)
      /\ nextBlock # 0 /\ nextBlock' = nextBlock /\ up # "stopped"
      /\ correlated \in Seq(Nat)
  BY DEF Dispatch, IInv, TypeOK, QueueInv, ProcessInv
<1>2. /\ Head(batch) = BatLo /\ Consec(Tail(batch), BatLo + 1)
      /\ BatLo \in Nat /\ Tail(batch) \in Seq(Nat) /\ Len(Tail(batch)) = Len(batch) - 1
      /\ Elems(batch) = {BatLo} \cup Elems(Tail(batch))
      /\ Len(batch) \in Nat \ {0}
  BY <1>1, Positions, ConsecTail, TailFacts DEF IInv
<1>3. /\ batch' = Tail(batch) /\ lastHanded' = BatLo /\ handed' = handed \cup {BatLo}
      /\ correlated' = Append(correlated, BatLo)
      /\ ppc' = IF Len(batch) = 1 THEN "persist" ELSE "dispatch"
      /\ raw' = raw /\ buffer' = buffer /\ lastProcessed' = lastProcessed
      /\ startBlock' = startBlock /\ lost' = lost /\ outbox' = outbox
  BY <1>2 DEF Dispatch
<1>4. /\ correlated' \in Seq(Nat) /\ Len(correlated') = Len(correlated) + 1
      /\ Elems(correlated') = Elems(correlated) \cup {BatLo}
  BY <1>1, <1>2, <1>3, AppendFacts
<1>5. RawLo' = RawLo /\ BufLo' = BufLo /\ BatLo' = BatLo + 1
  BY <1>1, <1>2, <1>3, Positions DEF IInv, RawLo, BufLo, BatLo
<1>6. ppc' = "dispatch" <=> batch' # <<>>
  <2>1. CASE Len(batch) = 1
    <3>1. Len(Tail(batch)) = 0
      BY <1>2, <2>1
    <3>2. Tail(batch) = <<>>
      BY <1>2, <3>1, EmptyByLength
    <3>3. QED BY <1>3, <2>1, <3>2
  <2>2. CASE Len(batch) # 1
    <3>1. Len(Tail(batch)) # 0
      BY <1>2, <2>2
    <3>2. QED BY <1>3, <2>2, <3>1, NonEmpty
  <2>3. QED BY <2>1, <2>2
<1>7. TypeOK'
  <2>1. Len(correlated') <= BlockChannelCap
    <3>1. Len(correlated) < BlockChannelCap /\ Len(correlated) \in Nat
      BY <1>1 DEF Dispatch
    <3>2. QED BY <1>4, <3>1, PipelineAssumption DEF BlockChannelCap
  <2>2. Len(batch') <= ChunkSize
    BY <1>2, <1>3, PipelineAssumption DEF IInv, TypeOK
  <2>3. ppc' \in {"persist", "dispatch"} /\ handed' \subseteq Nat
    BY <1>2, <1>3 DEF IInv, TypeOK
  <2>4. QED BY <1>2, <1>3, <1>4, <1>6, <2>1, <2>2, <2>3 DEF IInv, TypeOK, Dispatch
<1>8. ProcessInv'
  BY <1>1, <1>3 DEF IInv, ProcessInv, Dispatch
<1>9. IngestorInv'
  BY FramedIngestor DEF IInv, Dispatch
<1>10. QueueInv'
  BY <1>1, <1>2, <1>3, <1>5 DEF IInv, QueueInv
<1>11. CoverInv'
  <2>1. lastProcessed < BatLo /\ lastProcessed \in Int /\ startBlock \in Int
    BY <1>1 DEF IInv, CoverInv, TypeOK
  <2>2. startBlock..((BatLo + 1) - 1) \subseteq startBlock..(BatLo - 1) \cup {BatLo}
    BY <1>2, <2>1
  <2>3. startBlock..((BatLo + 1) - 1) \subseteq handed' \cup lost'
    BY <1>1, <1>3, <2>2 DEF IInv, CoverInv
  <2>4. Previous' = BatLo
    BY <1>2, <1>3 DEF Previous
  <2>5. (BatLo + 1)..((BatLo + 1) - 1) = {}
    BY <1>2
  <2>6. ProgressCovered'
    BY <1>3 DEF IInv, CoverInv, ProgressCovered
  <2>7. lastProcessed < BatLo + 1 /\ BatLo < BatLo + 1 /\ BatLo = (BatLo + 1) - 1
    BY <1>2, <2>1
  <2>8. lastProcessed' # NoBlock => startBlock' <= lastProcessed' + 1
    BY <1>3 DEF IInv, CoverInv
  <2>9. QED BY <1>3, <1>5, <2>1, <2>3, <2>4, <2>5, <2>6, <2>7, <2>8 DEF CoverInv
<1>12. AccountInv'
  <2>1. InFlight' = InFlight \cup {BatLo}
    <3>1. BatLo # NoBlock /\ matches' = matches /\ evaluating' = evaluating
          /\ alerting' = alerting /\ Elems(matches') = Elems(matches)
      BY <1>2 DEF Dispatch
    <3>2. QED BY <1>4, <3>1 DEF InFlight
  <2>2. startBlock..((BatLo + 1) - 1) \subseteq startBlock..(BatLo - 1) \cup {BatLo}
    BY <1>2 DEF IInv, TypeOK
  <2>3. QED
    BY <1>1, <1>3, <1>5, <2>1, <2>2 DEF IInv, AccountInv, MatchesAccountedFor
<1>13. ConfirmedOnly'
  <2>1. Elems(batch') \subseteq Elems(batch) /\ BatLo \in Elems(batch)
    BY <1>2, <1>3
  <2>2. chunk' = chunk /\ head' = head
    BY DEF Dispatch
  <2>3. QED BY <1>3, <2>1, <2>2 DEF IInv, ConfirmedOnly
<1>14. QED
  BY <1>7, <1>8, <1>9, <1>10, <1>11, <1>12, <1>13 DEF IInv

(* The row moves to BatLo - 1: every block below BatLo is settled.          *)
LEMMA PersistStep ==
    IInv /\ Persist /\ UNCHANGED <<ingestor, flow>> => IInv'
<1> SUFFICES ASSUME IInv, Persist, UNCHANGED <<ingestor, flow>> PROVE IInv'
  OBVIOUS
<1> USE DEF channels, history, ingestor, flow
<1>1. /\ ppc = "persist" /\ batch = <<>> /\ nextBlock # 0 /\ up # "stopped"
      /\ lastHanded = BatLo - 1 /\ lastProcessed < lastHanded
      /\ lastProcessed \in Nat /\ lastHanded \in Nat
  <2>1. ppc = "persist" /\ batch = <<>> /\ lastHanded = BatLo - 1 /\ lastProcessed < lastHanded
    BY DEF Persist, IInv, TypeOK, CoverInv
  <2>2. nextBlock # 0 /\ up # "stopped"
    BY <2>1 DEF IInv, QueueInv, ProcessInv
  <2>3. lastProcessed \in Nat
    BY <2>2 DEF IInv, ProcessInv, TypeOK
  <2>4. lastHanded \in Nat
    BY <2>1, <2>3 DEF IInv, TypeOK
  <2>5. QED BY <2>1, <2>2, <2>3, <2>4
<1>2. /\ lastProcessed' = lastHanded /\ ppc' = "recv" /\ raw' = raw /\ buffer' = buffer
      /\ batch' = batch /\ lastHanded' = lastHanded /\ nextBlock' = nextBlock
      /\ startBlock' = startBlock /\ handed' = handed /\ lost' = lost /\ up' = up
      /\ outbox' = outbox /\ head' = head
  BY DEF Persist
<1>3. RawLo' = RawLo /\ BufLo' = BufLo /\ BatLo' = BatLo
  BY <1>2 DEF RawLo, BufLo, BatLo
<1>4. TypeOK'
  BY <1>1, <1>2 DEF IInv, TypeOK, Persist
<1>5. ProcessInv'
  BY <1>1, <1>2 DEF IInv, ProcessInv
<1>6. IngestorInv'
  <2>1. Resume' = Resume
    BY <1>1, <1>2 DEF Resume
  <2>2. ipc = "head" => readLast <= lastHanded
    BY <1>1 DEF IInv, IngestorInv, TypeOK
  <2>3. QED BY <1>1, <1>2, <2>1, <2>2 DEF IInv, IngestorInv, Consec, Elems
<1>7. QueueInv'
  BY <1>1, <1>2, <1>3 DEF IInv, QueueInv, Consec
<1>8. CoverInv'
  <2>1. Previous' = Previous
    BY <1>1, <1>2 DEF Previous
  <2>2. ProgressCovered'
    BY <1>1, <1>2 DEF IInv, CoverInv, ProgressCovered
  <2>3. lastHanded < BatLo
    BY <1>1 DEF IInv, CoverInv
  <2>4. startBlock' <= lastProcessed' + 1
    <3>1. startBlock <= lastProcessed + 1 /\ startBlock \in Nat
      BY <1>1 DEF IInv, CoverInv, TypeOK, NoBlock
    <3>2. QED BY <1>1, <1>2, <3>1
  <2>5. QED BY <1>1, <1>2, <1>3, <2>1, <2>2, <2>3, <2>4 DEF IInv, CoverInv
<1>9. AccountInv'
  <2>1. InFlight' = InFlight
    BY DEF InFlight, Elems, Persist
  <2>2. QED BY <1>1, <1>2, <1>3, <2>1 DEF IInv, AccountInv, MatchesAccountedFor
<1>10. ConfirmedOnly'
  BY FramedConfirmed, <1>2 DEF IInv
<1>11. QED
  BY <1>4, <1>5, <1>6, <1>7, <1>8, <1>9, <1>10 DEF IInv

(* A failed write leaves the row where it was.                             *)
LEMMA PersistFailsStep ==
    IInv /\ PersistFails /\ UNCHANGED <<ingestor, flow>> => IInv'
<1> SUFFICES ASSUME IInv, PersistFails, UNCHANGED <<ingestor, flow>> PROVE IInv'
  OBVIOUS
<1> USE DEF shared, durable, channels, history, ingestor, flow
<1>1. TypeOK'
  BY DEF IInv, TypeOK, PersistFails
<1>2. ProcessInv'
  BY DEF IInv, ProcessInv, PersistFails
<1>3. IngestorInv'
  BY FramedIngestor DEF IInv, PersistFails
<1>4. QueueInv' /\ BatLo' = BatLo
  BY DEF IInv, QueueInv, RawLo, BufLo, BatLo, Consec, PersistFails
<1>5. CoverInv' /\ AccountInv'
  BY <1>4, SamePrefix DEF PersistFails
<1>6. ConfirmedOnly'
  BY FramedConfirmed DEF IInv, PersistFails
<1>7. QED
  BY <1>1, <1>2, <1>3, <1>4, <1>5, <1>6 DEF IInv

-----------------------------------------------------------------------------
(* Steps of the filtering engine and the alert manager.                    *)

(* A step behind the processor keeps the invariant when no match leaves    *)
(* the accounts.                                                           *)
LEMMA FlowFrame ==
    ASSUME IInv, TypeOK', up # "stopped",
           UNCHANGED <<ingestor, processor, head, up, lastProcessed, raw, startBlock, handed>>,
           lost \subseteq lost',
           MatchBlocks \cap (outbox \cup InFlight \cup lost)
               \subseteq outbox' \cup InFlight' \cup lost'
    PROVE  IInv'
<1> USE DEF ingestor, processor
<1>1. ProcessInv' /\ IngestorInv' /\ QueueInv' /\ ConfirmedOnly'
  BY FramedIngestor, FramedQueue, FramedConfirmed DEF IInv, ProcessInv
<1>2. BatLo' = BatLo /\ Previous' = Previous
  BY DEF BatLo, BufLo, RawLo, Previous
<1>3. CoverInv'
  BY <1>2 DEF IInv, CoverInv, ProgressCovered
<1>4. AccountInv'
  BY <1>2 DEF IInv, AccountInv, MatchesAccountedFor
<1>5. QED BY <1>1, <1>3, <1>4 DEF IInv

(* Filtering and alerting move a block on, enqueue it, or give it up.      *)
LEMMA FlowStepInv == IInv /\ FlowStep => IInv'
<1> SUFFICES ASSUME IInv, FlowStep PROVE IInv'
  OBVIOUS
<1> USE DEF durable, channels, history
<1>0. /\ correlated \in Seq(Nat) /\ matches \in Seq(Nat)
      /\ Len(correlated) \in Nat /\ Len(matches) \in Nat
      /\ UNCHANGED <<ingestor, processor>>
      /\ up # "stopped"
  <2>1. up # "stopped"
    BY DEF IInv, ProcessInv, FlowStep, MatchStep, CommitStep, FilterReceive, FilterSend, FilterPanics,
           AlertReceive, Enqueue, EnqueueFails
  <2>2. QED BY <2>1 DEF IInv, TypeOK, FlowStep, MatchStep, CommitStep
<1>1. CASE FilterReceive
  <2>1. /\ Head(correlated) \in Nat /\ Tail(correlated) \in Seq(Nat)
        /\ Len(Tail(correlated)) = Len(correlated) - 1
        /\ Elems(correlated) = {Head(correlated)} \cup Elems(Tail(correlated))
    BY <1>0, <1>1, TailFacts DEF FilterReceive
  <2>2. Len(correlated') <= BlockChannelCap
    BY <1>0, <1>1, <2>1, PipelineAssumption DEF FilterReceive, IInv, TypeOK, BlockChannelCap
  <2>3. TypeOK'
    BY <1>0, <1>1, <2>1, <2>2 DEF FilterReceive, IInv, TypeOK, ingestor, processor
  <2>4. InFlight \subseteq InFlight'
    BY <1>1, <2>1 DEF InFlight, FilterReceive
  <2>5. QED BY <1>0, <1>1, <2>3, <2>4, FlowFrame DEF FilterReceive
<1>2. CASE FilterSend
  <2>0. evaluating \in Nat
    BY <1>2 DEF FilterSend, IInv, TypeOK
  <2>1. /\ Append(matches, evaluating) \in Seq(Nat)
        /\ Len(Append(matches, evaluating)) = Len(matches) + 1
        /\ Elems(Append(matches, evaluating)) = Elems(matches) \cup {evaluating}
    BY <1>0, <2>0, AppendFacts
  <2>2. CASE evaluating \in MatchBlocks
    <3>1. matches' = Append(matches, evaluating) /\ Len(matches') <= MatchesCap
      BY <1>0, <1>2, <2>1, <2>2, PipelineAssumption DEF FilterSend
    <3>2. TypeOK'
      BY <1>0, <1>2, <2>1, <3>1 DEF FilterSend, IInv, TypeOK, ingestor, processor
    <3>3. InFlight \subseteq InFlight'
      BY <1>2, <2>0, <2>1, <3>1 DEF InFlight, FilterSend
    <3>4. QED BY <1>0, <1>2, <3>2, <3>3, FlowFrame DEF FilterSend
  <2>3. CASE evaluating \notin MatchBlocks
    <3>1. matches' = matches
      BY <1>2, <2>3 DEF FilterSend
    <3>2. TypeOK'
      BY <1>0, <1>2, <3>1 DEF FilterSend, IInv, TypeOK, ingestor, processor
    <3>3. MatchBlocks \cap InFlight \subseteq InFlight'
      BY <1>2, <2>3, <3>1 DEF InFlight, FilterSend
    <3>4. QED BY <1>0, <1>2, <3>2, <3>3, FlowFrame DEF FilterSend
  <2>4. QED BY <2>2, <2>3
<1>3. CASE FilterPanics
  <2>1. TypeOK'
    BY <1>0, <1>3 DEF FilterPanics, IInv, TypeOK, ingestor, processor
  <2>2. InFlight \subseteq InFlight' \cup lost'
    BY <1>3 DEF InFlight, FilterPanics
  <2>3. QED BY <1>0, <1>3, <2>1, <2>2, FlowFrame DEF FilterPanics
<1>4. CASE AlertReceive
  <2>1. /\ Head(matches) \in Nat /\ Tail(matches) \in Seq(Nat)
        /\ Len(Tail(matches)) = Len(matches) - 1
        /\ Elems(matches) = {Head(matches)} \cup Elems(Tail(matches))
    BY <1>0, <1>4, TailFacts DEF AlertReceive
  <2>2. Len(matches') <= MatchesCap
    BY <1>0, <1>4, <2>1, PipelineAssumption DEF AlertReceive, IInv, TypeOK
  <2>3. TypeOK'
    BY <1>0, <1>4, <2>1, <2>2 DEF AlertReceive, IInv, TypeOK, ingestor, processor
  <2>4. InFlight \subseteq InFlight'
    BY <1>4, <2>1 DEF InFlight, AlertReceive
  <2>5. QED BY <1>0, <1>4, <2>3, <2>4, FlowFrame DEF AlertReceive
<1>5. CASE Enqueue
  <2>1. TypeOK'
    BY <1>0, <1>5 DEF Enqueue, IInv, TypeOK, ingestor, processor
  <2>2. InFlight \subseteq InFlight' \cup outbox'
    BY <1>5 DEF InFlight, Enqueue
  <2>3. QED BY <1>0, <1>5, <2>1, <2>2, FlowFrame DEF Enqueue
<1>6. CASE EnqueueFails
  <2>1. TypeOK'
    BY <1>0, <1>6 DEF EnqueueFails, IInv, TypeOK, ingestor, processor
  <2>2. InFlight \subseteq InFlight' \cup lost'
    BY <1>6 DEF InFlight, EnqueueFails
  <2>3. QED BY <1>0, <1>6, <2>1, <2>2, FlowFrame DEF EnqueueFails
<1>7. QED
  BY <1>1, <1>2, <1>3, <1>4, <1>5, <1>6 DEF FlowStep, MatchStep, CommitStep

-----------------------------------------------------------------------------
(* Steps of the chain and of the supervisor.                               *)

(* A growing chain only relaxes the confirmation bound.                    *)
LEMMA ChainStepInv == IInv /\ ChainStep => IInv'
<1> SUFFICES ASSUME IInv, ChainStep PROVE IInv'
  OBVIOUS
<1> USE DEF durable, channels, history, ingestor, processor, flow
<1>1. head \in Nat /\ head' = head + 1
  BY DEF ChainStep, NewBlock, IInv, TypeOK
<1>2. TypeOK'
  BY <1>1 DEF IInv, TypeOK, ChainStep, NewBlock
<1>3. ProcessInv' /\ QueueInv' /\ CoverInv' /\ AccountInv'
  BY FramedProcess, FramedQueue, FramedCover, FramedAccount DEF IInv, ChainStep, NewBlock
<1>4. IngestorInv'
  BY <1>1, PipelineAssumption
     DEF IInv, TypeOK, IngestorInv, ChainStep, NewBlock, Resume, Consec, Elems
<1>5. ConfirmedOnly'
  <2>1. 0..(head - Confirmations) \subseteq 0..(head' - Confirmations)
    BY <1>1, PipelineAssumption
  <2>2. QED BY <2>1 DEF IInv, ConfirmedOnly, ChainStep, NewBlock, Elems
<1>6. QED
  BY <1>2, <1>3, <1>4, <1>5 DEF IInv

(* Starting or ending a process leaves a state with nothing in flight.     *)
LEMMA FreshTasksInv ==
    ASSUME IInv, NEW at \in {"sleep", "done"}, NEW rv \in {"recv", "done"},
           FreshTasks(at, rv), UNCHANGED <<head, outbox, handed>>,
           lastProcessed' \in Nat \cup {NoBlock}, startBlock' \in Nat,
           up' \in {"running", "stopped"}, ProcessInv',
           lost' \subseteq Nat, ProgressCovered', MatchesAccountedFor',
           lastProcessed' # NoBlock => startBlock' <= lastProcessed' + 1
    PROVE  IInv'
<1> USE EmptyFacts, ElemsFacts, ConsecEmpty, PipelineAssumption DEF FreshTasks
<1>1. TypeOK'
  BY DEF IInv, TypeOK, BlockChannelCap
<1>2. IngestorInv'
  BY DEF IngestorInv
<1>3. QueueInv'
  BY DEF QueueInv
<1>4. CoverInv'
  BY DEF CoverInv
<1>5. ConfirmedOnly'
  BY DEF IInv, ConfirmedOnly
<1>6. AccountInv'
  BY DEF AccountInv
<1>7. QED
  BY <1>1, <1>2, <1>3, <1>4, <1>5, <1>6 DEF IInv

(* A boot starts at the persisted row, or chooses it.                      *)
LEMMA BootInv == IInv /\ Boot => IInv'
<1> SUFFICES ASSUME IInv, Boot PROVE IInv'
  OBVIOUS
<1>1. CASE lastProcessed = NoBlock
  <2>1. PICK h \in SatSub(head, MaxLag)..head :
             lastProcessed' = InitialLastProcessed(h) /\ startBlock' = lastProcessed' + 1
    BY <1>1 DEF Boot
  <2>2. h \in Nat /\ TargetBlock(h) \in Nat
    <3>1. h \in Nat
      BY PipelineAssumption DEF IInv, TypeOK, SatSub
    <3>2. CASE StartKind = "latest"
      BY <3>1, <3>2 DEF TargetBlock, InitialStartBlock
    <3>3. CASE StartKind = "file"
      BY <3>1, <3>3, PipelineAssumption
      DEF TargetBlock, InitialStartBlock, Deserialized, DefaultOffset, MaxOf
    <3>4. CASE StartKind = "flag"
      BY <3>1, <3>4, PipelineAssumption
      DEF TargetBlock, InitialStartBlock, ParsedStartBlockArg, MaxOf
    <3>5. QED BY <3>2, <3>3, <3>4, PipelineAssumption
  <2>3. lastProcessed' \in Nat
    BY <2>1, <2>2, PipelineAssumption DEF InitialLastProcessed, SatSub, MinOf
  <2>4. startBlock'..lastProcessed' = {} /\ startBlock' \in Nat
    BY <2>1, <2>3
  <2>5. ProgressCovered' /\ MatchesAccountedFor'
    BY <2>4 DEF ProgressCovered, MatchesAccountedFor
  <2>6. ProcessInv'
    BY <2>3 DEF Boot, ProcessInv
  <2>7. lost' \subseteq Nat /\ up' = "running"
    BY DEF Boot, IInv, TypeOK
  <2>8. startBlock' <= lastProcessed' + 1
    BY <2>1, <2>3
  <2>9. QED BY <2>3, <2>4, <2>5, <2>6, <2>7, <2>8, FreshTasksInv DEF Boot
<1>2. CASE lastProcessed # NoBlock
  <2>1. UNCHANGED <<lastProcessed, startBlock, outbox, handed, lost>>
    BY <1>2 DEF Boot
  <2>2. ProgressCovered'
    BY <2>1 DEF IInv, CoverInv, ProgressCovered
  <2>3. InFlight = {}
    <3>1. up = "stopped"
      BY DEF Boot
    <3>2. QED BY <3>1, ElemsFacts DEF IInv, ProcessInv, InFlight
  <2>4. MatchesAccountedFor'
    BY <2>1, <2>3 DEF IInv, AccountInv, MatchesAccountedFor
  <2>5. ProcessInv'
    BY <1>2, <2>1 DEF Boot, ProcessInv
  <2>6. startBlock' <= lastProcessed' + 1
    BY <1>2, <2>1 DEF IInv, CoverInv
  <2>7. /\ lastProcessed' \in Nat \cup {NoBlock} /\ startBlock' \in Nat /\ lost' \subseteq Nat
        /\ up' = "running"
    BY <2>1 DEF Boot, IInv, TypeOK
  <2>8. QED BY <2>1, <2>2, <2>4, <2>5, <2>6, <2>7, FreshTasksInv DEF Boot
<1>3. QED BY <1>1, <1>2

(* Cancelling the token changes no block.                                  *)
LEMMA CancelInv == IInv /\ Cancel => IInv'
<1> SUFFICES ASSUME IInv, Cancel PROVE IInv'
  OBVIOUS
<1> USE DEF durable, channels, history, ingestor, processor, flow
<1>1. TypeOK' /\ ProcessInv'
  BY DEF IInv, TypeOK, ProcessInv, Cancel
<1>2. IngestorInv' /\ QueueInv' /\ CoverInv' /\ ConfirmedOnly' /\ AccountInv'
  BY FramedIngestor, FramedQueue, FramedCover, FramedConfirmed, FramedAccount
     DEF IInv, Cancel
<1>3. QED BY <1>1, <1>2 DEF IInv

(* An abort or crash gives up exactly the claimed blocks in flight.        *)
LEMMA VanishInv == IInv /\ Vanish => IInv'
<1> SUFFICES ASSUME IInv, Vanish PROVE IInv'
  OBVIOUS
<1>1. UNCHANGED <<head, lastProcessed, outbox, startBlock, handed>> /\ up' = "stopped"
  BY DEF Vanish, durable
<1>2. InFlight \subseteq Nat
  BY ElemsFacts DEF IInv, TypeOK, InFlight
<1>3. lost' = lost \cup {b \in InFlight : b <= lastProcessed}
  BY DEF Vanish
<1>4. lost' \subseteq Nat /\ lastProcessed' \in Nat \cup {NoBlock} /\ startBlock' \in Nat
  BY <1>1, <1>2, <1>3 DEF IInv, TypeOK
<1>5. ProgressCovered'
  BY <1>1, <1>3 DEF IInv, CoverInv, ProgressCovered
<1>6. MatchesAccountedFor'
  <2>1. \A b \in startBlock..lastProcessed : b \in InFlight => b \in lost'
    BY <1>3, <1>4 DEF IInv, TypeOK
  <2>2. QED BY <1>1, <1>3, <2>1 DEF IInv, AccountInv, MatchesAccountedFor
<1>7. ProcessInv'
  BY <1>1 DEF Vanish, FreshTasks, ProcessInv
<1>8. lastProcessed' # NoBlock => startBlock' <= lastProcessed' + 1
  BY <1>1 DEF IInv, CoverInv
<1>9. QED
  BY <1>1, <1>4, <1>5, <1>6, <1>7, <1>8, FreshTasksInv DEF Vanish

(* Every step preserves the invariant.                                     *)
LEMMA NextIInv == IInv /\ [Next]_vars => IInv'
<1> SUFFICES ASSUME IInv, [Next]_vars PROVE IInv'
  OBVIOUS
<1>1. CASE ChainStep
  BY <1>1, ChainStepInv
<1>2. CASE SupervisorStep
  BY <1>2, BootInv, CancelInv, VanishInv DEF SupervisorStep, Abort, Crash
<1>3. CASE IngestorStep
  BY <1>3, ReadStateStep, IngestorCancelledStep, ReadHeadStep, IngestErrorStep,
     FetchChunkStep, SendBlockStep, SendClosedStep DEF IngestorStep
<1>4. CASE ProcessorStep
  BY <1>4, ReceiveBlockStep, ProcessorCancelledStep, CorrelateStep, BatchFailsStep,
     DispatchStep, PersistStep, PersistFailsStep DEF ProcessorStep
<1>5. CASE FlowStep
  BY <1>5, FlowStepInv
<1>6. CASE UNCHANGED vars
  <2> USE DEF vars, shared, durable, channels, history, ingestor, processor, flow
  <2>1. TypeOK'
    BY <1>6 DEF IInv, TypeOK
  <2>2. ProcessInv' /\ IngestorInv' /\ QueueInv' /\ CoverInv' /\ ConfirmedOnly' /\ AccountInv'
    BY <1>6, FramedProcess, FramedIngestor, FramedQueue, FramedCover, FramedConfirmed,
       FramedAccount DEF IInv
  <2>3. QED BY <2>1, <2>2 DEF IInv
<1>7. QED
  BY <1>1, <1>2, <1>3, <1>4, <1>5, <1>6 DEF Next

-----------------------------------------------------------------------------
(* The strengthened invariant holds in every reachable state, for every    *)
(* chain height, chunk size, channel capacity, start block and set of      *)
(* faults.                                                                 *)
THEOREM Inductive == Spec => []IInv
<1>1. Init => IInv
  BY InitIInv
<1>2. IInv /\ [Next]_vars => IInv'
  BY NextIInv
<1>3. QED
  BY <1>1, <1>2, PTL DEF Spec

(* Every variable keeps its type and no channel exceeds its capacity.      *)
THEOREM TypeCorrect == Spec => []TypeOK
<1>1. IInv => TypeOK
  BY DEF IInv
<1>2. QED
  BY <1>1, Inductive, PTL

(* ingest_blocks only lets confirmed blocks into the pipeline.             *)
THEOREM OnlyConfirmedBlocks == Spec => []ConfirmedOnly
<1>1. IInv => ConfirmedOnly
  BY DEF IInv
<1>2. QED
  BY <1>1, Inductive, PTL

(* last_processed_block never claims a block that was neither handed to    *)
(* the filtering engine nor in a failed batch, through any stops, crashes  *)
(* and restarts.                                                           *)
THEOREM ProgressIsCovered == Spec => []ProgressCovered
<1>1. IInv => ProgressCovered
  BY DEF IInv, CoverInv
<1>2. QED
  BY <1>1, Inductive, PTL

(* A match on a block below last_processed_block is only lost through a    *)
(* failed batch, a filter panic, a failed enqueue, an abort or a crash.    *)
THEOREM MatchesAreAccountedFor == Spec => []MatchesAccountedFor
<1>1. IInv => MatchesAccountedFor
  BY DEF IInv, AccountInv
<1>2. QED
  BY <1>1, Inductive, PTL

-----------------------------------------------------------------------------
(* Order of the hand-off and the refinement.                               *)

(* Only Dispatch hands a block over, and it hands over BatLo: above every  *)
(* block handed over or persisted before, with only given-up blocks        *)
(* skipped.                                                                *)
LEMMA NextInOrder == IInv /\ [Next]_vars => InOrder
<1> SUFFICES ASSUME IInv, [Next]_vars, lastHanded' \notin {NoBlock, lastHanded}
             PROVE  /\ lastHanded' > Previous
                    /\ (Previous + 1)..(lastHanded' - 1) \subseteq lost
  BY DEF InOrder
<1>1. Dispatch
  <2>1. CASE ChainStep
    BY <2>1 DEF ChainStep, processor
  <2>2. CASE SupervisorStep
    BY <2>2 DEF SupervisorStep, Boot, Cancel, Abort, Crash, Vanish, FreshTasks, processor
  <2>3. CASE IngestorStep
    BY <2>3 DEF IngestorStep, processor
  <2>4. CASE ProcessorStep
    BY <2>4 DEF ProcessorStep, ReceiveBlock, ProcessorCancelled, Correlate, BatchFails,
                Persist, PersistFails
  <2>5. CASE FlowStep
    BY <2>5 DEF FlowStep, MatchStep, CommitStep, processor
  <2>6. CASE UNCHANGED vars
    BY <2>6 DEF vars, processor
  <2>7. QED BY <2>1, <2>2, <2>3, <2>4, <2>5, <2>6 DEF Next
<1>2. /\ batch \in Seq(Nat) /\ batch # <<>> /\ Consec(batch, BatLo) /\ nextBlock # 0
  BY <1>1 DEF Dispatch, IInv, TypeOK, QueueInv
<1>3. lastHanded' = BatLo
  BY <1>1, <1>2, Positions, ConsecTail DEF IInv, Dispatch
<1>4. /\ lastProcessed < BatLo /\ lastHanded < BatLo
      /\ (Previous + 1)..(BatLo - 1) \subseteq lost
  BY <1>2 DEF IInv, CoverInv
<1>5. Previous < BatLo
  BY <1>4 DEF Previous
<1>6. BatLo \in Int /\ Previous \in Int
  BY Positions DEF IInv, TypeOK, Previous, NoBlock
<1>7. QED BY <1>3, <1>4, <1>5, <1>6

(* The filtering engine sees the blocks in ascending order, without gaps   *)
(* other than given-up blocks, in every process and across restarts.       *)
THEOREM HandsOffInOrder == Spec => HandOffInOrder
<1>1. IInv /\ [Next]_vars => [InOrder]_vars
  BY NextInOrder
<1>2. QED BY <1>1, Inductive, PTL DEF Spec, HandOffInOrder

(* An empty database maps to the initial checkpoint.                       *)
LEMMA InitImplements == Init => Abstract!Init
  BY DEF Init, Abstract!Init, NoBlock

(* A first boot is Start, a successful write is Advance, and every other   *)
(* step settles blocks or leaves the checkpoint alone.                     *)
LEMMA NextImplements ==
    IInv /\ [Next]_vars => [Abstract!Next]_<<lastProcessed, startBlock, handed \cup lost>>
<1> SUFFICES ASSUME IInv, [Next]_vars
             PROVE  Abstract!Next \/ UNCHANGED <<lastProcessed, startBlock, handed \cup lost>>
  OBVIOUS
<1> USE DEF shared, durable, history
<1>1. ASSUME UNCHANGED <<lastProcessed, startBlock>>, handed \cup lost \subseteq handed' \cup lost'
      PROVE  Abstract!Next
  BY <1>1 DEF Abstract!Next, Abstract!Settle
<1>2. CASE ChainStep
  BY <1>2 DEF ChainStep, NewBlock
<1>3. CASE Boot
  <2>1. CASE lastProcessed = NoBlock
    <3>1. lastProcessed' \in Nat
      BY <1>3, BootInv DEF IInv, ProcessInv, TypeOK, Boot
    <3>2. lastProcessed = -1 /\ startBlock' = lastProcessed' + 1
          /\ handed' = handed /\ lost' = lost
      BY <1>3, <2>1 DEF Boot, NoBlock
    <3>3. QED BY <3>1, <3>2 DEF Abstract!Next, Abstract!Start
  <2>2. CASE lastProcessed # NoBlock
    BY <1>3, <2>2 DEF Boot
  <2>3. QED BY <2>1, <2>2
<1>4. CASE Cancel
  BY <1>4 DEF Cancel
<1>5. CASE Abort \/ Crash
  BY <1>1, <1>5 DEF Abort, Crash, Vanish
<1>6. CASE IngestorStep
  BY <1>6 DEF IngestorStep, ReadState, IngestorCancelled, ReadHead, IngestError,
              FetchChunk, SendBlock, SendClosed
<1>7. CASE Persist
  <2>1. /\ lastHanded = BatLo - 1 /\ lastProcessed < lastHanded /\ nextBlock # 0
        /\ lastProcessed' = lastHanded
    BY <1>7 DEF Persist, IInv, CoverInv, QueueInv
  <2>2. lastProcessed \in Nat /\ lastHanded \in Nat /\ startBlock \in Nat
    <3>1. lastProcessed # NoBlock
      BY <1>7 DEF Persist, IInv, ProcessInv
    <3>2. QED BY <2>1, <3>1 DEF IInv, TypeOK, NoBlock
  <2>3. startBlock <= lastProcessed + 1 /\ startBlock..lastHanded \subseteq handed \cup lost
    BY <2>1, <2>2 DEF IInv, CoverInv, NoBlock
  <2>4. (lastProcessed + 1)..lastHanded \subseteq startBlock..lastHanded
    BY <2>2, <2>3
  <2>5. UNCHANGED <<startBlock, handed, lost>>
    BY <1>7 DEF Persist
  <2>6. Abstract!Advance
    BY <2>1, <2>2, <2>3, <2>4, <2>5 DEF Abstract!Advance
  <2>7. QED BY <2>6 DEF Abstract!Next
<1>8. CASE ProcessorStep /\ ~Persist
  BY <1>1, <1>8 DEF ProcessorStep, ReceiveBlock, ProcessorCancelled, Correlate, BatchFails,
                    Dispatch, PersistFails
<1>9. CASE FlowStep
  BY <1>1, <1>9 DEF FlowStep, MatchStep, CommitStep, FilterReceive, FilterSend, FilterPanics, AlertReceive,
                    Enqueue, EnqueueFails
<1>10. CASE UNCHANGED vars
  BY <1>10 DEF vars
<1>11. QED
  BY <1>2, <1>3, <1>4, <1>5, <1>6, <1>7, <1>8, <1>9, <1>10
     DEF Next, SupervisorStep, ProcessorStep

(* The whole pipeline, with its restarts and faults, implements a          *)
(* checkpoint that only moves forward over settled blocks.                 *)
THEOREM RefinesCheckpoint == Spec => ImplementsCheckpoint
<1>1. QED
  BY InitImplements, NextImplements, Inductive, PTL
     DEF Spec, ImplementsCheckpoint, Abstract!Spec

-----------------------------------------------------------------------------
(* The pipeline with the outbox table.                                     *)

(* With the table added, the pipeline takes its own steps.                 *)
LEMMA DeliveryNextIsNext == [DeliveryNext]_allVars => [Next]_vars
BY DEF DeliveryNext, Commit, Deliver, End, Undelivering, allVars, Next, FlowStep,
       SupervisorStep

(* Adding the outbox table changes nothing in the pipeline: all that is    *)
(* proved of its specification holds of the composition.                   *)
THEOREM DeliveryIsPipeline == DeliverySpec => Spec
BY DeliveryNextIsNext, PTL DEF DeliverySpec, DeliveryInit, Spec

(* A block joins a channel once, unless it may be repeated.                *)
LEMMA OnceAppend ==
    ASSUME NEW X, NEW s \in Seq(Nat), NEW e \in Nat, OnceIn(s, X),
           e \notin Elems(s) \/ e \in X
    PROVE  OnceIn(Append(s, e), X)
<1> DEFINE t == Append(s, e)
           n == Len(s)
<1>1. /\ n \in Nat /\ Len(t) = n + 1 /\ t[n + 1] = e
      /\ \A i \in 1..n : t[i] = s[i]
      /\ \A i \in 1..(n + 1) : i \in 1..n \/ i = n + 1
  BY AppendFacts
<1>2. \A i \in 1..n : s[i] = e => e \in X
  BY DEF Elems
<1>3. \A i, j \in 1..n : s[i] = s[j] => i = j \/ s[i] \in X
  BY DEF OnceIn
<1> HIDE DEF t, n
<1>4. \A i, j \in 1..(n + 1) : t[i] = t[j] => i = j \/ t[i] \in X
  BY <1>1, <1>2, <1>3
<1>5. QED BY <1>1, <1>4 DEF OnceIn, t

(* The head of a channel is not behind it a second time.                   *)
LEMMA OnceTail ==
    ASSUME NEW X, NEW s \in Seq(Nat), s # <<>>, OnceIn(s, X)
    PROVE  OnceIn(Tail(s), X) /\ (Head(s) \in Elems(Tail(s)) => Head(s) \in X)
<1> DEFINE t == Tail(s)
           n == Len(s)
<1>1. /\ n \in Nat \ {0} /\ Len(t) = n - 1 /\ Head(s) = s[1] /\ 1 \in 1..n
      /\ \A i \in 1..(n - 1) : t[i] = s[i + 1] /\ i + 1 \in 1..n /\ i + 1 # 1
  BY TailFacts
<1>2. \A i, j \in 1..n : s[i] = s[j] => i = j \/ s[i] \in X
  BY DEF OnceIn
<1> HIDE DEF t, n
<1>3. \A i, j \in 1..(n - 1) : t[i] = t[j] => i = j \/ t[i] \in X
  <2>1. \A i, j \in 1..(n - 1) : i + 1 = j + 1 => i = j
    BY <1>1
  <2>2. QED BY <1>1, <1>2, <2>1
<1>4. \A i \in 1..(n - 1) : t[i] = s[1] => s[1] \in X
  BY <1>1, <1>2
<1>5. QED BY <1>1, <1>3, <1>4 DEF OnceIn, Elems, t

(* Blocks handed over stay below what is still to be dispatched.           *)
LEMMA HandedKept ==
    ASSUME IInv, HandedInv, IInv', handed' = handed, again \subseteq again',
           Ahead <= Ahead'
    PROVE  HandedInv'
<1>1. Ahead \in Int /\ Ahead' \in Int /\ handed \subseteq Int
  <2>1. nextBlock \in Nat /\ lastProcessed \in Int /\ BatLo \in Int /\ handed \subseteq Int
    <3>1. TypeOK
      BY DEF IInv
    <3>2. nextBlock \in Nat /\ lastProcessed \in Int /\ handed \subseteq Int
      BY <3>1 DEF TypeOK
    <3>3. QED BY <3>1, <3>2, Positions
  <2>2. nextBlock' \in Nat /\ lastProcessed' \in Int /\ BatLo' \in Int
    <3>1. TypeOK'
      BY DEF IInv
    <3>2. /\ raw' \in Seq(Nat) /\ buffer' \in Seq(Nat) /\ batch' \in Seq(Nat)
          /\ nextBlock' \in Nat /\ lastProcessed' \in Int
      BY <3>1 DEF TypeOK
    <3>3. QED BY <3>2 DEF BatLo, BufLo, RawLo
  <2>3. QED BY <2>1, <2>2 DEF Ahead
<1>2. \A b \in handed : b < Ahead => b < Ahead'
  BY <1>1
<1>3. QED BY <1>2 DEF HandedInv

(* A step outside the match tasks and the table moves no payload.          *)
LEMMA PlacesKept ==
    ASSUME PlacesInv, UNCHANGED <<correlated, matches, flow, rows, delivered, again>>,
           handed \subseteq handed'
    PROVE  PlacesInv'
<1>1. /\ InFlight' = InFlight /\ OnceIn(correlated, again)' = OnceIn(correlated, again)
      /\ OnceIn(matches, again)' = OnceIn(matches, again)
      /\ Elems(correlated)' = Elems(correlated) /\ Elems(matches)' = Elems(matches)
      /\ Held(evaluating)' = Held(evaluating) /\ Held(alerting)' = Held(alerting)
  BY DEF InFlight, flow, Elems, OnceIn, Held
<1>2. InFlight' \cup rows' \cup delivered' \subseteq handed'
  BY <1>1 DEF PlacesInv
<1>3. Exclusive(Elems(correlated), Held(evaluating), Elems(matches), Held(alerting),
                rows, delivered, again)'
  BY <1>1 DEF PlacesInv, Exclusive, Apart
<1>4. QED BY <1>1, <1>2, <1>3 DEF PlacesInv

(* Only a dispatch hands over a block: the ingestor and the rest of the    *)
(* processor only move the place of the next one up.                       *)
LEMMA IngestorAhead == IInv /\ IngestorStep => Ahead <= Ahead'
<1> SUFFICES ASSUME IInv, IngestorStep PROVE Ahead <= Ahead'
  OBVIOUS
<1> USE DEF shared, durable, channels, history, processor, flow
<1>1. TypeOK /\ nextBlock \in Nat /\ lastProcessed \in Int
  BY DEF IInv, TypeOK
<1>2. BatLo \in Int
  BY <1>1, Positions
<1>3. CASE SendBlock(ppc = "done")
  <2>1. /\ chunk \in Seq(Nat) /\ chunk # <<>> /\ Consec(chunk, Resume) /\ raw \in Seq(Nat)
        /\ lastProcessed \in Nat /\ Resume \in Nat
    BY <1>3 DEF SendBlock, IInv, TypeOK, ProcessInv, IngestorInv, Resume
  <2>2. Head(chunk) = Resume
    BY <2>1, ConsecTail
  <2>3. /\ nextBlock' = Resume + 1 /\ lastProcessed' = lastProcessed
        /\ raw' = Append(raw, Resume)
        /\ buffer' = buffer /\ batch' = batch
    BY <1>3, <2>2 DEF SendBlock, IngestorStep
  <2>4. Len(raw') = Len(raw) + 1
    BY <2>1, <2>3, AppendFacts
  <2>5. CASE nextBlock = 0
    <3>1. raw = <<>> /\ buffer = <<>> /\ batch = <<>> /\ Resume = lastProcessed + 1
      BY <2>5 DEF IInv, QueueInv, Resume
    <3>2. Len(raw') = 1 /\ Len(buffer') = 0 /\ Len(batch') = 0
      BY <2>3, <2>4, <3>1, EmptyFacts
    <3>3. BatLo' = lastProcessed + 1
      BY <2>1, <2>3, <3>1, <3>2 DEF BatLo, BufLo, RawLo
    <3>4. QED BY <2>1, <2>3, <2>5, <3>3 DEF Ahead
  <2>6. CASE nextBlock # 0
    <3>1. nextBlock' = nextBlock + 1 /\ nextBlock' # 0
      BY <1>1, <2>3, <2>6 DEF Resume
    <3>2. BatLo' = BatLo
      BY <1>1, <2>3, <2>4, <3>1, Positions DEF BatLo, BufLo, RawLo
    <3>3. QED BY <1>2, <2>6, <3>1, <3>2 DEF Ahead
  <2>7. QED BY <2>5, <2>6
<1>4. CASE ~SendBlock(ppc = "done")
  <2>1. /\ nextBlock' = nextBlock /\ lastProcessed' = lastProcessed
        /\ raw' = raw /\ buffer' = buffer /\ batch' = batch
    BY <1>4 DEF IngestorStep, ReadState, IngestorCancelled, ReadHead, IngestError, FetchChunk,
                SendClosed
  <2>2. Ahead' = Ahead
    BY <2>1 DEF Ahead, BatLo, BufLo, RawLo
  <2>3. Ahead \in Int
    BY <1>1, <1>2 DEF Ahead
  <2>4. QED BY <2>2, <2>3
<1>5. QED BY <1>3, <1>4

(* The processor's steps other than a dispatch.                            *)
LEMMA ProcessorAhead == IInv /\ ProcessorStep /\ ~Dispatch => Ahead <= Ahead'
<1> SUFFICES ASSUME IInv, ProcessorStep, ~Dispatch PROVE Ahead <= Ahead'
  OBVIOUS
<1> USE DEF shared, durable, channels, history, ingestor, flow
<1>1. TypeOK /\ nextBlock \in Nat /\ lastProcessed \in Int /\ nextBlock' = nextBlock
  BY DEF IInv, TypeOK, ProcessorStep
<1>2. /\ BatLo \in Int /\ Len(raw) \in Nat /\ Len(buffer) \in Nat /\ Len(batch) \in Nat
      /\ BatLo = nextBlock - Len(raw) - Len(buffer) - Len(batch)
      /\ BatLo' = nextBlock' - Len(raw') - Len(buffer') - Len(batch')
  BY <1>1, Positions DEF BatLo, BufLo, RawLo
<1>3. \/ lastProcessed' = lastProcessed /\ BatLo <= BatLo'
      \/ nextBlock # 0 /\ BatLo' = BatLo
  <2>1. CASE ReceiveBlock
    <3>1. /\ batch = <<>> /\ raw # <<>> /\ raw \in Seq(Nat) /\ buffer \in Seq(Nat)
          /\ raw' = Tail(raw) /\ lastProcessed' = lastProcessed
          /\ \/ buffer' = <<>> /\ batch' = Append(buffer, Head(raw))
             \/ buffer' = Append(buffer, Head(raw)) /\ batch' = batch
      BY <1>1, <2>1 DEF ReceiveBlock, TypeOK
    <3>2. Head(raw) \in Nat /\ Len(raw') = Len(raw) - 1
      BY <3>1, TailFacts
    <3>3. Len(Append(buffer, Head(raw))) = Len(buffer) + 1
      BY <3>1, <3>2, AppendFacts
    <3>4. Len(batch) = 0 /\ Len(buffer') + Len(batch') = Len(buffer) + 1
      BY <1>2, <3>1, <3>3, EmptyFacts
    <3>5. Len(buffer') \in Nat /\ Len(batch') \in Nat
      BY <1>2, <3>1, <3>3, EmptyFacts
    <3>6. BatLo' = BatLo
      BY <1>1, <1>2, <3>2, <3>4, <3>5
    <3>7. QED BY <1>2, <3>1, <3>6
  <2>2. CASE ProcessorCancelled
    <3>1. /\ batch = <<>> /\ raw' = raw /\ lastProcessed' = lastProcessed
          /\ \/ buffer = <<>> /\ buffer' = buffer /\ batch' = batch
             \/ buffer' = <<>> /\ batch' = buffer
      BY <1>1, <2>2 DEF ProcessorCancelled, TypeOK
    <3>2. Len(batch) = 0 /\ Len(buffer') + Len(batch') = Len(buffer) /\ Len(raw') = Len(raw)
      BY <1>2, <3>1, EmptyFacts
    <3>3. Len(buffer') \in Nat /\ Len(batch') \in Nat
      BY <1>2, <3>1, EmptyFacts
    <3>4. BatLo' = BatLo
      BY <1>1, <1>2, <3>2, <3>3
    <3>5. QED BY <1>2, <3>1, <3>4
  <2>3. CASE BatchFails
    <3>1. /\ raw' = raw /\ buffer' = buffer /\ batch' = <<>> /\ lastProcessed' = lastProcessed
      BY <2>3 DEF BatchFails
    <3>2. Len(batch') = 0
      BY <3>1, EmptyFacts
    <3>3. BatLo <= BatLo'
      BY <1>1, <1>2, <3>1, <3>2
    <3>4. QED BY <3>1, <3>3
  <2>4. CASE Correlate \/ PersistFails
    BY <1>1, <1>2, <2>4 DEF Correlate, PersistFails
  <2>5. CASE Persist
    <3>1. nextBlock # 0
      BY <2>5 DEF Persist, IInv, QueueInv
    <3>2. QED BY <1>1, <1>2, <2>5, <3>1 DEF Persist
  <2>6. QED BY <2>1, <2>2, <2>3, <2>4, <2>5 DEF ProcessorStep
<1>4. QED BY <1>1, <1>2, <1>3 DEF Ahead

(* The blocks the places hold, and that they are block numbers.            *)
LEMMA PlaceFacts ==
    ASSUME IInv, PlacesInv
    PROVE  /\ correlated \in Seq(Nat) /\ matches \in Seq(Nat)
           /\ Elems(correlated) \subseteq Nat /\ Elems(matches) \subseteq Nat
           /\ evaluating \in Nat \cup {NoBlock} /\ alerting \in Nat \cup {NoBlock}
           /\ InFlight = Elems(correlated) \cup Elems(matches)
                             \cup Held(evaluating) \cup Held(alerting)
<1>1. /\ correlated \in Seq(Nat) /\ matches \in Seq(Nat)
      /\ evaluating \in Nat \cup {NoBlock} /\ alerting \in Nat \cup {NoBlock}
  BY DEF IInv, TypeOK
<1>2. Elems(correlated) \subseteq Nat /\ Elems(matches) \subseteq Nat
  BY <1>1, ElemsFacts
<1>3. NoBlock \notin Nat
  OBVIOUS
<1>4. QED BY <1>1, <1>2, <1>3 DEF InFlight, Held

(* A dispatched block is new to every place, unless it may be repeated.    *)
LEMMA DispatchRepeats ==
    ASSUME IInv, RepeatInv, IInv', Dispatch, UNCHANGED <<ingestor, flow>>,
           UNCHANGED delivery
    PROVE  RepeatInv'
<1> USE DEF durable, channels, history, ingestor, flow, delivery
<1>1. /\ batch # <<>> /\ batch \in Seq(Nat) /\ Consec(batch, BatLo)
      /\ nextBlock # 0 /\ nextBlock' = nextBlock /\ TypeOK
  BY DEF Dispatch, IInv, TypeOK, QueueInv
<1>2. /\ Head(batch) = BatLo /\ BatLo \in Nat /\ Len(Tail(batch)) = Len(batch) - 1
  BY <1>1, Positions, ConsecTail, TailFacts
<1>3. /\ batch' = Tail(batch) /\ handed' = handed \cup {BatLo}
      /\ correlated' = Append(correlated, BatLo) /\ raw' = raw /\ buffer' = buffer
      /\ matches' = matches /\ evaluating' = evaluating /\ alerting' = alerting
  BY <1>2 DEF Dispatch
<1>4. BatLo' = BatLo + 1
  BY <1>1, <1>2, <1>3, Positions DEF RawLo, BufLo, BatLo
<1>5. HandedInv'
  <2>1. Ahead = BatLo /\ Ahead' = BatLo + 1
    BY <1>1, <1>4 DEF Ahead
  <2>2. \A b \in handed : b < BatLo \/ b \in again
    BY <2>1 DEF RepeatInv, HandedInv
  <2>3. handed \subseteq Int
    BY <1>1 DEF TypeOK
  <2>4. \A b \in handed' : b < BatLo + 1 \/ b \in again
    BY <1>2, <1>3, <2>2, <2>3
  <2>5. QED BY <2>1, <2>4 DEF HandedInv
<1>6. BatLo \in again \/ BatLo \notin handed
  <2>1. Ahead = BatLo /\ ~(BatLo < BatLo)
    BY <1>1, <1>2 DEF Ahead
  <2>2. QED BY <2>1 DEF RepeatInv, HandedInv
<1>7. /\ correlated \in Seq(Nat) /\ InFlight \cup rows \cup delivered \subseteq handed
      /\ InFlight = Elems(correlated) \cup Elems(matches)
                        \cup Held(evaluating) \cup Held(alerting)
  BY PlaceFacts DEF RepeatInv, PlacesInv
<1>8. Elems(correlated') = Elems(correlated) \cup {BatLo}
  BY <1>2, <1>3, <1>7, AppendFacts
<1>9. OnceIn(correlated', again) /\ OnceIn(matches', again)
  <2>1. BatLo \notin Elems(correlated) \/ BatLo \in again
    BY <1>6, <1>7
  <2>2. QED BY <1>2, <1>3, <1>7, <2>1, OnceAppend DEF RepeatInv, PlacesInv
<1>10. InFlight' = InFlight \cup {BatLo}
  <2>1. Elems(matches') = Elems(matches) /\ BatLo # NoBlock
    BY <1>2, <1>3
  <2>2. QED BY <1>3, <1>8, <2>1 DEF InFlight
<1>11. Exclusive(Elems(correlated'), Held(evaluating), Elems(matches), Held(alerting),
                 rows, delivered, again)
  BY <1>6, <1>7, <1>8 DEF RepeatInv, PlacesInv, Exclusive, Apart
<1>12. PlacesInv'
  BY <1>3, <1>7, <1>9, <1>10, <1>11 DEF PlacesInv
<1>13. QED BY <1>5, <1>12 DEF RepeatInv, RepeatsExplained

(* The end of a process empties the tasks and the channels, and what is    *)
(* not covered by the row may be repeated from now on.                     *)
LEMMA EndRepeats == IInv /\ RepeatInv /\ IInv' /\ End => RepeatInv'
<1> SUFFICES ASSUME IInv, RepeatInv, IInv', End PROVE RepeatInv'
  OBVIOUS
<1> USE DEF durable
<1>1. /\ handed' = handed /\ lastProcessed' = lastProcessed /\ nextBlock' = 0
      /\ correlated' = <<>> /\ matches' = <<>> /\ evaluating' = NoBlock /\ alerting' = NoBlock
      /\ again' = again \cup {b \in handed : b > lastProcessed}
      /\ rows' = rows /\ delivered' = delivered /\ twice' = twice
  BY DEF End, Abort, Crash, Vanish, FreshTasks
<1>2. handed \subseteq Int /\ lastProcessed \in Int
  BY DEF IInv, TypeOK
<1>3. HandedInv'
  <2>1. Ahead' = lastProcessed + 1
    BY <1>1 DEF Ahead
  <2>2. \A b \in handed : b < lastProcessed + 1 \/ b > lastProcessed
    BY <1>2
  <2>3. QED BY <1>1, <2>1, <2>2 DEF HandedInv
<1>4. /\ Elems(correlated') = {} /\ Elems(matches') = {}
      /\ Held(evaluating') = {} /\ Held(alerting') = {} /\ InFlight' = {}
  BY <1>1, ElemsFacts DEF Held, InFlight
<1>5. OnceIn(correlated', again') /\ OnceIn(matches', again')
  BY <1>1, EmptyFacts DEF OnceIn
<1>6. Apart(rows, delivered, again')
  BY <1>1 DEF RepeatInv, PlacesInv, Exclusive, Apart
<1>7. Exclusive(Elems(correlated'), Held(evaluating'), Elems(matches'), Held(alerting'),
                rows', delivered', again')
  BY <1>1, <1>4, <1>6 DEF Exclusive, Apart
<1>8. PlacesInv'
  BY <1>1, <1>4, <1>5, <1>7 DEF RepeatInv, PlacesInv
<1>9. QED BY <1>1, <1>3, <1>8 DEF RepeatInv, RepeatsExplained

(* A boot starts with empty channels, at the row.                          *)
LEMMA BootRepeats ==
    ASSUME IInv, RepeatInv, IInv', Boot, UNCHANGED delivery PROVE RepeatInv'
<1> USE DEF delivery
<1>1. /\ nextBlock = 0 /\ correlated = <<>> /\ matches = <<>>
      /\ evaluating = NoBlock /\ alerting = NoBlock
  BY DEF Boot, IInv, ProcessInv
<1>2. /\ nextBlock' = 0 /\ correlated' = <<>> /\ matches' = <<>>
      /\ evaluating' = NoBlock /\ alerting' = NoBlock /\ handed' = handed
      /\ lastProcessed = NoBlock \/ lastProcessed' = lastProcessed
  BY DEF Boot, FreshTasks
<1>3. lastProcessed' \in Nat \cup {NoBlock} /\ lastProcessed \in Int
  BY DEF IInv, TypeOK
<1>4. Ahead <= Ahead'
  <2>1. Ahead = lastProcessed + 1 /\ Ahead' = lastProcessed' + 1
    BY <1>1, <1>2 DEF Ahead
  <2>2. lastProcessed + 1 <= lastProcessed' + 1
    <3>1. CASE lastProcessed = NoBlock
      <4>1. 0 <= lastProcessed' + 1
        <5>1. \A n \in Nat \cup {NoBlock} : 0 <= n + 1
          OBVIOUS
        <5>2. QED BY <1>3, <5>1
      <4>2. lastProcessed + 1 = 0
        BY <3>1
      <4>3. QED BY <4>1, <4>2
    <3>2. CASE lastProcessed' = lastProcessed
      BY <1>3, <3>2
    <3>3. QED BY <1>2, <3>1, <3>2
  <2>3. QED BY <2>1, <2>2
<1>5. HandedInv'
  BY <1>2, <1>4, HandedKept DEF RepeatInv
<1>6. PlacesInv'
  BY <1>1, <1>2, PlacesKept DEF RepeatInv, flow
<1>7. QED BY <1>5, <1>6 DEF RepeatInv, RepeatsExplained

(* The chain, a cancellation, the ingestor and the rest of the processor   *)
(* hand nothing over and move no payload.                                  *)
LEMMA QuietRepeats ==
    ASSUME IInv, RepeatInv, IInv', UNCHANGED delivery,
           ChainStep \/ Cancel \/ IngestorStep \/ (ProcessorStep /\ ~Dispatch)
    PROVE  RepeatInv'
<1> USE DEF shared, durable, channels, history, delivery
<1>1. /\ handed' = handed /\ correlated' = correlated /\ matches' = matches
      /\ UNCHANGED flow
  <2>1. CASE ChainStep \/ Cancel
    BY <2>1 DEF ChainStep, NewBlock, Cancel
  <2>2. CASE IngestorStep
    BY <2>2 DEF IngestorStep, ReadState, IngestorCancelled, ReadHead, IngestError, FetchChunk,
                SendBlock, SendClosed
  <2>3. CASE ProcessorStep /\ ~Dispatch
    BY <2>3 DEF ProcessorStep, ReceiveBlock, ProcessorCancelled, Correlate, BatchFails,
                Persist, PersistFails
  <2>4. QED BY <2>1, <2>2, <2>3
<1>2. Ahead <= Ahead'
  <2>1. CASE ChainStep \/ Cancel
    <3>1. /\ nextBlock' = nextBlock /\ lastProcessed' = lastProcessed /\ raw' = raw
          /\ buffer' = buffer /\ batch' = batch
      BY <2>1 DEF ChainStep, NewBlock, Cancel, ingestor, processor
    <3>2. Ahead' = Ahead
      BY <3>1 DEF Ahead, BatLo, BufLo, RawLo
    <3>3. Ahead \in Int
      <4>1. TypeOK
        BY DEF IInv
      <4>2. BatLo \in Int
        BY <4>1, Positions
      <4>3. lastProcessed + 1 \in Int
        BY <4>1 DEF TypeOK
      <4>4. QED BY <4>2, <4>3 DEF Ahead
    <3>4. QED BY <3>2, <3>3
  <2>2. QED BY <2>1, IngestorAhead, ProcessorAhead
<1>3. HandedInv'
  BY <1>1, <1>2, HandedKept DEF RepeatInv
<1>4. PlacesInv'
  BY <1>1, PlacesKept DEF RepeatInv
<1>5. QED BY <1>3, <1>4 DEF RepeatInv, RepeatsExplained

(* A step of the match tasks leaves what is still to be dispatched alone.  *)
LEMMA FlowHanded ==
    ASSUME IInv, HandedInv, IInv', FlowStep, again' = again
    PROVE  HandedInv' /\ handed' = handed
<1> USE DEF durable, channels, history, ingestor, processor
<1>1. /\ handed' = handed /\ nextBlock' = nextBlock /\ lastProcessed' = lastProcessed
      /\ raw' = raw /\ buffer' = buffer /\ batch' = batch
  BY DEF FlowStep, MatchStep, CommitStep, FilterReceive, FilterSend, FilterPanics,
         AlertReceive, Enqueue, EnqueueFails
<1>2. Ahead' = Ahead
  BY <1>1 DEF Ahead, BatLo, BufLo, RawLo
<1>3. Ahead \in Int
  <2>1. TypeOK
    BY DEF IInv
  <2>2. BatLo \in Int
    BY <2>1, Positions
  <2>3. lastProcessed + 1 \in Int
    BY <2>1 DEF TypeOK
  <2>4. QED BY <2>2, <2>3 DEF Ahead
<1>4. Ahead <= Ahead'
  BY <1>2, <1>3
<1>5. QED BY <1>1, <1>4, HandedKept

(* What the places hold before a step ...                                  *)
LEMMA PlacesNow ==
    ASSUME IInv, PlacesInv
    PROVE  /\ correlated \in Seq(Nat) /\ matches \in Seq(Nat)
           /\ Elems(correlated) \cup Elems(matches) \cup Held(evaluating) \cup Held(alerting)
                  \cup rows \cup delivered \subseteq handed
           /\ OnceIn(correlated, again) /\ OnceIn(matches, again)
           /\ Exclusive(Elems(correlated), Held(evaluating), Elems(matches), Held(alerting),
                        rows, delivered, again)
BY PlaceFacts DEF PlacesInv

(* ... and what suffices for the places after it.                          *)
LEMMA PlacesNext ==
    ASSUME Elems(correlated') \cup Elems(matches') \cup Held(evaluating') \cup Held(alerting')
               \cup rows' \cup delivered' \subseteq handed',
           OnceIn(correlated', again'), OnceIn(matches', again'),
           Exclusive(Elems(correlated'), Held(evaluating'), Elems(matches'), Held(alerting'),
                     rows', delivered', again')
    PROVE  PlacesInv'
BY DEF PlacesInv, InFlight, Held

(* A match task takes a block from its channel, or gives it up.            *)
LEMMA MatchRepeats ==
    ASSUME IInv, RepeatInv, IInv', MatchStep, UNCHANGED delivery PROVE RepeatInv'
<1> USE DEF durable, channels, history, delivery
<1>1. /\ correlated \in Seq(Nat) /\ matches \in Seq(Nat)
      /\ Elems(correlated) \cup Elems(matches) \cup Held(evaluating) \cup Held(alerting)
             \cup rows \cup delivered \subseteq handed
      /\ OnceIn(correlated, again) /\ OnceIn(matches, again)
      /\ Exclusive(Elems(correlated), Held(evaluating), Elems(matches), Held(alerting),
                   rows, delivered, again)
  BY PlacesNow DEF RepeatInv
<1>2. HandedInv' /\ handed' = handed /\ rows' = rows /\ delivered' = delivered /\ again' = again
  BY FlowHanded DEF RepeatInv, FlowStep
<1>3. CASE FilterReceive
  <2> DEFINE h == Head(correlated)
             t == Tail(correlated)
  <2>1. /\ Elems(correlated) = {h} \cup Elems(t) /\ h \in Nat /\ OnceIn(t, again)
        /\ h \in Elems(t) => h \in again
    BY <1>1, <1>3, TailFacts, OnceTail DEF FilterReceive
  <2>2. /\ correlated' = t /\ evaluating' = h /\ matches' = matches /\ alerting' = alerting
        /\ Held(evaluating) = {}
    BY <1>3 DEF FilterReceive, Held
  <2>3. Held(h) = {h}
    BY <2>1 DEF Held
  <2> HIDE DEF h, t
  <2>4. Elems(t) \cup Elems(matches) \cup Held(h) \cup Held(alerting) \cup rows \cup delivered
            \subseteq handed
    BY <1>1, <2>1, <2>3
  <2>5. Exclusive(Elems(t), Held(h), Elems(matches), Held(alerting), rows, delivered, again)
    BY <1>1, <2>1, <2>3 DEF Exclusive, Apart
  <2>6. PlacesInv'
    BY <1>1, <1>2, <2>1, <2>2, <2>4, <2>5, PlacesNext
  <2>7. QED BY <1>2, <2>6 DEF RepeatInv, RepeatsExplained
<1>4. CASE AlertReceive
  <2> DEFINE h == Head(matches)
             t == Tail(matches)
  <2>1. /\ Elems(matches) = {h} \cup Elems(t) /\ h \in Nat /\ OnceIn(t, again)
        /\ h \in Elems(t) => h \in again
    BY <1>1, <1>4, TailFacts, OnceTail DEF AlertReceive
  <2>2. /\ matches' = t /\ alerting' = h /\ correlated' = correlated /\ evaluating' = evaluating
        /\ Held(alerting) = {}
    BY <1>4 DEF AlertReceive, Held
  <2>3. Held(h) = {h}
    BY <2>1 DEF Held
  <2> HIDE DEF h, t
  <2>4. Elems(correlated) \cup Elems(t) \cup Held(evaluating) \cup Held(h) \cup rows \cup delivered
            \subseteq handed
    BY <1>1, <2>1, <2>3
  <2>5. Exclusive(Elems(correlated), Held(evaluating), Elems(t), Held(h), rows, delivered, again)
    BY <1>1, <2>1, <2>3 DEF Exclusive, Apart
  <2>6. PlacesInv'
    BY <1>1, <1>2, <2>1, <2>2, <2>4, <2>5, PlacesNext
  <2>7. QED BY <1>2, <2>6 DEF RepeatInv, RepeatsExplained
<1>5. CASE FilterSend /\ evaluating \in MatchBlocks
  <2> DEFINE m == Append(matches, evaluating)
  <2>0. evaluating # NoBlock /\ evaluating \in Nat \cup {NoBlock}
    BY <1>5 DEF FilterSend, IInv, TypeOK
  <2>1. evaluating \in Nat /\ Held(evaluating) = {evaluating}
    BY <2>0 DEF Held
  <2>2. /\ matches' = m /\ evaluating' = NoBlock /\ correlated' = correlated
        /\ alerting' = alerting /\ Held(evaluating') = {}
    BY <1>5 DEF FilterSend, Held
  <2>3. evaluating \notin Elems(matches) \/ evaluating \in again
    BY <1>1, <2>1 DEF Exclusive, Apart
  <2>4. Elems(m) = Elems(matches) \cup {evaluating} /\ OnceIn(m, again)
    <3>1. Elems(m) = Elems(matches) \cup {evaluating}
      BY <1>1, <2>1, AppendFacts
    <3>2. OnceIn(m, again)
      BY <1>1, <2>1, <2>3, OnceAppend
    <3>3. QED BY <3>1, <3>2
  <2> HIDE DEF m
  <2>5. Elems(correlated) \cup Elems(m) \cup {} \cup Held(alerting) \cup rows \cup delivered
            \subseteq handed
    BY <1>1, <2>1, <2>4
  <2>6. Exclusive(Elems(correlated), {}, Elems(m), Held(alerting), rows, delivered, again)
    BY <1>1, <2>1, <2>4 DEF Exclusive, Apart
  <2>7. PlacesInv'
    BY <1>1, <1>2, <2>2, <2>4, <2>5, <2>6, PlacesNext
  <2>8. QED BY <1>2, <2>7 DEF RepeatInv, RepeatsExplained
<1>6. CASE (FilterSend /\ evaluating \notin MatchBlocks) \/ FilterPanics \/ EnqueueFails
  <2>1. /\ matches' = matches /\ correlated' = correlated
        /\ Held(evaluating') \subseteq Held(evaluating) /\ Held(alerting') \subseteq Held(alerting)
    BY <1>6 DEF FilterSend, FilterPanics, EnqueueFails, Held
  <2>2. Elems(correlated) \cup Elems(matches) \cup Held(evaluating') \cup Held(alerting')
            \cup rows \cup delivered \subseteq handed
    BY <1>1, <2>1
  <2>3. Exclusive(Elems(correlated), Held(evaluating'), Elems(matches), Held(alerting'),
                  rows, delivered, again)
    BY <1>1, <2>1 DEF Exclusive, Apart
  <2>4. PlacesInv'
    BY <1>1, <1>2, <2>1, <2>2, <2>3, PlacesNext
  <2>5. QED BY <1>2, <2>4 DEF RepeatInv, RepeatsExplained
<1>7. QED BY <1>3, <1>4, <1>5, <1>6 DEF MatchStep

(* The key of a committed payload is dropped while its row is pending, and *)
(* is only new when its row is gone if the block may be repeated.          *)
LEMMA CommitRepeats == IInv /\ RepeatInv /\ IInv' /\ Commit => RepeatInv'
<1> SUFFICES ASSUME IInv, RepeatInv, IInv', Commit PROVE RepeatInv'
  OBVIOUS
<1> USE DEF channels, history
<1>1. /\ correlated \in Seq(Nat) /\ matches \in Seq(Nat)
      /\ Elems(correlated) \cup Elems(matches) \cup Held(evaluating) \cup Held(alerting)
             \cup rows \cup delivered \subseteq handed
      /\ OnceIn(correlated, again) /\ OnceIn(matches, again)
      /\ Exclusive(Elems(correlated), Held(evaluating), Elems(matches), Held(alerting),
                   rows, delivered, again)
  BY PlacesNow DEF RepeatInv
<1>2. HandedInv' /\ handed' = handed /\ delivered' = delivered /\ again' = again /\ twice' = twice
  BY FlowHanded DEF RepeatInv, FlowStep, Commit
<1>3. /\ matches' = matches /\ correlated' = correlated /\ evaluating' = evaluating
      /\ alerting' = NoBlock /\ rows' = rows \cup {alerting}
      /\ Held(alerting) = {alerting} /\ Held(alerting') = {}
  BY DEF Commit, CommitStep, Enqueue, Held
<1>4. Elems(correlated) \cup Elems(matches) \cup Held(evaluating) \cup {} \cup rows' \cup delivered
          \subseteq handed
  BY <1>1, <1>3
<1>5. Exclusive(Elems(correlated), Held(evaluating), Elems(matches), {}, rows', delivered, again)
  BY <1>1, <1>3 DEF Exclusive, Apart
<1>6. PlacesInv'
  BY <1>1, <1>2, <1>3, <1>4, <1>5, PlacesNext
<1>7. QED BY <1>2, <1>6 DEF RepeatInv, RepeatsExplained

(* A row that is delivered has not been delivered before, unless its block *)
(* may be repeated.                                                        *)
LEMMA DeliverRepeats ==
    ASSUME IInv, RepeatInv, NEW key \in rows, Deliver(key) PROVE RepeatInv'
<1>1. /\ correlated \in Seq(Nat) /\ matches \in Seq(Nat)
      /\ Elems(correlated) \cup Elems(matches) \cup Held(evaluating) \cup Held(alerting)
             \cup rows \cup delivered \subseteq handed
      /\ OnceIn(correlated, again) /\ OnceIn(matches, again)
      /\ Exclusive(Elems(correlated), Held(evaluating), Elems(matches), Held(alerting),
                   rows, delivered, again)
  BY PlacesNow DEF RepeatInv
<1>2. /\ handed' = handed /\ correlated' = correlated /\ matches' = matches /\ again' = again
      /\ evaluating' = evaluating /\ alerting' = alerting /\ UNCHANGED vars
      /\ rows' = rows \ {key} /\ delivered' = delivered \cup {key}
      /\ twice' = twice \cup (delivered \cap {key})
  BY DEF Deliver, vars, shared, channels, history, flow
<1>3. HandedInv'
  <2>1. Ahead' = Ahead
    BY <1>2 DEF Ahead, BatLo, BufLo, RawLo, vars, shared, durable, channels, ingestor, processor
  <2>2. QED BY <1>2, <2>1 DEF RepeatInv, HandedInv
<1>4. key \in delivered => key \in again
  BY <1>1 DEF Exclusive, Apart
<1>5. Elems(correlated) \cup Elems(matches) \cup Held(evaluating) \cup Held(alerting)
          \cup rows' \cup delivered' \subseteq handed
  BY <1>1, <1>2
<1>6. Exclusive(Elems(correlated), Held(evaluating), Elems(matches), Held(alerting),
                rows', delivered', again)
  BY <1>1, <1>2 DEF Exclusive, Apart
<1>7. PlacesInv'
  BY <1>1, <1>2, <1>5, <1>6, PlacesNext
<1>8. RepeatsExplained'
  BY <1>2, <1>4 DEF RepeatInv, RepeatsExplained
<1>9. QED BY <1>3, <1>7, <1>8 DEF RepeatInv

(* Every step keeps RepeatInv.                                             *)
LEMMA NextRepeats == IInv /\ RepeatInv /\ IInv' /\ [DeliveryNext]_allVars => RepeatInv'
<1> SUFFICES ASSUME IInv, RepeatInv, IInv', [DeliveryNext]_allVars PROVE RepeatInv'
  OBVIOUS
<1>1. CASE Commit
  BY <1>1, CommitRepeats
<1>2. CASE \E key \in rows : Deliver(key)
  BY <1>2, DeliverRepeats
<1>3. CASE End
  BY <1>3, EndRepeats
<1>4. CASE Undelivering
  <2>1. UNCHANGED delivery
    BY <1>4 DEF Undelivering
  <2>2. CASE Boot
    BY <2>1, <2>2, BootRepeats
  <2>3. CASE MatchStep
    BY <2>1, <2>3, MatchRepeats
  <2>4. CASE ProcessorStep /\ Dispatch
    BY <2>1, <2>4, DispatchRepeats DEF ProcessorStep
  <2>5. CASE ChainStep \/ Cancel \/ IngestorStep \/ (ProcessorStep /\ ~Dispatch)
    BY <2>1, <2>5, QuietRepeats
  <2>6. QED BY <1>4, <2>2, <2>3, <2>4, <2>5 DEF Undelivering
<1>5. CASE UNCHANGED allVars
  <2>1. Ahead' = Ahead /\ handed' = handed /\ again' = again /\ twice' = twice
    BY <1>5 DEF allVars, delivery, vars, shared, durable, channels, history, ingestor,
                processor, Ahead, BatLo, BufLo, RawLo
  <2>2. HandedInv'
    BY <2>1 DEF RepeatInv, HandedInv
  <2>3. PlacesInv'
    BY <1>5, PlacesKept DEF RepeatInv, allVars, delivery, vars, shared, channels, history
  <2>4. QED BY <2>1, <2>2, <2>3 DEF RepeatInv, RepeatsExplained
<1>6. QED BY <1>1, <1>2, <1>3, <1>4, <1>5 DEF DeliveryNext

(* Nothing was handed over before the first boot.                          *)
LEMMA InitRepeats == DeliveryInit => RepeatInv
<1> SUFFICES ASSUME DeliveryInit PROVE RepeatInv
  OBVIOUS
<1>1. /\ handed = {} /\ correlated = <<>> /\ matches = <<>> /\ rows = {} /\ delivered = {}
      /\ evaluating = NoBlock /\ alerting = NoBlock /\ twice = {}
  BY DEF DeliveryInit, Init
<1>2. Elems(correlated) = {} /\ Elems(matches) = {} /\ Held(evaluating) = {}
      /\ Held(alerting) = {} /\ InFlight = {}
  BY <1>1, ElemsFacts DEF Held, InFlight
<1>3. OnceIn(correlated, again) /\ OnceIn(matches, again)
  BY <1>1, EmptyFacts DEF OnceIn
<1>4. QED
  BY <1>1, <1>2, <1>3 DEF RepeatInv, HandedInv, PlacesInv, Exclusive, Apart, RepeatsExplained

(* A delivered payload gets a second outbox row only for a block that a    *)
(* process which ended had handed over and last_processed_block did not    *)
(* cover: overlapping polls, failed writes of the row and failed fetches   *)
(* repeat nothing.                                                         *)
THEOREM RepeatsAreExplained == DeliverySpec => []RepeatsExplained
<1>1. DeliveryInit => IInv /\ RepeatInv
  BY InitIInv, InitRepeats DEF DeliveryInit
<1>2. (IInv /\ RepeatInv) /\ [DeliveryNext]_allVars => (IInv /\ RepeatInv)'
  BY NextIInv, NextRepeats, DeliveryNextIsNext
<1>3. IInv /\ RepeatInv => RepeatsExplained
  BY DEF RepeatInv
<1>4. QED BY <1>1, <1>2, <1>3, PTL DEF DeliverySpec
=============================================================================
