------------------------------ MODULE Decoding ------------------------------
(***************************************************************************)
(* Decoding a file: as a stream (audio/streaming_decoder.rs with           *)
(* audio/chunked_resampler.rs) and as a whole (audio/decoder.rs with       *)
(* audio/resampler.rs).                                                    *)
(*                                                                         *)
(* What the format reader yields is a sequence of packets: <<"audio", n>>  *)
(* of n frames, <<"other", n>> of another track, <<"corrupt", n>> that     *)
(* does not decode, <<"broken", 0>> after which nothing can be read; the   *)
(* file ends after the last one.  Rates are a record [from, to, delay,     *)
(* slack]: the two sample rates, the delay of the resampler's filter in    *)
(* output frames, and how many frames it holds back besides.  A frame is   *)
(* its number in the raw output of the filter; the first delay ones are    *)
(* its lead-in.                                                            *)
(***************************************************************************)
EXTENDS Integers, Sequences, SequencesExt, FiniteSetsExt

CONSTANTS
  Chunk,        \* ChunkedResampler::DEFAULT_CHUNK_SIZE
  DrainLimit    \* how many zero chunks a flush adds before it gives up

Same(rates) == rates.from = rates.to

(* The frames that the filter has put out after so many were put in.       *)
Produced(rates, fed) ==
  LET out == (fed * rates.to) \div rates.from
  IN  IF out > rates.slack THEN out - rates.slack ELSE 0

(* (received * ratio).round()                                              *)
Expected(rates, received) ==
  (2 * received * rates.to + rates.from) \div (2 * rates.from)

Numbers(first, after) == [i \in 1 .. (after - first) |-> first + i - 1]

---------------------------------------------------------------------------
(* ChunkedResampler                                                        *)

NewResampler(rates) ==
  [buffered |-> 0, fed |-> 0, received |-> 0, emitted |-> 0, skip |-> rates.delay, out |-> << >>]

(* process_chunk, with its output appended to out.                         *)
ProcessChunk(rates, r) ==
  LET first == Produced(rates, r.fed)
      after == Produced(rates, r.fed + Chunk)
      skip  == Min({r.skip, after - first})
  IN  [r EXCEPT !.buffered = @ - Chunk, !.fed = @ + Chunk, !.skip = @ - skip,
                !.emitted = @ + (after - first - skip),
                !.out = @ \o Numbers(first + skip, after)]

WholeChunks(rates, r) ==
  LET count == r.buffered \div Chunk
      after[i \in 0 .. count] == IF i = 0 THEN r ELSE ProcessChunk(rates, after[i - 1])
  IN  after[count]

(* What push hands out is in the out of its result.                        *)
ResamplerPush(rates, r, frames) ==
  WholeChunks(rates, [r EXCEPT !.out = << >>, !.received = @ + frames, !.buffered = @ + frames])

(* Mutated form of Flush: what is left of a chunk is given up.             *)
FlushWholeChunks(rates, r) == WholeChunks(rates, [r EXCEPT !.out = << >>])

(* What is left of a chunk, filled up with zeroes.                         *)
Drain(rates, r, expected) ==
  IF r.emitted < expected THEN ProcessChunk(rates, [r EXCEPT !.buffered = Chunk]) ELSE r

(* The last frames need zeroes behind them, and what the zeroes add is cut *)
(* off again.                                                              *)
Flush(rates, r) ==
  LET expected == Expected(rates, r.received)
      drained[i \in 0 .. DrainLimit + 1] ==
        IF i = 0 THEN WholeChunks(rates, [r EXCEPT !.out = << >>])
        ELSE Drain(rates, drained[i - 1], expected)
      last   == drained[DrainLimit + 1]
      excess == Max({last.emitted - expected, 0})
      keep   == Max({Len(last.out) - excess, 0})
  IN  [last EXCEPT !.out = SubSeq(@, 1, keep), !.emitted = @ - excess]

---------------------------------------------------------------------------
(* StreamingDecoder: the chunks that its iterator yields, and how it ends. *)

NewStream(rates) ==
  [yielded |-> << >>, resampler |-> NewResampler(rates), read |-> 0, status |-> "decoding"]

Yield(stream, frames) ==
  IF frames = << >> THEN stream ELSE [stream EXCEPT !.yielded = Append(@, frames)]

(* One packet of decode_next_chunk's loop.                                 *)
DecodePacket(rates, stream, packet) ==
  LET pushed == ResamplerPush(rates, stream.resampler, packet[2])
      after  == [stream EXCEPT !.read = @ + packet[2]]
  IN  CASE stream.status # "decoding" -> stream
        [] stream.status = "decoding" /\ packet[1] = "broken" -> [stream EXCEPT !.status = "error"]
        [] stream.status = "decoding" /\ packet[1] \in {"other", "corrupt"} -> stream
        [] stream.status = "decoding" /\ packet[1] = "audio" ->
             IF packet[2] = 0 THEN stream
             ELSE IF Same(rates) THEN Yield(after, Numbers(stream.read, after.read))
             ELSE Yield([after EXCEPT !.resampler = pushed], pushed.out)

DecodeNextChunks(rates, packets) ==
  LET read  == FoldLeft(LAMBDA s, packet : DecodePacket(rates, s, packet), NewStream(rates), packets)
      ended == [read EXCEPT !.status = "finished"]
  IN  IF read.status = "error" THEN read
      ELSE IF Same(rates) THEN ended
      ELSE Yield(ended, Flush(rates, read.resampler).out)

---------------------------------------------------------------------------
(* decode_file and resample                                                *)

(* All frames in one chunk, and a second one of zeroes for what the filter *)
(* held back.                                                              *)
Resample(rates, frames) ==
  LET end == Min({rates.delay + Expected(rates, frames), Produced(rates, 2 * frames)})
  IN  IF frames = 0 THEN << >> ELSE Numbers(rates.delay, Max({end, rates.delay}))

DecodeFile(rates, packets) ==
  LET audio  == {i \in DOMAIN packets : packets[i][1] = "audio"}
      frames == SumFunction([i \in audio |-> packets[i][2]])
  IN  IF \E i \in DOMAIN packets : packets[i][1] = "broken"
      THEN [frames |-> << >>, status |-> "error"]
      ELSE [frames |-> IF Same(rates) THEN Numbers(0, frames) ELSE Resample(rates, frames),
            status |-> "finished"]
=============================================================================
