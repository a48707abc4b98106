--------------------------- MODULE ClientStatistics ---------------------------
(***************************************************************************)
(* http_proxy_client_stat: what the connections of ahpc count, and the     *)
(* callback that takes a sample of it every second.  The four counters are *)
(* alike and independent; this is one of them.  Connections count on every *)
(* worker, and the callback runs on any, among them.                       *)
(***************************************************************************)
EXTENDS Integers, FiniteSets, SequencesExt

CONSTANTS
  Workers,       \* threads that run the io_service
  Pieces,        \* sizes of what is received or sent at a time
  Word,          \* 2^32: bytes, rates and speeds are kept modulo this
  LongWord,      \* 2^64: totals are
  Window,        \* 5: how many rates a speed is the average of
  MaxCounts      \* bound: how often something is counted

ASSUME StatisticsAssumption ==
  /\ IsFiniteSet(Workers) /\ "none" \notin Workers
  /\ Pieces \subseteq 1 .. Word - 1
  /\ Word \in Nat \ {0} /\ LongWord \in Nat \ {0}
  /\ Word % 2 = 0 /\ LongWord % Word = 0
  /\ Window \in Nat \ {0}

VARIABLES
  total_bytes, bytes, rate, speed,   \* the atomic members of one counter
  rate_queue,                        \* its last rates
  counting,     \* for each worker, what it has added to the total and not yet to bytes
  sampler,      \* the worker that runs the callback, or "none"
  sample,       \* the callback's local variable, and whether it has been stored
  armed,        \* the timer is waiting
  counts,       \* how often something was counted
  taken         \* history: the sum of all samples

vars == <<total_bytes, bytes, rate, speed, rate_queue, counting, sampler, sample, armed, counts,
          taken>>

Init ==
  /\ total_bytes = 0 /\ bytes = 0 /\ rate = 0 /\ speed = 0
  /\ rate_queue = <<>>
  /\ counting = [w \in Workers |-> 0]
  /\ sampler = "none"
  /\ sample = <<>>
  /\ armed = TRUE
  /\ counts = 0
  /\ taken = 0

----------------------------------------------------------------------------
(* on_upgoing_recv and the like: two additions, each of them atomic.       *)

Free(w) == sampler # w /\ counting[w] = 0

CountInTotal(w) ==
  /\ Free(w)
  /\ counts < MaxCounts
  /\ \E n \in Pieces : /\ total_bytes' = (total_bytes + n) % LongWord
                       /\ counting' = [counting EXCEPT ![w] = n]
  /\ counts' = counts + 1
  /\ UNCHANGED <<bytes, rate, speed, rate_queue, sampler, sample, armed, taken>>

CountInBytes(w) ==
  /\ counting[w] # 0
  /\ bytes' = (bytes + counting[w]) % Word
  /\ counting' = [counting EXCEPT ![w] = 0]
  /\ UNCHANGED <<total_bytes, rate, speed, rate_queue, sampler, sample, armed, counts, taken>>

----------------------------------------------------------------------------
(* The callback.                                                           *)

\* Mistaken: the counter is read and not emptied.
ReadOnly(b) == b

\* What an exchange leaves.
Emptied(b) == 0

Exchange(w) ==
  /\ armed
  /\ Free(w)
  /\ armed' = FALSE
  /\ sampler' = w
  /\ sample' = <<bytes>>
  /\ taken' = taken + bytes
  /\ bytes' = Emptied(bytes)
  /\ UNCHANGED <<total_bytes, rate, speed, rate_queue, counting, counts>>

\* Mistaken: a full queue drops the rate it was given last.
NewestDropped(queue) == IF Len(queue) > Window THEN Front(queue) ELSE queue

\* A full queue drops its oldest rate.
Kept(queue) == IF Len(queue) > Window THEN Tail(queue) ELSE queue

StoreRate ==
  /\ sample # <<>>
  /\ rate' = sample[1]
  /\ rate_queue' = Kept(Append(rate_queue, sample[1]))
  /\ sample' = <<>>
  /\ UNCHANGED <<total_bytes, bytes, speed, counting, sampler, armed, counts, taken>>

\* Mistaken: the average of as many rates as the queue can hold.
AverageOfAll(queue) == FoldLeft(+, 0, queue) \div Window

\* std::accumulate adds in an int, which is divided by a size_t: a negative sum becomes
\* a large one first.
Average(queue) ==
  LET sum == FoldLeft(LAMBDA a, b : (a + b) % Word, 0, queue)
      widened == IF sum < Word \div 2 THEN sum ELSE LongWord - Word + sum
  IN  (widened \div Len(queue)) % Word

StoreSpeed ==
  /\ sampler # "none"
  /\ sample = <<>>
  /\ speed' = Average(rate_queue)
  /\ armed' = TRUE
  /\ sampler' = "none"
  /\ UNCHANGED <<total_bytes, bytes, rate, rate_queue, counting, sample, counts, taken>>

Next ==
  \/ \E w \in Workers : CountInTotal(w) \/ CountInBytes(w) \/ Exchange(w)
  \/ StoreRate
  \/ StoreSpeed

Spec == Init /\ [][Next]_vars

\* A handler that runs goes on, and the timer expires and finds a worker.  Nothing
\* has to be counted.
Fairness ==
  /\ \A w \in Workers : WF_vars(CountInBytes(w))
  /\ WF_vars(\E w \in Workers : Exchange(w))
  /\ WF_vars(StoreRate)
  /\ WF_vars(StoreSpeed)

LiveSpec == Spec /\ Fairness

----------------------------------------------------------------------------
InFlight == FoldFunction(+, 0, counting)

\* The total and the samples agree at every moment, but for what a worker is counting
\* and what is not sampled yet, modulo the width of a sample: the two additions, and
\* the exchange that may fall between them, lose nothing and count nothing twice.
SamplesAddUp == (taken + bytes + InFlight) % Word = total_bytes % Word

\* The speed lies between the least and the largest of the rates it is made of, if
\* their sum fits in an int.
SpeedIsAmongRates ==
  sampler = "none" /\ rate_queue # <<>> /\ FoldLeft(+, 0, rate_queue) < Word \div 2 =>
    /\ \E i \in DOMAIN rate_queue : rate_queue[i] <= speed
    /\ \E i \in DOMAIN rate_queue : speed <= rate_queue[i]

\* When nothing more is counted, everything has been sampled in the end, and the speed
\* falls to 0: the callback never stops, and no rate stays in its queue.
SpeedFallsToZero == <>[](bytes = 0 /\ InFlight = 0 /\ rate = 0 /\ speed = 0)
=============================================================================
