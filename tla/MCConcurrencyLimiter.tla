----------------------- MODULE MCConcurrencyLimiter -----------------------
(* Instances of ConcurrencyLimiter for TLC.                                *)
EXTENDS ConcurrencyLimiter

\* AppContextBuilder::maybe_rate_limiter: the rate the gateway gives its
\* bucket; a configured 0 is replaced by max_concurrent_requests.
ConfiguredRate(tokens_per_second) ==
    IF tokens_per_second > 0 THEN tokens_per_second ELSE Capacity * Unit

\* No limiter; no queue; a bucket without refill, as token_bucket.rs allows
\* and its tests build it; a configured refill of one unit per tick.
AllConfigs ==
    { [limited |-> FALSE, rate |-> 0, queue |-> 0],
      [limited |-> TRUE, rate |-> ConfiguredRate(1), queue |-> 0],
      [limited |-> TRUE, rate |-> 0, queue |-> 2],
      [limited |-> TRUE, rate |-> ConfiguredRate(1), queue |-> 1] }

=============================================================================
