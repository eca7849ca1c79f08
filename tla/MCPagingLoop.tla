---------------------------- MODULE MCPagingLoop ----------------------------
(* PagingLoop for TLC: every payload of 0 to 8 records with chunk sizes    *)
(* around the record size, the payload size and the default.               *)
EXTENDS PagingLoop

SmallTotals   == {RECORD_SIZE * n : n \in 0 .. 8}
SmallRequests == (-1 .. 45) \cup {59, 60, 61, 79, 80, 127, 128, 129, 160}

(* The chunk sizes and page counts that the report's table shows.          *)
ReportedPages ==
    {<<2000, 800>>, <<8000, 200>>, <<32000, 50>>, <<128000, 13>>, <<512000, 4>>}

(* They were measured over the 80,000 records of the two-host run ("Avg    *)
(* chunks" of RUN_RESULTS.md:53-59) and are those that CallCount states.   *)
ASSUME MeasuredPages ==
    \A reported \in ReportedPages : CallsFor(80000 * RECORD_SIZE, reported[1]) = reported[2]
=============================================================================
