---------------------------- MODULE MCBenchGate ----------------------------
(* Twenty queries are the fewest that tell p95 from p99; the second mode has *)
(* few outcomes, among them the one in which every query failed.             *)
EXTENDS BenchGate, TLC

Bags(counts) ==
    {b \in [Lat -> counts] : SumFunction(b) <= Queries}

One == [{"keyword"} -> Bags({0, 1, 19})]
Two == {[keyword |-> b, vector |-> c] : b \in Bags({0, 1, 19}), c \in Bags({0, 20})}
Raw(docs, chunks, wall, modes) ==
    [docs : docs, chunks : chunks, wall : wall, modes : modes]

MCBaseRaw  == Raw({4}, {6}, {1}, One \union Two) \union Raw({4}, {6}, {0}, One)
MCFreshRaw == Raw({4}, {4, 6}, {1, 2}, One \union Two)
                \union Raw({4}, {6}, {0}, One) \union Raw({2}, {4}, {1}, One)
=============================================================================
