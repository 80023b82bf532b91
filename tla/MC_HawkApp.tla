----------------------------- MODULE MC_HawkApp -----------------------------
(* Model-checking instance of HawkApp: two entities that share a scope-less *)
(* order question (one scope ahead, the other id ahead), TTL overrides      *)
(* around the defaults, a clock long enough to cross every threshold.      *)
EXTENDS HawkApp

\* "1:2" and "2:1": BTreeMap order and id order disagree.
MC_Keys == {<<1, 2>>, <<2, 1>>}
\* A padded upper-case synonym of fail, and ok.
MC_RawLevels == {[word |-> "error", upper |-> TRUE, pad |-> TRUE],
                 [word |-> "ok", upper |-> FALSE, pad |-> FALSE]}
\* Missing (the clock at ingest), at the start, and in the future.
MC_TsChoices == {NoTs, 0, 7}
\* Absent, below every default, above every default.
MC_TtlChoices == {NoTtl, 2, 6}
=============================================================================
