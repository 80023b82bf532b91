------------------------------- MODULE HawkApp -------------------------------
(***************************************************************************)
(* The viewer's liveness engine, App in crates/hawk/src/app.rs.            *)
(*                                                                         *)
(* The UI loop (ui.rs run_tui) ingests every pending IngestMsg; a frame   *)
(* replaces the state of its "scope:id" entity and is pushed on the front  *)
(* of the tail, which is cut back to tail_size.  Liveness is computed from *)
(* the last frame's time, the wall clock and the TTLs, the kv entries      *)
(* ttl_stale_s / ttl_dead_s overriding the engine defaults.                *)
(*                                                                         *)
(* Time is whole seconds (whole_seconds() of the age).  A frame is         *)
(* abstracted to its key, level, timestamp and the two TTL entries of its  *)
(* kv; its compact tail line to its ordinal number.  A key "scope:id" is  *)
(* the pair <<scope, id>> of small numbers, ordered as the key strings.     *)
(*                                                                         *)
(* After ingesting, the same thread draws (ui/draw.rs draw_app): the top   *)
(* bar's counts_by_state, then draw_entity_table, which reads the clock    *)
(* for its rows and calls sorted_entities, which reads it again.  The      *)
(* wall clock may move between these reads; nothing else can.              *)
(***************************************************************************)
EXTENDS Integers, Sequences, SequencesExt, FiniteSets, TLC

CONSTANTS
    Keys,           \* entity keys "scope:id"
    RawLevels,      \* level columns a frame may carry: [word, upper, pad]
    StaleS, DeadS,  \* --stale-s, --dead-s
    TailSize,       \* --tail-size
    TsChoices,      \* timestamps a frame may carry, NoTs for a missing ts
    TtlChoices,     \* kv values of ttl_stale_s / ttl_dead_s, NoTtl if absent
    NoTs, NoTtl,
    MaxTime,        \* bound on the wall clock
    MaxMsgs,        \* bound on ingested messages
    MaxRows         \* draw_entity_table's take(200)

AllLevels == {"ok", "info", "warn", "fail", "unknown"}
LivenessValues == {"Active", "Dream", "Stale", "Dead"}

ASSUME /\ \A r \in RawLevels : r.upper \in BOOLEAN /\ r.pad \in BOOLEAN
       /\ StaleS \in Int /\ DeadS \in Int
       /\ TailSize \in Nat
       /\ TsChoices \subseteq Int \cup {NoTs}
       /\ TtlChoices \subseteq Int \cup {NoTtl}

VARIABLES
    now,           \* OffsetDateTime::now_utc(), in whole seconds
    entities,      \* BTreeMap key -> EntityState
    tail,          \* VecDeque of compact lines, front first
    frames_seen, parse_errors, io_errors,
    screen         \* the frame being drawn: phase, header counts, the
                   \* table's local clock tTable while it draws, whether
                   \* sorted_entities read the same second (still), and
                   \* the rows [key, shown liveness, level, last_seen]

appVars == <<now, entities, tail, frames_seen, parse_errors, io_errors>>
vars == <<now, entities, tail, frames_seen, parse_errors, io_errors, screen>>

\* Level::parse: trim and ASCII-lowercase (so case and padding go), then
\* the word.
LevelParse(r) ==
    CASE r.word = "ok"                          -> "ok"
      [] r.word = "info"                        -> "info"
      [] r.word \in {"warn", "warning"}         -> "warn"
      [] r.word \in {"fail", "error", "fatal"}  -> "fail"
      [] OTHER                                  -> "unknown"

\* LevelRank::from: smaller is worse.
LevelRank(l) ==
    CASE l = "fail" -> 0 [] l = "warn" -> 1 [] l = "info" -> 2
      [] l = "ok" -> 3 [] l = "unknown" -> 4

EntityState == [level : AllLevels, seen : Int, ttlStale : TtlChoices, ttlDead : TtlChoices]

Msgs == frames_seen + parse_errors + io_errors

-----------------------------------------------------------------------------
MaxOf(a, b) == IF a >= b THEN a ELSE b
MinOf(a, b) == IF a <= b THEN a ELSE b

\* i64 division truncates toward zero; \div floors.  They differ only for a
\* negative stale_s, where .max(1) makes both 1.
Half(x) == IF x >= 0 THEN x \div 2 ELSE -((-x) \div 2)

\* Mutant: the Stale test comes before the Dead test.
ComputeLivenessStaleFirst(seen, t, stale, dead) ==
    LET age == t - seen IN
    IF age >= stale THEN "Stale"
    ELSE IF age >= dead THEN "Dead"
    ELSE IF age <= MaxOf(Half(stale), 1) THEN "Active"
    ELSE "Dream"

\* compute_liveness_with_ttl
ComputeLivenessWithTtl(seen, t, stale, dead) ==
    LET age == t - seen IN
    IF age >= dead THEN "Dead"
    ELSE IF age >= stale THEN "Stale"
    ELSE IF age <= MaxOf(Half(stale), 1) THEN "Active"
    ELSE "Dream"

\* parse_ttl_from_kv(..).unwrap_or(default): a positive i64 overrides.
ParseTtl(v, default) == IF v \in Int /\ v > 0 THEN v ELSE default

\* compute_entity_liveness at wall-clock time t
EntityLiveness(k, t) ==
    ComputeLivenessWithTtl(entities[k].seen, t,
                           ParseTtl(entities[k].ttlStale, StaleS),
                           ParseTtl(entities[k].ttlDead, DeadS))

\* Mutant: push_front without the pop_back loop.
PushTailNoEvict(t, line) == <<line>> \o t

\* Mutant: pop_back while tail.len() >= tail_size.
PushTailOffByOne(t, line) ==
    LET t1 == <<line>> \o t IN SubSeq(t1, 1, MinOf(Len(t1), TailSize - 1))

\* push_tail: push_front, then pop_back while tail.len() > tail_size.
PushTail(t, line) ==
    LET t1 == <<line>> \o t IN SubSeq(t1, 1, MinOf(Len(t1), TailSize))

\* counts_by_state over the liveness of each entity: Stale and Dead are
\* counted apart, the others by last_level, info and unknown with ok.
Tally(live) ==
    LET quiet == {k \in DOMAIN live : live[k] \notin {"Stale", "Dead"}}
        byLevel(S) == Cardinality({k \in quiet : entities[k].level \in S})
        byLive(l) == Cardinality({k \in DOMAIN live : live[k] = l})
    IN  [total |-> Cardinality(DOMAIN live), ok |-> byLevel({"ok", "info", "unknown"}),
         warn |-> byLevel({"warn"}), fail |-> byLevel({"fail"}),
         stale |-> byLive("Stale"), dead |-> byLive("Dead")]

\* Mutant: the counts use the engine defaults, not the entity's kv TTLs.
CountsByStateDefaultTtl(t) ==
    Tally([k \in DOMAIN entities |-> ComputeLivenessWithTtl(entities[k].seen, t, StaleS, DeadS)])

\* counts_by_state, with its own now_utc() = t.
CountsByState(t) == Tally([k \in DOMAIN entities |-> EntityLiveness(k, t)])

\* Mutant: Stale ranked above Dead.
RankLiveStaleFirst(l) ==
    CASE l = "Stale" -> 0 [] l = "Dead" -> 1 [] l = "Active" -> 2 [] l = "Dream" -> 3

\* sorted_entities' rank_live.
RankLive(l) ==
    CASE l = "Dead" -> 0 [] l = "Stale" -> 1 [] l = "Active" -> 2 [] l = "Dream" -> 3

\* x before y in the lexicographic order of Ordering::then_with chains.
LexLess(x, y) == \E i \in DOMAIN x : x[i] < y[i] /\ \A j \in 1..i-1 : x[j] = y[j]

\* sorted_entities' comparator at its own now_utc() = t: rank_live, then
\* LevelRank, then newer last_seen, then id.  Entities it ties are left in
\* BTreeMap order by the stable sort_by: for equal ids, by scope.
SortKey(k, t) ==
    <<RankLive(EntityLiveness(k, t)), LevelRank(entities[k].level), -entities[k].seen, k[2], k[1]>>

SortedEntities(t) ==
    SetToSortSeq(DOMAIN entities, LAMBDA a, b : LexLess(SortKey(a, t), SortKey(b, t)))

NoCounts == [total |-> 0, ok |-> 0, warn |-> 0, fail |-> 0, stale |-> 0, dead |-> 0]

-----------------------------------------------------------------------------
Init ==
    /\ now = 0
    /\ entities = <<>>
    /\ tail = <<>>
    /\ frames_seen = 0 /\ parse_errors = 0 /\ io_errors = 0
    /\ screen = [phase |-> "idle", drawn |-> FALSE, header |-> NoCounts,
                 tTable |-> 0, still |-> TRUE, rows |-> <<>>]

\* Ingest runs in run_tui's drain loop, between two draws.
Between == screen.phase = "idle"

\* ingest(IngestMsg::Frame(f)) = ingest_frame: count, upsert the entity with
\* last_seen = ts.unwrap_or(now), push the compact line.
IngestFrame(k, raw, ts, ttlStale, ttlDead) ==
    /\ Between /\ Msgs < MaxMsgs
    /\ frames_seen' = frames_seen + 1
    /\ LET st == [level |-> LevelParse(raw), seen |-> IF ts = NoTs THEN now ELSE ts,
                  ttlStale |-> ttlStale, ttlDead |-> ttlDead]
       IN  entities' = (k :> st) @@ entities
    /\ tail' = PushTail(tail, frames_seen + 1)
    /\ UNCHANGED <<now, parse_errors, io_errors, screen>>

\* ingest(IngestMsg::ParseError(_))
IngestParseError ==
    /\ Between /\ Msgs < MaxMsgs
    /\ parse_errors' = parse_errors + 1
    /\ UNCHANGED <<now, entities, tail, frames_seen, io_errors, screen>>

\* ingest(IngestMsg::IoError(_))
IngestIoError ==
    /\ Between /\ Msgs < MaxMsgs
    /\ io_errors' = io_errors + 1
    /\ UNCHANGED <<now, entities, tail, frames_seen, parse_errors, screen>>

\* The wall clock advances one second.
Tick ==
    /\ now < MaxTime
    /\ now' = now + 1
    /\ UNCHANGED <<entities, tail, frames_seen, parse_errors, io_errors, screen>>

\* draw_top_bar: counts_by_state reads the clock.  (Its second read, the
\* RFC 3339 time shown at the right, only formats.)
DrawTopBar ==
    /\ screen.phase = "idle"
    /\ screen' = [screen EXCEPT !.phase = "bar", !.drawn = FALSE,
                                 !.header = CountsByState(now), !.rows = <<>>]
    /\ UNCHANGED appVars

\* draw_entity_table's own now_utc(), for the rows' state and age.
DrawTableClock ==
    /\ screen.phase = "bar"
    /\ screen' = [screen EXCEPT !.phase = "table", !.tTable = now]
    /\ UNCHANGED appVars

\* sorted_entities() reads the clock again and sorts; take(200); each row
\* shows compute_entity_liveness at the table's clock.
DrawTableRows ==
    /\ screen.phase = "table"
    /\ LET sorted == SortedEntities(now)
           row(k) == [key |-> k, live |-> EntityLiveness(k, screen.tTable),
                      level |-> entities[k].level, seen |-> entities[k].seen]
       IN  screen' = [screen EXCEPT !.phase = "idle", !.drawn = TRUE, !.tTable = 0,
                         !.still = (screen.tTable = now),
                         !.rows = [i \in 1..MinOf(Len(sorted), MaxRows) |-> row(sorted[i])]]
    /\ UNCHANGED appVars

Next ==
    \/ \E k \in Keys, r \in RawLevels, ts \in TsChoices, s \in TtlChoices, d \in TtlChoices :
          IngestFrame(k, r, ts, s, d)
    \/ IngestParseError
    \/ IngestIoError
    \/ Tick
    \/ DrawTopBar \/ DrawTableClock \/ DrawTableRows

Spec == Init /\ [][Next]_vars

-----------------------------------------------------------------------------
TypeOK ==
    /\ now \in 0..MaxTime
    /\ DOMAIN entities \subseteq Keys
    /\ \A k \in DOMAIN entities : entities[k] \in EntityState
    /\ tail \in Seq(1..MaxMsgs) /\ Len(tail) <= TailSize
    /\ {frames_seen, parse_errors, io_errors} \subseteq 0..MaxMsgs
    /\ screen.phase \in {"idle", "bar", "table"}
    /\ Len(screen.rows) <= MaxRows

\* Order of the spec's monotonicity claim: Active < Dream < Stale < Dead.
Severity(l) == CASE l = "Active" -> 0 [] l = "Dream" -> 1
                 [] l = "Stale" -> 2 [] l = "Dead" -> 3

(***************************************************************************)
(* Liveness never recovers with time alone (spec 8): while an entity's     *)
(* state is unchanged, a step of the clock never moves its liveness back   *)
(* toward Active, whatever mix of kv and default TTLs applies to it, a     *)
(* ttl_dead_s below the default stale_s included.                          *)
(***************************************************************************)
LivenessMonotone ==
    [][\A k \in DOMAIN entities :
          (k \in DOMAIN entities' /\ entities'[k] = entities[k])
            => Severity(EntityLiveness(k, now))
                 <= Severity(ComputeLivenessWithTtl(entities[k].seen, now',
                                 ParseTtl(entities[k].ttlStale, StaleS),
                                 ParseTtl(entities[k].ttlDead, DeadS)))]_vars

(***************************************************************************)
(* The tail holds exactly the compact lines of the last tail_size frames,  *)
(* newest first (push_tail's front push and rear eviction).                *)
(***************************************************************************)
TailNewestFirst ==
    tail = [i \in 1..MinOf(frames_seen, TailSize) |-> frames_seen + 1 - i]

\* The frame on screen once draw_app has finished.
Drawn == screen.phase = "idle" /\ screen.drawn

ShownCount(S) == Cardinality({i \in DOMAIN screen.rows : screen.rows[i].live \in S})

(***************************************************************************)
(* The header never runs ahead of the table: of a drawn frame, the table   *)
(* shows at least as many entities Stale or Dead as the top bar counts,    *)
(* and at least as many Dead, although counts_by_state and                *)
(* draw_entity_table each read the clock and a second boundary may pass   *)
(* between them (when all entities fit in take(200)).                      *)
(***************************************************************************)
HeaderNotAheadOfTable ==
    (Drawn /\ screen.header.total <= MaxRows) =>
        /\ ShownCount({"Stale", "Dead"}) >= screen.header.stale + screen.header.dead
        /\ ShownCount({"Dead"}) >= screen.header.dead

\* Spec 4.3 and 4.2: the sorted view's order, Dead < Stale < Active < Dream,
\* then fail < warn < info < ok < unknown, then recent first, then id.
SpecViewKey(r) ==
    <<CHOOSE i \in 1..4 : <<"Dead", "Stale", "Active", "Dream">>[i] = r.live,
      CHOOSE i \in 1..5 : <<"fail", "warn", "info", "ok", "unknown">>[i] = r.level,
      -r.seen, r.key[2]>>

(***************************************************************************)
(* Spec 4.3's sorted view, as the table shows it: when sorted_entities and *)
(* draw_entity_table read the same second, no row of a drawn table comes   *)
(* after a row that the spec's order puts behind it, comparing the state,  *)
(* level and age each row displays.                                        *)
(***************************************************************************)
TableSortedWhenClockStill ==
    (Drawn /\ screen.still) =>
        \A i, j \in DOMAIN screen.rows :
            i < j => ~LexLess(SpecViewKey(screen.rows[j]), SpecViewKey(screen.rows[i]))

=============================================================================
