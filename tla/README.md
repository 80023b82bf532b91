# TLA+ models of Hawk-tui

This directory holds TLA+ models of the Hawk-tui programs (`src/crates`):
the daemon `hawkd`, the viewer `hawk` and the shared codec `hawk_core`. Each
module is translated from the Rust source. `PROJECT.json` maps every
definition that models code to the lines it stands for. It also lists the
runs, the mutants that show each property can fail, the findings and the
hazards.

## The system

```
 producers                hawkd                               hawk (viewer)
 ---------                -----                               -------------
 ingest socket clients -> handle_ingest_client --+
 stdin                 -> spawn_stdin_source  ---+--> spine  --> broadcast() --> subscribers
 gRPC health servers   -> watch_one           ---+   (mpsc)     (lock, write, --> unix source thread
 systemd (D-Bus)       -> watch_one_unit      ---+               remove)            | rx_source
                                accept_loop ---- push -----------^           forwarder | splitter
                                                                             (none)    | -> awk bridge
                                                                                      |    writer/child/
                                                                                      |    reader/waiter
                                                                                      v
                                                                     tx_ui -> run_tui -> App.ingest
```

* **hawkd spine** (`hawkd/src/main.rs`, `unix_ingest.rs`). Producers parse
  lines and send re-encoded frames on one unbounded mpsc channel. The
  broadcast loop takes one record at a time. It locks the subscriber list and
  writes the record to each subscriber in list order. A subscriber whose write
  fails is removed in place, and the index is not advanced. The sockets are
  blocking: a write to a subscriber whose buffer is full waits, holding the
  lock. The accept loop writes an optional banner, then pushes the new
  subscriber under the same lock. The ingest listener's own accept loop
  starts one handler thread per publisher; the handler writes
  `# hawkd ingest connected` whatever `--client-banner` says. On a malformed line an ingest handler sends a `RECEIPT_EVENT` frame
  whose `raw` is the line clipped to 240 bytes. In strict mode it then
  stops.
* **Watchers** (`grpc_health.rs`, `systemd.rs`). These are long-lived tokio
  tasks. Each step emits status frames or `fail` frames, and each failure is
  followed by a sleep with exponential backoff.
* **Viewer pipeline** (`hawk/src/main.rs`, `io.rs`, `awk.rs`, `ui.rs`). A
  source thread reads stdin or the broadcast socket. With `--transform`, frames
  go through an awk child process: one thread writes to the child, one reads
  from it, and one waits for it to exit. Every message ends up on the UI
  channel, which `run_tui` drains with `try_recv`.
* **Liveness engine** (`hawk/src/app.rs`). Entities are keyed `scope:id`. A
  bounded tail holds the newest lines. Liveness (Active, Dream, Stale, Dead)
  is computed from the age of the last frame and from TTLs; a kv
  `ttl_stale_s` or `ttl_dead_s` overrides the engine default. After each
  drain of the UI channel the same thread draws. `draw_top_bar` takes
  `counts_by_state`. `draw_entity_table` reads the clock for its rows, then
  calls `sorted_entities`, which reads it again. Each of these calls
  `now_utc()` itself, so the clock can move between them.
* **Frame codec** (`hawk_core/src/hawkframe.rs`). Frames are seven-column TSV
  lines with a `k=v;k=v` trailer. A pair whose value is `"true"` is written as
  a bare key. Nothing is escaped: the columns are joined with tabs and the
  callers add the newline. A line with fewer than seven columns is an error;
  columns past the seventh are ignored.
* **Pack loader** (`hawk/src/packs.rs`, and `main`'s `--transform
  thread:<id>`). It walks the pack directories in sorted order and checks each
  manifest's threads. It indexes the threads by id, and a collision aborts the
  load. `main` then resolves the thread, merges its default tvars with the
  `--tvar` values and validates them.
* **Pack doctor** (`hawk/src/doctor.rs`, `run_doctor` in `main.rs`). It
  walks the same tree with the same manifest parser. Unlike the loader it
  collects errors and goes on. For every thread of a manifest that parses it
  checks id collisions, runs a substring security scan, and with `--smoke`
  runs the script under awk with the default tvars. The report is ok iff it
  has no error; `run_doctor` exits 2 otherwise.
* **CLI startup** (`hawk/src/main.rs`, `hawkd/src/main.rs`). Without a
  subcommand, hawk's `main` runs `load_packs(..)?` first, whatever
  `--transform` says, then `parse_transform`. `pack ...` subcommands load
  the packs before they dispatch; `pack-doctor` goes straight to the doctor.
  hawkd's TLS flags are handed to every gRPC watcher unchecked.
* **TUI drawing** (`ui/draw.rs`). Its reads of `App` are modelled in
  `HawkApp`; layout is not.

## Modules

| Module | Models | State / actions |
|---|---|---|
| `HawkdSpine` | spine, broadcast, accept loop, ingest handlers, stdin source | `spine` (the channel), `clients` (the Vec), `bc` (broadcast in progress: record, index `i`), `peer`, `recv`; actions `ReadFrame`, `ReadBlank`, `IngestMalformed`, `IngestClipPanic` (the `truncate(240)` of `parse_error_frame` cut inside a character), `StdinMalformed`, `EndOfInput`, `IngestAccept` (`spawn_unix_ingest`'s accept and the handler's banner), `AcceptBanner`, `AcceptPush`, `BcastRecv`, `BcastWrite` (blocked while the peer's buffer is `full`), `BcastDrop`, `BcastDone`, and the environment's `Connect`/`Close`/`Drain` |
| `HawkApp` | `App`, `Level::parse`, `LevelRank`, `run_tui`'s loop and `draw_app`'s reads | `entities`, `tail`, counters, wall clock `now`, and `screen` (the frame being drawn: header counts, the rows with their shown state, level and last_seen); `IngestFrame` (the whole of `ingest_frame`, including `Level::parse` of the level column and `push_tail`), `IngestParseError`, `IngestIoError`, `Tick`, `DrawTopBar`, `DrawTableClock`, `DrawTableRows`; operators `CountsByState`, `SortedEntities` |
| `WatchBackoff` | the shared backoff arithmetic | `NextBackoff`, and the spec's schedule `SpecDelay` |
| `GrpcWatch` | `watch_one`, `connect_channel`, `normalize_endpoint_uri`, `build_tls_config`, `derive_host_from_uri` | `pc` at the await points, `backoff`, `delay`; `endpoint` (scheme and host) and `tls` (mode, and whether each of `--grpc-ca/cert/key` is absent, unreadable or ok, and `--grpc-domain`) are fixed in `Init`. One action per outcome of connect, watch, and the stream's next item; `ConnectFail(err)` ranges over `ConnectErrors`, which are the early returns of `connect_channel` and `build_tls_config` in their order, and `ConnectOk` needs `CanConnect`; the history variable `cause` records which step led to the current sleep |
| `SystemdWatch` | `watch_one_unit`, `watch_one_unit_once`, `map_systemd_level` | `pc` per `?`-step (bus, proxies, first snapshot, subscribe, stream, snapshot per signal); a snapshot is three steps, `ReadState` twice (ActiveState, SubState) and `SnapshotOk` (LoadState, map, send), since each property is its own await. The environment action `Change(u)` is systemd changing the unit (`unit`), which queues a PropertiesChanged signal (`pending`) while the subscription exists; the history variable `moved` records a change since the subscription began |
| `HawkPipeline` | viewer source, forwarders, splitter, awk bridge, UI ingest | one sequence per channel or pipe, plus the state of the writer, the child, the reader and the waiter |
| `Broadcast` | what the broadcast socket promises (spec 4.3, 5) | abstract: `hist`, and per subscriber `member`, `start`, `got`; `Publish`, `Join`, `Deliver` (the next record after `start`, no other), `Leave` |
| `PackLoader` | `load_packs`, `parse_pack_manifest` and its checks, `run_pack_doctor`, `security_scan_awk`, the smoke test's outcome, `DoctorReport::ok`, `resolve_thread`, `default_tvars`, `validate_tvars` | one directory walk (`walk`, `dir`, `pack`) drives the loader (`load`, `index`, `seen`) and the doctor (`derrs`, the kinds of error reported; `dseen`, its `seen_thread_ids`) in lockstep: each step is a loader part and a doctor part (`LoadReadDir`/`DoctorReadDir`, `LoadPack`/`DoctorPack`, `LoadFail`/`DoctorFail`). Steps `ReadDir`, `ReadDirFails`, `SkipDir`, `ManifestFails`, `OpenManifest`, `ParseThread` (one `[[thread]]`, revealed as it is parsed), `EndManifest`, `Finish`, `NoPacksDir`; then `StartViewer` (hawk's `main` with no subcommand: the load result, `parse_transform`, and the thread or file path). `ExitCode(c)` is the exit status of each subcommand (`run_pack_cmd`, `run_doctor`) over the walked tree |
| `KvCodec` | `parse_tsv_line`, `to_tsv_line`, `parse_kv_bag`, `serialize_kv_bag`, and `BufRead::lines` as hawkd and the viewer read lines | strings are sequences over `{" ", ";", "=", "a", "t", "\t", "\n"}`, where `"t"` stands for the word `true`; a frame is its msg and kv (kind, scope, id and level are left empty, ts is empty or a stamp); `Emit` (`ToTsvLine`) and `Parse` (`ReadLines`, then `ParseTsvLine` per line) alternate over the hops a frame makes |

How the models abstract the code:

* A frame is reduced to what the properties need: its producer and line
  number (spine, pipeline), or its key, level, timestamp and TTL entries
  (app).
* Time in `HawkApp` is in whole seconds, which is what `whole_seconds()`
  yields. Truncating `i64` division is kept in `Half`.
* `HawkdSpine` is shown to implement `Broadcast`: `BroadcastRefined` is
  `Abs!Spec` for `Abs == INSTANCE Broadcast WITH hist <- sent, start <-
  joined, got <- Data(s), member <- ...`, where a subscriber is "in" while it
  is in `clients`, "gone" once pushed and removed, "out" before its push.
  Publishing is `BcastRecv`, joining is `AcceptPush`, delivering is a
  successful `BcastWrite`, leaving is `BcastDrop`; every other step is a
  stuttering step of the abstract spec.
* A doctor message is reduced to its kind (`read dir`, `parse`,
  `collision`, `security`, `scan`, `smoke`). Warnings never change `ok()`
  and are left out. What the scan finds in a script (`clean`, a deny-list
  hit, `getline <`, unreadable) and the smoke test's outcome are chosen per
  thread.
* Peers are the environment and get no fairness. This covers a subscriber
  closing its end, a producer's input, a gRPC server's answers, D-Bus, and the
  awk child crashing.

## Runs

| Run | Checks | Shows |
|---|---|---|
| `hawkd_fanout` | `TypeOK`, `FanOutNoGap`, `EventualDelivery`, `BroadcastRefined` | Every subscriber receives exactly the records broadcast after it joined, in spine order, with no gap. If every client with a full buffer eventually reads, an open subscriber eventually receives each one. The spine, accept loop and fan-out implement the abstract `Broadcast`. |
| `hawkd_stdin_receipt` (violation) | `MalformedReported` | The stdin source reports nothing for a malformed line in non-strict mode. |
| `hawkd_ingest_clip` (violation) | `MalformedReported` | A non-strict ingest handler panics in `String::truncate` on a long line cut inside a multi-byte character, and stops without a receipt. |
| `app_liveness` | `TypeOK`, `TailNewestFirst`, `LivenessMonotone`, `HeaderNotAheadOfTable`, `TableSortedWhenClockStill` | Liveness never recovers with time alone, for any mix of default and kv TTLs. The tail is the newest `tail_size` frames, newest first. A drawn header never counts more Stale or Dead entities than its table shows. When the clock did not move between the table's and the sort's reads, the table is in spec 4.3's order. |
| `grpc_backoff` | `TypeOK`, `RetrySchedule`, `StaleStatusOnlyAfterCleanEnd` | Every sleep is 250 ms doubled once per failure since the last successful connect, capped at 15 s, under every TLS mode, flag state and endpoint shape. The watcher sleeps with a non-fail status on show only after a stream that ended without an error. The entity then keeps showing whatever the server last reported, even `SERVING`, and only the TTL can change that. |
| `grpc_tls_startup` (violation) | `StartupErrorsAbort` | With `--grpc-tls-mode tls` and no `--grpc-ca`, the watcher sends a `connect failed` frame and sleeps to retry; spec 7 says hawkd aborts at startup. |
| `systemd_watch` | `TypeOK`, `CaughtUpWhileSubscribed` | Once subscribed, a watcher with no signal queued shows the unit's current state after any change, even one that tears a snapshot's three reads. Every error path is explored along the way. |
| `systemd_backoff` (violation) | `RetrySchedule` | The systemd backoff is never reset: the reset branch is unreachable. |
| `viewer_pipeline` | `TypeOK`, `NoSilentLoss` | In both transform modes, every frame read reaches the UI or the UI counts an io error. This holds even if the child crashes mid-frame. |
| `viewer_transform_inband` (violation) | `TransformFailureInBand` | Transform failures reach the UI as io errors, not as fail frames (spec 4.8). |
| `kv_roundtrip` | `RoundTripExact`, `RelayStable` | States exactly which watcher frames survive three hops (hawkd, viewer, awk bridge) unchanged, as one line each. Any line a producer writes to the ingest socket that hawkd parses to a frame is relayed to the viewer and the bridge unchanged, except that a pair `("", "true")` is dropped. |
| `pack_load` | `LoadVerdict`, `DoctorRejectsUnloadable` | A load that succeeds indexes every thread it read, under its own directory, and no id twice. A duplicate id, within one manifest or across two, always fails the load. When the loader fails on the packs dir, a manifest or a collision, the doctor over the same tree reports an error of that kind, and neither `hawk pack doctor` nor `hawk pack-doctor` exits 0. |

Each property of a passing run has a mutant in `PROJECT.json`. The mutant
changes the code it is about the way a plausible bug would, and TLC then finds
the property violated. The mutants are:

* the removal index advanced, or the failed client kept (broadcast);
* the accept loop's push made outside the lock, so a subscriber joins in
  the middle of a fan-out (refinement);
* the pop loop dropped or off by one (tail);
* the Dead/Stale tests swapped (liveness);
* the counts taken with the engine's default TTLs instead of the entity's
  (header);
* Stale ranked above Dead in the sort (table);
* the backoff cap dropped, or no reset on connect (backoff);
* a stream error that breaks out without its fail frame (gRPC);
* a signal drained without a new snapshot (systemd);
* the exit status ignored, or unparsed child lines forwarded as frames
  (bridge);
* the kv split at the last `=`, or `true` written as `k=true` (codec);
* the collision test made against earlier packs only, in the loader or in
  the doctor.

## Bounds and why they are enough

* **Spine.** Two producers, an ingest handler `i1` and the stdin source
  `sin`, each read one line. Two subscribers connect and close at any time.
  Every line outcome (frame, blank, malformed, end) happens for each producer.
  Records reach the fan-out while one subscriber is closed and the other is in
  a later slot, which is the case `lock.remove(i)` is about. A subscriber can
  be pushed between two records. The ingest handler starts only when its
  publisher is accepted, at any point. Each write may leave the subscriber's
  buffer full, so a fan-out can block on either slot. The run reaches about
  53 000 states. Two
  lines per producer (3.8 M states) add no new interleaving shape. The clip
  length is 4 bytes instead of 240, and malformed lines are short, long ASCII
  (5 bytes, cut at a boundary), or two 3-byte characters (cut inside the
  second). Whether `truncate` panics depends only on whether the cut is a
  char boundary, so the smaller clip keeps every outcome.
* **App.** Two keys, `1:2` and `2:1`, so the map order and the id order
  disagree. Frames have no timestamp (the clock at ingest), ts 0, or ts 7
  (in the future); a level column `ok` or ` ERROR ` (a padded upper-case
  synonym of fail); kv TTL values absent, 2 and 6. Defaults are stale 3,
  dead 5, so a kv dead TTL can fall below the default stale TTL. The clock
  runs to 6, long enough for ts 0 to pass every threshold. `tail_size` is 1
  with at most 2 messages, so eviction happens. A frame can be drawn between
  any two messages and the clock can tick between the three reads of a
  draw. `take(200)` is never reached with two keys. The run reaches about
  1.6 M states in 40 s.
* **gRPC.** 9 retries, enough to reach the 15 s cap (six doublings), and one
  status item per stream. The endpoint is one of three schemes (none,
  `http://`, `https://`) with a host or an empty one (`:50051`); each TLS file
  flag is absent, unreadable or readable, and the domain is given or not.
  That makes every early return of `build_tls_config` reachable, each in
  every mode. The run reaches about 237 k states in a few seconds.
* **systemd.** 7 retries, which also reaches the cap, and two changes of
  the unit. Two changes are enough for one to fall between the reads of a
  snapshot and the next to arrive while that snapshot's signal is queued.
  Six unit states cover every branch of `map_systemd_level`.
* **Pipeline.** Two source lines and one garbage line from the child. Both
  transform modes are chosen in `Init`.
* **Codec.** Watcher bags of one pair of strings of length ≤ 2, two pairs
  of length ≤ 1, or one pair whose key or value holds a tab or a newline. Watcher msgs are empty, one character (a letter, a space, a
  tab or a newline), or a letter, a tab or newline, and a letter. Ingest
  lines are five empty columns followed by any string of length ≤ 5 over the
  kv characters and the tab, which gives too few columns, exactly seven,
  extra ones, blank lines, and kv columns of up to four characters. Three
  parses. About 100 000 states.
* **Packs.** Two directories, each without a manifest, with an unreadable
  one, or with up to two threads; the packs dir may be missing or
  unreadable, or an entry may fail. Thread ids are `t1`, `t2` and the empty
  id. Each thread has a safe path or one with `..`, a kind or a blank one,
  and the file exists or not. It has no arg or one of `string ""`, `int ""`,
  `int "5"`, `bool "x"` or `float ""` (`float` is the unknown type). Its
  script is clean, has a deny-list hit, or is unreadable, and its smoke test
  passes or fails. Security is strict with `--smoke`. That gives duplicate
  ids within a manifest and across two, a failure of each check in code
  order, and every doctor error kind. The `--tvar` values use the declared
  key or an unknown one. The run reaches about 860 000 states in 40 s. The
  violation run needs one directory with one thread.

## Fairness

Weak fairness is assumed only for threads of the programs that are
runnable and never wait on anything the model leaves out:

* **Spine.** The broadcast loop and the accept loop's push and banner.
  Clients reading their sockets are the environment. `EventualDelivery`
  therefore states client progress as a premise, `ClientsRead`: weak
  fairness of each client's `Drain`. hawkd cannot enforce it. Without the
  premise TLC finds a client whose buffer stays full; `broadcast()` then
  blocks in `write_all` with the lock held, and the other client and the
  accept loop's push wait forever. This is the hazard of the blocking write
  at `main.rs:269`.
* **Pipeline.** Every hawk thread, plus an awk child that has input.
  `NoSilentLoss` assumes the identity transform prints what it reads. A child
  that filters lines or block-buffers its output forever is outside what the
  property claims.

The environment gets no fairness:

* producers' input;
* subscribers that connect, read or close;
* publishers that connect to the ingest socket;
* the child crashing.

Watchers, the app, the codec and the pack loader are checked for safety only.
`BroadcastRefined` is a safety property: `Broadcast`'s `Spec` has no
fairness.

## Findings

1. **stdin source.** `spawn_stdin_source` drops malformed lines unless run
   with `--strict`. Ingest handlers send a receipt. Spec 4.4 gives the two the
   same semantics.
2. **Clip panic (code bug).** `parse_error_frame` calls
   `String::truncate(240)` (`unix_ingest.rs:114`). It panics when byte 240 is
   inside a multi-byte character, so a non-strict ingest handler dies without
   sending the receipt, and its producer is disconnected. Tests with long
   ASCII lines pass.
3. **systemd backoff.** `watch_one_unit_once` can only return `Err`, so the
   backoff reset in `watch_one_unit` is dead code.
4. **Transform failures.** They are counted as io errors and never appear as
   fail-level frames, unlike spec 4.8 and 7.
5. **TLS files are not a startup error.** `connect_channel` calls
   `build_tls_config` on every attempt (`grpc_health.rs:199`), and hawkd's
   `main` never checks the files. A missing `--grpc-ca`, `--grpc-cert` or
   `--grpc-key`, or an unreadable PEM, is therefore an `Err` of
   `connect_channel`. `watch_one` sends a `connect failed` frame with the
   error and retries with backoff forever. Spec 7 classes "TLS files missing"
   as a startup error that aborts the process with a diagnostic.

Further observations are not given runs:

* **The table can be out of order for one frame.** `draw_entity_table`
  reads the clock, and `sorted_entities` reads it again and sorts by
  liveness at that later second. The state column shows liveness at the
  earlier one. If a TTL boundary passes between the two reads, a row shown
  Active can sit above a row shown Dead. `TableSortedWhenClockStill` holds
  only for a still clock; without that condition TLC finds this trace.
  Spec 4.3 says the engine takes `now` from its callers, which would avoid
  it.

* **`stale_s = 0`.** With `--stale-s 0`, which the `i64` flag accepts,
  `compute_liveness_with_ttl` tests Stale before the Active window. An entity
  is therefore Stale at age 0, where spec 8's formula gives Active.
* **Relay changes kv.** A frame relayed through hawkd can change its kv:
  `=true` becomes `("", "true")`, which is re-emitted as an empty token and
  dropped. `RelayStable` shows this is the only change a relay makes to a
  line hawkd accepted. `RoundTripExact` states what a watcher's bag needs to
  survive every hop:
  * keys free of `=`, and keys and values free of `;`, tab and newline;
  * no outer spaces;
  * no empty key with the value `true`.
  That is more than the value-only precondition of spec 8's round-trip law.
  No watcher checks any of it, so the property describes which frames
  survive; it does not claim that every frame does.
* **Nothing is escaped on the wire.** `to_tsv_line` joins the columns with
  tabs, and the callers end the line with `\n`. Spec 3 requires msg to have
  no tab or newline, but no watcher enforces it, and kv values carry free
  text such as a gRPC status message or a unit description. Without
  `WellFormedMsg` in its premise, `RoundTripExact` fails on a msg `a\na`:
  the viewer reads two lines, with six and two columns, and both fail to
  parse. A tab instead shifts the kv column, and the extra column is
  dropped silently. The same holds for a tab or newline in a kv value:
  without those clauses of `WellFormedPair`, TLC finds a value `a\ta` or
  `a\na` leaving the round trip.
* **A change just before the subscription is never shown.**
  `watch_one_unit_once` sends its first snapshot (`systemd.rs:142`) before
  `receive_properties_changed` (`systemd.rs:144-147`). If the unit changes
  between the two, no signal reports it, and the viewer shows the old state
  until the next change or failure. `CaughtUpWhileSubscribed` therefore
  covers only changes made after the subscription began. Without the
  `moved` premise, TLC finds this trace.
* **The ingest banner ignores `--client-banner`.** `handle_ingest_client`
  always writes `# hawkd ingest connected`. Spec 6 calls it optional.
* **The doctor skips failing entries.** `run_pack_doctor` reads the packs
  dir with `rd.flatten()`, which drops an entry that fails, where
  `load_packs`' `entry?` aborts. On such a tree the doctor reports OK and the
  loader fails. This is why `DoctorRejectsUnloadable` leaves out that outcome.
* **`hawk pack doctor` loads first.** `run_pack_cmd` calls
  `load_packs(..)?` before it matches the `pack` subcommand. A tree with a
  parse error or a collision therefore makes `hawk pack doctor` exit 1 with
  the load error and no report. Spec 6 gives exit 2 for doctor errors; only
  `hawk pack-doctor` reports them. Both exit nonzero, which
  `DoctorRejectsUnloadable` checks through `ExitCode`.
* **The doctor vouches for unusable defaults (spec gap).** This was a
  violation run (`DoctorVouchesDefaults`) in an earlier version. It was
  retired in favour of the TLS finding above.
  * `validate_arg_default` accepts an empty default for an int or bool arg,
    as spec 4.6 allows.
  * The doctor's smoke test passes it to awk as `-v n=`, which succeeds.
  * `main` merges `default_tvars` and runs `validate_tvars`, which rejects
    `""`. A pack the doctor passes therefore cannot be used as
    `--transform thread:<id>` without `--tvar`. `StartViewer` gives
    `invalid tvars` for it.
* **The viewer needs loadable packs.** `main` runs `load_packs(..)?` before
  it looks at `--transform`. A broken packs tree therefore stops the viewer
  even with `--transform none`; `StartViewer` gives `load failed`.
* **gRPC ids can collide.** `parse_watch_spec` derives a missing id by
  stripping the scheme and mapping `/` and `:` to `_`. `http://a:1` and
  `https://a:1`, or `a:1` and `a_1`, therefore share one entity.

## Not modelled

Left out on purpose:

* **An end-to-end product of `HawkdSpine` with the viewer.** The two meet
  only at the broadcast socket. `FanOutNoGap` and `EventualDelivery` state
  what each subscriber reads from it. `NoSilentLoss` states what the viewer
  does with every line it reads. `KvCodec` states what a line means on both
  sides. A product model would multiply the two state spaces and add no
  interaction that either side does not already see.
* **Doctor checks that only add warnings** (`check_header_and_terminator`,
  `scan_declared_arg_usage`, zero-thread packs). Warnings never change
  `ok()` or the exit status, which is what the doctor's properties are
  about.
* **The security scan's individual substring patterns.** The model keeps
  only each script's verdict.

Out of reach or not worth modelling:

* **TUI layout and styling**, the tail pane and key polling: pure output
  or terminal I/O.
* **clap parsing, socket binding and thread spawning** in the two `main`s:
  library and OS calls, done once before any concurrency. What the parsed
  flags decide is modelled: `StartViewer`, `ExitCode`, and GrpcWatch's
  `tls`.
* **`parse_watch_spec`'s id derivation:** string formatting. Its one
  hazard, colliding ids, is listed above.
* **`Endpoint::from_shared`, `tls_config` and `connect`:** library and
  network outcomes, left nondeterministic.
* **zbus's property cache.** `UnitProxy` is built with zbus's default
  caching, so a read may come from a cache that zbus updates from the same
  PropertiesChanged signals. `SystemdWatch` takes each read to return the
  unit's current value. Whether zbus updates its cache before the watcher's
  stream yields the signal is library internals. If it does not, a snapshot
  taken for a signal can still be stale, which this model cannot show.
* **The awk language itself.**
