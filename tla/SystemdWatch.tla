----------------------------- MODULE SystemdWatch -----------------------------
(***************************************************************************)
(* One systemd unit watcher, watch_one_unit / watch_one_unit_once in       *)
(* crates/hawkd/src/systemd.rs: connect to the system bus, build the       *)
(* proxies, emit a snapshot, subscribe to PropertiesChanged and emit a     *)
(* snapshot per signal.  Every error, and the end of the signal stream,    *)
(* returns Err: a fail frame is emitted and the watcher sleeps.            *)
(***************************************************************************)
EXTENDS Integers, Sequences, WatchBackoff

CONSTANTS
    MaxRetries,    \* bound on the sleeps the model lets a watcher take
    MaxChanges,    \* bound on changes of the unit's state by systemd
    Units          \* unit states in play: [active, sub, load]

VARIABLES
    pc,        \* "bus", "setup", "first", "subscribe", "stream", "snapshot", "sleep"
    backoff,   \* backoff_ms
    delay,     \* length of the current or last sleep
    retries,   \* sleeps taken (bounded)
    sinceOpen, \* history: sleeps since the last successful bus connection
    got,       \* properties read so far by the running emit_snapshot_frame
    pending,   \* PropertiesChanged signals queued on the subscription
    unit,      \* environment: the unit's state in systemd
    changes,   \* environment: changes of the unit so far (bounded)
    moved,     \* history: the unit changed since the current subscription began
    last       \* the last frame sent on the spine: [level, msg]

vars == <<pc, backoff, delay, retries, sinceOpen, got, pending, unit, changes, moved, last>>
env == <<unit, changes>>

NoFrame == [level |-> "none", msg |-> "none"]

\* map_systemd_level (the states are already lower case here).
MapSystemdLevel(a, s, l) ==
    CASE l = "not-found"                      -> "fail"
      [] a = "failed" \/ s = "failed"         -> "fail"
      [] a = "active"                         -> "ok"
      [] a \in {"activating", "reloading"}    -> "info"
      [] a \in {"deactivating", "inactive"}   -> "warn"
      [] OTHER                                -> "unknown"

\* emit_snapshot_frame: msg = active:sub.
SnapshotFrame(a, s, l) == [level |-> MapSystemdLevel(a, s, l), msg |-> a \o ":" \o s]

\* emit_error_frame(.., "systemd watch failed", err)
ErrorFrame == [level |-> "fail", msg |-> "systemd watch failed"]

\* The PropertiesChanged subscription exists from receive_properties_changed
\* until watch_one_unit_once returns.
Subscribed == pc \in {"stream", "snapshot"}

Init ==
    /\ pc = "bus"
    /\ backoff = BaseBackoffMs
    /\ delay = 0
    /\ retries = 0
    /\ sinceOpen = 0
    /\ got = <<>>
    /\ pending = 0
    /\ unit \in Units
    /\ changes = 0
    /\ moved = FALSE
    /\ last = NoFrame

\* systemd changes the unit; a subscribed watcher gets a signal queued.
Change(u) ==
    /\ changes < MaxChanges
    /\ u # unit
    /\ unit' = u
    /\ changes' = changes + 1
    /\ pending' = IF Subscribed THEN pending + 1 ELSE pending
    /\ moved' = (moved \/ Subscribed)
    /\ UNCHANGED <<pc, backoff, delay, retries, sinceOpen, got, last>>

\* Err(err) from watch_one_unit_once: emit_error_frame, sleep, double.  The
\* stream, and the signals queued on it, are dropped.
Fail ==
    /\ retries < MaxRetries
    /\ last' = ErrorFrame
    /\ pc' = "sleep"
    /\ delay' = backoff
    /\ backoff' = NextBackoff(backoff)
    /\ retries' = retries + 1
    /\ got' = <<>>
    /\ pending' = 0
    /\ UNCHANGED <<sinceOpen, moved>> /\ UNCHANGED env

\* zbus::Connection::system() fails.
BusFail == pc = "bus" /\ Fail

BusOk ==
    /\ pc = "bus"
    /\ pc' = "setup"
    /\ sinceOpen' = 0
    /\ UNCHANGED <<backoff, delay, retries, got, pending, moved, last>> /\ UNCHANGED env

\* ManagerProxy::new, get_unit, UnitProxy and PropertiesProxy builders.
SetupFail == pc = "setup" /\ Fail

SetupOk ==
    /\ pc = "setup"
    /\ pc' = "first"
    /\ UNCHANGED <<backoff, delay, retries, sinceOpen, got, pending, moved, last>> /\ UNCHANGED env

\* emit_snapshot_frame reads ActiveState, then SubState, each its own await,
\* so systemd may change the unit between the reads.  "first" is the call
\* before receive_properties_changed, "snapshot" the one per signal.
ReadState ==
    /\ pc \in {"first", "snapshot"}
    /\ Len(got) < 2
    /\ got' = Append(got, IF got = <<>> THEN unit.active ELSE unit.sub)
    /\ UNCHANGED <<pc, backoff, delay, retries, sinceOpen, pending, moved, last>> /\ UNCHANGED env

\* The LoadState read, then (Description errors are swallowed) the level is
\* mapped and the frame sent from the three values read.
SnapshotOk ==
    /\ pc \in {"first", "snapshot"}
    /\ Len(got) = 2
    /\ last' = SnapshotFrame(got[1], got[2], unit.load)
    /\ got' = <<>>
    /\ pc' = IF pc = "first" THEN "subscribe" ELSE "stream"
    /\ UNCHANGED <<backoff, delay, retries, sinceOpen, pending, moved>> /\ UNCHANGED env

\* A property read fails: the ? returns Err.
SnapshotFail == pc \in {"first", "snapshot"} /\ Fail

\* receive_properties_changed() fails.
SubscribeFail == pc = "subscribe" /\ Fail

SubscribeOk ==
    /\ pc = "subscribe"
    /\ pc' = "stream"
    /\ pending' = 0
    /\ moved' = FALSE
    /\ UNCHANGED <<backoff, delay, retries, sinceOpen, got, last>> /\ UNCHANGED env

\* Mutant: a signal is drained and the frame already sent stands for the
\* new state, no properties are read again.
SignalNoSnapshot ==
    /\ pc = "stream"
    /\ pending > 0
    /\ pending' = pending - 1
    /\ UNCHANGED <<pc, backoff, delay, retries, sinceOpen, got, moved, last>> /\ UNCHANGED env

\* stream.next() yields a signal: emit_snapshot_frame runs again.
Signal ==
    /\ pc = "stream"
    /\ pending > 0
    /\ pending' = pending - 1
    /\ pc' = "snapshot"
    /\ UNCHANGED <<backoff, delay, retries, sinceOpen, got, moved, last>> /\ UNCHANGED env

\* stream.next() yields None: Err("properties stream ended").
StreamEnd == pc = "stream" /\ Fail

Wake ==
    /\ pc = "sleep"
    /\ pc' = "bus"
    /\ sinceOpen' = sinceOpen + 1
    /\ UNCHANGED <<backoff, delay, retries, got, pending, moved, last>> /\ UNCHANGED env

Next ==
    \/ BusFail \/ BusOk \/ SetupFail \/ SetupOk
    \/ ReadState \/ SnapshotOk \/ SnapshotFail \/ SubscribeFail \/ SubscribeOk
    \/ Signal \/ StreamEnd \/ Wake
    \/ \E u \in Units : Change(u)

Spec == Init /\ [][Next]_vars

-----------------------------------------------------------------------------
Fields(f) == {u[f] : u \in Units}

TypeOK ==
    /\ pc \in {"bus", "setup", "first", "subscribe", "stream", "snapshot", "sleep"}
    /\ backoff \in BackoffValues
    /\ delay \in BackoffValues \cup {0}
    /\ retries \in 0..MaxRetries
    /\ sinceOpen \in 0..MaxRetries
    /\ Len(got) <= 2
    /\ pending \in 0..MaxChanges
    /\ unit \in Units
    /\ changes \in 0..MaxChanges
    /\ moved \in BOOLEAN
    /\ last \in {NoFrame, ErrorFrame}
                \cup {SnapshotFrame(a, s, l) : a \in Fields("active"), s \in Fields("sub"),
                                               l \in Fields("load")}

(***************************************************************************)
(* Once subscribed, the watcher is never left showing a stale unit: when   *)
(* the unit has changed since receive_properties_changed and no signal is  *)
(* queued, the last frame sent is the snapshot of the unit's current       *)
(* state.  emit_snapshot_frame reads its properties in three awaits and    *)
(* systemd may change the unit between them; the frame may then mix two    *)
(* states, and the signal queued by that change must make the loop         *)
(* (systemd.rs:149-151) read again.  A change made before the subscription *)
(* began is outside this claim: no signal reports it (systemd.rs:142-147). *)
(***************************************************************************)
CaughtUpWhileSubscribed ==
    (pc = "stream" /\ pending = 0 /\ moved)
        => last = SnapshotFrame(unit.active, unit.sub, unit.load)

(***************************************************************************)
(* Retry schedule (spec 4.5 "same exponential-backoff retry policy as gRPC *)
(* watch", 5 "reset on successful connect/open"): every sleep lasts 250 ms *)
(* doubled once per earlier sleep since the last successful bus            *)
(* connection, capped at 15 s.                                             *)
(***************************************************************************)
RetrySchedule == pc = "sleep" => delay = SpecDelay(sinceOpen)

=============================================================================
