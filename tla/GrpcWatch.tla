------------------------------ MODULE GrpcWatch ------------------------------
(***************************************************************************)
(* One gRPC health watcher, watch_one in crates/hawkd/src/grpc_health.rs:  *)
(* connect (5 s connect / 15 s call timeouts, seen here as failures), open *)
(* the Watch stream, emit a frame per status, and on any failure emit a    *)
(* fail frame and sleep the backoff before the next attempt. The watch   *)
(* spec's endpoint and the daemon's TLS flags (GrpcTlsFiles) are fixed at  *)
(* startup and chosen in Init; connect_channel is modelled by what it      *)
(* checks, in its order.                                                   *)
(***************************************************************************)
EXTENDS Integers, WatchBackoff

CONSTANTS
    MaxRetries,  \* bound on the sleeps the model lets a watcher take
    MaxItems,    \* bound on the status messages of one stream
    Schemes,     \* scheme prefixes a raw endpoint may carry ("" for none)
    Hosts,       \* hosts of a raw endpoint ("" for one like ":50051")
    FileStates,  \* a --grpc-ca/cert/key flag: "none", "unreadable", "ok"
    NoDomain,    \* --grpc-domain not given
    NoError      \* connect_channel's checks all passed

TlsModes == {"off", "tls", "mtls"}

\* WatchSpec.endpoint, reduced to its scheme and host.
RawEndpoints == [scheme : Schemes, host : Hosts]

\* GrpcTlsFiles: the mode and whether each path flag was given and readable.
TlsFilesSet == [mode : TlsModes, ca : FileStates, cert : FileStates,
                key : FileStates, domain : {NoDomain, "d"}]

\* normalize_endpoint_uri: keep an http(s) scheme, else prepend one by mode.
NormalizeEndpointUri(raw, mode) ==
    IF raw.scheme \in {"http://", "https://"} THEN raw
    ELSE [raw EXCEPT !.scheme = IF mode = "off" THEN "http://" ELSE "https://"]

\* derive_host_from_uri: the text between "://" and the first '/' or ':'.
DeriveHostFromUri(uri) == IF uri.host = "" THEN NoDomain ELSE uri.host

\* build_tls_config: its early returns, in order; NoError when Ok.
BuildTlsConfigError(uri, t) ==
    CASE t.ca = "none"         -> "tls requires --grpc-ca"
      [] t.ca = "unreadable"   -> "read ca pem"
      [] t.domain = NoDomain /\ DeriveHostFromUri(uri) = NoDomain
                               -> "unable to derive domain name"
      [] t.mode = "mtls" /\ t.cert = "none"       -> "mtls requires --grpc-cert"
      [] t.mode = "mtls" /\ t.key = "none"        -> "mtls requires --grpc-key"
      [] t.mode = "mtls" /\ t.cert = "unreadable" -> "read client cert"
      [] t.mode = "mtls" /\ t.key = "unreadable"  -> "read client key"
      [] OTHER -> NoError

\* The TLS error of connect_channel: none when the mode is off.
TlsError(raw, t) ==
    IF t.mode = "off" THEN NoError
    ELSE BuildTlsConfigError(NormalizeEndpointUri(raw, t.mode), t)

\* connect_channel's possible Err values. Endpoint::from_shared may reject
\* a uri with an empty host; ep.tls_config and ep.connect fail by the
\* server, network or certificate contents, which the model leaves open.
ConnectErrors(raw, t) ==
    (IF raw.host = "" THEN {"bad endpoint uri"} ELSE {})
    \cup (IF TlsError(raw, t) # NoError THEN {TlsError(raw, t)}
          ELSE {"connect"} \cup (IF t.mode = "off" THEN {} ELSE {"tls_config"}))

\* connect_channel can return Ok(channel).
CanConnect(raw, t) == raw.host # "" /\ TlsError(raw, t) = NoError

ServingStatuses == {"SERVING", "NOT_SERVING", "SERVICE_UNKNOWN", "UNKNOWN", "OUT_OF_RANGE"}

VARIABLES
    pc,        \* "connect", "watch", "stream", "sleep"
    backoff,   \* backoff_ms
    delay,     \* length of the current or last sleep
    retries,   \* sleeps taken (bounded)
    sinceOpen, \* history: sleeps since the last successful connect
    items,     \* status messages read from the current stream
    last,      \* the last frame sent on the spine: [level, msg, error]
    cause,     \* history: the step that ended the last attempt before a sleep
    endpoint,  \* the watch spec's raw endpoint (fixed)
    tls        \* the daemon's GrpcTlsFiles (fixed)

vars == <<pc, backoff, delay, retries, sinceOpen, items, last, cause, endpoint, tls>>

NoFrame == [level |-> "none", msg |-> "none", error |-> NoError]

\* emit_status_frame: ServingStatus::try_from(..).unwrap_or(Unknown), then
\* SERVING -> ok, NOT_SERVING -> fail, SERVICE_UNKNOWN -> warn, else unknown.
StatusFrame(st) ==
    LET f(l, m) == [level |-> l, msg |-> m, error |-> NoError] IN
    CASE st = "SERVING"         -> f("ok", "SERVING")
      [] st = "NOT_SERVING"     -> f("fail", "NOT_SERVING")
      [] st = "SERVICE_UNKNOWN" -> f("warn", "SERVICE_UNKNOWN")
      [] OTHER                  -> f("unknown", "UNKNOWN")

\* emit_error_frame(.., msg, err): level fail, kv error = err.
ErrorFrame(msg, err) == [level |-> "fail", msg |-> msg, error |-> err]

Init ==
    /\ pc = "connect"
    /\ backoff = BaseBackoffMs
    /\ delay = 0
    /\ retries = 0
    /\ sinceOpen = 0
    /\ items = 0
    /\ last = NoFrame
    /\ cause = "none"
    /\ endpoint \in RawEndpoints
    /\ tls \in TlsFilesSet

\* tokio::time::sleep(backoff_ms) then backoff_ms = min(2 * backoff_ms, max).
Sleep(why) ==
    /\ retries < MaxRetries
    /\ cause' = why
    /\ pc' = "sleep"
    /\ delay' = backoff
    /\ backoff' = NextBackoff(backoff)
    /\ retries' = retries + 1

\* connect_channel fails (bad uri, TLS files, connect error or timeout).
ConnectFail(err) ==
    /\ pc = "connect"
    /\ Sleep("connect")
    /\ last' = ErrorFrame("connect failed", err)
    /\ UNCHANGED <<sinceOpen, items, endpoint, tls>>

\* Mutant: the backoff is not reset after a successful connect.
ConnectOkNoReset ==
    /\ pc = "connect"
    /\ pc' = "watch"
    /\ sinceOpen' = 0
    /\ items' = 0
    /\ CanConnect(endpoint, tls)
    /\ UNCHANGED <<backoff, delay, retries, last, endpoint, tls, cause>>

\* connect_channel succeeds: backoff_ms = 250.
ConnectOk ==
    /\ pc = "connect"
    /\ pc' = "watch"
    /\ backoff' = BaseBackoffMs
    /\ sinceOpen' = 0
    /\ items' = 0
    /\ CanConnect(endpoint, tls)
    /\ UNCHANGED <<delay, retries, last, endpoint, tls, cause>>

\* client.watch(req) returns Err(status).
WatchFail ==
    /\ pc = "watch"
    /\ Sleep("watch")
    /\ last' = ErrorFrame("watch failed", "status")
    /\ UNCHANGED <<sinceOpen, items, endpoint, tls>>

WatchOk ==
    /\ pc = "watch"
    /\ pc' = "stream"
    /\ UNCHANGED <<backoff, delay, retries, sinceOpen, items, last, endpoint, tls, cause>>

\* stream.next() yields Ok(msg).
StreamItem(st) ==
    /\ pc = "stream"
    /\ items < MaxItems
    /\ items' = items + 1
    /\ last' = StatusFrame(st)
    /\ UNCHANGED <<pc, backoff, delay, retries, sinceOpen, endpoint, tls, cause>>

\* Mutant: the stream error breaks out of the loop without its frame.
StreamErrorNoFrame ==
    /\ pc = "stream"
    /\ Sleep("stream error")
    /\ UNCHANGED <<sinceOpen, items, last, endpoint, tls>>

\* stream.next() yields Err(e): fail frame, break, sleep.
StreamError ==
    /\ pc = "stream"
    /\ Sleep("stream error")
    /\ last' = ErrorFrame("stream error", "status")
    /\ UNCHANGED <<sinceOpen, items, endpoint, tls>>

\* stream.next() yields None: the loop ends without a frame, sleep.
StreamEnd ==
    /\ pc = "stream"
    /\ Sleep("stream end")
    /\ UNCHANGED <<sinceOpen, items, last, endpoint, tls>>

\* The sleep ends; the outer loop starts the next attempt.
Wake ==
    /\ pc = "sleep"
    /\ pc' = "connect"
    /\ sinceOpen' = sinceOpen + 1
    /\ UNCHANGED <<backoff, delay, retries, items, last, endpoint, tls, cause>>

Next ==
    \/ \E err \in ConnectErrors(endpoint, tls) : ConnectFail(err)
    \/ ConnectOk \/ WatchFail \/ WatchOk
    \/ \E st \in ServingStatuses : StreamItem(st)
    \/ StreamError \/ StreamEnd \/ Wake

Spec == Init /\ [][Next]_vars

-----------------------------------------------------------------------------
TypeOK ==
    /\ pc \in {"connect", "watch", "stream", "sleep"}
    /\ backoff \in BackoffValues
    /\ delay \in BackoffValues \cup {0}
    /\ retries \in 0..MaxRetries
    /\ sinceOpen \in 0..MaxRetries
    /\ items \in 0..MaxItems
    /\ last \in {NoFrame} \cup {StatusFrame(st) : st \in ServingStatuses}
                \cup {ErrorFrame("connect failed", e) : e \in ConnectErrors(endpoint, tls)}
                \cup {ErrorFrame(m, "status") : m \in {"watch failed", "stream error"}}
    /\ cause \in {"none", "connect", "watch", "stream error", "stream end"}
    /\ endpoint \in RawEndpoints
    /\ tls \in TlsFilesSet

(***************************************************************************)
(* Retry schedule (spec 4.5 and 5): every sleep lasts 250 ms doubled once  *)
(* per earlier sleep since the last successful connect, capped at 15 s;    *)
(* a connect that succeeds restarts the schedule at 250 ms.                *)
(***************************************************************************)
RetrySchedule == pc = "sleep" => delay = SpecDelay(sinceOpen)

(***************************************************************************)
(* A status is left on show while disconnected only after a clean end:    *)
(* each failed attempt of watch_one (connect_channel, client.watch, a     *)
(* stream error) sends a fail frame before its sleep, so the entity shows *)
(* the failure while the watcher retries.  Only a stream that ends        *)
(* without an error reaches the sleep at the bottom of the loop with no   *)
(* frame, leaving whatever this server last reported (SERVING included)   *)
(* on show until the next attempt or the TTL.                             *)
(***************************************************************************)
StaleStatusOnlyAfterCleanEnd ==
    (pc = "sleep" /\ last.level # "fail") => cause = "stream end"

\* connect_channel's errors that come from a TLS file flag missing or
\* naming a file that cannot be read.
TlsFileErrors == {"tls requires --grpc-ca", "read ca pem", "mtls requires --grpc-cert",
                  "mtls requires --grpc-key", "read client cert", "read client key"}

(***************************************************************************)
(* Startup errors abort (spec 7): TLS files missing are a startup error,   *)
(* so hawkd aborts with a diagnostic before any watcher runs; the watcher  *)
(* of connect_channel/build_tls_config must never emit a frame or sleep    *)
(* on one.                                                                 *)
(***************************************************************************)
StartupErrorsAbort ==
    TlsError(endpoint, tls) \in TlsFileErrors => last = NoFrame /\ retries = 0

=============================================================================
