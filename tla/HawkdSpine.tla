----------------------------- MODULE HawkdSpine -----------------------------
(***************************************************************************)
(* The hawkd spine (crates/hawkd/src/main.rs, unix_ingest.rs).             *)
(*                                                                         *)
(* Producers (ingest-socket handlers and the stdin source) read lines,     *)
(* parse them and post encoded records to one mpsc channel, the spine.     *)
(* The broadcast loop takes one record at a time, locks the client list    *)
(* and writes the record to each client in list order, removing in place  *)
(* every client whose write fails.  The accept loop writes a banner to     *)
(* each new client and then appends it to the list under the same lock.   *)
(*                                                                         *)
(* Data is abstracted: a record names its producer and the number of the   *)
(* input line it came from; a client socket is open or closed by its peer, *)
(* and its send buffer has room or is full.                                *)
(***************************************************************************)
EXTENDS Naturals, Sequences, SequencesExt, FiniteSets

CONSTANTS
    Producers,      \* producer threads: ingest connections and the stdin source
    StdinProducer,  \* the member of Producers that is spawn_stdin_source, if any
    Subscribers,    \* clients of the broadcast socket
    NoSub,          \* "no client in the accept loop's hands"
    Strict,         \* --strict
    Banner,         \* --client-banner
    MaxLines,       \* lines a producer reads before end of input
    Cap,            \* parse_error_frame's clip length in bytes (240)
    LineShapes      \* malformed lines: sequences of UTF-8 character widths

ASSUME /\ Strict \in BOOLEAN /\ Banner \in BOOLEAN
       /\ MaxLines \in Nat \ {0}
       /\ NoSub \notin Subscribers
       /\ Cap \in Nat /\ LineShapes \subseteq Seq(1..4)

VARIABLES
    pc,         \* pc[p]: "idle" before an ingest connection is accepted,
                \* "read" while p's loop runs, "done" after it breaks
    nread,      \* nread[p]: lines p has read
    spine,      \* the mpsc channel of encoded records, oldest first
    backlog,    \* clients connected to the listener and not yet accepted
    accepting,  \* client between accept()/banner write and push, or NoSub
    clients,    \* the Vec<UnixStream> behind the mutex, in list order
    peer,       \* peer[s]: "idle" (not connected), "open" or "closed"
    bc,         \* broadcast(): [busy, rec, i], busy while holding the lock
    recv,       \* recv[s]: what client s has read from its socket
    sent,       \* history: every record the broadcast loop took off the spine
    joined,     \* joined[s]: Len(sent) when s was pushed onto clients
    malformed,  \* malformed[p]: malformed lines p has read (history)
    full        \* full[s]: s's socket buffer is full, a write to it blocks

vars == <<pc, nread, spine, backlog, accepting, clients, peer, bc, recv,
          sent, joined, malformed, full>>

(***************************************************************************)
(* Records.  "frame" is a parsed line re-emitted by to_tsv_line; "receipt" *)
(* is the RECEIPT_EVENT of parse_error_frame; "diag" is the stdin source's *)
(* "# hawkd strict parse error" comment; "banner" is "# hawkd connected".  *)
(***************************************************************************)
Rec(type, p, n) == [type |-> type, src |-> p, n |-> n]
BannerRec(s) == Rec("banner", s, 0)
RecordTypes == {"frame", "receipt", "diag", "banner"}
Record == [type : RecordTypes, src : Producers \cup Subscribers, n : 0..MaxLines]

IsStdin(p) == p = StdinProducer

\* broadcast() not running; the record slot is meaningless then.
Idle == [busy |-> FALSE, rec |-> Rec("frame", CHOOSE p \in Producers : TRUE, 0), i |-> 1]

InList(s) == \E k \in 1..Len(clients) : clients[k] = s
Position(s) == CHOOSE k \in 1..Len(clients) : clients[k] = s

\* The records a client has read after its banner.
Data(s) == SelectSeq(recv[s], LAMBDA r : r.type # "banner")

\* Length in bytes of a line given by its characters' UTF-8 widths.
ByteLen(l) == FoldLeft(LAMBDA a, w : a + w, 0, l)

\* str::is_char_boundary(n): n bytes end exactly after some character.
CharBoundary(l, n) == \E k \in 0..Len(l) : ByteLen(SubSeq(l, 1, k)) = n

\* parse_error_frame: if clipped.len() > 240 { clipped.truncate(240) }, and
\* String::truncate panics when 240 is not a char boundary.
TruncatePanics(l) == ByteLen(l) > Cap /\ ~CharBoundary(l, Cap)

-----------------------------------------------------------------------------
\* main: an empty client list and spine, the accept loop started, the ingest
\* listener (--ingest-path) waiting for publishers, and the stdin source
\* (--source stdin) reading.
Init ==
    /\ pc = [p \in Producers |-> IF IsStdin(p) THEN "read" ELSE "idle"]
    /\ nread = [p \in Producers |-> 0]
    /\ spine = <<>>
    /\ backlog = {}
    /\ accepting = NoSub
    /\ clients = <<>>
    /\ peer = [s \in Subscribers |-> "idle"]
    /\ bc = Idle
    /\ recv = [s \in Subscribers |-> <<>>]
    /\ sent = <<>>
    /\ joined = [s \in Subscribers |-> 0]
    /\ malformed = [p \in Producers |-> 0]
    /\ full = [s \in Subscribers |-> FALSE]

ClientVars == <<backlog, accepting, clients, peer, bc, recv, sent, joined, full>>

(***************************************************************************)
(* Producers: one loop iteration of handle_ingest_client or of the stdin   *)
(* thread of spawn_stdin_source, by the outcome of parse_tsv_line.         *)
(***************************************************************************)
ReadLine(p) ==
    /\ pc[p] = "read"
    /\ nread[p] < MaxLines
    /\ nread' = [nread EXCEPT ![p] = @ + 1]

\* Ok(Some(frame)): re-emit with ts stamped, send on the spine.
ReadFrame(p) ==
    /\ ReadLine(p)
    /\ spine' = Append(spine, Rec("frame", p, nread[p] + 1))
    /\ UNCHANGED <<pc, malformed, ClientVars>>

\* Ok(None): blank or comment line, dropped.
ReadBlank(p) ==
    /\ ReadLine(p)
    /\ UNCHANGED <<pc, spine, malformed, ClientVars>>

\* Err(e) in an ingest handler: parse_error_frame clips the raw line, the
\* RECEIPT_EVENT frame is sent, and the loop stops if strict.
IngestMalformed(p, l) ==
    /\ ~IsStdin(p)
    /\ ~TruncatePanics(l)
    /\ ReadLine(p)
    /\ malformed' = [malformed EXCEPT ![p] = @ + 1]
    /\ spine' = Append(spine, Rec("receipt", p, nread[p] + 1))
    /\ pc' = IF Strict THEN [pc EXCEPT ![p] = "done"] ELSE pc
    /\ UNCHANGED ClientVars

\* Err(e) in an ingest handler whose line is clipped inside a character:
\* truncate panics in parse_error_frame, before the send; the handler's
\* thread unwinds (std::thread::spawn, default panic strategy) and drops
\* the connection.  Other threads are unaffected.
IngestClipPanic(p, l) ==
    /\ ~IsStdin(p)
    /\ TruncatePanics(l)
    /\ ReadLine(p)
    /\ malformed' = [malformed EXCEPT ![p] = @ + 1]
    /\ pc' = [pc EXCEPT ![p] = "done"]
    /\ UNCHANGED <<spine, ClientVars>>

\* Err(e) in the stdin source: only in strict mode is anything sent, the
\* "# hawkd strict parse error" comment, and the source stops.
StdinMalformed(p) ==
    /\ IsStdin(p)
    /\ ReadLine(p)
    /\ malformed' = [malformed EXCEPT ![p] = @ + 1]
    /\ IF Strict
          THEN /\ spine' = Append(spine, Rec("diag", p, nread[p] + 1))
               /\ pc' = [pc EXCEPT ![p] = "done"]
          ELSE UNCHANGED <<spine, pc>>
    /\ UNCHANGED ClientVars

\* spawn_unix_ingest's accept loop: a publisher connects, incoming() yields
\* Ok(stream) and a handle_ingest_client thread starts; it writes the
\* "# hawkd ingest connected" line, whatever --client-banner says, ignoring
\* the result, and enters its read loop.  Accept errors are skipped.
IngestAccept(p) ==
    /\ pc[p] = "idle"
    /\ pc' = [pc EXCEPT ![p] = "read"]
    /\ UNCHANGED <<nread, spine, malformed, ClientVars>>

\* read_line returns 0 or Err, or lines() ends or yields Err: the loop breaks.
EndOfInput(p) ==
    /\ pc[p] = "read"
    /\ pc' = [pc EXCEPT ![p] = "done"]
    /\ UNCHANGED <<nread, spine, malformed, ClientVars>>

-----------------------------------------------------------------------------
(***************************************************************************)
(* Broadcast clients and accept_loop.                                      *)
(***************************************************************************)
\* A client connects to the broadcast socket (kernel backlog).
Connect(s) ==
    /\ peer[s] = "idle"
    /\ peer' = [peer EXCEPT ![s] = "open"]
    /\ backlog' = backlog \cup {s}
    /\ UNCHANGED <<pc, nread, spine, accepting, clients, bc, recv, sent, joined, malformed, full>>

\* The client's peer closes its end, at any time.
Close(s) ==
    /\ peer[s] = "open"
    /\ peer' = [peer EXCEPT ![s] = "closed"]
    /\ UNCHANGED <<pc, nread, spine, backlog, accepting, clients, bc, recv, sent, joined, malformed, full>>

\* The client's peer reads what is buffered for it, making room.
Drain(s) ==
    /\ peer[s] = "open"
    /\ full[s]
    /\ full' = [full EXCEPT ![s] = FALSE]
    /\ UNCHANGED <<pc, nread, spine, backlog, accepting, clients, peer, bc, recv, sent, joined, malformed>>

\* listener.incoming() yields Ok(stream); the banner write's error is ignored.
AcceptBanner(s) ==
    /\ accepting = NoSub
    /\ s \in backlog
    /\ backlog' = backlog \ {s}
    /\ accepting' = s
    /\ recv' = IF Banner /\ peer[s] = "open"
                  THEN [recv EXCEPT ![s] = Append(@, BannerRec(s))]
                  ELSE recv
    /\ UNCHANGED <<pc, nread, spine, clients, peer, bc, sent, joined, malformed, full>>

\* Mutant: the push does not wait for the lock held by broadcast().
AcceptPushNoLock ==
    /\ accepting # NoSub
    /\ clients' = Append(clients, accepting)
    /\ joined' = [joined EXCEPT ![accepting] = Len(sent)]
    /\ accepting' = NoSub
    /\ UNCHANGED <<pc, nread, spine, backlog, peer, bc, recv, sent, malformed, full>>

\* clients.lock() then lock.push(stream): waits while broadcast() holds the lock.
AcceptPush ==
    /\ accepting # NoSub
    /\ ~bc.busy
    /\ clients' = Append(clients, accepting)
    /\ joined' = [joined EXCEPT ![accepting] = Len(sent)]
    /\ accepting' = NoSub
    /\ UNCHANGED <<pc, nread, spine, backlog, peer, bc, recv, sent, malformed, full>>

-----------------------------------------------------------------------------
(***************************************************************************)
(* The broadcast loop of main: for bytes in spine_rx { broadcast(..) }.    *)
(***************************************************************************)
\* Take the next record off the spine and lock the client list.
BcastRecv ==
    /\ ~bc.busy
    /\ spine # <<>>
    /\ bc' = [busy |-> TRUE, rec |-> Head(spine), i |-> 1]
    /\ spine' = Tail(spine)
    /\ sent' = Append(sent, Head(spine))
    /\ UNCHANGED <<pc, nread, backlog, accepting, clients, peer, recv, joined, malformed, full>>

\* write_all succeeds on lock[i]: flush, i += 1.  A blocking socket: while
\* the peer is open and its buffer is full, write_all waits, lock held.
\* The write may fill the buffer.
BcastWrite ==
    /\ bc.busy
    /\ bc.i <= Len(clients)
    /\ peer[clients[bc.i]] = "open"
    /\ ~full[clients[bc.i]]
    /\ recv' = [recv EXCEPT ![clients[bc.i]] = Append(@, bc.rec)]
    /\ bc' = [bc EXCEPT !.i = @ + 1]
    /\ \E f \in BOOLEAN : full' = [full EXCEPT ![clients[bc.i]] = f]
    /\ UNCHANGED <<pc, nread, spine, backlog, accepting, clients, peer, sent, joined, malformed>>

\* Mutant: after lock.remove(i) the index is still advanced, skipping the
\* client that moved into slot i.
BcastDropSkip ==
    /\ bc.busy
    /\ bc.i <= Len(clients)
    /\ peer[clients[bc.i]] = "closed"
    /\ clients' = RemoveAt(clients, bc.i)
    /\ bc' = [bc EXCEPT !.i = @ + 1]
    /\ UNCHANGED <<pc, nread, spine, backlog, accepting, peer, recv, sent, joined, malformed, full>>

\* Mutant: a failed write is neither removed nor passed over (the remove is
\* forgotten and the loop retries the same slot).
BcastDropKeep ==
    /\ bc.busy
    /\ bc.i <= Len(clients)
    /\ peer[clients[bc.i]] = "closed"
    /\ UNCHANGED vars

\* write_all fails on lock[i]: lock.remove(i), i unchanged.
BcastDrop ==
    /\ bc.busy
    /\ bc.i <= Len(clients)
    /\ peer[clients[bc.i]] = "closed"
    /\ clients' = RemoveAt(clients, bc.i)
    /\ UNCHANGED <<pc, nread, spine, backlog, accepting, peer, bc, recv, sent, joined, malformed, full>>

\* while i < lock.len() ends: the guard is dropped and the lock released.
BcastDone ==
    /\ bc.busy
    /\ bc.i > Len(clients)
    /\ bc' = Idle
    /\ UNCHANGED <<pc, nread, spine, backlog, accepting, clients, peer, recv, sent, joined, malformed, full>>

-----------------------------------------------------------------------------
Producer(p) ==
    \/ ReadFrame(p) \/ ReadBlank(p) \/ StdinMalformed(p)
    \/ \E l \in LineShapes : IngestMalformed(p, l) \/ IngestClipPanic(p, l)
    \/ EndOfInput(p) \/ IngestAccept(p)

Daemon == AcceptPush \/ BcastRecv \/ BcastWrite \/ BcastDrop \/ BcastDone

Next ==
    \/ \E p \in Producers : Producer(p)
    \/ \E s \in Subscribers : Connect(s) \/ Close(s) \/ Drain(s) \/ AcceptBanner(s)
    \/ Daemon

\* hawkd's own threads (accept loop, broadcast loop) are scheduled fairly;
\* producers and client peers are external and need not make progress.
Fairness ==
    /\ WF_vars(AcceptPush)
    /\ \A s \in Subscribers : WF_vars(AcceptBanner(s))
    /\ WF_vars(BcastRecv) /\ WF_vars(BcastWrite)
    /\ WF_vars(BcastDrop) /\ WF_vars(BcastDone)

Spec == Init /\ [][Next]_vars /\ Fairness

-----------------------------------------------------------------------------
TypeOK ==
    /\ pc \in [Producers -> {"idle", "read", "done"}]
    /\ nread \in [Producers -> 0..MaxLines]
    /\ spine \in Seq(Record)
    /\ backlog \subseteq Subscribers
    /\ accepting \in Subscribers \cup {NoSub}
    /\ clients \in Seq(Subscribers)
    /\ peer \in [Subscribers -> {"idle", "open", "closed"}]
    /\ bc \in [busy : BOOLEAN, rec : Record, i : 1..Len(clients) + 1]
    /\ recv \in [Subscribers -> Seq(Record)]
    /\ sent \in Seq(Record)
    /\ joined \in [Subscribers -> Nat]
    /\ malformed \in [Producers -> 0..MaxLines]
    /\ full \in [Subscribers -> BOOLEAN]

(***************************************************************************)
(* Fan-out without gaps (broadcast, main.rs): a client in the list has     *)
(* read exactly the records the broadcast loop took off the spine since   *)
(* it was pushed, in order, except the one being fanned out if the loop   *)
(* has not reached it yet; a client whose peer closed has read a prefix    *)
(* of that.  Removing a failed client in place must not skip the next one. *)
(***************************************************************************)
FanOutNoGap ==
    \A s \in Subscribers : InList(s) =>
        LET pending == IF bc.busy /\ Position(s) >= bc.i THEN 1 ELSE 0
            due == SubSeq(sent, joined[s] + 1, Len(sent) - pending)
        IN  IF peer[s] = "open" THEN Data(s) = due ELSE IsPrefix(Data(s), due)

(***************************************************************************)
(* Eventual delivery: every record on the spine numbered after the point  *)
(* at which a client joined the list reaches that client unless its peer  *)
(* closes.  broadcast() writes with blocking write_all while it holds the *)
(* client lock (main.rs), so one client that stops reading stalls every   *)
(* other client and the accept loop's push: delivery needs, beyond the    *)
(* fairness of hawkd's own loops, that every client whose buffer is full  *)
(* eventually reads (ClientsRead), which hawkd cannot enforce.            *)
(***************************************************************************)
ClientsRead == \A s \in Subscribers : WF_vars(Drain(s))

MaxRecords == Cardinality(Producers) * MaxLines

EventualDelivery ==
    ClientsRead =>
        \A s \in Subscribers : \A k \in 1..MaxRecords :
            (InList(s) /\ joined[s] < k /\ k <= Len(sent) + Len(spine))
                ~> (Len(Data(s)) >= k - joined[s] \/ peer[s] = "closed")

(***************************************************************************)
(* Every malformed line a producer reads is reported in-band as a         *)
(* RECEIPT_EVENT record: spec 4.4 and 7 say an ingest handler synthesizes *)
(* one for each malformed line, its raw clipped to 240 bytes, and stops   *)
(* iff strict; the stdin source has "the same semantics as an ingest      *)
(* handler".                                                              *)
(***************************************************************************)
Receipts(p) ==
    Len(SelectSeq(sent \o spine, LAMBDA r : r.type = "receipt" /\ r.src = p))

MalformedReported == \A p \in Producers : Receipts(p) = malformed[p]

(***************************************************************************)
(* Refinement: the spine implements the abstract broadcast.  The history   *)
(* of published records is what the broadcast loop took off the spine; a  *)
(* client is in while it is in the list and gone once removed from it;    *)
(* what it received is what it read after the banner.  A skipped client,  *)
(* a client pushed in the middle of a fan-out, or a record written twice  *)
(* is a step the abstract specification does not allow.                    *)
(***************************************************************************)
Pushed(s) == peer[s] # "idle" /\ s \notin backlog /\ accepting # s

Member(s) == IF InList(s) THEN "in" ELSE IF Pushed(s) THEN "gone" ELSE "out"

Abs == INSTANCE Broadcast WITH
           Values <- Record,
           hist <- sent,
           member <- [s \in Subscribers |-> Member(s)],
           start <- joined,
           got <- [s \in Subscribers |-> Data(s)]

BroadcastRefined == Abs!Spec

=============================================================================
