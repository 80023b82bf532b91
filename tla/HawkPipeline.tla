----------------------------- MODULE HawkPipeline -----------------------------
(***************************************************************************)
(* The viewer's message pipeline, crates/hawk/src/main.rs, io.rs, awk.rs:  *)
(* a source thread (stdin or the broadcast socket) sends IngestMsgs on     *)
(* rx_source.  With --transform none one thread forwards them to the UI    *)
(* channel.  With a transform a splitter sends frames to the awk bridge    *)
(* and everything else straight to the UI; the bridge's writer feeds the   *)
(* child's stdin, its reader parses the child's stdout into frames, its    *)
(* waiter reports a failed exit, and two forwarders pass frames and        *)
(* errors (as IoError) to the UI, which ingests them one at a time.        *)
(*                                                                         *)
(* Messages are abstracted to their variant and the source line number.   *)
(* The child is an identity transform that may crash (exit nonzero) at    *)
(* any time or print a line that is not a HawkFrame.                       *)
(***************************************************************************)
EXTENDS Naturals, Sequences

CONSTANTS
    Strict,     \* --strict
    MaxSrc,     \* lines the source reads before end of input
    MaxGarbage  \* bound on invalid lines the child prints

VARIABLES
    mode,       \* "none" or "awk" (--transform)
    src,        \* [n: lines read, done: source thread ended]
    rxSource,   \* channel source -> forwarder or splitter
    splitDone,  \* forwarder/splitter ended (rx_source disconnected)
    framesRaw,  \* channel splitter -> bridge writer
    writer,     \* "run", "done" (in_rx disconnected), "failed"
    child,      \* [st: "running" | "exited" | "crashed", stdinOpen, garbage]
    awkIn,      \* child's stdin pipe
    awkOut,     \* child's stdout pipe
    readerDone, \* bridge reader ended
    waited,     \* bridge waiter has joined the child
    framesOut,  \* channel bridge reader -> frame forwarder
    errs,       \* channel of bridge diagnostics -> error forwarder
    txUi,       \* the UI channel
    ui          \* what App.ingest has been given: [frames: Seq, parse, io]

vars == <<mode, src, rxSource, splitDone, framesRaw, writer, child, awkIn,
          awkOut, readerDone, waited, framesOut, errs, txUi, ui>>

Msg(type, n) == [type |-> type, n |-> n]

Init ==
    /\ mode \in {"none", "awk"}
    /\ src = [n |-> 0, done |-> FALSE]
    /\ rxSource = <<>>
    /\ splitDone = FALSE
    /\ framesRaw = <<>>
    /\ writer = "run"
    /\ child = [st |-> "running", stdinOpen |-> TRUE, garbage |-> 0]
    /\ awkIn = <<>> /\ awkOut = <<>>
    /\ readerDone = FALSE /\ waited = FALSE
    /\ framesOut = <<>> /\ errs = <<>>
    /\ txUi = <<>>
    /\ ui = [frames |-> <<>>, parse |-> 0, io |-> 0]

BridgeVars == <<framesRaw, writer, child, awkIn, awkOut, readerDone, waited, framesOut, errs>>

-----------------------------------------------------------------------------
(***************************************************************************)
(* Source thread: spawn_stdin_reader / spawn_unix_reader.                  *)
(***************************************************************************)
SourceRead(type) ==
    /\ ~src.done
    /\ src.n < MaxSrc
    /\ rxSource' = Append(rxSource, Msg(type, src.n + 1))
    /\ UNCHANGED <<mode, splitDone, txUi, ui, BridgeVars>>

\* Ok(Some(f)): IngestMsg::Frame.
SourceFrame ==
    /\ SourceRead("frame")
    /\ src' = [src EXCEPT !.n = @ + 1]

\* Err(e) from parse_tsv_line: IngestMsg::ParseError, break if strict.
SourceParseError ==
    /\ SourceRead("parse")
    /\ src' = [n |-> src.n + 1, done |-> Strict]

\* A read error, or a failed connect of the unix source: IoError, stop.
SourceIoError ==
    /\ SourceRead("io")
    /\ src' = [n |-> src.n + 1, done |-> TRUE]

\* End of input: the thread ends and drops its sender.
SourceEnd ==
    /\ ~src.done
    /\ src' = [src EXCEPT !.done = TRUE]
    /\ UNCHANGED <<mode, rxSource, splitDone, txUi, ui, BridgeVars>>

-----------------------------------------------------------------------------
(***************************************************************************)
(* main: the forwarder (none) or the splitter (awk) over rx_source.        *)
(***************************************************************************)
Forward ==
    /\ mode = "none"
    /\ rxSource # <<>>
    /\ txUi' = Append(txUi, Head(rxSource))
    /\ rxSource' = Tail(rxSource)
    /\ UNCHANGED <<mode, src, splitDone, ui, BridgeVars>>

Split ==
    /\ mode = "awk"
    /\ rxSource # <<>>
    /\ rxSource' = Tail(rxSource)
    /\ IF Head(rxSource).type = "frame"
          THEN /\ framesRaw' = IF writer = "run" THEN Append(framesRaw, Head(rxSource))
                                                 ELSE framesRaw  \* in_rx dropped: send fails
               /\ UNCHANGED txUi
          ELSE /\ txUi' = Append(txUi, Head(rxSource))
               /\ UNCHANGED framesRaw
    /\ UNCHANGED <<mode, src, splitDone, ui, writer, child, awkIn, awkOut,
                   readerDone, waited, framesOut, errs>>

\* The for loop over rx_source ends once the source has ended.
SplitEnd ==
    /\ src.done /\ rxSource = <<>> /\ ~splitDone
    /\ splitDone' = TRUE
    /\ UNCHANGED <<mode, src, rxSource, txUi, ui, BridgeVars>>

-----------------------------------------------------------------------------
(***************************************************************************)
(* AwkRunner::start_bridge: writer, reader and waiter threads.             *)
(***************************************************************************)
\* write_all + flush of to_tsv_line(now) + "\n"; fails once the child is gone.
WriterSend ==
    /\ mode = "awk" /\ writer = "run"
    /\ framesRaw # <<>>
    /\ framesRaw' = Tail(framesRaw)
    /\ IF child.st = "running"
          THEN /\ awkIn' = Append(awkIn, Head(framesRaw))
               /\ UNCHANGED <<writer, errs>>
          ELSE /\ writer' = "failed"
               /\ errs' = Append(errs, "write")
               /\ UNCHANGED awkIn
    /\ UNCHANGED <<mode, src, rxSource, splitDone, child, awkOut, readerDone,
                   waited, framesOut, txUi, ui>>

\* in_rx disconnected: the thread ends and drops the child's stdin.
WriterEnd ==
    /\ mode = "awk" /\ writer = "run"
    /\ splitDone /\ framesRaw = <<>>
    /\ writer' = "done"
    /\ child' = [child EXCEPT !.stdinOpen = FALSE]
    /\ UNCHANGED <<mode, src, rxSource, splitDone, framesRaw, awkIn, awkOut,
                   readerDone, waited, framesOut, errs, txUi, ui>>

\* The child copies one input line to its output.
ChildEcho ==
    /\ mode = "awk" /\ child.st = "running"
    /\ awkIn # <<>>
    /\ awkOut' = Append(awkOut, Head(awkIn))
    /\ awkIn' = Tail(awkIn)
    /\ UNCHANGED <<mode, src, rxSource, splitDone, framesRaw, writer, child,
                   readerDone, waited, framesOut, errs, txUi, ui>>

\* The child prints a line that is not a HawkFrame.
ChildGarbage ==
    /\ mode = "awk" /\ child.st = "running"
    /\ child.garbage < MaxGarbage
    /\ child' = [child EXCEPT !.garbage = @ + 1]
    /\ awkOut' = Append(awkOut, Msg("garbage", 0))
    /\ UNCHANGED <<mode, src, rxSource, splitDone, framesRaw, writer, awkIn,
                   readerDone, waited, framesOut, errs, txUi, ui>>

\* The child dies (nonzero exit); unread input is lost.
ChildCrash ==
    /\ mode = "awk" /\ child.st = "running"
    /\ child' = [child EXCEPT !.st = "crashed"]
    /\ awkIn' = <<>>
    /\ UNCHANGED <<mode, src, rxSource, splitDone, framesRaw, writer, awkOut,
                   readerDone, waited, framesOut, errs, txUi, ui>>

\* End of input read: the child exits with status 0.
ChildExit ==
    /\ mode = "awk" /\ child.st = "running"
    /\ ~child.stdinOpen /\ awkIn = <<>>
    /\ child' = [child EXCEPT !.st = "exited"]
    /\ UNCHANGED <<mode, src, rxSource, splitDone, framesRaw, writer, awkIn,
                   awkOut, readerDone, waited, framesOut, errs, txUi, ui>>

\* Mutant: every line of the child is passed on as a frame.
ReaderLineNoParse ==
    /\ mode = "awk" /\ ~readerDone
    /\ awkOut # <<>>
    /\ awkOut' = Tail(awkOut)
    /\ framesOut' = Append(framesOut, Head(awkOut))
    /\ UNCHANGED <<mode, src, rxSource, splitDone, framesRaw, writer, child,
                   awkIn, readerDone, waited, errs, txUi, ui>>

\* reader.lines(): a frame goes to out_tx, an invalid line is reported.
ReaderLine ==
    /\ mode = "awk" /\ ~readerDone
    /\ awkOut # <<>>
    /\ awkOut' = Tail(awkOut)
    /\ IF Head(awkOut).type = "frame"
          THEN framesOut' = Append(framesOut, Head(awkOut)) /\ UNCHANGED errs
          ELSE errs' = Append(errs, "invalid") /\ UNCHANGED framesOut
    /\ UNCHANGED <<mode, src, rxSource, splitDone, framesRaw, writer, child,
                   awkIn, readerDone, waited, txUi, ui>>

\* The child's stdout reaches end of file.
ReaderEof ==
    /\ mode = "awk" /\ ~readerDone
    /\ awkOut = <<>> /\ child.st # "running"
    /\ readerDone' = TRUE
    /\ UNCHANGED <<mode, src, rxSource, splitDone, framesRaw, writer, child,
                   awkIn, awkOut, waited, framesOut, errs, txUi, ui>>

\* Mutant: the waiter ignores the exit status.
WaiterIgnoreStatus ==
    /\ mode = "awk" /\ ~waited
    /\ child.st # "running"
    /\ waited' = TRUE
    /\ UNCHANGED <<mode, src, rxSource, splitDone, framesRaw, writer, child,
                   awkIn, awkOut, readerDone, framesOut, errs, txUi, ui>>

\* child.wait(): a nonzero status is reported on err_tx.
Waiter ==
    /\ mode = "awk" /\ ~waited
    /\ child.st # "running"
    /\ waited' = TRUE
    /\ errs' = IF child.st = "crashed" THEN Append(errs, "status") ELSE errs
    /\ UNCHANGED <<mode, src, rxSource, splitDone, framesRaw, writer, child,
                   awkIn, awkOut, readerDone, framesOut, txUi, ui>>

\* main: frames from the bridge go to the UI as IngestMsg::Frame.
ForwardFrame ==
    /\ framesOut # <<>>
    /\ txUi' = Append(txUi, Msg("frame", Head(framesOut).n))
    /\ framesOut' = Tail(framesOut)
    /\ UNCHANGED <<mode, src, rxSource, splitDone, framesRaw, writer, child,
                   awkIn, awkOut, readerDone, waited, errs, ui>>

\* main: bridge diagnostics go to the UI as IngestMsg::IoError("awk: ..").
ForwardError ==
    /\ errs # <<>>
    /\ txUi' = Append(txUi, Msg("io", 0))
    /\ errs' = Tail(errs)
    /\ UNCHANGED <<mode, src, rxSource, splitDone, framesRaw, writer, child,
                   awkIn, awkOut, readerDone, waited, framesOut, ui>>

-----------------------------------------------------------------------------
\* run_tui: rx.try_recv() then app.ingest(msg).
UiIngest ==
    /\ txUi # <<>>
    /\ txUi' = Tail(txUi)
    /\ LET m == Head(txUi) IN
       ui' = CASE m.type = "frame" -> [ui EXCEPT !.frames = Append(@, m.n)]
               [] m.type = "parse" -> [ui EXCEPT !.parse = @ + 1]
               [] OTHER            -> [ui EXCEPT !.io = @ + 1]
    /\ UNCHANGED <<mode, src, rxSource, splitDone, BridgeVars>>

Next ==
    \/ SourceFrame \/ SourceParseError \/ SourceIoError \/ SourceEnd
    \/ Forward \/ Split \/ SplitEnd
    \/ WriterSend \/ WriterEnd
    \/ ChildEcho \/ ChildGarbage \/ ChildCrash \/ ChildExit
    \/ ReaderLine \/ ReaderEof \/ Waiter
    \/ ForwardFrame \/ ForwardError \/ UiIngest

\* hawk's threads and an identity child that is given input are fair; the
\* source's input and a crash of the child are not.
Fairness ==
    /\ WF_vars(Forward) /\ WF_vars(Split) /\ WF_vars(SplitEnd)
    /\ WF_vars(WriterSend) /\ WF_vars(WriterEnd)
    /\ WF_vars(ChildEcho) /\ WF_vars(ChildExit)
    /\ WF_vars(ReaderLine) /\ WF_vars(ReaderEof) /\ WF_vars(Waiter)
    /\ WF_vars(ForwardFrame) /\ WF_vars(ForwardError) /\ WF_vars(UiIngest)

Spec == Init /\ [][Next]_vars /\ Fairness

-----------------------------------------------------------------------------
MsgType == [type : {"frame", "parse", "io", "garbage"}, n : 0..MaxSrc]

TypeOK ==
    /\ mode \in {"none", "awk"}
    /\ src \in [n : 0..MaxSrc, done : BOOLEAN]
    /\ \A q \in {rxSource, framesRaw, awkIn, awkOut, framesOut, txUi} : q \in Seq(MsgType)
    /\ writer \in {"run", "done", "failed"}
    /\ child \in [st : {"running", "exited", "crashed"}, stdinOpen : BOOLEAN,
                  garbage : 0..MaxGarbage]
    /\ errs \in Seq({"write", "invalid", "status"})
    /\ ui \in [frames : Seq(1..MaxSrc), parse : 0..MaxSrc, io : Nat]

Produced(n) == \E i \in 1..Len(rxSource) : rxSource[i] = Msg("frame", n)

Shown(n) == \E i \in 1..Len(ui.frames) : ui.frames[i] = n

(***************************************************************************)
(* No silent loss: every frame the source reads reaches the UI, or the UI  *)
(* is eventually told of a transform failure (an io error).  A crash of    *)
(* the child between reading a frame and printing it is reported only by   *)
(* the waiter.                                                             *)
(***************************************************************************)
NoSilentLoss ==
    \A n \in 1..MaxSrc : Produced(n) ~> (Shown(n) \/ ui.io > 0)

(***************************************************************************)
(* Spec 4.8: the bridge surfaces its diagnostics as synthetic frames of   *)
(* level fail, so a failed transform is in-band health: once the child has *)
(* crashed and everything is drained, the UI has a frame from the bridge. *)
(***************************************************************************)
Drained == txUi = <<>> /\ errs = <<>> /\ framesOut = <<>> /\ waited

TransformFailureInBand ==
    (child.st = "crashed" /\ Drained) => \E i \in 1..Len(ui.frames) : ui.frames[i] = 0

=============================================================================
