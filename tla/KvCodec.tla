------------------------------- MODULE KvCodec -------------------------------
(***************************************************************************)
(* The HawkFrame TSV codec, crates/hawk_core/src/hawkframe.rs              *)
(* (parse_tsv_line, to_tsv_line, parse_kv_bag, serialize_kv_bag), followed *)
(* over the hops a frame makes: a watcher builds a frame in hawkd, or an  *)
(* ingest line is parsed by hawkd; hawkd re-emits it on the broadcast     *)
(* socket as one "\n"-terminated line; the viewer reads lines and parses  *)
(* them; with a transform, the awk bridge re-emits and parses once more.  *)
(*                                                                         *)
(* A string is a sequence of characters: "a" a letter, " " a space, "="   *)
(* and ";" the kv separators, "\t" and "\n" tab and newline, and "t" the  *)
(* word true, so that the one-character string <<"t">> is the literal     *)
(* value "true".  Columns 1 to 4 (kind, scope, id, level) are not in      *)
(* question and are left empty; a frame is its msg and its kv bag; ts is  *)
(* empty on an ingest line and a stamp on every re-emitted one.           *)
(***************************************************************************)
EXTENDS Naturals, Sequences, SequencesExt, TLC

CONSTANTS
    MaxWire,    \* length bound of an ingest producer's kv column
    Hops        \* parses along the path (hawkd, viewer, awk bridge)

Chars == {" ", ";", "=", "a", "t"}
TrueStr == <<"t">>
Tab == "\t"
Newline == "\n"
LineChars == Chars \cup {Tab}

\* Byte order of the characters, for BTreeMap<String, _> iteration.
CharRank(c) == CASE c = Tab -> 9 [] c = Newline -> 10 [] c = " " -> 32 [] c = ";" -> 59 [] c = "=" -> 61
                 [] c = "a" -> 97 [] c = "t" -> 116

StrOver(cs, n) == UNION {[1..i -> cs] : i \in 0..n}
StrUpTo(n) == StrOver(Chars, n)

RECURSIVE StrLess(_, _)
StrLess(s, t) ==
    IF s = <<>> THEN t # <<>>
    ELSE IF t = <<>> THEN FALSE
    ELSE IF Head(s) = Head(t) THEN StrLess(Tail(s), Tail(t))
    ELSE CharRank(Head(s)) < CharRank(Head(t))

\* str::trim: strips whitespace, tab and newline included.
IsSpace(c) == c \in {" ", Tab, Newline}
RECURSIVE TrimStart(_)
TrimStart(s) == IF s # <<>> /\ IsSpace(Head(s)) THEN TrimStart(Tail(s)) ELSE s
Trim(s) == Reverse(TrimStart(Reverse(TrimStart(s))))

\* str::split(c): the segments between occurrences of c, at least one.
RECURSIVE SplitOn(_, _)
SplitOn(s, c) ==
    IF s = <<>> THEN << <<>> >>
    ELSE LET rest == SplitOn(Tail(s), c) IN
         IF Head(s) = c THEN << <<>> >> \o rest
         ELSE <<<<Head(s)>> \o Head(rest)>> \o Tail(rest)

FirstIndex(s, c) == CHOOSE i \in 1..Len(s) : s[i] = c /\ \A j \in 1..i-1 : s[j] # c
LastIndex(s, c) == CHOOSE i \in 1..Len(s) : s[i] = c /\ \A j \in i+1..Len(s) : s[j] # c

NoPairs == [x \in {} |-> <<>>]
Insert(b, k, v) == (k :> v) @@ b

\* Mutant: rsplit_once('='), splitting at the last '='.
KvPartLastEq(b, part) ==
    IF part = <<>> THEN b
    ELSE IF Contains(part, "=")
         THEN LET i == LastIndex(part, "=") IN
              Insert(b, Trim(SubSeq(part, 1, i - 1)), Trim(SubSeq(part, i + 1, Len(part))))
         ELSE Insert(b, part, TrueStr)

\* One segment of parse_kv_bag (already trimmed): skip it if empty, split it
\* at the first '=' into a trimmed pair, or take it as a bare flag.
KvPart(b, part) ==
    IF part = <<>> THEN b
    ELSE IF Contains(part, "=")
         THEN LET i == FirstIndex(part, "=") IN
              Insert(b, Trim(SubSeq(part, 1, i - 1)), Trim(SubSeq(part, i + 1, Len(part))))
         ELSE Insert(b, part, TrueStr)

\* parse_kv_bag: later pairs overwrite earlier ones (BTreeMap::insert).
ParseKvBag(s) ==
    IF Trim(s) = <<>> THEN NoPairs
    ELSE FoldLeft(LAMBDA b, p : KvPart(b, Trim(p)), NoPairs, SplitOn(s, ";"))

\* Mutant: every pair written as key=value, "true" included.
SerializeKvBagNoBare(kv) ==
    LET keys == SetToSortSeq(DOMAIN kv, StrLess)
        part(k) == k \o <<"=">> \o kv[k]
    IN  IF keys = <<>> THEN <<>>
        ELSE FoldLeft(LAMBDA acc, k : acc \o <<";">> \o part(k),
                      part(Head(keys)), Tail(keys))

\* serialize_kv_bag: pairs in key order, "true" as the bare key, joined by ';'.
SerializeKvBag(kv) ==
    LET keys == SetToSortSeq(DOMAIN kv, StrLess)
        part(k) == IF kv[k] = TrueStr THEN k ELSE k \o <<"=">> \o kv[k]
    IN  IF keys = <<>> THEN <<>>
        ELSE FoldLeft(LAMBDA acc, k : acc \o <<";">> \o part(k),
                      part(Head(keys)), Tail(keys))

\* Bags a watcher may build in-process: one pair of short strings, two
\* pairs of one-character strings, or a pair whose key or value carries a
\* tab or a newline (free text such as a unit Description goes in as is).
FrameBags ==
    {[x \in {k} |-> v] : k \in StrUpTo(2), v \in StrUpTo(2)}
    \cup UNION {[{k1, k2} -> StrUpTo(1)] : k1, k2 \in StrUpTo(1)}
    \cup {[x \in {k} |-> v] : k \in {<<"a">>, <<"a", Tab>>},
                              v \in {<<"a">>, <<"a", Tab, "a">>, <<"a", Newline, "a">>}}

\* Messages a watcher may build: short, padded, or with a tab or a newline.
Msgs == StrOver({"a", " ", Tab, Newline}, 1) \cup {<<"a", Tab, "a">>, <<"a", Newline, "a">>}

\* A parse outcome: Ok(Some(frame)), Ok(None), or Err(_).
FrameOut(m, b) == [status |-> "frame", msg |-> m, kv |-> b]
NoneOut == [status |-> "none", msg |-> <<>>, kv |-> NoPairs]
ErrOut == [status |-> "error", msg |-> <<>>, kv |-> NoPairs]

\* Columns 1 to 4 (kind, scope, id, level), empty, after column 0.
LeadCols == <<Tab, Tab, Tab, Tab, Tab>>

\* An RFC 3339 timestamp: to_tsv_line stamps ts.unwrap_or(now).
Stamp == <<"a">>

\* to_tsv_line(now) + "\n": seven tab-joined columns, nothing escaped.
ToTsvLine(f) == Stamp \o LeadCols \o f.msg \o <<Tab>> \o SerializeKvBag(f.kv) \o <<Newline>>

\* BufRead::lines: the segments between "\n"s; a final "\n" ends the last
\* line rather than starting an empty one.
ReadLines(w) ==
    LET segs == SplitOn(w, Newline)
    IN  IF segs[Len(segs)] = <<>> THEN SubSeq(segs, 1, Len(segs) - 1) ELSE segs

\* parse_tsv_line: a blank line is no frame; fewer than seven columns is an
\* error; columns past the seventh are ignored.  Column 0 is empty (None)
\* or a stamp that parses; no '#' occurs, so the comment case does not arise.
ParseTsvLine(l) ==
    LET cols == SplitOn(l, Tab)
    IN  IF Trim(l) = <<>> THEN NoneOut
        ELSE IF Len(cols) < 7 THEN ErrOut
        ELSE FrameOut(Trim(cols[6]), ParseKvBag(Trim(cols[7])))

-----------------------------------------------------------------------------
VARIABLES
    origin,     \* [from: "watcher", frame: f] or [from: "ingest", wire: line]
    frame,      \* the frame the current hop re-emits
    wire,       \* the bytes last written
    parsed,     \* parsed[i]: the outcomes of hop i, one per line read
    step        \* "emit" (to_tsv_line next), "parse" (lines parsed next), "end"

vars == <<origin, frame, wire, parsed, step>>

Init ==
    /\ parsed = <<>>
    /\ \/ \E m \in Msgs, b \in FrameBags :
          /\ origin = [from |-> "watcher", frame |-> [msg |-> m, kv |-> b]]
          /\ frame = origin.frame /\ wire = <<>> /\ step = "emit"
       \/ \E t \in StrOver(LineChars, MaxWire) :
          /\ origin = [from |-> "ingest", wire |-> LeadCols \o t \o <<Newline>>]
          /\ frame = [msg |-> <<>>, kv |-> NoPairs]
          /\ wire = origin.wire /\ step = "parse"

\* hawkd (a watcher's frame, or a parsed ingest line) or the awk bridge
\* writes the frame as one line.
Emit ==
    /\ step = "emit"
    /\ Len(parsed) < Hops
    /\ wire' = ToTsvLine(frame)
    /\ step' = "parse"
    /\ UNCHANGED <<origin, frame, parsed>>

\* The reader (hawkd's ingest handler, the viewer, the bridge) parses each
\* line it reads.  The path goes on only if exactly one frame came out.
Parse ==
    /\ step = "parse"
    /\ LET outs == [i \in 1..Len(ReadLines(wire)) |-> ParseTsvLine(ReadLines(wire)[i])]
       IN  /\ parsed' = Append(parsed, outs)
           /\ IF Len(outs) = 1 /\ outs[1].status = "frame"
                 THEN frame' = [msg |-> outs[1].msg, kv |-> outs[1].kv] /\ step' = "emit"
                 ELSE UNCHANGED frame /\ step' = "end"
    /\ UNCHANGED <<origin, wire>>

Next == Emit \/ Parse

Spec == Init /\ [][Next]_vars

-----------------------------------------------------------------------------
\* What the code needs of a pair to come back unchanged: no ';', tab or
\* newline anywhere (a tab shifts the kv column, a newline ends the line),
\* no '=' in the key, nothing for trim to strip, and not the empty key
\* with the value "true" (emitted as an empty bare token).
WellFormedPair(k, v) ==
    /\ \A c \in {";", Tab, Newline} : ~Contains(k, c) /\ ~Contains(v, c)
    /\ ~Contains(k, "=")
    /\ Trim(k) = k /\ Trim(v) = v
    /\ ~(k = <<>> /\ v = TrueStr)

\* Spec 3: msg is "a short human string, no embedded tabs or newlines".
WellFormedMsg(m) == ~Contains(m, Tab) /\ ~Contains(m, Newline) /\ Trim(m) = m

(***************************************************************************)
(* Exact round trip: a frame built by a watcher whose msg and pairs are   *)
(* well formed (the watchers do not check this: a Description or error    *)
(* string with a tab, newline or ';' falls outside it) comes back, at    *)
(* every hop (hawkd's to_tsv_line, the viewer's lines and parse_tsv_line, *)
(* the bridge's re-emission), as exactly one line that parses to the same *)
(* msg and kv.                                                             *)
(***************************************************************************)
RoundTripExact ==
    LET f == origin.frame
    IN  (origin.from = "watcher" /\ WellFormedMsg(f.msg)
         /\ \A k \in DOMAIN f.kv : WellFormedPair(k, f.kv[k]))
            => \A i \in 1..Len(parsed) : parsed[i] = <<FrameOut(f.msg, f.kv)>>

(***************************************************************************)
(* Relaying an ingest line is stable but for one pair: whatever line a    *)
(* producer writes, once hawkd has parsed it to a frame, every later hop  *)
(* (hawkd's re-emission read by the viewer, the bridge's read by the      *)
(* viewer) parses to that frame with only the pair ("", "true") gone: the *)
(* bare-flag encoding writes it as an empty token, which parse skips.     *)
(***************************************************************************)
WithoutEmptyFlag(b) ==
    IF <<>> \in DOMAIN b /\ b[<<>>] = TrueStr
        THEN [k \in DOMAIN b \ {<<>>} |-> b[k]] ELSE b

RelayStable ==
    (origin.from = "ingest" /\ Len(parsed) >= 1 /\ parsed[1] # <<>>
     /\ parsed[1][1].status = "frame")
        => \A i \in 2..Len(parsed) :
               parsed[i] = <<FrameOut(parsed[1][1].msg, WithoutEmptyFlag(parsed[1][1].kv))>>

=============================================================================
