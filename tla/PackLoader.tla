------------------------------ MODULE PackLoader ------------------------------
(***************************************************************************)
(* The pack loader and the pack doctor, crates/hawk/src/packs.rs and      *)
(* doctor.rs, walking the same --packs-dir tree.  load_packs reads the    *)
(* directories in sorted order, parse_pack_manifest checks each thread,   *)
(* the threads go into one map keyed by id, and the first error aborts.  *)
(* run_pack_doctor walks the same directories with the same parser but    *)
(* accumulates errors and goes on; for each thread of a pack that parses  *)
(* it checks id collisions, runs the security scan and, with --smoke, the  *)
(* smoke test.  Both are deterministic functions of the tree, so one walk  *)
(* drives them in lockstep: each step is a loader part and a doctor part. *)
(* Then main starts the viewer (load result, --transform) and ExitCode    *)
(* gives each subcommand's exit status over the same tree.                *)
(*                                                                         *)
(* The tree is revealed as it is read: each directory's manifest, and     *)
(* each thread with its script, is chosen when it is parsed.  A path is a *)
(* sequence of components; a value string one of a few representatives    *)
(* ("" empty, " " blank, "5" an i64, "x" a word, "TRUE").  Doctor          *)
(* messages are abstracted to their kind; warnings never affect the       *)
(* report's ok() and are left out.                                        *)
(***************************************************************************)
EXTENDS Naturals, Sequences, SequencesExt, TLC

CONSTANTS
    NDirs,        \* subdirectories of --packs-dir (named 1..NDirs)
    ThreadIds,    \* thread ids that manifests use, "" included
    MaxThreads,   \* threads per manifest
    Security,     \* pack doctor --security: "strict", "warn" or "off"
    Smoke,        \* pack doctor --smoke
    Scripts       \* what the scan finds in a script: "clean", "deny",
                  \* "getlinefile" or "unreadable"

Values == {"", " ", "5", "x", "TRUE"}
Paths == {<<"x">>, <<"x", "..", "x">>}
Args == {[name |-> "n", ty |-> a[1], default |-> a[2]] :
            a \in {<<"string", "">>, <<"int", "">>, <<"int", "5">>, <<"bool", "x">>,
                   <<"float", "">>}}

\* A script's scan finding (Scripts) and its smoke test outcome.  The smoke test's outcome is
\* awk's: "fail" is a spawn error, a nonzero exit or an output line that is
\* not a HawkFrame; an unreadable script makes awk fail.
ScriptRuns == {s \in Scripts \X {"ok", "fail"} : s[1] = "unreadable" => s[2] = "fail"}

ThreadChoices == [id : ThreadIds, kind : {"k", " "}, file : Paths, exists : BOOLEAN,
                  args : {<<>>} \cup {<<a>> : a \in Args}, run : ScriptRuns]

\* Value predicates: str::parse::<i64>, trim().is_empty(), to_ascii_lowercase.
ParsesI64(v) == v = "5"
TrimEmpty(v) == v \in {"", " "}
Lower(v) == IF v = "TRUE" THEN "true" ELSE v
BoolWord(v) == Lower(v) \in {"true", "false", "1", "0"}

\* ensure_safe_rel_path: not absolute, no ParentDir component.
SafeRelPath(p) == p[1] # "/" /\ ~Contains(p, "..")

\* parse_arg_type: "string" | "int" | "bool", anything else an error.
ArgTypeOk(t) == t \in {"string", "int", "bool"}

\* validate_arg_default: an empty default is allowed for every type.
ArgDefaultOk(a) ==
    CASE a.ty = "int"  -> TrimEmpty(a.default) \/ ParsesI64(a.default)
      [] a.ty = "bool" -> Lower(a.default) = "" \/ BoolWord(a.default)
      [] OTHER         -> TRUE

\* parse_pack_manifest's checks on one thread, in the code's order.
ThreadError(t) ==
    CASE ~SafeRelPath(t.file)                                   -> "unsafe path"
      [] TrimEmpty(t.id)                                        -> "empty id"
      [] TrimEmpty(t.kind)                                      -> "empty kind"
      [] ~t.exists                                              -> "missing file"
      [] \E i \in 1..Len(t.args) : ~ArgTypeOk(t.args[i].ty)      -> "arg type"
      [] \E i \in 1..Len(t.args) : ~ArgDefaultOk(t.args[i])      -> "arg default"
      [] OTHER                                                  -> "none"

\* security_scan_awk: off returns no finding without reading the file; a
\* deny-list hit is an error; "getline <" is an error only in strict mode.
ScanErrors(script) ==
    CASE Security = "off"                              -> {}
      [] script = "unreadable"                         -> {"scan"}
      [] script = "deny"                               -> {"security"}
      [] script = "getlinefile" /\ Security = "strict" -> {"security"}
      [] OTHER                                         -> {}

\* The doctor's errors for one thread whose script exists: security scan,
\* then smoke_test_awk with default_tvars if --smoke.
ThreadDoctorErrors(t) ==
    ScanErrors(t.run[1]) \cup (IF Smoke /\ t.run[2] = "fail" THEN {"smoke"} ELSE {})

\* default_tvars: name -> default.
DefaultTvars(args) == [n \in {args[i].name : i \in 1..Len(args)} |->
                         args[CHOOSE i \in 1..Len(args) : args[i].name = n].default]

\* validate_tvars: unknown keys rejected, int and bool values checked.
ValidateTvars(args, tv) ==
    \A k \in DOMAIN tv :
        \E i \in 1..Len(args) :
            /\ args[i].name = k
            /\ args[i].ty = "int"  => ParsesI64(tv[k])
            /\ args[i].ty = "bool" => BoolWord(tv[k])

\* An id collision: with an id already taken, or with an earlier thread of
\* the same pack (contains_key / get before insert, thread by thread).
Collides(p, taken) ==
    \E i \in 1..Len(p) : p[i].id \in taken \/ \E j \in 1..i-1 : p[j].id = p[i].id

-----------------------------------------------------------------------------
VARIABLES
    walk,       \* the directory walk: "start", "scan", "manifest" or "done"
    dir,        \* the directory being read
    pack,       \* [id, args, derr] of the threads of the manifest being parsed
    load,       \* load_packs: "running", "ok", or the error that ended it
    index,      \* load_packs' threads: id -> [dir, args]
    seen,       \* history: [dir, id] of every thread load_packs parsed
    derrs,      \* the kinds of error the doctor has reported
    dseen,      \* the doctor's seen_thread_ids
    transform   \* main's --transform thread:<id>: [res, tvars], res "none"
                \* before, then "started" or the error

NoTransform == [res |-> "none", tvars |-> [k \in {} |-> ""]]

loadVars == <<load, index, seen>>
doctorVars == <<derrs, dseen>>
vars == <<walk, dir, pack, load, index, seen, derrs, dseen, transform>>

Init ==
    /\ walk = "start" /\ dir = 0 /\ pack = <<>>
    /\ load = "running" /\ index = [x \in {} |-> 0] /\ seen = <<>>
    /\ derrs = {} /\ dseen = {}
    /\ transform = NoTransform

\* load_packs' `?` on an error: the load ends with it, unless already ended.
LoadFail(kind) ==
    /\ load' = IF load = "running" THEN kind ELSE load
    /\ UNCHANGED <<index, seen>>

\* run_pack_doctor: rep.errors.push(..) and go on.
DoctorFail(kind) ==
    /\ derrs' = derrs \cup {kind}
    /\ UNCHANGED dseen

\* !packs_dir.exists(): load_packs returns an empty index; the doctor only
\* warns.
NoPacksDir ==
    /\ walk = "start" /\ walk' = "done"
    /\ load' = "ok"
    /\ UNCHANGED <<dir, pack, index, seen, doctorVars, transform>>

\* fs::read_dir fails: load_packs' `?`; the doctor reports it and returns.
ReadDirFails ==
    /\ walk = "start" /\ walk' = "done"
    /\ LoadFail("read dir") /\ DoctorFail("read dir")
    /\ UNCHANGED <<dir, pack, transform>>

\* load_packs: for entry in read_dir(..)? { let entry = entry?; .. }, then
\* dirs.sort().  An entry that fails ends the load (entryErr).
LoadReadDir(entryErr) ==
    /\ load' = IF entryErr THEN "entry" ELSE "running"
    /\ UNCHANGED <<index, seen>>

\* run_pack_doctor: rd.flatten() skips a failing entry; entries.sort().
DoctorReadDir == UNCHANGED doctorVars

ReadDir(entryErr) ==
    /\ walk = "start" /\ walk' = "scan" /\ dir' = 1
    /\ LoadReadDir(entryErr) /\ DoctorReadDir
    /\ UNCHANGED <<pack, transform>>

\* A directory without pack.toml is skipped by both.
SkipDir ==
    /\ walk = "scan" /\ dir <= NDirs
    /\ dir' = dir + 1
    /\ UNCHANGED <<walk, pack, loadVars, doctorVars, transform>>

\* read_to_string or toml::from_str fails: parse_pack_manifest errs.
ManifestFails ==
    /\ walk = "scan" /\ dir <= NDirs
    /\ dir' = dir + 1
    /\ LoadFail("parse") /\ DoctorFail("parse")
    /\ UNCHANGED <<walk, pack, transform>>

\* The manifest is read and deserialized; its threads follow.
OpenManifest ==
    /\ walk = "scan" /\ dir <= NDirs
    /\ walk' = "manifest" /\ pack' = <<>>
    /\ UNCHANGED <<dir, loadVars, doctorVars, transform>>

\* One [[thread]]: checked and pushed, or parse_pack_manifest fails, which
\* ends the load and makes the doctor report the pack and skip it.
ParseThread(t) ==
    /\ walk = "manifest" /\ Len(pack) < MaxThreads
    /\ IF ThreadError(t) = "none"
          THEN /\ pack' = Append(pack, [id |-> t.id, args |-> t.args,
                                        derr |-> ThreadDoctorErrors(t)])
               /\ seen' = IF load = "running"
                            THEN Append(seen, [dir |-> dir, id |-> t.id]) ELSE seen
               /\ UNCHANGED <<walk, dir, load, index, doctorVars>>
          ELSE /\ walk' = "scan" /\ dir' = dir + 1 /\ pack' = <<>>
               /\ LoadFail("parse") /\ DoctorFail("parse")
    /\ UNCHANGED transform

\* Mutant: the collision test only looks at threads of earlier packs.
LoadPackAcrossOnly ==
    IF load # "running" THEN UNCHANGED loadVars
    ELSE LET ids == {pack[i].id : i \in 1..Len(pack)} IN
         /\ IF ids \cap DOMAIN index # {}
               THEN /\ load' = "collision" /\ UNCHANGED index
               ELSE /\ index' = [x \in ids |-> [dir |-> dir, args |->
                                    pack[CHOOSE i \in 1..Len(pack) : pack[i].id = x].args]]
                                @@ index
                    /\ UNCHANGED load
         /\ UNCHANGED seen

\* load_packs' loop over pack.threads: contains_key -> bail, else insert.
LoadPack ==
    IF load # "running" THEN UNCHANGED loadVars
    ELSE /\ IF Collides(pack, DOMAIN index)
               THEN /\ load' = "collision" /\ UNCHANGED index
               ELSE /\ index' = [x \in {pack[i].id : i \in 1..Len(pack)} |->
                                    [dir |-> dir, args |->
                                     pack[CHOOSE i \in 1..Len(pack) : pack[i].id = x].args]]
                                @@ index
                    /\ UNCHANGED load
         /\ UNCHANGED seen

\* Mutant: the doctor checks ids only against earlier packs.
DoctorPackAcrossOnly ==
    /\ derrs' = derrs
                \cup (IF \E i \in 1..Len(pack) : pack[i].id \in dseen THEN {"collision"} ELSE {})
                \cup UNION {pack[i].derr : i \in 1..Len(pack)}
    /\ dseen' = dseen \cup {pack[i].id : i \in 1..Len(pack)}

\* run_pack_doctor's loop over pack.threads: an id already in
\* seen_thread_ids is an error, else it is inserted; the script exists
\* (parse_pack_manifest checked it), so the security scan and the smoke
\* test run.
DoctorPack ==
    /\ derrs' = derrs
                \cup (IF Collides(pack, dseen) THEN {"collision"} ELSE {})
                \cup UNION {pack[i].derr : i \in 1..Len(pack)}
    /\ dseen' = dseen \cup {pack[i].id : i \in 1..Len(pack)}

\* All threads of the manifest parsed.
EndManifest ==
    /\ walk = "manifest"
    /\ walk' = "scan" /\ dir' = dir + 1
    /\ LoadPack /\ DoctorPack
    /\ UNCHANGED <<pack, transform>>

\* All directories read: Ok(PackIndex) if nothing failed; rep returned.
Finish ==
    /\ walk = "scan" /\ dir > NDirs
    /\ walk' = "done"
    /\ load' = IF load = "running" THEN "ok" ELSE load
    /\ UNCHANGED <<dir, pack, index, seen, doctorVars, transform>>

\* --tvar values after parse_kv (key and value trimmed, key non-empty);
\* "m" is a key no thread declares.
TvarChoices == {[k \in {} |-> ""]} \cup {(k :> v) : k \in {"n", "m"}, v \in {"", "5", "x", "TRUE"}}

\* --transform after trim(): "none", or a prefix and the rest of the text.
TransformArgs == {[prefix |-> "none", target |-> ""], [prefix |-> "other", target |-> "x"]}
                 \cup [prefix : {"thread:"}, target : ThreadIds \cup {" "}]
                 \cup [prefix : {"file:"}, target : {"p", " "}]

\* parse_transform: [mode, target], or an error message.
ParseTransform(a) ==
    CASE a.prefix = "thread:" /\ TrimEmpty(a.target) -> [err |-> "empty thread id"]
      [] a.prefix = "thread:" -> [mode |-> "thread", target |-> a.target]
      [] a.prefix = "file:" /\ TrimEmpty(a.target) -> [err |-> "empty file path"]
      [] a.prefix = "file:"   -> [mode |-> "file", target |-> a.target]
      [] OTHER                -> [err |-> "transform must be none, thread:<id>, or file:<path>"]

\* main without a subcommand: load_packs(..)? even with --transform none,
\* then parse_transform; thread:<id> is resolve_thread, default_tvars
\* overridden by the --tvar values and validate_tvars; file:<path> passes
\* the --tvar values unchecked.  Any error ends main with exit status 1.
StartViewer(a, tv) ==
    /\ walk = "done" /\ transform = NoTransform
    /\ transform' =
         LET p == ParseTransform(a) IN
         CASE load # "ok"            -> [res |-> "load failed", tvars |-> NoTransform.tvars]
           [] a.prefix = "none"      -> [res |-> "started", tvars |-> NoTransform.tvars]
           [] "err" \in DOMAIN p     -> [res |-> "bad transform", tvars |-> NoTransform.tvars]
           [] p.mode = "file"        -> [res |-> "started", tvars |-> tv]
           [] p.target \notin DOMAIN index ->
                                        [res |-> "thread not found", tvars |-> NoTransform.tvars]
           [] OTHER ->
                LET args == index[p.target].args
                    merged == tv @@ DefaultTvars(args)
                IN  IF ValidateTvars(args, merged)
                    THEN [res |-> "started", tvars |-> merged]
                    ELSE [res |-> "invalid tvars", tvars |-> merged]
    /\ UNCHANGED <<walk, dir, pack, loadVars, doctorVars>>

Next ==
    \/ \E a \in TransformArgs, tv \in TvarChoices : StartViewer(a, tv)
    \/ NoPacksDir \/ ReadDirFails \/ \E e \in BOOLEAN : ReadDir(e)
    \/ SkipDir \/ ManifestFails \/ OpenManifest
    \/ \E t \in ThreadChoices : ParseThread(t)
    \/ EndManifest \/ Finish

Spec == Init /\ [][Next]_vars

\* DoctorReport::ok(): no error; run_doctor prints OK, else exits 2.
DoctorOk == derrs = {}

\* The subcommands; id is the argument of `pack show <id>`.
DoctorCommands == {"pack doctor", "pack-doctor"}
Commands == [name : {"pack list", "pack show"} \cup DoctorCommands, id : ThreadIds]

\* Mutant: run_doctor returns Ok whatever the report says.
ExitCodeIgnoringReport(c) ==
    CASE c.name = "pack-doctor" -> 0
      [] load # "ok"            -> 1
      [] OTHER                  -> 0

\* The exit status of a subcommand over the walked tree (run_pack_cmd and
\* run_doctor): `pack ...` runs load_packs(..)? first and exits 1 when it
\* fails; `pack-doctor` goes straight to the doctor; an unknown --security
\* is an error before the doctor runs; the doctor exits 2 unless ok().
\* `pack list` and `pack show <id>` print and exit 0, or 1 for an unknown id.
ExitCode(c) ==
    CASE c.name # "pack-doctor" /\ load # "ok"                  -> 1
      [] c.name \in DoctorCommands /\
         Security \notin {"strict", "warn", "off"}               -> 1
      [] c.name \in DoctorCommands -> IF DoctorOk THEN 0 ELSE 2
      [] c.name = "pack list"      -> 0
      [] OTHER                     -> IF c.id \in DOMAIN index THEN 0 ELSE 1

-----------------------------------------------------------------------------
(***************************************************************************)
(* Load verdict (spec 4.6): a load that succeeds indexes every thread of   *)
(* every manifest it read, each id with its own manifest, and no two of    *)
(* them share an id; a duplicate id, within a pack or across packs, never *)
(* yields a successful load.                                               *)
(***************************************************************************)
LoadVerdict ==
    load = "ok" =>
        /\ DOMAIN index = {seen[i].id : i \in 1..Len(seen)}
        /\ \A i, j \in 1..Len(seen) : i # j => seen[i].id # seen[j].id
        /\ \A i \in 1..Len(seen) : index[seen[i].id].dir = seen[i].dir

(***************************************************************************)
(* The doctor commands reject what breaks the loader (spec 4.7 check 1    *)
(* and 6): when load_packs fails on the packs directory, a manifest or a  *)
(* thread-id collision, run_pack_doctor over the same tree reports an     *)
(* error of that kind, although it does not stop at the first one and the *)
(* loader does, and neither `hawk pack doctor` (which loads first) nor    *)
(* `hawk pack-doctor` (which does not) exits 0.  A failing read_dir entry, *)
(* which the doctor skips, is not claimed.                                *)
(***************************************************************************)
DoctorRejectsUnloadable ==
    (walk = "done" /\ load \in {"read dir", "parse", "collision"}) =>
        /\ load \in derrs
        /\ \A c \in Commands : c.name \in DoctorCommands => ExitCode(c) # 0

=============================================================================
