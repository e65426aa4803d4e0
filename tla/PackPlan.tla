------------------------------ MODULE PackPlan ------------------------------
(***************************************************************************)
(* From a pack on disk to a plan and a rendered result: the loader reads a *)
(* file that somebody may be editing (loader.go), validation accepts or    *)
(* refuses what it read (validation.go), the registry admits it            *)
(* (registry.go, runtime.go), the planner turns browser values into argv,  *)
(* stdin and impact (planner.go) and the command's output is reduced to    *)
(* the declared fields (parser.go, idira/output.go).                       *)
(*                                                                         *)
(* A pack has one tool and one command.  Its text is two halves that a     *)
(* read or a write may tear apart: the head (identity, tool, inputs) and   *)
(* the tail (everything about the command).                                *)
(***************************************************************************)
EXTENDS Integers, Sequences, FiniteSets, SequencesExt

CONSTANTS
    Packs,          \* <<head, tail>> the file may hold at first
    Drafts,         \* those that an editor works on
    Builtin,        \* the embedded pack of a dedicated platform (Idira)
    Names,          \* the input names a request may give
    Raw,            \* JSON values of a browser
    Docs,           \* outputs of the command
    None,           \* an absent field
    MaxEdits        \* bound of the model

(* What the types of the loader already say of a pack: two halves, inputs   *)
(* and arguments in lists, names that a request may give.  An output that   *)
(* is an object is one row; None is no entry of it.                         *)
ASSUME PackAssumption ==
    /\ \A d \in Packs \cup Drafts :
          /\ d = <<d[1], d[2]>>
          /\ DOMAIN d[1].inputs \subseteq Nat
          /\ \A k \in DOMAIN d[1].inputs : d[1].inputs[k].id \in Names
          /\ Len(d[2].argv) \in Nat /\ DOMAIN d[2].argv = 1 .. Len(d[2].argv)
    /\ \A doc \in Docs :
          /\ doc.shape = "object" => 1 \in DOMAIN doc.rows
          /\ \A r \in DOMAIN doc.rows : \A k \in DOMAIN doc.rows[r] : doc.rows[r][k] # None

VARIABLES
    file,       \* the file of each inode: its halves, its time stamp, what it has held
    path,       \* the inode the path names
    link,       \* the path is a symbolic link
    load,       \* the loader
    registry,   \* the pack admitted from the path
    plan,       \* the planner's last answer
    shown       \* what the browser is shown of the output

packVars == <<file, path, link, load, registry, plan, shown>>

-----------------------------------------------------------------------------
(* Text: "" is empty, "-x" and "-1" begin with a dash, "long" has two       *)
(* characters, the others one; " x" is padded, "bell" holds a control       *)
(* character, "nul" a NUL, "{}" characters that mean something in YAML.     *)

Length(t) == IF t = "" THEN 0 ELSE IF t = "long" THEN 2 ELSE 1
Dashed(t) == t \in {"-x", "-1"}
Padded(t) == t = " x"
Control(t) == t \in {"bell", "nul"}
Plain(t) == t \in {"x", "y", "long"}     \* rawStdinEnumValue
Display(t) == t # "" /\ ~Padded(t) /\ ~Control(t)

-----------------------------------------------------------------------------
(* Validation *)

Ids(inputs) == {inputs[k].id : k \in DOMAIN inputs}
InputOf(inputs, id) == inputs[CHOOSE k \in DOMAIN inputs : inputs[k].id = id]
Unset(i, fields) == \A f \in fields : i[f] = None

validateInput(i) ==
    /\ (i.min # None /\ i.max # None) => i.min <= i.max
    /\ (i.minLength # None /\ i.maxLength # None) => i.minLength <= i.maxLength
    /\ i.pattern # "malformed"
    /\ CASE i.type = "enum" -> i.enum # {}
         [] i.type = "string" -> i.enum = {} /\ Unset(i, {"min", "max"})
         [] i.type = "secret" -> /\ i.required /\ i.maxLength # None
                                 /\ i.enum = {} /\ Unset(i, {"min", "max"})
         [] i.type = "integer" -> i.enum = {} /\ Unset(i, {"minLength", "maxLength", "pattern"})
         [] i.type = "boolean" -> /\ i.enum = {} /\ ~i.disallowLeadingDash
                                  /\ Unset(i, {"min", "max", "minLength", "maxLength", "pattern"})
         [] OTHER -> FALSE      \* multiselect

(* Mutant: a leading dash is nobody's business. *)
DashFree_Any(i) == TRUE

DashFree(i) ==
    /\ i.type \in {"string", "enum"} => i.disallowLeadingDash
    /\ i.type = "enum" => \A t \in i.enum : ~Dashed(t)

(* Flags and positional values. *)
validateValue(arg, inputs) ==
    /\ arg.from \in Ids(inputs)
    /\ LET i == InputOf(inputs, arg.from)
       IN  /\ i.type \in {"string", "integer", "enum"}
           /\ i.required \/ arg.omitWhenEmpty
           /\ DashFree(i)

(* Mutant: an optional enumeration may be mapped. *)
validateMap_Optional(arg, inputs) ==
    /\ arg.from \in Ids(inputs)
    /\ InputOf(inputs, arg.from).type = "enum"
    /\ arg.values = InputOf(inputs, arg.from).enum

validateMap(arg, inputs) ==
    /\ arg.from \in Ids(inputs)
    /\ LET i == InputOf(inputs, arg.from)
       IN  i.type = "enum" /\ i.required /\ arg.values = i.enum

validateArgument(arg, inputs) ==
    CASE arg.kind = "literal" -> TRUE
      [] arg.kind \in {"flag", "positional"} -> validateValue(arg, inputs)
      [] arg.kind = "switch" -> arg.from \in Ids(inputs) /\ InputOf(inputs, arg.from).type = "boolean"
      [] arg.kind = "map" -> validateMap(arg, inputs)
      [] OTHER -> FALSE     \* no mapping at all

validateStdin(c, inputs) ==
    LET secrets == {k \in DOMAIN inputs : inputs[k].type = "secret"}
    IN  CASE c.stdin.kind = "none" -> secrets = {}
          [] c.stdin.kind = "input" ->
               /\ c.risk \in {"change", "destructive"}
               /\ c.stdin.from \in Ids(inputs)
               /\ InputOf(inputs, c.stdin.from).type = "secret" /\ Cardinality(secrets) = 1
          [] c.stdin.kind = "template" ->
               /\ c.risk \in {"change", "destructive"} /\ secrets = {}
               /\ c.stdin.from \in Ids(inputs)
               /\ LET i == InputOf(inputs, c.stdin.from)
                  IN  /\ i.required
                      /\ \/ i.type \in {"string", "integer"}
                         \/ i.type = "enum" /\ \A t \in i.enum : Plain(t)
          [] OTHER -> FALSE     \* a malformed placeholder, both or neither

validateImpact(c, inputs) ==
    IF c.risk \in {"change", "destructive"}
    THEN /\ c.impact # None /\ c.impact \in Ids(inputs)
         /\ LET i == InputOf(inputs, c.impact)
            IN  i.required /\ i.type \in {"string", "enum", "integer"}
    ELSE c.impact = None

validateOutput(o) ==
    /\ o.containsSecrets => ~o.persistRawOutput /\ ~o.revealByDefault /\ o.fields = <<>>
    /\ o.fields # <<>> =>
          /\ o.mode = "json" /\ o.renderer \in {"", "cards"}
          /\ \A j, k \in DOMAIN o.fields : o.fields[j].key = o.fields[k].key => j = k
          /\ \A k \in DOMAIN o.fields : ~o.fields[k].sensitive

(* The artifact's name may differ from the declared one in case on every    *)
(* platform.  "pinned": sizes and digests are there and in bounds, those of *)
(* the executable inside exactly when the artifact is an archive.           *)
validateToolInstall(t) ==
    t.install # None =>
        /\ t.probe
        /\ t.constrained => t.satisfies
        /\ t.install.platform \in t.platforms /\ t.install.pinned
        /\ t.install.source = "public-https"
        /\ t.install.name \in {"as-declared", "other-case"}
              \cup (IF t.install.platform = "windows" THEN {"with-exe"} ELSE {})

(* isForbiddenExecutable, Tool.UnmarshalJSON *)
validateTool(t) ==
    /\ t.executable = "plain"
    /\ t.constrained => t.probe
    /\ validateToolInstall(t)

validateSessionCheck(h, c) ==
    h.tool.sessionCheck =>
        /\ c.risk = "read" /\ h.inputs = <<>> /\ ~c.output.containsSecrets
        /\ c.auth = "vendor-session"

validateSemantics(h, c) ==
    /\ validateTool(h.tool)
    /\ \A j, k \in DOMAIN h.inputs : h.inputs[j].id = h.inputs[k].id => j = k
    /\ \A k \in DOMAIN h.inputs : validateInput(h.inputs[k])
    /\ validateImpact(c, h.inputs)
    /\ \A k \in DOMAIN c.argv : validateArgument(c.argv[k], h.inputs)
    /\ validateStdin(c, h.inputs)
    /\ validateOutput(c.output)
    /\ validateSessionCheck(h, c)

(* One document of plain YAML: no alias, anchor, tag, merge or repeated key *)
(* and not too large or too deep.                                           *)
Decodable(h, c) == h.yaml = "plain" /\ c.yaml = "plain"

Parse(content) ==
    LET h == content[1]  c == content[2]
    IN  Decodable(h, c) /\ validateSemantics(h, c)

-----------------------------------------------------------------------------
(* Loader and registry *)

Idle == [pc |-> "scan", before |-> 0, opened |-> 0, stamp |-> 0, head |-> None, tail |-> None]
Fail == load' = [load EXCEPT !.pc = "failed"]

(* The half h of the opened file. *)
Half(h) == file[load.opened][h]

(* LoadDirectory looks at the entry first, LoadFiles goes to the file.      *)
Scan ==
    /\ load.pc = "scan"
    /\ \/ load' = [load EXCEPT !.pc = "lstat"]
       \/ link /\ Fail
    /\ UNCHANGED <<file, path, link, registry, plan, shown>>

Lstat ==
    /\ load.pc = "lstat"
    /\ IF link THEN Fail ELSE load' = [load EXCEPT !.pc = "open", !.before = path]
    /\ UNCHANGED <<file, path, link, registry, plan, shown>>

Open ==
    /\ load.pc = "open"
    /\ IF path # load.before THEN Fail
       ELSE load' = [load EXCEPT !.pc = "head", !.opened = path, !.stamp = file[path].stamp]
    /\ UNCHANGED <<file, path, link, registry, plan, shown>>

ReadHead ==
    /\ load.pc = "head"
    /\ load' = [load EXCEPT !.pc = "tail", !.head = Half("head")]
    /\ UNCHANGED <<file, path, link, registry, plan, shown>>

ReadTail ==
    /\ load.pc = "tail"
    /\ load' = [load EXCEPT !.pc = "settle", !.tail = Half("tail")]
    /\ UNCHANGED <<file, path, link, registry, plan, shown>>

(* Mutant: the opened file is not looked at again after reading. *)
Settled_Open == TRUE

(* The same size and the same modification time after reading. *)
Settled == file[load.opened].stamp = load.stamp

Settle ==
    /\ load.pc = "settle"
    /\ load' = [load EXCEPT !.pc = IF Settled /\ Parse(<<load.head, load.tail>>)
                                   THEN "register" ELSE "failed"]
    /\ UNCHANGED <<file, path, link, registry, plan, shown>>

(* A reserved id is admitted with the embedded content only, and never next *)
(* to the built-in pack itself (NewRegistry).                               *)
Admissible(content, defaults) ==
    content[1].id = Builtin[1].id => content = Builtin /\ ~defaults

Register(defaults) ==
    /\ load.pc = "register"
    /\ LET content == <<load.head, load.tail>>
       IN  IF Admissible(content, defaults)
           THEN registry' = content /\ load' = [load EXCEPT !.pc = "done"]
           ELSE Fail /\ UNCHANGED registry
    /\ UNCHANGED <<file, path, link, plan, shown>>

-----------------------------------------------------------------------------
(* Planner *)

Absent == [code |-> "ok", present |-> FALSE, text |-> "", boolean |-> FALSE]
Value(t, b) == [code |-> "ok", present |-> TRUE, text |-> t, boolean |-> b]
Refused == [Absent EXCEPT !.code = "invalid_input"]

validateString(i, t) ==
    /\ t # "nul"
    /\ i.minLength # None => Length(t) >= i.minLength
    /\ i.maxLength # None => Length(t) <= i.maxLength
    /\ i.pattern # None => t \in {"x", "y"}
    /\ i.disallowLeadingDash => ~Dashed(t)
    /\ i.type = "enum" => t \in i.enum

Decimal(n) == IF n < 0 THEN "-1" ELSE IF n = 0 THEN "0" ELSE "1"

parseValue(i, raw) ==
    CASE i.type \in {"string", "enum", "secret"} ->
           IF raw.kind = "string" /\ validateString(i, raw.text) THEN Value(raw.text, FALSE) ELSE Refused
      [] i.type = "integer" ->
           IF /\ raw.kind = "integer"
              /\ i.min # None => raw.n >= i.min
              /\ i.max # None => raw.n <= i.max
           THEN Value(Decimal(raw.n), FALSE) ELSE Refused
      [] i.type = "boolean" ->
           IF raw.kind = "boolean" THEN Value(IF raw.truth THEN "true" ELSE "false", raw.truth) ELSE Refused
      [] OTHER -> Refused   \* multiselect, which no valid pack has

(* A value the request does not give, of an input that must have one. *)
InputValue(i, given) ==
    IF given[i.id].kind # "absent" THEN parseValue(i, given[i.id])
    ELSE IF i.required THEN [Absent EXCEPT !.code = "missing_input"] ELSE Absent

(* What validation should have refused: an input that is not declared or    *)
(* has no value, a value without a mapping.                                 *)
Unmapped(arg, v) ==
    /\ arg.kind # "literal"
    /\ \/ arg.kind \notin {"flag", "positional", "switch", "map"}
       \/ arg.from \notin DOMAIN v
       \/ arg.kind = "map" /\ ~(v[arg.from].present /\ v[arg.from].text \in arg.values)

Word(text) == [user |-> FALSE, text |-> text, from |-> None]

(* What one argument contributes; <<>> when it is omitted.                  *)
Argument(arg, v) ==
    CASE arg.kind = "literal" -> <<Word("literal")>>
      [] arg.kind \in {"flag", "positional"} ->
           IF ~v[arg.from].present \/ (arg.omitWhenEmpty /\ v[arg.from].text = "") THEN <<>>
           ELSE (IF arg.kind = "flag" THEN <<Word("--name")>> ELSE <<>>)
                \o <<[user |-> TRUE, text |-> v[arg.from].text, from |-> arg.from]>>
      [] arg.kind = "switch" ->
           IF v[arg.from].present /\ v[arg.from].boolean THEN <<Word("--name")>> ELSE <<>>
      [] arg.kind = "map" -> <<Word("mapped")>>

(* The text of stdin and how much of it may be read as YAML. *)
NoStdin == [from |-> None, text |-> "", quoted |-> FALSE, sensitive |-> FALSE]

Unfilled(stdin, v) ==
    stdin.kind # "none" /\ (stdin.from \notin DOMAIN v \/ ~v[stdin.from].present)

renderStdin(stdin, v, inputs) ==
    IF stdin.kind = "none" THEN NoStdin
    ELSE [from |-> stdin.from, text |-> v[stdin.from].text,
          quoted |-> stdin.kind = "template" /\ InputOf(inputs, stdin.from).type # "enum",
          sensitive |-> stdin.kind = "input"]

NoPlan == [code |-> "none", at |-> "none", args |-> <<>>, stdin |-> NoStdin, target |-> None,
           tool |-> "none"]
Error(code) == [NoPlan EXCEPT !.code = code]
Invalid(at) == [NoPlan EXCEPT !.code = "invalid_plan_state", !.at = at]

(* Build after the request is known to be permitted and its values parsed.  *)
Assemble(h, c, v) ==
    IF c.impact # None /\ (c.impact \notin DOMAIN v \/ ~v[c.impact].present) THEN Invalid("no target")
    ELSE IF c.impact # None /\ v[c.impact].text = "" THEN Invalid("empty target")
    ELSE IF c.impact # None /\ ~Display(v[c.impact].text) THEN Error("invalid_input")
    ELSE IF \E k \in DOMAIN c.argv : Unmapped(c.argv[k], v) THEN Invalid("argv")
    ELSE IF Unfilled(c.stdin, v) THEN Invalid("stdin")
    ELSE [NoPlan EXCEPT !.code = "ok",
             !.args = FlattenSeq([k \in DOMAIN c.argv |-> Argument(c.argv[k], v)]),
             !.stdin = renderStdin(c.stdin, v, h.inputs),
             !.target = IF c.impact = None THEN None ELSE v[c.impact].text]

Build(content, tool, given) ==
    LET h == content[1]
        c == content[2]
        v == [id \in Ids(h.inputs) |-> InputValue(InputOf(h.inputs, id), given)]
        bad == {k \in DOMAIN h.inputs : v[h.inputs[k].id].code # "ok"}
    IN  IF c.risk \in {"change", "destructive"} /\ c.impact = None THEN Invalid("risk")
        ELSE IF c.risk \notin {"read", "change", "destructive"} THEN Error("risk_policy_required")
        ELSE IF c.auth = "unspecified" THEN Error("auth_policy_required")
        ELSE IF c.output.containsSecrets THEN Error("output_policy_required")
        ELSE IF tool = "missing" THEN Error("tool_unavailable")
        ELSE IF tool \in {"other-version", "unidentified"} THEN Error("stale_discovery")
        ELSE IF \E id \in DOMAIN given \ Ids(h.inputs) : given[id].kind # "absent"
             THEN Error("unknown_input")
        ELSE IF bad # {}
             THEN Error(v[h.inputs[CHOOSE k \in bad : \A j \in bad : k <= j].id].code)
        ELSE Assemble(h, c, v)

(* What the task catalog offers of the same snapshot. *)
commandBrowserRunnable(c) ==
    /\ ~c.output.containsSecrets
    /\ c.risk \in {"read", "change", "destructive"}
    /\ c.auth # "unspecified"

ListTasks(c, tool) == commandBrowserRunnable(c) /\ tool # "missing"

(* A browser asks for a plan. *)
Plan(tool, given) ==
    /\ registry # None /\ plan = NoPlan
    /\ plan' = [Build(registry, tool, given) EXCEPT !.tool = tool]
    /\ UNCHANGED <<file, path, link, load, registry, shown>>

-----------------------------------------------------------------------------
(* Output *)

NoOutput == [status |-> "none", doc |-> None, fields |-> <<>>]

Keys(row) == {row[k].key : k \in DOMAIN row}
Entry(row, key) == row[CHOOSE k \in DOMAIN row : row[k].key = key]

(* Mutant: of two values for a key either is taken. *)
Repeats_Never(row) == FALSE

Repeats(row) == \E j, k \in DOMAIN row : row[j].key = row[k].key /\ j # k

(* structured.Parse: one object, each key declared, once, with a value of   *)
(* its type, and the required ones there.  Fields come in declared order.   *)
ParseStructured(doc, fields) ==
    LET row == doc.rows[1]
        declared(key) == {k \in DOMAIN fields : fields[k].key = key}
        fits(e) == \E k \in declared(e.key) : fields[k].type = e.kind
    IN  IF /\ doc.shape = "object" /\ doc.ends
           /\ ~Repeats(row)
           /\ \A k \in DOMAIN row : fits(row[k])
           /\ \A k \in DOMAIN fields : fields[k].required => fields[k].key \in Keys(row)
        THEN [status |-> "available", doc |-> doc,
              fields |-> [k \in DOMAIN fields |->
                  IF fields[k].key \in Keys(row) THEN Entry(row, fields[k].key) ELSE None]]
        ELSE [NoOutput EXCEPT !.status = "invalid", !.doc = doc]

(* OutputGuard of the Idira pack: rows with exactly the reviewed fields.    *)
Reviewed == {"safe_id", "safe_name"}

filterRows(doc) ==
    /\ doc.shape = "array" /\ doc.ends
    /\ \A r \in DOMAIN doc.rows :
         /\ ~Repeats(doc.rows[r]) /\ Keys(doc.rows[r]) = Reviewed
         /\ \A k \in DOMAIN doc.rows[r] : doc.rows[r][k].kind = "string"

(* Without a guard or declared fields the bytes are shown. *)
Rendered(content, doc) ==
    LET fields == content[2].output.fields
    IN  IF content[1].id = Builtin[1].id
        THEN [NoOutput EXCEPT !.doc = doc, !.status = IF filterRows(doc) THEN "guarded" ELSE "withheld"]
        ELSE IF fields # <<>> THEN ParseStructured(doc, fields)
        ELSE [NoOutput EXCEPT !.status = "raw", !.doc = doc]

(* The command ends with this output. *)
EndCommand(doc) ==
    /\ plan.code = "ok" /\ shown = NoOutput
    /\ shown' = Rendered(registry, doc)
    /\ UNCHANGED <<file, path, link, load, registry, plan>>

-----------------------------------------------------------------------------
(* The editor *)

Editable == /\ load.pc \notin {"register", "done", "failed"}
            /\ Len(file) - 1 + file[path].stamp < MaxEdits
            /\ file[1].held \cap Drafts # {}

(* External: a half of the file is overwritten in place. *)
Overwrite(d, half) ==
    /\ Editable
    /\ LET old == file[path]
           new == [old EXCEPT ![half] = IF half = "head" THEN d[1] ELSE d[2], !.stamp = old.stamp + 1]
       IN  file' = [file EXCEPT ![path] = [new EXCEPT !.held = old.held \cup {<<new.head, new.tail>>}]]
    /\ UNCHANGED <<path, link, load, registry, plan, shown>>

(* External: another file, or a symbolic link, takes the path. *)
Replace(d, isLink) ==
    /\ Editable
    /\ file' = Append(file, [head |-> d[1], tail |-> d[2], stamp |-> 0, held |-> {d}])
    /\ path' = Len(file) + 1 /\ link' = isLink
    /\ UNCHANGED <<load, registry, plan, shown>>

PackInit ==
    /\ \E d \in Packs : file = <<[head |-> d[1], tail |-> d[2], stamp |-> 0, held |-> {d}]>>
    /\ path = 1 /\ link = FALSE
    /\ load = Idle /\ registry = None /\ plan = NoPlan /\ shown = NoOutput

PackNext ==
    \/ Scan \/ Lstat \/ Open \/ ReadHead \/ ReadTail \/ Settle
    \/ \E defaults \in BOOLEAN : Register(defaults)
    \/ \E tool \in {"ready", "missing", "other-version", "unidentified"}, given \in [Names -> Raw] :
          Plan(tool, given)
    \/ \E doc \in Docs : EndCommand(doc)
    \/ \E d \in Drafts : \/ Overwrite(d, "head") \/ Overwrite(d, "tail")
                         \/ Replace(d, FALSE) \/ Replace(d, TRUE)

PackSpec == PackInit /\ [][PackNext]_packVars

-----------------------------------------------------------------------------
(* Properties *)

(* Every variable keeps its type. *)
PackTypeOK ==
    /\ path \in DOMAIN file /\ link \in BOOLEAN
    /\ load.pc \in {"scan", "lstat", "open", "head", "tail", "settle", "register", "done", "failed"}
    /\ {load.before, load.opened} \subseteq DOMAIN file \cup {0}
    /\ registry # None => load.pc = "done"
    /\ plan.code # "none" => registry # None
    /\ shown # NoOutput => plan.code = "ok"

(* What is loaded was, as a whole, the content of the opened file at some   *)
(* moment: no half of one version with a half of another, however the file  *)
(* is overwritten or replaced while loadLocalFile reads it.  And a reserved *)
(* id comes with the embedded content.                                      *)
LoadedIsOneVersion ==
    /\ PackTypeOK
    /\ registry # None =>
          /\ registry \in file[load.opened].held
          /\ registry[1].id = Builtin[1].id => registry = Builtin

(* The states that the planner calls invalid for a validated pack cannot be *)
(* reached, with any values: every rule Build relies on is one that         *)
(* validateSemantics enforces.  The one exception is a mutation whose       *)
(* target is given as empty text.  And the catalog and the planner agree on *)
(* the policy: what newTaskCatalog lists is never refused by Build for its  *)
(* risk, its authentication, its output or a missing tool, and nothing else *)
(* gets a plan.                                                             *)
PlansAreTotal ==
    /\ plan.code = "invalid_plan_state" => plan.at = "empty target"
    /\ plan.code # "none" =>
          IF ListTasks(registry[2], plan.tool)
          THEN plan.code \notin {"risk_policy_required", "auth_policy_required",
                                "output_policy_required", "tool_unavailable"}
          ELSE plan.code # "ok"

(* Whatever a browser sends: only a number brings a dash into argv, a       *)
(* secret reaches the command through stdin alone and is marked as one,     *)
(* nothing else the user wrote stands unquoted in the YAML, and a mutation  *)
(* shows a target that can be read.                                         *)
PlanIsDeclared ==
    plan.code = "ok" =>
        LET type(id) == InputOf(registry[1].inputs, id).type
        IN  /\ \A k \in DOMAIN plan.args : plan.args[k].user =>
                  /\ type(plan.args[k].from) # "secret"
                  /\ Dashed(plan.args[k].text) => type(plan.args[k].from) = "integer"
            /\ plan.stdin.from # None =>
                  /\ plan.stdin.sensitive <=> type(plan.stdin.from) = "secret"
                  /\ plan.stdin.quoted \/ plan.stdin.sensitive \/ Plain(plan.stdin.text)
            /\ registry[2].risk # "read" => Display(plan.target)
            /\ registry[2].impact # None => type(registry[2].impact) # "secret"

(* What is shown of structured output is the declared fields, each with the *)
(* one value the command printed for it; of a guarded platform nothing else *)
(* than the reviewed rows is ever shown, whoever wrote the pack file.       *)
ResultIsDeclared ==
    /\ shown.status = "available" =>
          \A k \in DOMAIN shown.fields :
             LET f == registry[2].output.fields[k]
                 printed == {e \in Range(shown.doc.rows[1]) : e.key = f.key}
             IN  /\ ~f.sensitive
                 /\ IF shown.fields[k] = None THEN ~f.required /\ printed = {}
                    ELSE printed = {shown.fields[k]} /\ shown.fields[k].kind = f.type
    /\ shown.status \in {"raw", "available"} => registry[1].id # Builtin[1].id
=============================================================================
