----------------------------- MODULE MCPackPlan -----------------------------
(* Instances of PackPlan for TLC: packs that vary the input against the     *)
(* arguments, the risk, the impact and stdin, and the rest one at a time.   *)
EXTENDS PackPlan, TLC

Input(id, type, required, dash) ==
    [id |-> id, type |-> type, required |-> required, disallowLeadingDash |-> dash,
     enum |-> IF type = "enum" THEN {"x", "y"} ELSE {}, pattern |-> None, min |-> None, max |-> None,
     minLength |-> None, maxLength |-> IF type = "secret" THEN 1 ELSE None]

Types == {"string", "integer", "boolean", "enum", "multiselect", "secret"}

Base == {Input("a", type, required, dash) : type \in Types, required \in BOOLEAN, dash \in BOOLEAN}

Inputs ==
    Base \cup {[i EXCEPT !.enum = e] : i \in Base, e \in {{"-x", "x"}, {"{}"}, {}}}
         \cup {[i EXCEPT !.pattern = q] : i \in Base, q \in {"malformed", "plain"}}
         \cup {[i EXCEPT !.min = m[1], !.max = m[2]] : i \in Base, m \in {<<0, None>>, <<1, 0>>}}
         \cup {[i EXCEPT !.minLength = m[1], !.maxLength = m[2]] :
                  i \in Base, m \in {<<1, 1>>, <<1, 0>>, <<None, None>>}}

Target == Input("t", "string", TRUE, TRUE)

Tool ==
    [executable |-> "plain", probe |-> TRUE, constrained |-> TRUE, satisfies |-> TRUE,
     platforms |-> {"windows", "linux"}, install |-> None, sessionCheck |-> FALSE]

Install == [platform |-> "linux", pinned |-> TRUE, source |-> "public-https", name |-> "as-declared"]

HeadOf(inputs) == [yaml |-> "plain", id |-> "local", tool |-> Tool, inputs |-> inputs]

Arg(kind, from, omit, values) == [kind |-> kind, from |-> from, omitWhenEmpty |-> omit, values |-> values]

Arguments ==
    {Arg(k, "a", o, {}) : k \in {"flag", "positional"}, o \in BOOLEAN}
    \cup {Arg("literal", None, FALSE, {}), Arg("switch", "a", FALSE, {}), Arg("map", "a", FALSE, {"x"})}
    \cup {Arg("map", f, FALSE, {"x", "y"}) : f \in {"a", "z"}}
    \cup {Arg(k, "z", TRUE, {}) : k \in {"flag", "switch"}}

Output ==
    [mode |-> "json", renderer |-> "cards", fields |-> <<>>, containsSecrets |-> FALSE,
     persistRawOutput |-> FALSE, revealByDefault |-> FALSE]

TailOf(risk, impact, arg, kind, from) ==
    [yaml |-> "plain", risk |-> risk, impact |-> impact, argv |-> <<Arg("literal", None, FALSE, {}), arg>>,
     auth |-> "vendor-session", stdin |-> [kind |-> kind, from |-> from], output |-> Output]

Tails ==
    {TailOf("read", None, arg, "none", None) : arg \in Arguments}
    \cup {TailOf(r[1], r[2], arg, s[1], s[2]) :
            arg \in {x \in Arguments : x.kind \in {"literal", "positional"} /\ x.from # "z"},
            r \in {<<"read", "a">>, <<"change", "t">>, <<"destructive", "a">>, <<"change", None>>,
                   <<"change", "z">>, <<"interactive", None>>},
            s \in {<<"none", None>>, <<"input", "a">>, <<"template", "a">>, <<"template", "z">>,
                   <<"both", "a">>}}

Fields == <<[key |-> "k", type |-> "string", required |-> TRUE, sensitive |-> FALSE],
            [key |-> "n", type |-> "integer", required |-> FALSE, sensitive |-> FALSE]>>

Outputs ==
    {[Output EXCEPT !.fields = Fields], [Output EXCEPT !.containsSecrets = TRUE],
     [Output EXCEPT !.containsSecrets = TRUE, !.fields = Fields],
     [Output EXCEPT !.containsSecrets = TRUE, !.revealByDefault = TRUE],
     [Output EXCEPT !.fields = Fields, !.mode = "raw"], [Output EXCEPT !.fields = Fields \o Fields],
     [Output EXCEPT !.fields = <<[Fields[1] EXCEPT !.sensitive = TRUE]>>]}

Tools ==
    {[Tool EXCEPT !.executable = "shell"], [Tool EXCEPT !.probe = FALSE], [Tool EXCEPT !.sessionCheck = TRUE]}
    \cup {[Tool EXCEPT !.install = i, !.satisfies = s] : s \in BOOLEAN,
            i \in {Install, [Install EXCEPT !.name = "with-exe"], [Install EXCEPT !.pinned = FALSE],
                   [Install EXCEPT !.platform = "darwin"], [Install EXCEPT !.source = "private"]}}

Simple == <<HeadOf(<<>>), TailOf("read", None, Arg("literal", None, FALSE, {}), "none", None)>>

MCBuiltin == <<[Simple[1] EXCEPT !.id = "idira"], Simple[2]>>

MCDrafts ==
    {<<HeadOf(<<Input("a", type, TRUE, TRUE)>>), TailOf("read", None, Arg("positional", "a", FALSE, {}), "none", None)>> :
        type \in {"string", "integer"}}
    \cup {<<HeadOf(<<Input("a", "enum", TRUE, FALSE)>>), TailOf("read", None, Arg("map", "a", FALSE, {"x", "y"}), "none", None)>>,
          MCBuiltin}

MCPacks ==
    {<<HeadOf(inputs), tail>> : tail \in Tails,
        inputs \in {<<i>> : i \in Inputs} \cup {<<Target, i>> : i \in Base}}
    \cup {<<HeadOf(<<Target, Target>>), Simple[2]>>}
    \cup {<<Simple[1], [Simple[2] EXCEPT !.output = o]>> : o \in Outputs}
    \cup {<<[Simple[1] EXCEPT !.tool = t], Simple[2]>> : t \in Tools}
    \cup {<<Simple[1], [Simple[2] EXCEPT !.auth = "unspecified"]>>,
          <<[Simple[1] EXCEPT !.yaml = "alias"], Simple[2]>>}
    \cup MCDrafts

String(t) == [kind |-> "string", text |-> t, n |-> 0, truth |-> FALSE]
Integer(n) == [kind |-> "integer", text |-> "", n |-> n, truth |-> FALSE]

MCRaw ==
    {String(t) : t \in {"", "x", "-x", " x", "{}", "bell", "nul", "long"}} \cup {Integer(-1), Integer(1)}
    \cup {[kind |-> k, text |-> "", n |-> 0, truth |-> TRUE] : k \in {"absent", "null", "boolean"}}

E(key, kind, id) == [key |-> key, kind |-> kind, id |-> id]

MCDocs ==
    {[shape |-> "object", ends |-> ends, rows |-> <<row>>] : ends \in BOOLEAN,
        row \in {<<E("k", "string", 1)>>, <<E("n", "integer", 1), E("k", "string", 2)>>,
                 <<E("k", "string", 1), E("k", "string", 2)>>, <<E("n", "integer", 1)>>,
                 <<E("k", "control", 1)>>, <<E("k", "string", 1), E("z", "string", 2)>>}}
    \cup {[shape |-> "array", ends |-> TRUE, rows |-> rows] :
        rows \in {<<>>, <<<<E("safe_id", "string", 1), E("safe_name", "string", 2)>>>>,
                  <<<<E("safe_id", "string", 1)>>>>,
                  <<<<E("safe_id", "string", 1), E("safe_name", "string", 2), E("secret", "string", 3)>>>>}}
=============================================================================
