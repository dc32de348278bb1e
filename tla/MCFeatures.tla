------------------------------ MODULE MCFeatures ------------------------------
(* Small instances of Features: two scripts at once over a few trees, or one   *)
(* setup_tasks over every small template tree.                                 *)
EXTENDS Features, TLC

CONSTANTS s1, s2
MCScript == {s1, s2}
Swap == Permutations(MCScript)

A1 == Directory(1, "plain", "a")
A2 == Directory(2, "plain", "a")
B1 == Directory(1, "plain", "b")
B3 == Directory(3, "plain", "b")
C1 == Directory(1, "padded", "c")

Create == Command("create")
Numbering(n, suffix) == [Create EXCEPT !.mode = "number", !.number = n, !.suffix = suffix]
Auto(suffix) == [Create EXCEPT !.suffix = suffix]
Given(kind, d) == [Command(kind) EXCEPT !.given = d]
None == Command("none")
Alone == [Given("tasks", A1) EXCEPT !.keep = TRUE]

MCCommands ==
    {Auto("a"), [Auto("a") EXCEPT !.dry = TRUE],
     [Auto("a") EXCEPT !.mode = "stamp", !.keep = TRUE],
     Numbering(1, "a"), Numbering(1, "b"), [Numbering(1, "a") EXCEPT !.adopt = TRUE],
     Numbering(4, "a"),
     Command("plan"), Given("plan", A1), [Given("plan", A2) EXCEPT !.keep = TRUE],
     Command("tasks"), Alone,
     [Given("check", A2) EXCEPT !.pathsOnly = TRUE],
     [Command("check") EXCEPT !.wants = <<"spec", "tasks">>, !.template = TRUE],
     None}

Written(spec, plan) == [spec |-> spec, plan |-> plan, tasks |-> "authored"]

AloneStart == [features |-> (A1 :> Written("authored", "authored")), pointer |-> Names(A1)]

MCStarts ==
    {[features |-> <<>>, pointer |-> Absent],
     [features |-> (A1 :> Written("authored", "absent")), pointer |-> Names(A1)],
     [features |-> (A2 :> Written("authored", "authored")) @@ (C1 :> Written("authored", "absent")),
      pointer |-> Torn],
     AloneStart,
     [features |-> (A1 :> NoTexts) @@ (B1 :> Written("template", "absent"))
                   @@ (B3 :> Written("authored", "template")), pointer |-> Names(B3)]}

-----------------------------------------------------------------------------
(* The template trees.                                                      *)

Plain == [override |-> Missing, core |-> File(<<"core">>), presets |-> <<>>,
          extensions |-> <<>>, presetRegistry |-> "absent",
          extensionRegistry |-> "absent", yaml |-> "native"]

Preset(p, enabled, priority, plain, manifest) ==
    [listed |-> TRUE, enabled |-> enabled, priority |-> priority, there |-> TRUE,
     plain |-> plain, manifest |-> manifest]

Entry(p, strategy, file) == [strategy |-> strategy, file |-> file]

Manifests(p) ==
    {NoManifest, Malformed, Manifest(<<>>)}
    \cup {Manifest(<<Entry(p, strategy, File(<<p>>))>>) :
            strategy \in {"replace", "prepend", "append", "wrap"}}
    \cup {Manifest(<<Entry(p, "wrap", File(<<p, HOLE, p>>))>>),
          Manifest(<<Entry(p, "append", Missing), Entry(p, "append", File(<<p>>))>>)}

Presets(p, plain, priorities) ==
    {Preset(p, e, n, f, m) : e \in BOOLEAN, n \in priorities,
                             f \in {Missing, File(<<plain>>)}, m \in Manifests(p)}

Extension(listed, enabled, priority, text) ==
    [listed |-> listed, enabled |-> enabled, priority |-> priority, there |-> TRUE,
     plain |-> File(text)]

Extensions ==
    {<<>>, <<Extension(TRUE, FALSE, 1, <<"e1">>)>>,
     <<Extension(FALSE, TRUE, 0, <<"e1">>), Extension(TRUE, TRUE, 2, <<"e2">>)>>,
     <<Extension(FALSE, TRUE, 0, <<GARBLED>>)>>}

Second == {[p EXCEPT !.enabled = TRUE] : p \in Presets("m2", "p2", {5})}

Stacked == {[Plain EXCEPT !.presets = <<one, two>>, !.extensions = ext,
                          !.presetRegistry = registry, !.core = core] :
              one \in Presets("m1", "p1", {0, 1}), two \in Second, ext \in Extensions,
              registry \in {"read", "unreadable"}, core \in {Missing, File(<<"core">>)}}

OnePreset == {[Plain EXCEPT !.presets = <<one>>, !.presetRegistry = "read", !.yaml = yaml,
                            !.extensionRegistry = known, !.override = override] :
                one \in Presets("m1", "p1", {0, 1}), yaml \in Parsers,
                known \in {"read", "unreadable"},
                override \in {Missing, File(<<"own">>), File(<<GARBLED>>)}}

Troubled == {[Plain EXCEPT !.core = Missing], [Plain EXCEPT !.extensionRegistry = "unreadable"]}

Scripted == {Plain} \cup Troubled
MCLayouts == Scripted \cup OnePreset \cup Stacked

\* Over the first few template trees two scripts run at once; over all the others
\* one setup_tasks runs by itself. Both are initial states of Features.
MCInit ==
    \/ \E start \in MCStarts, template \in Scripted, calls \in [MCScript -> MCCommands] :
         StartsWith(start, template, calls)
    \/ \E template \in OnePreset \cup Stacked :
         StartsWith(AloneStart, template, (s1 :> Alone) @@ (s2 :> None))

MCNext == /\ Next
          /\ layout \notin Scripted => UNCHANGED <<features, second>>

MCSpec == MCInit /\ [][MCNext]_vars
=============================================================================
