---------------------------- MODULE TemplateStack ----------------------------
(***************************************************************************)
(* The template stack of the Spec Kit scripts (.specify/scripts/python/     *)
(* common.py).  One template name is looked up in four places, the nearest  *)
(* first: the project's override, the presets, the extensions, the core     *)
(* templates.  There are two readers of the same tree:                      *)
(*   ResolveTemplate         finds one file by the naming convention;       *)
(*   ResolveTemplateContent  composes the text, and also obeys the presets' *)
(*                           manifests (prepend, append, wrap, replace).    *)
(* setup_tasks prints the answer of the first beside the answer of the      *)
(* second.                                                                  *)
(*                                                                          *)
(* A text is a sequence of marks, one mark standing for the passages of one *)
(* file; HOLE is the placeholder "{CORE_TEMPLATE}" and GARBLED is a passage *)
(* that does not decode as UTF-8.  A tree is a record:                      *)
(*   override, core      the text there, or Missing                         *)
(*   presetRegistry, extensionRegistry   "absent", "unreadable" or "read"   *)
(*   presets, extensions sequences, in the order of their ids, of records   *)
(*                       [listed, enabled, priority, there, plain]; a       *)
(*                       preset has a manifest besides                      *)
(*   yaml                who parses a manifest, see ImportYaml              *)
(* A priority of 0 stands for every value that is no number of at least 1.  *)
(***************************************************************************)
EXTENDS Naturals, FiniteSets, Sequences, SequencesExt

HOLE == "{CORE_TEMPLATE}"
GARBLED == "garbled"

\* A file that is not there, next to every file that is.
Missing == [there |-> FALSE, text |-> <<>>]
File(text) == [there |-> TRUE, text |-> text]

\* What a resolution ends with: a text, nothing, or TemplateResolutionError.
Resolved(text) == [kind |-> "text", text |-> text]
Nothing == [kind |-> "nothing", text |-> <<>>]
Refused == [kind |-> "error", text |-> <<>>]

-----------------------------------------------------------------------------
(* The order of presets and extensions.                                     *)

IsListing(items) ==
    /\ IsFiniteSet(DOMAIN items) /\ DOMAIN items \subseteq Nat \ {0}
    /\ \A i \in DOMAIN items : items[i].priority \in Nat

NormalizePriority(value) == IF value >= 1 THEN value ELSE 10

Before(rank, a, b) == rank[a] < rank[b] \/ (rank[a] = rank[b] /\ a < b)

\* The domain of rank, sorted by rank and then by number.
RankedBy(rank) ==
    LET sorted[n \in 0 .. Cardinality(DOMAIN rank)] ==
          IF n = 0 THEN <<>>
          ELSE LET rest == DOMAIN rank \ ToSet(sorted[n - 1])
               IN  Append(sorted[n - 1],
                          CHOOSE a \in rest : \A b \in rest \ {a} : Before(rank, a, b))
    IN  sorted[Cardinality(DOMAIN rank)]

SortedPresetIds(tree) ==
    LET enabled == {p \in DOMAIN tree.presets :
                      tree.presets[p].listed /\ tree.presets[p].enabled}
        present == {p \in DOMAIN tree.presets : tree.presets[p].there}
    IN  IF tree.presetRegistry = "read"
        THEN RankedBy([p \in enabled |-> NormalizePriority(tree.presets[p].priority)])
        ELSE RankedBy([p \in present |-> p])

\* An unregistered directory ranks as priority 10; a registered extension that
\* is disabled does not come back as an unregistered directory.
SortedExtensionIds(tree) ==
    LET listed == {e \in DOMAIN tree.extensions :
                     tree.extensionRegistry = "read" /\ tree.extensions[e].listed}
        ranked == {e \in listed : tree.extensions[e].enabled}
                  \cup {e \in DOMAIN tree.extensions \ listed :
                          tree.extensions[e].there}
    IN  RankedBy([e \in ranked |->
                     IF e \in listed THEN NormalizePriority(tree.extensions[e].priority)
                     ELSE 10])

-----------------------------------------------------------------------------
(* The reader of one file.  It answers with the place of the file, or       *)
(* raises when it comes to an extension registry it cannot read.            *)

NoPlace == <<"nowhere", 0>>
Raises  == <<"raises", 0>>

\* The first of them that has the file, Nobody if none has.
Nobody == 0
Conventional(items, order) ==
    LET n == SelectInSeq(order, LAMBDA i : items[i].plain.there)
    IN  IF n = 0 THEN Nobody ELSE order[n]

\* A bug to be caught: the extensions come before the presets.
ResolveTemplateExtensionsFirst(tree) ==
    LET preset    == Conventional(tree.presets, SortedPresetIds(tree))
        extension == Conventional(tree.extensions, SortedExtensionIds(tree))
    IN  IF tree.override.there THEN <<"override", 0>>
        ELSE IF tree.extensionRegistry = "unreadable" THEN Raises
        ELSE IF extension # Nobody THEN <<"extension", extension>>
        ELSE IF preset # Nobody THEN <<"preset", preset>>
        ELSE IF tree.core.there THEN <<"core", 0>> ELSE NoPlace

ResolveTemplate(tree) ==
    LET preset    == Conventional(tree.presets, SortedPresetIds(tree))
        extension == Conventional(tree.extensions, SortedExtensionIds(tree))
    IN  CASE tree.override.there -> <<"override", 0>>
          [] ~tree.override.there /\ preset # Nobody -> <<"preset", preset>>
          [] ~tree.override.there /\ preset = Nobody ->
                IF tree.extensionRegistry = "unreadable" THEN Raises
                ELSE IF extension # Nobody THEN <<"extension", extension>>
                ELSE IF tree.core.there THEN <<"core", 0>> ELSE NoPlace

\* The text of the file at a place the convention names.
TextAt(tree, place) ==
    CASE place[1] = "override"  -> tree.override.text
      [] place[1] = "preset"    -> tree.presets[place[2]].plain.text
      [] place[1] = "extension" -> tree.extensions[place[2]].plain.text
      [] place[1] = "core"      -> tree.core.text
      [] OTHER                  -> <<>>

-----------------------------------------------------------------------------
(* The reader that composes.  A layer is what one place adds: a file and a  *)
(* strategy, nothing, or a manifest that cannot be used.                    *)

Layer(file, strategy) == [kind |-> "layer", text |-> file.text, strategy |-> strategy]
NoLayer  == [kind |-> "nothing", text |-> <<>>, strategy |-> "replace"]
BadLayer == [kind |-> "error", text |-> <<>>, strategy |-> "replace"]

LayerOf(file) == IF file.there THEN Layer(file, "replace") ELSE NoLayer

\* PyYAML of this interpreter, of SPECKIT_PYTHON_EXECUTABLE (whose child may
\* fail, time out or print no JSON), or of nobody.
Parsers == {"native", "delegated", "delegate fails", "none"}
ImportYaml(tree) == tree.yaml # "none"
SafeLoads(tree) == tree.yaml \in {"native", "delegated"}

\* A manifest is absent, malformed, or the sequence of its entries for this
\* template, each with a strategy and the file it names (Missing as well when
\* the name leaves the preset's directory).  Only the first entry counts.
Strategies == {"replace", "prepend", "append", "wrap"}
NoManifest == [kind |-> "absent", entries |-> <<>>]
Malformed  == [kind |-> "malformed", entries |-> <<>>]
Manifest(entries) == [kind |-> "valid", entries |-> entries]

PresetTemplateLayer(tree, p) ==
    LET preset  == tree.presets[p]
        entries == preset.manifest.entries
    IN  CASE preset.manifest.kind = "absent" -> LayerOf(preset.plain)
          [] preset.manifest.kind # "absent" ->
               IF \/ ~ImportYaml(tree) \/ ~SafeLoads(tree)
                  \/ preset.manifest.kind = "malformed"
               THEN BadLayer
               ELSE IF entries = <<>> THEN LayerOf(preset.plain)
               ELSE IF ~entries[1].file.there THEN NoLayer
               ELSE Layer(entries[1].file, entries[1].strategy)

Fill(text, content) == FlattenSeq([i \in DOMAIN text |->
                           IF text[i] = HOLE THEN content ELSE <<text[i]>>])

\* One turn of compose_from_base: a layer is put around what lies below it.
Around(layer, below) ==
    IF \/ below.kind # "text" \/ GARBLED \in ToSet(layer.text)
       \/ layer.strategy = "wrap" /\ HOLE \notin ToSet(layer.text)
    THEN Refused
    ELSE Resolved(CASE layer.strategy = "prepend" -> layer.text \o below.text
                    [] layer.strategy = "append"  -> below.text \o layer.text
                    [] layer.strategy = "wrap"    -> Fill(layer.text, below.text))

\* The loop over reversed(layers[:-1]).
Composed(layers, base) ==
    LET content[n \in 0 .. Len(layers)] ==
            IF n = 0 THEN base
            ELSE Around(layers[Len(layers) + 1 - n], content[n - 1])
    IN  content[Len(layers)]

Base(layer) == IF GARBLED \in ToSet(layer.text) THEN Refused ELSE Resolved(layer.text)

\* A bug to be caught: the layers are applied from the nearest to the farthest.
ComposeFromTop(layers) == Composed(Reverse(Front(layers)), Base(Last(layers)))

ComposeFromBase(layers) == Composed(Front(layers), Base(Last(layers)))

HasBase(layers) == layers # <<>> /\ Last(layers).strategy = "replace"

\* The presets' layers, up to and with the first that replaces or fails.
PresetLayers(tree) ==
    LET order == SortedPresetIds(tree)
        taken[n \in 0 .. Len(order)] ==
          IF n = 0 THEN <<>>
          ELSE LET layer == PresetTemplateLayer(tree, order[n])
               IN  IF HasBase(taken[n - 1]) \/ layer = NoLayer THEN taken[n - 1]
                   ELSE Append(taken[n - 1], layer)
    IN  taken[Len(order)]

ResolveTemplateContent(tree) ==
    LET layers     == PresetLayers(tree)
        extension  == Conventional(tree.extensions, SortedExtensionIds(tree))
        Over(file) == ComposeFromBase(Append(layers, Layer(file, "replace")))
    IN  CASE tree.override.there -> ComposeFromBase(<<LayerOf(tree.override)>>)
          [] ~tree.override.there /\ HasBase(layers) ->
                IF Last(layers) = BadLayer THEN Refused ELSE ComposeFromBase(layers)
          [] ~tree.override.there /\ ~HasBase(layers) ->
                IF tree.extensionRegistry = "unreadable" THEN Refused
                ELSE IF extension # Nobody THEN Over(tree.extensions[extension].plain)
                ELSE IF tree.core.there THEN Over(tree.core)
                ELSE IF layers = <<>> THEN Nothing ELSE Refused
=============================================================================
