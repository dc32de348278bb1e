------------------------------ MODULE Features ------------------------------
(***************************************************************************)
(* The Spec Kit scripts (.specify/scripts/python) over the tree they share: *)
(* the feature directories under specs/, and .specify/feature.json, which   *)
(* names the current one.  Each script is a process of its own; several may *)
(* run at once, an author edits the texts meanwhile, and a script may be    *)
(* killed between any two of its accesses to the tree.  There is no lock.   *)
(*                                                                          *)
(* A feature directory is named <number>-<suffix>.  The form of the number  *)
(* is "plain" (%03d, what the scripts write), "padded" (more zeros, made by *)
(* hand) or "stamp" (--timestamp, with the second for a number).            *)
(***************************************************************************)
EXTENDS TemplateStack

CONSTANTS Script,     \* the processes
          Commands,   \* the command lines they may be started with
          Suffix,     \* what may follow the number in a directory's name
          Starts,     \* the trees they may find: [features, pointer]
          Layouts,    \* the template trees they may find
          MaxNumber,  \* _MAX_FEATURE_NUMBER
          MaxSecond   \* bound: the seconds that pass

VARIABLES specs,      \* does specs/ exist
          features,   \* the feature directories: name -> [spec, plan, tasks]
          pointer,    \* feature.json: absent, torn (no JSON), or naming a directory
          layout,     \* the template tree, which no script writes
          second,     \* the latest second a --timestamp has seen
          call,       \* each script's command line
          pc,         \* where each script is
          own,        \* each script's variables
          alone       \* history: nobody else has acted since the script started

tree == <<specs, features, pointer>>
vars == <<specs, features, pointer, layout, second, call, pc, own, alone>>

Directories == [number : Nat, form : {"none", "plain", "padded", "stamp"}, suffix : Suffix]
Directory(n, form, suffix) == [number |-> n, form |-> form, suffix |-> suffix]
NoDirectory == Directory(0, "none", "")

\* A file is absent, empty, as the template left it, or as the author did.
Texts == {"absent", "empty", "template", "authored"}
NoTexts == [spec |-> "absent", plan |-> "absent", tasks |-> "absent"]

Absent == [kind |-> "absent", dir |-> NoDirectory]
Torn   == [kind |-> "torn", dir |-> NoDirectory]
Names(d) == [kind |-> "names", dir |-> d]
Pointers == [kind : {"absent", "torn", "names"}, dir : Directories]

\* A command line with its environment.  create: suffix, mode, number,
\* dry (--dry-run), adopt (--allow-existing-branch).  All: keep
\* (SPECIFY_FEATURE_NO_PERSIST).  The others: given (SPECIFY_FEATURE_DIRECTORY).
\* check: pathsOnly; wants, the files that it requires besides plan.md; template,
\* does it print one.
Command(kind) == [kind |-> kind, suffix |-> "", mode |-> "auto", number |-> 0,
                  dry |-> FALSE, adopt |-> FALSE, keep |-> FALSE,
                  given |-> NoDirectory, pathsOnly |-> FALSE, wants |-> <<>>,
                  template |-> FALSE]

Wanted == {"dir", "spec", "plan", "tasks"}
CommandLines == [kind : {"create", "plan", "tasks", "check", "none"}, suffix : Suffix,
                 mode : {"auto", "number", "stamp"}, number : Nat, dry : BOOLEAN,
                 adopt : BOOLEAN, keep : BOOLEAN, given : Directories,
                 pathsOnly : BOOLEAN, wants : Seq(Wanted), template : BOOLEAN]

ASSUME SuffixAssumption == "" \in Suffix

\* Each script takes its own options only.
ASSUME CommandsAssumption ==
    \A c \in Commands : /\ c \in CommandLines
                        /\ c.dry => c.kind = "create"
                        /\ c.pathsOnly => c.kind = "check"

\* No text is empty at first, and feature.json names a feature with a spec.
ASSUME StartsAssumption ==
    \A start \in Starts :
        /\ DOMAIN start.features \subseteq Directories
        /\ LET texts == Texts \ {"empty"}
           IN  start.features \in [DOMAIN start.features ->
                                      [spec : texts, plan : texts, tasks : texts]]
        /\ start.pointer \in Pointers
        /\ start.pointer.kind = "names" =>
              /\ start.pointer.dir \in DOMAIN start.features
              /\ start.features[start.pointer.dir].spec # "absent"

\* Presets and extensions are numbered from 1, and no manifest is read whose
\* strategies are not valid.
ASSUME LayoutsAssumption ==
    \A template \in Layouts :
        /\ IsListing(template.presets) /\ IsListing(template.extensions)
        /\ \A p \in DOMAIN template.presets :
              LET entries == template.presets[p].manifest.entries
              IN  entries # <<>> => entries[1].strategy \in Strategies

ASSUME BoundsAssumption == MaxNumber \in Nat /\ MaxSecond \in Nat \ {0}

Labels == {"start", "number", "highest", "search", "exists", "look", "make", "open", "fill",
           "persist", "truncate", "store", "check"}
Ended == {"done", "failed", "crashed", "killed"}
Running(s) == pc[s] \notin Ended \cup {"start"}

StartsWith(start, template, calls) ==
    /\ features = start.features /\ pointer = start.pointer
    /\ specs = (DOMAIN start.features # {})
    /\ layout = template
    /\ second = 1
    /\ call = calls
    /\ pc = [s \in Script |-> "start"]
    /\ own = [s \in Script |-> [dir |-> NoDirectory, number |-> 0, needs |-> FALSE,
                                made |-> FALSE, wants |-> <<>>,
                                content |-> <<>>, place |-> NoPlace]]
    /\ alone = [s \in Script |-> TRUE]

Init == \E start \in Starts, template \in Layouts, calls \in [Script -> Commands] :
            StartsWith(start, template, calls)

-----------------------------------------------------------------------------
(* Steps.                                                                   *)

Goto(s, label) == pc' = [pc EXCEPT ![s] = label]

\* Whoever acts, the scripts that are under way are not alone any more.
Disturbs(s) == alone' = [q \in Script |-> alone[q] /\ (q = s \/ ~Running(q))]

Step(s, from, to) == /\ pc[s] = from /\ Goto(s, to) /\ Disturbs(s)
                     /\ UNCHANGED <<layout, second, call>>

Fail(s, from) == Step(s, from, "failed") /\ UNCHANGED <<tree, own>>

Exists(d) == d \in DOMAIN features

\* mkdir(parents=True, exist_ok=True).
WithDirectory(d) ==
    [e \in DOMAIN features \cup {d} |-> IF Exists(e) THEN features[e] ELSE NoTexts]

-----------------------------------------------------------------------------
(* create_new_feature.                                                      *)

IsCreate(s) == call[s].kind = "create"

StartCreate(s) ==
    /\ IsCreate(s)
    /\ Step(s, "start", "number")
    /\ specs' = (specs \/ ~call[s].dry)
    /\ UNCHANGED <<features, pointer, own>>

Max0(S) == CHOOSE n \in S \cup {0} : \A m \in S : m <= n

\* The highest number a directory has, whatever its zeros; neither timestamps
\* nor numbers beyond _MAX_FEATURE_NUMBER count.
HighestFromSpecs == Max0({n \in {d.number : d \in {e \in DOMAIN features :
                                                     e.form \in {"plain", "padded"}}} :
                            n <= MaxNumber})

\* A directory owns a prefix when its name starts with the number as the
\* script writes it.
SpecPrefixExists(n) == \E d \in DOMAIN features : d.number = n /\ d.form = "plain"

\* A bug to be caught: only the directory of the same name is a conflict.
SameNameConflict(c) == ~c.adopt /\ Exists(Directory(c.number, "plain", c.suffix))

SpecPrefixConflict(c) ==
    /\ ~(c.adopt /\ Exists(Directory(c.number, "plain", c.suffix)))
    /\ SpecPrefixExists(c.number)

\* The number is settled: a dry run reports it and ends here.
Numbered(s, from, n) ==
    /\ Step(s, from, IF call[s].dry THEN "done" ELSE "exists")
    /\ own' = [own EXCEPT ![s].dir = Directory(n, "plain", call[s].suffix)]
    /\ UNCHANGED tree

\* datetime.now(): time may have passed since the last script looked.
TakeStamp(s) ==
    /\ IsCreate(s) /\ call[s].mode = "stamp"
    /\ \E now \in second .. MaxSecond :
         /\ second' = now
         /\ pc[s] = "number" /\ Goto(s, IF call[s].dry THEN "done" ELSE "exists")
         /\ own' = [own EXCEPT ![s].dir = Directory(now, "stamp", call[s].suffix)]
    /\ Disturbs(s)
    /\ UNCHANGED <<tree, layout, call>>

TakeNext(s) ==
    /\ IsCreate(s) /\ call[s].mode = "auto"
    /\ LET n == HighestFromSpecs + 1
       IN  IF n > MaxNumber THEN Fail(s, "number") ELSE Numbered(s, "number", n)

TakeRequested(s) ==
    /\ IsCreate(s) /\ call[s].mode = "number"
    /\ IF call[s].number > MaxNumber
       THEN Fail(s, "number")
       ELSE IF SpecPrefixConflict(call[s])
            THEN Step(s, "number", "highest") /\ UNCHANGED <<tree, own>>
            ELSE Numbered(s, "number", call[s].number)

\* The requested number is taken: search upwards from the highest.
SearchFromHighest(s) ==
    /\ Step(s, "highest", "search")
    /\ own' = [own EXCEPT ![s].number = HighestFromSpecs]
    /\ UNCHANGED tree

Search(s) ==
    LET n == own[s].number + 1
    IN  IF n > MaxNumber THEN Fail(s, "search")
        ELSE IF SpecPrefixExists(n)
             THEN /\ Step(s, "search", "search")
                  /\ own' = [own EXCEPT ![s].number = n]
                  /\ UNCHANGED tree
             ELSE Numbered(s, "search", n)

\* A bug to be caught: the check is left to mkdir(exist_ok=True).
CheckExistingLater(s) == Step(s, "exists", "look") /\ UNCHANGED <<tree, own>>

\* if feature_dir.is_dir() and not args.allow_existing
CheckExisting(s) ==
    IF Exists(own[s].dir) /\ ~call[s].adopt
    THEN Fail(s, "exists")
    ELSE Step(s, "exists", "look") /\ UNCHANGED <<tree, own>>

-----------------------------------------------------------------------------
(* The text a script owes: spec.md of create, plan.md of setup_plan.        *)

FileOf(s) == IF IsCreate(s) THEN "spec" ELSE "plan"

TextOf(d, f) == IF Exists(d) THEN features[d][f] ELSE "absent"

\* A bug to be caught: the file is taken to be missing.
LookForNothing(s) ==
    IF ResolveTemplateContent(layout).kind = "error"
    THEN Fail(s, "look")
    ELSE /\ Step(s, "look", IF IsCreate(s) THEN "make" ELSE "open")
         /\ own' = [own EXCEPT ![s].needs = TRUE]
         /\ UNCHANGED tree

\* Is the file there, and if not, what is its template.  create looks before it
\* makes the directory, setup_plan after.
LookForFile(s) ==
    LET needs == TextOf(own[s].dir, FileOf(s)) = "absent"
    IN  IF needs /\ ResolveTemplateContent(layout).kind = "error"
        THEN Fail(s, "look")
        ELSE /\ Step(s, "look", IF IsCreate(s) THEN "make"
                                ELSE IF needs THEN "open" ELSE "done")
             /\ own' = [own EXCEPT ![s].needs = needs]
             /\ UNCHANGED tree

\* A bug to be caught: feature.json is written before the spec.
MakeAndPersist(s) ==
    /\ Step(s, "make", IF IsCreate(s) THEN "persist" ELSE "look")
    /\ own' = [own EXCEPT ![s].made = ~Exists(own[s].dir)]
    /\ specs' = TRUE
    /\ features' = WithDirectory(own[s].dir)
    /\ UNCHANGED pointer

MakeDirectory(s) ==
    /\ Step(s, "make", IF ~IsCreate(s) THEN "look"
                       ELSE IF own[s].needs THEN "open" ELSE "persist")
    /\ own' = [own EXCEPT ![s].made = ~Exists(own[s].dir)]
    /\ specs' = TRUE
    /\ features' = WithDirectory(own[s].dir)
    /\ UNCHANGED pointer

AfterFile(s) == IF IsCreate(s) THEN "persist" ELSE "done"

WriteText(s, text) ==
    /\ features' = [features EXCEPT ![own[s].dir][FileOf(s)] = text]
    /\ UNCHANGED <<specs, pointer, own>>

\* write_bytes truncates the file first, and fills it afterwards.
TruncateFile(s) ==
    /\ ResolveTemplateContent(layout).kind = "text"
    /\ Step(s, "open", "fill")
    /\ WriteText(s, "empty")

\* A bug to be caught: the truncated file is never filled.
FillNothing(s) == Step(s, "fill", AfterFile(s)) /\ UNCHANGED <<tree, own>>

FillFile(s) == Step(s, "fill", AfterFile(s)) /\ WriteText(s, "template")

\* Without a template the file is touched.
TouchFile(s) ==
    /\ ResolveTemplateContent(layout).kind = "nothing"
    /\ Step(s, "open", AfterFile(s))
    /\ WriteText(s, IF TextOf(own[s].dir, FileOf(s)) = "absent" THEN "empty"
                    ELSE TextOf(own[s].dir, FileOf(s)))

-----------------------------------------------------------------------------
(* get_feature_paths and persist_feature_json.                              *)

\* Where a script goes on when it knows its feature directory.
AfterPaths(s) == CASE call[s].kind = "plan"  -> "make"
                   [] call[s].kind = "tasks" -> "check"
                   [] call[s].kind = "check" -> IF call[s].pathsOnly THEN "done" ELSE "check"
                   [] OTHER -> "done"

OptedOut(s) == call[s].keep \/ call[s].pathsOnly

Wants(s) == CASE call[s].kind = "tasks" -> <<"plan", "spec">>
              [] call[s].kind = "check" -> <<"dir", "plan">> \o call[s].wants
              [] OTHER -> <<>>

UsesDirectory(s, d) == own' = [own EXCEPT ![s].dir = d, ![s].wants = Wants(s)]

PathsFromEnvironment(s) ==
    /\ call[s].kind \in {"plan", "tasks", "check"} /\ call[s].given # NoDirectory
    /\ Step(s, "start", IF OptedOut(s) THEN AfterPaths(s) ELSE "persist")
    /\ UsesDirectory(s, call[s].given)
    /\ UNCHANGED tree

PathsFromPointer(s) ==
    /\ call[s].kind \in {"plan", "tasks", "check"} /\ call[s].given = NoDirectory
    /\ IF pointer.kind # "names"
       THEN Fail(s, "start")
       ELSE /\ Step(s, "start", AfterPaths(s))
            /\ UsesDirectory(s, pointer.dir)
            /\ UNCHANGED tree

\* persist_feature_json reads the file, and leaves it when it agrees.
ComparePointer(s) ==
    /\ Step(s, "persist", IF OptedOut(s) \/ pointer = Names(own[s].dir)
                          THEN AfterPaths(s) ELSE "truncate")
    /\ UNCHANGED <<tree, own>>

TruncatePointer(s) ==
    /\ Step(s, "truncate", "store")
    /\ pointer' = Torn
    /\ UNCHANGED <<specs, features, own>>

\* Over an empty file the write leaves its own text.  When another script has
\* stored a longer one since, the tail of that one stays behind.
StorePointer(s) ==
    /\ Step(s, "store", AfterPaths(s))
    /\ pointer' \in {Names(own[s].dir)} \cup (IF pointer = Torn THEN {} ELSE {Torn})
    /\ UNCHANGED <<specs, features, own>>

-----------------------------------------------------------------------------
(* The checks and answers of setup_tasks and check_prerequisites.           *)

Found(s, f) == IF f = "dir" THEN Exists(own[s].dir) ELSE TextOf(own[s].dir, f) # "absent"

CheckFile(s) ==
    /\ own[s].wants # <<>>
    /\ IF ~Found(s, Head(own[s].wants))
       THEN Fail(s, "check")
       ELSE /\ Step(s, "check", "check")
            /\ own' = [own EXCEPT ![s].wants = Tail(@)]
            /\ UNCHANGED tree

\* setup_tasks needs the composed text, and then the place of the template,
\* whose search may raise where nobody catches it.
AnswerTasks(s) ==
    /\ call[s].kind = "tasks" /\ own[s].wants = <<>>
    /\ IF ResolveTemplateContent(layout).kind # "text"
       THEN Fail(s, "check")
       ELSE /\ Step(s, "check", IF ResolveTemplate(layout) = Raises THEN "crashed" ELSE "done")
            /\ own' = [own EXCEPT ![s].content = ResolveTemplateContent(layout).text,
                                  ![s].place = ResolveTemplate(layout)]
            /\ UNCHANGED tree

AnswerCheck(s) ==
    /\ call[s].kind = "check" /\ own[s].wants = <<>>
    /\ IF call[s].template /\ ResolveTemplateContent(layout).kind # "text"
       THEN Fail(s, "check")
       ELSE Step(s, "check", "done") /\ UNCHANGED <<tree, own>>

-----------------------------------------------------------------------------
(* The others.                                                              *)

Kill(s) == Running(s) /\ Step(s, pc[s], "killed") /\ UNCHANGED <<tree, own>>

\* The author (or the agent) rewrites a text that a script has left him.
Write(d, f) ==
    /\ features[d][f] \in {"empty", "template"}
    /\ features' = [features EXCEPT ![d][f] = "authored"]
    /\ alone' = [q \in Script |-> alone[q] /\ ~Running(q)]
    /\ UNCHANGED <<specs, pointer, layout, second, call, pc, own>>

Next ==
    \/ \E s \in Script :
         \/ StartCreate(s) \/ TakeStamp(s) \/ TakeNext(s) \/ TakeRequested(s)
         \/ SearchFromHighest(s) \/ Search(s) \/ CheckExisting(s)
         \/ LookForFile(s) \/ MakeDirectory(s)
         \/ TruncateFile(s) \/ FillFile(s) \/ TouchFile(s)
         \/ PathsFromEnvironment(s) \/ PathsFromPointer(s)
         \/ ComparePointer(s) \/ TruncatePointer(s) \/ StorePointer(s)
         \/ CheckFile(s) \/ AnswerTasks(s) \/ AnswerCheck(s)
         \/ Kill(s)
    \/ \E d \in DOMAIN features : \E f \in {"spec", "plan"} : Write(d, f)

Spec == Init /\ [][Next]_vars
-----------------------------------------------------------------------------
(* Properties.                                                              *)

TypeOK ==
    /\ specs \in BOOLEAN
    /\ DOMAIN features \subseteq Directories
    /\ features \in [DOMAIN features -> [spec : Texts, plan : Texts, tasks : Texts]]
    /\ pointer \in Pointers
    /\ second \in Nat
    /\ call \in [Script -> Commands]
    /\ pc \in [Script -> Labels \cup Ended]
    /\ alone \in [Script -> BOOLEAN]
    /\ own \in [Script -> {own[s] : s \in Script}]
    /\ \A s \in Script :
         own[s] \in [dir : Directories, number : Nat, needs : BOOLEAN, made : BOOLEAN,
                     wants : Seq(Wanted), content : {own[s].content}, place : {own[s].place}]

Creates(s) == IsCreate(s) /\ ~call[s].dry

\* What the author wrote is kept by every script that runs alone: create leaves
\* a spec.md, and setup_plan a plan.md, that is there (create_new_feature.py
\* 408-409, setup_plan.py 61-65).  Scripts that overlap with the author or with
\* another script look at the file before they open it, and promise nothing.
ScriptAloneKeepsTheText ==
    [][\A d \in DOMAIN features : \A f \in {"spec", "plan", "tasks"} :
         features[d][f] = "authored" /\ features'[d][f] # "authored"
         => \E s \in Script : pc'[s] # pc[s] /\ ~alone'[s]]_vars

\* A directory that create makes while it runs alone has a number to itself:
\* no other directory begins with it (create_new_feature.py 330-331).
NumberIsItsOwn ==
    \A s \in Script :
        Running(s) /\ alone[s] /\ Creates(s) /\ own[s].made /\ call[s].mode # "stamp"
        => \A d \in DOMAIN features \ {own[s].dir} :
             ~(d.form = "plain" /\ d.number = own[s].dir.number)

\* Two runs of create end with the same directory only if they overlapped, unless
\* --allow-existing-branch asks for it (create_new_feature.py 391-405).
OneDirectoryPerCreation ==
    \A s, q \in Script :
        /\ s # q /\ pc[s] = "done" /\ pc[q] = "done" /\ Creates(s) /\ Creates(q)
        /\ ~call[s].adopt /\ ~call[q].adopt /\ own[s].dir = own[q].dir
        => ~(alone[s] /\ alone[q])

\* A create that fails has made no feature directory: the template is resolved
\* before mkdir (create_new_feature.py 407-418).
FailedCreateLeavesNothing ==
    \A s \in Script : IsCreate(s) /\ pc[s] = "failed" => ~own[s].made

\* A directory that feature.json names has its spec.md, wherever scripts are
\* killed, except when SPECIFY_FEATURE_DIRECTORY brought the name: create
\* writes the spec first (create_new_feature.py 420-433).
CurrentFeatureHasItsSpec ==
    pointer.kind = "names" =>
        \/ TextOf(pointer.dir, "spec") # "absent"
        \/ \E s \in Script : call[s].given = pointer.dir /\ ~call[s].keep

\* An empty spec.md or plan.md has no template to copy, or a script is about to
\* fill it, or was killed before it could: such a file is taken for written ever
\* after (common write_bytes at create_new_feature.py 422, setup_plan.py 73).
EmptyTextIsExplained ==
    \A d \in DOMAIN features : \A f \in {"spec", "plan"} :
        features[d][f] = "empty" =>
            \/ ResolveTemplateContent(layout).kind = "nothing"
            \/ \E s \in Script : /\ pc[s] \in {"fill", "killed"}
                                 /\ own[s].dir = d /\ own[s].needs /\ FileOf(s) = f

\* When a create that ran alone ends, feature.json names its directory, even when
\* an earlier script was killed over the file and left it torn
\* (common.py 112-120).
CreateMakesItsFeatureCurrent ==
    [][\A s \in Script :
         pc[s] # "done" /\ pc'[s] = "done" /\ Creates(s) /\ ~call[s].keep /\ alone'[s]
         => pointer' = Names(own'[s].dir)]_vars

\* Whoever opts out (SPECIFY_FEATURE_NO_PERSIST, --paths-only, --dry-run) never
\* changes feature.json, whichever way it came to its paths (common.py 143-147).
OptingOutIsKept ==
    [][\A s \in Script :
         pc'[s] # pc[s] /\ (call[s].keep \/ call[s].pathsOnly \/ call[s].dry)
         => pointer' = pointer]_vars

\* The stack as one list, the nearest first, each place with what it adds.
Places(t) ==
    LET presets    == SortedPresetIds(t)
        extensions == SortedExtensionIds(t)
    IN  <<LayerOf(t.override)>>
        \o [i \in DOMAIN presets |-> PresetTemplateLayer(t, presets[i])]
        \o (IF t.extensionRegistry = "unreadable" THEN <<BadLayer>>
            ELSE [i \in DOMAIN extensions |-> LayerOf(t.extensions[extensions[i]].plain)])
        \o <<LayerOf(t.core)>>

\* A place over the text of what lies below it: without a layer it is passed
\* over, a replacing one hides what lies below, the others put themselves around it.
On(place, below) ==
    IF place = NoLayer THEN below
    ELSE IF place.kind = "error" \/ GARBLED \in ToSet(place.text) THEN Refused
    ELSE IF place.strategy = "replace" THEN Resolved(place.text)
    ELSE IF below.kind # "text" THEN Refused
    ELSE IF place.strategy = "prepend" THEN Resolved(place.text \o below.text)
    ELSE IF place.strategy = "append" THEN Resolved(below.text \o place.text)
    ELSE IF HOLE \in ToSet(place.text) THEN Resolved(Fill(place.text, below.text))
    ELSE Refused

\* The text of the stack, from its farthest place to its nearest.
TextFrom(t) ==
    LET places == Places(t)
        lowest[n \in 0 .. Len(places)] ==
            IF n = 0 THEN Nothing
            ELSE On(places[Len(places) + 1 - n], lowest[n - 1])
    IN  lowest[Len(places)]

AnsweredTasks(s) == call[s].kind = "tasks" /\ pc[s] \in {"done", "crashed"}

\* The text that setup_tasks prints is the stack's: every place that adds a layer
\* is around what lies below it, up to the first that replaces; and when that
\* text exists, the script does not fail over it (common.py 612-682).
ContentIsTheStack ==
    \A s \in Script :
        /\ AnsweredTasks(s) => Resolved(own[s].content) = TextFrom(layout)
        /\ call[s].kind = "tasks" /\ pc[s] = "failed" /\ own[s].wants = <<>>
              /\ own[s].dir # NoDirectory
           => TextFrom(layout).kind # "text"

\* TASKS_TEMPLATE names the file whose text TASKS_TEMPLATE_CONTENT is, unless a
\* preset has a manifest, which the search for the file does not read; only then
\* can that search raise after the text was found (setup_tasks.py 127-165).
PlaceTellsTheContent ==
    \A s \in Script : AnsweredTasks(s) =>
        \/ \E p \in ToSet(SortedPresetIds(layout)) :
             layout.presets[p].manifest.kind # "absent"
        \/ pc[s] = "done" /\ own[s].content = TextAt(layout, own[s].place)
=============================================================================
