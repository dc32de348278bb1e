-------------------------- MODULE Features_proofs --------------------------
(***************************************************************************)
(* Proofs about Features for any scripts, command lines, trees and         *)
(* templates that the assumptions on the constants allow.                  *)
(***************************************************************************)
EXTENDS Features, WellFoundedInduction, FiniteSetTheorems, SequenceTheorems, TLAPS

LEMMA NoDirectoryType == NoDirectory \in Directories
BY SuffixAssumption DEF NoDirectory, Directory, Directories

TextRecords == [spec : Texts, plan : Texts, tasks : Texts]
Files == {"spec", "plan", "tasks"}

(* What holds of the tree at every moment. *)
FeaturesOK ==
    /\ DOMAIN features \subseteq Directories
    /\ features \in [DOMAIN features -> TextRecords]

OwnRecord(r) ==
    r \in [dir : Directories, number : Nat, needs : BOOLEAN, made : BOOLEAN,
           wants : Seq(Wanted), content : {r.content}, place : {r.place}]

OwnOK ==
    /\ own \in [Script -> {own[s] : s \in Script}]
    /\ \A s \in Script : OwnRecord(own[s])

LEMMA TypeParts ==
    TypeOK <=> /\ specs \in BOOLEAN /\ FeaturesOK /\ pointer \in Pointers /\ second \in Nat
               /\ call \in [Script -> Commands]
               /\ pc \in [Script -> Labels \cup Ended] /\ alone \in [Script -> BOOLEAN]
               /\ OwnOK
BY DEF TypeOK, FeaturesOK, OwnOK, OwnRecord, TextRecords

(* No step removes a directory or a text. *)
Growing ==
    /\ DOMAIN features \subseteq DOMAIN features'
    /\ \A d \in DOMAIN features : \A f \in Files :
          features[d][f] # "absent" => features'[d][f] # "absent"

-----------------------------------------------------------------------------
(* Steps on the tree and on a script's own variables.                      *)

LEMMA GrowingTexts ==
    ASSUME Growing, NEW d, NEW f \in Files
    PROVE  /\ Exists(d) => Exists(d)'
           /\ TextOf(d, f) # "absent" => TextOf(d, f)' # "absent"
BY DEF Growing, Exists, TextOf

LEMMA SameFeatures ==
    ASSUME FeaturesOK, UNCHANGED features
    PROVE  /\ FeaturesOK' /\ Growing
           /\ \A d : \A f : TextOf(d, f)' = TextOf(d, f)
           /\ \A d : Exists(d)' = Exists(d)
BY DEF FeaturesOK, Growing, Exists, TextOf

LEMMA MadeDirectory ==
    ASSUME FeaturesOK, NEW d \in Directories, features' = WithDirectory(d)
    PROVE  /\ FeaturesOK' /\ Growing
           /\ DOMAIN features' = DOMAIN features \cup {d}
           /\ \A e \in DOMAIN features : features'[e] = features[e]
           /\ d \notin DOMAIN features => features'[d] = NoTexts
<1>1. NoTexts \in TextRecords
  BY DEF NoTexts, TextRecords, Texts
<1> QED BY <1>1 DEF WithDirectory, Exists, FeaturesOK, Growing

Changed(d, f, text) == [features EXCEPT ![d][f] = text]

LEMMA ChangedText ==
    ASSUME FeaturesOK, NEW d \in DOMAIN features, NEW f \in Files,
           NEW text \in Texts, text # "absent",
           features' = Changed(d, f, text)
    PROVE  /\ FeaturesOK' /\ Growing
           /\ DOMAIN features' = DOMAIN features
           /\ features'[d][f] = text
           /\ \A e \in DOMAIN features : \A g \in Files :
                 e # d \/ g # f => features'[e][g] = features[e][g]
<1>1. features[d] \in TextRecords
  BY DEF FeaturesOK
<1> DEFINE changed == [features[d] EXCEPT ![f] = text]
<1>2. /\ changed \in TextRecords /\ changed[f] = text
      /\ \A g \in Files : g # f => changed[g] = features[d][g]
  BY <1>1 DEF TextRecords, Files
<1>3. features' = [features EXCEPT ![d] = changed]
  BY DEF Changed
<1> HIDE DEF changed
<1>4. DOMAIN features' = DOMAIN features /\ features'[d] = changed
      /\ \A e \in DOMAIN features : e # d => features'[e] = features[e]
  BY <1>3 DEF FeaturesOK
<1>5. FeaturesOK'
  BY <1>2, <1>3, <1>4 DEF FeaturesOK
<1>6. Growing
  BY <1>2, <1>4 DEF Growing
<1> QED BY <1>2, <1>4, <1>5, <1>6

LEMMA OwnChanged ==
    ASSUME OwnOK, NEW s \in Script, NEW r, OwnRecord(r), own' = [own EXCEPT ![s] = r]
    PROVE  /\ OwnOK' /\ own'[s] = r
           /\ \A q \in Script \ {s} : own'[q] = own[q]
<1>1. own'[s] = r /\ \A q \in Script \ {s} : own'[q] = own[q]
  BY DEF OwnOK
<1>2. \A q \in Script : OwnRecord(own'[q])
  BY <1>1 DEF OwnOK
<1>3. own' \in [Script -> {own'[q] : q \in Script}]
  BY DEF OwnOK
<1> QED BY <1>1, <1>2, <1>3 DEF OwnOK, OwnRecord

(* What a step does to the variables of script s, for each assignment.     *)
OwnSet(s, dir, number, needs, made, wants) ==
    /\ OwnOK'
    /\ \A q \in Script \ {s} : own'[q] = own[q]
    /\ own'[s].dir = dir /\ own'[s].number = number /\ own'[s].needs = needs
    /\ own'[s].made = made /\ own'[s].wants = wants

LEMMA SetNothing ==
    ASSUME OwnOK, NEW s \in Script, UNCHANGED own
    PROVE  OwnSet(s, own[s].dir, own[s].number, own[s].needs, own[s].made, own[s].wants)
BY DEF OwnSet, OwnOK, OwnRecord

LEMMA SetDir ==
    ASSUME OwnOK, NEW s \in Script, NEW d \in Directories, own' = [own EXCEPT ![s].dir = d]
    PROVE  OwnSet(s, d, own[s].number, own[s].needs, own[s].made, own[s].wants)
<1> DEFINE r == [own[s] EXCEPT !.dir = d]
<1>1. /\ r.dir = d /\ r.number = own[s].number /\ r.needs = own[s].needs
      /\ r.made = own[s].made /\ r.wants = own[s].wants /\ OwnRecord(r)
  BY DEF OwnOK, OwnRecord
<1>2. own' = [own EXCEPT ![s] = r]
  OBVIOUS
<1> HIDE DEF r
<1> QED BY <1>1, <1>2, OwnChanged DEF OwnSet

LEMMA SetNumber ==
    ASSUME OwnOK, NEW s \in Script, NEW n \in Nat, own' = [own EXCEPT ![s].number = n]
    PROVE  OwnSet(s, own[s].dir, n, own[s].needs, own[s].made, own[s].wants)
<1> DEFINE r == [own[s] EXCEPT !.number = n]
<1>1. /\ r.dir = own[s].dir /\ r.number = n /\ r.needs = own[s].needs
      /\ r.made = own[s].made /\ r.wants = own[s].wants /\ OwnRecord(r)
  BY DEF OwnOK, OwnRecord
<1>2. own' = [own EXCEPT ![s] = r]
  OBVIOUS
<1> HIDE DEF r
<1> QED BY <1>1, <1>2, OwnChanged DEF OwnSet

LEMMA SetNeeds ==
    ASSUME OwnOK, NEW s \in Script, NEW b \in BOOLEAN, own' = [own EXCEPT ![s].needs = b]
    PROVE  OwnSet(s, own[s].dir, own[s].number, b, own[s].made, own[s].wants)
<1> DEFINE r == [own[s] EXCEPT !.needs = b]
<1>1. /\ r.dir = own[s].dir /\ r.number = own[s].number /\ r.needs = b
      /\ r.made = own[s].made /\ r.wants = own[s].wants /\ OwnRecord(r)
  BY DEF OwnOK, OwnRecord
<1>2. own' = [own EXCEPT ![s] = r]
  OBVIOUS
<1> HIDE DEF r
<1> QED BY <1>1, <1>2, OwnChanged DEF OwnSet

LEMMA SetMade ==
    ASSUME OwnOK, NEW s \in Script, NEW b \in BOOLEAN, own' = [own EXCEPT ![s].made = b]
    PROVE  OwnSet(s, own[s].dir, own[s].number, own[s].needs, b, own[s].wants)
<1> DEFINE r == [own[s] EXCEPT !.made = b]
<1>1. /\ r.dir = own[s].dir /\ r.number = own[s].number /\ r.needs = own[s].needs
      /\ r.made = b /\ r.wants = own[s].wants /\ OwnRecord(r)
  BY DEF OwnOK, OwnRecord
<1>2. own' = [own EXCEPT ![s] = r]
  OBVIOUS
<1> HIDE DEF r
<1> QED BY <1>1, <1>2, OwnChanged DEF OwnSet

LEMMA SetDirAndWants ==
    ASSUME OwnOK, NEW s \in Script, NEW d \in Directories, NEW w \in Seq(Wanted),
           own' = [own EXCEPT ![s].dir = d, ![s].wants = w]
    PROVE  OwnSet(s, d, own[s].number, own[s].needs, own[s].made, w)
<1> DEFINE r == [own[s] EXCEPT !.dir = d, !.wants = w]
<1>1. /\ r.dir = d /\ r.number = own[s].number /\ r.needs = own[s].needs
      /\ r.made = own[s].made /\ r.wants = w /\ OwnRecord(r)
  BY DEF OwnOK, OwnRecord
<1>2. own' = [own EXCEPT ![s] = r]
  BY DEF OwnOK
<1> HIDE DEF r
<1> QED BY <1>1, <1>2, OwnChanged DEF OwnSet

LEMMA SetWants ==
    ASSUME OwnOK, NEW s \in Script, own[s].wants # <<>>,
           own' = [own EXCEPT ![s].wants = Tail(@)]
    PROVE  OwnSet(s, own[s].dir, own[s].number, own[s].needs, own[s].made, Tail(own[s].wants))
<1> DEFINE w == Tail(own[s].wants)
           r == [own[s] EXCEPT !.wants = w]
<1>1. w \in Seq(Wanted)
  BY DEF OwnOK, OwnRecord
<1> HIDE DEF w
<1>2. /\ r.dir = own[s].dir /\ r.number = own[s].number /\ r.needs = own[s].needs
      /\ r.made = own[s].made /\ r.wants = w /\ OwnRecord(r)
  BY <1>1 DEF OwnOK, OwnRecord
<1>3. own' = [own EXCEPT ![s] = r]
  BY DEF w
<1> HIDE DEF r
<1>4. OwnSet(s, own[s].dir, own[s].number, own[s].needs, own[s].made, w)
  BY <1>2, <1>3, OwnChanged DEF OwnSet
<1> QED BY <1>4 DEF w

LEMMA SetAnswer ==
    ASSUME OwnOK, NEW s \in Script, NEW text, NEW place,
           own' = [own EXCEPT ![s].content = text, ![s].place = place]
    PROVE  OwnSet(s, own[s].dir, own[s].number, own[s].needs, own[s].made, own[s].wants)
<1> DEFINE r == [own[s] EXCEPT !.content = text, !.place = place]
<1>1. /\ r.dir = own[s].dir /\ r.number = own[s].number /\ r.needs = own[s].needs
      /\ r.made = own[s].made /\ r.wants = own[s].wants /\ OwnRecord(r)
  BY DEF OwnOK, OwnRecord
<1>2. own' = [own EXCEPT ![s] = r]
  BY DEF OwnOK
<1> HIDE DEF r
<1> QED BY <1>1, <1>2, OwnChanged DEF OwnSet

-----------------------------------------------------------------------------
(* The inductive invariant: what each label of a script tells of it.       *)

Numbering == {"number", "highest", "search", "exists"}
Writing == {"open", "fill"}
Pointing == {"persist", "truncate", "store"}

(* The labels a script passes, and the options it has when it does. *)
Labelled(s) ==
    /\ pc[s] \in Numbering => IsCreate(s)
    /\ pc[s] \in {"look", "make"} \cup Writing => call[s].kind \in {"create", "plan"}
    /\ pc[s] = "check" => ~IsCreate(s)
    /\ pc[s] \in {"truncate", "store"} => ~OptedOut(s)
    /\ IsCreate(s) /\ pc[s] \in {"exists", "look", "make"} \cup Writing \cup Pointing
          => ~call[s].dry
    /\ IsCreate(s) /\ own[s].made
          => pc[s] \notin {"start", "look", "make", "failed"} \cup Numbering

(* What a script has found or made in the tree stays there. *)
Located(s) ==
    /\ pc[s] \in Writing => Exists(own[s].dir) /\ own[s].needs
    /\ call[s].kind = "plan" /\ pc[s] = "look" => Exists(own[s].dir)
    /\ Creates(s) /\ pc[s] \in Pointing \cup {"done"} => TextOf(own[s].dir, "spec") # "absent"
    /\ IsCreate(s) /\ pc[s] = "make" /\ ~own[s].needs => TextOf(own[s].dir, "spec") # "absent"
    /\ ~IsCreate(s) /\ pc[s] \in Pointing => own[s].dir = call[s].given

NumberIsFree(s) ==
    \A d \in DOMAIN features \ {own[s].dir} : ~(d.form = "plain" /\ d.number = own[s].dir.number)

DirectoryIsFree(s) ==
    \A q \in Script \ {s} : pc[q] = "done" /\ Creates(q) => own[q].dir # own[s].dir

(* What a script has seen is still so while nobody else acts. *)
Undisturbed(s) ==
    /\ pc[s] \in Writing => TextOf(own[s].dir, FileOf(s)) # "authored"
    /\ IsCreate(s) /\ pc[s] = "make" /\ own[s].needs => TextOf(own[s].dir, "spec") = "absent"
    /\ pc[s] = "store" => pointer = Torn
    /\ IsCreate(s) /\ call[s].mode # "stamp" /\ pc[s] \in {"exists", "look", "make"}
          => Exists(own[s].dir) \/ NumberIsFree(s)
    /\ IsCreate(s) /\ call[s].mode # "stamp" /\ pc[s] \in Writing \cup Pointing /\ own[s].made
          => NumberIsFree(s)
    /\ Creates(s) /\ ~call[s].adopt /\ pc[s] \in {"look", "make"} \cup Writing \cup Pointing
          => DirectoryIsFree(s)

ScriptInv(s) == Labelled(s) /\ Located(s) /\ (alone[s] => Undisturbed(s))

IInv ==
    /\ TypeOK
    /\ \A s \in Script : ScriptInv(s)
    /\ CurrentFeatureHasItsSpec
    /\ EmptyTextIsExplained
    /\ OneDirectoryPerCreation

-----------------------------------------------------------------------------
(* What a step of s leaves of the others.                                  *)

Moved(s, from, to) ==
    /\ pc[s] = from /\ pc'[s] = to
    /\ pc' \in [Script -> Labels \cup Ended] /\ alone' \in [Script -> BOOLEAN]
    /\ alone'[s] = alone[s]
    /\ \A q \in Script \ {s} : pc'[q] = pc[q] /\ alone'[q] = (alone[q] /\ ~Running(q))
    /\ layout' = layout /\ call' = call

LEMMA Moving ==
    ASSUME TypeOK, NEW s \in Script, NEW from, NEW to \in Labels \cup Ended,
           pc[s] = from, Goto(s, to), Disturbs(s), UNCHANGED <<layout, call>>
    PROVE  Moved(s, from, to)
<1>1. /\ pc \in [Script -> Labels \cup Ended] /\ alone \in [Script -> BOOLEAN]
  BY TypeParts
<1>2. pc' \in [Script -> Labels \cup Ended] /\ pc'[s] = to
      /\ \A q \in Script \ {s} : pc'[q] = pc[q]
  BY <1>1 DEF Goto
<1>3. \A q \in Script : alone'[q] = (alone[q] /\ (q = s \/ ~Running(q)))
  BY Zenon DEF Disturbs
<1>4. alone' \in [Script -> BOOLEAN]
  BY DEF Disturbs
<1>5. alone'[s] = alone[s]
  <2>1. alone[s] \in BOOLEAN
    BY <1>1
  <2> QED BY <1>3, <2>1
<1>6. \A q \in Script \ {s} : alone'[q] = (alone[q] /\ ~Running(q))
  BY <1>3
<1> QED BY <1>2, <1>4, <1>5, <1>6 DEF Moved

LEMMA Stepping ==
    ASSUME TypeOK, NEW s \in Script, NEW from, NEW to \in Labels \cup Ended, Step(s, from, to)
    PROVE  Moved(s, from, to) /\ second' = second
BY Moving DEF Step

(* The others keep what they know; who is under way knows nothing of now.  *)
LEMMA OtherKeepsItsInvariant ==
    ASSUME IInv, NEW q \in Script, Growing, UNCHANGED call,
           pc'[q] = pc[q], own'[q] = own[q], alone'[q] => ~Running(q)
    PROVE  ScriptInv(q)'
<1>1. ScriptInv(q)
  BY DEF IInv
<1>2. /\ Exists(own[q].dir) => Exists(own[q].dir)'
      /\ TextOf(own[q].dir, "spec") # "absent" => TextOf(own[q].dir, "spec")' # "absent"
  BY DEF Growing, Exists, TextOf, Files
<1>3. Labelled(q)'
  BY <1>1 DEF ScriptInv, Labelled, IsCreate, OptedOut, Writing, Pointing, Numbering
<1>4. Located(q)'
  BY <1>1, <1>2 DEF ScriptInv, Located, IsCreate, Creates, Writing, Pointing
<1>5. alone'[q] => Undisturbed(q)'
  <2>1. alone'[q] => pc'[q] \in Ended \cup {"start"}
    BY DEF Running
  <2> QED BY <2>1 DEF Undisturbed, Ended, Writing, Pointing
<1> QED BY <1>3, <1>4, <1>5 DEF ScriptInv

(* IInv from what the step of s does to the tree and to s.                 *)
LEMMA StepKeepsIInv ==
    ASSUME IInv, NEW s \in Script, NEW from, NEW to, Moved(s, from, to),
           \A q \in Script \ {s} : own'[q] = own[q],
           TypeOK', Growing, ScriptInv(s)', CurrentFeatureHasItsSpec', EmptyTextIsExplained',
           from # "done",
           to = "done" /\ Creates(s) /\ ~call[s].adopt /\ alone[s] => DirectoryIsFree(s)'
    PROVE  IInv'
<1>1. \A q \in Script : ScriptInv(q)'
  <2> SUFFICES ASSUME NEW q \in Script PROVE ScriptInv(q)'
    OBVIOUS
  <2>1. CASE q = s
    BY <2>1
  <2>2. CASE q # s
    <3>1. pc'[q] = pc[q] /\ own'[q] = own[q] /\ call' = call
      BY <2>2 DEF Moved
    <3>2. alone'[q] => ~Running(q)
      BY <2>2 DEF Moved
    <3> QED BY <3>1, <3>2, OtherKeepsItsInvariant
  <2> QED BY <2>1, <2>2
<1>2. OneDirectoryPerCreation'
  <2> SUFFICES ASSUME NEW p \in Script, NEW q \in Script, p # q,
                      pc'[p] = "done", pc'[q] = "done", Creates(p)', Creates(q)',
                      ~call'[p].adopt, ~call'[q].adopt, own'[p].dir = own'[q].dir,
                      alone'[p], alone'[q]
               PROVE  FALSE
    BY DEF OneDirectoryPerCreation
  <2>1. call' = call /\ Creates(p) /\ Creates(q)
    BY DEF Moved, Creates, IsCreate
  <2>2. CASE p # s /\ q # s
    <3>1. pc[p] = "done" /\ pc[q] = "done" /\ own[p].dir = own[q].dir
      BY <2>2 DEF Moved
    <3>2. alone[p] /\ alone[q]
      BY <2>2 DEF Moved
    <3> QED BY <2>1, <3>1, <3>2 DEF IInv, OneDirectoryPerCreation
  <2>3. CASE p = s
    <3>1. DirectoryIsFree(s)'
      BY <2>1, <2>3 DEF Moved
    <3> QED BY <2>3, <3>1 DEF DirectoryIsFree
  <2>4. CASE q = s
    <3>1. DirectoryIsFree(s)'
      BY <2>1, <2>4 DEF Moved
    <3> QED BY <2>4, <3>1 DEF DirectoryIsFree
  <2> QED BY <2>2, <2>3, <2>4
<1> QED BY <1>1, <1>2 DEF IInv

LEMMA PointerKept ==
    ASSUME IInv, UNCHANGED <<pointer, call>>, Growing
    PROVE  CurrentFeatureHasItsSpec'
<1>1. TextOf(pointer.dir, "spec") # "absent" => TextOf(pointer.dir, "spec")' # "absent"
  BY GrowingTexts DEF Files
<1> QED BY <1>1 DEF IInv, CurrentFeatureHasItsSpec

LEMMA TextsKept ==
    ASSUME IInv, NEW s \in Script, NEW from, NEW to, Moved(s, from, to),
           UNCHANGED features,
           \A q \in Script \ {s} : own'[q] = own[q],
           from \notin {"fill", "killed"} \/ (to = "killed" /\ own'[s] = own[s])
    PROVE  EmptyTextIsExplained'
<1> SUFFICES ASSUME NEW d \in DOMAIN features, NEW f \in {"spec", "plan"},
                    features[d][f] = "empty",
                    ResolveTemplateContent(layout).kind # "nothing"
             PROVE  \E q \in Script : /\ pc'[q] \in {"fill", "killed"}
                                      /\ own'[q].dir = d /\ own'[q].needs /\ FileOf(q)' = f
  BY DEF EmptyTextIsExplained, Moved
<1>1. PICK q \in Script : /\ pc[q] \in {"fill", "killed"}
                          /\ own[q].dir = d /\ own[q].needs /\ FileOf(q) = f
  BY DEF IInv, EmptyTextIsExplained
<1>2. FileOf(q)' = f
  BY <1>1 DEF FileOf, IsCreate, Moved
<1>3. pc'[q] \in {"fill", "killed"} /\ own'[q] = own[q]
  BY <1>1 DEF Moved
<1> QED BY <1>1, <1>2, <1>3

(* A step of s that leaves the texts and feature.json alone.               *)
LEMMA TreeKept ==
    ASSUME IInv, NEW s \in Script, NEW from, NEW to, Moved(s, from, to),
           UNCHANGED <<features, pointer>>, specs' \in BOOLEAN, second' \in Nat, OwnOK',
           \A q \in Script \ {s} : own'[q] = own[q],
           from \notin {"fill", "killed"} \/ (to = "killed" /\ own'[s] = own[s]),
           ScriptInv(s)', from # "done",
           to = "done" /\ Creates(s) /\ ~call[s].adopt /\ alone[s] => DirectoryIsFree(s)'
    PROVE  IInv'
<1>1. FeaturesOK' /\ Growing
  BY SameFeatures, TypeParts DEF IInv
<1>2. TypeOK'
  BY <1>1, TypeParts DEF IInv, Moved, TypeOK, FeaturesOK, OwnOK, OwnRecord, TextRecords
<1>3. CurrentFeatureHasItsSpec'
  BY <1>1, PointerKept DEF Moved
<1>4. EmptyTextIsExplained'
  BY TextsKept
<1> QED BY <1>1, <1>2, <1>3, <1>4, StepKeepsIInv

-----------------------------------------------------------------------------
(* Numbers.                                                                *)

(* The highest of naturals that stay below a bound.                        *)
LEMMA HighestOfBounded ==
    ASSUME NEW S \in SUBSET Nat, NEW M \in Nat, \A n \in S : n <= M
    PROVE  Max0(S) \in Nat /\ \A m \in S : m <= Max0(S)
<1> DEFINE T == {k \in Nat : \E n \in S \cup {0} : n + k = M}
           R == {ss \in Nat \X Nat : ss[1] < ss[2]}
<1>1. IsWellFoundedOn(R, Nat)
  BY NatLessThanWellFounded DEF OpToRel
<1>2. M \in T
  OBVIOUS
<1>3. PICK k \in T : \A j \in T : ~(<<j, k>> \in R)
  <2> HIDE DEF R
  <2> QED BY <1>1, <1>2, WFMin
<1>4. PICK n \in S \cup {0} : n + k = M
  OBVIOUS
<1>5. ASSUME NEW m \in S PROVE m <= n
  <2>1. M - m \in T /\ M - m \in Nat
    BY <1>5
  <2>2. ~(M - m < k)
    BY <1>3, <2>1
  <2> QED BY <1>4, <2>2
<1> HIDE DEF T, R
<1>6. Max0(S) \in S \cup {0} /\ \A m \in S : m <= Max0(S)
  BY <1>4, <1>5 DEF Max0
<1>7. \A x \in S \cup {0} : x \in Nat
  OBVIOUS
<1> QED BY Zenon, <1>6, <1>7

LEMMA HighestNumber ==
    ASSUME FeaturesOK
    PROVE  /\ HighestFromSpecs \in Nat
           /\ \A d \in DOMAIN features :
                 d.form = "plain" /\ d.number <= MaxNumber => d.number <= HighestFromSpecs
<1> DEFINE S == {n \in {d.number : d \in {e \in DOMAIN features : e.form \in {"plain", "padded"}}} :
                    n <= MaxNumber}
<1>1. S \in SUBSET Nat
  BY DEF FeaturesOK, Directories
<1>2. \A n \in S : n <= MaxNumber
  OBVIOUS
<1>3. \A d \in DOMAIN features : d.form = "plain" /\ d.number <= MaxNumber => d.number \in S
  OBVIOUS
<1>4. HighestFromSpecs = Max0(S)
  BY DEF HighestFromSpecs
<1> HIDE DEF S
<1>5. Max0(S) \in Nat /\ \A m \in S : m <= Max0(S)
  BY <1>1, <1>2, HighestOfBounded, BoundsAssumption
<1>6. HighestFromSpecs \in Nat
  BY <1>4, <1>5
<1>7. \A d \in DOMAIN features :
         d.form = "plain" /\ d.number <= MaxNumber => d.number <= HighestFromSpecs
  <2> SUFFICES ASSUME NEW d \in DOMAIN features, d.form = "plain", d.number <= MaxNumber
               PROVE  d.number <= HighestFromSpecs
    OBVIOUS
  <2>1. d.number \in S
    BY <1>3
  <2> QED BY <1>4, <1>5, <2>1
<1> QED BY <1>6, <1>7

-----------------------------------------------------------------------------
(* One lemma per action.                                                   *)

USE DEF Numbering, Writing, Pointing

LEMMA Failed ==
    ASSUME IInv, NEW s \in Script, NEW from, Fail(s, from),
           from \notin {"fill", "killed", "done"},
           IsCreate(s) => from \in {"number", "search", "exists", "look"}
    PROVE  IInv'
<1>1. Moved(s, from, "failed") /\ second' = second
  BY Stepping DEF Fail, IInv, Ended
<1>2. UNCHANGED <<specs, features, pointer, own>>
  BY DEF Fail, tree
<1>3. specs' \in BOOLEAN /\ OwnOK' /\ second' \in Nat
  BY <1>1, <1>2, TypeParts, SetNothing DEF IInv, OwnSet
<1>4. ScriptInv(s)'
  <2>1. ScriptInv(s) /\ call' = call /\ pc[s] = from /\ pc'[s] = "failed"
    BY <1>1 DEF IInv, Moved
  <2>2. Labelled(s)'
    BY <1>2, <2>1 DEF ScriptInv, Labelled, IsCreate, OptedOut
  <2> QED BY <2>1, <2>2 DEF ScriptInv, Located, Undisturbed, Creates, IsCreate
<1> QED BY <1>1, <1>2, <1>3, <1>4, TreeKept

LEMMA StartCreateKeepsIInv ==
    ASSUME IInv, NEW s \in Script, StartCreate(s)
    PROVE  IInv'
<1>1. Moved(s, "start", "number") /\ second' = second
  BY Stepping DEF StartCreate, IInv, Labels
<1>2. UNCHANGED <<features, pointer, own>>
  BY DEF StartCreate
<1>3. OwnOK' /\ second' \in Nat
  BY <1>1, <1>2, TypeParts, SetNothing DEF IInv, OwnSet
<1>4. specs' \in BOOLEAN
  BY DEF StartCreate
<1>5. ScriptInv(s)'
  BY <1>1, <1>2 DEF IInv, StartCreate, Moved, ScriptInv, Labelled, Located, Undisturbed,
                    Creates, IsCreate, OptedOut
<1> QED BY <1>1, <1>2, <1>3, <1>4, <1>5, TreeKept

(* The number of a create is settled, and a dry run ends.                  *)
LEMMA SettledKeepsIInv ==
    ASSUME IInv, NEW s \in Script, NEW from \in {"number", "search"}, NEW d \in Directories,
           NEW to, to = (IF call[s].dry THEN "done" ELSE "exists"),
           IsCreate(s), Moved(s, from, to), UNCHANGED <<specs, features, pointer>>, second' \in Nat,
           own' = [own EXCEPT ![s].dir = d],
           call[s].mode # "stamp" => Exists(d) \/
              \A e \in DOMAIN features \ {d} : ~(e.form = "plain" /\ e.number = d.number)
    PROVE  IInv'
<1>1. OwnSet(s, d, own[s].number, own[s].needs, own[s].made, own[s].wants)
  BY SetDir, TypeParts DEF IInv
<1>2. ScriptInv(s) /\ call' = call /\ pc[s] = from /\ pc'[s] = to /\ own'[s].dir = d
      /\ own'[s].made = own[s].made
  BY <1>1 DEF IInv, Moved, OwnSet
<1>3. Labelled(s)'
  BY <1>2 DEF ScriptInv, Labelled, IsCreate, OptedOut
<1>4. Located(s)'
  BY <1>2 DEF Located, IsCreate, Creates
<1>5. Undisturbed(s)'
  BY <1>2 DEF Undisturbed, IsCreate, Creates, Exists, NumberIsFree
<1>6. to = "done" => ~Creates(s)
  BY DEF Creates
<1>7. specs' \in BOOLEAN
  BY TypeParts DEF IInv
<1> QED BY <1>1, <1>3, <1>4, <1>5, <1>6, <1>7, TreeKept DEF ScriptInv, OwnSet

LEMMA NumberedKeepsIInv ==
    ASSUME IInv, NEW s \in Script, NEW from \in {"number", "search"}, NEW n \in Nat,
           IsCreate(s), Numbered(s, from, n),
           Exists(Directory(n, "plain", call[s].suffix)) \/ ~SpecPrefixExists(n)
    PROVE  IInv'
<1> DEFINE d == Directory(n, "plain", call[s].suffix)
           to == IF call[s].dry THEN "done" ELSE "exists"
<1>1. Moved(s, from, to) /\ second' = second
  BY Stepping DEF Numbered, IInv, Labels, Ended
<1>2. d \in Directories /\ d.number = n
  <2>1. call[s] \in CommandLines
    BY TypeParts, CommandsAssumption DEF IInv
  <2> QED BY <2>1 DEF CommandLines, Directory, Directories
<1>3. UNCHANGED <<specs, features, pointer>> /\ own' = [own EXCEPT ![s].dir = d]
  BY DEF Numbered, tree
<1>4. second' \in Nat
  BY <1>1, TypeParts DEF IInv
<1>5. Exists(d) \/ \A e \in DOMAIN features \ {d} : ~(e.form = "plain" /\ e.number = d.number)
  BY <1>2 DEF SpecPrefixExists
<1> HIDE DEF d
<1> QED BY <1>1, <1>2, <1>3, <1>4, <1>5, SettledKeepsIInv

LEMMA TakeStampKeepsIInv ==
    ASSUME IInv, NEW s \in Script, TakeStamp(s)
    PROVE  IInv'
<1> DEFINE to == IF call[s].dry THEN "done" ELSE "exists"
<1>1. PICK now \in second .. MaxSecond :
         /\ second' = now /\ pc[s] = "number" /\ Goto(s, to)
         /\ own' = [own EXCEPT ![s].dir = Directory(now, "stamp", call[s].suffix)]
  BY DEF TakeStamp
<1>2. second \in Nat /\ now \in Nat
  BY TypeParts, BoundsAssumption DEF IInv
<1>3. to \in Labels \cup Ended
  BY DEF Labels, Ended
<1> HIDE DEF to
<1>4. Moved(s, "number", to)
  BY <1>1, <1>3, Moving DEF TakeStamp, IInv
<1>5. Directory(now, "stamp", call[s].suffix) \in Directories
  <2>1. call[s] \in CommandLines
    BY TypeParts, CommandsAssumption DEF IInv
  <2> QED BY <1>2, <2>1 DEF CommandLines, Directory, Directories
<1>6. UNCHANGED <<specs, features, pointer>> /\ IsCreate(s) /\ call[s].mode = "stamp"
  BY DEF TakeStamp, tree
<1> QED BY <1>1, <1>2, <1>4, <1>5, <1>6, SettledKeepsIInv DEF to

LEMMA TakeNextKeepsIInv ==
    ASSUME IInv, NEW s \in Script, TakeNext(s)
    PROVE  IInv'
<1> DEFINE n == HighestFromSpecs + 1
<1>1. CASE n > MaxNumber
  BY <1>1, Failed DEF TakeNext
<1>2. CASE ~(n > MaxNumber)
  <2>1. FeaturesOK
    BY TypeParts DEF IInv
  <2>2. n \in Nat /\ ~SpecPrefixExists(n)
    BY <1>2, <2>1, HighestNumber, BoundsAssumption DEF SpecPrefixExists
  <2>3. Numbered(s, "number", n) /\ IsCreate(s)
    BY <1>2 DEF TakeNext
  <2> HIDE DEF n
  <2> QED BY <2>2, <2>3, NumberedKeepsIInv
<1> QED BY <1>1, <1>2

(* A step of create that only takes it to its next label.                  *)
LEMMA SearchingKeepsIInv ==
    ASSUME IInv, NEW s \in Script, NEW from \in Numbering, NEW to \in {"highest", "search"},
           IsCreate(s), Step(s, from, to), UNCHANGED <<specs, features, pointer>>,
           \/ UNCHANGED own
           \/ \E n \in Nat : own' = [own EXCEPT ![s].number = n]
    PROVE  IInv'
<1>1. Moved(s, from, to) /\ second' = second
  BY Stepping DEF IInv, Labels
<1>2. PICK n \in Nat : OwnSet(s, own[s].dir, n, own[s].needs, own[s].made, own[s].wants)
  <2>1. OwnOK /\ own[s].number \in Nat
    BY TypeParts DEF IInv, OwnOK, OwnRecord
  <2>2. CASE UNCHANGED own
    BY <2>1, <2>2, SetNothing
  <2>3. CASE \E n \in Nat : own' = [own EXCEPT ![s].number = n]
    BY <2>1, <2>3, SetNumber
  <2> QED BY <2>2, <2>3
<1>3. ScriptInv(s) /\ call' = call /\ pc[s] = from /\ pc'[s] = to
      /\ own'[s].made = own[s].made
  BY <1>1, <1>2 DEF IInv, Moved, OwnSet
<1>4. ScriptInv(s)'
  BY <1>3 DEF ScriptInv, Labelled, Located, Undisturbed, IsCreate, Creates, OptedOut
<1>5. specs' \in BOOLEAN /\ second' \in Nat
  BY <1>1, TypeParts DEF IInv
<1> QED BY <1>1, <1>2, <1>4, <1>5, TreeKept DEF OwnSet

LEMMA TakeRequestedKeepsIInv ==
    ASSUME IInv, NEW s \in Script, TakeRequested(s)
    PROVE  IInv'
<1>1. IsCreate(s) /\ call[s].number \in Nat
  <2>1. call[s] \in CommandLines
    BY TypeParts, CommandsAssumption DEF IInv
  <2> QED BY <2>1 DEF CommandLines, TakeRequested
<1>2. CASE call[s].number > MaxNumber
  BY <1>1, <1>2, Failed DEF TakeRequested
<1>3. CASE ~(call[s].number > MaxNumber) /\ SpecPrefixConflict(call[s])
  <2>1. Step(s, "number", "highest") /\ UNCHANGED <<specs, features, pointer>> /\ UNCHANGED own
    BY <1>3 DEF TakeRequested, tree
  <2> QED BY <1>1, <2>1, SearchingKeepsIInv
<1>4. CASE ~(call[s].number > MaxNumber) /\ ~SpecPrefixConflict(call[s])
  <2>1. Numbered(s, "number", call[s].number)
    BY <1>4 DEF TakeRequested
  <2>2. Exists(Directory(call[s].number, "plain", call[s].suffix))
        \/ ~SpecPrefixExists(call[s].number)
    BY <1>4 DEF SpecPrefixConflict
  <2> QED BY <1>1, <2>1, <2>2, NumberedKeepsIInv
<1> QED BY <1>2, <1>3, <1>4

LEMMA SearchFromHighestKeepsIInv ==
    ASSUME IInv, NEW s \in Script, SearchFromHighest(s)
    PROVE  IInv'
<1>1. HighestFromSpecs \in Nat
  BY TypeParts, HighestNumber DEF IInv
<1>2. IsCreate(s)
  BY DEF SearchFromHighest, Step, IInv, ScriptInv, Labelled
<1>3. Step(s, "highest", "search") /\ UNCHANGED <<specs, features, pointer>>
      /\ own' = [own EXCEPT ![s].number = HighestFromSpecs]
  BY DEF SearchFromHighest, tree
<1> QED BY <1>1, <1>2, <1>3, SearchingKeepsIInv

LEMMA SearchKeepsIInv ==
    ASSUME IInv, NEW s \in Script, Search(s)
    PROVE  IInv'
<1> DEFINE n == own[s].number + 1
<1>1. n \in Nat
  BY TypeParts DEF IInv, OwnOK, OwnRecord
<1>2. IsCreate(s)
  BY DEF Search, Fail, Numbered, Step, IInv, ScriptInv, Labelled
<1>3. CASE n > MaxNumber
  BY <1>2, <1>3, Failed DEF Search
<1>4. CASE ~(n > MaxNumber) /\ SpecPrefixExists(n)
  <2>1. Step(s, "search", "search") /\ UNCHANGED <<specs, features, pointer>>
        /\ own' = [own EXCEPT ![s].number = n]
    BY <1>4 DEF Search, tree
  <2> HIDE DEF n
  <2> QED BY <1>1, <1>2, <2>1, SearchingKeepsIInv
<1>5. CASE ~(n > MaxNumber) /\ ~SpecPrefixExists(n)
  <2>1. Numbered(s, "search", n)
    BY <1>5 DEF Search
  <2> HIDE DEF n
  <2> QED BY <1>1, <1>2, <1>5, <2>1, NumberedKeepsIInv
<1> QED BY <1>3, <1>4, <1>5

LEMMA CheckExistingKeepsIInv ==
    ASSUME IInv, NEW s \in Script, CheckExisting(s)
    PROVE  IInv'
<1>1. CASE Exists(own[s].dir) /\ ~call[s].adopt
  BY <1>1, Failed DEF CheckExisting
<1>2. CASE ~(Exists(own[s].dir) /\ ~call[s].adopt)
  <2>1. Moved(s, "exists", "look") /\ second' = second
        /\ UNCHANGED <<specs, features, pointer, own>>
    BY <1>2, Stepping DEF CheckExisting, IInv, Labels, tree
  <2>2. ScriptInv(s) /\ call' = call /\ pc[s] = "exists" /\ pc'[s] = "look" /\ own' = own
        /\ features' = features
    BY <2>1 DEF IInv, Moved
  <2>3. IsCreate(s)
    BY <2>2 DEF ScriptInv, Labelled
  <2>4. Labelled(s)' /\ Located(s)'
    BY <2>2, <2>3 DEF ScriptInv, Labelled, Located, IsCreate, OptedOut, Creates
  <2>5. ~call[s].adopt => DirectoryIsFree(s)'
    <3> SUFFICES ASSUME ~call[s].adopt, NEW q \in Script \ {s}, pc'[q] = "done", Creates(q)'
                 PROVE  own'[q].dir # own'[s].dir
      BY DEF DirectoryIsFree
    <3>1. pc[q] = "done" /\ Creates(q) /\ ScriptInv(q)
      BY <2>1 DEF Moved, Creates, IsCreate, IInv
    <3>2. Exists(own[q].dir)
      BY <3>1 DEF ScriptInv, Located, TextOf
    <3> QED BY <1>2, <2>2, <3>2
  <2>6. alone'[s] => Undisturbed(s)'
    BY <2>1, <2>2, <2>3, <2>5
       DEF Moved, ScriptInv, Undisturbed, IsCreate, Creates, Exists, NumberIsFree
  <2>7. specs' \in BOOLEAN /\ OwnOK' /\ second' \in Nat
    BY <2>1, TypeParts, SetNothing DEF IInv, OwnSet
  <2> QED BY <2>1, <2>4, <2>6, <2>7, TreeKept DEF ScriptInv
<1> QED BY <1>1, <1>2

LEMMA LookForFileKeepsIInv ==
    ASSUME IInv, NEW s \in Script, LookForFile(s)
    PROVE  IInv'
<1> DEFINE needs == TextOf(own[s].dir, FileOf(s)) = "absent"
           to == IF IsCreate(s) THEN "make" ELSE IF needs THEN "open" ELSE "done"
<1>1. CASE needs /\ ResolveTemplateContent(layout).kind = "error"
  BY <1>1, Failed DEF LookForFile
<1>2. CASE ~(needs /\ ResolveTemplateContent(layout).kind = "error")
  <2>0. needs \in BOOLEAN /\ to \in Labels \cup Ended
    BY DEF Labels, Ended
  <2>1. Moved(s, "look", to) /\ second' = second
    BY <1>2, <2>0, Stepping DEF LookForFile, IInv
  <2>2. UNCHANGED <<specs, features, pointer>> /\ own' = [own EXCEPT ![s].needs = needs]
    BY <1>2 DEF LookForFile, tree
  <2>3. OwnSet(s, own[s].dir, own[s].number, needs, own[s].made, own[s].wants)
    BY <2>0, <2>2, SetNeeds, TypeParts DEF IInv
  <2>4. /\ ScriptInv(s) /\ call' = call /\ pc[s] = "look" /\ pc'[s] = to
        /\ own'[s].dir = own[s].dir /\ own'[s].needs = needs /\ own'[s].made = own[s].made
    BY <2>1, <2>3 DEF IInv, Moved, OwnSet
  <2>5. CASE IsCreate(s)
    <3>1. FileOf(s) = "spec"
      BY <2>5 DEF FileOf
    <3>2. Labelled(s)' /\ Located(s)'
      BY <2>2, <2>4, <2>5, <3>1
         DEF ScriptInv, Labelled, Located, IsCreate, OptedOut, Creates, TextOf, Exists
    <3>3. alone'[s] => Undisturbed(s)'
      <4>1. DirectoryIsFree(s) => DirectoryIsFree(s)'
        BY <2>1, <2>3 DEF DirectoryIsFree, Moved, OwnSet, Creates, IsCreate
      <4>2. alone'[s] => Undisturbed(s)
        BY <2>1, <2>4 DEF Moved, ScriptInv
      <4>3. own'[s].needs => (TextOf(own[s].dir, "spec") = "absent")'
        BY <2>2, <2>4, <3>1 DEF TextOf, Exists
      <4>4. Exists(own[s].dir) \/ NumberIsFree(s) => (Exists(own[s].dir) \/ NumberIsFree(s))'
        BY <2>2, <2>4 DEF Exists, NumberIsFree
      <4>5. pc'[s] = "make"
        BY <2>4, <2>5
      <4> HIDE DEF to, needs
      <4> QED BY <2>4, <2>5, <4>1, <4>2, <4>3, <4>4, <4>5
              DEF Undisturbed, IsCreate, Creates
    <3>4. to # "done"
      BY <2>5
    <3>5. specs' \in BOOLEAN /\ second' \in Nat
      BY <2>1, <2>2, TypeParts DEF IInv
    <3> HIDE DEF to, needs
    <3> QED BY <2>1, <2>2, <2>3, <3>2, <3>3, <3>4, <3>5, TreeKept DEF ScriptInv, OwnSet
  <2>6. CASE ~IsCreate(s)
    <3>1. call[s].kind = "plan" /\ FileOf(s) = "plan" /\ Exists(own[s].dir)
      BY <2>4, <2>6 DEF FileOf, ScriptInv, Labelled, Located, IsCreate
    <3>2. Labelled(s)' /\ Located(s)'
      BY <2>2, <2>4, <2>6, <3>1
         DEF ScriptInv, Labelled, Located, IsCreate, OptedOut, Creates, TextOf, Exists
    <3>3. Undisturbed(s)'
      BY <2>2, <2>4, <2>6, <3>1
         DEF ScriptInv, Undisturbed, IsCreate, Creates, TextOf, Exists, FileOf
    <3>4. ~Creates(s)
      BY <2>6 DEF Creates
    <3>5. specs' \in BOOLEAN /\ second' \in Nat
      BY <2>1, <2>2, TypeParts DEF IInv
    <3> HIDE DEF to, needs
    <3> QED BY <2>1, <2>2, <2>3, <3>2, <3>3, <3>4, <3>5, TreeKept DEF ScriptInv, OwnSet
  <2> QED BY <2>5, <2>6
<1> QED BY <1>1, <1>2

-----------------------------------------------------------------------------
(* Steps on the texts.                                                     *)

LEMMA TextsExplained ==
    ASSUME IInv, NEW s \in Script, NEW from, NEW to, Moved(s, from, to),
           \A q \in Script \ {s} : own'[q] = own[q],
           from \notin {"fill", "killed"},
           \A d \in DOMAIN features' : \A f \in {"spec", "plan"} : features'[d][f] = "empty" =>
              \/ d \in DOMAIN features /\ features[d][f] = "empty"
              \/ ResolveTemplateContent(layout).kind = "nothing"
              \/ to = "fill" /\ own'[s].dir = d /\ own'[s].needs /\ FileOf(s) = f
    PROVE  EmptyTextIsExplained'
<1> SUFFICES ASSUME NEW d \in DOMAIN features', NEW f \in {"spec", "plan"},
                    features'[d][f] = "empty",
                    ResolveTemplateContent(layout).kind # "nothing"
             PROVE  \E q \in Script : /\ pc'[q] \in {"fill", "killed"}
                                      /\ own'[q].dir = d /\ own'[q].needs /\ FileOf(q)' = f
  BY DEF EmptyTextIsExplained, Moved
<1>0. \A q \in Script : FileOf(q)' = FileOf(q)
  BY DEF FileOf, IsCreate, Moved
<1>1. CASE d \in DOMAIN features /\ features[d][f] = "empty"
  <2>1. PICK q \in Script : /\ pc[q] \in {"fill", "killed"}
                            /\ own[q].dir = d /\ own[q].needs /\ FileOf(q) = f
    BY <1>1 DEF IInv, EmptyTextIsExplained
  <2>2. pc'[q] \in {"fill", "killed"} /\ own'[q] = own[q]
    BY <2>1 DEF Moved
  <2> QED BY <1>0, <2>1, <2>2
<1>2. CASE to = "fill" /\ own'[s].dir = d /\ own'[s].needs /\ FileOf(s) = f
  BY <1>0, <1>2 DEF Moved
<1> QED BY <1>1, <1>2

LEMMA MakeDirectoryKeepsIInv ==
    ASSUME IInv, NEW s \in Script, MakeDirectory(s)
    PROVE  IInv'
<1> DEFINE to == IF ~IsCreate(s) THEN "look" ELSE IF own[s].needs THEN "open" ELSE "persist"
           d == own[s].dir
<1>1. Moved(s, "make", to) /\ second' = second
  BY Stepping DEF MakeDirectory, IInv, Labels
<1>2. OwnOK /\ d \in Directories /\ FeaturesOK
  BY TypeParts DEF IInv, OwnOK, OwnRecord
<1>3. OwnSet(s, d, own[s].number, own[s].needs, ~Exists(d), own[s].wants)
  BY <1>2, SetMade DEF MakeDirectory
<1>4. /\ FeaturesOK' /\ Growing
      /\ DOMAIN features' = DOMAIN features \cup {d}
      /\ \A e \in DOMAIN features : features'[e] = features[e]
      /\ d \notin DOMAIN features => features'[d] = NoTexts
  BY <1>2, MadeDirectory DEF MakeDirectory
<1>5. TypeOK'
  BY <1>1, <1>3, <1>4, TypeParts
     DEF IInv, Moved, OwnSet, MakeDirectory, TypeOK, FeaturesOK, OwnOK, OwnRecord, TextRecords
<1>6. CurrentFeatureHasItsSpec'
  BY <1>1, <1>4, PointerKept DEF MakeDirectory, Moved
<1>7. EmptyTextIsExplained'
  <2>1. \A e \in DOMAIN features' : \A f \in {"spec", "plan"} : features'[e][f] = "empty" =>
           e \in DOMAIN features /\ features[e][f] = "empty"
    BY <1>4 DEF NoTexts
  <2> HIDE DEF to
  <2> QED BY <1>1, <1>3, <2>1, TextsExplained DEF OwnSet
<1>8. /\ ScriptInv(s) /\ call' = call /\ pc[s] = "make" /\ pc'[s] = to
      /\ own'[s].dir = d /\ own'[s].needs = own[s].needs /\ own'[s].made = ~Exists(d)
  BY <1>1, <1>3 DEF IInv, Moved, OwnSet
<1>9. Exists(d)' /\ \A f \in Files : TextOf(d, f)' = TextOf(d, f)
  BY <1>4, <1>8 DEF Exists, TextOf, NoTexts, Files
<1>10. Labelled(s)' /\ Located(s)'
  <2>1. Labelled(s)'
    BY <1>8 DEF ScriptInv, Labelled, IsCreate, OptedOut
  <2>2. Located(s)'
    BY <1>8, <1>9 DEF ScriptInv, Labelled, Located, IsCreate, Creates, Files
  <2> QED BY <2>1, <2>2
<1>11. alone'[s] => Undisturbed(s)'
  <2>1. DirectoryIsFree(s) => DirectoryIsFree(s)'
    BY <1>1, <1>3 DEF DirectoryIsFree, Moved, OwnSet, Creates, IsCreate
  <2>2. NumberIsFree(s) => NumberIsFree(s)'
    BY <1>4, <1>8 DEF NumberIsFree
  <2>3. IsCreate(s) => FileOf(s)' = "spec"
    BY <1>8 DEF FileOf, IsCreate
  <2> QED BY <1>1, <1>8, <1>9, <2>1, <2>2, <2>3
          DEF Moved, ScriptInv, Undisturbed, IsCreate, Creates, Files
<1> HIDE DEF to, d
<1>12. to # "done"
  BY DEF to
<1> QED BY <1>1, <1>3, <1>4, <1>5, <1>6, <1>7, <1>10, <1>11, <1>12, StepKeepsIInv
        DEF ScriptInv, OwnSet

(* write_bytes and touch on the file that script s owes.                   *)
LEMMA WritingKeepsIInv ==
    ASSUME IInv, NEW s \in Script, NEW from \in Writing, NEW to \in {"fill", AfterFile(s)},
           NEW text \in Texts, text # "absent", Step(s, from, to), WriteText(s, text),
           to = "fill" => text = "empty",
           text = "empty" /\ to # "fill" =>
               TextOf(own[s].dir, FileOf(s)) = "empty"
               \/ ResolveTemplateContent(layout).kind = "nothing",
           from = "fill" => text = "template",
           NEW f, f = FileOf(s)
    PROVE  IInv'
<1>1. Moved(s, from, to) /\ second' = second
  BY Stepping DEF IInv, Labels, Ended, AfterFile
<1>2. ScriptInv(s) /\ call' = call /\ pc[s] = from /\ pc'[s] = to /\ own' = own /\ pointer' = pointer
  BY <1>1 DEF IInv, Moved, WriteText
<1>3. /\ own[s].dir \in DOMAIN features /\ own[s].needs
      /\ f = (IF IsCreate(s) THEN "spec" ELSE "plan") /\ f \in Files
      /\ call[s].kind \in {"create", "plan"}
  BY <1>2 DEF ScriptInv, Located, Labelled, Exists, FileOf, Files
<1>4. FileOf(s)' = f
  BY <1>2 DEF FileOf, IsCreate
<1>5. /\ FeaturesOK' /\ Growing /\ DOMAIN features' = DOMAIN features
      /\ features'[own[s].dir][f] = text
      /\ \A e \in DOMAIN features : \A g \in Files :
            e # own[s].dir \/ g # f => features'[e][g] = features[e][g]
  <2>1. FeaturesOK /\ features' = Changed(own[s].dir, f, text)
    BY TypeParts DEF IInv, WriteText, Changed
  <2> QED BY <1>3, <2>1, ChangedText
<1>6. TypeOK'
  BY <1>1, <1>2, <1>5, TypeParts, SetNothing
     DEF IInv, Moved, OwnSet, WriteText, TypeOK, FeaturesOK, OwnOK, OwnRecord, TextRecords
<1>7. CurrentFeatureHasItsSpec'
  BY <1>2, <1>5, PointerKept
<1>8. EmptyTextIsExplained'
  <2>1. CASE from = "open"
    <3>1. \A e \in DOMAIN features' : \A g \in {"spec", "plan"} : features'[e][g] = "empty" =>
             \/ e \in DOMAIN features /\ features[e][g] = "empty"
             \/ ResolveTemplateContent(layout).kind = "nothing"
             \/ to = "fill" /\ own'[s].dir = e /\ own'[s].needs /\ FileOf(s) = g
      <4> SUFFICES ASSUME NEW e \in DOMAIN features', NEW g \in {"spec", "plan"},
                          features'[e][g] = "empty"
                   PROVE  \/ e \in DOMAIN features /\ features[e][g] = "empty"
                          \/ ResolveTemplateContent(layout).kind = "nothing"
                          \/ to = "fill" /\ own'[s].dir = e /\ own'[s].needs /\ FileOf(s) = g
        OBVIOUS
      <4>1. CASE e = own[s].dir /\ g = f
        BY <1>2, <1>3, <1>5, <4>1 DEF TextOf, Exists
      <4>2. CASE ~(e = own[s].dir /\ g = f)
        BY <1>5, <4>2 DEF Files
      <4> QED BY <4>1, <4>2
    <3> QED BY <1>1, <1>2, <2>1, <3>1, TextsExplained
  <2>2. CASE from = "fill"
    <3> SUFFICES ASSUME NEW e \in DOMAIN features', NEW g \in {"spec", "plan"},
                        features'[e][g] = "empty",
                        ResolveTemplateContent(layout).kind # "nothing"
                 PROVE  \E q \in Script : /\ pc'[q] \in {"fill", "killed"}
                                          /\ own'[q].dir = e /\ own'[q].needs /\ FileOf(q)' = g
      BY <1>1 DEF EmptyTextIsExplained, Moved
    <3>1. ~(e = own[s].dir /\ g = f)
      BY <1>5, <2>2
    <3>2. e \in DOMAIN features /\ features[e][g] = "empty"
      BY <1>5, <3>1 DEF Files
    <3>3. PICK q \in Script : /\ pc[q] \in {"fill", "killed"}
                              /\ own[q].dir = e /\ own[q].needs /\ FileOf(q) = g
      BY <3>2 DEF IInv, EmptyTextIsExplained
    <3>4. q # s
      BY <3>1, <3>3
    <3>5. pc'[q] = pc[q] /\ own'[q] = own[q] /\ FileOf(q)' = FileOf(q)
      BY <1>1, <1>2, <3>4 DEF Moved, FileOf, IsCreate
    <3> QED BY <3>3, <3>5
  <2> QED BY <2>1, <2>2
<1>9. /\ Exists(own[s].dir)' /\ TextOf(own[s].dir, f)' = text
      /\ NumberIsFree(s) => NumberIsFree(s)'
      /\ DirectoryIsFree(s) => DirectoryIsFree(s)'
  <2>1. Exists(own[s].dir)' /\ TextOf(own[s].dir, f)' = text
    BY <1>2, <1>3, <1>4, <1>5 DEF Exists, TextOf
  <2>2. NumberIsFree(s) => NumberIsFree(s)'
    BY <1>2, <1>5 DEF NumberIsFree
  <2>3. DirectoryIsFree(s) => DirectoryIsFree(s)'
    BY <1>1, <1>2 DEF DirectoryIsFree, Moved, Creates, IsCreate
  <2> QED BY <2>1, <2>2, <2>3
<1>10. Labelled(s)'
  BY <1>2, <1>3 DEF ScriptInv, Labelled, IsCreate, OptedOut, AfterFile
<1>11. Located(s)'
  BY <1>2, <1>3, <1>9 DEF ScriptInv, Located, IsCreate, Creates, AfterFile
<1>12. alone'[s] => Undisturbed(s)'
  <2>1. alone'[s] => Undisturbed(s)
    BY <1>1, <1>2 DEF Moved, ScriptInv
  <2>2. to = "fill" => (TextOf(own[s].dir, FileOf(s)) # "authored")'
    BY <1>4, <1>9
  <2>3. own'[s].made = own[s].made
    BY <1>2
  <2> QED BY <1>2, <1>3, <1>9, <2>1, <2>2, <2>3
          DEF Undisturbed, IsCreate, Creates, AfterFile
<1>13. to = "done" => ~Creates(s)
  BY <1>3 DEF AfterFile, Creates
<1> QED BY <1>1, <1>2, <1>5, <1>6, <1>7, <1>8, <1>10, <1>11, <1>12, <1>13, StepKeepsIInv
        DEF ScriptInv

LEMMA TruncateFileKeepsIInv ==
    ASSUME IInv, NEW s \in Script, TruncateFile(s)
    PROVE  IInv'
BY WritingKeepsIInv DEF TruncateFile, Texts

LEMMA FillFileKeepsIInv ==
    ASSUME IInv, NEW s \in Script, FillFile(s)
    PROVE  IInv'
<1>1. AfterFile(s) # "fill"
  BY DEF AfterFile
<1> QED BY <1>1, WritingKeepsIInv DEF FillFile, Texts

LEMMA TouchFileKeepsIInv ==
    ASSUME IInv, NEW s \in Script, TouchFile(s)
    PROVE  IInv'
<1> DEFINE text == IF TextOf(own[s].dir, FileOf(s)) = "absent" THEN "empty"
                   ELSE TextOf(own[s].dir, FileOf(s))
<1>1. AfterFile(s) # "fill"
  BY DEF AfterFile
<1>2. text \in Texts /\ text # "absent"
  BY TypeParts DEF IInv, FeaturesOK, TextRecords, TextOf, Exists, Texts, FileOf
<1>3. Step(s, "open", AfterFile(s)) /\ WriteText(s, text)
      /\ ResolveTemplateContent(layout).kind = "nothing"
  BY DEF TouchFile
<1> HIDE DEF text
<1> QED BY <1>1, <1>2, <1>3, WritingKeepsIInv

LEMMA WriteKeepsIInv ==
    ASSUME IInv, NEW d \in DOMAIN features, NEW f \in {"spec", "plan"}, Write(d, f)
    PROVE  IInv'
<1>1. UNCHANGED <<specs, pointer, layout, second, call, pc, own>>
  BY DEF Write
<1>2. /\ FeaturesOK' /\ Growing /\ DOMAIN features' = DOMAIN features
      /\ features'[d][f] = "authored"
      /\ \A e \in DOMAIN features : \A g \in Files :
            e # d \/ g # f => features'[e][g] = features[e][g]
  <2>1. FeaturesOK /\ features' = Changed(d, f, "authored")
    BY TypeParts DEF IInv, Write, Changed
  <2>2. f \in Files /\ "authored" \in Texts
    BY DEF Files, Texts
  <2> QED BY <2>1, <2>2, ChangedText
<1>3. alone' \in [Script -> BOOLEAN]
      /\ \A q \in Script : alone'[q] => alone[q] /\ ~Running(q)
  BY Zenon DEF Write
<1>4. TypeOK'
  BY <1>1, <1>2, <1>3, TypeParts
     DEF IInv, TypeOK, FeaturesOK, OwnOK, OwnRecord, TextRecords
<1>5. \A q \in Script : ScriptInv(q)'
  BY <1>1, <1>2, <1>3, OtherKeepsItsInvariant
<1>6. CurrentFeatureHasItsSpec'
  BY <1>1, <1>2, PointerKept
<1>7. EmptyTextIsExplained'
  <2> SUFFICES ASSUME NEW e \in DOMAIN features', NEW g \in {"spec", "plan"},
                      features'[e][g] = "empty",
                      ResolveTemplateContent(layout).kind # "nothing"
               PROVE  \E q \in Script : /\ pc'[q] \in {"fill", "killed"}
                                        /\ own'[q].dir = e /\ own'[q].needs /\ FileOf(q)' = g
    BY <1>1 DEF EmptyTextIsExplained
  <2>1. e \in DOMAIN features /\ features[e][g] = "empty"
    BY <1>2 DEF Files
  <2>2. PICK q \in Script : /\ pc[q] \in {"fill", "killed"}
                            /\ own[q].dir = e /\ own[q].needs /\ FileOf(q) = g
    BY <2>1 DEF IInv, EmptyTextIsExplained
  <2> QED BY <1>1, <2>2 DEF FileOf, IsCreate
<1>8. OneDirectoryPerCreation'
  BY <1>1, <1>3 DEF IInv, OneDirectoryPerCreation, Creates, IsCreate
<1> QED BY <1>4, <1>5, <1>6, <1>7, <1>8 DEF IInv

-----------------------------------------------------------------------------
(* Steps on feature.json, and the answers.                                 *)

LEMMA PointingKeepsIInv ==
    ASSUME IInv, NEW s \in Script, NEW from \in Pointing,
           NEW to \in {"truncate", "store", AfterPaths(s)}, Step(s, from, to),
           UNCHANGED <<specs, features, own>>, pointer' \in Pointers,
           to \in {"truncate", "store"} => ~OptedOut(s),
           to = "store" => pointer' = Torn,
           CurrentFeatureHasItsSpec'
    PROVE  IInv'
<1>1. Moved(s, from, to) /\ second' = second
  BY Stepping DEF IInv, Labels, Ended, AfterPaths
<1>2. ScriptInv(s) /\ call' = call /\ pc[s] = from /\ pc'[s] = to /\ own' = own
  BY <1>1 DEF IInv, Moved
<1>3. FeaturesOK' /\ Growing
      /\ TextOf(own[s].dir, "spec")' = TextOf(own[s].dir, "spec")
      /\ NumberIsFree(s)' = NumberIsFree(s)
  BY <1>2, SameFeatures, TypeParts DEF IInv, TextOf, Exists, NumberIsFree
<1>4. TypeOK'
  BY <1>1, <1>3, TypeParts, SetNothing
     DEF IInv, Moved, OwnSet, TypeOK, FeaturesOK, OwnOK, OwnRecord, TextRecords
<1>5. EmptyTextIsExplained'
  BY <1>1, <1>2, TextsKept
<1>6. DirectoryIsFree(s) => DirectoryIsFree(s)'
  BY <1>1, <1>2 DEF DirectoryIsFree, Moved, Creates, IsCreate
<1>7. call[s].kind \in {"create", "plan", "tasks", "check", "none"}
  BY TypeParts, CommandsAssumption DEF IInv, CommandLines
<1>8. Labelled(s)'
  BY <1>2, <1>7 DEF ScriptInv, Labelled, IsCreate, OptedOut, AfterPaths
<1>9. Located(s)'
  BY <1>2, <1>3, <1>7 DEF ScriptInv, Located, IsCreate, Creates, AfterPaths
<1>10. alone[s] => Undisturbed(s)
  BY <1>2 DEF ScriptInv
<1>11. alone'[s] => Undisturbed(s)'
  BY <1>1, <1>2, <1>3, <1>6, <1>7, <1>10
     DEF Moved, Undisturbed, IsCreate, Creates, AfterPaths
<1>12. to = "done" /\ Creates(s) /\ ~call[s].adopt /\ alone[s] => DirectoryIsFree(s)'
  BY <1>2, <1>6, <1>10 DEF Undisturbed
<1> QED BY <1>1, <1>2, <1>3, <1>4, <1>5, <1>8, <1>9, <1>11, <1>12, StepKeepsIInv DEF ScriptInv

LEMMA ComparePointerKeepsIInv ==
    ASSUME IInv, NEW s \in Script, ComparePointer(s)
    PROVE  IInv'
<1> DEFINE to == IF OptedOut(s) \/ pointer = Names(own[s].dir) THEN AfterPaths(s) ELSE "truncate"
<1>1. Step(s, "persist", to) /\ UNCHANGED <<specs, features, pointer, own>>
  BY DEF ComparePointer, tree
<1>2. Growing /\ pointer' \in Pointers
  BY <1>1, SameFeatures, TypeParts DEF IInv
<1>3. CurrentFeatureHasItsSpec'
  BY <1>1, <1>2, PointerKept DEF Step
<1>4. to # "store" /\ (to = "truncate" => ~OptedOut(s))
  BY DEF AfterPaths
<1> QED BY <1>1, <1>2, <1>3, <1>4, PointingKeepsIInv

LEMMA TruncatePointerKeepsIInv ==
    ASSUME IInv, NEW s \in Script, TruncatePointer(s)
    PROVE  IInv'
<1>1. Step(s, "truncate", "store") /\ UNCHANGED <<specs, features, own>> /\ pointer' = Torn
  BY DEF TruncatePointer
<1>2. ~OptedOut(s)
  BY <1>1 DEF IInv, ScriptInv, Labelled, Step
<1>3. Torn \in Pointers
  BY NoDirectoryType DEF Torn, Pointers
<1>4. CurrentFeatureHasItsSpec'
  BY <1>1 DEF CurrentFeatureHasItsSpec, Torn
<1> QED BY <1>1, <1>2, <1>3, <1>4, PointingKeepsIInv

LEMMA StorePointerKeepsIInv ==
    ASSUME IInv, NEW s \in Script, StorePointer(s)
    PROVE  IInv'
<1>1. Step(s, "store", AfterPaths(s)) /\ UNCHANGED <<specs, features, own>>
      /\ pointer' \in {Names(own[s].dir), Torn}
  BY DEF StorePointer
<1>2. own[s].dir \in Directories
  BY TypeParts DEF IInv, OwnOK, OwnRecord
<1>3. pointer' \in Pointers
  BY <1>1, <1>2, NoDirectoryType DEF Names, Torn, Pointers
<1>4. ScriptInv(s) /\ pc[s] = "store" /\ call' = call
  BY <1>1 DEF IInv, Step
<1>5. CurrentFeatureHasItsSpec'
  <2>1. CASE pointer' = Torn
    BY <2>1 DEF CurrentFeatureHasItsSpec, Torn
  <2>2. CASE pointer' = Names(own[s].dir) /\ IsCreate(s)
    <3>1. TextOf(own[s].dir, "spec") # "absent"
      BY <1>4, <2>2 DEF ScriptInv, Labelled, Located, Creates
    <3> QED BY <1>1, <2>2, <3>1 DEF CurrentFeatureHasItsSpec, Names, TextOf, Exists
  <2>3. CASE pointer' = Names(own[s].dir) /\ ~IsCreate(s)
    <3>1. own[s].dir = call[s].given /\ ~call[s].keep
      BY <1>4, <2>3 DEF ScriptInv, Labelled, Located, OptedOut
    <3> QED BY <1>4, <2>3, <3>1 DEF CurrentFeatureHasItsSpec, Names
  <2> QED BY <1>1, <2>1, <2>2, <2>3
<1>6. AfterPaths(s) \notin {"truncate", "store"}
  BY DEF AfterPaths
<1> QED BY <1>1, <1>3, <1>5, <1>6, PointingKeepsIInv

(* The steps of the other scripts before and after feature.json.           *)
LEMMA ReadingKeepsIInv ==
    ASSUME IInv, NEW s \in Script, NEW from \in {"start", "check"}, NEW to,
           to \in {"persist", "check", "done", "crashed"} \/ to = AfterPaths(s),
           ~IsCreate(s), Step(s, from, to),
           UNCHANGED <<specs, features, pointer>>, OwnOK',
           \A q \in Script \ {s} : own'[q] = own[q],
           to = "persist" => own'[s].dir = call[s].given
    PROVE  IInv'
<1>1. Moved(s, from, to) /\ second' = second
  BY Stepping DEF IInv, Labels, Ended, AfterPaths
<1>2. call' = call /\ pc'[s] = to
  BY <1>1 DEF Moved
<1>3. to = "make" => call[s].kind = "plan"
  BY DEF AfterPaths
<1>4. to \in {"persist", "check", "done", "crashed", "make"}
  BY DEF AfterPaths
<1>5. ScriptInv(s)'
  BY <1>2, <1>3, <1>4 DEF ScriptInv, Labelled, Located, Undisturbed, IsCreate, Creates, OptedOut
<1>6. specs' \in BOOLEAN /\ second' \in Nat
  BY <1>1, TypeParts DEF IInv
<1> QED BY <1>1, <1>5, <1>6, TreeKept DEF Creates

LEMMA WantsType ==
    ASSUME IInv, NEW s \in Script
    PROVE  Wants(s) \in Seq(Wanted) /\ call[s].given \in Directories
<1>1. call[s] \in CommandLines
  BY TypeParts, CommandsAssumption DEF IInv
<1>2. call[s].wants \in Seq(Wanted) /\ call[s].given \in Directories
  BY <1>1 DEF CommandLines
<1>3. <<"plan", "spec">> \in Seq(Wanted) /\ <<"dir", "plan">> \in Seq(Wanted) /\ <<>> \in Seq(Wanted)
  BY DEF Wanted
<1>4. <<"dir", "plan">> \o call[s].wants \in Seq(Wanted)
  BY <1>2, <1>3
<1> QED BY <1>2, <1>3, <1>4 DEF Wants

LEMMA PathsFromEnvironmentKeepsIInv ==
    ASSUME IInv, NEW s \in Script, PathsFromEnvironment(s)
    PROVE  IInv'
<1> DEFINE to == IF OptedOut(s) THEN AfterPaths(s) ELSE "persist"
<1>1. Step(s, "start", to) /\ UNCHANGED <<specs, features, pointer>> /\ ~IsCreate(s)
      /\ own' = [own EXCEPT ![s].dir = call[s].given, ![s].wants = Wants(s)]
  BY DEF PathsFromEnvironment, UsesDirectory, tree, IsCreate
<1>2. OwnSet(s, call[s].given, own[s].number, own[s].needs, own[s].made, Wants(s))
  BY <1>1, WantsType, SetDirAndWants, TypeParts DEF IInv
<1> QED BY <1>1, <1>2, ReadingKeepsIInv DEF OwnSet

LEMMA PathsFromPointerKeepsIInv ==
    ASSUME IInv, NEW s \in Script, PathsFromPointer(s)
    PROVE  IInv'
<1>1. ~IsCreate(s)
  BY DEF PathsFromPointer, IsCreate
<1>2. CASE pointer.kind # "names"
  BY <1>1, <1>2, Failed DEF PathsFromPointer
<1>3. CASE pointer.kind = "names"
  <2>1. Step(s, "start", AfterPaths(s)) /\ UNCHANGED <<specs, features, pointer>>
        /\ own' = [own EXCEPT ![s].dir = pointer.dir, ![s].wants = Wants(s)]
    BY <1>3 DEF PathsFromPointer, UsesDirectory, tree
  <2>2. pointer.dir \in Directories
    BY TypeParts DEF IInv, Pointers
  <2>3. OwnSet(s, pointer.dir, own[s].number, own[s].needs, own[s].made, Wants(s))
    BY <2>1, <2>2, WantsType, SetDirAndWants, TypeParts DEF IInv
  <2>4. AfterPaths(s) # "persist"
    BY DEF AfterPaths
  <2> QED BY <1>1, <2>1, <2>3, <2>4, ReadingKeepsIInv DEF OwnSet
<1> QED BY <1>2, <1>3

LEMMA CheckFileKeepsIInv ==
    ASSUME IInv, NEW s \in Script, CheckFile(s)
    PROVE  IInv'
<1>1. ~IsCreate(s)
  BY DEF CheckFile, Fail, Step, IInv, ScriptInv, Labelled
<1>2. CASE ~Found(s, Head(own[s].wants))
  BY <1>1, <1>2, Failed DEF CheckFile
<1>3. CASE Found(s, Head(own[s].wants))
  <2>1. Step(s, "check", "check") /\ UNCHANGED <<specs, features, pointer>>
        /\ own' = [own EXCEPT ![s].wants = Tail(@)] /\ own[s].wants # <<>>
    BY <1>3 DEF CheckFile, tree
  <2>2. OwnSet(s, own[s].dir, own[s].number, own[s].needs, own[s].made, Tail(own[s].wants))
    BY <2>1, SetWants, TypeParts DEF IInv
  <2> QED BY <1>1, <2>1, <2>2, ReadingKeepsIInv DEF OwnSet
<1> QED BY <1>2, <1>3

LEMMA AnswerTasksKeepsIInv ==
    ASSUME IInv, NEW s \in Script, AnswerTasks(s)
    PROVE  IInv'
<1>1. ~IsCreate(s)
  BY DEF AnswerTasks, IsCreate
<1>2. CASE ResolveTemplateContent(layout).kind # "text"
  BY <1>1, <1>2, Failed DEF AnswerTasks
<1>3. CASE ResolveTemplateContent(layout).kind = "text"
  <2>1. PICK to \in {"crashed", "done"} : Step(s, "check", to)
    BY <1>3 DEF AnswerTasks
  <2>2. UNCHANGED <<specs, features, pointer>>
        /\ own' = [own EXCEPT ![s].content = ResolveTemplateContent(layout).text,
                              ![s].place = ResolveTemplate(layout)]
    BY <1>3 DEF AnswerTasks, tree
  <2>3. OwnSet(s, own[s].dir, own[s].number, own[s].needs, own[s].made, own[s].wants)
    BY <2>2, SetAnswer, TypeParts DEF IInv
  <2> QED BY <1>1, <2>1, <2>2, <2>3, ReadingKeepsIInv DEF OwnSet
<1> QED BY <1>2, <1>3

LEMMA AnswerCheckKeepsIInv ==
    ASSUME IInv, NEW s \in Script, AnswerCheck(s)
    PROVE  IInv'
<1>1. ~IsCreate(s)
  BY DEF AnswerCheck, IsCreate
<1>2. CASE Fail(s, "check")
  BY <1>1, <1>2, Failed
<1>3. CASE Step(s, "check", "done") /\ UNCHANGED <<tree, own>>
  <2>1. OwnSet(s, own[s].dir, own[s].number, own[s].needs, own[s].made, own[s].wants)
    BY <1>3, SetNothing, TypeParts DEF IInv
  <2> QED BY <1>1, <1>3, <2>1, ReadingKeepsIInv DEF OwnSet, tree
<1> QED BY <1>2, <1>3 DEF AnswerCheck

LEMMA KillKeepsIInv ==
    ASSUME IInv, NEW s \in Script, Kill(s)
    PROVE  IInv'
<1>1. Moved(s, pc[s], "killed") /\ second' = second /\ UNCHANGED <<specs, features, pointer, own>>
  BY Stepping DEF Kill, IInv, Ended, tree
<1>2. pc'[s] = "killed" /\ call' = call
  BY <1>1 DEF Moved
<1>3. ScriptInv(s)'
  BY <1>2 DEF ScriptInv, Labelled, Located, Undisturbed, IsCreate, Creates, OptedOut
<1>4. specs' \in BOOLEAN /\ second' \in Nat /\ OwnOK'
  BY <1>1, TypeParts, SetNothing DEF IInv, OwnSet
<1>5. pc[s] # "done"
  BY DEF Kill, Running, Ended
<1> HIDE DEF Kill
<1> QED BY <1>1, <1>3, <1>4, <1>5, TreeKept

-----------------------------------------------------------------------------
(* The invariant.                                                          *)

LEMMA InitIInv == Init => IInv
<1> SUFFICES ASSUME NEW start \in Starts, NEW template \in Layouts,
                    NEW calls \in [Script -> Commands], StartsWith(start, template, calls)
             PROVE  IInv
  BY DEF Init
<1>1. \A s \in Script : pc[s] = "start" /\ ~own[s].made
  BY DEF StartsWith
<1>2. FeaturesOK /\ pointer \in Pointers
      /\ \A d \in DOMAIN features : \A f \in Files : features[d][f] # "empty"
  BY StartsAssumption DEF StartsWith, FeaturesOK, TextRecords, Texts, Files
<1>3. OwnOK
  <2>1. own \in [Script -> {own[s] : s \in Script}]
    BY DEF StartsWith
  <2>2. NoDirectory \in Directories /\ <<>> \in Seq(Wanted)
    BY NoDirectoryType
  <2>3. \A s \in Script : own[s] = [dir |-> NoDirectory, number |-> 0, needs |-> FALSE,
                                     made |-> FALSE, wants |-> <<>>,
                                     content |-> <<>>, place |-> NoPlace]
    BY DEF StartsWith
  <2>4. ASSUME NEW s \in Script PROVE OwnRecord(own[s])
    <3> DEFINE none == <<>>
               r == [dir |-> NoDirectory, number |-> 0, needs |-> FALSE, made |-> FALSE,
                     wants |-> none, content |-> <<>>, place |-> NoPlace]
    <3>1. none \in Seq(Wanted)
      BY <2>2
    <3> HIDE DEF none
    <3>2. OwnRecord(r)
      BY <2>2, <3>1 DEF OwnRecord
    <3> QED BY <2>3, <3>2 DEF none
  <2> QED BY <2>1, <2>4 DEF OwnOK
<1>4. TypeOK
  BY <1>2, <1>3, TypeParts DEF StartsWith, Labels
<1>5. CurrentFeatureHasItsSpec
  BY StartsAssumption DEF StartsWith, CurrentFeatureHasItsSpec, TextOf, Exists
<1>6. EmptyTextIsExplained
  BY <1>2 DEF EmptyTextIsExplained, Files
<1>7. \A s \in Script : ScriptInv(s)
  BY <1>1 DEF ScriptInv, Labelled, Located, Undisturbed, IsCreate, Creates
<1>8. OneDirectoryPerCreation
  BY <1>1 DEF OneDirectoryPerCreation
<1> QED BY <1>4, <1>5, <1>6, <1>7, <1>8 DEF IInv

LEMMA NextIInv == IInv /\ [Next]_vars => IInv'
<1> SUFFICES ASSUME IInv, [Next]_vars PROVE IInv'
  OBVIOUS
<1>1. ASSUME NEW s \in Script, StartCreate(s) PROVE IInv'
  BY <1>1, StartCreateKeepsIInv
<1>2. ASSUME NEW s \in Script, TakeStamp(s) PROVE IInv'
  BY <1>2, TakeStampKeepsIInv
<1>3. ASSUME NEW s \in Script, TakeNext(s) PROVE IInv'
  BY <1>3, TakeNextKeepsIInv
<1>4. ASSUME NEW s \in Script, TakeRequested(s) PROVE IInv'
  BY <1>4, TakeRequestedKeepsIInv
<1>5. ASSUME NEW s \in Script, SearchFromHighest(s) PROVE IInv'
  BY <1>5, SearchFromHighestKeepsIInv
<1>6. ASSUME NEW s \in Script, Search(s) PROVE IInv'
  BY <1>6, SearchKeepsIInv
<1>7. ASSUME NEW s \in Script, CheckExisting(s) PROVE IInv'
  BY <1>7, CheckExistingKeepsIInv
<1>8. ASSUME NEW s \in Script, LookForFile(s) PROVE IInv'
  BY <1>8, LookForFileKeepsIInv
<1>9. ASSUME NEW s \in Script, MakeDirectory(s) PROVE IInv'
  BY <1>9, MakeDirectoryKeepsIInv
<1>10. ASSUME NEW s \in Script, TruncateFile(s) PROVE IInv'
  BY <1>10, TruncateFileKeepsIInv
<1>11. ASSUME NEW s \in Script, FillFile(s) PROVE IInv'
  BY <1>11, FillFileKeepsIInv
<1>12. ASSUME NEW s \in Script, TouchFile(s) PROVE IInv'
  BY <1>12, TouchFileKeepsIInv
<1>13. ASSUME NEW s \in Script, PathsFromEnvironment(s) PROVE IInv'
  BY <1>13, PathsFromEnvironmentKeepsIInv
<1>14. ASSUME NEW s \in Script, PathsFromPointer(s) PROVE IInv'
  BY <1>14, PathsFromPointerKeepsIInv
<1>15. ASSUME NEW s \in Script, ComparePointer(s) PROVE IInv'
  BY <1>15, ComparePointerKeepsIInv
<1>16. ASSUME NEW s \in Script, TruncatePointer(s) PROVE IInv'
  BY <1>16, TruncatePointerKeepsIInv
<1>17. ASSUME NEW s \in Script, StorePointer(s) PROVE IInv'
  BY <1>17, StorePointerKeepsIInv
<1>18. ASSUME NEW s \in Script, CheckFile(s) PROVE IInv'
  BY <1>18, CheckFileKeepsIInv
<1>19. ASSUME NEW s \in Script, AnswerTasks(s) PROVE IInv'
  BY <1>19, AnswerTasksKeepsIInv
<1>20. ASSUME NEW s \in Script, AnswerCheck(s) PROVE IInv'
  BY <1>20, AnswerCheckKeepsIInv
<1>21. ASSUME NEW s \in Script, Kill(s) PROVE IInv'
  BY <1>21, KillKeepsIInv
<1>22. ASSUME NEW d \in DOMAIN features, NEW f \in {"spec", "plan"}, Write(d, f) PROVE IInv'
  BY <1>22, WriteKeepsIInv
<1>23. CASE UNCHANGED vars
  <2>1. TypeOK' /\ CurrentFeatureHasItsSpec' /\ EmptyTextIsExplained' /\ OneDirectoryPerCreation'
    BY <1>23 DEF vars, IInv, TypeOK, CurrentFeatureHasItsSpec, EmptyTextIsExplained,
                 OneDirectoryPerCreation, TextOf, Exists, FileOf, Creates, IsCreate
  <2>2. \A s \in Script : ScriptInv(s)'
    BY <1>23 DEF vars, IInv, ScriptInv, Labelled, Located, Undisturbed, NumberIsFree,
                 DirectoryIsFree, TextOf, Exists, FileOf, Creates, IsCreate, OptedOut
  <2> QED BY <2>1, <2>2 DEF IInv
<1> QED BY <1>1, <1>2, <1>3, <1>4, <1>5, <1>6, <1>7, <1>8, <1>9, <1>10, <1>11, <1>12,
           <1>13, <1>14, <1>15, <1>16, <1>17, <1>18, <1>19, <1>20, <1>21, <1>22, <1>23 DEF Next

-----------------------------------------------------------------------------
(* What always holds.                                                      *)

(* The invariant holds in every state of every run of the scripts.         *)
THEOREM Inductive == Spec => []IInv
<1>1. Init => IInv
  BY InitIInv
<1>2. IInv /\ [Next]_vars => IInv'
  BY NextIInv
<1> QED BY <1>1, <1>2, PTL DEF Spec

(* Every variable keeps its type: among the rest, no script leaves a       *)
(* directory name or a text of another form than the scripts know.         *)
THEOREM TypeCorrect == Spec => []TypeOK
<1>1. IInv => TypeOK
  BY DEF IInv
<1> QED BY <1>1, Inductive, PTL

(* What feature.json names has its spec.md, wherever scripts are killed.   *)
THEOREM CurrentFeature == Spec => []CurrentFeatureHasItsSpec
<1>1. IInv => CurrentFeatureHasItsSpec
  BY DEF IInv
<1> QED BY <1>1, Inductive, PTL

(* An empty text has no template, or the script that owes it is about to   *)
(* fill it or was killed.                                                  *)
THEOREM EmptyTexts == Spec => []EmptyTextIsExplained
<1>1. IInv => EmptyTextIsExplained
  BY DEF IInv
<1> QED BY <1>1, Inductive, PTL

(* Two runs of create end with the same directory only if they overlapped. *)
THEOREM OneDirectory == Spec => []OneDirectoryPerCreation
<1>1. IInv => OneDirectoryPerCreation
  BY DEF IInv
<1> QED BY <1>1, Inductive, PTL

(* A create that ran alone has its number for itself.                      *)
THEOREM OwnNumber == Spec => []NumberIsItsOwn
<1>1. IInv => NumberIsItsOwn
  <2> SUFFICES ASSUME IInv, NEW s \in Script, Running(s), alone[s], Creates(s), own[s].made,
                      call[s].mode # "stamp"
               PROVE  NumberIsFree(s)
    BY DEF NumberIsItsOwn, NumberIsFree
  <2>1. ScriptInv(s) /\ IsCreate(s) /\ pc[s] \in Labels
    BY TypeParts DEF IInv, Creates, Running
  <2>2. pc[s] \in Writing \cup Pointing
    BY <2>1 DEF ScriptInv, Labelled, Labels, Running
  <2> QED BY <2>1, <2>2 DEF ScriptInv, Undisturbed
<1> QED BY <1>1, Inductive, PTL

(* A create that fails has made no directory.                              *)
THEOREM FailedCreate == Spec => []FailedCreateLeavesNothing
<1>1. IInv => FailedCreateLeavesNothing
  BY DEF IInv, ScriptInv, Labelled, FailedCreateLeavesNothing
<1> QED BY <1>1, Inductive, PTL

(* A script that opts out of feature.json never changes it.                *)
THEOREM OptingOut == Spec => OptingOutIsKept
<1>1. IInv /\ [Next]_vars =>
         \A s \in Script :
            pc'[s] # pc[s] /\ (call[s].keep \/ call[s].pathsOnly \/ call[s].dry)
            => pointer' = pointer
  <2> SUFFICES ASSUME IInv, [Next]_vars, pointer' # pointer, NEW s \in Script, pc'[s] # pc[s]
               PROVE  ~call[s].keep /\ ~call[s].pathsOnly /\ ~call[s].dry
    OBVIOUS
  <2>1. PICK q \in Script : TruncatePointer(q) \/ StorePointer(q)
    BY DEF Next, vars, tree, StartCreate, TakeStamp, TakeNext, TakeRequested, SearchFromHighest,
           Search, CheckExisting, LookForFile, MakeDirectory, TruncateFile, FillFile, TouchFile,
           WriteText, PathsFromEnvironment, PathsFromPointer, ComparePointer, CheckFile,
           AnswerTasks, AnswerCheck, Kill, Write, Fail, Numbered
  <2>2. pc[q] \in {"truncate", "store"} /\ (q # s => pc'[s] = pc[s])
    BY <2>1, TypeParts DEF IInv, TruncatePointer, StorePointer, Step, Goto
  <2>3. ScriptInv(s) /\ pc[s] \in {"truncate", "store"}
    BY <2>2 DEF IInv
  <2>4. call[s] \in Commands
    BY TypeParts DEF IInv
  <2>5. call[s].dry => IsCreate(s)
    BY <2>4, CommandsAssumption DEF IsCreate
  <2> QED BY <2>3, <2>5 DEF ScriptInv, Labelled, OptedOut
<1> QED BY <1>1, Inductive, PTL DEF Spec, OptingOutIsKept

(* A script that runs alone keeps what the author wrote.                   *)
THEOREM AloneKeepsTheText == Spec => ScriptAloneKeepsTheText
<1>1. IInv /\ [Next]_vars =>
         \A d \in DOMAIN features : \A f \in Files :
            features[d][f] = "authored" /\ features'[d][f] # "authored"
            => \E s \in Script : pc'[s] # pc[s] /\ ~alone'[s]
  <2> SUFFICES ASSUME IInv, [Next]_vars, NEW d \in DOMAIN features, NEW f \in Files,
                      features[d][f] = "authored", features'[d][f] # "authored"
               PROVE  \E s \in Script : pc'[s] # pc[s] /\ ~alone'[s]
    OBVIOUS
  <2>0. FeaturesOK
    BY TypeParts DEF IInv
  <2>1. ASSUME NEW e \in DOMAIN features, NEW g \in {"spec", "plan"}, Write(e, g)
        PROVE  FALSE
    <3>1. features' = Changed(e, g, "authored") /\ g \in Files /\ "authored" \in Texts
      BY <2>1 DEF Write, Changed, Files, Texts
    <3>2. /\ features'[e][g] = "authored"
          /\ \A c \in DOMAIN features : \A h \in Files :
                c # e \/ h # g => features'[c][h] = features[c][h]
      BY <2>0, <3>1, ChangedText
    <3> QED BY <3>2
  <2>2. ASSUME NEW s \in Script, MakeDirectory(s) PROVE FALSE
    <3>1. own[s].dir \in Directories /\ features' = WithDirectory(own[s].dir)
      BY <2>2, TypeParts DEF IInv, OwnOK, OwnRecord, MakeDirectory
    <3> QED BY <2>0, <3>1, MadeDirectory
  <2>3. PICK s \in Script : TruncateFile(s) \/ FillFile(s) \/ TouchFile(s)
    BY <2>1, <2>2 DEF Next, vars, tree, StartCreate, TakeStamp, TakeNext, TakeRequested,
           SearchFromHighest, Search, CheckExisting, LookForFile, PathsFromEnvironment,
           PathsFromPointer, ComparePointer, TruncatePointer, StorePointer, CheckFile,
           AnswerTasks, AnswerCheck, Kill, Fail, Numbered
  <2>4. PICK from \in Writing, to \in {"fill", AfterFile(s)}, text \in Texts :
           /\ Step(s, from, to) /\ WriteText(s, text) /\ text # "absent"
           /\ from # to
           /\ text = "authored" \/ text = "empty" \/ text = "template"
           /\ TextOf(own[s].dir, FileOf(s)) = "authored" /\ TouchFile(s) => text = "authored"
           /\ TouchFile(s) \/ text # "authored"
    <3>0. FileOf(s) \in Files /\ AfterFile(s) \in {"persist", "done"}
      BY DEF FileOf, Files, AfterFile
    <3>1. CASE TruncateFile(s)
      BY <3>0, <3>1 DEF TruncateFile, TouchFile, Texts, Step, WriteText
    <3>2. CASE FillFile(s)
      BY <3>0, <3>2 DEF FillFile, TouchFile, Texts, Step, WriteText
    <3>3. CASE TouchFile(s)
      <4>1. TextOf(own[s].dir, FileOf(s)) \in Texts
        BY <2>0, <3>0 DEF FeaturesOK, TextRecords, TextOf, Exists, Texts, Files
      <4> DEFINE text == IF TextOf(own[s].dir, FileOf(s)) = "absent" THEN "empty"
                         ELSE TextOf(own[s].dir, FileOf(s))
      <4>2. /\ text \in Texts /\ text # "absent"
            /\ TextOf(own[s].dir, FileOf(s)) = "authored" => text = "authored"
            /\ text = "authored" \/ text = "empty" \/ text = "template"
        BY <4>1 DEF Texts
      <4>3. Step(s, "open", AfterFile(s)) /\ WriteText(s, text)
        BY <3>3 DEF TouchFile
      <4> HIDE DEF text
      <4> QED BY <3>0, <3>3, <4>2, <4>3
    <3> QED BY <2>3, <3>1, <3>2, <3>3
  <2>5. Moved(s, from, to)
    BY <2>4, Stepping DEF IInv, Labels, Ended, AfterFile
  <2>6. own[s].dir \in DOMAIN features /\ FileOf(s) \in Files
    BY <2>5 DEF Moved, IInv, ScriptInv, Located, Exists, FileOf, Files
  <2>7. /\ features'[own[s].dir][FileOf(s)] = text
        /\ \A c \in DOMAIN features : \A h \in Files :
              c # own[s].dir \/ h # FileOf(s) => features'[c][h] = features[c][h]
    <3>1. features' = Changed(own[s].dir, FileOf(s), text)
      BY <2>4 DEF WriteText, Changed
    <3> QED BY <2>0, <2>4, <2>6, <3>1, ChangedText
  <2>8. d = own[s].dir /\ f = FileOf(s)
    BY <2>7
  <2>9. TextOf(own[s].dir, FileOf(s)) = "authored"
    BY <2>8 DEF TextOf, Exists
  <2>10. ~alone[s]
    BY <2>5, <2>9 DEF Moved, IInv, ScriptInv, Undisturbed
  <2>11. pc'[s] # pc[s] /\ ~alone'[s]
    BY <2>4, <2>5, <2>10 DEF Moved
  <2> QED BY <2>11
<1> QED BY <1>1, Inductive, PTL DEF Spec, ScriptAloneKeepsTheText, Files

(* A create that ran alone leaves its directory in feature.json.           *)
THEOREM CreateIsCurrent == Spec => CreateMakesItsFeatureCurrent
<1>1. IInv /\ [Next]_vars =>
         \A s \in Script :
            pc[s] # "done" /\ pc'[s] = "done" /\ Creates(s) /\ ~call[s].keep /\ alone'[s]
            => pointer' = Names(own'[s].dir)
  <2> SUFFICES ASSUME IInv, [Next]_vars, NEW s \in Script, pc[s] # "done", pc'[s] = "done",
                      Creates(s), ~call[s].keep, alone'[s]
               PROVE  pointer' = Names(own'[s].dir)
    OBVIOUS
  <2>1. \A q \in Script : \A from : \A to :
           Step(q, from, to) => q = s /\ to = "done"
    BY TypeParts DEF IInv, Step, Goto
  <2>2. IsCreate(s) /\ ~call[s].dry
    BY DEF Creates
  <2>3. ~TakeStamp(s) /\ \A q \in Script : TakeStamp(q) => q = s
    BY <2>2, TypeParts DEF IInv, TakeStamp, Goto
  <2>4. ComparePointer(s) \/ StorePointer(s)
    <3>1. ASSUME NEW q \in Script,
                 StartCreate(q) \/ TakeNext(q) \/ TakeRequested(q) \/ SearchFromHighest(q)
                 \/ Search(q) \/ CheckExisting(q)
          PROVE  FALSE
      BY <2>1, <2>2, <3>1 DEF StartCreate, TakeNext, TakeRequested, SearchFromHighest, Search,
                              CheckExisting, Fail, Numbered
    <3>2. ASSUME NEW q \in Script,
                 LookForFile(q) \/ MakeDirectory(q) \/ TruncateFile(q) \/ FillFile(q)
                 \/ TouchFile(q)
          PROVE  FALSE
      BY <2>1, <2>2, <3>2 DEF LookForFile, MakeDirectory, TruncateFile, FillFile, TouchFile,
                              AfterFile, Fail
    <3>3. ASSUME NEW q \in Script,
                 PathsFromEnvironment(q) \/ PathsFromPointer(q) \/ TruncatePointer(q)
                 \/ CheckFile(q) \/ AnswerTasks(q) \/ AnswerCheck(q) \/ Kill(q)
          PROVE  FALSE
      BY <2>1, <2>2, <3>3 DEF PathsFromEnvironment, PathsFromPointer, TruncatePointer, CheckFile,
                              AnswerTasks, AnswerCheck, Kill, Fail, IsCreate
    <3>4. ASSUME NEW q \in Script, ComparePointer(q) \/ StorePointer(q) PROVE q = s
      BY <2>1, <3>4 DEF ComparePointer, StorePointer
    <3> QED BY <2>3, <3>1, <3>2, <3>3, <3>4 DEF Next, Write, vars
  <2>5. ~OptedOut(s)
    <3>1. call[s] \in Commands
      BY TypeParts DEF IInv
    <3> QED BY <2>2, <3>1, CommandsAssumption DEF OptedOut, IsCreate
  <2>6. CASE ComparePointer(s)
    <3>1. pointer = Names(own[s].dir)
      BY <2>1, <2>5, <2>6 DEF ComparePointer
    <3> QED BY <2>6, <3>1 DEF ComparePointer, tree
  <2>7. CASE StorePointer(s)
    <3>1. Moved(s, "store", "done")
      BY <2>1, <2>7, Stepping DEF StorePointer, IInv, Ended
    <3>2. pointer = Torn
      BY <3>1 DEF Moved, IInv, ScriptInv, Undisturbed
    <3> QED BY <2>7, <3>2 DEF StorePointer
  <2> QED BY <2>4, <2>6, <2>7
<1> QED BY <1>1, Inductive, PTL DEF Spec, CreateMakesItsFeatureCurrent

-----------------------------------------------------------------------------
(* A set of natural numbers that is not empty has a smallest one.          *)
LEMMA HasSmallest ==
    ASSUME NEW S \in SUBSET Nat, S # {}
    PROVE  \E n \in S : \A m \in S : n <= m
<1> DEFINE R == {ss \in Nat \X Nat : ss[1] < ss[2]}
<1>1. IsWellFoundedOn(R, Nat)
  BY NatLessThanWellFounded DEF OpToRel
<1>2. PICK n \in S : \A m \in S : ~(<<m, n>> \in R)
  <2> HIDE DEF R
  <2> QED BY <1>1, WFMin
<1>3. ASSUME NEW m \in S PROVE n <= m
  <2>1. m \in Nat /\ n \in Nat
    OBVIOUS
  <2>2. m < n => <<m, n>> \in R
    BY <2>1
  <2> QED BY <1>2, <2>1, <2>2
<1> QED BY <1>3

(* Induction up to a bound: a set that holds 0 and, with a number below    *)
(* the bound, the next one holds every number up to it.                    *)
LEMMA UpTo ==
    ASSUME NEW M \in Nat, NEW S, 0 \in S,
           \A i \in 0..M : i \in S /\ i < M => i + 1 \in S
    PROVE  \A i \in 0..M : i \in S
<1> DEFINE out == {i \in 0..M : i \notin S}
<1> SUFFICES ASSUME out # {} PROVE FALSE
  OBVIOUS
<1>1. PICK n \in out : \A m \in out : n <= m
  <2>1. out \in SUBSET Nat
    OBVIOUS
  <2> HIDE DEF out
  <2> QED BY <2>1, HasSmallest
<1>2. n \in 1..M /\ n - 1 \in 0..M /\ n - 1 < M /\ n - 1 \notin out
  BY <1>1
<1>3. n - 1 \in S /\ (n - 1) + 1 = n
  BY <1>2
<1> QED BY <1>1, <1>2, <1>3

-----------------------------------------------------------------------------
(* The order of presets and extensions.                                    *)

(* A rank of numbers among natural numbers. *)
IsRank(rank) == /\ IsFiniteSet(DOMAIN rank) /\ DOMAIN rank \in SUBSET Nat
                /\ \A a \in DOMAIN rank : rank[a] \in Nat

First(rank, S, a) == a \in S /\ \A b \in S \ {a} : Before(rank, a, b)
Least(rank, S) == CHOOSE a \in S : \A b \in S \ {a} : Before(rank, a, b)

(* The member that RankedBy chooses ranks before all the others.           *)
LEMMA LeastIsFirst ==
    ASSUME NEW rank, IsRank(rank), NEW S \in SUBSET (DOMAIN rank), S # {}
    PROVE  First(rank, S, Least(rank, S))
<1> DEFINE ranks == {rank[a] : a \in S}
<1>1. ranks \in SUBSET Nat /\ ranks # {}
  BY DEF IsRank
<1>2. PICK r \in ranks : \A q \in ranks : r <= q
  <2> HIDE DEF ranks
  <2> QED BY <1>1, HasSmallest
<1> DEFINE lowest == {a \in S : rank[a] = r}
<1>3. lowest \in SUBSET Nat /\ lowest # {}
  BY <1>2 DEF IsRank
<1>4. PICK a \in lowest : \A b \in lowest : a <= b
  <2> HIDE DEF lowest
  <2> QED BY <1>3, HasSmallest
<1>5. ASSUME NEW b \in S \ {a} PROVE Before(rank, a, b)
  <2>1. rank[a] = r /\ a \in S /\ rank[b] \in ranks /\ rank[b] \in Nat /\ a \in Nat /\ b \in Nat
    BY <1>4 DEF IsRank
  <2>2. r <= rank[b] /\ r \in Nat
    BY <1>2, <2>1, <1>1
  <2>3. rank[b] = r => b \in lowest
    OBVIOUS
  <2>4. rank[b] = r => a < b
    BY <1>4, <2>1, <2>3
  <2> QED BY <2>1, <2>2, <2>4 DEF Before
<1>6. First(rank, S, a)
  BY <1>4, <1>5 DEF First
<1>7. \E x \in S : \A b \in S \ {x} : Before(rank, x, b)
  BY <1>6 DEF First
<1> QED BY <1>7 DEF First, Least

(* RankedBy takes the first of those that are left, one by one. *)
LEMMA RankedSteps ==
    ASSUME NEW rank, IsRank(rank)
    PROVE  \E f : /\ RankedBy(rank) = f[Cardinality(DOMAIN rank)] /\ f[0] = <<>>
                  /\ \A n \in 1..Cardinality(DOMAIN rank) :
                        f[n] = Append(f[n - 1], Least(rank, DOMAIN rank \ ToSet(f[n - 1])))
<1> DEFINE M == Cardinality(DOMAIN rank)
           Sorted(f, n) ==
             f = [i \in 0..n |->
                    IF i = 0 THEN <<>>
                    ELSE Append(f[i - 1], Least(rank, DOMAIN rank \ ToSet(f[i - 1])))]
           some == {n \in Nat : \E f : Sorted(f, n)}
           sorted == CHOOSE f : Sorted(f, M)
<1>1. M \in Nat
  BY FS_CardinalityType DEF IsRank
<1>2. 0 \in some
  <2>1. Sorted([i \in 0..0 |-> <<>>], 0)
    OBVIOUS
  <2> QED BY <2>1
<1>3. ASSUME NEW n \in 0..M, n \in some, n < M PROVE n + 1 \in some
  <2>1. PICK f : Sorted(f, n)
    BY <1>3
  <2> DEFINE g == [i \in 0..(n + 1) |->
                      IF i <= n THEN f[i]
                      ELSE Append(f[n], Least(rank, DOMAIN rank \ ToSet(f[n])))]
  <2> HIDE DEF M
  <2>2. ASSUME NEW i \in 0..(n + 1)
        PROVE  g[i] = IF i = 0 THEN <<>>
                      ELSE Append(g[i - 1], Least(rank, DOMAIN rank \ ToSet(g[i - 1])))
    <3>1. CASE i = 0
      BY <2>1, <3>1
    <3>2. CASE i \in 1..n
      <4>1. g[i] = f[i] /\ g[i - 1] = f[i - 1] /\ i \in 0..n /\ i # 0
        BY <3>2
      <4>2. f[i] = Append(f[i - 1], Least(rank, DOMAIN rank \ ToSet(f[i - 1])))
        BY <2>1, <4>1
      <4> QED BY <4>1, <4>2
    <3>3. CASE i = n + 1
      <4>1. /\ g[i] = Append(f[n], Least(rank, DOMAIN rank \ ToSet(f[n])))
            /\ g[i - 1] = f[n] /\ i # 0
        BY <1>1, <3>3
      <4> QED BY <4>1
    <3> QED BY <3>1, <3>2, <3>3
  <2>3. Sorted(g, n + 1)
    BY <2>2
  <2> HIDE DEF g, Sorted
  <2> QED BY <1>1, <2>3
<1>4. M \in some
  <2> HIDE DEF some, M
  <2>1. \A i \in 0..M : i \in some
    BY <1>1, <1>2, <1>3, UpTo
  <2> QED BY <1>1, <2>1
<1>5. Sorted(sorted, M)
  BY <1>4
<1>6. RankedBy(rank) = sorted[M]
  BY DEF RankedBy, Least
<1> HIDE DEF sorted, M
<1>7. sorted[0] = <<>>
  BY <1>1, <1>5
<1>8. ASSUME NEW i \in 1..M
      PROVE  sorted[i] = Append(sorted[i - 1], Least(rank, DOMAIN rank \ ToSet(sorted[i - 1])))
  <2>1. i \in 0..M /\ i # 0
    BY <1>1
  <2> QED BY <1>5, <2>1
<1> QED BY <1>6, <1>7, <1>8 DEF M

(* What one more element makes of a sequence and of its set.               *)
LEMMA AppendedSet ==
    ASSUME NEW T, NEW s \in Seq(T), NEW x \in T
    PROVE  /\ Append(s, x) \in Seq(T) /\ Len(Append(s, x)) = Len(s) + 1
           /\ ToSet(Append(s, x)) = ToSet(s) \cup {x}
           /\ Append(s, x)[Len(s) + 1] = x
           /\ \A i \in 1..Len(s) : Append(s, x)[i] = s[i]
<1>1. /\ Append(s, x) \in Seq(T) /\ Len(Append(s, x)) = Len(s) + 1
      /\ Append(s, x)[Len(s) + 1] = x /\ \A i \in 1..Len(s) : Append(s, x)[i] = s[i]
  OBVIOUS
<1> DEFINE a == Append(s, x)
<1>2. a \in Seq(T) /\ Len(a) = Len(s) + 1 /\ a[Len(s) + 1] = x /\ \A i \in 1..Len(s) : a[i] = s[i]
  BY <1>1
<1> HIDE DEF a
<1>3. /\ ToSet(a) = {a[i] : i \in 1..Len(a)} /\ ToSet(s) = {s[i] : i \in 1..Len(s)}
      /\ Len(s) \in Nat
  BY <1>2 DEF ToSet
<1>4. ASSUME NEW y \in ToSet(a) PROVE y \in ToSet(s) \cup {x}
  <2>1. PICK i \in 1..Len(a) : y = a[i]
    BY <1>3
  <2>2. i \in 1..Len(s) \/ i = Len(s) + 1
    BY <1>2, <1>3, <2>1
  <2> QED BY <1>2, <1>3, <2>1, <2>2
<1>5. ASSUME NEW y \in ToSet(s) PROVE y \in ToSet(a)
  <2>1. PICK i \in 1..Len(s) : y = s[i]
    BY <1>3
  <2> QED BY <1>2, <1>3, <2>1
<1>6. x \in ToSet(a)
  BY <1>2, <1>3
<1> QED BY <1>1, <1>4, <1>5, <1>6 DEF a

(* The order of the stack has every member once, each before those that    *)
(* rank after it.                                                          *)
IsOrder(s, rank) ==
    /\ s \in Seq(DOMAIN rank) /\ ToSet(s) = DOMAIN rank
    /\ \A i \in 1..Len(s) : \A j \in 1..Len(s) : i < j => Before(rank, s[i], s[j])

Partial(s, rank, n) ==
    /\ s \in Seq(DOMAIN rank) /\ Len(s) = n
    /\ IsFiniteSet(ToSet(s)) /\ Cardinality(ToSet(s)) = n
    /\ \A i \in 1..n : \A b \in DOMAIN rank \ ToSet(s) : Before(rank, s[i], b)
    /\ \A i \in 1..n : \A j \in 1..n : i < j => Before(rank, s[i], s[j])

(* One turn of RankedBy: the next is the least of those that are left.     *)
LEMMA PartialGrows ==
    ASSUME NEW rank, IsRank(rank), NEW n \in Nat, n < Cardinality(DOMAIN rank),
           NEW s, Partial(s, rank, n)
    PROVE  Partial(Append(s, Least(rank, DOMAIN rank \ ToSet(s))), rank, n + 1)
<1> DEFINE rest == DOMAIN rank \ ToSet(s)
<1>1. s \in Seq(DOMAIN rank) /\ Len(s) = n /\ IsFiniteSet(ToSet(s)) /\ Cardinality(ToSet(s)) = n
  BY DEF Partial
<1>2. rest # {}
  <2>1. ASSUME rest = {} PROVE FALSE
    <3>1. DOMAIN rank \in SUBSET ToSet(s)
      BY <2>1
    <3>2. Cardinality(DOMAIN rank) <= n
      BY <1>1, <3>1, FS_Subset
    <3>3. Cardinality(DOMAIN rank) \in Nat
      BY FS_CardinalityType DEF IsRank
    <3> QED BY <3>2, <3>3
  <2> QED BY <2>1
<1>3. PICK x : x = Least(rank, rest)
  OBVIOUS
<1>4. First(rank, rest, x)
  <2> HIDE DEF rest
  <2>1. rest \in SUBSET (DOMAIN rank)
    BY DEF rest
  <2> QED BY <1>2, <1>3, <2>1, LeastIsFirst
<1>5. x \in DOMAIN rank /\ x \notin ToSet(s) /\ \A b \in rest \ {x} : Before(rank, x, b)
  BY <1>4 DEF First
<1>6. PICK a : a = Append(s, x)
  OBVIOUS
<1>7. /\ a \in Seq(DOMAIN rank) /\ Len(a) = n + 1
      /\ ToSet(a) = ToSet(s) \cup {x}
      /\ a[n + 1] = x /\ \A i \in 1..n : a[i] = s[i]
  BY <1>1, <1>5, <1>6, AppendedSet
<1>8. IsFiniteSet(ToSet(a)) /\ Cardinality(ToSet(a)) = n + 1
  <2>1. /\ IsFiniteSet(ToSet(s) \cup {x})
        /\ Cardinality(ToSet(s) \cup {x}) = IF x \in ToSet(s) THEN Cardinality(ToSet(s))
                                            ELSE Cardinality(ToSet(s)) + 1
    BY <1>1, FS_AddElement
  <2> QED BY <1>1, <1>5, <1>7, <2>1
<1>9. ASSUME NEW i \in 1..(n + 1), NEW b \in DOMAIN rank \ ToSet(a) PROVE Before(rank, a[i], b)
  <2>1. b \in rest \ {x} /\ b \in DOMAIN rank \ ToSet(s)
    BY <1>7
  <2>2. CASE i \in 1..n
    <3>1. Before(rank, s[i], b)
      BY <2>1, <2>2 DEF Partial
    <3> QED BY <1>7, <2>2, <3>1
  <2>3. CASE i = n + 1
    BY <1>5, <1>7, <2>1, <2>3
  <2> QED BY <2>2, <2>3
<1>10. ASSUME NEW i \in 1..(n + 1), NEW j \in 1..(n + 1), i < j PROVE Before(rank, a[i], a[j])
  <2>1. i \in 1..n
    BY <1>10
  <2>2. CASE j \in 1..n
    <3>1. Before(rank, s[i], s[j])
      BY <1>10, <2>1, <2>2 DEF Partial
    <3> QED BY <1>7, <2>1, <2>2, <3>1
  <2>3. CASE j = n + 1
    <3>1. x \in DOMAIN rank \ ToSet(s)
      BY <1>5
    <3>2. Before(rank, s[i], x)
      BY <2>1, <3>1 DEF Partial
    <3> QED BY <1>7, <2>1, <2>3, <3>2
  <2> QED BY <2>2, <2>3
<1>11. Partial(a, rank, n + 1)
  BY <1>7, <1>8, <1>9, <1>10 DEF Partial
<1> QED BY <1>3, <1>6, <1>11

(* The presets and the extensions come in the order of their ranks and,    *)
(* within a rank, of their names: each enabled one once, however many      *)
(* there are.                                                              *)
THEOREM RankedIsOrder ==
    ASSUME NEW rank, IsRank(rank)
    PROVE  IsOrder(RankedBy(rank), rank)
<1> DEFINE M == Cardinality(DOMAIN rank)
<1>1. M \in Nat
  BY FS_CardinalityType DEF IsRank
<1>2. PICK f : /\ RankedBy(rank) = f[M] /\ f[0] = <<>>
               /\ \A n \in 1..M :
                     f[n] = Append(f[n - 1], Least(rank, DOMAIN rank \ ToSet(f[n - 1])))
  BY RankedSteps
<1> DEFINE good == {n \in Nat : Partial(f[n], rank, n)}
<1>3. 0 \in good
  <2>1. ToSet(<<>>) = {}
    BY DEF ToSet
  <2>2. Partial(<<>>, rank, 0)
    BY <2>1, FS_EmptySet DEF Partial
  <2> QED BY <1>2, <2>2
<1>4. ASSUME NEW n \in 0..M, n \in good, n < M PROVE n + 1 \in good
  <2> HIDE DEF M
  <2>1. n + 1 \in 1..M /\ (n + 1) - 1 = n /\ n \in Nat /\ n + 1 \in Nat
    BY <1>1, <1>4
  <2>2. Partial(f[n], rank, n)
    BY <1>4
  <2>3. f[n + 1] = Append(f[n], Least(rank, DOMAIN rank \ ToSet(f[n])))
    BY <1>2, <2>1
  <2>4. Partial(f[n + 1], rank, n + 1)
    BY <1>4, <2>1, <2>2, <2>3, PartialGrows DEF M
  <2> QED BY <2>1, <2>4
<1>5. Partial(f[M], rank, M)
  <2> HIDE DEF good, M
  <2>1. \A n \in 0..M : n \in good
    BY <1>1, <1>3, <1>4, UpTo
  <2>2. M \in good
    BY <1>1, <2>1
  <2> QED BY <2>2 DEF good
<1>6. PICK s : s = f[M]
  OBVIOUS
<1>7. Partial(s, rank, M)
  BY <1>5, <1>6
<1>8. s \in Seq(DOMAIN rank) /\ Len(s) = M /\ Cardinality(ToSet(s)) = M
  BY <1>7 DEF Partial
<1>9. ToSet(s) \in SUBSET (DOMAIN rank)
  BY <1>8 DEF ToSet
<1>10. ToSet(s) = DOMAIN rank
  BY <1>8, <1>9, FS_Subset DEF IsRank
<1>11. IsOrder(s, rank)
  <2> HIDE DEF M
  <2> QED BY <1>7, <1>8, <1>10 DEF IsOrder, Partial
<1> QED BY <1>2, <1>6, <1>11

IsTree(t) ==
    /\ IsListing(t.presets) /\ IsListing(t.extensions)
    /\ \A p \in DOMAIN t.presets :
          LET entries == t.presets[p].manifest.entries
          IN  entries # <<>> => entries[1].strategy \in Strategies

(* normalize_priority returns a number.                                    *)
LEMMA NormalIsNat ==
    ASSUME NEW v \in Nat
    PROVE  NormalizePriority(v) \in Nat
BY DEF NormalizePriority

(* A subset of the domain of a listing, ranked by natural numbers, is put  *)
(* in order.                                                               *)
LEMMA OrderOfSome ==
    ASSUME NEW items, IsListing(items), NEW rank,
           DOMAIN rank \in SUBSET DOMAIN items, \A a \in DOMAIN rank : rank[a] \in Nat
    PROVE  IsOrder(RankedBy(rank), rank) /\ RankedBy(rank) \in Seq(DOMAIN items)
<1>1. IsRank(rank)
  <2>1. IsFiniteSet(DOMAIN items) /\ DOMAIN items \in SUBSET Nat
    BY DEF IsListing
  <2>2. IsFiniteSet(DOMAIN rank)
    BY <2>1, FS_Subset
  <2> QED BY <2>1, <2>2 DEF IsRank
<1>2. IsOrder(RankedBy(rank), rank)
  BY <1>1, RankedIsOrder
<1>3. PICK s : s = RankedBy(rank)
  OBVIOUS
<1>4. s \in Seq(DOMAIN rank)
  BY <1>2, <1>3 DEF IsOrder
<1>5. s \in Seq(DOMAIN items)
  <2>1. DOMAIN rank \in SUBSET DOMAIN items
    OBVIOUS
  <2> QED BY <1>4, <2>1
<1> QED BY <1>2, <1>3, <1>5

(* The ranked presets are presets.                                         *)
LEMMA PresetsOrder ==
    ASSUME NEW t, IsTree(t)
    PROVE  SortedPresetIds(t) \in Seq(DOMAIN t.presets)
<1> DEFINE enabled == {p \in DOMAIN t.presets : t.presets[p].listed /\ t.presets[p].enabled}
           present == {p \in DOMAIN t.presets : t.presets[p].there}
           byPriority == [p \in enabled |-> NormalizePriority(t.presets[p].priority)]
           byName == [p \in present |-> p]
<1>1. IsListing(t.presets) /\ DOMAIN t.presets \in SUBSET Nat
      /\ \A p \in DOMAIN t.presets : t.presets[p].priority \in Nat
  BY DEF IsTree, IsListing
<1>2. DOMAIN byPriority \in SUBSET DOMAIN t.presets
      /\ \A a \in DOMAIN byPriority : byPriority[a] \in Nat
  BY <1>1, NormalIsNat
<1>3. DOMAIN byName \in SUBSET DOMAIN t.presets /\ \A a \in DOMAIN byName : byName[a] \in Nat
  BY <1>1
<1>4. SortedPresetIds(t) = IF t.presetRegistry = "read" THEN RankedBy(byPriority)
                           ELSE RankedBy(byName)
  BY DEF SortedPresetIds
<1> HIDE DEF byPriority, byName
<1>5. RankedBy(byPriority) \in Seq(DOMAIN t.presets) /\ RankedBy(byName) \in Seq(DOMAIN t.presets)
  BY <1>1, <1>2, <1>3, OrderOfSome
<1> QED BY <1>4, <1>5

(* The ranked extensions are extensions.                                   *)
LEMMA ExtensionsOrder ==
    ASSUME NEW t, IsTree(t)
    PROVE  SortedExtensionIds(t) \in Seq(DOMAIN t.extensions)
<1> DEFINE listed == {e \in DOMAIN t.extensions :
                        t.extensionRegistry = "read" /\ t.extensions[e].listed}
           ranked == {e \in listed : t.extensions[e].enabled}
                     \cup {e \in DOMAIN t.extensions \ listed : t.extensions[e].there}
           rank == [e \in ranked |->
                      IF e \in listed THEN NormalizePriority(t.extensions[e].priority) ELSE 10]
<1>1. IsListing(t.extensions) /\ \A e \in DOMAIN t.extensions : t.extensions[e].priority \in Nat
  BY DEF IsTree, IsListing
<1>2. DOMAIN rank \in SUBSET DOMAIN t.extensions
  OBVIOUS
<1>3. \A a \in DOMAIN rank : rank[a] \in Nat
  BY <1>1, NormalIsNat
<1>4. SortedExtensionIds(t) = RankedBy(rank)
  BY DEF SortedExtensionIds
<1> HIDE DEF rank
<1> QED BY <1>1, <1>2, <1>3, <1>4, OrderOfSome

-----------------------------------------------------------------------------
(* What the stack says, place by place.                                    *)

LEMMA TextSteps ==
    ASSUME NEW t, Len(Places(t)) \in Nat
    PROVE  \E f : /\ TextFrom(t) = f[Len(Places(t))] /\ f[0] = Nothing
                  /\ \A n \in 1..Len(Places(t)) :
                        f[n] = On(Places(t)[Len(Places(t)) + 1 - n], f[n - 1])
<1> DEFINE p == Places(t)
           M == Len(p)
           Lowest(f, n) ==
             f = [i \in 0..n |-> IF i = 0 THEN Nothing ELSE On(p[M + 1 - i], f[i - 1])]
           some == {n \in Nat : \E f : Lowest(f, n)}
           lowest == CHOOSE f : Lowest(f, M)
<1>1. M \in Nat
  OBVIOUS
<1>2. 0 \in some
  <2>1. Lowest([i \in 0..0 |-> Nothing], 0)
    OBVIOUS
  <2> QED BY <2>1
<1>3. ASSUME NEW n \in 0..M, n \in some, n < M PROVE n + 1 \in some
  <2> HIDE DEF p, M
  <2>1. PICK f : Lowest(f, n)
    BY <1>3
  <2> DEFINE g == [i \in 0..(n + 1) |-> IF i <= n THEN f[i] ELSE On(p[M + 1 - i], f[n])]
  <2>2. ASSUME NEW i \in 0..(n + 1)
        PROVE  g[i] = IF i = 0 THEN Nothing ELSE On(p[M + 1 - i], g[i - 1])
    <3>1. CASE i = 0
      BY <2>1, <3>1
    <3>2. CASE i \in 1..n
      <4>1. g[i] = f[i] /\ g[i - 1] = f[i - 1] /\ i \in 0..n /\ i # 0
        BY <3>2
      <4>2. f[i] = On(p[M + 1 - i], f[i - 1])
        BY <2>1, <4>1
      <4> QED BY <4>1, <4>2
    <3>3. CASE i = n + 1
      <4>1. g[i] = On(p[M + 1 - i], f[n]) /\ g[i - 1] = f[n] /\ i # 0
        BY <1>1, <3>3
      <4> QED BY <4>1
    <3> QED BY <3>1, <3>2, <3>3
  <2>3. Lowest(g, n + 1)
    BY <2>2
  <2> HIDE DEF g, Lowest
  <2> QED BY <1>1, <2>3
<1>4. M \in some
  <2> HIDE DEF some, M
  <2>1. \A i \in 0..M : i \in some
    BY <1>1, <1>2, <1>3, UpTo
  <2> QED BY <1>1, <2>1
<1>5. Lowest(lowest, M)
  BY <1>4
<1>6. TextFrom(t) = lowest[M]
  BY DEF TextFrom
<1> HIDE DEF lowest, M, p
<1>7. lowest[0] = Nothing
  BY <1>1, <1>5
<1>8. ASSUME NEW i \in 1..M PROVE lowest[i] = On(p[M + 1 - i], lowest[i - 1])
  <2>1. i \in 0..M /\ i # 0
    BY <1>1
  <2> QED BY <1>5, <2>1
<1> QED BY <1>6, <1>7, <1>8 DEF M, p

One(x) == <<x>>
Then(a, b) == a \o b

(* A sequence of one.                                                      *)
LEMMA OneIs ==
    ASSUME NEW T, NEW x \in T
    PROVE  One(x) \in Seq(T) /\ Len(One(x)) = 1 /\ One(x)[1] = x
BY DEF One

AreParts(s, a, b, T) ==
    /\ s \in Seq(T) /\ Len(s) = Len(a) + Len(b) /\ Len(a) \in Nat /\ Len(b) \in Nat
    /\ \A i \in 1..Len(a) : s[i] = a[i]
    /\ \A i \in 1..Len(b) : s[Len(a) + i] = b[i]

(* One sequence after another.                                             *)
LEMMA ThenIs ==
    ASSUME NEW T, NEW a \in Seq(T), NEW b \in Seq(T)
    PROVE  AreParts(Then(a, b), a, b, T)
BY DEF Then, AreParts

(* Four sequences one after the other, the first and the last of one       *)
(* element.                                                                *)
Joined(x, b, c, y) == <<x>> \o b \o c \o <<y>>

AreJoined(q, x, b, c, y) ==
    /\ Len(q) = 2 + Len(b) + Len(c) /\ q[1] = x
    /\ \A i \in 1..Len(b) : q[1 + i] = b[i]
    /\ \A i \in 1..Len(c) : q[1 + Len(b) + i] = c[i]
    /\ q[2 + Len(b) + Len(c)] = y

(* Where the elements of the four sequences are in the whole.              *)
LEMMA JoinedIs ==
    ASSUME NEW T, NEW x \in T, NEW y \in T, NEW b \in Seq(T), NEW c \in Seq(T)
    PROVE  AreJoined(Joined(x, b, c, y), x, b, c, y)
<1>1. PICK h : h = One(x)
  OBVIOUS
<1>2. PICK l : l = One(y)
  OBVIOUS
<1>3. /\ h \in Seq(T) /\ Len(h) = 1 /\ h[1] = x
      /\ l \in Seq(T) /\ Len(l) = 1 /\ l[1] = y
  BY <1>1, <1>2, OneIs
<1>4. PICK s : s = Then(h, b)
  OBVIOUS
<1>15. AreParts(s, h, b, T)
  BY <1>3, <1>4, ThenIs, Zenon
<1>5. /\ s \in Seq(T) /\ Len(s) = Len(h) + Len(b) /\ Len(b) \in Nat
      /\ (\A i \in 1..Len(h) : s[i] = h[i]) /\ \A i \in 1..Len(b) : s[Len(h) + i] = b[i]
  BY <1>15 DEF AreParts
<1>6. PICK r : r = Then(s, c)
  OBVIOUS
<1>16. AreParts(r, s, c, T)
  BY <1>5, <1>6, ThenIs, Zenon
<1>7. /\ r \in Seq(T) /\ Len(r) = Len(s) + Len(c) /\ Len(c) \in Nat
      /\ (\A i \in 1..Len(s) : r[i] = s[i]) /\ \A i \in 1..Len(c) : r[Len(s) + i] = c[i]
  BY <1>16 DEF AreParts
<1>8. PICK q : q = Then(r, l)
  OBVIOUS
<1>17. AreParts(q, r, l, T)
  BY <1>3, <1>7, <1>8, ThenIs, Zenon
<1>9. /\ Len(q) = Len(r) + Len(l)
      /\ (\A i \in 1..Len(r) : q[i] = r[i]) /\ \A i \in 1..Len(l) : q[Len(r) + i] = l[i]
  BY <1>17 DEF AreParts
<1>10. Joined(x, b, c, y) = q
  BY <1>1, <1>2, <1>4, <1>6, <1>8, Zenon DEF Joined, Then, One
<1>11. q[1] = x
  <2>1. 1 \in 1..Len(s) /\ 1 \in 1..Len(r) /\ 1 \in 1..Len(h)
    BY <1>3, <1>5, <1>7
  <2>2. q[1] = r[1]
    BY <1>9, <2>1
  <2>3. r[1] = s[1]
    BY <1>7, <2>1
  <2>4. s[1] = h[1]
    BY <1>5, <2>1
  <2> QED BY <1>3, <2>2, <2>3, <2>4
<1>12. ASSUME NEW i \in 1..Len(b) PROVE q[1 + i] = b[i]
  <2>1. 1 + i \in 1..Len(s) /\ 1 + i \in 1..Len(r) /\ Len(h) + i = 1 + i
    BY <1>3, <1>5, <1>7
  <2>2. s[Len(h) + i] = b[i]
    BY <1>5
  <2>3. q[1 + i] = r[1 + i]
    BY <1>9, <2>1
  <2>4. r[1 + i] = s[1 + i]
    BY <1>7, <2>1
  <2> QED BY <2>1, <2>2, <2>3, <2>4
<1>13. ASSUME NEW i \in 1..Len(c) PROVE q[1 + Len(b) + i] = c[i]
  <2>1. Len(s) + i \in 1..Len(r) /\ Len(s) + i = 1 + Len(b) + i
    BY <1>3, <1>5, <1>7
  <2>2. q[Len(s) + i] = r[Len(s) + i] /\ r[Len(s) + i] = c[i]
    BY <1>7, <1>9, <2>1
  <2> QED BY <2>1, <2>2
<1>14. Len(q) = 2 + Len(b) + Len(c) /\ q[2 + Len(b) + Len(c)] = y
  <2>1. Len(r) + 1 = 2 + Len(b) + Len(c) /\ 1 \in 1..Len(l)
    BY <1>3, <1>5, <1>7
  <2> QED BY <1>3, <1>9, <2>1
<1> QED BY <1>10, <1>11, <1>12, <1>13, <1>14 DEF AreJoined

(* The stack as its readers go through it: f[i] is the text below the i-th *)
(* preset, g[j] the text below the j-th extension.                         *)
PresetAt(t, i) == PresetTemplateLayer(t, SortedPresetIds(t)[i])
ExtensionAt(t, j) == LayerOf(t.extensions[SortedExtensionIds(t)[j]].plain)

IsStack(t, f, g) ==
    /\ TextFrom(t) = On(LayerOf(t.override), f[0])
    /\ \A i \in 1..Len(SortedPresetIds(t)) : f[i - 1] = On(PresetAt(t, i), f[i])
    /\ t.extensionRegistry = "unreadable" => f[Len(SortedPresetIds(t))] = Refused
    /\ t.extensionRegistry # "unreadable" =>
         /\ f[Len(SortedPresetIds(t))] = g[0]
         /\ \A j \in 1..Len(SortedExtensionIds(t)) : g[j - 1] = On(ExtensionAt(t, j), g[j])
         /\ g[Len(SortedExtensionIds(t))] = On(LayerOf(t.core), Nothing)

(* A sequence that has a value for every element of another.               *)
LEMMA MappedSeq ==
    ASSUME NEW D, NEW s \in Seq(D), NEW T, NEW v, \A i \in 1..Len(s) : v[i] \in T,
           v = [i \in DOMAIN s |-> v[i]]
    PROVE  v \in Seq(T) /\ Len(v) = Len(s)
<1>1. DOMAIN s = 1..Len(s) /\ Len(s) \in Nat
  OBVIOUS
<1>2. v \in [1..Len(s) -> T]
  BY <1>1
<1> QED BY <1>1, <1>2

(* A manifest that cannot be used refuses, whatever lies below.            *)
LEMMA BadLayerRefuses ==
    ASSUME NEW below
    PROVE  On(BadLayer, below) = Refused
<1>1. BadLayer # NoLayer
  BY DEF BadLayer, NoLayer
<1>2. BadLayer.kind = "error"
  BY DEF BadLayer
<1> QED BY <1>1, <1>2 DEF On

Middle(t) ==
    IF t.extensionRegistry = "unreadable" THEN <<BadLayer>>
    ELSE [j \in DOMAIN SortedExtensionIds(t) |-> ExtensionAt(t, j)]

ArePlaces(t, n, m, p, c) ==
    /\ n = Len(SortedPresetIds(t)) /\ n \in Nat /\ m \in Nat
    /\ p = Places(t) /\ Len(p) = 2 + n + m
    /\ p[1] = LayerOf(t.override)
    /\ \A i \in 1..n : p[1 + i] = PresetAt(t, i)
    /\ \A j \in 1..m : p[1 + n + j] = c[j]
    /\ p[2 + n + m] = LayerOf(t.core)
    /\ t.extensionRegistry = "unreadable" => m = 1 /\ c[1] = BadLayer
    /\ t.extensionRegistry # "unreadable" =>
         m = Len(SortedExtensionIds(t)) /\ \A j \in 1..m : c[j] = ExtensionAt(t, j)

(* The stack: the override, the presets, the extensions or the registry    *)
(* that cannot be read, the core templates.                                *)
LEMMA PlacesAre ==
    ASSUME NEW t, IsTree(t)
    PROVE  \E n, m, p, c : ArePlaces(t, n, m, p, c)
<1> DEFINE T == {LayerOf(t.override), LayerOf(t.core), BadLayer}
                \cup {PresetTemplateLayer(t, p) : p \in DOMAIN t.presets}
                \cup {LayerOf(t.extensions[e].plain) : e \in DOMAIN t.extensions}
           presets == [i \in DOMAIN SortedPresetIds(t) |-> PresetAt(t, i)]
<1>1. PICK P \in Seq(DOMAIN t.presets) : P = SortedPresetIds(t)
  BY PresetsOrder
<1>2. PICK E \in Seq(DOMAIN t.extensions) : E = SortedExtensionIds(t)
  BY ExtensionsOrder
<1>3. PICK b : b = presets
  OBVIOUS
<1>4. b \in Seq(T) /\ Len(b) = Len(P) /\ \A i \in 1..Len(P) : b[i] = PresetAt(t, i)
  <2>1. DOMAIN P = 1..Len(P)
    OBVIOUS
  <2>2. ASSUME NEW i \in 1..Len(P) PROVE b[i] = PresetAt(t, i) /\ b[i] \in T
    <3>1. b[i] = PresetAt(t, i) /\ P[i] \in DOMAIN t.presets
      BY <1>1, <1>3, <2>1
    <3> QED BY <1>1, <3>1 DEF PresetAt
  <2>3. b = [i \in DOMAIN P |-> b[i]]
    BY <1>1, <1>3
  <2> HIDE DEF T
  <2>4. b \in Seq(T) /\ Len(b) = Len(P)
    BY <2>2, <2>3, MappedSeq
  <2> QED BY <2>2, <2>4
<1>5. PICK c : c = Middle(t)
  OBVIOUS
<1>6. /\ c \in Seq(T)
      /\ t.extensionRegistry = "unreadable" => Len(c) = 1 /\ c[1] = BadLayer
      /\ t.extensionRegistry # "unreadable" =>
           Len(c) = Len(E) /\ \A j \in 1..Len(c) : c[j] = ExtensionAt(t, j)
  <2>1. CASE t.extensionRegistry = "unreadable"
    <3>1. c = One(BadLayer) /\ BadLayer \in T
      BY <1>5, <2>1 DEF Middle, One
    <3> HIDE DEF T
    <3> QED BY <2>1, <3>1, OneIs
  <2>2. CASE t.extensionRegistry # "unreadable"
    <3>1. DOMAIN E = 1..Len(E) /\ c = [j \in DOMAIN E |-> ExtensionAt(t, j)]
      BY <1>2, <1>5, <2>2 DEF Middle
    <3>2. ASSUME NEW j \in 1..Len(E) PROVE c[j] = ExtensionAt(t, j) /\ c[j] \in T
      <4>1. c[j] = ExtensionAt(t, j) /\ E[j] \in DOMAIN t.extensions
        BY <3>1
      <4> QED BY <1>2, <4>1 DEF ExtensionAt
    <3>3. c = [j \in DOMAIN E |-> c[j]]
      BY <3>1
    <3> HIDE DEF T
    <3>4. c \in Seq(T) /\ Len(c) = Len(E)
      BY <3>2, <3>3, MappedSeq
    <3> QED BY <2>2, <3>2, <3>4
  <2> QED BY <2>1, <2>2
<1>7. PICK x : x = LayerOf(t.override)
  OBVIOUS
<1>8. PICK y : y = LayerOf(t.core)
  OBVIOUS
<1>9. x \in T /\ y \in T
  BY <1>7, <1>8
<1>10. Places(t) = Joined(x, b, c, y)
  BY <1>3, <1>5, <1>7, <1>8, Zenon DEF Places, Joined, Middle, PresetAt, ExtensionAt
<1> HIDE DEF T, presets
<1>11. PICK p : p = Joined(x, b, c, y)
  OBVIOUS
<1>18. AreJoined(p, x, b, c, y)
  BY <1>4, <1>6, <1>9, <1>11, JoinedIs, Zenon
<1>12. /\ Len(p) = 2 + Len(b) + Len(c) /\ p[1] = x
       /\ \A i \in 1..Len(b) : p[1 + i] = b[i]
       /\ \A i \in 1..Len(c) : p[1 + Len(b) + i] = c[i]
       /\ p[2 + Len(b) + Len(c)] = y
  BY <1>18 DEF AreJoined
<1>13. Len(b) \in Nat /\ Len(c) \in Nat
  BY <1>4, <1>6
<1>14. ASSUME NEW i \in 1..Len(b) PROVE p[1 + i] = PresetAt(t, i)
  BY <1>4, <1>12
<1>15. Len(b) = Len(SortedPresetIds(t)) /\ p = Places(t) /\ p[1] = LayerOf(t.override)
       /\ p[2 + Len(b) + Len(c)] = LayerOf(t.core)
  BY <1>1, <1>4, <1>7, <1>8, <1>10, <1>11, <1>12
<1>16. t.extensionRegistry # "unreadable" => Len(c) = Len(SortedExtensionIds(t))
  BY <1>2, <1>6
<1>17. ArePlaces(t, Len(b), Len(c), p, c)
  BY <1>6, <1>12, <1>13, <1>14, <1>15, <1>16 DEF ArePlaces
<1> QED BY <1>17

(* What the stack says, cut at its presets (f) and at its extensions (g).  *)
LEMMA StackSteps ==
    ASSUME NEW t, IsTree(t)
    PROVE  \E f, g : IsStack(t, f, g)
<1>0. PICK n, m, p, c : ArePlaces(t, n, m, p, c)
  BY PlacesAre
<1>1. /\ n \in Nat /\ m \in Nat
      /\ n = Len(SortedPresetIds(t)) /\ p = Places(t) /\ Len(p) = 2 + n + m
      /\ p[1] = LayerOf(t.override)
      /\ \A i \in 1..n : p[1 + i] = PresetAt(t, i)
      /\ \A j \in 1..m : p[1 + n + j] = c[j]
      /\ p[2 + n + m] = LayerOf(t.core)
      /\ t.extensionRegistry = "unreadable" => m = 1 /\ c[1] = BadLayer
      /\ t.extensionRegistry # "unreadable" =>
           m = Len(SortedExtensionIds(t)) /\ \A j \in 1..m : c[j] = ExtensionAt(t, j)
  BY <1>0 DEF ArePlaces
<1> DEFINE M == 2 + n + m
<1>2. PICK u : /\ TextFrom(t) = u[M] /\ u[0] = Nothing
               /\ \A k \in 1..M : u[k] = On(p[M + 1 - k], u[k - 1])
  <2>1. Len(Places(t)) = M /\ M \in Nat
    BY <1>1
  <2> HIDE DEF M
  <2>2. \E u : /\ TextFrom(t) = u[Len(Places(t))] /\ u[0] = Nothing
               /\ \A k \in 1..Len(Places(t)) :
                     u[k] = On(Places(t)[Len(Places(t)) + 1 - k], u[k - 1])
    BY <2>1, TextSteps
  <2> QED BY <1>1, <2>1, <2>2
<1> DEFINE f == [i \in 0..n |-> u[M - 1 - i]]
           g == [j \in 0..m |-> u[1 + m - j]]
<1>3. TextFrom(t) = On(LayerOf(t.override), f[0])
  <2>1. M \in 1..M /\ M + 1 - M = 1 /\ f[0] = u[M - 1]
    BY <1>1
  <2> QED BY <1>1, <1>2, <2>1
<1>4. ASSUME NEW i \in 1..n PROVE f[i - 1] = On(PresetAt(t, i), f[i])
  <2>1. /\ M - i \in 1..M /\ M + 1 - (M - i) = 1 + i
        /\ f[i - 1] = u[M - i] /\ f[i] = u[(M - i) - 1]
    BY <1>1
  <2>2. u[M - i] = On(p[1 + i], u[(M - i) - 1])
    BY <1>2, <2>1
  <2> QED BY <1>1, <2>1, <2>2
<1>5. ASSUME t.extensionRegistry = "unreadable" PROVE f[n] = Refused
  <2>1. m = 1 /\ p[1 + n + 1] = BadLayer
    BY <1>1, <1>5
  <2>2. f[n] = u[2] /\ 2 \in 1..M /\ M + 1 - 2 = 1 + n + 1 /\ 2 - 1 = 1
    BY <1>1, <2>1
  <2>3. u[2] = On(p[M + 1 - 2], u[2 - 1])
    BY <1>2, <2>2
  <2> QED BY <2>1, <2>2, <2>3, BadLayerRefuses
<1>6. ASSUME t.extensionRegistry # "unreadable"
      PROVE  /\ f[n] = g[0]
             /\ \A j \in 1..m : g[j - 1] = On(ExtensionAt(t, j), g[j])
             /\ g[m] = On(LayerOf(t.core), Nothing)
  <2>1. f[n] = u[1 + m] /\ g[0] = u[1 + m]
    BY <1>1
  <2>2. ASSUME NEW j \in 1..m PROVE g[j - 1] = On(ExtensionAt(t, j), g[j])
    <3>1. /\ 2 + m - j \in 1..M /\ M + 1 - (2 + m - j) = 1 + n + j
          /\ g[j - 1] = u[2 + m - j] /\ g[j] = u[(2 + m - j) - 1]
      BY <1>1
    <3>2. u[2 + m - j] = On(p[1 + n + j], u[(2 + m - j) - 1])
      BY <1>2, <3>1
    <3>3. p[1 + n + j] = ExtensionAt(t, j)
      BY <1>1, <1>6
    <3> QED BY <3>1, <3>2, <3>3
  <2>3. g[m] = On(LayerOf(t.core), Nothing)
    <3>1. g[m] = u[1] /\ 1 \in 1..M /\ M + 1 - 1 = 2 + n + m /\ 1 - 1 = 0
      BY <1>1
    <3>2. u[1] = On(p[M + 1 - 1], u[1 - 1])
      BY <1>2, <3>1
    <3> QED BY <1>1, <1>2, <3>1, <3>2
  <2> QED BY <2>1, <2>2, <2>3
<1> HIDE DEF f, g, M
<1>7. IsStack(t, f, g)
  BY <1>1, <1>3, <1>4, <1>5, <1>6 DEF IsStack
<1> QED BY <1>7

(* A file that replaces hides what lies below, a missing one is passed     *)
(* over.                                                                   *)
LEMMA FileOn ==
    ASSUME NEW file, NEW below
    PROVE  On(LayerOf(file), below) = IF file.there THEN Base(Layer(file, "replace")) ELSE below
<1>1. CASE ~file.there
  BY <1>1 DEF On, LayerOf
<1>2. CASE file.there
  <2>1. LayerOf(file) = Layer(file, "replace") /\ Layer(file, "replace") # NoLayer
    BY <1>2 DEF LayerOf, Layer, NoLayer
  <2>2. Layer(file, "replace").kind = "layer" /\ Layer(file, "replace").strategy = "replace"
    BY DEF Layer
  <2> QED BY <1>2, <2>1, <2>2 DEF On, Base
<1> QED BY <1>1, <1>2

Holds(items, order, i) == items[order[i]].plain.there

(* The convention finds the first of the order that has the file.          *)
LEMMA ConventionalIs ==
    ASSUME NEW D, NEW order \in Seq(D), 0 \notin D, NEW items
    PROVE  \/ /\ Conventional(items, order) = Nobody
              /\ \A i \in 1..Len(order) : ~Holds(items, order, i)
           \/ \E k \in 1..Len(order) :
                 /\ Conventional(items, order) = order[k] /\ order[k] # Nobody
                 /\ Holds(items, order, k)
                 /\ \A i \in 1..Len(order) : i < k => ~Holds(items, order, i)
<1> DEFINE I == {i \in 1..Len(order) : Holds(items, order, i)}
           at == CHOOSE x \in I : \A y \in I : x <= y
<1>1. Conventional(items, order) = IF I # {} THEN (IF at = 0 THEN Nobody ELSE order[at])
                                   ELSE Nobody
  BY DEF Conventional, SelectInSeq, Min, Holds, Nobody
<1>2. CASE I = {}
  BY <1>1, <1>2
<1>3. CASE I # {}
  <2>1. I \in SUBSET Nat
    OBVIOUS
  <2>2. at \in I /\ \A y \in I : at <= y
    <3> HIDE DEF I
    <3>1. \E x \in I : \A y \in I : x <= y
      BY <1>3, <2>1, HasSmallest
    <3> QED BY <3>1
  <2>3. at \in 1..Len(order) /\ at # 0 /\ order[at] \in D /\ Holds(items, order, at)
    BY <2>2
  <2>4. Conventional(items, order) = order[at] /\ order[at] # Nobody
    BY <1>1, <1>3, <2>3 DEF Nobody
  <2>5. ASSUME NEW i \in 1..Len(order), i < at PROVE ~Holds(items, order, i)
    <3>1. i \notin I
      BY <2>2, <2>3, <2>5
    <3> QED BY <3>1
  <2> HIDE DEF at
  <2> QED BY <2>3, <2>4, <2>5
<1> QED BY <1>2, <1>3

(* Down a list of directories the first that has the file decides.         *)
LEMMA FirstFile ==
    ASSUME NEW D, NEW order \in Seq(D), 0 \notin D, NEW items, NEW f,
           \A i \in 1..Len(order) : f[i - 1] = On(LayerOf(items[order[i]].plain), f[i])
    PROVE  f[0] = IF Conventional(items, order) = Nobody THEN f[Len(order)]
                  ELSE Base(Layer(items[Conventional(items, order)].plain, "replace"))
<1>1. \A i \in 1..Len(order) :
         f[i - 1] = IF Holds(items, order, i)
                    THEN Base(Layer(items[order[i]].plain, "replace")) ELSE f[i]
  BY FileOn DEF Holds
<1>2. ASSUME NEW k \in 0..Len(order), \A i \in 1..Len(order) : i <= k => ~Holds(items, order, i)
      PROVE  f[0] = f[k]
  <2> DEFINE same == {i \in 0..Len(order) : f[0] = f[i]}
  <2>1. 0 \in same
    OBVIOUS
  <2>2. ASSUME NEW i \in 0..k, i \in same, i < k PROVE i + 1 \in same
    <3>1. i + 1 \in 1..Len(order) /\ i + 1 <= k /\ (i + 1) - 1 = i /\ i + 1 \in 0..Len(order)
      BY <2>2
    <3>2. f[i] = f[i + 1]
      BY <1>1, <1>2, <3>1
    <3> QED BY <2>2, <3>1, <3>2
  <2>3. k \in Nat
    OBVIOUS
  <2>4. k \in same
    <3> HIDE DEF same
    <3>1. \A i \in 0..k : i \in same
      BY <2>1, <2>2, <2>3, UpTo
    <3> QED BY <2>3, <3>1
  <2> QED BY <2>4
<1>3. CASE /\ Conventional(items, order) = Nobody
           /\ \A i \in 1..Len(order) : ~Holds(items, order, i)
  <2>1. Len(order) \in 0..Len(order)
    OBVIOUS
  <2>2. f[0] = f[Len(order)]
    BY <1>2, <1>3, <2>1
  <2> QED BY <1>3, <2>2
<1>4. ASSUME NEW k \in 1..Len(order),
             Conventional(items, order) = order[k], order[k] # Nobody,
             Holds(items, order, k),
             \A i \in 1..Len(order) : i < k => ~Holds(items, order, i)
      PROVE  /\ Conventional(items, order) # Nobody
             /\ f[0] = Base(Layer(items[Conventional(items, order)].plain, "replace"))
  <2>1. k - 1 \in 0..Len(order) /\ \A i \in 1..Len(order) : i <= k - 1 => i < k
    OBVIOUS
  <2>2. f[0] = f[k - 1]
    BY <1>2, <1>4, <2>1
  <2>3. f[k - 1] = Base(Layer(items[order[k]].plain, "replace"))
    BY <1>1, <1>4
  <2> QED BY <1>4, <2>2, <2>3
<1> QED BY <1>3, <1>4, ConventionalIs

-----------------------------------------------------------------------------
(* The composition of layers.                                              *)

LEMMA ComposedSteps ==
    ASSUME NEW T, NEW s \in Seq(T), NEW base
    PROVE  \E f : /\ Composed(s, base) = f[Len(s)] /\ f[0] = base
                  /\ \A n \in 1..Len(s) : f[n] = Around(s[Len(s) + 1 - n], f[n - 1])
<1> DEFINE M == Len(s)
           Content(f, n) ==
             f = [i \in 0..n |-> IF i = 0 THEN base ELSE Around(s[M + 1 - i], f[i - 1])]
           some == {n \in Nat : \E f : Content(f, n)}
           content == CHOOSE f : Content(f, M)
<1>1. M \in Nat
  OBVIOUS
<1>2. 0 \in some
  <2>1. Content([i \in 0..0 |-> base], 0)
    OBVIOUS
  <2> QED BY <2>1
<1>3. ASSUME NEW n \in 0..M, n \in some, n < M PROVE n + 1 \in some
  <2> HIDE DEF M
  <2>1. PICK f : Content(f, n)
    BY <1>3
  <2> DEFINE g == [i \in 0..(n + 1) |-> IF i <= n THEN f[i] ELSE Around(s[M + 1 - i], f[n])]
  <2>2. ASSUME NEW i \in 0..(n + 1)
        PROVE  g[i] = IF i = 0 THEN base ELSE Around(s[M + 1 - i], g[i - 1])
    <3>1. CASE i = 0
      BY <2>1, <3>1
    <3>2. CASE i \in 1..n
      <4>1. g[i] = f[i] /\ g[i - 1] = f[i - 1] /\ i \in 0..n /\ i # 0
        BY <3>2
      <4>2. f[i] = Around(s[M + 1 - i], f[i - 1])
        BY <2>1, <4>1
      <4> QED BY <4>1, <4>2
    <3>3. CASE i = n + 1
      <4>1. g[i] = Around(s[M + 1 - i], f[n]) /\ g[i - 1] = f[n] /\ i # 0
        BY <1>1, <3>3
      <4> QED BY <4>1
    <3> QED BY <3>1, <3>2, <3>3
  <2>3. Content(g, n + 1)
    BY <2>2
  <2> HIDE DEF g, Content
  <2> QED BY <1>1, <2>3
<1>4. M \in some
  <2> HIDE DEF some, M
  <2>1. \A i \in 0..M : i \in some
    BY <1>1, <1>2, <1>3, UpTo
  <2> QED BY <1>1, <2>1
<1>5. Content(content, M)
  BY <1>4
<1>6. Composed(s, base) = content[M]
  BY DEF Composed
<1> HIDE DEF content, M
<1>7. content[0] = base
  BY <1>1, <1>5
<1>8. ASSUME NEW i \in 1..M PROVE content[i] = Around(s[M + 1 - i], content[i - 1])
  <2>1. i \in 0..M /\ i # 0
    BY <1>1
  <2> QED BY <1>5, <2>1
<1> QED BY <1>6, <1>7, <1>8 DEF M

(* Without layers the base is the text.                                    *)
LEMMA ComposedNothing ==
    ASSUME NEW base
    PROVE  Composed(<<>>, base) = base
<1>0. <<>> \in Seq({}) /\ Len(<<>>) = 0
  OBVIOUS
<1>1. PICK s \in Seq({}) : s = <<>> /\ Len(s) = 0
  BY <1>0, Zenon
<1>2. PICK f : Composed(s, base) = f[Len(s)] /\ f[0] = base
  BY ComposedSteps
<1> QED BY <1>1, <1>2

(* The lowest layer is put around the base first. *)
LEMMA ComposedAppend ==
    ASSUME NEW T, NEW s \in Seq(T), NEW x \in T, NEW base
    PROVE  Composed(Append(s, x), base) = Composed(s, Around(x, base))
<1>1. PICK a : a = Append(s, x)
  OBVIOUS
<1>2. /\ a \in Seq(T) /\ Len(a) = Len(s) + 1 /\ a[Len(s) + 1] = x
      /\ \A i \in 1..Len(s) : a[i] = s[i]
  BY <1>1
<1>3. Len(s) \in Nat
  OBVIOUS
<1>4. PICK f : /\ Composed(a, base) = f[Len(a)] /\ f[0] = base
               /\ \A n \in 1..Len(a) : f[n] = Around(a[Len(a) + 1 - n], f[n - 1])
  <2>1. a \in Seq(T)
    BY <1>2
  <2> QED BY <2>1, ComposedSteps
<1>10. PICK around : around = Around(x, base)
  OBVIOUS
<1>5. PICK g : /\ Composed(s, around) = g[Len(s)] /\ g[0] = around
               /\ \A n \in 1..Len(s) : g[n] = Around(s[Len(s) + 1 - n], g[n - 1])
  BY ComposedSteps
<1> DEFINE same == {n \in 0..Len(s) : f[n + 1] = g[n]}
<1>6. 0 \in same
  <2>1. 1 \in 1..Len(a) /\ Len(a) + 1 - 1 = Len(s) + 1 /\ 1 - 1 = 0
    BY <1>2, <1>3
  <2>2. f[1] = Around(a[Len(a) + 1 - 1], f[1 - 1])
    BY <1>4, <2>1
  <2>3. f[0 + 1] = f[1]
    OBVIOUS
  <2> QED BY <1>2, <1>3, <1>4, <1>5, <1>10, <2>1, <2>2, <2>3
<1>7. ASSUME NEW n \in 0..Len(s), n \in same, n < Len(s) PROVE n + 1 \in same
  <2>1. /\ n + 1 \in 1..Len(s) /\ n + 1 + 1 \in 1..Len(a) /\ (n + 1) - 1 = n
        /\ Len(s) - n \in 1..Len(s) /\ Len(s) + 1 - (n + 1) = Len(s) - n
        /\ Len(a) + 1 - (n + 1 + 1) = Len(s) - n /\ (n + 1 + 1) - 1 = n + 1
    BY <1>2, <1>3, <1>7
  <2>2. f[n + 1 + 1] = Around(a[Len(s) - n], f[n + 1])
    BY <1>4, <2>1
  <2>3. g[n + 1] = Around(s[Len(s) - n], g[n])
    BY <1>5, <2>1
  <2>4. a[Len(s) - n] = s[Len(s) - n]
    BY <1>2, <2>1
  <2>5. f[n + 1] = g[n]
    BY <1>7
  <2>6. f[n + 1 + 1] = g[n + 1]
    BY <2>2, <2>3, <2>4, <2>5
  <2> QED BY <2>1, <2>6
<1>8. Len(s) \in same
  <2> HIDE DEF same
  <2>1. \A n \in 0..Len(s) : n \in same
    BY <1>3, <1>6, <1>7, UpTo
  <2> QED BY <1>3, <2>1
<1>9. f[Len(s) + 1] = g[Len(s)]
  BY <1>8
<1> QED BY <1>1, <1>2, <1>4, <1>5, <1>9, <1>10

(* Nothing is put around what is no text.                                  *)
LEMMA AroundNoText ==
    ASSUME NEW layer, NEW below, below.kind # "text"
    PROVE  Around(layer, below) = Refused
BY DEF Around

(* What cannot be composed stays so, and layers without a base cannot.     *)
LEMMA ComposedRefused ==
    ASSUME NEW T, NEW s \in Seq(T), NEW base, base.kind # "text"
    PROVE  /\ base = Refused => Composed(s, base) = Refused
           /\ s # <<>> => Composed(s, base) = Refused
<1>1. PICK f : /\ Composed(s, base) = f[Len(s)] /\ f[0] = base
               /\ \A n \in 1..Len(s) : f[n] = Around(s[Len(s) + 1 - n], f[n - 1])
  BY ComposedSteps
<1>2. Len(s) \in Nat
  OBVIOUS
<1>3. Refused.kind # "text"
  BY DEF Refused
<1> DEFINE refused == {n \in 0..Len(s) : f[n].kind # "text" /\ (n # 0 => f[n] = Refused)}
<1>4. 0 \in refused
  BY <1>1
<1>5. ASSUME NEW n \in 0..Len(s), n \in refused, n < Len(s) PROVE n + 1 \in refused
  <2>1. n + 1 \in 1..Len(s) /\ (n + 1) - 1 = n /\ n + 1 \in 0..Len(s)
    BY <1>2, <1>5
  <2>2. f[n + 1] = Around(s[Len(s) + 1 - (n + 1)], f[n])
    BY <1>1, <2>1
  <2>3. f[n + 1] = Refused
    BY <1>5, <2>2, AroundNoText
  <2> QED BY <1>3, <2>1, <2>3
<1>6. Len(s) \in refused
  <2> HIDE DEF refused
  <2>1. \A n \in 0..Len(s) : n \in refused
    BY <1>2, <1>4, <1>5, UpTo
  <2> QED BY <1>2, <2>1
<1>7. s # <<>> => Len(s) # 0
  OBVIOUS
<1>8. Len(s) = 0 => Composed(s, base) = base
  BY <1>1
<1> QED BY <1>1, <1>6, <1>7, <1>8

(* The layers that are put around what lies below.                        *)
Surrounds(x) == x.kind = "layer" /\ x.strategy \in Strategies \ {"replace"}

(* What a preset adds: nothing, a refusal, a layer that goes around what   *)
(* lies below, or one that replaces it.                                    *)
LEMMA PresetLayerIs ==
    ASSUME NEW t, IsTree(t), NEW p \in DOMAIN t.presets
    PROVE  LET x == PresetTemplateLayer(t, p)
           IN  \/ x = NoLayer \/ x = BadLayer \/ Surrounds(x)
               \/ x.kind = "layer" /\ x.strategy = "replace"
<1> DEFINE preset == t.presets[p]
           entries == preset.manifest.entries
<1>1. entries # <<>> => entries[1].strategy \in Strategies
  BY DEF IsTree
<1>2. \A file : LayerOf(file) = NoLayer
               \/ (LayerOf(file).kind = "layer" /\ LayerOf(file).strategy = "replace")
  BY DEF LayerOf, Layer
<1>3. \A file, strategy : /\ Layer(file, strategy).kind = "layer"
                          /\ Layer(file, strategy).strategy = strategy
  BY DEF Layer
<1>4. \/ PresetTemplateLayer(t, p) = LayerOf(preset.plain)
      \/ PresetTemplateLayer(t, p) = BadLayer \/ PresetTemplateLayer(t, p) = NoLayer
      \/ /\ entries # <<>>
         /\ PresetTemplateLayer(t, p) = Layer(entries[1].file, entries[1].strategy)
  BY Zenon DEF PresetTemplateLayer
<1>5. CASE /\ entries # <<>>
           /\ PresetTemplateLayer(t, p) = Layer(entries[1].file, entries[1].strategy)
  <2> HIDE DEF entries, preset
  <2>1. PICK x : x = PresetTemplateLayer(t, p)
    OBVIOUS
  <2>2. x.kind = "layer" /\ x.strategy = entries[1].strategy
    BY <1>3, <1>5, <2>1
  <2> QED BY <1>1, <1>5, <2>1, <2>2 DEF Surrounds
<1> HIDE DEF preset
<1> QED BY <1>2, <1>4, <1>5

(* On and Around agree about the layers that go around.                    *)
LEMMA SurroundsIs ==
    ASSUME NEW x, Surrounds(x), NEW below
    PROVE  On(x, below) = Around(x, below) /\ x # NoLayer
<1>1. x # NoLayer /\ x.kind # "error" /\ x.strategy # "replace"
      /\ x.strategy \in {"prepend", "append", "wrap"}
  BY DEF Surrounds, NoLayer, Strategies
<1>2. CASE GARBLED \in ToSet(x.text) \/ below.kind # "text"
  BY <1>1, <1>2 DEF On, Around
<1>3. CASE ~(GARBLED \in ToSet(x.text) \/ below.kind # "text")
  <2>1. CASE x.strategy = "prepend"
    BY <1>1, <1>3, <2>1 DEF On, Around
  <2>2. CASE x.strategy = "append"
    BY <1>1, <1>3, <2>2 DEF On, Around
  <2>3. CASE x.strategy = "wrap"
    BY <1>1, <1>3, <2>3 DEF On, Around
  <2> QED BY <1>1, <2>1, <2>2, <2>3
<1> QED BY <1>1, <1>2, <1>3

(* A layer that replaces is the base of what lies above it.                *)
LEMMA ReplacesIs ==
    ASSUME NEW x, x.kind = "layer", x.strategy = "replace", NEW below
    PROVE  On(x, below) = Base(x)
<1>1. x # NoLayer /\ x.kind # "error"
  BY DEF NoLayer
<1> QED BY <1>1 DEF On, Base

(* The loop over the presets, turn by turn.                                *)
LEMMA LayerSteps ==
    ASSUME NEW t, IsTree(t)
    PROVE  \E f : /\ PresetLayers(t) = f[Len(SortedPresetIds(t))] /\ f[0] = <<>>
                  /\ \A n \in 1..Len(SortedPresetIds(t)) :
                        f[n] = IF HasBase(f[n - 1]) \/ PresetAt(t, n) = NoLayer THEN f[n - 1]
                               ELSE Append(f[n - 1], PresetAt(t, n))
<1> DEFINE M == Len(SortedPresetIds(t))
           Taken(f, n) ==
             f = [i \in 0..n |->
                    IF i = 0 THEN <<>>
                    ELSE IF HasBase(f[i - 1]) \/ PresetAt(t, i) = NoLayer THEN f[i - 1]
                    ELSE Append(f[i - 1], PresetAt(t, i))]
           some == {n \in Nat : \E f : Taken(f, n)}
           taken == CHOOSE f : Taken(f, M)
<1>1. M \in Nat
  BY PresetsOrder
<1>2. 0 \in some
  <2>1. Taken([i \in 0..0 |-> <<>>], 0)
    OBVIOUS
  <2> QED BY <2>1
<1>3. ASSUME NEW n \in 0..M, n \in some, n < M PROVE n + 1 \in some
  <2> HIDE DEF M
  <2>1. PICK f : Taken(f, n)
    BY <1>3
  <2> DEFINE g == [i \in 0..(n + 1) |->
                     IF i <= n THEN f[i]
                     ELSE IF HasBase(f[n]) \/ PresetAt(t, i) = NoLayer THEN f[n]
                     ELSE Append(f[n], PresetAt(t, i))]
  <2>2. ASSUME NEW i \in 0..(n + 1)
        PROVE  g[i] = IF i = 0 THEN <<>>
                      ELSE IF HasBase(g[i - 1]) \/ PresetAt(t, i) = NoLayer THEN g[i - 1]
                      ELSE Append(g[i - 1], PresetAt(t, i))
    <3>1. CASE i = 0
      BY <2>1, <3>1
    <3>2. CASE i \in 1..n
      <4>1. g[i] = f[i] /\ g[i - 1] = f[i - 1] /\ i \in 0..n /\ i # 0
        BY <3>2
      <4>2. f[i] = IF HasBase(f[i - 1]) \/ PresetAt(t, i) = NoLayer THEN f[i - 1]
                   ELSE Append(f[i - 1], PresetAt(t, i))
        BY <2>1, <4>1
      <4> QED BY <4>1, <4>2
    <3>3. CASE i = n + 1
      <4>1. /\ g[i] = IF HasBase(f[n]) \/ PresetAt(t, i) = NoLayer THEN f[n]
                      ELSE Append(f[n], PresetAt(t, i))
            /\ g[i - 1] = f[n] /\ i # 0
        BY <1>1, <3>3
      <4> QED BY <4>1
    <3> QED BY <3>1, <3>2, <3>3
  <2>3. Taken(g, n + 1)
    BY <2>2
  <2> HIDE DEF g, Taken
  <2> QED BY <1>1, <2>3
<1>4. M \in some
  <2> HIDE DEF some, M
  <2>1. \A i \in 0..M : i \in some
    BY <1>1, <1>2, <1>3, UpTo
  <2> QED BY <1>1, <2>1
<1>5. Taken(taken, M)
  BY <1>4
<1>6. PresetLayers(t) = taken[M]
  BY Zenon DEF PresetLayers, PresetAt
<1> HIDE DEF taken, M
<1>7. taken[0] = <<>>
  BY <1>1, <1>5
<1>8. ASSUME NEW i \in 1..M
      PROVE  taken[i] = IF HasBase(taken[i - 1]) \/ PresetAt(t, i) = NoLayer THEN taken[i - 1]
                        ELSE Append(taken[i - 1], PresetAt(t, i))
  <2>1. i \in 0..M /\ i # 0
    BY <1>1
  <2> QED BY <1>5, <2>1
<1> QED BY <1>6, <1>7, <1>8 DEF M

(* What the presets' layers say, once they have a base.                    *)
Verdict(layers) == IF Last(layers) = BadLayer THEN Refused ELSE ComposeFromBase(layers)

(* A sequence with one more element, cut before its last.                  *)
LEMMA LastAppended ==
    ASSUME NEW T, NEW s \in Seq(T), NEW x \in T
    PROVE  /\ Append(s, x) \in Seq(T) /\ Append(s, x) # <<>>
           /\ Last(Append(s, x)) = x /\ Front(Append(s, x)) = s
<1>0. PICK a : a = Append(s, x)
  OBVIOUS
<1>1. a \in Seq(T) /\ a = Append(s, x)
  BY <1>0
<1>2. /\ Len(a) = Len(s) + 1 /\ a[Len(s) + 1] = x /\ Len(s) \in Nat
      /\ \A i \in 1..Len(s) : a[i] = s[i]
  BY <1>1
<1>3. a # <<>>
  <2>1. Len(<<>>) = 0
    OBVIOUS
  <2> QED BY <1>2, <2>1
<1>4. Last(a) = x
  BY <1>2 DEF Last
<1>5. Front(a) = s
  <2>1. PICK r : r = SubSeq(a, 1, Len(s))
    OBVIOUS
  <2>2. r \in Seq(T) /\ Len(r) = Len(s) /\ \A i \in 1..Len(s) : r[i] = a[i]
    BY <1>2, <2>1
  <2>3. r = s
    BY <1>2, <2>2
  <2>4. Len(a) - 1 = Len(s)
    BY <1>2
  <2> QED BY <2>1, <2>3, <2>4 DEF Front
<1> QED BY <1>1, <1>3, <1>4, <1>5

PresetLayersOf(t) == {PresetTemplateLayer(t, p) : p \in DOMAIN t.presets}

(* What the layers that were taken so far make of the text below.          *)
SaysAlready(layers, top, below) ==
    IF HasBase(layers) THEN top = Verdict(layers) ELSE top = Composed(layers, below)

(* One more preset: what the layers make of what lies below it.            *)
LEMMA LayerTaken ==
    ASSUME NEW t, IsTree(t), NEW s \in Seq(PresetLayersOf(t)), ~HasBase(s),
           NEW x \in PresetLayersOf(t), x # NoLayer, NEW below, NEW top,
           top = Composed(s, On(x, below))
    PROVE  /\ Append(s, x) \in Seq(PresetLayersOf(t))
           /\ SaysAlready(Append(s, x), top, below)
<1> DEFINE T == PresetLayersOf(t)
<1>1. PICK a : a = Append(s, x)
  OBVIOUS
<1>2. a \in Seq(T) /\ a # <<>> /\ Last(a) = x /\ Front(a) = s
  <2> HIDE DEF T
  <2> QED BY <1>1, LastAppended DEF T
<1>3. HasBase(a) <=> x.strategy = "replace"
  BY <1>2 DEF HasBase
<1>4. x = BadLayer \/ Surrounds(x) \/ (x.kind = "layer" /\ x.strategy = "replace")
  BY PresetLayerIs DEF PresetLayersOf
<1>5. CASE x = BadLayer
  <2>1. x.strategy = "replace" /\ On(x, below) = Refused
    BY <1>5, BadLayerRefuses DEF BadLayer
  <2>2. top = Refused
    <3>1. Refused.kind # "text"
      BY DEF Refused
    <3>2. Composed(s, Refused) = Refused
      BY <3>1, ComposedRefused
    <3> QED BY <2>1, <3>2
  <2>3. SaysAlready(a, top, below)
    BY <1>2, <1>3, <1>5, <2>1, <2>2 DEF SaysAlready, Verdict
  <2> QED BY <1>1, <1>2, <2>3
<1>6. CASE x.kind = "layer" /\ x.strategy = "replace"
  <2>1. On(x, below) = Base(x) /\ x # BadLayer
    BY <1>6, ReplacesIs DEF BadLayer
  <2>2. ComposeFromBase(a) = Composed(s, Base(x))
    BY <1>2 DEF ComposeFromBase
  <2>3. SaysAlready(a, top, below)
    BY <1>2, <1>3, <1>6, <2>1, <2>2 DEF SaysAlready, Verdict
  <2> QED BY <1>1, <1>2, <2>3
<1>7. CASE Surrounds(x)
  <2>1. On(x, below) = Around(x, below) /\ x.strategy # "replace"
    BY <1>7, SurroundsIs DEF Surrounds
  <2>2. Composed(a, below) = Composed(s, Around(x, below))
    BY <1>1, ComposedAppend
  <2>3. SaysAlready(a, top, below)
    BY <1>3, <2>1, <2>2 DEF SaysAlready
  <2> QED BY <1>1, <1>2, <2>3
<1> QED BY <1>4, <1>5, <1>6, <1>7

(* What the presets' layers make of what lies below is what the stack says *)
(* above the presets.                                                      *)
LEMMA PresetsText ==
    ASSUME NEW t, IsTree(t), NEW f, NEW g, IsStack(t, f, g)
    PROVE  /\ PresetLayers(t) \in Seq(PresetLayersOf(t))
           /\ SaysAlready(PresetLayers(t), f[0], f[Len(SortedPresetIds(t))])
<1> DEFINE T == PresetLayersOf(t)
<1>1. PICK P \in Seq(DOMAIN t.presets) : P = SortedPresetIds(t)
  BY PresetsOrder
<1>2. PICK n \in Nat : n = Len(P)
  OBVIOUS
<1>3. ASSUME NEW i \in 1..n PROVE PresetAt(t, i) \in T
  <2>1. P[i] \in DOMAIN t.presets
    BY <1>2
  <2> QED BY <1>1, <2>1 DEF PresetAt, PresetLayersOf
<1>4. PICK h : /\ PresetLayers(t) = h[n] /\ h[0] = <<>>
               /\ \A i \in 1..n :
                     h[i] = IF HasBase(h[i - 1]) \/ PresetAt(t, i) = NoLayer THEN h[i - 1]
                            ELSE Append(h[i - 1], PresetAt(t, i))
  BY <1>1, <1>2, LayerSteps
<1>5. \A i \in 1..n : f[i - 1] = On(PresetAt(t, i), f[i])
  BY <1>1, <1>2 DEF IsStack
<1> HIDE DEF T
<1> DEFINE good == {i \in 0..n : h[i] \in Seq(T) /\ SaysAlready(h[i], f[0], f[i])}
<1>6. 0 \in good
  <2>1. <<>> \in Seq(T) /\ ~HasBase(<<>>)
    BY DEF HasBase
  <2>2. PICK top : top = f[0]
    OBVIOUS
  <2>3. SaysAlready(<<>>, top, top)
    BY <2>1, ComposedNothing DEF SaysAlready
  <2>4. 0 \in 0..n
    OBVIOUS
  <2> QED BY <1>4, <2>1, <2>2, <2>3, <2>4
<1>7. ASSUME NEW i \in 0..n, i \in good, i < n PROVE i + 1 \in good
  <2>1. i + 1 \in 1..n /\ (i + 1) - 1 = i /\ i + 1 \in 0..n
    BY <1>7
  <2>2. PICK s : s = h[i]
    OBVIOUS
  <2>3. PICK x : x = PresetAt(t, i + 1)
    OBVIOUS
  <2>4. s \in Seq(T) /\ SaysAlready(s, f[0], f[i]) /\ x \in T
    BY <1>3, <1>7, <2>1, <2>2, <2>3
  <2>5. h[i + 1] = IF HasBase(s) \/ x = NoLayer THEN s ELSE Append(s, x)
    BY <1>4, <2>1, <2>2, <2>3
  <2>6. f[i] = On(x, f[i + 1])
    BY <1>5, <2>1, <2>3
  <2>7. CASE HasBase(s)
    <3>1. SaysAlready(s, f[0], f[i + 1])
      BY <2>4, <2>7 DEF SaysAlready
    <3> QED BY <2>1, <2>4, <2>5, <2>7, <3>1
  <2>8. CASE x = NoLayer
    <3>1. f[i] = f[i + 1]
      BY <2>6, <2>8 DEF On
    <3> QED BY <2>1, <2>4, <2>5, <2>8, <3>1
  <2>9. CASE ~HasBase(s) /\ x # NoLayer
    <3>1. f[0] = Composed(s, On(x, f[i + 1]))
      BY <2>4, <2>6, <2>9 DEF SaysAlready
    <3>2. PICK top, below : top = f[0] /\ below = f[i + 1]
      OBVIOUS
    <3>3. top = Composed(s, On(x, below))
      BY <3>1, <3>2
    <3>4. Append(s, x) \in Seq(T) /\ SaysAlready(Append(s, x), top, below)
      BY <2>4, <2>9, <3>3, LayerTaken DEF T
    <3> QED BY <2>1, <2>5, <2>9, <3>2, <3>4
  <2> QED BY <2>7, <2>8, <2>9
<1>8. n \in good
  <2> HIDE DEF good
  <2>1. \A i \in 0..n : i \in good
    BY <1>6, <1>7, UpTo
  <2> QED BY <2>1
<1> QED BY <1>1, <1>2, <1>4, <1>8 DEF T

(* The text that the loops of resolve_template_content make is what the    *)
(* stack says, for every tree: with any number of presets and extensions,  *)
(* in any order, with any strategies.                                      *)
THEOREM ContentOfStack ==
    ASSUME NEW t, IsTree(t)
    PROVE  ResolveTemplateContent(t) = TextFrom(t)
<1>1. PICK f, g : IsStack(t, f, g)
  BY StackSteps
<1>2. PICK s \in Seq(PresetLayersOf(t)) : s = PresetLayers(t)
  BY <1>1, PresetsText
<1>3. PICK below : below = f[Len(SortedPresetIds(t))]
  OBVIOUS
<1>4. SaysAlready(s, f[0], below)
  BY <1>1, <1>2, <1>3, PresetsText
<1>5. PICK e : e = Conventional(t.extensions, SortedExtensionIds(t))
  OBVIOUS
<1>6. TextFrom(t) = On(LayerOf(t.override), f[0])
  BY <1>1 DEF IsStack
<1>7. CASE t.override.there
  <2>1. TextFrom(t) = Base(Layer(t.override, "replace"))
    BY <1>6, <1>7, FileOn
  <2>2. ResolveTemplateContent(t) = ComposeFromBase(<<Layer(t.override, "replace")>>)
    BY <1>7, Zenon DEF ResolveTemplateContent, LayerOf
  <2>3. PICK x : x = Layer(t.override, "replace")
    OBVIOUS
  <2>4. ComposeFromBase(<<x>>) = Base(x)
    <3>1. Front(<<x>>) = <<>> /\ Last(<<x>>) = x
      BY DEF Front, Last
    <3> QED BY <3>1, ComposedNothing DEF ComposeFromBase
  <2> QED BY <2>1, <2>2, <2>3, <2>4
<1>8. CASE ~t.override.there /\ HasBase(s)
  <2>1. TextFrom(t) = f[0]
    BY <1>6, <1>8, FileOn
  <2>2. ResolveTemplateContent(t) = Verdict(s)
    BY <1>2, <1>8, Zenon DEF ResolveTemplateContent, Verdict
  <2>3. f[0] = Verdict(s)
    BY <1>4, <1>8 DEF SaysAlready
  <2> QED BY <2>1, <2>2, <2>3
<1>9. CASE ~t.override.there /\ ~HasBase(s)
  <2>1. TextFrom(t) = Composed(s, below)
    BY <1>4, <1>6, <1>9, FileOn DEF SaysAlready
  <2> DEFINE Over(file) == ComposeFromBase(Append(s, Layer(file, "replace")))
  <2>2. ResolveTemplateContent(t) =
          IF t.extensionRegistry = "unreadable" THEN Refused
          ELSE IF e # Nobody THEN Over(t.extensions[e].plain)
          ELSE IF t.core.there THEN Over(t.core)
          ELSE IF s = <<>> THEN Nothing ELSE Refused
    BY <1>2, <1>5, <1>9, Zenon DEF ResolveTemplateContent
  <2>3. ASSUME NEW file PROVE Over(file) = Composed(s, Base(Layer(file, "replace")))
    <3>1. PICK x : x = Layer(file, "replace")
      OBVIOUS
    <3> DEFINE T == PresetLayersOf(t) \cup {x}
    <3>2. s \in Seq(T) /\ x \in T
      OBVIOUS
    <3> HIDE DEF T
    <3>3. Last(Append(s, x)) = x /\ Front(Append(s, x)) = s
      BY <3>2, LastAppended
    <3> QED BY <3>1, <3>3 DEF ComposeFromBase
  <2> HIDE DEF Over
  <2>4. CASE t.extensionRegistry = "unreadable"
    <3>1. below = Refused /\ Refused.kind # "text"
      BY <1>1, <1>3, <2>4 DEF IsStack, Refused
    <3>2. Composed(s, Refused) = Refused
      BY <3>1, ComposedRefused
    <3> QED BY <2>1, <2>2, <2>4, <3>1, <3>2
  <2>5. CASE t.extensionRegistry # "unreadable"
    <3>1. PICK E \in Seq(DOMAIN t.extensions) : E = SortedExtensionIds(t)
      BY ExtensionsOrder
    <3>2. /\ below = g[0] /\ g[Len(E)] = On(LayerOf(t.core), Nothing)
          /\ \A j \in 1..Len(E) : g[j - 1] = On(LayerOf(t.extensions[E[j]].plain), g[j])
      BY <1>1, <1>3, <2>5, <3>1 DEF IsStack, ExtensionAt
    <3>3. 0 \notin DOMAIN t.extensions
      BY DEF IsTree, IsListing
    <3>4. g[0] = IF e = Nobody THEN g[Len(E)]
                 ELSE Base(Layer(t.extensions[e].plain, "replace"))
      BY <1>5, <3>1, <3>2, <3>3, FirstFile
    <3>5. CASE e # Nobody
      BY <2>1, <2>2, <2>3, <2>5, <3>2, <3>4, <3>5
    <3>6. CASE e = Nobody /\ t.core.there
      <4>1. below = Base(Layer(t.core, "replace"))
        BY <3>2, <3>4, <3>6, FileOn
      <4> QED BY <2>1, <2>2, <2>3, <2>5, <3>6, <4>1
    <3>7. CASE e = Nobody /\ ~t.core.there
      <4>1. below = Nothing
        BY <3>2, <3>4, <3>7, FileOn
      <4>2. Nothing.kind # "text"
        BY DEF Nothing
      <4>3. s # <<>> => Composed(s, Nothing) = Refused
        BY <4>2, ComposedRefused
      <4>4. s = <<>> => Composed(s, Nothing) = Nothing
        BY ComposedNothing
      <4> QED BY <2>1, <2>2, <2>5, <3>7, <4>1, <4>3, <4>4
    <3> QED BY <3>5, <3>6, <3>7
  <2> QED BY <2>4, <2>5
<1> QED BY <1>7, <1>8, <1>9

Unmanifested(t) == \A p \in ToSet(SortedPresetIds(t)) : t.presets[p].manifest.kind = "absent"

(* A base that is a text is its file's.                                    *)
LEMMA BaseText ==
    ASSUME NEW file, Base(Layer(file, "replace")).kind = "text"
    PROVE  Base(Layer(file, "replace")).text = file.text
<1>1. Layer(file, "replace").text = file.text
  BY DEF Layer
<1>2. Refused.kind # "text"
  BY DEF Refused
<1>3. Base(Layer(file, "replace")) # Refused
  BY <1>2
<1>4. Base(Layer(file, "replace")) = Resolved(file.text)
  BY <1>1, <1>3 DEF Base
<1> QED BY <1>4 DEF Resolved

(* Without manifests the file that the convention finds is the text.       *)
LEMMA PlaceOfStack ==
    ASSUME NEW t, IsTree(t), Unmanifested(t), TextFrom(t).kind = "text"
    PROVE  /\ ResolveTemplate(t) # Raises
           /\ TextFrom(t).text = TextAt(t, ResolveTemplate(t))
<1>1. PICK f, g : IsStack(t, f, g)
  BY StackSteps
<1>2. TextFrom(t) = On(LayerOf(t.override), f[0])
  BY <1>1 DEF IsStack
<1>3. PICK P \in Seq(DOMAIN t.presets) : P = SortedPresetIds(t)
  BY PresetsOrder
<1>4. PICK E \in Seq(DOMAIN t.extensions) : E = SortedExtensionIds(t)
  BY ExtensionsOrder
<1>5. PICK p, e : /\ p = Conventional(t.presets, SortedPresetIds(t))
                  /\ e = Conventional(t.extensions, SortedExtensionIds(t))
  OBVIOUS
<1>6. 0 \notin DOMAIN t.presets /\ 0 \notin DOMAIN t.extensions
  BY DEF IsTree, IsListing
<1>7. f[0] = IF p = Nobody THEN f[Len(P)] ELSE Base(Layer(t.presets[p].plain, "replace"))
  <2>1. ASSUME NEW i \in 1..Len(P)
        PROVE  f[i - 1] = On(LayerOf(t.presets[P[i]].plain), f[i])
    <3>1. f[i - 1] = On(PresetAt(t, i), f[i])
      BY <1>1, <1>3 DEF IsStack
    <3>2. P[i] \in ToSet(P)
      BY DEF ToSet
    <3>3. t.presets[P[i]].manifest.kind = "absent"
      BY <1>3, <3>2 DEF Unmanifested
    <3>4. PresetAt(t, i) = LayerOf(t.presets[P[i]].plain)
      BY <1>3, <3>3 DEF PresetAt, PresetTemplateLayer
    <3> QED BY <3>1, <3>4
  <2> QED BY <1>3, <1>5, <1>6, <2>1, FirstFile
<1>8. t.extensionRegistry # "unreadable" =>
        f[Len(P)] = IF e = Nobody THEN On(LayerOf(t.core), Nothing)
                    ELSE Base(Layer(t.extensions[e].plain, "replace"))
  <2> SUFFICES ASSUME t.extensionRegistry # "unreadable"
               PROVE  f[Len(P)] = IF e = Nobody THEN On(LayerOf(t.core), Nothing)
                                  ELSE Base(Layer(t.extensions[e].plain, "replace"))
    OBVIOUS
  <2>1. /\ f[Len(P)] = g[0] /\ g[Len(E)] = On(LayerOf(t.core), Nothing)
        /\ \A j \in 1..Len(E) : g[j - 1] = On(LayerOf(t.extensions[E[j]].plain), g[j])
    BY <1>1, <1>3, <1>4 DEF IsStack, ExtensionAt
  <2>2. g[0] = IF e = Nobody THEN g[Len(E)]
               ELSE Base(Layer(t.extensions[e].plain, "replace"))
    BY <1>4, <1>5, <1>6, <2>1, FirstFile
  <2> QED BY <2>1, <2>2
<1>9. ResolveTemplate(t) =
        IF t.override.there THEN <<"override", 0>>
        ELSE IF p # Nobody THEN <<"preset", p>>
        ELSE IF t.extensionRegistry = "unreadable" THEN Raises
        ELSE IF e # Nobody THEN <<"extension", e>>
        ELSE IF t.core.there THEN <<"core", 0>> ELSE NoPlace
  BY <1>5, Zenon DEF ResolveTemplate
<1>10. Nothing.kind # "text" /\ Refused.kind # "text"
  BY DEF Nothing, Refused
<1>11. CASE t.override.there
  <2>1. TextFrom(t) = Base(Layer(t.override, "replace"))
    BY <1>2, <1>11, FileOn
  <2>2. TextFrom(t).text = t.override.text
    BY <2>1, BaseText
  <2> QED BY <1>9, <1>11, <2>2 DEF Raises, TextAt
<1>12. CASE ~t.override.there /\ p # Nobody
  <2>1. TextFrom(t) = Base(Layer(t.presets[p].plain, "replace"))
    BY <1>2, <1>7, <1>12, FileOn
  <2>2. TextFrom(t).text = t.presets[p].plain.text
    BY <2>1, BaseText
  <2> QED BY <1>9, <1>12, <2>2 DEF Raises, TextAt
<1>13. CASE ~t.override.there /\ p = Nobody
  <2>1. TextFrom(t) = f[Len(P)]
    BY <1>2, <1>7, <1>13, FileOn
  <2>2. t.extensionRegistry # "unreadable"
    BY <1>1, <1>3, <1>10, <2>1 DEF IsStack
  <2>3. CASE e # Nobody
    <3>1. TextFrom(t) = Base(Layer(t.extensions[e].plain, "replace"))
      BY <1>8, <2>1, <2>2, <2>3
    <3>2. TextFrom(t).text = t.extensions[e].plain.text
      BY <3>1, BaseText
    <3> QED BY <1>9, <1>13, <2>2, <2>3, <3>2 DEF Raises, TextAt
  <2>4. CASE e = Nobody
    <3>1. TextFrom(t) = On(LayerOf(t.core), Nothing)
      BY <1>8, <2>1, <2>2, <2>4
    <3>2. t.core.there
      BY <1>10, <3>1, FileOn
    <3>3. TextFrom(t) = Base(Layer(t.core, "replace"))
      BY <3>1, <3>2, FileOn
    <3>4. TextFrom(t).text = t.core.text
      BY <3>3, BaseText
    <3> QED BY <1>9, <1>13, <2>2, <2>4, <3>2, <3>4 DEF Raises, TextAt
  <2> QED BY <2>3, <2>4
<1> QED BY <1>11, <1>12, <1>13

-----------------------------------------------------------------------------
(* What setup_tasks answered is what the readers of the stack said.        *)

AnswerOf(s) ==
    call[s].kind = "tasks" =>
      /\ pc[s] = "start" => own[s].dir = NoDirectory
      /\ AnsweredTasks(s) =>
           /\ ResolveTemplateContent(layout).kind = "text"
           /\ own[s].content = ResolveTemplateContent(layout).text
           /\ own[s].place = ResolveTemplate(layout)
           /\ pc[s] = "crashed" => ResolveTemplate(layout) = Raises
      /\ pc[s] = "failed" /\ own[s].wants = <<>> /\ own[s].dir # NoDirectory
           => ResolveTemplateContent(layout).kind # "text"

AnswersInv == IsTree(layout) /\ \A s \in Script : AnswerOf(s)

(* A step of s and what it leaves of the others. *)
StepOf(s) == /\ call' = call /\ layout' = layout
             /\ \A q \in Script \ {s} : pc'[q] = pc[q] /\ own'[q] = own[q]

(* A step of one script leaves the others' answers.                        *)
LEMMA AnswersKept ==
    ASSUME AnswersInv, NEW s \in Script, StepOf(s), AnswerOf(s)'
    PROVE  AnswersInv'
<1>1. ASSUME NEW q \in Script \ {s} PROVE AnswerOf(q)'
  <2>1. AnswerOf(q) /\ call' = call /\ layout' = layout /\ pc'[q] = pc[q] /\ own'[q] = own[q]
    BY DEF AnswersInv, StepOf
  <2> QED BY <2>1 DEF AnswerOf, AnsweredTasks
<1>2. IsTree(layout)'
  BY DEF AnswersInv, StepOf
<1> QED BY <1>1, <1>2 DEF AnswersInv

(* Most labels answer nothing.                                             *)
LEMMA NoAnswer ==
    ASSUME AnswersInv, NEW s \in Script, StepOf(s),
           call[s].kind # "tasks" \/ pc'[s] \notin {"start", "done", "crashed", "failed"}
    PROVE  AnswersInv'
<1>1. AnswerOf(s)'
  BY DEF AnswerOf, AnsweredTasks, StepOf
<1> QED BY <1>1, AnswersKept

(* Step moves one script.                                                  *)
LEMMA SteppedOf ==
    ASSUME TypeOK, NEW s \in Script, NEW from, NEW to, Step(s, from, to),
           \A q \in Script \ {s} : own'[q] = own[q]
    PROVE  StepOf(s) /\ pc'[s] = to /\ pc[s] = from
<1>1. pc \in [Script -> Labels \cup Ended]
  BY TypeParts
<1> QED BY <1>1 DEF Step, Goto, StepOf

(* create_new_feature answers nothing of the template's.                   *)
LEMMA CreatingAnswers ==
    ASSUME IInv, AnswersInv, NEW s \in Script,
           \/ StartCreate(s) \/ TakeStamp(s) \/ TakeNext(s) \/ TakeRequested(s)
           \/ SearchFromHighest(s) \/ Search(s) \/ CheckExisting(s)
    PROVE  AnswersInv'
<1>1. TypeOK /\ Labelled(s) /\ pc \in [Script -> Labels \cup Ended]
      /\ own \in [Script -> {own[q] : q \in Script}]
  BY TypeParts DEF IInv, ScriptInv, TypeOK
<1>2. IsCreate(s)
  BY <1>1 DEF StartCreate, TakeStamp, TakeNext, TakeRequested, SearchFromHighest, Search,
              CheckExisting, Numbered, Fail, Step, Labelled, Numbering
<1>3. \A q \in Script \ {s} : own'[q] = own[q]
  BY <1>1 DEF StartCreate, TakeStamp, TakeNext, TakeRequested, SearchFromHighest, Search,
              CheckExisting, Numbered, Fail
<1>4. \/ \E from, to : Step(s, from, to)
      \/ TakeStamp(s)
  BY Zenon DEF StartCreate, TakeNext, TakeRequested, SearchFromHighest, Search, CheckExisting,
               Numbered, Fail
<1>5. StepOf(s)
  <2>1. CASE \E from, to : Step(s, from, to)
    BY <1>1, <1>3, <2>1, SteppedOf
  <2>2. CASE TakeStamp(s)
    BY <1>1, <1>3, <2>2 DEF TakeStamp, Goto, StepOf
  <2> QED BY <1>4, <2>1, <2>2
<1> QED BY <1>2, <1>5, NoAnswer DEF IsCreate

(* Nor do the scripts that write.                                          *)
LEMMA WritingAnswers ==
    ASSUME IInv, AnswersInv, NEW s \in Script,
           \/ LookForFile(s) \/ MakeDirectory(s)
           \/ TruncateFile(s) \/ FillFile(s) \/ TouchFile(s)
    PROVE  AnswersInv'
<1>1. TypeOK /\ Labelled(s) /\ own \in [Script -> {own[q] : q \in Script}]
  BY DEF IInv, ScriptInv, TypeOK
<1>2. call[s].kind \in {"create", "plan"}
  BY <1>1 DEF LookForFile, MakeDirectory, TruncateFile, FillFile, TouchFile, Fail, Step,
              Labelled, Writing
<1>3. \A q \in Script \ {s} : own'[q] = own[q]
  BY <1>1 DEF LookForFile, MakeDirectory, TruncateFile, FillFile, TouchFile, WriteText, Fail, tree
<1>4. \E from, to : Step(s, from, to)
  BY Zenon DEF LookForFile, MakeDirectory, TruncateFile, FillFile, TouchFile, Fail
<1>5. StepOf(s)
  BY <1>1, <1>3, <1>4, SteppedOf
<1> QED BY <1>2, <1>5, NoAnswer

(* A script that fails over its paths has no directory yet.                *)
LEMMA PathsAnswers ==
    ASSUME IInv, AnswersInv, NEW s \in Script,
           PathsFromEnvironment(s) \/ PathsFromPointer(s)
    PROVE  AnswersInv'
<1>1. TypeOK /\ own \in [Script -> {own[q] : q \in Script}]
  BY DEF IInv, TypeOK
<1>2. \A q \in Script \ {s} : own'[q] = own[q]
  BY <1>1 DEF PathsFromEnvironment, PathsFromPointer, UsesDirectory, Fail
<1>3. CASE Fail(s, "start")
  <2>1. Step(s, "start", "failed") /\ own' = own
    BY <1>3 DEF Fail
  <2>2. StepOf(s) /\ pc'[s] = "failed" /\ pc[s] = "start"
    BY <1>1, <1>2, <2>1, SteppedOf
  <2>3. AnswerOf(s)'
    BY <2>1, <2>2 DEF AnswersInv, AnswerOf, AnsweredTasks, StepOf
  <2> QED BY <2>2, <2>3, AnswersKept
<1>4. CASE \E to \in {"persist", AfterPaths(s)} : Step(s, "start", to)
  <2>1. PICK to \in {"persist", AfterPaths(s)} : Step(s, "start", to)
    BY <1>4
  <2>2. StepOf(s) /\ pc'[s] = to
    BY <1>1, <1>2, <2>1, SteppedOf
  <2>3. call[s].kind = "tasks" => to \in {"persist", "check"}
    BY <2>1 DEF AfterPaths
  <2>4. call[s].kind # "tasks" \/ pc'[s] \notin {"start", "done", "crashed", "failed"}
    BY <2>2, <2>3
  <2> QED BY <2>2, <2>4, NoAnswer
<1> QED BY <1>3, <1>4 DEF PathsFromEnvironment, PathsFromPointer

(* Over feature.json setup_tasks does not fail.                            *)
LEMMA PointingAnswers ==
    ASSUME IInv, AnswersInv, NEW s \in Script,
           ComparePointer(s) \/ TruncatePointer(s) \/ StorePointer(s)
    PROVE  AnswersInv'
<1>1. TypeOK
  BY DEF IInv
<1>2. \A q \in Script \ {s} : own'[q] = own[q]
  BY DEF ComparePointer, TruncatePointer, StorePointer
<1>3. PICK to \in {"truncate", "store", AfterPaths(s)} : \E from : Step(s, from, to)
  <2>1. CASE ComparePointer(s)
    <3>1. PICK to \in {"truncate", AfterPaths(s)} : Step(s, "persist", to)
      BY <2>1, Zenon DEF ComparePointer
    <3> QED BY <3>1
  <2>2. CASE TruncatePointer(s)
    BY <2>2 DEF TruncatePointer
  <2>3. CASE StorePointer(s)
    BY <2>3 DEF StorePointer
  <2> QED BY <2>1, <2>2, <2>3
<1>4. StepOf(s) /\ pc'[s] = to
  BY <1>1, <1>2, <1>3, SteppedOf
<1>5. call[s].kind = "tasks" => to \in {"truncate", "store", "check"}
  BY <1>3 DEF AfterPaths
<1>6. call[s].kind # "tasks" \/ pc'[s] \notin {"start", "done", "crashed", "failed"}
  BY <1>4, <1>5
<1> QED BY <1>4, <1>6, NoAnswer

(* A script that fails over a missing file still wants it.                 *)
LEMMA CheckFileAnswers ==
    ASSUME IInv, AnswersInv, NEW s \in Script, CheckFile(s)
    PROVE  AnswersInv'
<1>1. TypeOK /\ own \in [Script -> {own[q] : q \in Script}]
  BY DEF IInv, TypeOK
<1>2. \A q \in Script \ {s} : own'[q] = own[q]
  BY <1>1 DEF CheckFile, Fail
<1>3. CASE Fail(s, "check")
  <2>1. Step(s, "check", "failed") /\ own' = own /\ own[s].wants # <<>>
    BY <1>3 DEF Fail, CheckFile
  <2>2. StepOf(s) /\ pc'[s] = "failed"
    BY <1>1, <1>2, <2>1, SteppedOf
  <2>3. AnswerOf(s)'
    BY <2>1, <2>2 DEF AnswerOf, AnsweredTasks
  <2> QED BY <2>2, <2>3, AnswersKept
<1>4. CASE Step(s, "check", "check")
  <2>1. StepOf(s) /\ pc'[s] = "check"
    BY <1>1, <1>2, <1>4, SteppedOf
  <2> QED BY <2>1, NoAnswer
<1> QED BY <1>3, <1>4 DEF CheckFile

(* setup_tasks answers with what both readers say.                         *)
LEMMA AnswerTasksAnswers ==
    ASSUME IInv, AnswersInv, NEW s \in Script, AnswerTasks(s)
    PROVE  AnswersInv'
<1>1. TypeOK /\ own \in [Script -> {own[q] : q \in Script}]
  BY DEF IInv, TypeOK
<1>2. \A q \in Script \ {s} : own'[q] = own[q]
  BY <1>1 DEF AnswerTasks, Fail
<1>3. CASE ResolveTemplateContent(layout).kind # "text"
  <2>1. Step(s, "check", "failed")
    BY <1>3 DEF AnswerTasks, Fail
  <2>2. StepOf(s) /\ pc'[s] = "failed"
    BY <1>1, <1>2, <2>1, SteppedOf
  <2>3. AnswerOf(s)'
    BY <1>3, <2>2 DEF AnswerOf, AnsweredTasks, StepOf
  <2> QED BY <2>2, <2>3, AnswersKept
<1>4. CASE ResolveTemplateContent(layout).kind = "text"
  <2>1. PICK text, place : /\ text = ResolveTemplateContent(layout).text
                           /\ place = ResolveTemplate(layout)
    OBVIOUS
  <2>2. /\ Step(s, "check", IF place = Raises THEN "crashed" ELSE "done")
        /\ own' = [own EXCEPT ![s].content = text, ![s].place = place]
    BY <1>4, <2>1, Zenon DEF AnswerTasks
  <2>3. StepOf(s) /\ pc'[s] = IF place = Raises THEN "crashed" ELSE "done"
    BY <1>1, <1>2, <2>2, SteppedOf
  <2>4. own'[s].content = text /\ own'[s].place = place
    <3>1. OwnRecord(own[s]) /\ own \in [Script -> {own[q] : q \in Script}]
      BY <1>1, TypeParts DEF OwnOK
    <3> QED BY <2>2, <3>1 DEF OwnRecord
  <2>5. layout' = layout
    BY <2>3 DEF StepOf
  <2>6. AnswerOf(s)'
    BY <1>4, <2>1, <2>3, <2>4, <2>5 DEF AnswerOf, AnsweredTasks
  <2> QED BY <2>3, <2>6, AnswersKept
<1> QED BY <1>3, <1>4

(* check_prerequisites has an answer of its own, and a killed script has   *)
(* none.                                                                   *)
LEMMA OtherAnswers ==
    ASSUME IInv, AnswersInv, NEW s \in Script, AnswerCheck(s) \/ Kill(s)
    PROVE  AnswersInv'
<1>1. TypeOK
  BY DEF IInv
<1>2. \A q \in Script \ {s} : own'[q] = own[q]
  BY DEF AnswerCheck, Kill, Fail
<1>3. CASE AnswerCheck(s)
  <2>1. call[s].kind # "tasks" /\ \E from, to : Step(s, from, to)
    BY <1>3 DEF AnswerCheck, Fail
  <2>2. StepOf(s)
    BY <1>1, <1>2, <2>1, SteppedOf
  <2> QED BY <2>1, <2>2, NoAnswer
<1>4. CASE Kill(s)
  <2>1. Step(s, pc[s], "killed")
    BY <1>4 DEF Kill
  <2>2. StepOf(s) /\ pc'[s] = "killed"
    BY <1>1, <1>2, <2>1, SteppedOf
  <2> QED BY <2>2, NoAnswer
<1> QED BY <1>3, <1>4

(* At the start nobody has answered.                                       *)
LEMMA InitAnswers == Init => AnswersInv
<1> SUFFICES ASSUME NEW start \in Starts, NEW template \in Layouts,
                    NEW calls \in [Script -> Commands], StartsWith(start, template, calls)
             PROVE  AnswersInv
  BY DEF Init
<1>1. \A s \in Script : pc[s] = "start" /\ own[s].dir = NoDirectory
  BY DEF StartsWith
<1>2. IsTree(layout)
  BY LayoutsAssumption DEF StartsWith, IsTree
<1> QED BY <1>1, <1>2 DEF AnswersInv, AnswerOf, AnsweredTasks

(* Every step keeps what was answered.                                     *)
LEMMA NextAnswers == IInv /\ AnswersInv /\ [Next]_vars => AnswersInv'
<1> SUFFICES ASSUME IInv, AnswersInv, [Next]_vars PROVE AnswersInv'
  OBVIOUS
<1>1. CASE \E s \in Script :
             \/ StartCreate(s) \/ TakeStamp(s) \/ TakeNext(s) \/ TakeRequested(s)
             \/ SearchFromHighest(s) \/ Search(s) \/ CheckExisting(s)
  BY <1>1, CreatingAnswers
<1>2. CASE \E s \in Script : \/ LookForFile(s) \/ MakeDirectory(s)
                             \/ TruncateFile(s) \/ FillFile(s) \/ TouchFile(s)
  BY <1>2, WritingAnswers
<1>3. CASE \E s \in Script : PathsFromEnvironment(s) \/ PathsFromPointer(s)
  BY <1>3, PathsAnswers
<1>4. CASE \E s \in Script : ComparePointer(s) \/ TruncatePointer(s) \/ StorePointer(s)
  BY <1>4, PointingAnswers
<1>5. CASE \E s \in Script : CheckFile(s)
  BY <1>5, CheckFileAnswers
<1>6. CASE \E s \in Script : AnswerTasks(s)
  BY <1>6, AnswerTasksAnswers
<1>7. CASE \E s \in Script : AnswerCheck(s) \/ Kill(s)
  BY <1>7, OtherAnswers
<1>8. CASE UNCHANGED <<layout, call, pc, own>>
  BY <1>8 DEF AnswersInv, AnswerOf, AnsweredTasks
<1>9. (\E d \in DOMAIN features : \E f \in {"spec", "plan"} : Write(d, f)) \/ UNCHANGED vars
      => UNCHANGED <<layout, call, pc, own>>
  BY DEF Write, vars
<1> QED BY <1>1, <1>2, <1>3, <1>4, <1>5, <1>6, <1>7, <1>8, <1>9 DEF Next

(* What a stack ends with is nothing, a refusal or a text, and no more.     *)
IsOutcome(v) == v = Nothing \/ v = Refused \/ v = Resolved(v.text)

(* A text is such an outcome.                                              *)
LEMMA OutcomeOfText == \A text : IsOutcome(Resolved(text))
  BY DEF IsOutcome, Resolved

(* A place over an outcome is an outcome.                                  *)
LEMMA OutcomeOn ==
    ASSUME NEW place, NEW below, IsOutcome(below)
    PROVE  IsOutcome(On(place, below))
<1>1. \/ On(place, below) = below
      \/ On(place, below) = Refused
      \/ \E text : On(place, below) = Resolved(text)
  BY Zenon DEF On
<1> QED BY <1>1, OutcomeOfText DEF IsOutcome

(* When the stack has a text there is nothing else to it.                  *)
LEMMA TextIsResolved ==
    ASSUME NEW t, IsTree(t), TextFrom(t).kind = "text"
    PROVE  TextFrom(t) = Resolved(TextFrom(t).text)
<1>1. PICK M \in Nat : M = Len(Places(t))
  BY PlacesAre DEF ArePlaces
<1>2. PICK f : /\ TextFrom(t) = f[M] /\ f[0] = Nothing
               /\ \A n \in 1..M : f[n] = On(Places(t)[M + 1 - n], f[n - 1])
  BY <1>1, TextSteps
<1> DEFINE told == {n \in 0..M : IsOutcome(f[n])}
<1>3. 0 \in told
  BY <1>2 DEF IsOutcome
<1>4. ASSUME NEW n \in 0..M, n \in told, n < M PROVE n + 1 \in told
  <2>1. n + 1 \in 1..M /\ n + 1 \in 0..M /\ (n + 1) - 1 = n
    BY <1>4
  <2>2. PICK place : place = Places(t)[M + 1 - (n + 1)]
    OBVIOUS
  <2>3. f[n + 1] = On(place, f[n])
    BY <1>2, <2>1, <2>2
  <2>4. IsOutcome(f[n])
    BY <1>4
  <2> QED BY <2>1, <2>3, <2>4, OutcomeOn
<1>5. \A n \in 0..M : n \in told
  <2> HIDE DEF told
  <2> QED BY <1>3, <1>4, UpTo
<1>6. IsOutcome(TextFrom(t))
  BY <1>2, <1>5
<1>7. Nothing.kind # "text" /\ Refused.kind # "text"
  BY DEF Nothing, Refused
<1> QED BY <1>6, <1>7 DEF IsOutcome

(* What setup_tasks has answered, or failed over, is what both readers of  *)
(* the templates make of the tree.                                         *)
THEOREM AnswersAreRead == Spec => []AnswersInv
<1>1. Init => AnswersInv
  BY InitAnswers
<1>2. IInv /\ AnswersInv /\ [Next]_vars => AnswersInv'
  BY NextAnswers
<1> QED BY <1>1, <1>2, Inductive, PTL DEF Spec

(* The text that setup_tasks prints is the stack's, for every tree of      *)
(* overrides, presets, extensions and core templates, with any number of   *)
(* layers and any strategies; and when the stack has a text, it prints it. *)
THEOREM TheStack == Spec => []ContentIsTheStack
<1>1. AnswersInv => ContentIsTheStack
  <2> SUFFICES ASSUME AnswersInv, NEW s \in Script
               PROVE  /\ AnsweredTasks(s) => Resolved(own[s].content) = TextFrom(layout)
                      /\ call[s].kind = "tasks" /\ pc[s] = "failed" /\ own[s].wants = <<>>
                            /\ own[s].dir # NoDirectory
                         => TextFrom(layout).kind # "text"
    BY DEF ContentIsTheStack
  <2>1. AnswerOf(s) /\ ResolveTemplateContent(layout) = TextFrom(layout)
    BY ContentOfStack DEF AnswersInv
  <2>2. ASSUME AnsweredTasks(s) PROVE Resolved(own[s].content) = TextFrom(layout)
    <3>1. TextFrom(layout).kind = "text" /\ own[s].content = TextFrom(layout).text
      BY <2>1, <2>2 DEF AnswerOf, AnsweredTasks
    <3> QED BY <3>1, TextIsResolved DEF AnswersInv
  <2> QED BY <2>1, <2>2 DEF AnswerOf
<1> QED BY <1>1, AnswersAreRead, PTL

(* Where no preset has a manifest the file that setup_tasks names holds    *)
(* the text that it prints, and it does not crash.                         *)
THEOREM ThePlace == Spec => []PlaceTellsTheContent
<1>1. AnswersInv => PlaceTellsTheContent
  <2> SUFFICES ASSUME AnswersInv, NEW s \in Script, AnsweredTasks(s), Unmanifested(layout)
               PROVE  pc[s] = "done" /\ own[s].content = TextAt(layout, own[s].place)
    BY DEF PlaceTellsTheContent, Unmanifested
  <2>1. /\ ResolveTemplateContent(layout) = TextFrom(layout)
        /\ AnswerOf(s) /\ IsTree(layout)
    BY ContentOfStack DEF AnswersInv
  <2>2. /\ TextFrom(layout).kind = "text" /\ own[s].content = TextFrom(layout).text
        /\ own[s].place = ResolveTemplate(layout)
        /\ pc[s] = "crashed" => ResolveTemplate(layout) = Raises
    BY <2>1 DEF AnswerOf, AnsweredTasks
  <2>3. ResolveTemplate(layout) # Raises
        /\ TextFrom(layout).text = TextAt(layout, ResolveTemplate(layout))
    BY <2>1, <2>2, PlaceOfStack
  <2> QED BY <2>2, <2>3 DEF AnsweredTasks
<1> QED BY <1>1, AnswersAreRead, PTL

=============================================================================
