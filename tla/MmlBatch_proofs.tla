-------------------------- MODULE MmlBatch_proofs --------------------------
(***************************************************************************)
(* Proofs about MmlBatch for any elements, batches, rounds and reports:    *)
(* what TLC checks for three elements.  First the rounds of _execute_mml,  *)
(* then the parser on every report that MAE prints, line by line, and last *)
(* the two together.                                                       *)
(***************************************************************************)
EXTENDS MmlBatch, FiniteSetTheorems, SequenceTheorems, TLAPS

LEMMA HasSmallest ==
    ASSUME NEW S \in SUBSET Nat, S # {}
    PROVE  \E n \in S : \A m \in S : n <= m
<1> DEFINE R == {ss \in Nat \X Nat : ss[1] < ss[2]}
<1>1. IsWellFoundedOn(R, Nat)
  BY NatLessThanWellFounded DEF OpToRel
<1>2. PICK n \in S : \A m \in S : ~(<<m, n>> \in R)
  <2> HIDE DEF R
  <2> QED BY <1>1, WFMin
<1>3. ASSUME NEW m \in S PROVE n <= m
  <2>1. m \in Nat /\ n \in Nat
    OBVIOUS
  <2>2. m < n => <<m, n>> \in R
    BY <2>1
  <2> QED BY <1>2, <2>1, <2>2
<1> QED BY <1>3

(* Induction up to a bound: a set that holds 0 and, with a number below    *)
(* the bound, the next one holds every number up to it.                    *)
LEMMA UpTo ==
    ASSUME NEW M \in Nat, NEW S, 0 \in S,
           \A i \in 0..M : i \in S /\ i < M => i + 1 \in S
    PROVE  \A i \in 0..M : i \in S
<1> DEFINE out == {i \in 0..M : i \notin S}
<1> SUFFICES ASSUME out # {} PROVE FALSE
  OBVIOUS
<1>1. PICK n \in out : \A m \in out : n <= m
  <2>1. out \in SUBSET Nat
    OBVIOUS
  <2> HIDE DEF out
  <2> QED BY <2>1, HasSmallest
<1>2. n \in 1..M /\ n - 1 \in 0..M /\ n - 1 < M /\ n - 1 \notin out
  BY <1>1
<1>3. n - 1 \in S /\ (n - 1) + 1 = n
  BY <1>2
<1> QED BY <1>1, <1>2, <1>3

-----------------------------------------------------------------------------
(* The elements of a sequence that are within a set.                       *)

(* Within(s, S) goes through s element by element. *)
LEMMA WithinSteps ==
    ASSUME NEW T, NEW s \in Seq(T), NEW S
    PROVE  \E f : /\ Within(s, S) = f[Len(s)] /\ f[0] = <<>>
                  /\ \A i \in 1..Len(s) :
                        f[i] = IF s[i] \in S THEN Append(f[i - 1], s[i]) ELSE f[i - 1]
<1> DEFINE Kept(f, n) ==
             f = [i \in 0..n |-> IF i = 0 THEN <<>>
                                 ELSE IF s[i] \in S THEN Append(f[i - 1], s[i]) ELSE f[i - 1]]
           some == {n \in Nat : \E f : Kept(f, n)}
           kept == CHOOSE f : Kept(f, Len(s))
<1>1. Len(s) \in Nat
  OBVIOUS
<1>2. 0 \in some
  <2>1. Kept([i \in 0..0 |-> <<>>], 0)
    OBVIOUS
  <2> QED BY <2>1
<1>3. ASSUME NEW n \in 0..Len(s), n \in some, n < Len(s) PROVE n + 1 \in some
  <2>1. PICK f : Kept(f, n)
    BY <1>3
  <2> DEFINE g == [i \in 0..(n + 1) |->
                      IF i <= n THEN f[i]
                      ELSE IF s[i] \in S THEN Append(f[n], s[i]) ELSE f[n]]
  <2>2. ASSUME NEW i \in 0..(n + 1)
        PROVE  g[i] = IF i = 0 THEN <<>>
                      ELSE IF s[i] \in S THEN Append(g[i - 1], s[i]) ELSE g[i - 1]
    <3>1. CASE i = 0
      BY <2>1, <3>1
    <3>2. CASE i \in 1..n
      <4>1. g[i] = f[i] /\ g[i - 1] = f[i - 1] /\ i \in 0..n /\ i # 0
        BY <3>2
      <4>2. f[i] = IF s[i] \in S THEN Append(f[i - 1], s[i]) ELSE f[i - 1]
        BY <2>1, <4>1
      <4> QED BY <4>1, <4>2
    <3>3. CASE i = n + 1
      BY <1>1, <3>3
    <3> QED BY <3>1, <3>2, <3>3
  <2>3. Kept(g, n + 1)
    BY <2>2
  <2> HIDE DEF g, Kept
  <2> QED BY <1>1, <2>3
<1>4. Len(s) \in some
  <2> HIDE DEF some
  <2>1. \A i \in 0..Len(s) : i \in some
    BY <1>1, <1>2, <1>3, UpTo
  <2> QED BY <1>1, <2>1
<1>5. Kept(kept, Len(s))
  BY <1>4
<1>6. Within(s, S) = kept[Len(s)]
  BY DEF Within
<1> HIDE DEF kept
<1>7. kept[0] = <<>>
  BY <1>1, <1>5
<1>8. ASSUME NEW i \in 1..Len(s)
      PROVE  kept[i] = IF s[i] \in S THEN Append(kept[i - 1], s[i]) ELSE kept[i - 1]
  <2>1. i \in 0..Len(s) /\ i # 0
    BY <1>1
  <2> QED BY <1>5, <2>1
<1> QED BY <1>6, <1>7, <1>8

LEMMA AppendIs ==
    ASSUME NEW T, NEW s \in Seq(T), NEW x \in T
    PROVE  /\ Append(s, x) \in Seq(T) /\ Len(Append(s, x)) = Len(s) + 1
           /\ \A i \in 1..Len(s) : Append(s, x)[i] = s[i]
           /\ Append(s, x)[Len(s) + 1] = x
           /\ ToSet(Append(s, x)) = ToSet(s) \cup {x}
<1> DEFINE t == Append(s, x)
<1>1. /\ t \in Seq(T) /\ Len(t) = Len(s) + 1 /\ Len(s) \in Nat
      /\ \A i \in 1..Len(s) : t[i] = s[i]
      /\ t[Len(s) + 1] = x
  OBVIOUS
<1> HIDE DEF t
<1>2. DOMAIN s = 1..Len(s) /\ DOMAIN t = 1..(Len(s) + 1)
  BY <1>1
<1>3. ToSet(t) = ToSet(s) \cup {x}
  <2>1. ASSUME NEW i \in 1..(Len(s) + 1) PROVE t[i] \in ToSet(s) \cup {x}
    <3>1. CASE i = Len(s) + 1
      BY <1>1, <3>1
    <3>2. CASE i # Len(s) + 1
      <4>1. i \in 1..Len(s)
        BY <1>1, <3>2
      <4> QED BY <1>1, <1>2, <4>1 DEF ToSet
    <3> QED BY <3>1, <3>2
  <2>2. ASSUME NEW i \in 1..Len(s) PROVE s[i] \in ToSet(t)
    BY <1>1, <1>2 DEF ToSet
  <2>3. x \in ToSet(t)
    BY <1>1, <1>2 DEF ToSet
  <2> QED BY <1>2, <2>1, <2>2, <2>3 DEF ToSet
<1> QED BY <1>1, <1>3 DEF t

(* What it keeps: the elements in the set; all of s when they all are, and *)
(* less when one is not.                                                   *)
LEMMA WithinIs ==
    ASSUME NEW T, NEW s \in Seq(T), NEW S
    PROVE  /\ Within(s, S) \in Seq(T)
           /\ ToSet(Within(s, S)) = ToSet(s) \cap S
           /\ ToSet(s) \subseteq S => Within(s, S) = s
           /\ ~(ToSet(s) \subseteq S) => Len(Within(s, S)) < Len(s)
<1>1. Len(s) \in Nat /\ DOMAIN s = 1..Len(s) /\ \A i \in 1..Len(s) : s[i] \in T
  OBVIOUS
<1>2. PICK f : /\ Within(s, S) = f[Len(s)] /\ f[0] = <<>>
               /\ \A i \in 1..Len(s) :
                     f[i] = IF s[i] \in S THEN Append(f[i - 1], s[i]) ELSE f[i - 1]
  BY WithinSteps
<1> DEFINE Kept(i) == /\ f[i] \in Seq(T) /\ Len(f[i]) <= i
                      /\ ToSet(f[i]) = {s[j] : j \in 1..i} \cap S
                      /\ (\A j \in 1..i : s[j] \in S) =>
                            Len(f[i]) = i /\ \A j \in 1..i : f[i][j] = s[j]
                      /\ (\E j \in 1..i : s[j] \notin S) => Len(f[i]) < i
           good == {i \in Nat : Kept(i)}
<1>3. 0 \in good
  <2>1. f[0] = <<>> /\ Len(<<>>) = 0 /\ <<>> \in Seq(T) /\ ToSet(<<>>) = {}
    BY <1>2 DEF ToSet
  <2>2. \A j \in 1..0 : FALSE
    OBVIOUS
  <2>3. {s[j] : j \in 1..0} = {}
    BY <2>2
  <2>4. Kept(0)
    BY <2>1, <2>2, <2>3
  <2> HIDE DEF Kept
  <2> QED BY <2>4
<1>4. ASSUME NEW i \in 0..Len(s), i \in good, i < Len(s) PROVE i + 1 \in good
  <2>1. Kept(i) /\ i + 1 \in 1..Len(s) /\ i + 1 \in Nat /\ (i + 1) - 1 = i /\ i \in Nat
    BY <1>1, <1>4
  <2>2. {s[j] : j \in 1..(i + 1)} = {s[j] : j \in 1..i} \cup {s[i + 1]}
    <3>1. 1..(i + 1) = (1..i) \cup {i + 1}
      BY <2>1
    <3> QED BY <3>1
  <2>3. f[i + 1] = IF s[i + 1] \in S THEN Append(f[i], s[i + 1]) ELSE f[i]
    BY <1>2, <2>1
  <2>4. CASE s[i + 1] \in S
    <3> DEFINE t == Append(f[i], s[i + 1])
    <3>1. f[i + 1] = t
      BY <2>3, <2>4
    <3>2. /\ t \in Seq(T) /\ Len(t) = Len(f[i]) + 1
          /\ \A j \in 1..Len(f[i]) : t[j] = f[i][j]
          /\ t[Len(f[i]) + 1] = s[i + 1]
          /\ ToSet(t) = ToSet(f[i]) \cup {s[i + 1]}
      BY <1>1, <2>1, AppendIs
    <3> HIDE DEF t
    <3>3. Len(f[i]) \in Nat
      BY <2>1
    <3>4. t \in Seq(T) /\ Len(t) <= i + 1
      BY <2>1, <3>2, <3>3
    <3>5. ToSet(t) = {s[j] : j \in 1..(i + 1)} \cap S
      BY <2>1, <2>2, <2>4, <3>2
    <3>6. (\A j \in 1..(i + 1) : s[j] \in S) =>
             Len(t) = i + 1 /\ \A j \in 1..(i + 1) : t[j] = s[j]
      <4> SUFFICES ASSUME \A j \in 1..(i + 1) : s[j] \in S
                   PROVE  Len(t) = i + 1 /\ \A j \in 1..(i + 1) : t[j] = s[j]
        OBVIOUS
      <4>1. Len(f[i]) = i /\ \A j \in 1..i : f[i][j] = s[j]
        BY <2>1
      <4>2. \A j \in 1..(i + 1) : j \in 1..i \/ j = i + 1
        BY <2>1
      <4> QED BY <3>2, <4>1, <4>2
    <3>7. (\E j \in 1..(i + 1) : s[j] \notin S) => Len(t) < i + 1
      <4> SUFFICES ASSUME NEW j \in 1..(i + 1), s[j] \notin S PROVE Len(t) < i + 1
        OBVIOUS
      <4>1. j \in 1..i
        BY <2>1, <2>4
      <4>2. Len(f[i]) < i
        BY <2>1, <4>1
      <4> QED BY <2>1, <3>2, <3>3, <4>2
    <3>8. Kept(i + 1)
      BY <3>1, <3>4, <3>5, <3>6, <3>7
    <3> HIDE DEF Kept
    <3> QED BY <2>1, <3>8
  <2>5. CASE s[i + 1] \notin S
    <3>1. f[i + 1] = f[i] /\ Len(f[i]) \in Nat
      BY <2>1, <2>3, <2>5
    <3>2. {s[j] : j \in 1..i} \cap S = {s[j] : j \in 1..(i + 1)} \cap S
      BY <2>2, <2>5
    <3>3. ~(\A j \in 1..(i + 1) : s[j] \in S)
      BY <2>1, <2>5
    <3>4. Len(f[i]) <= i + 1 /\ Len(f[i]) < i + 1
      BY <2>1, <3>1
    <3>5. Kept(i + 1)
      BY <2>1, <3>1, <3>2, <3>3, <3>4
    <3> HIDE DEF Kept
    <3> QED BY <2>1, <3>5
  <2> QED BY <2>4, <2>5
<1>5. Len(s) \in good
  <2> HIDE DEF good
  <2>1. \A i \in 0..Len(s) : i \in good
    BY <1>1, <1>3, <1>4, UpTo
  <2> QED BY <1>1, <2>1
<1>6. Kept(Len(s))
  BY <1>5
<1>7. ToSet(s) = {s[j] : j \in 1..Len(s)}
  BY <1>1 DEF ToSet
<1>8. ToSet(s) \subseteq S => Within(s, S) = s
  BY <1>1, <1>2, <1>6, <1>7, SeqEqual
<1>9. ~(ToSet(s) \subseteq S) => Len(Within(s, S)) < Len(s)
  BY <1>2, <1>6, <1>7
<1> QED BY <1>2, <1>6, <1>7, <1>8, <1>9

-----------------------------------------------------------------------------
(* Orders and names.                                                       *)

(* An order of a finite set names each of its elements, once. *)
LEMMA OrderIs ==
    ASSUME NEW S, IsFiniteSet(S), NEW s \in SetToSeqs(S)
    PROVE  /\ s \in Seq(S) /\ Len(s) = Cardinality(S) /\ ToSet(s) = S
           /\ \A i, j \in 1..Len(s) : i # j => s[i] # s[j]
<1> DEFINE D == 1..Cardinality(S)
<1>1. Cardinality(S) \in Nat
  BY FS_CardinalityType
<1>2. s \in [D -> S] /\ \A i, j \in D : i # j => s[i] # s[j]
  BY DEF SetToSeqs
<1>3. s \in Seq(S) /\ Len(s) = Cardinality(S)
  BY <1>1, <1>2
<1>4. s \in Injection(D, S)
  BY <1>2 DEF Injection, IsInjective
<1>5. IsFiniteSet(D) /\ Cardinality(D) = Cardinality(S)
  BY <1>1, FS_Interval
<1>6. s \in Surjection(D, S)
  BY <1>4, <1>5, FS_Injection
<1>7. \A x \in S : \E i \in D : s[i] = x
  BY <1>6 DEF Surjection
<1> QED BY <1>2, <1>3, <1>7 DEF ToSet

LEMMA NamesOfSeq ==
    ASSUME NEW S, NEW s \in Seq(S)
    PROVE  ToSet(s) \subseteq S /\ IsFiniteSet(ToSet(s))
<1>1. DOMAIN s = 1..Len(s) /\ Len(s) \in Nat
  OBVIOUS
<1>2. ToSet(s) \subseteq S
  BY <1>1 DEF ToSet
<1>3. IsFiniteSet(DOMAIN s)
  BY <1>1, FS_Interval
<1> DEFINE g == [x \in DOMAIN s |-> s[x]]
<1>4. g \in Surjection(DOMAIN s, {s[x] : x \in DOMAIN s})
  BY DEF Surjection
<1>5. IsFiniteSet({s[x] : x \in DOMAIN s})
  <2> HIDE DEF g
  <2> QED BY <1>3, <1>4, FS_Surjection
<1> QED BY <1>2, <1>5 DEF ToSet

(* Without takes away what is named, and something when that occurs. *)
LEMMA WithoutIs ==
    ASSUME NEW T, NEW s \in Seq(T), NEW S
    PROVE  /\ Without(s, S) \in Seq(T)
           /\ ToSet(Without(s, S)) = ToSet(s) \ S
           /\ S \cap ToSet(s) # {} => Len(Without(s, S)) < Len(s)
<1>1. ToSet(s) \cap (ToSet(s) \ S) = ToSet(s) \ S
  OBVIOUS
<1> QED BY <1>1, WithinIs DEF Without

-----------------------------------------------------------------------------
(* The rounds of a batch.                                                  *)

Phases == {"posting", "answered", "rejected", "failed", "crashed"}

TypeOK ==
    /\ requested \in Seq(Names) /\ requested # <<>>
    /\ remaining \in Seq(Names)
    /\ missing \subseteq Names
    /\ phase \in Phases

(* What was refused is set aside and the rest, nothing else, is sent. *)
RoundsInv ==
    /\ missing \subseteq ToSet(requested)
    /\ ToSet(remaining) = ToSet(requested) \ missing
    /\ missing = {} => remaining = requested

(* The results are for the names of the request, in the order promised. *)
ResultsInv ==
    phase = "answered" => results \in AnswersTo(requested, missing # {})

BatchInv == TypeOK /\ RoundsInv /\ ResultsInv

LEMMA BatchInit == Init => BatchInv
<1> SUFFICES ASSUME Init PROVE BatchInv
  OBVIOUS
<1>1. requested \in Seq(Names) /\ requested # <<>>
  <2>1. PICK n \in 1..MaxNames : requested \in [1..n -> Names]
    BY Zenon DEF Init, Batches
  <2>2. n \in Nat /\ n # 0
    BY MaxNamesAssumption
  <2> QED BY <2>1, <2>2
<1>2. TypeOK /\ RoundsInv
  BY <1>1 DEF Init, TypeOK, Phases, RoundsInv
<1>3. ResultsInv
  BY DEF Init, ResultsInv
<1> QED BY <1>2, <1>3 DEF BatchInv

(* The answer that is put together from what Huawei answered to the last   *)
(* batch and what was set aside.                                           *)
LEMMA MergedIs ==
    ASSUME requested \in Seq(Names), NEW aside, aside \subseteq ToSet(requested),
           NEW answered, ToSet(answered) = ToSet(requested) \ aside,
           aside = {} => answered \in OnceEach(requested)
    PROVE  Merged(answered, aside) \in AnswersTo(requested, aside # {})
<1>1. CASE aside = {}
  BY <1>1 DEF Merged, AnswersTo
<1>2. CASE aside # {}
  <2>1. ToSet(requested) \subseteq ToSet(answered) \cup aside
    OBVIOUS
  <2>2. Within(requested, ToSet(answered) \cup aside) = requested
    BY <2>1, WithinIs
  <2> QED BY <1>2, <2>2 DEF Merged, AnswersTo
<1> QED BY <1>1, <1>2

LEMMA FinishIs ==
    ASSUME NEW answered, NEW aside, Finish(answered, aside)
    PROVE  /\ phase' \in {"crashed", "answered"}
           /\ phase' = "answered" => results' = Merged(answered, aside)
BY DEF Finish

LEMMA KeepRefused ==
    ASSUME BatchInv, NEW named \in SUBSET Names, NamesRefused(named)
    PROVE  /\ BatchInv'
           /\ phase' # "rejected" => /\ Len(remaining') < Len(remaining)
                                     /\ ToSet(remaining') \cap missing' = {}
<1> DEFINE newly == named \cap ToSet(remaining)
           left == Without(remaining, newly)
<1>1. TypeOK /\ RoundsInv /\ phase = "posting" /\ requested' = requested
  BY DEF BatchInv, NamesRefused
<1>2. /\ left \in Seq(Names) /\ ToSet(left) = ToSet(remaining) \ newly
      /\ newly # {} => Len(left) < Len(remaining)
  BY <1>1, WithoutIs DEF TypeOK
<1>3. CASE newly = {} /\ phase' = "rejected" /\ UNCHANGED <<remaining, missing, results, reported>>
  BY <1>1, <1>3 DEF BatchInv, TypeOK, RoundsInv, Phases, ResultsInv
<1>4. CASE newly # {} /\ remaining' = left /\ missing' = missing \cup newly
  <2>1. remaining' \in Seq(Names) /\ missing' \subseteq Names
    BY <1>1, <1>2, <1>4 DEF TypeOK, RoundsInv
  <2>2. missing' # {} /\ missing' \subseteq ToSet(requested)
        /\ ToSet(remaining') = ToSet(requested) \ missing'
    BY <1>1, <1>2, <1>4 DEF RoundsInv
  <2>3. RoundsInv'
    BY <1>1, <2>2 DEF RoundsInv
  <2>4. Len(remaining') < Len(remaining) /\ ToSet(remaining') \cap missing' = {}
    BY <1>2, <1>4, <2>2
  <2>5. CASE left # <<>> /\ phase' = phase
    BY <1>1, <2>1, <2>3, <2>4, <2>5 DEF BatchInv, TypeOK, ResultsInv
  <2>6. CASE left = <<>> /\ Finish(<<>>, missing')
    <3>1. ToSet(<<>>) = {} /\ ToSet(requested) \ missing' = {}
      BY <1>4, <2>2, <2>6 DEF ToSet
    <3>2. Merged(<<>>, missing') \in AnswersTo(requested, missing' # {})
      BY <1>1, <2>2, <3>1, MergedIs DEF TypeOK
    <3>3. /\ phase' \in {"crashed", "answered"}
          /\ phase' = "answered" => results' = Merged(<<>>, missing')
      BY <2>6, FinishIs
    <3>4. TypeOK'
      BY <1>1, <2>1, <3>3 DEF TypeOK, Phases
    <3>5. ResultsInv'
      BY <1>1, <3>2, <3>3 DEF ResultsInv
    <3> QED BY <2>3, <2>4, <3>4, <3>5 DEF BatchInv
  <2> QED BY <1>4, <2>5, <2>6 DEF NamesRefused
<1> QED BY <1>3, <1>4 DEF NamesRefused

LEMMA KeepAnswered ==
    ASSUME BatchInv, BatchAnswered
    PROVE  BatchInv'
<1>1. TypeOK /\ RoundsInv /\ UNCHANGED <<requested, remaining, missing>>
  BY DEF BatchInv, BatchAnswered
<1>2. PICK a \in OnceEach(remaining) : Finish(a, missing)
  BY DEF BatchAnswered
<1>3. ToSet(a) = ToSet(remaining)
  <2>1. IsFiniteSet(ToSet(remaining))
    BY <1>1, NamesOfSeq DEF TypeOK
  <2> QED BY <2>1, OrderIs DEF OnceEach
<1>4. Merged(a, missing) \in AnswersTo(requested, missing # {})
  BY <1>1, <1>3, MergedIs DEF TypeOK, RoundsInv
<1>5. /\ phase' \in {"crashed", "answered"}
      /\ phase' = "answered" => results' = Merged(a, missing)
  BY <1>2, FinishIs
<1>6. TypeOK' /\ RoundsInv'
  BY <1>1, <1>5 DEF TypeOK, RoundsInv, Phases
<1>7. ResultsInv'
  BY <1>1, <1>4, <1>5 DEF ResultsInv
<1> QED BY <1>6, <1>7 DEF BatchInv

LEMMA BatchNext == BatchInv /\ [Next]_vars => BatchInv'
<1> SUFFICES ASSUME BatchInv, [Next]_vars PROVE BatchInv'
  OBVIOUS
<1>1. ASSUME NEW named \in (SUBSET Names) \ {{}}, NamesRefused(named) PROVE BatchInv'
  BY <1>1, KeepRefused
<1>2. CASE RequestFails
  BY <1>2 DEF RequestFails, BatchInv, TypeOK, RoundsInv, Phases, ResultsInv
<1>3. CASE BatchAnswered
  BY <1>3, KeepAnswered
<1>4. CASE UNCHANGED vars
  BY <1>4 DEF vars, BatchInv, TypeOK, RoundsInv, ResultsInv
<1> QED BY <1>1, <1>2, <1>3, <1>4 DEF Next

(* The rounds keep what was asked for: at each moment the elements that    *)
(* are set aside and those that are sent make up the request.              *)
THEOREM RoundsKeepTheRequest == Spec => []BatchInv
BY BatchInit, BatchNext, PTL DEF Spec

(* The loop over the rounds ends: each one sends fewer elements.           *)
THEOREM RoundsEnd == Spec => RoundsShrink
<1>1. BatchInv /\ [Next]_vars =>
        [\A named \in SUBSET Names :
            NamesRefused(named) /\ phase' # "rejected" =>
                /\ Len(remaining') < Len(remaining)
                /\ ToSet(remaining') \cap missing' = {}]_vars
  BY KeepRefused
<1> QED BY <1>1, RoundsKeepTheRequest, PTL DEF Spec, RoundsShrink

-----------------------------------------------------------------------------
(* Sequences that are put together.                                        *)

(* The provers look for no element of a concatenation behind this name. *)
Joined(a, b) == a \o b

LEMMA JoinedIs ==
    ASSUME NEW T, NEW a \in Seq(T), NEW b \in Seq(T)
    PROVE  /\ Joined(a, b) \in Seq(T) /\ Len(Joined(a, b)) = Len(a) + Len(b)
           /\ Len(a) \in Nat /\ Len(b) \in Nat
           /\ \A i \in 1..Len(a) : Joined(a, b)[i] = a[i]
           /\ \A i \in 1..Len(b) : Joined(a, b)[Len(a) + i] = b[i]
           /\ Joined(a, <<>>) = a /\ Joined(<<>>, a) = a
BY DEF Joined

LEMMA JoinedLeft ==
    ASSUME NEW T, NEW a \in Seq(T), NEW b \in Seq(T), NEW i \in 1..Len(a)
    PROVE  Joined(a, b)[i] = a[i]
BY DEF Joined

LEMMA JoinedRight ==
    ASSUME NEW T, NEW a \in Seq(T), NEW b \in Seq(T), NEW i \in 1..Len(b)
    PROVE  Joined(a, b)[Len(a) + i] = b[i]
BY DEF Joined

(* What is where in sequences that are put together. *)
Two(s, a, b) ==
    /\ Len(s) = Len(a) + Len(b)
    /\ \A i \in 1..Len(a) : s[i] = a[i]
    /\ \A i \in 1..Len(b) : s[Len(a) + i] = b[i]
Three(s, a, b, c) ==
    /\ Len(s) = Len(a) + Len(b) + Len(c)
    /\ \A i \in 1..Len(a) : s[i] = a[i]
    /\ \A i \in 1..Len(b) : s[Len(a) + i] = b[i]
    /\ \A i \in 1..Len(c) : s[Len(a) + Len(b) + i] = c[i]

LEMMA TwoParts ==
    ASSUME NEW T, NEW a \in Seq(T), NEW b \in Seq(T)
    PROVE  \E s \in Seq(T) : s = Joined(a, b) /\ Two(s, a, b)
<1>1. PICK s \in Seq(T) : s = Joined(a, b)
  BY JoinedIs
<1>2. Len(s) = Len(a) + Len(b)
  BY <1>1, JoinedIs
<1>3. ASSUME NEW i \in 1..Len(a) PROVE s[i] = a[i]
  BY <1>1, JoinedLeft
<1>4. ASSUME NEW i \in 1..Len(b) PROVE s[Len(a) + i] = b[i]
  BY <1>1, JoinedRight
<1>5. Two(s, a, b)
  BY <1>2, <1>3, <1>4 DEF Two
<1> QED BY <1>1, <1>5

LEMMA ThreeParts ==
    ASSUME NEW T, NEW a \in Seq(T), NEW b \in Seq(T), NEW c \in Seq(T)
    PROVE  \E s \in Seq(T) : s = Joined(Joined(a, b), c) /\ Three(s, a, b, c)
<1>1. PICK r \in Seq(T) : r = Joined(a, b) /\ Two(r, a, b)
  BY TwoParts
<1>2. PICK s \in Seq(T) : s = Joined(r, c) /\ Two(s, r, c)
  BY TwoParts
<1>3. Len(a) \in Nat /\ Len(b) \in Nat /\ Len(r) = Len(a) + Len(b) /\ Len(s) = Len(r) + Len(c)
  BY <1>1, <1>2 DEF Two
<1>4. ASSUME NEW i \in 1..Len(a) PROVE s[i] = a[i]
  <2>1. i \in 1..Len(r)
    BY <1>3
  <2> QED BY <1>1, <1>2, <2>1 DEF Two
<1>5. ASSUME NEW i \in 1..Len(b) PROVE s[Len(a) + i] = b[i]
  <2>1. Len(a) + i \in 1..Len(r)
    BY <1>3
  <2> QED BY <1>1, <1>2, <2>1 DEF Two
<1>6. ASSUME NEW i \in 1..Len(c) PROVE s[Len(a) + Len(b) + i] = c[i]
  BY <1>2, <1>3 DEF Two
<1>7. Three(s, a, b, c)
  BY <1>3, <1>4, <1>5, <1>6 DEF Three
<1> QED BY <1>1, <1>2, <1>7

LEMMA PairIs == ASSUME NEW a, NEW b PROVE <<a, b>> = Joined(<<a>>, <<b>>)
<1> DEFINE T == {a, b}
<1>1. <<a>> \in Seq(T) /\ <<b>> \in Seq(T) /\ <<a, b>> \in Seq(T)
  OBVIOUS
<1>2. PICK s \in Seq(T), r \in Seq(T), t \in Seq(T) : s = <<a>> /\ r = <<b>> /\ t = <<a, b>>
  BY <1>1
<1>3. /\ Len(s) = 1 /\ s[1] = a /\ Len(r) = 1 /\ r[1] = b
      /\ Len(t) = 2 /\ t[1] = a /\ t[2] = b
  BY <1>2
<1>4. PICK u \in Seq(T) : u = Joined(s, r) /\ Two(u, s, r)
  BY TwoParts
<1>5. Len(u) = 2 /\ u[1] = a /\ u[2] = b
  BY <1>3, <1>4 DEF Two
<1>6. \A i \in 1..Len(t) : t[i] = u[i]
  BY <1>3, <1>5
<1>7. t = u
  BY <1>3, <1>5, <1>6, SeqEqual
<1> QED BY <1>2, <1>4, <1>7

LEMMA TripleIs == ASSUME NEW a, NEW b, NEW c PROVE <<a, b, c>> = Joined(<<a, b>>, <<c>>)
<1> DEFINE T == {a, b, c}
<1>1. <<a, b>> \in Seq(T) /\ <<c>> \in Seq(T) /\ <<a, b, c>> \in Seq(T)
  OBVIOUS
<1>2. PICK s \in Seq(T), r \in Seq(T), t \in Seq(T) : s = <<a, b>> /\ r = <<c>> /\ t = <<a, b, c>>
  BY <1>1
<1>3. /\ Len(s) = 2 /\ s[1] = a /\ s[2] = b /\ Len(r) = 1 /\ r[1] = c
      /\ Len(t) = 3 /\ t[1] = a /\ t[2] = b /\ t[3] = c
  BY <1>2
<1>4. PICK u \in Seq(T) : u = Joined(s, r) /\ Two(u, s, r)
  BY TwoParts
<1>5. Len(u) = 3 /\ u[1] = a /\ u[2] = b /\ u[3] = c
  BY <1>3, <1>4 DEF Two
<1>6. \A i \in 1..Len(t) : t[i] = u[i]
  BY <1>3, <1>5
<1>7. t = u
  BY <1>3, <1>5, <1>6, SeqEqual
<1> QED BY <1>2, <1>4, <1>7

LEMMA JoinedAssociative ==
    ASSUME NEW T, NEW a \in Seq(T), NEW b \in Seq(T), NEW c \in Seq(T)
    PROVE  Joined(Joined(a, b), c) = Joined(a, Joined(b, c))
BY ConcatAssociative DEF Joined

LEMMA AppendToJoined ==
    ASSUME NEW T, NEW a \in Seq(T), NEW b \in Seq(T), NEW x \in T
    PROVE  Append(Joined(a, b), x) = Joined(a, Append(b, x))
<1>1. <<x>> \in Seq(T) /\ a \o b \in Seq(T)
  OBVIOUS
<1>2. (a \o b) \o <<x>> = a \o (b \o <<x>>)
  BY <1>1, ConcatAssociative
<1>3. Append(a \o b, x) = (a \o b) \o <<x>> /\ Append(b, x) = b \o <<x>>
  BY <1>1, AppendIsConcat
<1> QED BY <1>2, <1>3 DEF Joined

LEMMA ConcatHead ==
    ASSUME NEW T, NEW a \in Seq(T), NEW b \in Seq(T), a # <<>>
    PROVE  a \o b # <<>> /\ (a \o b)[1] = a[1]
<1>1. Len(a) \in Nat \ {0} /\ Len(b) \in Nat /\ Len(<<>>) = 0
  BY EmptySeq
<1>2. Len(a \o b) = Len(a) + Len(b)
  OBVIOUS
<1>3. a \o b # <<>>
  BY <1>1, <1>2
<1>4. 1 \in 1..Len(a)
  BY <1>1
<1>5. (a \o b)[1] = a[1]
  BY <1>4
<1> QED BY <1>3, <1>5

LEMMA WithinConcat ==
    ASSUME NEW T, NEW a \in Seq(T), NEW b \in Seq(T), NEW S
    PROVE  Within(Joined(a, b), S) = Joined(Within(a, S), Within(b, S))
<1> DEFINE s == Joined(a, b)
<1>1. /\ s \in Seq(T) /\ Len(s) = Len(a) + Len(b) /\ Len(a) \in Nat /\ Len(b) \in Nat
      /\ \A i \in 1..Len(a) : s[i] = a[i]
      /\ \A i \in 1..Len(b) : s[Len(a) + i] = b[i] /\ b[i] \in T
  <2>1. \A i \in 1..Len(b) : b[i] \in T
    OBVIOUS
  <2>2. /\ s \in Seq(T) /\ Len(s) = Len(a) + Len(b) /\ Len(a) \in Nat /\ Len(b) \in Nat
        /\ \A i \in 1..Len(a) : s[i] = a[i]
    BY JoinedIs
  <2>3. \A i \in 1..Len(b) : s[Len(a) + i] = b[i]
    BY JoinedIs
  <2> QED BY <2>1, <2>2, <2>3
<1>2. PICK f : /\ Within(s, S) = f[Len(s)] /\ f[0] = <<>>
               /\ \A i \in 1..Len(s) :
                     f[i] = IF s[i] \in S THEN Append(f[i - 1], s[i]) ELSE f[i - 1]
  <2>1. s \in Seq(T)
    BY <1>1
  <2> HIDE DEF s
  <2> QED BY <2>1, WithinSteps
<1> HIDE DEF s
<1>3. PICK g : /\ Within(a, S) = g[Len(a)] /\ g[0] = <<>>
               /\ \A i \in 1..Len(a) :
                     g[i] = IF a[i] \in S THEN Append(g[i - 1], a[i]) ELSE g[i - 1]
  BY WithinSteps
<1>4. PICK h : /\ Within(b, S) = h[Len(b)] /\ h[0] = <<>>
               /\ \A i \in 1..Len(b) :
                     h[i] = IF b[i] \in S THEN Append(h[i - 1], b[i]) ELSE h[i - 1]
  BY WithinSteps
<1> DEFINE same == {i \in Nat : f[i] = g[i]}
<1>5. 0 \in same
  BY <1>2, <1>3
<1>6. ASSUME NEW i \in 0..Len(a), i \in same, i < Len(a) PROVE i + 1 \in same
  <2>1. i + 1 \in 1..Len(a) /\ i + 1 \in 1..Len(s) /\ (i + 1) - 1 = i /\ f[i] = g[i]
    BY <1>1, <1>6
  <2>2. s[i + 1] = a[i + 1]
    BY <1>1, <2>1
  <2>3. f[i + 1] = IF s[i + 1] \in S THEN Append(f[i], s[i + 1]) ELSE f[i]
    BY <1>2, <2>1
  <2>4. g[i + 1] = IF a[i + 1] \in S THEN Append(g[i], a[i + 1]) ELSE g[i]
    BY <1>3, <2>1
  <2> QED BY <2>1, <2>2, <2>3, <2>4
<1>7. Len(a) \in same
  <2> HIDE DEF same
  <2>1. \A i \in 0..Len(a) : i \in same
    BY <1>1, <1>5, <1>6, UpTo
  <2> QED BY <1>1, <2>1
<1> DEFINE G == Within(a, S)
           good == {i \in Nat : h[i] \in Seq(T) /\ f[Len(a) + i] = Joined(G, h[i])}
<1>8. G \in Seq(T) /\ f[Len(a)] = G
  BY <1>3, <1>7, WithinIs
<1> HIDE DEF G
<1>9. 0 \in good
  <2>1. h[0] = <<>> /\ <<>> \in Seq(T) /\ Joined(G, <<>>) = G /\ Len(a) + 0 = Len(a)
    BY <1>1, <1>4, <1>8, JoinedIs
  <2> QED BY <1>8, <2>1
<1>10. ASSUME NEW i \in 0..Len(b), i \in good, i < Len(b) PROVE i + 1 \in good
  <2>1. /\ i + 1 \in 1..Len(b) /\ (i + 1) - 1 = i /\ i + 1 \in Nat
        /\ Len(a) + (i + 1) \in 1..Len(s) /\ (Len(a) + (i + 1)) - 1 = Len(a) + i
        /\ h[i] \in Seq(T) /\ f[Len(a) + i] = Joined(G, h[i])
    BY <1>1, <1>10
  <2>2. s[Len(a) + (i + 1)] = b[i + 1] /\ b[i + 1] \in T
    BY <1>1, <2>1
  <2> DEFINE x == b[i + 1]
             k == Len(a) + (i + 1)
  <2>3. f[k] = IF s[k] \in S THEN Append(f[k - 1], s[k]) ELSE f[k - 1]
    BY <1>2, <2>1
  <2>4. f[k] = IF x \in S THEN Append(Joined(G, h[i]), x) ELSE Joined(G, h[i])
    BY <2>1, <2>2, <2>3
  <2>5. h[i + 1] = IF x \in S THEN Append(h[i], x) ELSE h[i]
    BY <1>4, <2>1
  <2>6. Append(Joined(G, h[i]), x) = Joined(G, Append(h[i], x)) /\ Append(h[i], x) \in Seq(T)
    <3>1. h[i] \in Seq(T) /\ x \in T
      BY <2>1, <2>2
    <3> HIDE DEF x
    <3>2. Append(h[i], x) \in Seq(T)
      BY <3>1
    <3>3. PICK H \in Seq(T), y \in T, K \in Seq(T) : H = h[i] /\ y = x /\ K = G
      BY <1>8, <3>1
    <3>4. Append(Joined(K, H), y) = Joined(K, Append(H, y))
      BY AppendToJoined
    <3> QED BY <3>2, <3>3, <3>4
  <2>7. h[i + 1] \in Seq(T) /\ f[k] = Joined(G, h[i + 1])
    BY <2>1, <2>4, <2>5, <2>6
  <2> QED BY <2>1, <2>7
<1>11. Len(b) \in good
  <2> HIDE DEF good
  <2>1. \A i \in 0..Len(b) : i \in good
    BY <1>1, <1>9, <1>10, UpTo
  <2> QED BY <1>1, <2>1
<1>12. Within(s, S) = Joined(G, Within(b, S))
  BY <1>1, <1>2, <1>4, <1>11
<1> QED BY <1>12 DEF s, G

(* FlattenSeq puts them together one after the other. *)
LEMMA FlatSteps ==
    ASSUME NEW T, NEW ss \in Seq(Seq(T))
    PROVE  \E f : /\ FlattenSeq(ss) = f[Len(ss)] /\ f[0] = <<>>
                  /\ \A i \in 1..Len(ss) : f[i] = f[i - 1] \o ss[i]
                  /\ \A i \in 0..Len(ss) : f[i] \in Seq(T)
<1>1. Len(ss) \in Nat /\ \A i \in 1..Len(ss) : ss[i] \in Seq(T)
  OBVIOUS
<1> DEFINE Flat(f, n) == f = [i \in 1..n |-> IF i = 1 THEN ss[i] ELSE f[i - 1] \o ss[i]]
           some == {n \in Nat : \E f : Flat(f, n)}
           flat == CHOOSE f : Flat(f, Len(ss))
           all == [i \in 0..Len(ss) |-> IF i = 0 THEN <<>> ELSE flat[i]]
<1>2. 0 \in some
  <2>1. Flat([i \in 1..0 |-> <<>>], 0)
    OBVIOUS
  <2> QED BY <2>1
<1>3. ASSUME NEW n \in 0..Len(ss), n \in some, n < Len(ss) PROVE n + 1 \in some
  <2>1. PICK f : Flat(f, n)
    BY <1>3
  <2> DEFINE g == [i \in 1..(n + 1) |->
                      IF i <= n THEN f[i]
                      ELSE IF n = 0 THEN ss[i] ELSE f[n] \o ss[i]]
  <2>2. ASSUME NEW i \in 1..(n + 1)
        PROVE  g[i] = IF i = 1 THEN ss[i] ELSE g[i - 1] \o ss[i]
    <3>1. CASE i \in 1..n
      <4>1. g[i] = f[i] /\ (i # 1 => g[i - 1] = f[i - 1])
        BY <3>1
      <4>2. f[i] = IF i = 1 THEN ss[i] ELSE f[i - 1] \o ss[i]
        BY <2>1, <3>1
      <4> QED BY <4>1, <4>2
    <3>2. CASE i = n + 1
      <4>1. g[i] = IF n = 0 THEN ss[i] ELSE f[n] \o ss[i]
        BY <1>1, <3>2
      <4>2. n # 0 => i # 1 /\ i - 1 = n /\ g[i - 1] = f[n]
        BY <1>1, <3>2
      <4>3. n = 0 => i = 1
        BY <3>2
      <4> HIDE DEF g
      <4> QED BY <4>1, <4>2, <4>3
    <3> QED BY <1>1, <3>1, <3>2
  <2>3. Flat(g, n + 1)
    BY <2>2
  <2> HIDE DEF g, Flat
  <2> QED BY <1>1, <2>3
<1>4. Len(ss) \in some
  <2> HIDE DEF some
  <2>1. \A i \in 0..Len(ss) : i \in some
    BY <1>1, <1>2, <1>3, UpTo
  <2> QED BY <1>1, <2>1
<1>5. Flat(flat, Len(ss))
  BY <1>4
<1>6. FlattenSeq(ss) = IF Len(ss) = 0 THEN ss ELSE flat[Len(ss)]
  BY DEF FlattenSeq
<1> HIDE DEF flat
<1>7. ASSUME NEW i \in 1..Len(ss) PROVE flat[i] = IF i = 1 THEN ss[i] ELSE flat[i - 1] \o ss[i]
  BY <1>5
<1>8. all[0] = <<>> /\ \A i \in 1..Len(ss) : all[i] = flat[i]
  BY <1>1
<1> HIDE DEF all
<1>9. ASSUME NEW i \in 1..Len(ss) PROVE all[i] = all[i - 1] \o ss[i]
  <2>1. CASE i = 1
    <3>1. ss[1] \in Seq(T) /\ all[1] = ss[1] /\ all[1 - 1] = <<>> /\ <<>> \o ss[1] = ss[1]
      BY <1>1, <1>7, <1>8, <2>1
    <3> QED BY <2>1, <3>1
  <2>2. CASE i # 1
    <3>1. i - 1 \in 1..Len(ss)
      BY <1>1, <2>2
    <3> QED BY <1>7, <1>8, <2>2, <3>1
  <2> QED BY <2>1, <2>2
<1>10. FlattenSeq(ss) = all[Len(ss)]
  <2>1. CASE Len(ss) = 0
    BY <1>6, <1>8, <2>1
  <2>2. CASE Len(ss) # 0
    BY <1>1, <1>6, <1>8, <2>2
  <2> QED BY <2>1, <2>2
<1> DEFINE good == {i \in Nat : all[i] \in Seq(T)}
<1>11. 0 \in good
  <2>1. <<>> \in Seq(T)
    OBVIOUS
  <2>2. all[0] \in Seq(T)
    BY <1>8, <2>1
  <2> QED BY <2>2
<1>12. ASSUME NEW i \in 0..Len(ss), i \in good, i < Len(ss) PROVE i + 1 \in good
  <2>1. i + 1 \in 1..Len(ss) /\ (i + 1) - 1 = i /\ i + 1 \in Nat /\ all[i] \in Seq(T)
    BY <1>1, <1>12
  <2>2. all[i + 1] = all[i] \o ss[i + 1] /\ ss[i + 1] \in Seq(T)
    BY <1>1, <1>9, <2>1
  <2>3. all[i + 1] \in Seq(T)
    BY <2>1, <2>2
  <2> QED BY <2>1, <2>3
<1>13. \A i \in 0..Len(ss) : i \in good
  <2> HIDE DEF good
  <2> QED BY <1>1, <1>11, <1>12, UpTo
<1> QED BY <1>8, <1>9, <1>10, <1>13

(* It is of their elements, and begins as the first one does. *)
LEMMA FlatIs ==
    ASSUME NEW T, NEW ss \in Seq(Seq(T))
    PROVE  /\ FlattenSeq(ss) \in Seq(T)
           /\ ss # <<>> /\ ss[1] # <<>> =>
                 FlattenSeq(ss) # <<>> /\ FlattenSeq(ss)[1] = ss[1][1]
<1>1. Len(ss) \in Nat /\ \A i \in 1..Len(ss) : ss[i] \in Seq(T)
  OBVIOUS
<1>2. PICK f : /\ FlattenSeq(ss) = f[Len(ss)] /\ f[0] = <<>>
               /\ \A i \in 1..Len(ss) : f[i] = f[i - 1] \o ss[i]
               /\ \A i \in 0..Len(ss) : f[i] \in Seq(T)
  BY FlatSteps
<1>3. FlattenSeq(ss) \in Seq(T)
  BY <1>1, <1>2
<1>4. ASSUME ss # <<>>, ss[1] # <<>>
      PROVE  FlattenSeq(ss) # <<>> /\ FlattenSeq(ss)[1] = ss[1][1]
  <2> DEFINE good == {i \in Nat : i = 0 \/ (f[i] # <<>> /\ f[i][1] = ss[1][1])}
  <2>1. 0 \in good
    OBVIOUS
  <2>2. ASSUME NEW i \in 0..Len(ss), i \in good, i < Len(ss) PROVE i + 1 \in good
    <3>1. i + 1 \in 1..Len(ss) /\ (i + 1) - 1 = i /\ i + 1 \in Nat
      BY <1>1, <2>2
    <3>2. f[i + 1] = f[i] \o ss[i + 1] /\ f[i] \in Seq(T) /\ ss[i + 1] \in Seq(T)
      BY <1>1, <1>2, <3>1
    <3>3. CASE i = 0
      <4>1. f[i] = <<>> /\ <<>> \o ss[i + 1] = ss[i + 1] /\ i + 1 = 1
        BY <1>2, <3>2, <3>3
      <4> QED BY <1>4, <3>1, <3>2, <4>1
    <3>4. CASE i # 0
      <4>1. f[i] # <<>> /\ f[i][1] = ss[1][1]
        BY <2>2, <3>4
      <4>2. f[i + 1] # <<>> /\ f[i + 1][1] = f[i][1]
        <5>1. PICK a \in Seq(T), b \in Seq(T) : a = f[i] /\ b = ss[i + 1]
          BY <3>2
        <5>2. a \o b # <<>> /\ (a \o b)[1] = a[1]
          BY <4>1, <5>1, ConcatHead
        <5> QED BY <3>2, <5>1, <5>2
      <4> QED BY <3>1, <4>1, <4>2
    <3> QED BY <3>3, <3>4
  <2>3. Len(ss) \in good
    <3> HIDE DEF good
    <3>1. \A i \in 0..Len(ss) : i \in good
      BY <1>1, <2>1, <2>2, UpTo
    <3> QED BY <1>1, <3>1
  <2>4. Len(ss) # 0
    BY <1>4
  <2> QED BY <1>2, <2>3, <2>4
<1> QED BY <1>3, <1>4

(* The loop of the vertical format goes through the lines one by one. *)
LEMMA SteppedSteps ==
    ASSUME NEW T, NEW s \in Seq(T), NEW acc
    PROVE  \E f : /\ Stepped(acc, s) = f[Len(s)] /\ f[0] = acc
                  /\ \A i \in 1..Len(s) : f[i] = VerticalStep(f[i - 1], s[i])
<1> DEFINE After(f, n) ==
             f = [i \in 0..n |-> IF i = 0 THEN acc ELSE VerticalStep(f[i - 1], s[i])]
           some == {n \in Nat : \E f : After(f, n)}
           after == CHOOSE f : After(f, Len(s))
<1>1. Len(s) \in Nat
  OBVIOUS
<1>2. 0 \in some
  <2>1. After([i \in 0..0 |-> acc], 0)
    OBVIOUS
  <2> QED BY <2>1
<1>3. ASSUME NEW n \in 0..Len(s), n \in some, n < Len(s) PROVE n + 1 \in some
  <2>1. PICK f : After(f, n)
    BY <1>3
  <2> DEFINE g == [i \in 0..(n + 1) |-> IF i <= n THEN f[i] ELSE VerticalStep(f[n], s[i])]
  <2>2. ASSUME NEW i \in 0..(n + 1)
        PROVE  g[i] = IF i = 0 THEN acc ELSE VerticalStep(g[i - 1], s[i])
    <3>1. CASE i = 0
      BY <2>1, <3>1
    <3>2. CASE i \in 1..n
      <4>1. g[i] = f[i] /\ g[i - 1] = f[i - 1] /\ i \in 0..n /\ i # 0
        BY <3>2
      <4>2. f[i] = VerticalStep(f[i - 1], s[i])
        BY <2>1, <4>1
      <4> QED BY <4>1, <4>2
    <3>3. CASE i = n + 1
      <4>1. g[i] = VerticalStep(f[n], s[i]) /\ g[i - 1] = f[n] /\ i # 0
        BY <1>1, <3>3
      <4> QED BY <4>1
    <3> QED BY <3>1, <3>2, <3>3
  <2>3. After(g, n + 1)
    BY <2>2
  <2> HIDE DEF g, After
  <2> QED BY <1>1, <2>3
<1>4. Len(s) \in some
  <2> HIDE DEF some
  <2>1. \A i \in 0..Len(s) : i \in some
    BY <1>1, <1>2, <1>3, UpTo
  <2> QED BY <1>1, <2>1
<1>5. After(after, Len(s))
  BY <1>4
<1>6. Stepped(acc, s) = after[Len(s)]
  BY DEF Stepped
<1> HIDE DEF after
<1>7. after[0] = acc
  BY <1>1, <1>5
<1>8. ASSUME NEW i \in 1..Len(s) PROVE after[i] = VerticalStep(after[i - 1], s[i])
  <2>1. i \in 0..Len(s) /\ i # 0
    BY <1>1
  <2> QED BY <1>5, <2>1
<1> QED BY <1>6, <1>7, <1>8

LEMMA SteppedNone ==
    ASSUME NEW acc PROVE Stepped(acc, <<>>) = acc
<1>1. PICK s \in Seq({acc}) : s = <<>>
  BY EmptySeq, Zenon
<1>2. PICK f : /\ Stepped(acc, s) = f[Len(s)] /\ f[0] = acc
               /\ \A i \in 1..Len(s) : f[i] = VerticalStep(f[i - 1], s[i])
  BY SteppedSteps
<1>3. Len(s) = 0
  BY <1>1
<1> QED BY <1>1, <1>2, <1>3

LEMMA SteppedOne ==
    ASSUME NEW acc, NEW l PROVE Stepped(acc, <<l>>) = VerticalStep(acc, l)
<1> DEFINE s == <<l>>
<1>1. s \in Seq({l}) /\ Len(s) = 1 /\ s[1] = l
  OBVIOUS
<1> HIDE DEF s
<1>2. PICK f : /\ Stepped(acc, s) = f[Len(s)] /\ f[0] = acc
               /\ \A i \in 1..Len(s) : f[i] = VerticalStep(f[i - 1], s[i])
  BY <1>1, SteppedSteps
<1>3. f[1] = VerticalStep(f[1 - 1], s[1])
  BY <1>1, <1>2
<1> QED BY <1>1, <1>2, <1>3 DEF s

LEMMA SteppedJoined ==
    ASSUME NEW T, NEW a \in Seq(T), NEW b \in Seq(T), NEW acc
    PROVE  Stepped(acc, Joined(a, b)) = Stepped(Stepped(acc, a), b)
<1>1. PICK s \in Seq(T) : s = Joined(a, b)
  BY JoinedIs
<1>2. /\ Len(s) = Len(a) + Len(b) /\ Len(a) \in Nat /\ Len(b) \in Nat
      /\ \A i \in 1..Len(a) : s[i] = a[i]
      /\ \A i \in 1..Len(b) : s[Len(a) + i] = b[i]
  <2>1. Len(s) = Len(a) + Len(b) /\ Len(a) \in Nat /\ Len(b) \in Nat
    BY <1>1, JoinedIs
  <2>2. ASSUME NEW i \in 1..Len(a) PROVE s[i] = a[i]
    BY <1>1 DEF Joined
  <2>3. ASSUME NEW i \in 1..Len(b) PROVE s[Len(a) + i] = b[i]
    BY <1>1, <2>1 DEF Joined
  <2> QED BY <2>1, <2>2, <2>3
<1>3. PICK f : /\ Stepped(acc, s) = f[Len(s)] /\ f[0] = acc
               /\ \A i \in 1..Len(s) : f[i] = VerticalStep(f[i - 1], s[i])
  BY SteppedSteps
<1>4. PICK g : /\ Stepped(acc, a) = g[Len(a)] /\ g[0] = acc
               /\ \A i \in 1..Len(a) : g[i] = VerticalStep(g[i - 1], a[i])
  BY SteppedSteps
<1> DEFINE mid == Stepped(acc, a)
<1>5. PICK h : /\ Stepped(mid, b) = h[Len(b)] /\ h[0] = mid
               /\ \A i \in 1..Len(b) : h[i] = VerticalStep(h[i - 1], b[i])
  BY SteppedSteps
<1> DEFINE same == {i \in Nat : f[i] = g[i]}
<1>6. 0 \in same
  BY <1>3, <1>4
<1>7. ASSUME NEW i \in 0..Len(a), i \in same, i < Len(a) PROVE i + 1 \in same
  <2>1. i + 1 \in 1..Len(a) /\ i + 1 \in 1..Len(s) /\ (i + 1) - 1 = i /\ f[i] = g[i]
    BY <1>2, <1>7
  <2>2. f[i + 1] = VerticalStep(f[i], s[i + 1]) /\ s[i + 1] = a[i + 1]
    BY <1>2, <1>3, <2>1
  <2>3. g[i + 1] = VerticalStep(g[i], a[i + 1])
    BY <1>4, <2>1
  <2> QED BY <2>1, <2>2, <2>3
<1>8. Len(a) \in same
  <2> HIDE DEF same
  <2>1. \A i \in 0..Len(a) : i \in same
    BY <1>2, <1>6, <1>7, UpTo
  <2> QED BY <1>2, <2>1
<1>9. f[Len(a)] = h[0]
  BY <1>4, <1>5, <1>8
<1> DEFINE good == {i \in Nat : f[Len(a) + i] = h[i]}
<1> HIDE DEF mid
<1>10. 0 \in good
  BY <1>2, <1>9
<1>11. ASSUME NEW i \in 0..Len(b), i \in good, i < Len(b) PROVE i + 1 \in good
  <2>1. /\ i + 1 \in 1..Len(b) /\ (i + 1) - 1 = i /\ i + 1 \in Nat
        /\ Len(a) + (i + 1) \in 1..Len(s) /\ (Len(a) + (i + 1)) - 1 = Len(a) + i
        /\ f[Len(a) + i] = h[i]
    BY <1>2, <1>11
  <2>2. f[Len(a) + (i + 1)] = VerticalStep(f[Len(a) + i], s[Len(a) + (i + 1)])
    BY <1>3, <2>1
  <2>3. s[Len(a) + (i + 1)] = b[i + 1]
    BY <1>2, <2>1
  <2>4. h[i + 1] = VerticalStep(h[i], b[i + 1])
    BY <1>5, <2>1
  <2> QED BY <2>1, <2>2, <2>3, <2>4
<1>12. Len(b) \in good
  <2> HIDE DEF good
  <2>1. \A i \in 0..Len(b) : i \in good
    BY <1>2, <1>10, <1>11, UpTo
  <2> QED BY <1>2, <2>1
<1>13. Stepped(acc, s) = Stepped(mid, b)
  BY <1>2, <1>3, <1>5, <1>12
<1> QED BY <1>1, <1>13 DEF mid

(* Only what occurs in the sequence matters of the set. *)
LEMMA WithinCares ==
    ASSUME NEW T, NEW s \in Seq(T), NEW S, NEW R, ToSet(s) \cap S = ToSet(s) \cap R
    PROVE  Within(s, S) = Within(s, R)
<1>1. Len(s) \in Nat /\ DOMAIN s = 1..Len(s)
  OBVIOUS
<1>2. \A i \in 1..Len(s) : s[i] \in S <=> s[i] \in R
  <2>1. \A i \in 1..Len(s) : s[i] \in ToSet(s)
    BY <1>1 DEF ToSet
  <2> QED BY <2>1
<1>3. PICK f : /\ Within(s, S) = f[Len(s)] /\ f[0] = <<>>
               /\ \A i \in 1..Len(s) :
                     f[i] = IF s[i] \in S THEN Append(f[i - 1], s[i]) ELSE f[i - 1]
  BY WithinSteps
<1>4. PICK g : /\ Within(s, R) = g[Len(s)] /\ g[0] = <<>>
               /\ \A i \in 1..Len(s) :
                     g[i] = IF s[i] \in R THEN Append(g[i - 1], s[i]) ELSE g[i - 1]
  BY WithinSteps
<1> DEFINE same == {i \in Nat : f[i] = g[i]}
<1>5. 0 \in same
  BY <1>3, <1>4
<1>6. ASSUME NEW i \in 0..Len(s), i \in same, i < Len(s) PROVE i + 1 \in same
  <2>1. i + 1 \in 1..Len(s) /\ (i + 1) - 1 = i /\ f[i] = g[i] /\ i + 1 \in Nat
    BY <1>1, <1>6
  <2>2. f[i + 1] = IF s[i + 1] \in S THEN Append(f[i], s[i + 1]) ELSE f[i]
    BY <1>3, <2>1
  <2>3. g[i + 1] = IF s[i + 1] \in R THEN Append(g[i], s[i + 1]) ELSE g[i]
    BY <1>4, <2>1
  <2>4. s[i + 1] \in S <=> s[i + 1] \in R
    BY <1>2, <2>1
  <2> QED BY <2>1, <2>2, <2>3, <2>4
<1>7. Len(s) \in same
  <2> HIDE DEF same
  <2>1. \A i \in 0..Len(s) : i \in same
    BY <1>1, <1>5, <1>6, UpTo
  <2> QED BY <1>1, <2>1
<1> QED BY <1>3, <1>4, <1>7

LEMMA StrippedIs ==
    ASSUME NEW T, NEW s \in Seq(T)
    PROVE  /\ Stripped(s) \in Seq(T)
           /\ ToSet(Stripped(s)) = ToSet(s) \ {Blank}
           /\ Blank \notin ToSet(s) => Stripped(s) = s
<1>1. ToSet(s) \cap (ToSet(s) \ {Blank}) = ToSet(s) \ {Blank}
  OBVIOUS
<1>2. Blank \notin ToSet(s) => ToSet(s) \subseteq ToSet(s) \ {Blank}
  OBVIOUS
<1> QED BY <1>1, <1>2, WithinIs DEF Stripped, Without

LEMMA StrippedJoined ==
    ASSUME NEW T, NEW a \in Seq(T), NEW b \in Seq(T)
    PROVE  Stripped(Joined(a, b)) = Joined(Stripped(a), Stripped(b))
<1>1. PICK s \in Seq(T) : s = Joined(a, b)
  BY JoinedIs
<1> DEFINE S == ToSet(s) \ {Blank}
<1>2. Stripped(s) = Joined(Within(a, S), Within(b, S))
  BY <1>1, WithinConcat DEF Stripped, Without
<1>3. ToSet(a) \subseteq ToSet(s) /\ ToSet(b) \subseteq ToSet(s)
  <2>1. Len(s) = Len(a) + Len(b) /\ Len(a) \in Nat /\ Len(b) \in Nat
    BY <1>1, JoinedIs
  <2>2. DOMAIN a = 1..Len(a) /\ DOMAIN b = 1..Len(b) /\ DOMAIN s = 1..Len(s)
    OBVIOUS
  <2>3. ASSUME NEW i \in 1..Len(a) PROVE a[i] \in ToSet(s)
    <3>1. s[i] = a[i] /\ i \in 1..Len(s)
      BY <1>1, <2>1 DEF Joined
    <3> QED BY <2>2, <3>1 DEF ToSet
  <2>4. ASSUME NEW i \in 1..Len(b) PROVE b[i] \in ToSet(s)
    <3>1. s[Len(a) + i] = b[i] /\ Len(a) + i \in 1..Len(s)
      BY <1>1, <2>1 DEF Joined
    <3> QED BY <2>2, <3>1 DEF ToSet
  <2>5. ToSet(a) \subseteq ToSet(s)
    BY <2>2, <2>3 DEF ToSet
  <2>6. ToSet(b) \subseteq ToSet(s)
    BY <2>2, <2>4 DEF ToSet
  <2> QED BY <2>5, <2>6
<1>4. Within(a, S) = Stripped(a)
  <2>1. ToSet(a) \cap S = ToSet(a) \cap (ToSet(a) \ {Blank})
    BY <1>3
  <2> HIDE DEF S
  <2> QED BY <2>1, WithinCares DEF Stripped, Without
<1>5. Within(b, S) = Stripped(b)
  <2>1. ToSet(b) \cap S = ToSet(b) \cap (ToSet(b) \ {Blank})
    BY <1>3
  <2> HIDE DEF S
  <2> QED BY <2>1, WithinCares DEF Stripped, Without
<1> QED BY <1>1, <1>2, <1>4, <1>5

(* The position of the first line of some kinds. *)
LEMMA FirstIs ==
    ASSUME NEW T, NEW s \in Seq(T), NEW kinds, NEW n \in 1..Len(s),
           s[n].kind \in kinds, \A i \in 1..Len(s) : i < n => s[i].kind \notin kinds
    PROVE  FirstOf(s, kinds) = n
<1> DEFINE I == {i \in 1..Len(s) : s[i].kind \in kinds}
<1>1. Len(s) \in Nat /\ n \in Nat
  OBVIOUS
<1>2. n \in I /\ \A i \in I : n <= i
  BY <1>1
<1>3. I # {} /\ I \subseteq Nat
  BY <1>2
<1> HIDE DEF I
<1>4. (CHOOSE x \in I : \A y \in I : x <= y) = n
  <2>1. ASSUME NEW x \in I, \A y \in I : x <= y PROVE x = n
    BY <1>1, <1>2, <1>3, <2>1
  <2> QED BY <1>2, <2>1
<1>5. FirstOf(s, kinds) = IF I # {} THEN (CHOOSE x \in I : \A y \in I : x <= y) ELSE 0
  BY DEF FirstOf, SelectInSeq, Min, I
<1> QED BY <1>3, <1>4, <1>5

LEMMA FirstNone ==
    ASSUME NEW s, NEW kinds, \A i \in 1..Len(s) : s[i].kind \notin kinds
    PROVE  FirstOf(s, kinds) = 0
BY DEF FirstOf, SelectInSeq

LEMMA FirstSome ==
    ASSUME NEW T, NEW s \in Seq(T), NEW kinds, NEW n \in 1..Len(s), s[n].kind \in kinds
    PROVE  /\ FirstOf(s, kinds) \in 1..Len(s)
           /\ s[FirstOf(s, kinds)].kind \in kinds
           /\ \A i \in 1..Len(s) : i < FirstOf(s, kinds) => s[i].kind \notin kinds
<1> DEFINE I == {i \in 1..Len(s) : s[i].kind \in kinds}
<1>1. I \in SUBSET Nat /\ I # {}
  OBVIOUS
<1>2. PICK m \in I : \A y \in I : m <= y
  <2> HIDE DEF I
  <2> QED BY <1>1, HasSmallest
<1>3. m \in 1..Len(s) /\ s[m].kind \in kinds /\ m \in Nat /\ Len(s) \in Nat
  BY <1>2
<1>4. \A i \in 1..Len(s) : i < m => s[i].kind \notin kinds
  BY <1>2, <1>3
<1>5. FirstOf(s, kinds) = m
  BY <1>3, <1>4, FirstIs
<1> QED BY <1>3, <1>4, <1>5

-----------------------------------------------------------------------------
(* What MAE prints.                                                        *)

Cells == Keys \cup Values \cup {"NULL"}
AttributeLines ==
    {Attribute(k, v) : k \in Keys, v \in {NULL} \cup {<<w>> : w \in Values}}
        \cup {More(<<v>>) : v \in Values}
RowLines == {Row(c) : c \in Seq(Cells)}
Plain == AttributeLines \cup RowLines \cup {Text, Divider}
Inner == Plain \cup {Blank}
Lines == Inner \cup {Count, End, Retcode(0), Retcode(5)}
Ending == <<Count, Blank, End>>

LEMMA KindOfForms ==
    /\ \A k, v : Attribute(k, v).kind = "attribute" /\ More(v).kind = "attribute"
    /\ \A c : Row(c).kind = "text" /\ Row(c).columns = c
    /\ \A c : Retcode(c).kind = "retcode" /\ Retcode(c).value = <<c>>
BY DEF Attribute, More, Row, Retcode, Line

LEMMA KindOfAttribute == ASSUME NEW l \in AttributeLines PROVE l.kind = "attribute"
<1>1. CASE l \in {Attribute(k, v) : k \in Keys, v \in {NULL} \cup {<<w>> : w \in Values}}
  <2>1. PICK k, v : l = Attribute(k, v)
    BY <1>1
  <2> QED BY <2>1, KindOfForms
<1>2. CASE l \in {More(<<v>>) : v \in Values}
  <2>1. PICK v : l = More(v)
    BY <1>2
  <2> QED BY <2>1, KindOfForms
<1> QED BY <1>1, <1>2 DEF AttributeLines

LEMMA KindOfRow == ASSUME NEW l \in RowLines PROVE l.kind = "text"
<1>1. PICK c : l = Row(c)
  BY DEF RowLines
<1> QED BY <1>1, KindOfForms

LEMMA KindOfOther ==
    /\ Text.kind = "text" /\ Divider.kind = "divider" /\ Blank.kind = "blank"
    /\ Count.kind = "count" /\ End.kind = "end"
    /\ \A c : Retcode(c).kind = "retcode" /\ Retcode(c).value = <<c>>
BY DEF Text, Divider, Blank, Count, End, Retcode, Line

LEMMA KindOfPlain ==
    ASSUME NEW l \in Plain
    PROVE  l.kind \in {"attribute", "text", "divider"} /\ l # Blank
BY KindOfAttribute, KindOfRow, KindOfOther DEF Plain

LEMMA KindOfLine ==
    ASSUME NEW l \in Lines
    PROVE  /\ l.kind = "end" <=> l = End
           /\ l.kind = "blank" <=> l = Blank
           /\ l.kind = "retcode" <=> l \in {Retcode(0), Retcode(5)}
BY KindOfPlain, KindOfOther DEF Lines, Inner

(* A report: the heading, what is inside, and the tail. *)
Printed(inner) == Joined(Joined(Heading(0), inner), Ending)

(* Its text, without the blank lines. *)
LEMMA TextIs ==
    ASSUME NEW inner \in Seq(Inner)
    PROVE  \E text \in Seq(Lines), y \in Seq(Plain) :
              /\ y = Stripped(inner) /\ text = Stripped(Printed(inner))
              /\ ToSet(y) = ToSet(inner) \ {Blank}
              /\ text = Joined(Joined(Heading(0), y), <<Count, End>>)
<1>1. Heading(0) \in Seq(Lines) /\ Ending \in Seq(Lines) /\ <<Count, End>> \in Seq(Lines)
  BY DEF Heading, Ending, Lines, Inner, Plain
<1>2. inner \in Seq(Lines)
  BY DEF Lines
<1>3. Joined(Heading(0), inner) \in Seq(Lines)
  BY <1>1, <1>2, JoinedIs
<1>4. Stripped(Printed(inner)) = Joined(Joined(Stripped(Heading(0)), Stripped(inner)), Stripped(Ending))
  <2>1. Stripped(Printed(inner)) = Joined(Stripped(Joined(Heading(0), inner)), Stripped(Ending))
    BY <1>1, <1>3, StrippedJoined DEF Printed
  <2>2. Stripped(Joined(Heading(0), inner)) = Joined(Stripped(Heading(0)), Stripped(inner))
    BY <1>1, <1>2, StrippedJoined
  <2> QED BY <2>1, <2>2
<1>5. Stripped(Heading(0)) = Heading(0)
  <2>1. ToSet(Heading(0)) = {Text, Retcode(0)}
    BY DEF Heading, ToSet
  <2>2. Blank \notin ToSet(Heading(0))
    BY <2>1, KindOfOther
  <2> QED BY <1>1, <2>2, StrippedIs
<1>6. Stripped(Ending) = <<Count, End>>
  <2>1. Ending = Joined(Joined(<<Count>>, <<Blank>>), <<End>>)
    BY PairIs, TripleIs DEF Ending
  <2>2. <<Count>> \in Seq(Lines) /\ <<Blank>> \in Seq(Lines) /\ <<End>> \in Seq(Lines)
    BY DEF Lines, Inner
  <2>3. Stripped(<<Count>>) = <<Count>>
    <3>1. ToSet(<<Count>>) = {Count}
      BY DEF ToSet
    <3> QED BY <2>2, <3>1, StrippedIs, KindOfOther
  <2>4. Stripped(<<End>>) = <<End>>
    <3>1. ToSet(<<End>>) = {End}
      BY DEF ToSet
    <3> QED BY <2>2, <3>1, StrippedIs, KindOfOther
  <2>5. Stripped(<<Blank>>) = <<>>
    <3>1. ToSet(<<Blank>>) = {Blank}
      BY DEF ToSet
    <3>2. Stripped(<<Blank>>) \in Seq(Lines) /\ ToSet(Stripped(<<Blank>>)) = {}
      BY <2>2, <3>1, StrippedIs
    <3> QED BY <3>2 DEF ToSet
  <2>6. Joined(<<Count>>, <<Blank>>) \in Seq(Lines)
    BY <2>2, JoinedIs
  <2>7. Stripped(Ending) = Joined(Stripped(Joined(<<Count>>, <<Blank>>)), Stripped(<<End>>))
    <3>1. PICK a \in Seq(Lines), b \in Seq(Lines) : a = Joined(<<Count>>, <<Blank>>) /\ b = <<End>>
      BY <2>2, <2>6
    <3> QED BY <2>1, <3>1, StrippedJoined
  <2>8. Stripped(Joined(<<Count>>, <<Blank>>)) = Joined(Stripped(<<Count>>), Stripped(<<Blank>>))
    <3>1. PICK a \in Seq(Lines), b \in Seq(Lines) : a = <<Count>> /\ b = <<Blank>>
      BY <2>2
    <3> QED BY <3>1, StrippedJoined
  <2>9. Joined(Joined(<<Count>>, <<>>), <<End>>) = <<Count, End>>
    <3>1. Joined(<<Count>>, <<>>) = <<Count>>
      BY <2>2, JoinedIs
    <3> QED BY <3>1, PairIs
  <2> QED BY <2>3, <2>4, <2>5, <2>7, <2>8, <2>9
<1>7. Stripped(inner) \in Seq(Plain) /\ ToSet(Stripped(inner)) = ToSet(inner) \ {Blank}
  <2>1. Stripped(inner) \in Seq(Inner) /\ ToSet(Stripped(inner)) = ToSet(inner) \ {Blank}
    BY StrippedIs
  <2>2. PICK y \in Seq(Inner) : y = Stripped(inner)
    BY <2>1
  <2>3. \A i \in 1..Len(y) : y[i] \in ToSet(y)
    BY DEF ToSet
  <2>4. \A i \in 1..Len(y) : y[i] \in Inner /\ y[i] # Blank
    BY <2>1, <2>2, <2>3
  <2>5. y \in Seq(Plain)
    BY <2>4 DEF Inner
  <2> QED BY <2>1, <2>2, <2>5
<1>8. Joined(Joined(Heading(0), Stripped(inner)), <<Count, End>>) \in Seq(Lines)
  <2>1. PICK y \in Seq(Plain) : y = Stripped(inner)
    BY <1>7
  <2>2. y \in Seq(Lines)
    BY DEF Lines, Inner
  <2> QED BY <1>1, <2>1, <2>2, JoinedIs
<1> QED BY <1>4, <1>5, <1>6, <1>7, <1>8

(* Its lines, one by one. *)
IsText(text, y) ==
    /\ Len(text) = Len(y) + 6
    /\ \A i \in 1..3 : text[i] = Text
    /\ text[4] = Retcode(0)
    /\ \A i \in 1..Len(y) : text[4 + i] = y[i]
    /\ text[Len(y) + 5] = Count /\ text[Len(y) + 6] = End

LEMMA TextLines ==
    ASSUME NEW y \in Seq(Plain), NEW text, text = Joined(Joined(Heading(0), y), <<Count, End>>)
    PROVE  IsText(text, y)
<1>1. PICK h \in Seq(Lines), z \in Seq(Lines), e \in Seq(Lines) :
         h = Heading(0) /\ z = y /\ e = <<Count, End>>
  <2>1. Heading(0) \in Seq(Lines) /\ <<Count, End>> \in Seq(Lines)
    BY DEF Heading, Lines, Inner, Plain
  <2>2. y \in Seq(Lines)
    BY DEF Lines, Inner
  <2> QED BY <2>1, <2>2
<1>2. PICK t \in Seq(Lines) : t = Joined(Joined(h, z), e) /\ Three(t, h, z, e)
  BY ThreeParts
<1>3. text = t /\ Len(y) = Len(z) /\ Len(z) \in Nat
  BY <1>1, <1>2
<1>4. Len(h) = 4 /\ h[1] = Text /\ h[2] = Text /\ h[3] = Text /\ h[4] = Retcode(0)
  BY <1>1 DEF Heading
<1>5. Len(e) = 2 /\ e[1] = Count /\ e[2] = End
  BY <1>1
<1>6. t[1] = h[1] /\ t[2] = h[2] /\ t[3] = h[3] /\ t[4] = h[4]
  BY <1>2, <1>4 DEF Three
<1>7. \A i \in 1..3 : t[i] = Text
  BY <1>4, <1>6
<1>8. \A i \in 1..Len(z) : t[4 + i] = z[i]
  BY <1>2, <1>4 DEF Three
<1>9. t[Len(z) + 5] = Count /\ t[Len(z) + 6] = End
  <2>1. t[Len(h) + Len(z) + 1] = e[1] /\ t[Len(h) + Len(z) + 2] = e[2]
    BY <1>2, <1>5 DEF Three
  <2>2. Len(h) + Len(z) + 1 = Len(z) + 5 /\ Len(h) + Len(z) + 2 = Len(z) + 6
    BY <1>3, <1>4
  <2> QED BY <1>5, <2>1, <2>2
<1>10. Len(t) = Len(z) + 6
  BY <1>2, <1>3, <1>4, <1>5 DEF Three
<1> QED BY <1>1, <1>3, <1>4, <1>6, <1>7, <1>8, <1>9, <1>10 DEF IsText

LEMMA TextParts ==
    ASSUME NEW inner \in Seq(Inner)
    PROVE  \E text \in Seq(Lines), y \in Seq(Plain) :
              /\ y = Stripped(inner) /\ text = Stripped(Printed(inner))
              /\ ToSet(y) = ToSet(inner) \ {Blank} /\ IsText(text, y)
<1>1. PICK text \in Seq(Lines), y \in Seq(Plain) :
              /\ y = Stripped(inner) /\ text = Stripped(Printed(inner))
              /\ ToSet(y) = ToSet(inner) \ {Blank}
              /\ text = Joined(Joined(Heading(0), y), <<Count, End>>)
  BY TextIs
<1>2. IsText(text, y)
  BY <1>1, TextLines
<1> QED BY <1>1, <1>2

LEMMA FromIs ==
    ASSUME NEW T, NEW s \in Seq(T), NEW i \in 1..Len(s) + 1
    PROVE  /\ From(s, i) \in Seq(T) /\ Len(From(s, i)) = Len(s) + 1 - i
           /\ \A j \in 1..Len(s) + 1 - i : From(s, i)[j] = s[i - 1 + j]
<1>1. Len(s) \in Nat /\ i \in Nat
  OBVIOUS
<1> DEFINE t == SubSeq(s, i, Len(s))
<1>2. t \in Seq(T) /\ Len(t) = Len(s) + 1 - i
  <2>1. \A j \in i..Len(s) : s[j] \in T
    BY <1>1
  <2> QED BY <1>1, <2>1
<1>3. ASSUME NEW j \in 1..Len(s) + 1 - i PROVE t[j] = s[i - 1 + j]
  BY <1>1
<1> HIDE DEF t
<1>4. From(s, i) = t
  BY DEF From, t
<1> QED BY <1>2, <1>3, <1>4

(* What is checked first in the text of a report finds nothing wrong.      *)
LEMMA ParsePrinted ==
    ASSUME NEW inner \in Seq(Inner)
    PROVE  Parse(Printed(inner)) =
               IF DetectFormat(Printed(inner)) = "vertical" THEN ParseVertical(Printed(inner))
               ELSE ParseHorizontal(Printed(inner))
<1>1. PICK text \in Seq(Lines), y \in Seq(Plain) :
              /\ y = Stripped(inner) /\ text = Stripped(Printed(inner)) /\ IsText(text, y)
  BY TextParts
<1>2. Len(y) \in Nat /\ Len(text) = Len(y) + 6 /\ Len(<<>>) = 0
  BY <1>1 DEF IsText
<1>3. text # <<>>
  BY <1>2
<1>4. Last(text).kind = "end"
  BY <1>1, <1>2, KindOfOther DEF IsText, Last
<1>5. FirstOf(text, {"retcode"}) = 4
  <2>1. 4 \in 1..Len(text) /\ text[4].kind = "retcode"
    BY <1>1, <1>2, KindOfOther DEF IsText
  <2>2. ASSUME NEW i \in 1..Len(text), i < 4 PROVE text[i].kind \notin {"retcode"}
    <3>1. i \in 1..3
      BY <1>2, <2>2
    <3>2. text[i] = Text
      BY <1>1, <3>1 DEF IsText
    <3> QED BY <3>2, KindOfOther
  <2>3. text[4].kind \in {"retcode"}
    BY <2>1
  <2> QED BY <2>1, <2>2, <2>3, FirstIs
<1>6. text[4].value = <<0>>
  BY <1>1, KindOfOther DEF IsText
<1> QED BY <1>1, <1>3, <1>4, <1>5, <1>6 DEF Parse

(* Some attribute after the divider, or without one, shows the format.     *)
LEMMA IsVertical ==
    ASSUME NEW inner \in Seq(Inner), NEW y \in Seq(Plain), y = Stripped(inner),
           NEW k \in 1..Len(y), y[k].kind = "attribute",
           \A i \in 1..Len(y) : y[i].kind = "divider" => i < k
    PROVE  DetectFormat(Printed(inner)) = "vertical"
<1>1. PICK text \in Seq(Lines) : text = Stripped(Printed(inner)) /\ IsText(text, y)
  <2>1. PICK t \in Seq(Lines), z \in Seq(Plain) :
              /\ z = Stripped(inner) /\ t = Stripped(Printed(inner)) /\ IsText(t, z)
    BY TextParts
  <2> QED BY <2>1
<1>2. Len(y) \in Nat /\ k \in Nat /\ Len(text) = Len(y) + 6
  BY <1>1 DEF IsText
<1> DEFINE d == FirstOf(text, {"divider"})
           start == IF d # 0 THEN d + 1 ELSE 5
<1>3. start \in 5..4 + k
  <2>1. CASE d = 0
    BY <1>2, <2>1
  <2>2. CASE d # 0
    <3>1. \E i \in 1..Len(text) : text[i].kind \in {"divider"}
      BY <2>2, FirstNone
    <3>2. d \in 1..Len(text) /\ text[d].kind \in {"divider"}
      BY <3>1, FirstSome
    <3> HIDE DEF d
    <3>3. d \notin 1..3
      <4>1. \A i \in 1..3 : text[i].kind = "text"
        BY <1>1, KindOfOther DEF IsText
      <4> QED BY <3>2, <4>1
    <3>4. d # 4 /\ d # Len(y) + 5 /\ d # Len(y) + 6
      <4>1. text[4].kind = "retcode" /\ text[Len(y) + 5].kind = "count" /\ text[Len(y) + 6].kind = "end"
        BY <1>1, KindOfOther DEF IsText
      <4> QED BY <3>2, <4>1
    <3>5. d - 4 \in 1..Len(y) /\ d = 4 + (d - 4)
      <4>1. d \in Nat /\ d >= 1 /\ d <= Len(y) + 6
        BY <1>2, <3>2
      <4>2. d >= 5
        BY <3>3, <3>4, <4>1
      <4>3. d <= Len(y) + 4
        <5>1. PICK n \in Nat, l \in Nat : n = d /\ l = Len(y)
          BY <1>2, <4>1
        <5>2. n <= l + 6
          BY <4>1, <5>1
        <5>3. n # l + 5 /\ n # l + 6
          BY <3>4, <5>1
        <5>4. n <= l + 4
          BY <5>2, <5>3
        <5> QED BY <5>1, <5>4
      <4> QED BY <1>2, <4>1, <4>2, <4>3
    <3>6. text[d] = y[d - 4]
      BY <1>1, <3>5 DEF IsText
    <3>7. d - 4 < k
      BY <3>2, <3>5, <3>6
    <3> QED BY <1>2, <2>2, <3>5, <3>7
  <2> QED BY <2>1, <2>2
<1> DEFINE body == From(text, start)
<1>4. /\ body \in Seq(Lines) /\ Len(body) = Len(text) + 1 - start
      /\ \A j \in 1..Len(text) + 1 - start : body[j] = text[start - 1 + j]
  <2>1. start \in 1..Len(text) + 1
    BY <1>2, <1>3
  <2> HIDE DEF start
  <2> QED BY <2>1, FromIs
<1>5. FirstOf(body, {"attribute"}) # 0
  <2> DEFINE j == 5 + k - start
  <2>1. j \in 1..Len(text) + 1 - start /\ start - 1 + j = 4 + k
    BY <1>2, <1>3
  <2>2. body[j].kind \in {"attribute"}
    <3>1. text[4 + k] = y[k]
      BY <1>1 DEF IsText
    <3> HIDE DEF body, start, j
    <3>2. body[j] = text[start - 1 + j]
      BY <1>4, <2>1
    <3> QED BY <2>1, <3>1, <3>2
  <2> HIDE DEF body, start, j
  <2>3. j \in 1..Len(body)
    BY <1>4, <2>1
  <2>4. FirstOf(body, {"attribute"}) \in 1..Len(body)
    BY <1>4, <2>2, <2>3, FirstSome
  <2> QED BY <2>4
<1> QED BY <1>1, <1>5 DEF DetectFormat

(* Without attributes it is a table. *)
LEMMA IsHorizontal ==
    ASSUME NEW inner \in Seq(Inner), NEW y \in Seq(Plain), y = Stripped(inner),
           \A i \in 1..Len(y) : y[i].kind # "attribute"
    PROVE  DetectFormat(Printed(inner)) = "horizontal"
<1>1. PICK text \in Seq(Lines) : text = Stripped(Printed(inner)) /\ IsText(text, y)
  <2>1. PICK t \in Seq(Lines), z \in Seq(Plain) :
              /\ z = Stripped(inner) /\ t = Stripped(Printed(inner)) /\ IsText(t, z)
    BY TextParts
  <2> QED BY <2>1
<1>2. Len(y) \in Nat /\ Len(text) = Len(y) + 6
  BY <1>1 DEF IsText
<1> DEFINE d == FirstOf(text, {"divider"})
           start == IF d # 0 THEN d + 1 ELSE 5
<1>3. \A i \in 1..Len(text) : text[i].kind # "attribute"
  <2>1. ASSUME NEW i \in 1..Len(text) PROVE text[i].kind # "attribute"
    <3>1. CASE i \in 1..3
      BY <1>1, <3>1, KindOfOther DEF IsText
    <3>2. CASE i = 4 \/ i = Len(y) + 5 \/ i = Len(y) + 6
      BY <1>1, <3>2, KindOfOther DEF IsText
    <3>3. CASE i - 4 \in 1..Len(y)
      <4>1. i = 4 + (i - 4)
        BY <1>2
      <4>2. text[4 + (i - 4)] = y[i - 4]
        BY <1>1, <3>3 DEF IsText
      <4> QED BY <3>3, <4>1, <4>2
    <3> QED BY <1>2, <3>1, <3>2, <3>3
  <2> QED BY <2>1
<1>4. start \in 1..Len(text) + 1
  <2>1. CASE d = 0
    BY <1>2, <2>1
  <2>2. CASE d # 0
    <3>1. \E i \in 1..Len(text) : text[i].kind \in {"divider"}
      BY <2>2, FirstNone
    <3>2. d \in 1..Len(text)
      BY <3>1, FirstSome
    <3> HIDE DEF d
    <3> QED BY <1>2, <2>2, <3>2
  <2> QED BY <2>1, <2>2
<1> DEFINE body == From(text, start)
<1>5. \A j \in 1..Len(body) : body[j].kind \notin {"attribute"}
  <2>1. /\ body \in Seq(Lines) /\ Len(body) = Len(text) + 1 - start
        /\ \A j \in 1..Len(text) + 1 - start : body[j] = text[start - 1 + j]
    <3> HIDE DEF start
    <3> QED BY <1>4, FromIs
  <2>2. ASSUME NEW j \in 1..Len(body) PROVE body[j].kind # "attribute"
    <3> HIDE DEF body, start
    <3>1. start - 1 + j \in 1..Len(text)
      BY <1>2, <1>4, <2>1
    <3> QED BY <1>3, <2>1, <3>1
  <2> QED BY <2>2
<1>6. FirstOf(body, {"attribute"}) = 0
  BY <1>5, FirstNone
<1> QED BY <1>1, <1>6 DEF DetectFormat

-----------------------------------------------------------------------------
(* The records in a report.                                                *)

(* SetToSeq puts a finite set into one of its orders. *)
LEMMA SomeOrder ==
    ASSUME NEW S, IsFiniteSet(S)
    PROVE  SetToSeq(S) \in SetToSeqs(S)
<1> DEFINE D == 1..Cardinality(S)
<1>1. ExistsBijection(D, S)
  BY FS_CardinalityType
<1>2. PICK f \in [D -> S] : \A a, b \in D : f[a] = f[b] => a = b
  <2>1. PICK f : f \in Injection(D, S)
    BY <1>1, Zenon DEF ExistsBijection, Bijection
  <2> HIDE DEF D
  <2>2. f \in [D -> S] /\ \A a, b \in D : f[a] = f[b] => a = b
    BY <2>1 DEF Injection, IsInjective
  <2> QED BY <2>2, Zenon
<1>3. f \in [D -> S] /\ IsInjective(f)
  BY <1>2 DEF IsInjective
<1>4. SetToSeq(S) \in [D -> S] /\ IsInjective(SetToSeq(S))
  BY <1>3 DEF SetToSeq
<1> QED BY <1>4 DEF SetToSeqs, IsInjective

LEMMA PartsAre ==
    ASSUME NEW value \in Parts
    PROVE  \/ value = NULL
           \/ \E v \in Values : value = <<v>>
           \/ \E v, w \in Values : value = <<v, w>>
BY DEF Parts

(* The lines of an attribute: its first value, and one line for another.   *)
LEMMA AttributeIs ==
    ASSUME NEW key, NEW value \in Parts
    PROVE  \/ value = NULL /\ PrintedAttribute(key, value) = <<Attribute(key, NULL)>>
           \/ \E v \in Values : /\ value = <<v>>
                                /\ PrintedAttribute(key, value) = <<Attribute(key, <<v>>)>>
           \/ \E v, w \in Values :
                 /\ value = <<v, w>>
                 /\ PrintedAttribute(key, value) = Joined(<<Attribute(key, <<v>>)>>, <<More(<<w>>)>>)
<1>1. CASE value = NULL
  BY <1>1 DEF PrintedAttribute
<1>2. ASSUME NEW v \in Values, value = <<v>>
      PROVE  PrintedAttribute(key, value) = <<Attribute(key, <<v>>)>>
  <2> DEFINE a == <<Attribute(key, <<v>>)>>
             b == [i \in 1..Len(value) - 1 |-> More(<<value[i + 1]>>)]
  <2>1. value # NULL /\ Head(value) = v
    BY <1>2 DEF NULL
  <2>2. PrintedAttribute(key, value) = a \o b
    BY <2>1 DEF PrintedAttribute
  <2>3. Len(value) = 1
    BY <1>2
  <2>4. b = <<>>
    BY <2>3
  <2>5. a \in Seq({Attribute(key, <<v>>)})
    OBVIOUS
  <2> HIDE DEF a, b
  <2>6. a \o <<>> = a
    BY <2>5, ConcatEmptySeq
  <2> QED BY <2>2, <2>4, <2>6 DEF a
<1>3. ASSUME NEW v \in Values, NEW w \in Values, value = <<v, w>>
      PROVE  PrintedAttribute(key, value) = Joined(<<Attribute(key, <<v>>)>>, <<More(<<w>>)>>)
  <2> DEFINE a == <<Attribute(key, <<v>>)>>
             b == [i \in 1..Len(value) - 1 |-> More(<<value[i + 1]>>)]
  <2>1. value # NULL /\ Head(value) = v
    BY <1>3 DEF NULL
  <2>2. PrintedAttribute(key, value) = a \o b
    BY <2>1 DEF PrintedAttribute
  <2>3. Len(value) = 2 /\ value[2] = w
    BY <1>3
  <2>4. b = [i \in 1..1 |-> More(<<w>>)]
    BY <2>3
  <2>5. b = <<More(<<w>>)>>
    BY <2>4
  <2> QED BY <2>2, <2>5 DEF Joined
<1> QED BY <1>1, <1>2, <1>3, PartsAre

LEMMA AttributeLinesAre ==
    ASSUME NEW key \in Keys, NEW value \in Parts
    PROVE  PrintedAttribute(key, value) \in Seq(AttributeLines) /\ PrintedAttribute(key, value) # <<>>
<1>1. \A v \in {NULL} \cup {<<w>> : w \in Values} : <<Attribute(key, v)>> \in Seq(AttributeLines)
  BY DEF AttributeLines
<1>2. \A v \in Values : <<More(<<v>>)>> \in Seq(AttributeLines)
  <2>1. ASSUME NEW v \in Values PROVE <<More(<<v>>)>> \in Seq(AttributeLines)
    <3>1. PICK l : l = More(<<v>>)
      OBVIOUS
    <3>2. l \in AttributeLines
      <4>1. l \in {More(<<x>>) : x \in Values}
        BY <3>1
      <4> QED BY <4>1 DEF AttributeLines
    <3>3. <<l>> \in Seq(AttributeLines)
      BY <3>2
    <3> QED BY <3>1, <3>3
  <2> QED BY <2>1
<1>3. \A l : <<l>> # <<>>
  OBVIOUS
<1>4. CASE value = NULL /\ PrintedAttribute(key, value) = <<Attribute(key, NULL)>>
  BY <1>1, <1>3, <1>4
<1>5. ASSUME NEW v \in Values, PrintedAttribute(key, value) = <<Attribute(key, <<v>>)>>
      PROVE  PrintedAttribute(key, value) \in Seq(AttributeLines) /\ PrintedAttribute(key, value) # <<>>
  BY <1>1, <1>3, <1>5
<1>6. ASSUME NEW v \in Values, NEW w \in Values,
             PrintedAttribute(key, value) = Joined(<<Attribute(key, <<v>>)>>, <<More(<<w>>)>>)
      PROVE  PrintedAttribute(key, value) \in Seq(AttributeLines) /\ PrintedAttribute(key, value) # <<>>
  <2>1. PICK a \in Seq(AttributeLines), b \in Seq(AttributeLines) :
           a = <<Attribute(key, <<v>>)>> /\ b = <<More(<<w>>)>>
    BY <1>1, <1>2
  <2>2. PICK s \in Seq(AttributeLines) : s = Joined(a, b) /\ Two(s, a, b)
    BY TwoParts
  <2>3. Len(a) = 1 /\ Len(b) = 1 /\ Len(<<>>) = 0
    BY <2>1
  <2>4. Len(s) = 2
    BY <2>2, <2>3 DEF Two
  <2>5. s # <<>>
    BY <2>3, <2>4
  <2> QED BY <1>6, <2>1, <2>2, <2>5
<1> QED BY <1>4, <1>5, <1>6, AttributeIs

(* The attributes of a record, in an order of their own. *)
LEMMA KeysOfRecord ==
    ASSUME NEW record \in AttributeRecords
    PROVE  /\ DOMAIN record \subseteq Keys /\ DOMAIN record # {}
           /\ \A k \in DOMAIN record : record[k] \in Parts
           /\ SetToSeq(DOMAIN record) \in Seq(DOMAIN record)
           /\ ToSet(SetToSeq(DOMAIN record)) = DOMAIN record
           /\ SetToSeq(DOMAIN record) # <<>>
<1>1. PICK K \in (SUBSET Keys) \ {{}} : record \in [K -> Parts]
  BY Zenon DEF AttributeRecords
<1>2. DOMAIN record = K /\ IsFiniteSet(K)
  BY <1>1, KeysAssumption, FS_Subset
<1>3. SetToSeq(K) \in SetToSeqs(K)
  BY <1>2, SomeOrder
<1>4. SetToSeq(K) \in Seq(K) /\ ToSet(SetToSeq(K)) = K
  BY <1>2, <1>3, OrderIs
<1>5. SetToSeq(K) # <<>>
  <2>1. ToSet(<<>>) = {}
    BY DEF ToSet
  <2> QED BY <1>1, <1>4, <2>1
<1> QED BY <1>1, <1>2, <1>4, <1>5

(* The parts of a record, one for each of its keys. *)
PartsOf(record) ==
    LET keys == SetToSeq(DOMAIN record)
    IN  [i \in 1..Len(keys) |-> PrintedAttribute(keys[i], record[keys[i]])]

LEMMA RecordLinesAre ==
    ASSUME NEW record \in AttributeRecords
    PROVE  /\ PartsOf(record) \in Seq(Seq(AttributeLines))
           /\ PrintedRecord(record) = FlattenSeq(PartsOf(record))
           /\ PrintedRecord(record) \in Seq(AttributeLines)
           /\ PrintedRecord(record) # <<>>
<1>1. PICK keys \in Seq(DOMAIN record) : keys = SetToSeq(DOMAIN record) /\ keys # <<>>
  BY KeysOfRecord
<1>2. ASSUME NEW i \in 1..Len(keys)
      PROVE  /\ PrintedAttribute(keys[i], record[keys[i]]) \in Seq(AttributeLines)
             /\ PrintedAttribute(keys[i], record[keys[i]]) # <<>>
  <2>1. keys[i] \in DOMAIN record
    OBVIOUS
  <2>2. keys[i] \in Keys /\ record[keys[i]] \in Parts
    BY <2>1, KeysOfRecord
  <2> QED BY <2>2, AttributeLinesAre
<1> DEFINE ss == [i \in 1..Len(keys) |-> PrintedAttribute(keys[i], record[keys[i]])]
<1>3. PartsOf(record) = ss
  BY <1>1 DEF PartsOf
<1>4. PrintedRecord(record) = FlattenSeq(ss)
  BY <1>1 DEF PrintedRecord
<1>5. ss \in Seq(Seq(AttributeLines)) /\ Len(ss) = Len(keys)
  BY <1>2
<1>6. 1 \in 1..Len(keys) /\ ss # <<>> /\ ss[1] # <<>>
  <2>1. Len(keys) \in Nat \ {0} /\ Len(<<>>) = 0
    BY <1>1, EmptySeq
  <2> QED BY <1>2, <1>5, <2>1
<1> HIDE DEF ss
<1>7. FlattenSeq(ss) \in Seq(AttributeLines) /\ FlattenSeq(ss) # <<>>
  BY <1>5, <1>6, FlatIs
<1> QED BY <1>3, <1>4, <1>5, <1>7

(* All records, each with the blank line that closes it. *)
ClosedRecords(records) == [i \in 1..Len(records) |-> Joined(PrintedRecord(records[i]), <<Blank>>)]
Rest(records) == FlattenSeq(ClosedRecords(records))
Before(divider) == IF divider THEN <<Text, Divider>> ELSE <<>>

LEMMA RestIs ==
    ASSUME NEW records \in Seq(AttributeRecords)
    PROVE  /\ ClosedRecords(records) \in Seq(Seq(AttributeLines \cup {Blank}))
           /\ Rest(records) \in Seq(AttributeLines \cup {Blank})
           /\ records # <<>> => Rest(records) # <<>> /\ Rest(records)[1] \in AttributeLines
<1> DEFINE T == AttributeLines \cup {Blank}
           ss == ClosedRecords(records)
<1>1. ASSUME NEW i \in 1..Len(records)
      PROVE  /\ Joined(PrintedRecord(records[i]), <<Blank>>) \in Seq(T)
             /\ Joined(PrintedRecord(records[i]), <<Blank>>) # <<>>
             /\ Joined(PrintedRecord(records[i]), <<Blank>>)[1] \in AttributeLines
  <2>1. records[i] \in AttributeRecords
    OBVIOUS
  <2>2. PICK a \in Seq(AttributeLines) : a = PrintedRecord(records[i]) /\ a # <<>>
    BY <2>1, RecordLinesAre
  <2>3. Len(a) \in Nat \ {0} /\ Len(<<>>) = 0
    BY <2>2, EmptySeq
  <2>4. a[1] \in AttributeLines
    BY <2>3
  <2>5. PICK c \in Seq(T), b \in Seq(T) : c = a /\ b = <<Blank>>
    <3>1. a \in Seq(T)
      OBVIOUS
    <3>2. <<Blank>> \in Seq(T)
      OBVIOUS
    <3> QED BY <3>1, <3>2
  <2>6. PICK s \in Seq(T) : s = Joined(c, b) /\ Two(s, c, b)
    BY TwoParts
  <2>7. s[1] = a[1] /\ Len(s) = Len(a) + Len(b) /\ Len(b) \in Nat
    BY <2>3, <2>5, <2>6 DEF Two
  <2>8. s # <<>>
    BY <2>3, <2>7
  <2> QED BY <2>2, <2>4, <2>5, <2>6, <2>7, <2>8
<1>2. ss \in Seq(Seq(T)) /\ Len(ss) = Len(records)
  BY <1>1 DEF ClosedRecords
<1>3. Rest(records) \in Seq(T)
  <2> HIDE DEF ss
  <2> QED BY <1>2, FlatIs DEF Rest, ss
<1>4. ASSUME records # <<>> PROVE Rest(records) # <<>> /\ Rest(records)[1] \in AttributeLines
  <2>1. Len(records) \in Nat \ {0} /\ Len(<<>>) = 0
    BY <1>4, EmptySeq
  <2>2. ss # <<>> /\ ss[1] = Joined(PrintedRecord(records[1]), <<Blank>>)
    BY <1>2, <2>1 DEF ClosedRecords
  <2>3. ss[1] # <<>> /\ ss[1][1] \in AttributeLines
    BY <1>1, <2>1, <2>2
  <2> HIDE DEF ss
  <2>4. FlattenSeq(ss) # <<>> /\ FlattenSeq(ss)[1] = ss[1][1]
    BY <1>2, <2>2, <2>3, FlatIs
  <2> QED BY <2>3, <2>4 DEF Rest, ss
<1> QED BY <1>2, <1>3, <1>4

LEMMA BeforeIs ==
    ASSUME NEW T, Text \in T, Divider \in T, NEW divider \in BOOLEAN
    PROVE  Before(divider) \in Seq(T)
<1>1. <<Text, Divider>> \in Seq(T) /\ <<>> \in Seq(T)
  OBVIOUS
<1>2. Before(divider) = <<Text, Divider>> \/ Before(divider) = <<>>
  BY DEF Before
<1> QED BY <1>1, <1>2

LEMMA AttributesPrinted ==
    ASSUME NEW records \in Seq(AttributeRecords), NEW divider \in BOOLEAN
    PROVE  /\ Joined(Before(divider), Rest(records)) \in Seq(Inner)
           /\ PrintedAttributes(records, divider) = Printed(Joined(Before(divider), Rest(records)))
<1>1. Before(divider) \in Seq(Lines) /\ Before(divider) \in Seq(Inner)
  <2>1. Text \in Lines /\ Divider \in Lines /\ Text \in Inner /\ Divider \in Inner
    BY DEF Lines, Inner, Plain
  <2> QED BY <2>1, BeforeIs
<1>2. Rest(records) \in Seq(Inner) /\ Rest(records) \in Seq(Lines)
  <2>1. PICK r \in Seq(AttributeLines \cup {Blank}) : r = Rest(records)
    BY RestIs
  <2>2. r \in Seq(Inner) /\ r \in Seq(Lines)
    BY DEF Lines, Inner, Plain
  <2> QED BY <2>1, <2>2
<1>3. Heading(0) \in Seq(Lines)
  BY DEF Heading, Lines, Inner, Plain
<1>4. PrintedAttributes(records, divider)
        = Joined(Joined(Joined(Heading(0), Before(divider)), Rest(records)), Ending)
  BY DEF PrintedAttributes, Before, Rest, ClosedRecords, Ending, Joined
<1>5. Joined(Joined(Heading(0), Before(divider)), Rest(records))
        = Joined(Heading(0), Joined(Before(divider), Rest(records)))
  BY <1>1, <1>2, <1>3, JoinedAssociative
<1>6. Joined(Before(divider), Rest(records)) \in Seq(Inner)
  BY <1>1, <1>2, JoinedIs
<1> QED BY <1>4, <1>5, <1>6 DEF Printed

(* Attributes are read in the vertical format, with or without a divider.  *)
LEMMA AttributesAreVertical ==
    ASSUME NEW records \in Seq(AttributeRecords), records # <<>>, NEW divider \in BOOLEAN
    PROVE  DetectFormat(PrintedAttributes(records, divider)) = "vertical"
<1> DEFINE T == AttributeLines \cup {Blank}
<1>1. PICK r \in Seq(T) : r = Rest(records) /\ r # <<>> /\ r[1] \in AttributeLines
  BY RestIs
<1>2. PICK b \in Seq(Plain) : b = Before(divider)
  <2>1. Text \in Plain /\ Divider \in Plain
    BY DEF Plain
  <2> QED BY <2>1, BeforeIs
<1>3. PICK inner \in Seq(Inner) :
         inner = Joined(b, r) /\ PrintedAttributes(records, divider) = Printed(inner)
  BY <1>1, <1>2, AttributesPrinted
<1>4. PICK x \in Seq(AttributeLines) : x = Stripped(r) /\ x # <<>>
  <2>1. PICK z \in Seq(T) : z = Stripped(r) /\ ToSet(z) = ToSet(r) \ {Blank}
    BY StrippedIs
  <2>2. r[1] \in ToSet(r) /\ r[1] # Blank
    <3>1. Len(r) \in Nat \ {0}
      BY <1>1, EmptySeq
    <3>2. 1 \in DOMAIN r
      BY <3>1
    <3> QED BY <1>1, <3>2, KindOfAttribute, KindOfOther DEF ToSet
  <2>3. z # <<>>
    <3>1. ToSet(<<>>) = {}
      BY DEF ToSet
    <3> QED BY <2>1, <2>2, <3>1
  <2>4. \A i \in 1..Len(z) : z[i] \in ToSet(z)
    BY DEF ToSet
  <2>5. \A i \in 1..Len(z) : z[i] \in AttributeLines
    BY <2>1, <2>4
  <2>6. z \in Seq(AttributeLines)
    BY <2>5
  <2> QED BY <2>1, <2>3, <2>6
<1>5. PICK y \in Seq(Plain) : y = Stripped(inner) /\ Two(y, b, x)
  <2>1. PICK c \in Seq(Inner), d \in Seq(Inner) : c = b /\ d = r
    <3>1. b \in Seq(Inner) /\ r \in Seq(Inner)
      BY DEF Inner, Plain
    <3> QED BY <3>1
  <2>2. Stripped(inner) = Joined(Stripped(b), x)
    BY <1>3, <1>4, <2>1, StrippedJoined
  <2>3. Stripped(b) = b
    <3>1. \A i \in 1..Len(b) : b[i] # Blank
      <4>1. \A i \in 1..Len(b) : b[i] \in Plain
        OBVIOUS
      <4> QED BY <4>1, KindOfPlain
    <3>2. Blank \notin ToSet(b)
      BY <3>1 DEF ToSet
    <3> QED BY <3>2, StrippedIs
  <2>4. PICK w \in Seq(Plain) : w = x
    <3>1. x \in Seq(Plain)
      BY DEF Plain
    <3> QED BY <3>1
  <2>5. PICK y \in Seq(Plain) : y = Joined(b, w) /\ Two(y, b, w)
    BY TwoParts
  <2> QED BY <2>2, <2>3, <2>4, <2>5
<1>6. /\ Len(b) \in Nat /\ Len(x) \in Nat \ {0} /\ Len(y) = Len(b) + Len(x)
      /\ \A i \in 1..Len(x) : y[Len(b) + i] = x[i] /\ x[i] \in AttributeLines
  <2>1. Len(x) \in Nat \ {0} /\ Len(b) \in Nat
    BY <1>4, EmptySeq
  <2>2. \A i \in 1..Len(x) : x[i] \in AttributeLines
    OBVIOUS
  <2> QED BY <1>5, <2>1, <2>2 DEF Two
<1> DEFINE k == Len(b) + 1
<1>7. k \in 1..Len(y) /\ y[k].kind = "attribute"
  <2>1. y[Len(b) + 1] = x[1] /\ x[1] \in AttributeLines
    BY <1>6
  <2> QED BY <1>6, <2>1, KindOfAttribute
<1>8. ASSUME NEW i \in 1..Len(y), y[i].kind = "divider" PROVE i < k
  <2> SUFFICES ASSUME i >= k PROVE FALSE
    BY <1>6
  <2>1. i - Len(b) \in 1..Len(x) /\ Len(b) + (i - Len(b)) = i
    BY <1>6
  <2>2. y[i] = x[i - Len(b)] /\ x[i - Len(b)] \in AttributeLines
    BY <1>6, <2>1
  <2> QED BY <1>8, <2>2, KindOfAttribute
<1> HIDE DEF k
<1>9. DetectFormat(Printed(inner)) = "vertical"
  BY <1>5, <1>7, <1>8, IsVertical
<1> QED BY <1>3, <1>9

-----------------------------------------------------------------------------
(* Tables.                                                                 *)

LEMMA HasLargest ==
    ASSUME NEW M \in Nat, NEW S \in SUBSET (0..M), S # {}
    PROVE  \E n \in S : \A m \in S : m <= n
<1> DEFINE T == {M - n : n \in S}
<1>1. T \in SUBSET Nat /\ T # {}
  <2>1. \A n \in S : n \in 0..M
    OBVIOUS
  <2>2. \A n \in S : M - n \in Nat
    BY <2>1
  <2> QED BY <2>2
<1>2. PICK l \in T : \A j \in T : l <= j
  <2> HIDE DEF T
  <2> QED BY <1>1, HasSmallest
<1>3. PICK n \in S : l = M - n
  OBVIOUS
<1>4. ASSUME NEW m \in S PROVE m <= n
  <2>1. M - m \in T
    OBVIOUS
  <2>2. l <= M - m
    BY <1>2, <2>1
  <2> QED BY <1>3, <2>2
<1> QED BY <1>4

(* A heading is found at its place. *)
PlaceOf(headings, k) == SelectInSeq(headings, LAMBDA x : x = k)

LEMMA PlaceOfHeading ==
    ASSUME NEW T, NEW headings \in Seq(T), NEW n \in 1..Len(headings),
           \A i, j \in 1..Len(headings) : i # j => headings[i] # headings[j]
    PROVE  PlaceOf(headings, headings[n]) = n
<1> DEFINE I == {i \in 1..Len(headings) : headings[i] = headings[n]}
<1>1. I = {n}
  OBVIOUS
<1>2. Min({n}) = n
  BY DEF Min
<1> QED BY <1>1, <1>2 DEF PlaceOf, SelectInSeq

Word(headings, record, i) ==
    IF record[headings[i]] = NULL THEN "NULL" ELSE record[headings[i]][1]

(* A row has a cell for each heading, as far as there is anything to say.  *)
LEMMA RowIs ==
    ASSUME NEW headings \in SetToSeqs(Keys), NEW record \in TableRecords, NEW short \in BOOLEAN
    PROVE  \E width \in 1..Len(headings) :
              /\ PrintedRow(headings, record, short)
                    = Row([i \in 1..width |-> Word(headings, record, i)])
              /\ \A i \in 1..Len(headings) : i > width => record[headings[i]] = NULL
<1>1. headings \in Seq(Keys) /\ Len(headings) \in Nat \ {0}
  <2>1. headings \in Seq(Keys) /\ Len(headings) = Cardinality(Keys)
    BY KeysAssumption, OrderIs
  <2>2. Cardinality(Keys) \in Nat /\ Cardinality(Keys) # 0
    BY KeysAssumption, FS_CardinalityType, FS_EmptySet
  <2> QED BY <2>1, <2>2
<1> DEFINE told == {i \in 1..Len(headings) : record[headings[i]] # NULL} \cup {1}
           last == CHOOSE i \in told : \A j \in told : j <= i
           width == IF short THEN last ELSE Len(headings)
<1>2. last \in told /\ \A j \in told : j <= last
  <2>1. told \in SUBSET (0..Len(headings)) /\ told # {}
    BY <1>1
  <2> HIDE DEF told
  <2>2. \E n \in told : \A m \in told : m <= n
    BY <1>1, <2>1, HasLargest
  <2> QED BY <2>2
<1>3. PrintedRow(headings, record, short) = Row([i \in 1..width |-> Word(headings, record, i)])
  BY DEF PrintedRow, Word
<1>4. told \subseteq 1..Len(headings)
  BY <1>1
<1>5. ASSUME NEW i \in 1..Len(headings), i > last PROVE record[headings[i]] = NULL
  <2>1. i \notin told
    <3>1. last \in Nat /\ i \in Nat
      BY <1>2, <1>4
    <3> HIDE DEF told, last
    <3> QED BY <1>2, <1>5, <3>1
  <2> QED BY <2>1
<1>6. width \in 1..Len(headings)
  <2>1. last \in 1..Len(headings)
    BY <1>2, <1>4
  <2> HIDE DEF last
  <2> QED BY <1>1, <2>1
<1>7. ASSUME NEW i \in 1..Len(headings), i > width PROVE record[headings[i]] = NULL
  <2>1. short
    BY <1>1, <1>7
  <2> QED BY <1>5, <1>7, <2>1
<1> HIDE DEF width
<1> QED BY <1>3, <1>6, <1>7

(* What the parser makes of a row is the record. *)
LEMMA RowComesBack ==
    ASSUME NEW headings \in SetToSeqs(Keys), NEW record \in TableRecords, NEW short \in BOOLEAN
    PROVE  /\ PrintedRow(headings, record, short) \in RowLines
           /\ RowRecord(headings, PrintedRow(headings, record, short).columns) = record
<1>1. /\ headings \in Seq(Keys) /\ ToSet(headings) = Keys
      /\ \A i, j \in 1..Len(headings) : i # j => headings[i] # headings[j]
  BY KeysAssumption, OrderIs
<1>2. PICK width \in 1..Len(headings) :
              /\ PrintedRow(headings, record, short)
                    = Row([i \in 1..width |-> Word(headings, record, i)])
              /\ \A i \in 1..Len(headings) : i > width => record[headings[i]] = NULL
  BY RowIs
<1>3. Len(headings) \in Nat /\ width \in Nat
  BY <1>1
<1> DEFINE columns == [i \in 1..width |-> Word(headings, record, i)]
<1>4. ASSUME NEW k \in Keys PROVE record[k] = NULL \/ \E v \in Values : record[k] = <<v>>
  BY DEF TableRecords
<1>5. ASSUME NEW i \in 1..Len(headings) PROVE headings[i] \in Keys
  BY <1>1
<1>6. ASSUME NEW i \in 1..width
      PROVE  Word(headings, record, i) \in Cells
  <2>1. i \in 1..Len(headings)
    BY <1>3
  <2>2. CASE record[headings[i]] = NULL
    BY <2>2 DEF Word, Cells
  <2>3. CASE record[headings[i]] # NULL
    <3>1. PICK v \in Values : record[headings[i]] = <<v>>
      BY <1>4, <1>5, <2>1, <2>3
    <3>2. record[headings[i]][1] = v
      BY <3>1
    <3> QED BY <2>3, <3>2 DEF Word, Cells
  <2> QED BY <2>2, <2>3
<1>7. columns \in Seq(Cells) /\ Len(columns) = width
      /\ \A i \in 1..width : columns[i] = Word(headings, record, i)
  BY <1>3, <1>6
<1> HIDE DEF columns
<1>8. PrintedRow(headings, record, short) = Row(columns)
  BY <1>2 DEF columns
<1>9. PrintedRow(headings, record, short) \in RowLines
  BY <1>7, <1>8 DEF RowLines
<1>10. PrintedRow(headings, record, short).columns = columns
  BY <1>8, KindOfForms
<1>11. ASSUME NEW k \in Keys
       PROVE  Cell(columns, PlaceOf(headings, k)) = record[k]
  <2>1. PICK n \in 1..Len(headings) : headings[n] = k
    <3>1. DOMAIN headings = 1..Len(headings)
      BY <1>1
    <3> QED BY <1>1, <3>1 DEF ToSet
  <2>2. PlaceOf(headings, headings[n]) = n
    BY <1>1, PlaceOfHeading
  <2>3. PlaceOf(headings, k) = n
    BY <2>1, <2>2
  <2>4. Cell(columns, n) = record[k]
    <3>1. CASE n > width
      <4>1. record[k] = NULL
        BY <1>2, <2>1, <3>1
      <4> QED BY <1>7, <3>1, <4>1 DEF Cell
    <3>2. CASE ~(n > width)
      <4>1. n \in 1..width /\ ~(n > Len(columns))
        BY <1>3, <1>7, <3>2
      <4>2. columns[n] = IF record[k] = NULL THEN "NULL" ELSE record[k][1]
        BY <1>7, <2>1, <4>1 DEF Word
      <4>3. CASE record[k] = NULL
        BY <4>1, <4>2, <4>3 DEF Cell
      <4>4. CASE record[k] # NULL
        <5>1. PICK v \in Values : record[k] = <<v>>
          BY <1>4, <4>4
        <5>2. columns[n] = v
          BY <4>2, <4>4, <5>1
        <5>3. v # "NULL"
          BY ValuesAssumption
        <5> QED BY <4>1, <5>1, <5>2, <5>3 DEF Cell
      <4> QED BY <4>3, <4>4
    <3> QED BY <3>1, <3>2
  <2> QED BY <2>3, <2>4
<1>12. RowRecord(headings, columns) = [k \in Keys |-> record[k]]
  BY <1>1, <1>11 DEF RowRecord, PlaceOf
<1>13. record = [k \in Keys |-> record[k]]
  BY DEF TableRecords
<1> QED BY <1>9, <1>10, <1>12, <1>13

Top(headings) == <<Text, Divider, Row(headings), Blank>>
RowsOf(headings, records, short) ==
    [i \in 1..Len(records) |-> PrintedRow(headings, records[i], short)]

LEMMA TopIs ==
    ASSUME NEW headings \in Seq(Keys)
    PROVE  /\ Top(headings) \in Seq(Inner)
           /\ Stripped(Top(headings)) = <<Text, Divider, Row(headings)>>
           /\ <<Text, Divider, Row(headings)>> \in Seq(Plain)
<1>1. headings \in Seq(Cells)
  BY DEF Cells
<1>2. Row(headings) \in RowLines
  BY <1>1 DEF RowLines
<1>3. <<Text, Divider, Row(headings)>> \in Seq(Plain)
  BY <1>2 DEF Plain
<1>4. PICK a \in Seq(Inner), b \in Seq(Inner) : a = <<Text, Divider, Row(headings)>> /\ b = <<Blank>>
  <2>1. <<Text, Divider, Row(headings)>> \in Seq(Inner)
    BY <1>2 DEF Inner, Plain
  <2>2. <<Blank>> \in Seq(Inner)
    BY DEF Inner
  <2> QED BY <2>1, <2>2
<1>5. PICK s \in Seq(Inner) : s = Joined(a, b) /\ Two(s, a, b)
  BY TwoParts
<1>6. Top(headings) = s
  <2>1. Top(headings) \in Seq(Inner) /\ Len(Top(headings)) = 4
    BY <1>2 DEF Top, Inner, Plain
  <2>2. PICK t \in Seq(Inner) : t = Top(headings)
    BY <2>1
  <2>3. Len(a) = 3 /\ a[1] = Text /\ a[2] = Divider /\ a[3] = Row(headings) /\ Len(b) = 1 /\ b[1] = Blank
    BY <1>4
  <2>4. Len(s) = 4 /\ s[1] = Text /\ s[2] = Divider /\ s[3] = Row(headings) /\ s[4] = Blank
    BY <1>5, <2>3 DEF Two
  <2>5. t[1] = Text /\ t[2] = Divider /\ t[3] = Row(headings) /\ t[4] = Blank
    BY <2>2 DEF Top
  <2>6. \A i \in 1..Len(t) : t[i] = s[i]
    BY <2>1, <2>2, <2>4, <2>5
  <2>7. t = s
    BY <2>1, <2>2, <2>4, <2>6, SeqEqual
  <2> QED BY <2>2, <2>7
<1>7. Stripped(s) = Joined(Stripped(a), Stripped(b))
  BY <1>5, StrippedJoined
<1>8. Stripped(a) = a
  <2>1. a \in Seq(Plain)
    BY <1>3, <1>4
  <2>2. \A i \in 1..Len(a) : a[i] # Blank
    <3>1. \A i \in 1..Len(a) : a[i] \in Plain
      BY <2>1
    <3> QED BY <3>1, KindOfPlain
  <2>3. Blank \notin ToSet(a)
    BY <2>2 DEF ToSet
  <2> QED BY <2>3, StrippedIs
<1>9. Stripped(b) = <<>>
  <2>1. ToSet(b) = {Blank}
    BY <1>4 DEF ToSet
  <2>2. Stripped(b) \in Seq(Inner) /\ ToSet(Stripped(b)) = {}
    BY <2>1, StrippedIs
  <2>3. PICK z \in Seq(Inner) : z = Stripped(b)
    BY <2>2
  <2>4. \A i \in 1..Len(z) : z[i] \in ToSet(z)
    BY DEF ToSet
  <2>5. Len(z) = 0
    BY <2>2, <2>3, <2>4
  <2>6. z = <<>>
    BY <2>5
  <2> QED BY <2>3, <2>6
<1>10. Joined(a, <<>>) = a
  BY JoinedIs
<1> QED BY <1>3, <1>4, <1>6, <1>7, <1>8, <1>9, <1>10

(* The report of a table and what is in its text. *)
LEMMA TablePrinted ==
    ASSUME NEW headings \in SetToSeqs(Keys), NEW records \in Seq(TableRecords), NEW short \in BOOLEAN
    PROVE  \E inner \in Seq(Inner), top \in Seq(Plain), rows \in Seq(RowLines), y \in Seq(Plain) :
              /\ PrintedTable(headings, records, short) = Printed(inner)
              /\ y = Stripped(inner) /\ Two(y, top, rows)
              /\ Len(top) = 3 /\ top[1] = Text /\ top[2] = Divider /\ top[3] = Row(headings)
              /\ rows = RowsOf(headings, records, short)
              /\ Len(inner) = 4 + Len(rows)
<1>1. headings \in Seq(Keys)
  BY KeysAssumption, OrderIs
<1>2. PICK rows \in Seq(RowLines) : rows = RowsOf(headings, records, short)
  <2>1. ASSUME NEW i \in 1..Len(records)
        PROVE  PrintedRow(headings, records[i], short) \in RowLines
    <3>1. records[i] \in TableRecords
      OBVIOUS
    <3> QED BY <3>1, RowComesBack
  <2>2. RowsOf(headings, records, short) \in Seq(RowLines)
    BY <2>1 DEF RowsOf
  <2> QED BY <2>2
<1>3. PICK a \in Seq(Inner), b \in Seq(Inner) : a = Top(headings) /\ b = rows
  <2>1. rows \in Seq(Inner)
    BY DEF Inner, Plain
  <2> QED BY <1>1, <2>1, TopIs
<1>4. PICK inner \in Seq(Inner) : inner = Joined(a, b)
  BY JoinedIs
<1>5. PrintedTable(headings, records, short) = Printed(inner)
  <2>1. PrintedTable(headings, records, short) = Joined(Joined(Joined(Heading(0), a), b), Ending)
    BY <1>2, <1>3 DEF PrintedTable, Top, RowsOf, Ending, Joined
  <2>2. Heading(0) \in Seq(Lines)
    BY DEF Heading, Lines, Inner, Plain
  <2>3. PICK c \in Seq(Lines), d \in Seq(Lines), h \in Seq(Lines) : c = a /\ d = b /\ h = Heading(0)
    <3>1. a \in Seq(Lines) /\ b \in Seq(Lines)
      BY DEF Lines
    <3> QED BY <2>2, <3>1
  <2>4. Joined(Joined(h, c), d) = Joined(h, Joined(c, d))
    BY JoinedAssociative
  <2> QED BY <1>4, <2>1, <2>3, <2>4 DEF Printed
<1>6. PICK top \in Seq(Plain) : top = <<Text, Divider, Row(headings)>> /\ top = Stripped(a)
  BY <1>1, <1>3, TopIs
<1>7. Stripped(b) = rows
  <2>1. \A i \in 1..Len(rows) : rows[i] # Blank
    <3>1. \A i \in 1..Len(rows) : rows[i] \in RowLines
      OBVIOUS
    <3> QED BY <3>1, KindOfPlain DEF Plain
  <2>2. Blank \notin ToSet(rows)
    BY <2>1 DEF ToSet
  <2> QED BY <1>3, <2>2, StrippedIs
<1>8. PICK r \in Seq(Plain) : r = rows
  <2>1. rows \in Seq(Plain)
    BY DEF Plain
  <2> QED BY <2>1
<1>9. PICK y \in Seq(Plain) : y = Joined(top, r) /\ Two(y, top, r)
  BY TwoParts
<1>10. Stripped(inner) = Joined(Stripped(a), Stripped(b))
  BY <1>4, StrippedJoined
<1>11. y = Stripped(inner) /\ Two(y, top, rows)
  BY <1>6, <1>7, <1>8, <1>9, <1>10
<1>12. Len(top) = 3 /\ top[1] = Text /\ top[2] = Divider /\ top[3] = Row(headings)
  BY <1>6
<1>13. Len(inner) = 4 + Len(rows)
  <2>1. Len(inner) = Len(a) + Len(b)
    BY <1>4, JoinedIs
  <2>2. Len(a) = 4
    BY <1>3 DEF Top
  <2> QED BY <1>3, <2>1, <2>2
<1> QED BY <1>2, <1>5, <1>11, <1>12, <1>13

(* A table comes back as the records that were printed, whatever the order *)
(* of its headings and however short its rows.                             *)
LEMMA TableComesBack ==
    ASSUME NEW headings \in SetToSeqs(Keys), NEW records \in Seq(TableRecords), NEW short \in BOOLEAN
    PROVE  Parse(PrintedTable(headings, records, short)) = [outcome |-> "records", records |-> records]
<1>1. PICK inner \in Seq(Inner), top \in Seq(Plain), rows \in Seq(RowLines), y \in Seq(Plain) :
              /\ PrintedTable(headings, records, short) = Printed(inner)
              /\ y = Stripped(inner) /\ Two(y, top, rows)
              /\ Len(top) = 3 /\ top[1] = Text /\ top[2] = Divider /\ top[3] = Row(headings)
              /\ rows = RowsOf(headings, records, short)
  BY TablePrinted
<1>2. PICK text \in Seq(Lines) : text = Stripped(Printed(inner)) /\ IsText(text, y)
  <2>1. PICK t \in Seq(Lines), z \in Seq(Plain) :
              /\ z = Stripped(inner) /\ t = Stripped(Printed(inner)) /\ IsText(t, z)
    BY TextParts
  <2> QED BY <1>1, <2>1
<1>3. PICK n \in Nat : n = Len(records)
  OBVIOUS
<1>4. /\ Len(rows) = n /\ \A i \in 1..n : rows[i] = PrintedRow(headings, records[i], short)
  BY <1>1, <1>3 DEF RowsOf
<1>5. /\ Len(y) = n + 3 /\ y[1] = Text /\ y[2] = Divider /\ y[3] = Row(headings)
      /\ \A i \in 1..n : y[3 + i] = rows[i]
  <2>1. y[1] = top[1] /\ y[2] = top[2] /\ y[3] = top[3]
    BY <1>1 DEF Two
  <2>2. Len(y) = n + 3
    BY <1>1, <1>4 DEF Two
  <2>3. \A i \in 1..n : y[3 + i] = rows[i]
    BY <1>1, <1>4 DEF Two
  <2> QED BY <1>1, <2>1, <2>2, <2>3
<1>6. /\ Len(text) = n + 9 /\ text[1] = Text /\ text[2] = Text /\ text[3] = Text
      /\ text[4] = Retcode(0) /\ text[5] = Text /\ text[6] = Divider /\ text[7] = Row(headings)
      /\ text[n + 8] = Count
  <2>1. text[4 + 1] = y[1] /\ text[4 + 2] = y[2] /\ text[4 + 3] = y[3]
    BY <1>2, <1>5 DEF IsText
  <2>2. Len(text) = n + 9 /\ text[n + 8] = Count
    BY <1>2, <1>5 DEF IsText
  <2> QED BY <1>2, <1>5, <2>1, <2>2 DEF IsText
<1>7. ASSUME NEW i \in 1..n PROVE text[7 + i] = rows[i]
  <2>1. 3 + i \in 1..Len(y) /\ 4 + (3 + i) = 7 + i
    BY <1>5
  <2>2. text[4 + (3 + i)] = y[3 + i]
    BY <1>2, <2>1 DEF IsText
  <2> QED BY <1>5, <2>1, <2>2
<1>8. DetectFormat(Printed(inner)) = "horizontal"
  <2>1. ASSUME NEW i \in 1..Len(y) PROVE y[i].kind # "attribute"
    <3>1. CASE i \in 1..3
      BY <1>5, <3>1, KindOfForms, KindOfOther
    <3>2. CASE i - 3 \in 1..n
      <4>1. y[3 + (i - 3)] = rows[i - 3] /\ i = 3 + (i - 3)
        BY <1>5, <3>2
      <4>2. rows[i - 3] \in RowLines
        BY <1>4, <3>2
      <4> QED BY <4>1, <4>2, KindOfRow
    <3> QED BY <1>5, <3>1, <3>2
  <2> QED BY <1>1, <2>1, IsHorizontal
<1>9. FirstOf(text, {"divider"}) = 6
  <2>1. 6 \in 1..Len(text) /\ text[6].kind \in {"divider"}
    BY <1>6, KindOfOther
  <2>2. ASSUME NEW i \in 1..Len(text), i < 6 PROVE text[i].kind \notin {"divider"}
    <3>1. i \in 1..5
      BY <2>2
    <3> QED BY <1>6, <3>1, KindOfOther
  <2> QED BY <2>1, <2>2, FirstIs
<1>10. PICK below \in Seq(Lines) :
          /\ below = From(text, 8) /\ Len(below) = n + 2
          /\ \A i \in 1..n : below[i] = rows[i]
          /\ below[n + 1] = Count
  <2>1. 8 \in 1..Len(text) + 1
    BY <1>6
  <2>2. PICK below \in Seq(Lines) :
          /\ below = From(text, 8) /\ Len(below) = Len(text) + 1 - 8
          /\ \A j \in 1..Len(text) + 1 - 8 : below[j] = text[8 - 1 + j]
    BY <2>1, FromIs
  <2>3. Len(below) = n + 2
    BY <1>6, <2>2
  <2>4. ASSUME NEW i \in 1..n PROVE below[i] = rows[i]
    <3>1. i \in 1..Len(text) + 1 - 8 /\ 8 - 1 + i = 7 + i
      BY <1>6
    <3> QED BY <1>7, <2>2, <3>1
  <2>5. below[n + 1] = Count
    <3>1. n + 1 \in 1..Len(text) + 1 - 8 /\ 8 - 1 + (n + 1) = n + 8
      BY <1>6
    <3> QED BY <1>6, <2>2, <3>1
  <2> QED BY <2>2, <2>3, <2>4, <2>5
<1>11. FirstOf(below, {"count", "divider", "end"}) = n + 1
  <2>1. n + 1 \in 1..Len(below) /\ below[n + 1].kind \in {"count", "divider", "end"}
    BY <1>10, KindOfOther
  <2>2. ASSUME NEW i \in 1..Len(below), i < n + 1
        PROVE  below[i].kind \notin {"count", "divider", "end"}
    <3>1. i \in 1..n
      BY <2>2
    <3>2. below[i] = rows[i] /\ rows[i] \in RowLines
      BY <1>4, <1>10, <3>1
    <3> QED BY <3>2, KindOfRow
  <2> QED BY <2>1, <2>2, FirstIs
<1>12. PICK table \in Seq(Lines) :
          /\ table = SubSeq(below, 1, FirstOf(below, {"count", "divider", "end"}) - 1)
          /\ Len(table) = n /\ \A i \in 1..n : table[i] = rows[i]
  <2>1. (n + 1) - 1 = n /\ n <= Len(below)
    BY <1>10
  <2>2. PICK table \in Seq(Lines) : table = SubSeq(below, 1, n)
    <3>1. SubSeq(below, 1, n) \in Seq(Lines)
      BY <2>1
    <3> QED BY <3>1
  <2>3. Len(table) = n
    BY <2>1, <2>2
  <2>4. ASSUME NEW i \in 1..n PROVE table[i] = rows[i]
    <3>1. table[i] = below[i]
      BY <2>1, <2>2
    <3> QED BY <1>10, <3>1
  <2> QED BY <1>11, <2>1, <2>2, <2>3, <2>4
<1>13. [i \in 1..Len(table) |-> RowRecord(text[7].columns, table[i].columns)] = records
  <2> DEFINE t == [i \in 1..Len(table) |-> RowRecord(text[7].columns, table[i].columns)]
  <2>1. text[7].columns = headings
    BY <1>6, KindOfForms
  <2>2. ASSUME NEW i \in 1..n PROVE RowRecord(text[7].columns, table[i].columns) = records[i]
    <3>1. table[i] = PrintedRow(headings, records[i], short)
      BY <1>4, <1>12
    <3>2. records[i] \in TableRecords
      BY <1>3
    <3> QED BY <2>1, <3>1, <3>2, RowComesBack
  <2>3. t = [i \in 1..n |-> records[i]]
    BY <1>12, <2>2
  <2>4. records = [i \in 1..n |-> records[i]]
    BY <1>3
  <2> QED BY <2>3, <2>4
<1>14. ParseHorizontal(Printed(inner)) = [outcome |-> "records", records |-> records]
  <2> DEFINE d == FirstOf(text, {"divider"})
  <2>1. d # 0 /\ d + 2 = 8 /\ d + 1 = 7
    BY <1>9
  <2>2. From(text, d + 2) = below
    BY <1>10, <2>1
  <2>3. SubSeq(From(text, d + 2), 1,
               FirstOf(From(text, d + 2), {"count", "divider", "end"}) - 1) = table
    BY <1>12, <2>2
  <2>4. [i \in 1..Len(table) |-> RowRecord(text[d + 1].columns, table[i].columns)] = records
    BY <1>13, <2>1
  <2>5. Stripped(Printed(inner)) = text
    BY <1>2
  <2>6. ParseHorizontal(Printed(inner)) =
            IF d = 0 THEN [outcome |-> "StopIteration", records |-> <<>>]
            ELSE [outcome |-> "records",
                  records |-> [i \in 1..Len(table) |->
                                  RowRecord(text[d + 1].columns, table[i].columns)]]
    BY <2>3, <2>5, Zenon DEF ParseHorizontal
  <2> HIDE DEF d
  <2> QED BY <2>1, <2>4, <2>6
<1>15. Parse(Printed(inner)) = ParseHorizontal(Printed(inner))
  BY <1>8, ParsePrinted
<1> QED BY <1>1, <1>14, <1>15

-----------------------------------------------------------------------------
(* Attributes: what the loop of the vertical format makes of each line.    *)

NotYet == FALSE
At(records, current, lastKey) ==
    [records |-> records, current |-> current, lastKey |-> lastKey, done |-> NotYet]
Over(records, current, lastKey) ==
    [records |-> records, current |-> current, lastKey |-> lastKey, done |-> TRUE]

LEMMA AtIs ==
    ASSUME NEW r, NEW c, NEW k
    PROVE  /\ At(r, c, k).records = r /\ At(r, c, k).current = c
           /\ At(r, c, k).lastKey = k /\ ~At(r, c, k).done
BY DEF At, NotYet

LEMMA OverIs ==
    ASSUME NEW r, NEW c, NEW k
    PROVE  /\ Over(r, c, k).records = r /\ Over(r, c, k).current = c
           /\ Over(r, c, k).lastKey = k /\ Over(r, c, k).done
BY DEF Over

LEMMA AttributeStep ==
    ASSUME NEW r, NEW c, NEW k, NEW key, key # NoKey, NEW value
    PROVE  VerticalStep(At(r, c, k), Attribute(key, value))
              = At(r, With(c, key, value), key)
<1>1. /\ Attribute(key, value).kind = "attribute" /\ Attribute(key, value).key = key
      /\ Attribute(key, value).value = value
  BY DEF Attribute, Line
<1>2. VerticalStep(At(r, c, k), Attribute(key, value))
        = [At(r, c, k) EXCEPT !.current = With(@, key, value), !.lastKey = key]
  BY <1>1, AtIs DEF VerticalStep
<1> QED BY <1>2 DEF At

Longer(c, k, value) == [c EXCEPT ![k] = @ \o value]

LEMMA AtChanged ==
    ASSUME NEW r, NEW c, NEW k, NEW d PROVE [At(r, c, k) EXCEPT !.current = d] = At(r, d, k)
BY DEF At

LEMMA MoreStep ==
    ASSUME NEW r, NEW c, NEW k, k # NoKey, NEW value
    PROVE  VerticalStep(At(r, c, k), More(value)) = At(r, Longer(c, k, value), k)
<1>1. More(value).kind = "attribute" /\ More(value).key = NoKey /\ More(value).value = value
  BY DEF More, Line
<1>2. PICK a, l : a = At(r, c, k) /\ l = More(value)
  OBVIOUS
<1>3. /\ ~a.done /\ a.lastKey = k /\ a.current = c
      /\ l.kind = "attribute" /\ l.key = NoKey /\ l.value = value
  BY <1>1, <1>2, AtIs
<1>4. VerticalStep(a, l) = [a EXCEPT !.current[a.lastKey] = @ \o l.value]
  BY <1>3 DEF VerticalStep
<1>5. VerticalStep(a, l) = [a EXCEPT !.current = Longer(c, k, value)]
  BY <1>3, <1>4 DEF Longer
<1>6. [At(r, c, k) EXCEPT !.current = Longer(c, k, value)] = At(r, Longer(c, k, value), k)
  BY AtChanged
<1> QED BY <1>2, <1>5, <1>6

LEMMA BlankStep ==
    ASSUME NEW r, NEW c, NEW k
    PROVE  /\ c # NoRecord => VerticalStep(At(r, c, k), Blank)
                                 = At(Append(r, c), NoRecord, NoKey)
           /\ Closed(Over(r, NoRecord, k)) = Over(r, NoRecord, k)
<1>1. VerticalStep(At(r, c, k), Blank) = Closed(At(r, c, k))
  BY AtIs, KindOfOther DEF VerticalStep
<1>2. Closed(Over(r, NoRecord, k)) = Over(r, NoRecord, k)
  BY OverIs DEF Closed
<1>3. ASSUME c # NoRecord
      PROVE  Closed(At(r, c, k)) = At(Append(r, c), NoRecord, NoKey)
  <2>1. PICK a : a = At(r, c, k) /\ a.current = c /\ a.records = r
    BY AtIs
  <2>2. Closed(a) = [a EXCEPT !.records = Append(r, c), !.current = NoRecord, !.lastKey = NoKey]
    BY <1>3, <2>1 DEF Closed
  <2> QED BY <2>1, <2>2 DEF At
<1> QED BY <1>1, <1>2, <1>3

LEMMA LastSteps ==
    ASSUME NEW r, NEW c, NEW k
    PROVE  /\ VerticalStep(At(r, c, k), Count) = Over(r, c, k)
           /\ \A l : VerticalStep(Over(r, c, k), l) = Over(r, c, k)
<1>1. VerticalStep(At(r, c, k), Count) = [At(r, c, k) EXCEPT !.done = TRUE]
  BY AtIs, KindOfOther DEF VerticalStep
<1>2. \A l : VerticalStep(Over(r, c, k), l) = Over(r, c, k)
  BY OverIs DEF VerticalStep
<1> QED BY <1>1, <1>2 DEF At, Over

LEMMA AttributeRead ==
    ASSUME NEW r, NEW c, NEW k, NEW key, key # NoKey, NEW value
    PROVE  Stepped(At(r, c, k), <<Attribute(key, value)>>) = At(r, With(c, key, value), key)
<1>1. PICK a, l : a = At(r, c, k) /\ l = Attribute(key, value)
  OBVIOUS
<1>2. Stepped(a, <<l>>) = VerticalStep(a, l)
  BY SteppedOne
<1>3. VerticalStep(At(r, c, k), Attribute(key, value)) = At(r, With(c, key, value), key)
  BY AttributeStep
<1> QED BY <1>1, <1>2, <1>3

LEMMA MoreRead ==
    ASSUME NEW r, NEW c, NEW k, k # NoKey, NEW value
    PROVE  Stepped(At(r, c, k), <<More(value)>>) = At(r, Longer(c, k, value), k)
<1>1. PICK a, l : a = At(r, c, k) /\ l = More(value)
  OBVIOUS
<1>2. Stepped(a, <<l>>) = VerticalStep(a, l)
  BY SteppedOne
<1>3. VerticalStep(At(r, c, k), More(value)) = At(r, Longer(c, k, value), k)
  BY MoreStep
<1> QED BY <1>1, <1>2, <1>3

LEMMA BlankRead ==
    ASSUME NEW r, NEW c, NEW k, c # NoRecord
    PROVE  Stepped(At(r, c, k), <<Blank>>) = At(Append(r, c), NoRecord, NoKey)
<1>1. PICK a, l : a = At(r, c, k) /\ l = Blank
  OBVIOUS
<1>2. Stepped(a, <<l>>) = VerticalStep(a, l)
  BY SteppedOne
<1> QED BY <1>1, <1>2, BlankStep

LEMMA EndingStep ==
    ASSUME NEW r, NEW k
    PROVE  Stepped(At(r, NoRecord, k), Ending) = Over(r, NoRecord, k)
<1> DEFINE acc == At(r, NoRecord, k)
           s == Ending
<1>1. s \in Seq(Lines) /\ Len(s) = 3 /\ s[1] = Count
  BY DEF Ending, Lines, Inner
<1> HIDE DEF s, acc
<1>2. PICK f : /\ Stepped(acc, s) = f[Len(s)] /\ f[0] = acc
               /\ \A i \in 1..Len(s) : f[i] = VerticalStep(f[i - 1], s[i])
  BY <1>1, SteppedSteps, SMTT(60)
<1>3. /\ f[1] = VerticalStep(f[1 - 1], s[1]) /\ f[2] = VerticalStep(f[2 - 1], s[2])
      /\ f[3] = VerticalStep(f[3 - 1], s[3])
  BY <1>1, <1>2
<1>4. f[1] = Over(r, NoRecord, k)
  BY <1>1, <1>2, <1>3, LastSteps DEF acc
<1>5. f[2] = Over(r, NoRecord, k)
  BY <1>3, <1>4, LastSteps
<1>6. f[3] = Over(r, NoRecord, k)
  BY <1>3, <1>5, LastSteps
<1> QED BY <1>1, <1>2, <1>6 DEF s, acc

(* An attribute is read into the current record. *)
LEMMA AttributeIsRead ==
    ASSUME NEW key \in Keys, NEW value \in Parts, NEW r, NEW c, NEW k
    PROVE  Stepped(At(r, c, k), PrintedAttribute(key, value))
              = At(r, With(c, key, value), key)
<1>1. key # NoKey
  BY KeysAssumption
<1>2. CASE value = NULL /\ PrintedAttribute(key, value) = <<Attribute(key, NULL)>>
  BY <1>1, <1>2, AttributeRead
<1>3. ASSUME NEW v \in Values, value = <<v>>,
             PrintedAttribute(key, value) = <<Attribute(key, <<v>>)>>
      PROVE  Stepped(At(r, c, k), PrintedAttribute(key, value))
                = At(r, With(c, key, value), key)
  BY <1>1, <1>3, AttributeRead
<1>4. ASSUME NEW v \in Values, NEW w \in Values, value = <<v, w>>,
             PrintedAttribute(key, value) = Joined(<<Attribute(key, <<v>>)>>, <<More(<<w>>)>>)
      PROVE  Stepped(At(r, c, k), PrintedAttribute(key, value))
                = At(r, With(c, key, value), key)
  <2> DEFINE T == {Attribute(key, <<v>>), More(<<w>>)}
  <2>1. PICK a \in Seq(T), b \in Seq(T) : a = <<Attribute(key, <<v>>)>> /\ b = <<More(<<w>>)>>
    <3>1. <<Attribute(key, <<v>>)>> \in Seq(T) /\ <<More(<<w>>)>> \in Seq(T)
      OBVIOUS
    <3> QED BY <3>1
  <2>2. PICK acc : acc = At(r, c, k)
    OBVIOUS
  <2>3. Stepped(acc, Joined(a, b)) = Stepped(Stepped(acc, a), b)
    BY SteppedJoined
  <2>4. Stepped(acc, a) = At(r, With(c, key, <<v>>), key)
    BY <1>1, <2>1, <2>2, AttributeRead
  <2>5. PICK d : d = With(c, key, <<v>>)
    OBVIOUS
  <2>6. Stepped(At(r, d, key), b) = At(r, Longer(d, key, <<w>>), key)
    BY <1>1, <2>1, MoreRead
  <2>7. Longer(d, key, <<w>>) = With(c, key, <<v, w>>)
    <3>1. <<v>> \o <<w>> = <<v, w>>
      BY PairIs DEF Joined
    <3> QED BY <2>5, <3>1 DEF With, Longer
  <2>8. Stepped(acc, Joined(a, b)) = At(r, With(c, key, <<v, w>>), key)
    BY <2>3, <2>4, <2>5, <2>6, <2>7
  <2>9. Joined(<<Attribute(key, <<v>>)>>, <<More(<<w>>)>>) = Joined(a, b)
    BY <2>1
  <2> QED BY <1>4, <2>2, <2>8, <2>9
<1> DEFINE Read == Stepped(At(r, c, k), PrintedAttribute(key, value))
                      = At(r, With(c, key, value), key)
<1>5. value = NULL /\ PrintedAttribute(key, value) = <<Attribute(key, NULL)>> => Read
  BY <1>2
<1>6. \A v \in Values : value = <<v>> /\ PrintedAttribute(key, value) = <<Attribute(key, <<v>>)>> => Read
  BY <1>3
<1>7. \A v, w \in Values :
         value = <<v, w>> /\ PrintedAttribute(key, value) = Joined(<<Attribute(key, <<v>>)>>, <<More(<<w>>)>>)
            => Read
  BY <1>4
<1> HIDE DEF Read
<1>8. Read
  <2>1. \/ value = NULL /\ PrintedAttribute(key, value) = <<Attribute(key, NULL)>>
        \/ \E v \in Values : /\ value = <<v>>
                             /\ PrintedAttribute(key, value) = <<Attribute(key, <<v>>)>>
        \/ \E v, w \in Values :
              /\ value = <<v, w>>
              /\ PrintedAttribute(key, value) = Joined(<<Attribute(key, <<v>>)>>, <<More(<<w>>)>>)
    BY AttributeIs
  <2> QED BY <1>5, <1>6, <1>7, <2>1, Zenon
<1> QED BY <1>8 DEF Read

(* The record as far as its first i keys. *)
PartOf(record, keys, i) == [x \in {keys[j] : j \in 1..i} |-> record[x]]

LEMMA PartGrows ==
    ASSUME NEW record, NEW T, NEW keys \in Seq(T), NEW i \in 0..Len(keys), i < Len(keys)
    PROVE  With(PartOf(record, keys, i), keys[i + 1], record[keys[i + 1]])
              = PartOf(record, keys, i + 1)
<1> DEFINE D == {keys[j] : j \in 1..i}
<1>1. {keys[j] : j \in 1..(i + 1)} = D \cup {keys[i + 1]}
  <2>1. 1..(i + 1) = (1..i) \cup {i + 1}
    OBVIOUS
  <2> QED BY <2>1
<1>2. PICK k : k = keys[i + 1]
  OBVIOUS
<1>3. PartOf(record, keys, i) = [x \in D |-> record[x]]
  BY DEF PartOf
<1>4. PartOf(record, keys, i + 1) = [x \in D \cup {k} |-> record[x]]
  BY <1>1, <1>2 DEF PartOf
<1> HIDE DEF D
<1>5. With([x \in D |-> record[x]], k, record[k]) = [x \in D \cup {k} |-> record[x]]
  BY DEF With
<1> QED BY <1>2, <1>3, <1>4, <1>5

LEMMA WholeRecord ==
    ASSUME NEW record \in AttributeRecords
    PROVE  PartOf(record, SetToSeq(DOMAIN record), Len(SetToSeq(DOMAIN record))) = record
<1>1. PICK keys \in Seq(DOMAIN record) :
         keys = SetToSeq(DOMAIN record) /\ ToSet(keys) = DOMAIN record
  BY KeysOfRecord
<1>2. {keys[j] : j \in 1..Len(keys)} = DOMAIN record
  <2>1. DOMAIN keys = 1..Len(keys)
    OBVIOUS
  <2> QED BY <1>1, <2>1 DEF ToSet
<1>3. PICK K \in (SUBSET Keys) \ {{}} : record \in [K -> Parts]
  BY Zenon DEF AttributeRecords
<1>4. record = [x \in DOMAIN record |-> record[x]]
  BY <1>3
<1> QED BY <1>1, <1>2, <1>4 DEF PartOf

LEMMA NothingYet ==
    ASSUME NEW record, NEW keys PROVE PartOf(record, keys, 0) = NoRecord
<1>1. {keys[j] : j \in 1..0} = {}
  OBVIOUS
<1> QED BY <1>1 DEF PartOf, NoRecord

(* The lines of a record are read into a record that is the same. *)
LEMMA RecordIsRead ==
    ASSUME NEW record \in AttributeRecords, NEW r
    PROVE  \E k : Stepped(At(r, NoRecord, NoKey), PrintedRecord(record)) = At(r, record, k)
<1>1. PICK keys \in Seq(DOMAIN record) : keys = SetToSeq(DOMAIN record)
  BY KeysOfRecord
<1>2. PICK n \in Nat : n = Len(keys)
  OBVIOUS
<1>3. PICK ss \in Seq(Seq(AttributeLines)) :
         ss = PartsOf(record) /\ PrintedRecord(record) = FlattenSeq(ss)
  BY RecordLinesAre
<1>4. Len(ss) = n /\ \A i \in 1..n : ss[i] = PrintedAttribute(keys[i], record[keys[i]])
  BY <1>1, <1>2, <1>3 DEF PartsOf
<1>5. PICK f : /\ FlattenSeq(ss) = f[Len(ss)] /\ f[0] = <<>>
               /\ \A i \in 1..Len(ss) : f[i] = f[i - 1] \o ss[i]
               /\ \A i \in 0..Len(ss) : f[i] \in Seq(AttributeLines)
  BY FlatSteps
<1>6. PICK acc : acc = At(r, NoRecord, NoKey)
  OBVIOUS
<1> DEFINE Read(i) == \E k : Stepped(acc, f[i]) = At(r, PartOf(record, keys, i), k)
           good == {i \in Nat : Read(i)}
<1>7. 0 \in good
  <2>1. Stepped(acc, f[0]) = At(r, PartOf(record, keys, 0), NoKey)
    BY <1>5, <1>6, SteppedNone, NothingYet
  <2> QED BY <2>1
<1>8. ASSUME NEW i \in 0..n, i \in good, i < n PROVE i + 1 \in good
  <2>1. i + 1 \in 1..n /\ (i + 1) - 1 = i /\ i + 1 \in Nat /\ i \in 0..Len(ss)
    BY <1>4, <1>8
  <2>2. PICK k : Stepped(acc, f[i]) = At(r, PartOf(record, keys, i), k)
    BY <1>8
  <2>3. PICK a \in Seq(AttributeLines), b \in Seq(AttributeLines) : a = f[i] /\ b = ss[i + 1]
    <3>1. f[i] \in Seq(AttributeLines)
      BY <1>5, <2>1
    <3>2. ss[i + 1] \in Seq(AttributeLines)
      BY <1>4, <2>1
    <3> QED BY <3>1, <3>2
  <2>4. f[i + 1] = Joined(a, b)
    BY <1>4, <1>5, <2>1, <2>3 DEF Joined
  <2>5. PICK x \in DOMAIN record : x = keys[i + 1]
    BY <1>2, <2>1
  <2>6. x \in Keys /\ record[x] \in Parts
    BY KeysOfRecord
  <2>7. PICK v \in Parts : v = record[x]
    BY <2>6
  <2>8. b = PrintedAttribute(x, v)
    BY <1>4, <2>1, <2>3, <2>5, <2>7
  <2>9. PICK c : c = PartOf(record, keys, i)
    OBVIOUS
  <2>10. Stepped(At(r, c, k), b) = At(r, With(c, x, v), x)
    BY <2>6, <2>8, AttributeIsRead
  <2>11. With(c, x, v) = PartOf(record, keys, i + 1)
    BY <1>2, <1>8, <2>5, <2>7, <2>9, PartGrows
  <2>12. Stepped(acc, Joined(a, b)) = Stepped(Stepped(acc, a), b)
    BY SteppedJoined
  <2>13. Stepped(acc, f[i + 1]) = At(r, PartOf(record, keys, i + 1), x)
    BY <2>2, <2>3, <2>4, <2>9, <2>10, <2>11, <2>12
  <2>14. Read(i + 1)
    BY <2>13
  <2> QED BY <2>1, <2>14
<1>9. n \in good
  <2> HIDE DEF good
  <2>1. \A i \in 0..n : i \in good
    BY <1>2, <1>7, <1>8, UpTo
  <2> QED BY <1>2, <2>1
<1>10. PartOf(record, keys, n) = record
  BY <1>1, <1>2, WholeRecord
<1>11. PICK k : Stepped(acc, f[n]) = At(r, PartOf(record, keys, n), k)
  BY <1>9
<1> QED BY <1>3, <1>4, <1>5, <1>6, <1>10, <1>11

(* And the blank line after it adds it to the records. *)
LEMMA RecordIsClosed ==
    ASSUME NEW record \in AttributeRecords, NEW r
    PROVE  Stepped(At(r, NoRecord, NoKey), Joined(PrintedRecord(record), <<Blank>>))
              = At(Append(r, record), NoRecord, NoKey)
<1> DEFINE T == AttributeLines \cup {Blank}
<1>1. PICK a \in Seq(T), b \in Seq(T) : a = PrintedRecord(record) /\ b = <<Blank>>
  <2>1. PICK x \in Seq(AttributeLines) : x = PrintedRecord(record)
    BY RecordLinesAre
  <2>2. x \in Seq(T) /\ <<Blank>> \in Seq(T)
    OBVIOUS
  <2> QED BY <2>1, <2>2
<1>2. PICK acc : acc = At(r, NoRecord, NoKey)
  OBVIOUS
<1>3. PICK k : Stepped(acc, a) = At(r, record, k)
  BY <1>1, <1>2, RecordIsRead
<1>4. record # NoRecord
  <2>1. DOMAIN NoRecord = {}
    BY DEF NoRecord
  <2> QED BY <2>1, KeysOfRecord
<1>5. Stepped(At(r, record, k), b) = At(Append(r, record), NoRecord, NoKey)
  BY <1>1, <1>4, BlankRead
<1>6. Stepped(acc, Joined(a, b)) = Stepped(Stepped(acc, a), b)
  BY SteppedJoined
<1> QED BY <1>1, <1>2, <1>3, <1>5, <1>6

Firsts(records, i) == [j \in 1..i |-> records[j]]

LEMMA FirstsGrow ==
    ASSUME NEW T, NEW s \in Seq(T), NEW i \in 0..Len(s)
    PROVE  /\ Firsts(s, i) \in Seq(T) /\ Firsts(s, 0) = <<>> /\ Firsts(s, Len(s)) = s
           /\ i < Len(s) => Append(Firsts(s, i), s[i + 1]) = Firsts(s, i + 1)
<1>1. Len(s) \in Nat /\ \A j \in 1..Len(s) : s[j] \in T
  OBVIOUS
<1>2. Firsts(s, i) \in Seq(T) /\ Len(Firsts(s, i)) = i
  BY <1>1 DEF Firsts
<1>3. Firsts(s, 0) = <<>> /\ Firsts(s, Len(s)) = s
  BY DEF Firsts
<1>4. ASSUME i < Len(s) PROVE Append(Firsts(s, i), s[i + 1]) = Firsts(s, i + 1)
  <2>1. PICK a \in Seq(T), x \in T : a = Firsts(s, i) /\ x = s[i + 1]
    BY <1>1, <1>2, <1>4
  <2>2. PICK b \in Seq(T) : b = Firsts(s, i + 1) /\ Len(b) = i + 1
    <3>1. Firsts(s, i + 1) \in Seq(T) /\ Len(Firsts(s, i + 1)) = i + 1
      BY <1>1, <1>4 DEF Firsts
    <3> QED BY <3>1
  <2>3. PICK c \in Seq(T) : c = Append(a, x) /\ Len(c) = i + 1 /\ c[i + 1] = x
                            /\ \A j \in 1..i : c[j] = a[j]
    <3>1. Len(a) = i
      BY <1>2, <2>1
    <3>2. PICK c : c = Append(a, x)
      OBVIOUS
    <3>3. /\ c \in Seq(T) /\ Len(c) = i + 1 /\ c[i + 1] = x
          /\ \A j \in 1..i : c[j] = a[j]
      <4>1. /\ Append(a, x) \in Seq(T) /\ Len(Append(a, x)) = Len(a) + 1
            /\ Append(a, x)[Len(a) + 1] = x
        BY AppendIs
      <4>2. \A j \in 1..Len(a) : Append(a, x)[j] = a[j]
        BY AppendIs
      <4> QED BY <3>1, <3>2, <4>1, <4>2
    <3> QED BY <3>2, <3>3
  <2>4. \A j \in 1..i : a[j] = s[j]
    BY <2>1 DEF Firsts
  <2>5. \A j \in 1..(i + 1) : b[j] = s[j]
    BY <2>2 DEF Firsts
  <2>6. ASSUME NEW j \in 1..Len(c) PROVE c[j] = b[j]
    BY <2>1, <2>3, <2>4, <2>5, <2>6
  <2>7. c = b
    BY <2>2, <2>3, <2>6, SeqEqual
  <2> QED BY <2>1, <2>2, <2>3, <2>7
<1> QED BY <1>2, <1>3, <1>4

(* All the records are read. *)
LEMMA RestIsRead ==
    ASSUME NEW records \in Seq(AttributeRecords)
    PROVE  Stepped(Start, Rest(records)) = At(records, NoRecord, NoKey)
<1> DEFINE T == AttributeLines \cup {Blank}
<1>1. PICK n \in Nat : n = Len(records)
  OBVIOUS
<1>2. PICK ss \in Seq(Seq(T)) : ss = ClosedRecords(records)
  BY RestIs
<1>3. Len(ss) = n /\ \A i \in 1..n : ss[i] = Joined(PrintedRecord(records[i]), <<Blank>>)
  BY <1>1, <1>2 DEF ClosedRecords
<1>4. PICK f : /\ FlattenSeq(ss) = f[Len(ss)] /\ f[0] = <<>>
               /\ \A i \in 1..Len(ss) : f[i] = f[i - 1] \o ss[i]
               /\ \A i \in 0..Len(ss) : f[i] \in Seq(T)
  <2> HIDE DEF T
  <2> QED BY FlatSteps
<1>5. PICK acc : acc = Start
  OBVIOUS
<1>6. acc = At(<<>>, NoRecord, NoKey)
  BY <1>5 DEF Start, At, NotYet
<1> DEFINE good == {i \in Nat : Stepped(acc, f[i]) = At(Firsts(records, i), NoRecord, NoKey)}
<1>7. 0 \in good
  <2>1. Firsts(records, 0) = <<>>
    BY FirstsGrow, <1>1
  <2>2. Stepped(acc, f[0]) = acc
    BY <1>4, SteppedNone
  <2> QED BY <1>6, <2>1, <2>2
<1>8. ASSUME NEW i \in 0..n, i \in good, i < n PROVE i + 1 \in good
  <2>1. i + 1 \in 1..n /\ (i + 1) - 1 = i /\ i + 1 \in Nat /\ i \in 0..Len(ss)
    BY <1>3, <1>8
  <2>2. PICK a \in Seq(T), b \in Seq(T) : a = f[i] /\ b = ss[i + 1]
    <3>1. f[i] \in Seq(T)
      BY <1>4, <2>1
    <3>2. ss[i + 1] \in Seq(T)
      BY <1>3, <2>1
    <3> QED BY <3>1, <3>2
  <2>3. f[i + 1] = Joined(a, b)
    BY <1>3, <1>4, <2>1, <2>2 DEF Joined
  <2>4. PICK record \in AttributeRecords : record = records[i + 1]
    BY <1>1, <2>1
  <2>5. b = Joined(PrintedRecord(record), <<Blank>>)
    BY <1>3, <2>1, <2>2, <2>4
  <2>6. PICK r : r = Firsts(records, i)
    OBVIOUS
  <2>7. Stepped(acc, a) = At(r, NoRecord, NoKey)
    BY <1>8, <2>2, <2>6
  <2>8. Stepped(At(r, NoRecord, NoKey), b) = At(Append(r, record), NoRecord, NoKey)
    BY <2>5, RecordIsClosed
  <2>9. Append(r, record) = Firsts(records, i + 1)
    BY <1>1, <1>8, <2>4, <2>6, FirstsGrow
  <2>10. Stepped(acc, Joined(a, b)) = Stepped(Stepped(acc, a), b)
    BY SteppedJoined
  <2> QED BY <2>1, <2>3, <2>7, <2>8, <2>9, <2>10
<1>9. n \in good
  <2> HIDE DEF good
  <2>1. \A i \in 0..n : i \in good
    BY <1>1, <1>7, <1>8, UpTo
  <2> QED BY <1>1, <2>1
<1>10. Firsts(records, n) = records
  BY <1>1, FirstsGrow
<1> QED BY <1>2, <1>3, <1>4, <1>5, <1>9, <1>10 DEF Rest

(* What comes after a first part. *)
LEMMA FromJoined ==
    ASSUME NEW T, NEW a \in Seq(T), NEW b \in Seq(T)
    PROVE  From(Joined(a, b), Len(a) + 1) = b
<1>1. PICK s \in Seq(T) : s = Joined(a, b) /\ Two(s, a, b)
  BY TwoParts
<1>2. PICK m \in Nat, n \in Nat : m = Len(a) /\ n = Len(b)
  OBVIOUS
<1>3. Len(s) = m + n /\ \A j \in 1..n : s[m + j] = b[j]
  BY <1>1, <1>2 DEF Two
<1>4. m + 1 \in 1..Len(s) + 1
  BY <1>3
<1>5. PICK c \in Seq(T) : /\ c = From(s, m + 1) /\ Len(c) = Len(s) + 1 - (m + 1)
                          /\ \A j \in 1..Len(s) + 1 - (m + 1) : c[j] = s[(m + 1) - 1 + j]
  BY <1>4, FromIs
<1>6. Len(s) + 1 - (m + 1) = n /\ (m + 1) - 1 = m
  BY <1>3
<1>7. Len(c) = n /\ \A j \in 1..n : c[j] = s[m + j]
  BY <1>5, <1>6
<1>8. \A j \in 1..n : c[j] = b[j]
  BY <1>3, <1>7
<1>9. c = b
  BY <1>2, <1>7, <1>8, SeqEqual
<1> QED BY <1>1, <1>2, <1>5, <1>9

(* Whatever comes before it, the loop begins with the first record. *)
LEMMA BodyIs ==
    ASSUME NEW records \in Seq(AttributeRecords), records # <<>>, NEW divider \in BOOLEAN
    PROVE  VerticalBody(PrintedAttributes(records, divider)) = Joined(Rest(records), Ending)
<1>1. PICK r \in Seq(Lines) :
         /\ r = Rest(records) /\ Len(r) \in Nat \ {0} /\ r[1] \in AttributeLines
         /\ \A i \in 1..Len(r) : r[i].kind \in {"attribute", "blank"}
  <2>1. PICK x \in Seq(AttributeLines \cup {Blank}) :
           x = Rest(records) /\ x # <<>> /\ x[1] \in AttributeLines
    BY RestIs
  <2>2. Len(x) \in Nat \ {0}
    BY <2>1, EmptySeq
  <2>3. ASSUME NEW i \in 1..Len(x) PROVE x[i].kind \in {"attribute", "blank"}
    <3>1. x[i] \in AttributeLines \cup {Blank}
      OBVIOUS
    <3> QED BY <3>1, KindOfAttribute, KindOfOther
  <2>4. x \in Seq(Lines)
    BY DEF Lines, Inner, Plain
  <2> QED BY <2>1, <2>2, <2>3, <2>4
<1>2. PICK h \in Seq(Lines), b \in Seq(Lines), e \in Seq(Lines) :
         h = Heading(0) /\ b = Before(divider) /\ e = Ending
  <2>1. Heading(0) \in Seq(Lines) /\ Ending \in Seq(Lines)
    BY DEF Heading, Ending, Lines, Inner, Plain
  <2>2. Text \in Lines /\ Divider \in Lines
    BY DEF Lines, Inner, Plain
  <2>3. Before(divider) \in Seq(Lines)
    BY <2>2, BeforeIs
  <2> QED BY <2>1, <2>3
<1>3. PICK a \in Seq(Lines) : a = Joined(h, b) /\ Two(a, h, b)
  BY TwoParts
<1>4. PICK t \in Seq(Lines) : t = Joined(r, e) /\ Two(t, r, e)
  BY TwoParts
<1>5. PICK s \in Seq(Lines) : s = Joined(a, t) /\ Two(s, a, t)
  BY TwoParts
<1>6. PrintedAttributes(records, divider) = s
  <2>1. PrintedAttributes(records, divider) = Joined(Joined(h, Joined(b, r)), e)
    BY <1>1, <1>2, AttributesPrinted DEF Printed
  <2>2. Joined(h, Joined(b, r)) = Joined(a, r)
    BY <1>3, JoinedAssociative
  <2>3. Joined(Joined(a, r), e) = Joined(a, t)
    BY <1>4, JoinedAssociative
  <2> QED BY <1>5, <2>1, <2>2, <2>3
<1>7. From(s, Len(a) + 1) = t
  BY <1>5, FromJoined
<1>8. /\ Len(h) = 4 /\ h[1] = Text /\ h[2] = Text /\ h[3] = Text /\ h[4] = Retcode(0)
      /\ Len(e) = 3 /\ e[1] = Count /\ e[2] = Blank /\ e[3] = End
  BY <1>2 DEF Heading, Ending
<1>9. ASSUME NEW i \in 1..Len(t) PROVE t[i].kind \in {"attribute", "blank", "count", "end"}
  <2>1. PICK m \in Nat : m = Len(r)
    BY <1>1
  <2>2. Len(t) = m + 3
    BY <1>4, <1>8, <2>1 DEF Two
  <2>3. CASE i \in 1..m
    <3>1. t[i] = r[i]
      BY <1>4, <2>1, <2>3 DEF Two
    <3> QED BY <1>1, <2>1, <2>3, <3>1
  <2>4. CASE i - m \in 1..3
    <3>1. m + (i - m) = i
      BY <2>1
    <3>2. t[i] = e[i - m]
      BY <1>4, <1>8, <2>1, <2>4, <3>1 DEF Two
    <3>3. \A j \in 1..3 : e[j].kind \in {"blank", "count", "end"}
      BY <1>8, KindOfOther
    <3> QED BY <2>4, <3>2, <3>3
  <2> QED BY <2>1, <2>2, <2>3, <2>4
<1>10. t[1] = r[1] /\ t[1].kind = "attribute" /\ 1 \in 1..Len(t)
  <2>1. t[1] = r[1] /\ Len(t) = Len(r) + 3
    <3>1. 1 \in 1..Len(r)
      BY <1>1
    <3> QED BY <1>4, <1>8, <3>1 DEF Two
  <2> QED BY <1>1, <2>1, KindOfAttribute
<1>11. CASE divider
  <2>1. Len(b) = 2 /\ b[1] = Text /\ b[2] = Divider
    BY <1>2, <1>11 DEF Before
  <2>2. /\ Len(a) = 6 /\ a[1] = Text /\ a[2] = Text /\ a[3] = Text /\ a[4] = Retcode(0)
        /\ a[4 + 1] = Text /\ a[4 + 2] = Divider
    BY <1>3, <1>8, <2>1 DEF Two
  <2>3. \A i \in 1..6 : s[i] = a[i]
    BY <1>5, <2>2 DEF Two
  <2>4. FirstOf(s, {"divider"}) = 6
    <3>1. 6 \in 1..Len(s)
      BY <1>5, <2>2 DEF Two
    <3>2. s[6].kind \in {"divider"}
      BY <2>2, <2>3, KindOfOther
    <3>3. ASSUME NEW i \in 1..Len(s), i < 6 PROVE s[i].kind \notin {"divider"}
      <4>1. i \in 1..5
        BY <3>3
      <4> QED BY <2>2, <2>3, <4>1, KindOfOther
    <3> QED BY <3>1, <3>2, <3>3, FirstIs
  <2>5. VerticalBody(s) = From(s, 6 + 1)
    BY <2>4 DEF VerticalBody
  <2>6. Len(a) + 1 = 6 + 1
    BY <2>2
  <2> QED BY <1>1, <1>2, <1>4, <1>6, <1>7, <2>5, <2>6
<1>12. CASE ~divider
  <2>1. Len(b) = 0
    BY <1>2, <1>12 DEF Before
  <2>2. /\ Len(a) = 4 /\ a[1] = Text /\ a[2] = Text /\ a[3] = Text /\ a[4] = Retcode(0)
    BY <1>3, <1>8, <2>1 DEF Two
  <2>3. ASSUME NEW i \in 1..Len(s) PROVE s[i].kind \notin {"divider"}
    <3>1. PICK m \in Nat : m = Len(t)
      OBVIOUS
    <3>2. Len(s) = 4 + m
      BY <1>5, <2>2, <3>1 DEF Two
    <3>3. CASE i \in 1..4
      <4>1. s[i] = a[i]
        BY <1>5, <2>2, <3>3 DEF Two
      <4> QED BY <2>2, <3>3, <4>1, KindOfOther
    <3>4. CASE i - 4 \in 1..m
      <4>1. 4 + (i - 4) = i
        OBVIOUS
      <4>2. s[i] = t[i - 4]
        BY <1>5, <2>2, <3>1, <3>4, <4>1 DEF Two
      <4> QED BY <1>9, <3>1, <3>4, <4>2
    <3> QED BY <3>2, <3>3, <3>4
  <2>4. FirstOf(s, {"divider"}) = 0
    BY <2>3, FirstNone
  <2>5. From(s, 5) = t
    <3>1. Len(a) + 1 = 5
      BY <2>2
    <3> QED BY <1>7, <3>1
  <2>6. FirstOf(t, {"attribute", "retcode", "count"}) = 1
    <3>1. ASSUME NEW i \in 1..Len(t), i < 1 PROVE t[i].kind \notin {"attribute", "retcode", "count"}
      BY <3>1
    <3>2. t[1].kind \in {"attribute", "retcode", "count"}
      BY <1>10
    <3> QED BY <1>10, <3>1, <3>2, FirstIs
  <2>7. VerticalBody(s) = From(s, 4 + FirstOf(From(s, 5), {"attribute", "retcode", "count"}))
    BY <2>4 DEF VerticalBody
  <2>8. 4 + 1 = 5
    OBVIOUS
  <2> QED BY <1>1, <1>2, <1>4, <1>6, <2>5, <2>6, <2>7, <2>8
<1> QED BY <1>11, <1>12

(* Attributes come back as the records that were printed, with a divider   *)
(* or without.                                                             *)
LEMMA AttributesComeBack ==
    ASSUME NEW records \in Seq(AttributeRecords), records # <<>>, NEW divider \in BOOLEAN
    PROVE  Parse(PrintedAttributes(records, divider)) = [outcome |-> "records", records |-> records]
<1>1. PICK inner \in Seq(Inner) : PrintedAttributes(records, divider) = Printed(inner)
  BY AttributesPrinted
<1>2. Parse(Printed(inner)) = ParseVertical(Printed(inner))
  BY <1>1, ParsePrinted, AttributesAreVertical
<1>3. PICK r \in Seq(Lines), e \in Seq(Lines) : r = Rest(records) /\ e = Ending
  <2>1. PICK x \in Seq(AttributeLines \cup {Blank}) : x = Rest(records)
    BY RestIs
  <2>2. x \in Seq(Lines)
    BY DEF Lines, Inner, Plain
  <2>3. Ending \in Seq(Lines)
    BY DEF Ending, Lines, Inner
  <2> QED BY <2>1, <2>2, <2>3
<1>4. VerticalBody(Printed(inner)) = Joined(r, e)
  BY <1>1, <1>3, BodyIs
<1>5. PICK acc : acc = Start
  OBVIOUS
<1>6. Stepped(acc, Joined(r, e)) = Stepped(Stepped(acc, r), e)
  BY SteppedJoined
<1>7. Stepped(acc, r) = At(records, NoRecord, NoKey)
  BY <1>3, <1>5, RestIsRead
<1>8. Stepped(At(records, NoRecord, NoKey), e) = Over(records, NoRecord, NoKey)
  BY <1>3, EndingStep
<1>9. Stepped(Start, VerticalBody(Printed(inner))) = Over(records, NoRecord, NoKey)
  BY <1>4, <1>5, <1>6, <1>7, <1>8
<1>10. Closed(Over(records, NoRecord, NoKey)).records = records
  <2>1. Closed(Over(records, NoRecord, NoKey)) = Over(records, NoRecord, NoKey)
    BY BlankStep
  <2> QED BY <2>1, OverIs
<1>11. ParseVertical(Printed(inner)) = [outcome |-> "records", records |-> records]
  BY <1>9, <1>10 DEF ParseVertical
<1> QED BY <1>1, <1>2, <1>11

-----------------------------------------------------------------------------
(* What the answer makes of each reply.                                    *)

(* What was printed whole comes back, what was cut off is an error, and    *)
(* only a report with nothing in it costs the answer.  A failed result is  *)
(* an error, and every other report is read to its records or crashes.     *)
Understood(reply) ==
    /\ reply.kind = "whole" => Reported(reply) = Report("records", reply.records)
    /\ reply.kind = "cut" => Reported(reply) = Report("error", <<>>)
    /\ Reported(reply).outcome = "StopIteration" => reply.kind = "bare"
    /\ reply.kind = "failed" => Reported(reply) = Report("error", <<>>)
    /\ reply.kind \notin {"failed", "cut"} =>
          Reported(reply).outcome \in {"records", "StopIteration"}

LEMMA ReportIs ==
    ASSUME NEW o, NEW r
    PROVE  Report(o, r) = [outcome |-> o, records |-> r] /\ Report(o, r).outcome = o
BY DEF Report

LEMMA ReplyIs ==
    ASSUME NEW k, NEW r, NEW l
    PROVE  /\ Reply(k, r, l).kind = k /\ Reply(k, r, l).records = r
           /\ Reply(k, r, l).lines = l
BY DEF Reply

(* The last line of a report, and only the last, is its end. *)
LEMMA PrintedLines ==
    ASSUME NEW inner \in Seq(Inner)
    PROVE  \E s \in Seq(Lines) :
              /\ s = Printed(inner) /\ Len(s) = Len(inner) + 7
              /\ \A i \in 1..Len(s) : i < Len(s) => s[i].kind # "end"
<1>1. PICK h \in Seq(Lines), x \in Seq(Lines), e \in Seq(Lines) :
         h = Heading(0) /\ x = inner /\ e = Ending
  <2>1. Heading(0) \in Seq(Lines) /\ Ending \in Seq(Lines)
    BY DEF Heading, Ending, Lines, Inner, Plain
  <2>2. inner \in Seq(Lines)
    BY DEF Lines
  <2> QED BY <2>1, <2>2
<1>2. PICK s \in Seq(Lines) : s = Joined(Joined(h, x), e) /\ Three(s, h, x, e)
  BY ThreeParts
<1>3. s = Printed(inner)
  BY <1>1, <1>2 DEF Printed
<1>4. /\ Len(h) = 4 /\ h[1] = Text /\ h[2] = Text /\ h[3] = Text /\ h[4] = Retcode(0)
      /\ Len(e) = 3 /\ e[1] = Count /\ e[2] = Blank
  BY <1>1 DEF Heading, Ending
<1>5. PICK m \in Nat : m = Len(x)
  OBVIOUS
<1>6. Len(s) = m + 7
  BY <1>2, <1>4, <1>5 DEF Three
<1>7. ASSUME NEW i \in 1..Len(s), i < Len(s) PROVE s[i].kind # "end"
  <2>1. CASE i \in 1..4
    <3>1. s[i] = h[i]
      BY <1>2, <1>4, <2>1 DEF Three
    <3> QED BY <1>4, <2>1, <3>1, KindOfOther
  <2>2. CASE i - 4 \in 1..m
    <3>1. 4 + (i - 4) = i
      BY <1>6
    <3>2. s[i] = x[i - 4]
      BY <1>2, <1>4, <1>5, <2>2, <3>1 DEF Three
    <3>3. x[i - 4] \in Inner
      BY <1>1, <1>5, <2>2
    <3> QED BY <3>2, <3>3, KindOfPlain, KindOfOther DEF Inner
  <2>3. CASE i - (4 + m) \in 1..2
    <3>1. (4 + m) + (i - (4 + m)) = i
      BY <1>6
    <3>2. s[i] = e[i - (4 + m)]
      BY <1>2, <1>4, <1>5, <2>3, <3>1 DEF Three
    <3> QED BY <1>4, <2>3, <3>2, KindOfOther
  <2> QED BY <1>5, <1>6, <1>7, <2>1, <2>2, <2>3
<1> QED BY <1>1, <1>3, <1>5, <1>6, <1>7

(* A report that was cut off has no end. *)
LEMMA CutIsAnError ==
    ASSUME NEW inner \in Seq(Inner), NEW n \in 0..Len(Printed(inner)) - 1, NEW reply,
           reply.kind # "failed", reply.lines = SubSeq(Printed(inner), 1, n)
    PROVE  Reported(reply) = Report("error", <<>>)
<1>1. PICK s \in Seq(Lines) :
              /\ s = Printed(inner) /\ Len(s) = Len(inner) + 7
              /\ \A i \in 1..Len(s) : i < Len(s) => s[i].kind # "end"
  BY PrintedLines
<1>2. PICK c \in Seq(Lines) : c = SubSeq(s, 1, n) /\ Len(c) = n /\ \A i \in 1..n : c[i] = s[i]
  <2>1. n \in Nat /\ n < Len(s) /\ Len(s) \in Nat
    BY <1>1
  <2>2. SubSeq(s, 1, n) \in Seq(Lines) /\ Len(SubSeq(s, 1, n)) = n
    BY <2>1
  <2>3. \A i \in 1..n : SubSeq(s, 1, n)[i] = s[i]
    BY <2>1
  <2> QED BY <2>2, <2>3
<1>3. ASSUME NEW i \in 1..Len(c) PROVE c[i].kind # "end"
  <2>1. i \in 1..Len(s) /\ i < Len(s) /\ i \in 1..n
    BY <1>1, <1>2
  <2> QED BY <1>1, <1>2, <2>1
<1>4. PICK text \in Seq(Lines) : text = Stripped(c) /\ ToSet(text) = ToSet(c) \ {Blank}
  BY StrippedIs
<1>5. ASSUME NEW i \in 1..Len(text) PROVE text[i].kind # "end"
  <2>1. text[i] \in ToSet(text)
    BY DEF ToSet
  <2>2. text[i] \in ToSet(c)
    BY <1>4, <2>1
  <2>3. PICK j \in 1..Len(c) : text[i] = c[j]
    BY <2>2 DEF ToSet
  <2> QED BY <1>3, <2>3
<1>6. text = <<>> \/ Last(text).kind # "end"
  <2>1. CASE text # <<>>
    <3>1. Len(text) \in 1..Len(text)
      BY <2>1, EmptySeq
    <3> QED BY <1>5, <3>1 DEF Last
  <2> QED BY <2>1
<1>7. Parse(c) = [outcome |-> "ValueError", records |-> <<>>]
  BY <1>4, <1>6 DEF Parse
<1>8. reply.lines = c
  BY <1>1, <1>2
<1>9. PICK parsed : parsed = Parse(c) /\ parsed.outcome = "ValueError"
  BY <1>7
<1>10. Reported(reply) = IF reply.kind = "failed" THEN Report("error", <<>>)
                         ELSE IF parsed.outcome = "ValueError" THEN Report("error", <<>>)
                         ELSE parsed
  BY <1>8, <1>9, Zenon DEF Reported
<1> QED BY <1>9, <1>10

(* A report that ends after its heading: that it has its end is all that   *)
(* the parser asks for before it looks for records.                        *)
LEMMA ShortText ==
    ASSUME NEW c \in {0, 5}
    PROVE  \E s \in Seq(Lines), text \in Seq(Lines) :
              /\ s = Joined(Heading(c), <<Blank, End>>) /\ text = Stripped(s)
              /\ text # <<>> /\ Last(text).kind = "end"
<1>1. /\ Heading(c) \in Seq(Lines) /\ <<Blank, End>> \in Seq(Lines)
      /\ <<Blank>> \in Seq(Lines) /\ <<End>> \in Seq(Lines)
  BY DEF Heading, Lines, Inner, Plain
<1>2. Stripped(<<Blank, End>>) = <<End>>
  <2>1. PICK a \in Seq(Lines), b \in Seq(Lines) : a = <<Blank>> /\ b = <<End>>
    BY <1>1
  <2>2. Stripped(<<Blank, End>>) = Joined(Stripped(a), Stripped(b))
    <3>1. <<Blank, End>> = Joined(a, b)
      BY <2>1, PairIs, Zenon
    <3>2. Stripped(Joined(a, b)) = Joined(Stripped(a), Stripped(b))
      BY StrippedJoined
    <3> QED BY <3>1, <3>2, Zenon
  <2>3. Stripped(a) = <<>>
    <3>1. ToSet(a) = {Blank}
      BY <2>1 DEF ToSet
    <3>2. PICK r \in Seq(Lines) : r = Stripped(a) /\ ToSet(r) = {}
      BY <3>1, StrippedIs
    <3>3. \A i \in 1..Len(r) : r[i] \in ToSet(r)
      BY DEF ToSet
    <3>4. Len(r) = 0
      BY <3>2, <3>3
    <3> QED BY <3>2, <3>4, EmptySeq
  <2>4. Stripped(b) = b
    <3>1. ToSet(b) = {End}
      BY <2>1 DEF ToSet
    <3> QED BY <3>1, StrippedIs, KindOfOther
  <2> QED BY <2>1, <2>2, <2>3, <2>4, JoinedIs
<1>3. PICK s \in Seq(Lines) : s = Joined(Heading(c), <<Blank, End>>)
  BY <1>1, JoinedIs
<1>4. PICK h \in Seq(Lines), e \in Seq(Lines) : h = Stripped(Heading(c)) /\ e = <<End>>
  BY <1>1, StrippedIs
<1>5. PICK text \in Seq(Lines) : text = Joined(h, e) /\ Two(text, h, e)
  BY TwoParts
<1>6. text = Stripped(s)
  BY <1>1, <1>2, <1>3, <1>4, <1>5, StrippedJoined
<1>7. Len(e) = 1 /\ e[1] = End /\ Len(h) \in Nat
  BY <1>4
<1>8. Len(text) = Len(h) + 1 /\ text[Len(h) + 1] = End
  BY <1>5, <1>7 DEF Two
<1>9. text # <<>>
  BY <1>7, <1>8
<1>10. Last(text).kind = "end"
  BY <1>7, <1>8, KindOfOther DEF Last
<1> QED BY <1>3, <1>6, <1>9, <1>10

LEMMA ShortIsRead ==
    ASSUME NEW c \in {0, 5}, NEW reply, reply.kind # "failed",
           reply.lines = Joined(Heading(c), <<Blank, End>>)
    PROVE  /\ Reported(reply) = Parse(reply.lines)
           /\ Reported(reply).outcome \in {"records", "StopIteration"}
<1>1. PICK s \in Seq(Lines), text \in Seq(Lines) :
              /\ s = Joined(Heading(c), <<Blank, End>>) /\ text = Stripped(s)
              /\ text # <<>> /\ Last(text).kind = "end"
  BY ShortText
<1>2. PICK parsed : parsed = Parse(s)
  OBVIOUS
<1>3. \A lines : /\ ParseVertical(lines).outcome = "records"
                 /\ ParseHorizontal(lines).outcome \in {"records", "StopIteration"}
  BY DEF ParseVertical, ParseHorizontal
<1>4. \/ parsed = [outcome |-> "records", records |-> <<>>]
      \/ parsed = ParseVertical(s) \/ parsed = ParseHorizontal(s)
  BY <1>1, <1>2, Zenon DEF Parse
<1>5. parsed.outcome \in {"records", "StopIteration"}
  BY <1>3, <1>4
<1>6. Reported(reply) = IF reply.kind = "failed" THEN Report("error", <<>>)
                        ELSE IF parsed.outcome = "ValueError" THEN Report("error", <<>>)
                        ELSE parsed
  BY <1>1, <1>2, Zenon DEF Reported
<1> QED BY <1>1, <1>2, <1>5, <1>6

(* The report of a refused command is never read further.                  *)
LEMMA RefusedIsUnderstood == Understood(Refused)
<1>1. PICK s \in Seq(Lines) : s = Refused.lines /\ ToSet(s) = {Text, Retcode(5), Blank, End}
  <2>1. Refused.lines = Joined(Heading(5), <<Blank, End>>)
    <3>1. PICK l : l = Joined(Heading(5), <<Blank, End>>)
      OBVIOUS
    <3>2. Refused = Reply("refused", <<>>, l)
      BY <3>1 DEF Refused, Joined
    <3> QED BY <3>1, <3>2, ReplyIs
  <2>2. PICK a \in Seq(Lines), b \in Seq(Lines) : a = Heading(5) /\ b = <<Blank, End>>
    <3>1. Heading(5) \in Seq(Lines) /\ <<Blank, End>> \in Seq(Lines)
      BY DEF Heading, Lines, Inner, Plain
    <3> QED BY <3>1
  <2>3. PICK s \in Seq(Lines) : s = Joined(a, b) /\ Two(s, a, b)
    BY TwoParts
  <2>4. /\ Len(a) = 4 /\ a[1] = Text /\ a[2] = Text /\ a[3] = Text /\ a[4] = Retcode(5)
        /\ Len(b) = 2 /\ b[1] = Blank /\ b[2] = End
    BY <2>2 DEF Heading
  <2>5. /\ Len(s) = 6 /\ s[1] = Text /\ s[2] = Text /\ s[3] = Text /\ s[4] = Retcode(5)
        /\ s[4 + 1] = Blank /\ s[4 + 2] = End
    BY <2>3, <2>4 DEF Two
  <2>6. DOMAIN s = 1..6
    BY <2>5
  <2>7. ToSet(s) = {s[1], s[2], s[3], s[4], s[4 + 1], s[4 + 2]}
    BY <2>6 DEF ToSet
  <2> QED BY <2>1, <2>2, <2>3, <2>5, <2>7
<1>2. PICK text \in Seq(Lines) : text = Stripped(s) /\ ToSet(text) = ToSet(s) \ {Blank}
  BY StrippedIs
<1> DEFINE retcode == FirstOf(text, {"retcode"})
<1>3. retcode = 0 \/ text[retcode].value # <<0>>
  <2>1. CASE \E i \in 1..Len(text) : text[i].kind \in {"retcode"}
    <3>1. retcode \in 1..Len(text) /\ text[retcode].kind \in {"retcode"}
      BY <2>1, FirstSome
    <3> HIDE DEF retcode
    <3>2. PICK l : l = text[retcode]
      OBVIOUS
    <3>3. l \in ToSet(text) /\ l.kind = "retcode"
      BY <3>1, <3>2 DEF ToSet
    <3>4. l = Retcode(5)
      BY <1>1, <1>2, <3>3, KindOfOther
    <3>5. l.value = <<5>>
      BY <3>4, KindOfOther
    <3>6. <<5>> # <<0>>
      OBVIOUS
    <3> QED BY <3>2, <3>5, <3>6
  <2>2. CASE ~\E i \in 1..Len(text) : text[i].kind \in {"retcode"}
    BY <2>2, FirstNone
  <2> QED BY <2>1, <2>2
<1>4. Parse(s).outcome \in {"ValueError", "records"}
  BY <1>2, <1>3 DEF Parse
<1>5. Reported(Refused).outcome # "StopIteration"
  BY <1>1, <1>4, ReportIs DEF Reported
<1>6. PICK l : l = Joined(Heading(5), <<Blank, End>>)
  OBVIOUS
<1>7. PICK r : r = Refused /\ r.kind = "refused" /\ r.lines = l
  <2>1. Refused = Reply("refused", <<>>, l)
    BY <1>6 DEF Refused, Joined
  <2> QED BY <2>1, ReplyIs
<1>8. Reported(r).outcome \in {"records", "StopIteration"}
  BY <1>6, <1>7, ShortIsRead
<1> QED BY <1>5, <1>7, <1>8 DEF Understood

(* A report that was printed whole. *)
Printing(reply, inner) ==
    /\ reply.kind = "whole" /\ reply.lines = Printed(inner)
    /\ Parse(Printed(inner)) = [outcome |-> "records", records |-> reply.records]

LEMMA PrintingIsUnderstood ==
    ASSUME NEW reply, NEW inner \in Seq(Inner), Printing(reply, inner)
    PROVE  Understood(reply)
<1>1. PICK parsed : parsed = Parse(reply.lines)
  OBVIOUS
<1>2. parsed = Report("records", reply.records)
  BY <1>1, ReportIs DEF Printing
<1>3. parsed.outcome = "records"
  BY <1>2, ReportIs
<1>4. Reported(reply) = IF reply.kind = "failed" THEN Report("error", <<>>)
                        ELSE IF parsed.outcome = "ValueError" THEN Report("error", <<>>)
                        ELSE parsed
  BY <1>1, Zenon DEF Reported
<1>5. reply.kind = "whole"
  BY DEF Printing
<1>6. Reported(reply) = parsed
  BY <1>3, <1>4, <1>5
<1> QED BY <1>2, <1>3, <1>5, <1>6 DEF Understood

LEMMA CutIsUnderstood ==
    ASSUME NEW reply, NEW inner \in Seq(Inner), Printing(reply, inner),
           NEW n \in 0..Len(reply.lines) - 1
    PROVE  Understood(Cut(reply, n))
<1>1. PICK l : l = SubSeq(Printed(inner), 1, n)
  OBVIOUS
<1>2. Cut(reply, n) = Reply("cut", reply.records, l)
  BY <1>1 DEF Cut, Printing
<1>3. PICK c : c = Cut(reply, n) /\ c.kind = "cut" /\ c.lines = l
  BY <1>2, ReplyIs
<1>4. n \in 0..Len(Printed(inner)) - 1
  BY DEF Printing
<1>5. Reported(c) = Report("error", <<>>)
  BY <1>1, <1>3, <1>4, CutIsAnError
<1> QED BY <1>3, <1>5, ReportIs DEF Understood

LEMMA BoundedAre ==
    ASSUME NEW S, NEW n \in Nat, NEW s \in BoundedSeq(S, n)
    PROVE  s \in Seq(S)
<1>1. PICK m \in 0..n : s \in [1..m -> S]
  BY Zenon DEF BoundedSeq, SeqOf
<1> QED BY <1>1

LEMMA AttributesUnderstood ==
    ASSUME NEW records \in Seq(AttributeRecords), records # <<>>, NEW divider \in BOOLEAN
    PROVE  \E inner \in Seq(Inner) : Printing(Attributes(records, divider), inner)
<1>1. PICK inner \in Seq(Inner) : PrintedAttributes(records, divider) = Printed(inner)
  BY AttributesPrinted
<1>2. PICK l : l = PrintedAttributes(records, divider)
  OBVIOUS
<1>3. Attributes(records, divider) = Reply("whole", records, l)
  BY <1>2 DEF Attributes
<1>4. PICK r : r = Attributes(records, divider) /\ r.kind = "whole" /\ r.records = records /\ r.lines = l
  BY <1>3, ReplyIs
<1>5. Parse(l) = [outcome |-> "records", records |-> records]
  BY <1>2, AttributesComeBack
<1>6. Printing(r, inner)
  BY <1>1, <1>2, <1>4, <1>5 DEF Printing
<1> QED BY <1>4, <1>6

LEMMA TableUnderstood ==
    ASSUME NEW headings \in SetToSeqs(Keys), NEW records \in Seq(TableRecords), NEW short \in BOOLEAN
    PROVE  \E inner \in Seq(Inner) : /\ Printing(Table(headings, records, short), inner)
                                     /\ Len(inner) = 4 + Len(records)
<1>1. PICK inner \in Seq(Inner), top \in Seq(Plain), rows \in Seq(RowLines), y \in Seq(Plain) :
              /\ PrintedTable(headings, records, short) = Printed(inner)
              /\ y = Stripped(inner) /\ Two(y, top, rows)
              /\ Len(top) = 3 /\ top[1] = Text /\ top[2] = Divider /\ top[3] = Row(headings)
              /\ rows = RowsOf(headings, records, short)
              /\ Len(inner) = 4 + Len(rows)
  BY TablePrinted
<1>2. PICK l : l = PrintedTable(headings, records, short)
  OBVIOUS
<1>3. Table(headings, records, short) = Reply("whole", records, l)
  BY <1>2 DEF Table
<1>4. PICK r : r = Table(headings, records, short) /\ r.kind = "whole" /\ r.records = records /\ r.lines = l
  BY <1>3, ReplyIs
<1>5. Parse(l) = [outcome |-> "records", records |-> records]
  BY <1>2, TableComesBack
<1>6. Printing(r, inner)
  BY <1>1, <1>2, <1>4, <1>5 DEF Printing
<1>7. Len(rows) = Len(records)
  BY <1>1 DEF RowsOf
<1> QED BY <1>1, <1>4, <1>6, <1>7

LEMMA OtherUnderstood == Understood(Failed) /\ Understood(Bare)
<1>1. Failed.kind = "failed"
  BY ReplyIs DEF Failed
<1>2. Reported(Failed) = Report("error", <<>>)
  BY <1>1 DEF Reported
<1>3. PICK l : l = Joined(Heading(0), <<Blank, End>>)
  OBVIOUS
<1>4. PICK b : b = Bare /\ b.kind = "bare" /\ b.lines = l
  <2>1. Bare = Reply("bare", <<>>, l)
    BY <1>3 DEF Bare, Joined
  <2> QED BY <2>1, ReplyIs
<1>5. Reported(b).outcome \in {"records", "StopIteration"}
  BY <1>3, <1>4, ShortIsRead
<1> QED BY <1>1, <1>2, <1>4, <1>5, ReportIs DEF Understood

(* Every report that is modelled is understood, however many attributes    *)
(* and values there are.                                                   *)
LEMMA RepliesUnderstood == \A reply \in Replies : Understood(reply)
<1> DEFINE attributes == {Attributes(records, divider) :
                             records \in BoundedSeq(AttributeRecords, 2) \ {<<>>}, divider \in BOOLEAN}
           tables == {Table(headings, records, short) :
                         headings \in SetToSeqs(Keys), records \in BoundedSeq(TableRecords, 2),
                         short \in BOOLEAN}
           whole == attributes \cup tables
           brief == {r \in whole : Len(r.records) = 1}
           cut == UNION {{Cut(r, n) : n \in 0..Len(r.lines) - 1} : r \in brief}
<1>1. Replies = {Failed, Refused, Bare} \cup whole \cup cut
  BY DEF Replies
<1>2. ASSUME NEW r \in whole PROVE \E inner \in Seq(Inner) : Printing(r, inner)
  <2>1. CASE r \in attributes
    <3>1. PICK records \in BoundedSeq(AttributeRecords, 2) \ {<<>>}, divider \in BOOLEAN :
             r = Attributes(records, divider)
      BY <2>1
    <3>2. records \in Seq(AttributeRecords) /\ records # <<>>
      BY BoundedAre
    <3>3. \E inner \in Seq(Inner) : Printing(Attributes(records, divider), inner)
      BY <3>2, AttributesUnderstood
    <3> QED BY <3>1, <3>3
  <2>2. CASE r \in tables
    <3>1. PICK headings \in SetToSeqs(Keys), records \in BoundedSeq(TableRecords, 2), short \in BOOLEAN :
             r = Table(headings, records, short)
      BY <2>2
    <3>2. records \in Seq(TableRecords)
      BY BoundedAre
    <3>3. \E inner \in Seq(Inner) : Printing(Table(headings, records, short), inner)
      BY <3>2, TableUnderstood
    <3> QED BY <3>1, <3>3
  <2> QED BY <2>1, <2>2
<1>3. ASSUME NEW c \in cut PROVE Understood(c)
  <2>1. PICK r \in brief : c \in {Cut(r, n) : n \in 0..Len(r.lines) - 1}
    <3> HIDE DEF brief
    <3> QED OBVIOUS
  <2>2. PICK n \in 0..Len(r.lines) - 1 : c = Cut(r, n)
    <3> HIDE DEF brief
    <3> QED BY <2>1
  <2>3. r \in whole
    <3> HIDE DEF whole
    <3> QED OBVIOUS
  <2>4. PICK inner \in Seq(Inner) : Printing(r, inner)
    <3> HIDE DEF whole
    <3> QED BY <1>2, <2>3
  <2>5. Understood(Cut(r, n))
    BY <2>4, CutIsUnderstood
  <2> QED BY <2>2, <2>5
<1>4. ASSUME NEW r \in whole PROVE Understood(r)
  <2>1. PICK inner \in Seq(Inner) : Printing(r, inner)
    <3> HIDE DEF whole
    <3> QED BY <1>2
  <2> QED BY <2>1, PrintingIsUnderstood
<1> HIDE DEF whole, cut
<1> QED BY <1>1, <1>3, <1>4, OtherUnderstood, RefusedIsUnderstood

LEMMA SamplesUnderstood == \A reply \in Samples : Understood(reply)
<1> DEFINE record == [k \in Keys |-> NULL]
           table == Table(SetToSeq(Keys), <<record>>, FALSE)
<1>1. record \in TableRecords
  BY DEF TableRecords
<1>2. PICK headings \in SetToSeqs(Keys) : headings = SetToSeq(Keys)
  BY SomeOrder, KeysAssumption
<1>3. PICK records \in Seq(TableRecords) : records = <<record>> /\ Len(records) = 1
  <2> HIDE DEF record
  <2>1. <<record>> \in Seq(TableRecords) /\ Len(<<record>>) = 1
    BY <1>1
  <2> QED BY <2>1
<1>4. PICK t : t = table
  OBVIOUS
<1> HIDE DEF record
<1>5. t = Table(headings, records, FALSE)
  BY <1>2, <1>3, <1>4
<1> HIDE DEF table
<1>6. PICK inner \in Seq(Inner) : Printing(t, inner) /\ Len(inner) = 5
  <2>1. PICK inner \in Seq(Inner) : /\ Printing(Table(headings, records, FALSE), inner)
                                    /\ Len(inner) = 4 + Len(records)
    BY TableUnderstood
  <2>2. Printing(t, inner)
    BY <1>5, <2>1, Zenon
  <2>3. Len(inner) = 5
    BY <1>3, <2>1
  <2> QED BY <2>2, <2>3
<1>7. Understood(t)
  BY <1>6, PrintingIsUnderstood
<1>8. 8 \in 0..Len(t.lines) - 1
  <2>1. PICK s \in Seq(Lines) : s = Printed(inner) /\ Len(s) = Len(inner) + 7
    BY PrintedLines
  <2>2. t.lines = s /\ Len(s) = 12
    BY <1>6, <2>1 DEF Printing
  <2> QED BY <2>2
<1>9. Understood(Cut(t, 8))
  BY <1>6, <1>8, CutIsUnderstood
<1>10. Samples = {Failed, Refused, Bare, t, Cut(t, 8)}
  BY <1>4 DEF Samples, table, record
<1> QED BY <1>7, <1>9, <1>10, OtherUnderstood, RefusedIsUnderstood

-----------------------------------------------------------------------------
(* What the elements said and what the answer says of it.                  *)

(* Nothing is said before the batch is answered.  An answer has what       *)
(* became of each report, none of which has crashed it, and tells which    *)
(* elements are unknown; without an answer somebody's report has crashed   *)
(* it, unless nobody was asked.                                            *)
SpeechInv ==
    /\ \A n \in Names : Understood(says[n])
    /\ phase = "posting" => \A n \in Names : says[n] = Failed
    /\ phase = "answered" =>
          /\ \A n \in ToSet(remaining) : /\ reported[n] = Reported(says[n])
                                         /\ reported[n].outcome # "StopIteration"
          /\ \A n \in missing : reported[n] = Report("missing", <<>>)
    /\ phase \notin {"posting", "answered"} =>
          \/ \A n \in Names : says[n] = Failed
          \/ \E n \in ToSet(remaining) : Reported(says[n]).outcome = "StopIteration"

ReportInv == BatchInv /\ SpeechInv

LEMMA SpeechInit == Init => SpeechInv
<1> SUFFICES ASSUME Init PROVE SpeechInv
  OBVIOUS
<1>1. phase = "posting" /\ \A n \in Names : says[n] = Failed
  BY DEF Init
<1> QED BY <1>1, OtherUnderstood DEF SpeechInv

(* The report of an element in the answer, by the CASE of Finish. *)
LEMMA FinishReports ==
    ASSUME NEW answered, NEW aside, Finish(answered, aside),
           ToSet(answered) \subseteq ToSet(requested), aside \subseteq Names,
           requested \in Seq(Names)
    PROVE  /\ phase' \in {"crashed", "answered"}
           /\ phase' = "answered" =>
                 /\ \A n \in ToSet(answered) : /\ reported'[n] = Reported(says'[n])
                                               /\ reported'[n].outcome # "StopIteration"
                 /\ \A n \in aside \ ToSet(answered) : reported'[n] = Report("missing", <<>>)
           /\ phase' = "crashed" =>
                 \E n \in ToSet(answered) : Reported(says'[n]).outcome = "StopIteration"
<1> DEFINE report == [n \in Names |->
                         CASE n \in ToSet(answered) -> Reported(says'[n])
                           [] n \in aside \ ToSet(answered) -> Report("missing", <<>>)
                           [] OTHER -> NoReport]
<1>1. IF \E n \in ToSet(Merged(answered, aside)) : report[n].outcome = "StopIteration"
      THEN phase' = "crashed" /\ UNCHANGED <<results, reported>>
      ELSE phase' = "answered" /\ results' = Merged(answered, aside) /\ reported' = report
  BY DEF Finish
<1>2. ASSUME NEW n \in ToSet(answered) PROVE report[n] = Reported(says'[n])
  <2>1. n \in Names
    BY NamesOfSeq
  <2> QED BY <2>1
<1>3. CASE phase' = "answered"
  <2>1. /\ reported' = report
        /\ \A n \in ToSet(Merged(answered, aside)) : report[n].outcome # "StopIteration"
    BY <1>1, <1>3
  <2>2. ASSUME NEW n \in aside \ ToSet(answered) PROVE report[n] = Report("missing", <<>>)
    OBVIOUS
  <2>3. ToSet(answered) \subseteq ToSet(Merged(answered, aside))
    <3>1. CASE aside = {}
      BY <3>1 DEF Merged
    <3>2. CASE aside # {}
      <4>1. ToSet(Merged(answered, aside)) = ToSet(requested) \cap (ToSet(answered) \cup aside)
        BY <3>2, WithinIs DEF Merged
      <4> QED BY <4>1
    <3> QED BY <3>1, <3>2
  <2> HIDE DEF report
  <2> QED BY <1>2, <1>3, <2>1, <2>2, <2>3
<1>4. CASE phase' = "crashed"
  <2>1. PICK n \in ToSet(Merged(answered, aside)) : report[n].outcome = "StopIteration"
    BY <1>1, <1>4
  <2>2. n \in Names
    <3>1. CASE aside = {}
      BY <3>1, NamesOfSeq DEF Merged
    <3>2. CASE aside # {}
      <4>1. ToSet(Merged(answered, aside)) \subseteq ToSet(requested)
        BY <3>2, WithinIs DEF Merged
      <4>2. ToSet(requested) \subseteq Names
        BY NamesOfSeq
      <4> QED BY <4>1, <4>2
    <3> QED BY <3>1, <3>2
  <2>3. n \in ToSet(answered)
    <3> SUFFICES ASSUME n \notin ToSet(answered) PROVE FALSE
      OBVIOUS
    <3>1. report[n] = Report("missing", <<>>) \/ report[n] = NoReport
      BY <2>2
    <3> HIDE DEF report
    <3>2. report[n].outcome = "missing" \/ report[n].outcome = "none"
      BY <3>1, ReportIs DEF NoReport
    <3> QED BY <2>1, <3>2
  <2>4. report[n] = Reported(says'[n])
    BY <1>2, <2>3
  <2> HIDE DEF report
  <2> QED BY <1>4, <2>1, <2>3, <2>4
<1> QED BY <1>1, <1>3, <1>4

LEMMA SpeechRefused ==
    ASSUME ReportInv, NEW named \in SUBSET Names, NamesRefused(named)
    PROVE  SpeechInv'
<1>1. SpeechInv /\ TypeOK /\ phase = "posting" /\ says' = says
  BY DEF ReportInv, BatchInv, NamesRefused
<1>2. \A n \in Names : says'[n] = Failed /\ Understood(says'[n])
  BY <1>1 DEF SpeechInv
<1>3. phase' = "answered" => remaining' = <<>> /\ Finish(<<>>, missing')
  BY <1>1 DEF NamesRefused
<1>4. ToSet(<<>>) = {} /\ missing' \subseteq Names /\ requested' = requested
  <2>1. BatchInv'
    BY KeepRefused DEF ReportInv
  <2> QED BY <2>1 DEF BatchInv, TypeOK, ToSet, NamesRefused
<1>5. phase' = "answered" => \A n \in missing' : reported'[n] = Report("missing", <<>>)
  BY <1>1, <1>3, <1>4, FinishReports DEF TypeOK
<1> QED BY <1>2, <1>3, <1>4, <1>5 DEF SpeechInv

LEMMA SpeechAnswered ==
    ASSUME ReportInv, BatchAnswered
    PROVE  SpeechInv'
<1>1. SpeechInv /\ TypeOK /\ RoundsInv /\ UNCHANGED <<requested, remaining, missing>>
  BY DEF ReportInv, BatchInv, BatchAnswered
<1>2. PICK given \in [ToSet(remaining) -> IF Len(requested) = 1 THEN Replies ELSE Samples] :
         says' = [n \in Names |-> IF n \in ToSet(remaining) THEN given[n] ELSE says[n]]
  BY DEF BatchAnswered
<1>3. PICK a \in OnceEach(remaining) : Finish(a, missing)
  BY DEF BatchAnswered
<1>4. ToSet(a) = ToSet(remaining) /\ ToSet(a) \subseteq Names
  <2>1. IsFiniteSet(ToSet(remaining)) /\ ToSet(remaining) \subseteq Names
    BY <1>1, NamesOfSeq DEF TypeOK
  <2> QED BY <2>1, OrderIs DEF OnceEach
<1>5. ASSUME NEW n \in Names PROVE Understood(says'[n])
  <2>1. CASE n \in ToSet(remaining)
    <3>1. says'[n] = given[n]
      BY <1>2, <2>1
    <3>2. given[n] \in Replies \/ given[n] \in Samples
      BY <2>1
    <3> QED BY <3>1, <3>2, RepliesUnderstood, SamplesUnderstood
  <2>2. CASE n \notin ToSet(remaining)
    <3>1. says'[n] = says[n]
      BY <1>2, <2>2
    <3> QED BY <1>1, <3>1 DEF SpeechInv
  <2> QED BY <2>1, <2>2
<1>6. ToSet(a) \subseteq ToSet(requested) /\ missing \ ToSet(a) = missing
  BY <1>1, <1>4 DEF RoundsInv
<1>7. /\ phase' \in {"crashed", "answered"}
      /\ phase' = "answered" =>
            /\ \A n \in ToSet(a) : /\ reported'[n] = Reported(says'[n])
                                   /\ reported'[n].outcome # "StopIteration"
            /\ \A n \in missing : reported'[n] = Report("missing", <<>>)
      /\ phase' = "crashed" => \E n \in ToSet(a) : Reported(says'[n]).outcome = "StopIteration"
  BY <1>1, <1>3, <1>6, FinishReports DEF TypeOK
<1>8. remaining' = remaining /\ missing' = missing
  BY <1>1
<1> QED BY <1>4, <1>5, <1>7, <1>8 DEF SpeechInv

LEMMA SpeechNext == ReportInv /\ [Next]_vars => ReportInv'
<1> SUFFICES ASSUME ReportInv, [Next]_vars PROVE SpeechInv'
  BY BatchNext DEF ReportInv
<1>1. ASSUME NEW named \in (SUBSET Names) \ {{}}, NamesRefused(named) PROVE SpeechInv'
  BY <1>1, SpeechRefused
<1>2. CASE RequestFails
  <2>1. /\ SpeechInv /\ phase = "posting" /\ phase' \in {"rejected", "failed", "crashed"}
        /\ says' = says
    BY <1>2 DEF ReportInv, RequestFails
  <2>2. \A n \in Names : says'[n] = Failed /\ Understood(says'[n])
    BY <2>1 DEF SpeechInv
  <2> QED BY <2>1, <2>2 DEF SpeechInv
<1>3. CASE BatchAnswered
  BY <1>3, SpeechAnswered
<1>4. CASE UNCHANGED vars
  BY <1>4 DEF vars, ReportInv, SpeechInv
<1> QED BY <1>1, <1>2, <1>3, <1>4 DEF Next

(* What the elements said is in the answer as the parser understood it,    *)
(* and only a report without anything in it can cost the answer.           *)
THEOREM ReportsAreUnderstood == Spec => []ReportInv
<1>1. Init => ReportInv
  BY BatchInit, SpeechInit DEF ReportInv
<1> QED BY <1>1, SpeechNext, PTL DEF Spec

(* An answer of _execute_mml is complete and truthful for any batch,       *)
(* repeated names included, and however many times Huawei refused some of  *)
(* its elements: after a retry one result for every name given, in the     *)
(* request's order, without one a result for each element in MAE's; and    *)
(* every element is told unknown, in error or read as MAE answered for it. *)
THEOREM AnswersCover == Spec => []AnswerCoversRequest
<1>1. ReportInv => AnswerCoversRequest
  <2> SUFFICES ASSUME ReportInv, phase = "answered"
               PROVE  /\ results \in AnswersTo(requested, missing # {})
                      /\ \A n \in ToSet(requested) : reported[n].outcome = Verdict(n)
    BY DEF AnswerCoversRequest
  <2>1. results \in AnswersTo(requested, missing # {})
    BY DEF ReportInv, BatchInv, ResultsInv
  <2>2. ASSUME NEW n \in ToSet(requested) PROVE reported[n].outcome = Verdict(n)
    <3>1. SpeechInv /\ (n \in missing \/ n \in ToSet(remaining) \ missing)
      BY DEF ReportInv, BatchInv, RoundsInv
    <3>2. CASE n \in missing
      BY <3>1, <3>2, ReportIs DEF SpeechInv, Verdict
    <3>3. CASE n \in ToSet(remaining) \ missing
      <4>1. n \in Names
        BY NamesOfSeq DEF ReportInv, BatchInv, TypeOK
      <4>2. /\ Understood(says[n]) /\ reported[n] = Reported(says[n])
            /\ reported[n].outcome # "StopIteration"
        BY <3>1, <3>3, <4>1 DEF SpeechInv
      <4>3. CASE says[n].kind \in {"failed", "cut"}
        BY <3>3, <4>2, <4>3, ReportIs DEF Understood, Verdict
      <4>4. CASE says[n].kind \notin {"failed", "cut"}
        BY <3>3, <4>2, <4>4 DEF Understood, Verdict
      <4> QED BY <4>3, <4>4
    <3> QED BY <3>1, <3>2, <3>3
  <2> QED BY <2>1, <2>2
<1> QED BY <1>1, ReportsAreUnderstood, PTL

(* A report that was cut off, at whatever line, is the element's error: the *)
(* parser looks for the end before it reads a record.                      *)
THEOREM CutReports == Spec => []CutReportIsAnError
<1>1. ReportInv => CutReportIsAnError
  <2> SUFFICES ASSUME ReportInv, NEW n \in ToSet(remaining), says[n].kind = "cut"
               PROVE  IF phase = "answered" THEN reported[n] = Report("error", <<>>)
                      ELSE \E other \in ToSet(remaining) : says[other].kind = "bare"
    BY DEF CutReportIsAnError
  <2>1. SpeechInv /\ ToSet(remaining) \subseteq Names
    BY NamesOfSeq DEF ReportInv, BatchInv, TypeOK
  <2>2. says[n] # Failed
    BY ReplyIs DEF Failed
  <2>3. CASE phase = "answered"
    BY <2>1, <2>3 DEF SpeechInv, Understood
  <2>4. CASE phase # "answered"
    <3>1. PICK m \in ToSet(remaining) : Reported(says[m]).outcome = "StopIteration"
      BY <2>1, <2>2, <2>4 DEF SpeechInv
    <3>2. says[m].kind = "bare"
      BY <2>1, <3>1 DEF SpeechInv, Understood
    <3> QED BY <2>4, <3>2
  <2> QED BY <2>3, <2>4
<1> QED BY <1>1, ReportsAreUnderstood, PTL

(* The records that an element printed are those of its result, however    *)
(* many attributes and values there are: as attributes or as a table, with *)
(* or without a divider, with lists and with short rows.                   *)
THEOREM PrintedRecords == Spec => []PrintedRecordsComeBack
<1>1. ReportInv => PrintedRecordsComeBack
  <2> SUFFICES ASSUME ReportInv, phase = "answered", NEW n \in ToSet(requested) \ missing,
                      says[n].kind = "whole"
               PROVE  reported[n] = Report("records", says[n].records)
    BY DEF PrintedRecordsComeBack
  <2>1. SpeechInv /\ n \in ToSet(remaining) /\ ToSet(remaining) \subseteq Names
    BY NamesOfSeq DEF ReportInv, BatchInv, TypeOK, RoundsInv
  <2>2. Understood(says[n]) /\ reported[n] = Reported(says[n])
    BY <2>1 DEF SpeechInv
  <2> QED BY <2>2 DEF Understood
<1> QED BY <1>1, ReportsAreUnderstood, PTL
=============================================================================
