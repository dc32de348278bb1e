------------------------- MODULE CellSummary_proofs -------------------------
(***************************************************************************)
(* Proofs about CellSummary for all elements, cells, requests and names of *)
(* cells: what TLC checks for two elements with two cells each.            *)
(***************************************************************************)
EXTENDS CellSummary, FiniteSetTheorems, SequenceTheorems, TLAPS

Phases == {"running", "answered", "rejected", "failed", "crashed"}

(* What a column of a frame may hold. *)
Told == CellNames \cup {None, NaN} \cup (Nat \X Names \X Cells)

RecordSet == [id : Nat, attribute : Told]
ReplySet == [error : BOOLEAN, records : SUBSET RecordSet]
PayloadSet == [results : Seq(Names), reply : UNION {[N -> ReplySet] : N \in SUBSET Names}]
RowSet == [ne : Names, id : Nat, attributes : Seq(Told)]

(* An answer to the c-th command. *)
PayloadOK(p, c) ==
    /\ ToSet(p.results) \subseteq DOMAIN p.reply
    /\ \A ne \in DOMAIN p.reply : p.reply[ne] \in Replies(c, ne)

TypeOK ==
    /\ technology \in Technologies /\ phase \in Phases
    /\ requested \in Seq(Names)
    /\ payloads \in Seq(PayloadSet)
    /\ rows \in [DOMAIN rows -> RowSet]

PayloadsInv == \A c \in 1..Len(payloads) : PayloadOK(payloads[c], c)

(* Each row is that of a record of the first command's answer, to which    *)
(* every table joined so far added one attribute.                          *)
RowsInv ==
    /\ DOMAIN rows # {} => payloads # <<>> /\ DOMAIN rows = Places(payloads[1])
    /\ \A p \in DOMAIN rows :
          /\ rows[p].ne = payloads[1].results[p[1]] /\ rows[p].id = p[2].id
          /\ Len(rows[p].attributes) \in 1..Len(payloads)
          /\ rows[p].attributes[1] = Known(p[2])
    /\ phase = "running" =>
          /\ payloads # <<>> => DOMAIN rows # {}
          /\ \A p \in DOMAIN rows : Len(rows[p].attributes) = Len(payloads)

(* Every command was sent to the elements with rows, as the next one is.   *)
CoverInv ==
    \A p \in DOMAIN rows :
        /\ \A c \in 1..Len(payloads) : rows[p].ne \in ToSet(payloads[c].results)
        /\ phase = "running" => rows[p].ne \in ToSet(requested)

(* An answer without rows is that for a NodeB no RNC knows. *)
AnswerInv ==
    phase = "answered" =>
        /\ payloads # <<>>
        /\ DOMAIN rows = {} =>
              /\ technology = "UMTS"
              /\ \A ne \in ToSet(payloads[1].results) : payloads[1].reply[ne].error

FirstNames == {row.attributes[1] : row \in Range(rows)} \ {None}

PatternInv ==
    /\ payloads = <<>> => pattern = <<>>
    /\ pattern # <<>> =>
          pattern = Pattern(FirstNames) /\ IsFiniteSet(FirstNames) /\ FirstNames \subseteq CellNames

IInv ==
    /\ TypeOK /\ PayloadsInv /\ RowsInv /\ CoverInv /\ AnswerInv /\ PatternInv
    /\ AttributesAreOfTheCell /\ SummaryCrashIsExplained

-----------------------------------------------------------------------------
(* Requests and replies.                                                   *)

LEMMA RangeIsFinite ==
    ASSUME NEW f, IsFiniteSet(DOMAIN f)
    PROVE  IsFiniteSet({f[x] : x \in DOMAIN f})
<1> DEFINE S == DOMAIN f
           g == [x \in S |-> f[x]]
<1>1. g \in Surjection(S, {f[x] : x \in S})
  BY DEF Surjection
<1> QED BY <1>1, FS_Surjection

(* An order of a finite set names each of its elements, once. *)
LEMMA OrderIs ==
    ASSUME NEW S, IsFiniteSet(S), NEW s \in SetToSeqs(S)
    PROVE  /\ s \in Seq(S) /\ ToSet(s) = S
           /\ \A i, j \in DOMAIN s : i # j => s[i] # s[j]
<1> DEFINE D == 1..Cardinality(S)
<1>1. Cardinality(S) \in Nat
  BY FS_CardinalityType
<1>2. s \in [D -> S] /\ \A i, j \in D : i # j => s[i] # s[j]
  BY DEF SetToSeqs
<1>3. s \in Seq(S)
  BY <1>1, <1>2
<1>4. s \in Injection(D, S)
  BY <1>2 DEF Injection, IsInjective
<1>5. IsFiniteSet(D) /\ Cardinality(D) = Cardinality(S)
  BY <1>1, FS_Interval
<1>6. s \in Surjection(D, S)
  BY <1>4, <1>5, FS_Injection
<1>7. \A x \in S : \E i \in D : s[i] = x
  BY <1>6 DEF Surjection
<1> QED BY <1>2, <1>3, <1>7 DEF ToSet

LEMMA NamesOfSeq ==
    ASSUME NEW S, NEW s \in Seq(S)
    PROVE  ToSet(s) \subseteq S /\ IsFiniteSet(ToSet(s))
<1>1. DOMAIN s = 1..Len(s) /\ Len(s) \in Nat
  OBVIOUS
<1>2. ToSet(s) \subseteq S
  BY <1>1 DEF ToSet
<1>3. IsFiniteSet(DOMAIN s)
  BY <1>1, FS_Interval
<1> QED BY <1>2, <1>3, RangeIsFinite DEF ToSet

LEMMA OneElement ==
    ASSUME NEW S, NEW x \in S
    PROVE  <<x>> \in Seq(S) /\ Len(<<x>>) = 1 /\ <<x>>[1] = x
OBVIOUS

(* The values a cell may have differ from the signs for "no value". *)
LEMMA SaidIsKnown ==
    ASSUME NEW c, NEW ne, NEW id
    PROVE  Said(c, ne, id) # NaN /\ Said(c, ne, id) # None
<1>1. Len(<<c, ne, id>>) = 3 /\ Len(<<"NaN">>) = 1
  OBVIOUS
<1> QED BY <1>1 DEF Said, NaN, None

(* Whatever an element replies: no cell is told twice, and a value is what *)
(* the command says of the cell, or a sign of an unforeseen layout.        *)
LEMMA ReplyIs ==
    ASSUME NEW c \in Nat, NEW ne \in Names, NEW r \in Replies(c, ne)
    PROVE  /\ r \in ReplySet /\ IsFiniteSet(r.records)
           /\ r.error => r.records = {}
           /\ ~r.error /\ r.records = {} => r = Empty
           /\ \A v, w \in r.records : v.id = w.id => v = w
           /\ \A v \in r.records :
                 \/ v.id = NoKey /\ v.attribute = None
                 \/ v.id \in Cells /\ v.attribute = NaN
                 \/ v.id \in Cells /\ v.attribute \in Sayings(c, ne, v.id)
<1> DEFINE one == CHOOSE id \in Cells : TRUE
<1>1. one \in Cells /\ \A id \in Cells : id \in Nat
  BY CellsAssumption
<1>2. CASE r \in {Failed, Empty}
  <2>1. Failed \in ReplySet /\ Failed.error = TRUE /\ Failed.records = {}
    BY DEF Failed, Reply, ReplySet
  <2>2. Empty \in ReplySet /\ Empty.error = FALSE /\ Empty.records = {}
    BY DEF Empty, Reply, ReplySet
  <2> QED BY <1>2, <2>1, <2>2, FS_EmptySet
<1>3. CASE r \in OddTables(one)
  <2>1. Record(one, NaN) \in RecordSet /\ Record(NoKey, None) \in RecordSet
    BY <1>1 DEF Record, RecordSet, Told, NoKey
  <2>2. PICK v \in RecordSet :
            r = Reply(FALSE, {v}) /\ v \in {Record(one, NaN), Record(NoKey, None)}
    BY <1>3, <2>1 DEF OddTables
  <2>3. \/ v.id = NoKey /\ v.attribute = None
        \/ v.id \in Cells /\ v.attribute = NaN
    BY <1>1, <2>2 DEF Record
  <2>4. r.error = FALSE /\ r.records = {v} /\ r.records # {}
    BY <2>2 DEF Reply
  <2>5. r \in ReplySet /\ IsFiniteSet(r.records)
    BY <2>2, <2>4, FS_Singleton DEF Reply, ReplySet
  <2> QED BY <2>3, <2>4, <2>5
<1>4. CASE r \in Tables(c, ne)
  <2>0. PICK S \in (SUBSET Cells) \ {{}} :
            r \in {Reply(FALSE, {Record(id, a[id]) : id \in S}) :
                      a \in {f \in [S -> UNION {Sayings(c, ne, id) : id \in S}] :
                               \A id \in S : f[id] \in Sayings(c, ne, id)}}
    BY <1>4, Zenon DEF Tables
  <2>1. PICK a \in [S -> UNION {Sayings(c, ne, id) : id \in S}] :
            /\ \A id \in S : a[id] \in Sayings(c, ne, id)
            /\ r = Reply(FALSE, {Record(id, a[id]) : id \in S})
    BY <2>0
  <2>2. IsFiniteSet(S)
    BY CellsAssumption, FS_Subset
  <2>3. IsFiniteSet({Record(id, a[id]) : id \in S})
    <3> DEFINE told == [id \in S |-> Record(id, a[id])]
    <3>1. IsFiniteSet({told[id] : id \in DOMAIN told})
      BY <2>2, RangeIsFinite
    <3>2. {told[id] : id \in DOMAIN told} = {Record(id, a[id]) : id \in S}
      OBVIOUS
    <3> QED BY <3>1, <3>2
  <2>4. ASSUME NEW id \in S PROVE a[id] \in Told /\ id \in Nat
    BY <1>1, <2>1 DEF Sayings, Said, Told
  <2>5. \A id \in S : Record(id, a[id]) \in RecordSet /\ Record(id, a[id]).id = id
                      /\ Record(id, a[id]).attribute = a[id]
    BY <2>4 DEF Record, RecordSet
  <2>6. r.records = {Record(id, a[id]) : id \in S} /\ r.records # {} /\ r.error = FALSE
    BY <2>1 DEF Reply
  <2> QED BY <2>1, <2>3, <2>5, <2>6 DEF Reply, ReplySet
<1> QED BY <1>2, <1>3, <1>4 DEF Replies

(* An answer to the command under way speaks of the elements it was sent   *)
(* to, each as Replies says.                                               *)
LEMMA PayloadIs ==
    ASSUME TypeOK, NEW payload \in Payloads(k)
    PROVE  /\ payload \in PayloadSet /\ PayloadOK(payload, k)
           /\ ToSet(payload.results) = ToSet(requested)
<1>1. k \in Nat
  BY DEF k, TypeOK
<1>2. ToSet(requested) \subseteq Names /\ IsFiniteSet(ToSet(requested))
  BY NamesOfSeq DEF TypeOK
<1> DEFINE all == UNION {Replies(k, ne) : ne \in ToSet(requested)}
           each == {f \in [ToSet(requested) -> all] : \A ne \in DOMAIN f : f[ne] \in Replies(k, ne)}
           retries(f) == IF \E ne \in DOMAIN f : f[ne].error THEN BOOLEAN ELSE {FALSE}
           answers(f) == [results : UNION {AnswersTo(requested, r) : r \in retries(f)}, reply : {f}]
<1>3. PICK f \in each : payload \in answers(f)
  BY Zenon DEF Payloads
<1>4. /\ f \in [ToSet(requested) -> all]
      /\ \A ne \in DOMAIN f : f[ne] \in Replies(k, ne)
      /\ payload.reply = f
      /\ payload = [results |-> payload.results, reply |-> payload.reply]
      /\ \E retried : payload.results \in AnswersTo(requested, retried)
  BY <1>3
<1>5. payload.results \in Seq(Names) /\ ToSet(payload.results) = ToSet(requested)
  <2>1. CASE payload.results = requested
    BY <2>1 DEF TypeOK
  <2>2. CASE payload.results \in SetToSeqs(ToSet(requested))
    BY <2>2, <1>2, OrderIs, SeqMonotonic
  <2> QED BY <1>4, <2>1, <2>2 DEF AnswersTo, OnceEach
<1>6. f \in [ToSet(requested) -> ReplySet]
  BY <1>1, <1>2, <1>4, ReplyIs
<1>7. payload.reply \in UNION {[N -> ReplySet] : N \in SUBSET Names}
  BY <1>2, <1>4, <1>6
<1> QED BY <1>4, <1>5, <1>7 DEF PayloadSet, PayloadOK

-----------------------------------------------------------------------------
(* Frames.                                                                 *)

Repeats(p) == \E i, j \in DOMAIN p.results : i # j /\ p.results[i] = p.results[j]

(* A frame has one row for each result and record of its element. *)
LEMMA FrameIs ==
    ASSUME NEW payload \in PayloadSet, NEW c \in Nat, PayloadOK(payload, c)
    PROVE  /\ DOMAIN Frame(payload) = Places(payload)
           /\ \A p \in Places(payload) :
                 /\ p = <<p[1], p[2]>> /\ p[1] \in DOMAIN payload.results
                 /\ payload.results[p[1]] \in Names
                 /\ payload.results[p[1]] \in ToSet(payload.results)
                 /\ payload.results[p[1]] \in DOMAIN payload.reply
                 /\ p[2] \in payload.reply[payload.results[p[1]]].records
                 /\ p[2] \in RecordSet
                 /\ Frame(payload)[p].ne = payload.results[p[1]]
                 /\ Frame(payload)[p].id = p[2].id
                 /\ Frame(payload)[p].attribute = p[2].attribute
           /\ \A ne \in ToSet(payload.results) :
                 /\ ne \in DOMAIN payload.reply /\ ne \in Names
                 /\ payload.reply[ne] \in ReplySet /\ payload.reply[ne] \in Replies(c, ne)
                 /\ \A v \in payload.reply[ne].records :
                       \E p \in Places(payload) : p[2] = v /\ payload.results[p[1]] = ne
<1>1. payload.results \in Seq(Names) /\ ToSet(payload.results) \subseteq DOMAIN payload.reply
  BY DEF PayloadSet, PayloadOK
<1>2. \A ne \in DOMAIN payload.reply : payload.reply[ne] \in ReplySet
  BY DEF PayloadSet
<1>3. \A i \in DOMAIN payload.results :
          payload.results[i] \in Names /\ payload.results[i] \in ToSet(payload.results)
  BY <1>1 DEF ToSet
<1>4. \A p \in Places(payload) :
          /\ p = <<p[1], p[2]>> /\ p[1] \in DOMAIN payload.results
          /\ p[2] \in payload.reply[payload.results[p[1]]].records
  BY DEF Places
<1>5. \A p \in Places(payload) : p[2] \in RecordSet
  BY <1>1, <1>2, <1>3, <1>4 DEF ReplySet
<1>6. ASSUME NEW ne \in ToSet(payload.results), NEW v \in payload.reply[ne].records
      PROVE  \E p \in Places(payload) : p[2] = v /\ payload.results[p[1]] = ne
  <2>1. PICK i \in DOMAIN payload.results : payload.results[i] = ne
    BY DEF ToSet
  <2>2. <<i, v>> \in {i} \X payload.reply[payload.results[i]].records
    BY <1>6, <2>1
  <2>3. <<i, v>> \in Places(payload)
    BY <2>2 DEF Places
  <2> QED BY <2>1, <2>3
<1>7. \A ne \in ToSet(payload.results) : ne \in Names
  BY <1>3 DEF ToSet
<1>8. DOMAIN Frame(payload) = Places(payload)
  BY DEF Frame
<1>9. \A p \in Places(payload) :
          /\ Frame(payload)[p].ne = payload.results[p[1]]
          /\ Frame(payload)[p].id = p[2].id
          /\ Frame(payload)[p].attribute = p[2].attribute
  BY DEF Frame
<1>10. \A ne \in ToSet(payload.results) : payload.reply[ne] \in Replies(c, ne)
  BY <1>1 DEF PayloadOK
<1> QED BY <1>1, <1>2, <1>3, <1>4, <1>5, <1>6, <1>7, <1>8, <1>9, <1>10

(* Two rows of the same cell mean that its element has two results. *)
LEMMA DuplicateIsRepeated ==
    ASSUME NEW payload \in PayloadSet, NEW c \in Nat, PayloadOK(payload, c),
           NEW p \in Places(payload), NEW q \in Places(payload), p # q,
           payload.results[p[1]] = payload.results[q[1]], p[2].id = q[2].id
    PROVE  Repeats(payload)
<1> DEFINE ne == payload.results[p[1]]
<1>1. /\ p = <<p[1], p[2]>> /\ q = <<q[1], q[2]>> /\ ne \in Names
      /\ p[1] \in DOMAIN payload.results /\ q[1] \in DOMAIN payload.results
      /\ payload.reply[ne] \in Replies(c, ne)
      /\ p[2] \in payload.reply[ne].records /\ q[2] \in payload.reply[ne].records
  BY FrameIs
<1>2. p[2] = q[2]
  BY <1>1, ReplyIs
<1>3. p[1] # q[1]
  BY <1>1, <1>2
<1> QED BY <1>1, <1>3 DEF Repeats

LEMMA UnrepeatedKeys ==
    ASSUME NEW payload \in PayloadSet, NEW c \in Nat, PayloadOK(payload, c),
           ~Repeats(payload)
    PROVE  UniqueKeys(Frame(payload))
<1> SUFFICES ASSUME NEW p \in Places(payload), NEW q \in Places(payload), p # q,
                    Key(Frame(payload)[p]) = Key(Frame(payload)[q])
             PROVE  FALSE
  BY FrameIs DEF UniqueKeys
<1>1. Frame(payload)[p].ne = Frame(payload)[q].ne /\ Frame(payload)[p].id = Frame(payload)[q].id
  BY DEF Key
<1>2. payload.results[p[1]] = payload.results[q[1]] /\ p[2].id = q[2].id
  BY <1>1, FrameIs
<1> QED BY <1>2, DuplicateIsRepeated

(* The partner of a cell in the table of a later command: what the same    *)
(* element says of the same cell, or nothing.                              *)
LEMMA PartnerIs ==
    ASSUME NEW payload \in PayloadSet, NEW c \in Nat, PayloadOK(payload, c),
           ~(technology = "UMTS" /\ c = 1), UniqueKeys(Frame(payload)),
           NEW row, row.ne \in ToSet(payload.results)
    PROVE  LET partner == Matches(row, Frame(payload))
               said == Record(row.id, Said(c, row.ne, row.id))
           IN  (IF partner = {} THEN None ELSE Known(CHOOSE r \in partner : TRUE))
                 = IF said \in payload.reply[row.ne].records THEN said.attribute ELSE None
<1> DEFINE frame == Frame(payload)
           partner == Matches(row, frame)
           records == payload.reply[row.ne].records
           said == Record(row.id, Said(c, row.ne, row.id))
<1>1. \A r \in partner : \E v \in records : v.id = row.id /\ r.attribute = v.attribute
  <2> SUFFICES ASSUME NEW r \in partner
               PROVE  \E v \in records : v.id = row.id /\ r.attribute = v.attribute
    OBVIOUS
  <2>1. r \in Range(frame) /\ Key(r) = Key(row)
    BY DEF Matches
  <2>2. r.ne = row.ne /\ r.id = row.id
    BY <2>1 DEF Key
  <2>3. PICK p \in Places(payload) : r = frame[p]
    BY <2>1, FrameIs DEF Range
  <2>4. /\ r.ne = payload.results[p[1]] /\ r.id = p[2].id /\ r.attribute = p[2].attribute
        /\ p[2] \in payload.reply[payload.results[p[1]]].records
    BY <2>3, FrameIs
  <2> QED BY <2>2, <2>4
<1>2. \A v \in records : v.id = row.id => \E r \in partner : r.attribute = v.attribute
  <2> SUFFICES ASSUME NEW v \in records, v.id = row.id
               PROVE  \E r \in partner : r.attribute = v.attribute
    OBVIOUS
  <2>1. PICK p \in Places(payload) : p[2] = v /\ payload.results[p[1]] = row.ne
    BY FrameIs
  <2>2. frame[p].ne = row.ne /\ frame[p].id = row.id /\ frame[p].attribute = v.attribute
    BY <2>1, FrameIs
  <2>3. frame[p] \in Range(frame)
    BY FrameIs DEF Range
  <2> QED BY <2>2, <2>3 DEF Matches, Key
<1>3. ASSUME NEW v \in records, v.id = row.id
      PROVE  Known(v) = IF v = said THEN said.attribute ELSE None
  <2>1. row.ne \in Names /\ payload.reply[row.ne] \in Replies(c, row.ne)
        /\ payload.reply[row.ne] \in ReplySet /\ v \in RecordSet
    BY <1>3, FrameIs DEF ReplySet
  <2>2. said.id = row.id /\ said.attribute = Said(c, row.ne, row.id)
        /\ said = [id |-> row.id, attribute |-> Said(c, row.ne, row.id)]
    BY DEF Record
  <2>3. \/ v.attribute = None \/ v.attribute = NaN
        \/ v.attribute \in Sayings(c, row.ne, v.id)
    BY <1>3, <2>1, ReplyIs
  <2>4. v.attribute \in Sayings(c, row.ne, v.id) => v = said
    BY <1>3, <2>1, <2>2 DEF Sayings, RecordSet
  <2>5. said.attribute # NaN /\ said.attribute # None
    BY <2>2, SaidIsKnown
  <2> QED BY <2>3, <2>4, <2>5 DEF Known
<1>4. CASE partner = {}
  <2>1. said \notin records
    BY <1>2, <1>4 DEF Record
  <2> QED BY <1>4, <2>1
<1>5. CASE partner # {}
  <2> DEFINE r == CHOOSE r \in partner : TRUE
  <2>1. r \in partner
    BY <1>5
  <2>2. PICK v \in records : v.id = row.id /\ r.attribute = v.attribute
    BY <1>1, <2>1
  <2>3. Known(r) = Known(v)
    BY <2>2 DEF Known
  <2>4. said \in records => said = v
    <3>1. row.ne \in Names /\ payload.reply[row.ne] \in Replies(c, row.ne)
      BY FrameIs
    <3> QED BY <2>2, <3>1, ReplyIs DEF Record
  <2> QED BY <1>3, <1>5, <2>2, <2>3, <2>4
<1> QED BY <1>4, <1>5

-----------------------------------------------------------------------------
(* Patterns.                                                               *)

LEMMA HasSmallest ==
    ASSUME NEW S \in SUBSET Nat, S # {}
    PROVE  \E n \in S : \A m \in S : n <= m
<1> DEFINE R == {ss \in Nat \X Nat : ss[1] < ss[2]}
<1>1. IsWellFoundedOn(R, Nat)
  BY NatLessThanWellFounded DEF OpToRel
<1>2. PICK n \in S : \A m \in S : ~(<<m, n>> \in R)
  <2> HIDE DEF R
  <2> QED BY <1>1, WFMin
<1>3. ASSUME NEW m \in S PROVE n <= m
  <2>1. m \in Nat /\ n \in Nat
    OBVIOUS
  <2>2. m < n => <<m, n>> \in R
    BY <2>1
  <2> QED BY <1>2, <2>1, <2>2
<1> QED BY <1>3

LEMMA HasLargest ==
    ASSUME NEW M \in Nat, NEW S \in SUBSET (0..M), S # {}
    PROVE  \E n \in S : \A m \in S : m <= n
<1> DEFINE T == {M - n : n \in S}
<1>1. T \in SUBSET Nat /\ T # {}
  <2>1. \A n \in S : n \in 0..M
    OBVIOUS
  <2>2. \A n \in S : M - n \in Nat
    BY <2>1
  <2> QED BY <2>2
<1>2. PICK l \in T : \A j \in T : l <= j
  <2> HIDE DEF T
  <2> QED BY <1>1, HasSmallest
<1>3. PICK n \in S : l = M - n
  OBVIOUS
<1>4. ASSUME NEW m \in S PROVE m <= n
  <2>1. M - m \in T
    OBVIOUS
  <2>2. l <= M - m
    BY <1>2, <2>1
  <2> QED BY <1>3, <2>2
<1> QED BY <1>4

(* A prefix is equal as far as it goes. *)
LEMMA PrefixIs ==
    ASSUME NEW S, NEW s \in Seq(S), NEW t \in Seq(S)
    PROVE  IsPrefix(s, t) <=> Len(s) <= Len(t) /\ \A i \in 1..Len(s) : s[i] = t[i]
<1> DEFINE u == SubSeq(s, 1, Len(s))
           v == SubSeq(t, 1, Len(s))
<1>1. Len(s) \in Nat /\ Len(t) \in Nat
  OBVIOUS
<1>2. u = s
  BY SubSeqFull
<1>3. CASE Len(s) <= Len(t)
  <2>1. \A i \in 1..Len(s) : t[i] \in S
    BY <1>1, <1>3
  <2>2. v \in Seq(S) /\ Len(v) = Len(s) /\ \A i \in 1..Len(s) : v[i] = t[i]
    BY <1>1, <2>1, SubSeqProperties
  <2>3. s = v <=> \A i \in 1..Len(s) : s[i] = v[i]
    BY <2>2, SeqEqual
  <2> HIDE DEF u, v
  <2> QED BY <1>2, <1>3, <2>2, <2>3 DEF IsPrefix, u, v
<1>4. CASE ~(Len(s) <= Len(t))
  BY <1>4 DEF IsPrefix
<1> QED BY <1>3, <1>4

(* The common tokens are the longest prefix that all the names share.      *)
LEMMA CommonTokensAre ==
    ASSUME NEW S, NEW names \in SUBSET Seq(S), names # {}
    PROVE  /\ \A name \in names : IsPrefix(CommonTokens(names), name)
           /\ CommonTokens(names) = LongestCommonPrefix(names)
<1> DEFINE lengths == {Len(name) : name \in names}
           shortest == CHOOSE n \in lengths : \A name \in names : n <= Len(name)
           same(i) == \A v, w \in names : v[i] = w[i]
           run == {n \in 0..shortest : \A i \in 1..n : same(i)}
           one == CHOOSE name \in names : TRUE
           most == CHOOSE n \in run : \A m \in run : m <= n
           common == SubSeq(one, 1, most)
<1>1. CommonTokens(names) = common
  BY DEF CommonTokens
<1>2. /\ shortest \in Nat /\ shortest \in lengths
      /\ \A name \in names : shortest <= Len(name)
  <2>1. lengths \in SUBSET Nat /\ lengths # {}
    <3>1. \A name \in names : name \in Seq(S)
      OBVIOUS
    <3>2. \A name \in names : Len(name) \in Nat
      BY <3>1, LenProperties
    <3> QED BY <3>2
  <2>2. \E n \in lengths : \A m \in lengths : n <= m
    <3> HIDE DEF lengths
    <3> QED BY <2>1, HasSmallest
  <2>3. \E n \in lengths : \A name \in names : n <= Len(name)
    BY <2>2
  <2>4. shortest \in lengths /\ \A name \in names : shortest <= Len(name)
    <3> HIDE DEF lengths
    <3> QED BY <2>3
  <2> QED BY <2>1, <2>4
<1> HIDE DEF shortest
<1>3. most \in run /\ \A m \in run : m <= most
  <2>1. run \in SUBSET (0..shortest) /\ 0 \in run
    BY <1>2
  <2>2. \E n \in run : \A m \in run : m <= n
    <3> HIDE DEF run
    <3> QED BY <1>2, <2>1, HasLargest
  <2> HIDE DEF run
  <2> QED BY <2>2
<1> HIDE DEF most
<1>4. one \in names /\ one \in Seq(S)
  BY DEF one
<1> HIDE DEF one
<1>5. most \in Nat /\ \A name \in names : most <= Len(name) /\ Len(name) \in Nat
  BY <1>2, <1>3
<1>6. common \in Seq(S) /\ Len(common) = most /\ \A i \in 1..most : common[i] = one[i]
  <2>1. \A i \in 1..most : one[i] \in S
    BY <1>4, <1>5
  <2> QED BY <1>5, <2>1, SubSeqProperties
<1> HIDE DEF common
<1>7. \A name \in names : IsPrefix(common, name)
  BY <1>3, <1>4, <1>5, <1>6, PrefixIs
<1>8. common \in CommonPrefixes(names)
  <2>1. common \in Prefixes(one)
    BY <1>4, <1>5 DEF Prefixes, common
  <2> QED BY <1>4, <1>7, <2>1 DEF CommonPrefixes
<1>9. ASSUME NEW other \in CommonPrefixes(names)
      PROVE  other \in Seq(S) /\ Len(other) <= most /\ (Len(other) = most => other = common)
  <2>1. PICK seq \in names : \E l \in 0..Len(seq) : other = SubSeq(seq, 1, l)
    BY DEF CommonPrefixes, Prefixes
  <2>2. other \in Seq(S) /\ Len(other) \in Nat
    <3>1. PICK l \in 0..Len(seq) : other = SubSeq(seq, 1, l)
      BY <2>1
    <3>2. \A i \in 1..l : seq[i] \in S
      OBVIOUS
    <3> QED BY <3>1, <3>2, SubSeqProperties
  <2>3. \A t \in names : IsPrefix(other, t)
    BY DEF CommonPrefixes
  <2>4. \A t \in names : Len(other) <= Len(t) /\ \A i \in 1..Len(other) : other[i] = t[i]
    BY <2>2, <2>3, PrefixIs
  <2>5. Len(other) <= shortest
    <3>1. PICK t \in names : shortest = Len(t)
      BY <1>2
    <3> QED BY <2>4, <3>1
  <2>6. Len(other) \in run
    BY <2>2, <2>4, <2>5, <1>2
  <2>7. Len(other) <= most
    BY <1>3, <2>6
  <2>8. Len(other) = most => other = common
    BY <1>4, <1>6, <2>2, <2>4, SeqEqual
  <2> QED BY <2>2, <2>7, <2>8
<1>10. LongestCommonPrefix(names) = common
  <2> DEFINE longest == CHOOSE longest \in CommonPrefixes(names) :
                            \A other \in CommonPrefixes(names) : Len(other) <= Len(longest)
  <2>1. \A other \in CommonPrefixes(names) : Len(other) <= Len(common)
    BY <1>6, <1>9
  <2>2. /\ longest \in CommonPrefixes(names)
        /\ \A other \in CommonPrefixes(names) : Len(other) <= Len(longest)
    BY <1>8, <2>1
  <2>3. LongestCommonPrefix(names) = longest
    BY DEF LongestCommonPrefix
  <2> HIDE DEF longest
  <2>4. Len(longest) = most
    <3>1. Len(longest) <= most /\ most <= Len(longest) /\ Len(longest) \in Nat
      BY <1>6, <1>8, <1>9, <2>2
    <3> QED BY <3>1, <1>5
  <2> QED BY <1>9, <2>2, <2>3, <2>4
<1> QED BY <1>1, <1>7, <1>10

(* The pattern begins every name, and more than one name have no longer    *)
(* beginning in common.                                                    *)
LEMMA PatternIs ==
    ASSUME NEW names \in SUBSET CellNames, IsFiniteSet(names), Pattern(names) # <<>>
    PROVE  /\ \A name \in names : IsPrefix(Pattern(names), name)
           /\ Cardinality(names) > 1 => Pattern(names) = LongestCommonPrefix(names)
<1>1. names \in SUBSET Seq(STRING) /\ None \notin names
  BY CellNamesAssumption
<1>2. names # {}
  <2>1. Cardinality({}) = 0 /\ Pattern({}) = <<>>
    BY FS_EmptySet DEF Pattern
  <2> QED BY <2>1
<1>3. CASE Cardinality(names) = 1
  <2>1. PICK name : names = {name}
    BY <1>3, FS_Singleton
  <2>2. name \in Seq(STRING) /\ Len(name) > 0 /\ Len(name) \in Nat
    BY <1>1, <2>1 DEF None
  <2>3. Pattern(names) = <<name[1]>>
    BY <1>2, <1>3, <2>1 DEF Pattern
  <2>4. <<name[1]>> \in Seq(STRING)
    BY <2>2
  <2>5. IsPrefix(<<name[1]>>, name)
    <3> DEFINE first == <<name[1]>>
    <3>1. Len(first) = 1 /\ first[1] = name[1]
      OBVIOUS
    <3> HIDE DEF first
    <3>2. \A i \in 1..Len(first) : first[i] = name[i]
      BY <3>1
    <3>3. first \in Seq(STRING) /\ Len(first) <= Len(name)
      BY <2>2, <2>4, <3>1 DEF first
    <3>4. IsPrefix(first, name)
      BY <2>2, <3>2, <3>3, PrefixIs
    <3> QED BY <3>4 DEF first
  <2> QED BY <1>3, <2>1, <2>3, <2>5
<1>4. CASE Cardinality(names) # 1
  <2>1. Pattern(names) = CommonTokens(names)
    BY <1>2, <1>4 DEF Pattern
  <2> QED BY <1>1, <1>2, <2>1, CommonTokensAre
<1> QED BY <1>3, <1>4

-----------------------------------------------------------------------------
(* The steps.                                                              *)

(* What the answer to the c-th command says of a row's cell. *)
CellSaid(payload, c, row) ==
    LET said == Record(row.id, Said(c, row.ne, row.id))
    IN  IF said \in payload.reply[row.ne].records THEN said.attribute ELSE None

Odd(p) == \E ne \in DOMAIN p.reply : \E r \in p.reply[ne].records :
              r.id = NoKey \/ r.attribute = NaN

LEMMA IndInit == Init => IInv
<1> SUFFICES ASSUME Init PROVE IInv
  OBVIOUS
<1>1. requested \in Seq(Names)
  <2>1. CASE technology = "UMTS"
    BY <2>1, NamesAssumption, OrderIs DEF Init
  <2>2. CASE technology # "UMTS"
    BY <2>2, RequestsAssumption DEF Init
  <2> QED BY <2>1, <2>2
<1>2. rows \in [DOMAIN rows -> RowSet] /\ DOMAIN rows = {} /\ Len(payloads) = 0
  BY DEF Init
<1>3. TypeOK
  BY <1>1, <1>2 DEF Init, TypeOK, Phases
<1>4. PayloadsInv /\ RowsInv /\ CoverInv /\ AnswerInv /\ PatternInv
  BY <1>2 DEF Init, PayloadsInv, RowsInv, CoverInv, AnswerInv, PatternInv
<1>5. AttributesAreOfTheCell /\ SummaryCrashIsExplained
  BY <1>2 DEF Init, AttributesAreOfTheCell, SummaryCrashIsExplained, Range
<1> QED BY <1>3, <1>4, <1>5 DEF IInv

(* What an element may reply depends on nothing that changes. *)
LEMMA SameReplies ==
    ASSUME technology' = technology, NEW c, NEW ne
    PROVE  Replies(c, ne)' = Replies(c, ne)
BY DEF Replies, Tables, Sayings

LEMMA Appended ==
    ASSUME TypeOK, PayloadsInv, NEW payload \in Payloads(k),
           payloads' = Append(payloads, payload), technology' = technology
    PROVE  /\ k \in Nat /\ k = Len(payloads) + 1 /\ Len(payloads) \in Nat
           /\ payload \in PayloadSet /\ PayloadOK(payload, k)
           /\ ToSet(payload.results) = ToSet(requested)
           /\ payloads' \in Seq(PayloadSet) /\ payloads' # <<>>
           /\ Len(payloads') = k /\ payloads'[k] = payload
           /\ \A c \in 1..Len(payloads) : payloads'[c] = payloads[c]
           /\ \A p \in ToSet(payloads) : p \in ToSet(payloads')
           /\ payload \in ToSet(payloads')
           /\ PayloadsInv'
<1>1. k \in Nat /\ k = Len(payloads) + 1 /\ Len(payloads) \in Nat
  BY DEF k, TypeOK
<1>2. /\ payload \in PayloadSet /\ PayloadOK(payload, k)
      /\ ToSet(payload.results) = ToSet(requested)
  BY PayloadIs
<1>3. /\ payloads' \in Seq(PayloadSet) /\ Len(payloads') = k /\ payloads'[k] = payload
      /\ \A c \in 1..Len(payloads) : payloads'[c] = payloads[c]
  BY <1>1, <1>2 DEF TypeOK
<1>4. payloads' # <<>>
  BY <1>1, <1>3
<1>5. DOMAIN payloads = 1..Len(payloads) /\ DOMAIN payloads' = 1..k
  BY <1>1, <1>3 DEF TypeOK
<1>6. (\A p \in ToSet(payloads) : p \in ToSet(payloads')) /\ payload \in ToSet(payloads')
  BY <1>1, <1>3, <1>5 DEF ToSet
<1>7. \A c \in 1..k : PayloadOK(payloads'[c], c)
  BY <1>1, <1>2, <1>3 DEF PayloadsInv
<1>8. PayloadsInv'
  <2>1. \A c \in 1..k :
          /\ ToSet(payloads'[c].results) \subseteq DOMAIN payloads'[c].reply
          /\ \A ne \in DOMAIN payloads'[c].reply : payloads'[c].reply[ne] \in Replies(c, ne)'
    BY <1>7, SameReplies DEF PayloadOK
  <2> QED BY <1>3, <2>1 DEF PayloadsInv, PayloadOK
<1> QED BY <1>1, <1>2, <1>3, <1>4, <1>6, <1>8

(* A command's answer that ends the summary without joining its table.     *)
LEMMA KeepStop ==
    ASSUME IInv, phase = "running", NEW payload \in Payloads(k),
           payloads' = Append(payloads, payload),
           UNCHANGED <<technology, requested, rows, pattern>>,
           phase' \in {"answered", "failed", "crashed"},
           phase' = "answered" =>
              /\ technology = "UMTS" /\ k = 1
              /\ \A ne \in ToSet(payload.results) : payload.reply[ne].error,
           phase' = "crashed" => \E p \in ToSet(payloads') : Repeats(p) \/ Odd(p)
    PROVE  IInv'
<1>0. TypeOK /\ PayloadsInv /\ RowsInv /\ CoverInv /\ PatternInv /\ AttributesAreOfTheCell
  BY DEF IInv
<1>1. /\ k \in Nat /\ k = Len(payloads) + 1 /\ Len(payloads) \in Nat
      /\ ToSet(payload.results) = ToSet(requested)
      /\ payloads' \in Seq(PayloadSet) /\ payloads' # <<>>
      /\ Len(payloads') = k /\ payloads'[k] = payload
      /\ \A c \in 1..Len(payloads) : payloads'[c] = payloads[c]
      /\ PayloadsInv'
  BY <1>0, Appended
<1>2. TypeOK'
  BY <1>0, <1>1 DEF TypeOK, Phases
<1>3. /\ DOMAIN rows # {} => payloads # <<>> /\ Len(payloads) > 0 /\ payloads'[1] = payloads[1]
      /\ k = 1 => DOMAIN rows = {} /\ payloads'[1] = payload
  <2>1. payloads # <<>> => Len(payloads) > 0
    BY <1>0 DEF TypeOK
  <2> QED BY <1>0, <1>1, <2>1 DEF RowsInv
<1>4. RowsInv'
  <2>1. DOMAIN rows # {} => DOMAIN rows = Places(payloads'[1])
    BY <1>0, <1>3 DEF RowsInv
  <2>2. \A p \in DOMAIN rows :
          /\ rows[p].ne = payloads'[1].results[p[1]] /\ rows[p].id = p[2].id
          /\ Len(rows[p].attributes) \in 1..k
          /\ rows[p].attributes[1] = Known(p[2])
    BY <1>0, <1>1, <1>3 DEF RowsInv
  <2> QED BY <1>1, <2>1, <2>2 DEF RowsInv, Places, Known
<1>5. CoverInv'
  <2>1. \A p \in DOMAIN rows : \A c \in 1..k : rows[p].ne \in ToSet(payloads'[c].results)
    BY <1>0, <1>1 DEF CoverInv
  <2> QED BY <1>1, <2>1 DEF CoverInv, ToSet
<1>6. AnswerInv'
  BY <1>1, <1>3 DEF AnswerInv, ToSet
<1>7. PatternInv'
  <2>1. FirstNames' = FirstNames
    BY DEF FirstNames
  <2> QED BY <1>0, <1>1, <2>1 DEF PatternInv
<1>8. AttributesAreOfTheCell'
  <2>1. \A row \in Range(rows) : \A c \in 2..Len(row.attributes) : payloads'[c] = payloads[c]
    BY <1>0, <1>1 DEF RowsInv, Range
  <2>2. \A row \in Range(rows) : \A c \in 2..Len(row.attributes) :
          row.attributes[c] = CellSaid(payloads'[c], c, row)
    BY <1>0, <2>1 DEF AttributesAreOfTheCell, CellSaid
  <2> QED BY <2>2 DEF AttributesAreOfTheCell, CellSaid
<1>9. SummaryCrashIsExplained'
  BY DEF SummaryCrashIsExplained, Repeats, Odd, ToSet
<1> QED BY <1>1, <1>2, <1>4, <1>5, <1>6, <1>7, <1>8, <1>9 DEF IInv

(* A reply has finitely many records, so a frame has finitely many rows.   *)
LEMMA PlacesAreFinite ==
    ASSUME NEW payload \in PayloadSet, NEW c \in Nat, PayloadOK(payload, c)
    PROVE  IsFiniteSet(Places(payload))
<1> DEFINE results == payload.results
           cells == [i \in DOMAIN results |-> {i} \X payload.reply[results[i]].records]
<1>1. results \in Seq(Names) /\ IsFiniteSet(DOMAIN results)
  <2>1. results \in Seq(Names)
    BY DEF PayloadSet
  <2>2. DOMAIN results = 1..Len(results) /\ Len(results) \in Nat
    BY <2>1
  <2> QED BY <2>1, <2>2, FS_Interval
<1>2. \A i \in DOMAIN results : IsFiniteSet(cells[i])
  <2> SUFFICES ASSUME NEW i \in DOMAIN results PROVE IsFiniteSet(cells[i])
    OBVIOUS
  <2>1. results[i] \in ToSet(results)
    BY DEF ToSet
  <2>2. results[i] \in Names /\ payload.reply[results[i]] \in Replies(c, results[i])
    BY <2>1, FrameIs
  <2>3. IsFiniteSet(payload.reply[results[i]].records) /\ IsFiniteSet({i})
    BY <2>2, ReplyIs, FS_Singleton
  <2>4. IsFiniteSet({i} \X payload.reply[results[i]].records)
    BY <2>3, FS_Product
  <2> QED BY <2>4
<1>3. IsFiniteSet({cells[i] : i \in DOMAIN cells})
  BY <1>1, RangeIsFinite
<1>4. IsFiniteSet(UNION {cells[i] : i \in DOMAIN cells})
  <2> DEFINE family == {cells[i] : i \in DOMAIN cells}
  <2>1. \A T \in family : IsFiniteSet(T)
    BY <1>2
  <2> HIDE DEF family
  <2>2. IsFiniteSet(UNION family)
    BY <1>3, <2>1, FS_UNION DEF family
  <2> QED BY <2>2 DEF family
<1>5. Places(payload) = UNION {cells[i] : i \in DOMAIN cells}
  BY DEF Places
<1> QED BY <1>4, <1>5

LEMMA RowIs ==
    ASSUME NEW ne \in Names, NEW id \in Nat, NEW attributes \in Seq(Told)
    PROVE  [ne |-> ne, id |-> id, attributes |-> attributes] \in RowSet
BY DEF RowSet

(* The first table makes the rows. *)
LEMMA KeepFirst ==
    ASSUME IInv, phase = "running", NEW payload \in Payloads(k), k = 1,
           payloads' = Append(payloads, payload), UNCHANGED technology,
           HasKey(Frame(payload)), FirstTable(Frame(payload), payload),
           phase' = "running"
    PROVE  IInv'
<1> DEFINE frame == Frame(payload)
           names == {row.attribute : row \in Range(frame)} \ {None}
<1>0. TypeOK /\ PayloadsInv /\ PatternInv
  BY DEF IInv
<1>1. /\ k \in Nat /\ Len(payloads) = 0 /\ payloads = <<>>
      /\ payload \in PayloadSet /\ PayloadOK(payload, 1)
      /\ ToSet(payload.results) = ToSet(requested)
      /\ payloads' \in Seq(PayloadSet) /\ payloads' # <<>>
      /\ Len(payloads') = 1 /\ payloads'[1] = payload
      /\ PayloadsInv'
  <2>1. Len(payloads) = 0 => payloads = <<>>
    BY <1>0 DEF TypeOK
  <2> QED BY <1>0, <2>1, Appended
<1>2. rows' = Firsts(frame)
  BY <1>1 DEF FirstTable, FirstUmtsTable
<1>3. DOMAIN rows' = Places(payload) /\ Places(payload) # {} /\ DOMAIN frame = Places(payload)
  <2>1. DOMAIN frame = Places(payload) /\ DOMAIN rows' = DOMAIN frame
    BY <1>1, <1>2, FrameIs DEF Firsts
  <2>2. DOMAIN frame # {}
    BY DEF HasKey, Range
  <2> QED BY <2>1, <2>2
<1>4. \A p \in Places(payload) :
         /\ rows'[p] = [ne |-> frame[p].ne, id |-> frame[p].id, attributes |-> <<Known(frame[p])>>]
         /\ frame[p].ne = payload.results[p[1]] /\ frame[p].id = p[2].id
         /\ Known(frame[p]) = Known(p[2])
         /\ Known(frame[p]) \in Told /\ frame[p].ne \in Names /\ frame[p].id \in Nat
  <2> SUFFICES ASSUME NEW p \in Places(payload)
               PROVE  /\ rows'[p] = [ne |-> frame[p].ne, id |-> frame[p].id,
                                      attributes |-> <<Known(frame[p])>>]
                      /\ frame[p].ne = payload.results[p[1]] /\ frame[p].id = p[2].id
                      /\ Known(frame[p]) = Known(p[2])
                      /\ Known(frame[p]) \in Told /\ frame[p].ne \in Names /\ frame[p].id \in Nat
    OBVIOUS
  <2>1. rows'[p] = [ne |-> frame[p].ne, id |-> frame[p].id, attributes |-> <<Known(frame[p])>>]
    BY <1>2, <1>3 DEF Firsts
  <2>2. /\ frame[p].ne = payload.results[p[1]] /\ frame[p].id = p[2].id
        /\ frame[p].attribute = p[2].attribute
        /\ payload.results[p[1]] \in Names /\ p[2] \in RecordSet
    BY <1>1, FrameIs
  <2>3. Known(frame[p]) = Known(p[2]) /\ Known(p[2]) \in Told
    BY <2>2 DEF Known, RecordSet, Told
  <2> QED BY <2>1, <2>2, <2>3 DEF RecordSet
<1>5. \A p \in Places(payload) :
         /\ rows'[p] \in RowSet
         /\ rows'[p].ne = payload.results[p[1]] /\ rows'[p].id = p[2].id
         /\ Len(rows'[p].attributes) = 1 /\ rows'[p].attributes[1] = Known(p[2])
  <2> SUFFICES ASSUME NEW p \in Places(payload)
               PROVE  /\ rows'[p] \in RowSet
                      /\ rows'[p].ne = payload.results[p[1]] /\ rows'[p].id = p[2].id
                      /\ Len(rows'[p].attributes) = 1 /\ rows'[p].attributes[1] = Known(p[2])
    OBVIOUS
  <2> DEFINE known == Known(frame[p])
             row == rows'[p]
  <2>1. <<known>> \in Seq(Told) /\ Len(<<known>>) = 1 /\ <<known>>[1] = known
    BY <1>4, OneElement
  <2>2. row = [ne |-> frame[p].ne, id |-> frame[p].id, attributes |-> <<known>>]
    BY <1>4
  <2>3. row.ne = frame[p].ne /\ row.id = frame[p].id /\ row.attributes = <<known>>
    BY <2>2
  <2>4. row \in RowSet
    BY <1>4, <2>1, <2>2, RowIs
  <2>5. known = Known(p[2])
    BY <1>4
  <2>6. Len(row.attributes) = 1 /\ row.attributes[1] = Known(p[2])
    BY <2>1, <2>3, <2>5
  <2> HIDE DEF row
  <2> QED BY <1>4, <2>3, <2>4, <2>6 DEF row
<1>6. requested' \in Seq(Names) /\ \A p \in Places(payload) : rows'[p].ne \in ToSet(requested')
  <2>1. CASE technology # "UMTS"
    <3>1. requested' = requested
      BY <2>1 DEF FirstTable
    <3> QED BY <1>0, <1>1, <1>5, <3>1, FrameIs DEF TypeOK
  <2>2. CASE technology = "UMTS"
    <3>1. requested' \in SetToSeqs(Matched(payload))
      BY <1>3, <2>2 DEF FirstTable, FirstUmtsTable
    <3>2. Matched(payload) \subseteq Names
      BY <1>1, FrameIs DEF Matched
    <3>3. IsFiniteSet(Matched(payload))
      BY <3>2, NamesAssumption, FS_Subset
    <3>4. requested' \in Seq(Names) /\ ToSet(requested') = Matched(payload)
      BY <3>1, <3>2, <3>3, OrderIs, SeqMonotonic
    <3>5. \A p \in Places(payload) : ~payload.reply[payload.results[p[1]]].error
      BY <1>1, FrameIs, ReplyIs
    <3>6. \A p \in Places(payload) : payload.results[p[1]] \in Matched(payload)
      BY <1>1, <3>5, FrameIs DEF Matched
    <3> QED BY <1>5, <3>4, <3>6
  <2> QED BY <2>1, <2>2
<1>7. TypeOK'
  <2>1. rows' = [p \in Places(payload) |-> rows'[p]]
    BY <1>2, <1>3 DEF Firsts
  <2>2. rows' \in [DOMAIN rows' -> RowSet]
    BY <1>3, <1>5, <2>1
  <2> QED BY <1>0, <1>1, <1>6, <2>2 DEF TypeOK, Phases
<1>8. RowsInv'
  BY <1>1, <1>3, <1>5 DEF RowsInv, Places, Known
<1>9. CoverInv'
  BY <1>1, <1>3, <1>5, <1>6, FrameIs DEF CoverInv, ToSet
<1>10. PatternInv'
  <2>1. CASE technology # "UMTS"
    BY <1>0, <1>1, <2>1 DEF FirstTable, PatternInv
  <2>2. CASE technology = "UMTS"
    <3>1. NaN \notin names /\ pattern' = Pattern(names)
      BY <1>3, <2>2 DEF FirstTable, FirstUmtsTable
    <3>2. NaN # None
      BY DEF NaN, None
    <3>3. \A p \in Places(payload) : frame[p].attribute # NaN /\ Known(frame[p]) = frame[p].attribute
      BY <1>3, <3>1, <3>2 DEF Range, Known
    <3>4. \A p \in Places(payload) : rows'[p].attributes[1] = frame[p].attribute
      BY <1>4, <1>5, <3>3
    <3>5. FirstNames' = names
      BY <1>3, <3>4 DEF FirstNames, Range
    <3>6. names \subseteq CellNames
      <4> SUFFICES ASSUME NEW p \in Places(payload), frame[p].attribute # None
                   PROVE  frame[p].attribute \in CellNames
        BY <1>3 DEF Range
      <4>1. /\ payload.results[p[1]] \in Names
            /\ payload.reply[payload.results[p[1]]] \in Replies(1, payload.results[p[1]])
            /\ p[2] \in payload.reply[payload.results[p[1]]].records
            /\ frame[p].attribute = p[2].attribute
        BY <1>1, FrameIs
      <4>2. p[2].attribute = None \/ p[2].attribute = NaN
            \/ p[2].attribute \in Sayings(1, payload.results[p[1]], p[2].id)
        BY <4>1, ReplyIs
      <4> QED BY <2>2, <3>3, <4>1, <4>2 DEF Sayings
    <3>7. IsFiniteSet(names)
      <4> DEFINE told == [p \in Places(payload) |-> frame[p].attribute]
      <4>1. IsFiniteSet({told[p] : p \in DOMAIN told})
        BY <1>1, PlacesAreFinite, RangeIsFinite
      <4>2. names \subseteq {told[p] : p \in DOMAIN told}
        BY <1>3 DEF Range
      <4> HIDE DEF names, told
      <4> QED BY <4>1, <4>2, FS_Subset
    <3> QED BY <1>1, <3>1, <3>5, <3>6, <3>7 DEF PatternInv
  <2> QED BY <2>1, <2>2
<1>11. AttributesAreOfTheCell'
  BY <1>3, <1>5 DEF AttributesAreOfTheCell, Range
<1>12. AnswerInv' /\ SummaryCrashIsExplained'
  BY DEF AnswerInv, SummaryCrashIsExplained
<1> QED BY <1>1, <1>7, <1>8, <1>9, <1>10, <1>11, <1>12 DEF IInv

(* A later table adds one attribute to every row. *)
LEMMA KeepJoin ==
    ASSUME IInv, phase = "running", NEW payload \in Payloads(k), k > 1,
           payloads' = Append(payloads, payload), UNCHANGED <<technology, requested, pattern>>,
           UniqueKeys(Frame(payload)), rows' = Joined(rows, Frame(payload)),
           phase' \in {"running", "answered"}
    PROVE  IInv'
<1> DEFINE frame == Frame(payload)
           added(p) == LET partner == Matches(rows[p], frame)
                       IN  IF partner = {} THEN None ELSE Known(CHOOSE r \in partner : TRUE)
<1>0. TypeOK /\ PayloadsInv /\ RowsInv /\ CoverInv /\ PatternInv /\ AttributesAreOfTheCell
  BY DEF IInv
<1>1. /\ k \in Nat /\ k = Len(payloads) + 1 /\ Len(payloads) \in Nat
      /\ payload \in PayloadSet /\ PayloadOK(payload, k)
      /\ ToSet(payload.results) = ToSet(requested)
      /\ payloads' \in Seq(PayloadSet) /\ payloads' # <<>>
      /\ Len(payloads') = k /\ payloads'[k] = payload
      /\ \A c \in 1..Len(payloads) : payloads'[c] = payloads[c]
      /\ PayloadsInv'
  BY <1>0, Appended
<1>2. Len(payloads) >= 1 /\ payloads # <<>> /\ payloads'[1] = payloads[1]
  BY <1>1
<1>3. DOMAIN rows # {} /\ DOMAIN rows = Places(payloads[1])
  BY <1>0, <1>2 DEF RowsInv
<1>4. rows' = [p \in DOMAIN rows |->
                  [rows[p] EXCEPT !.attributes = Append(rows[p].attributes, added(p))]]
  BY DEF Joined
<1>5. \A p \in DOMAIN rows :
         /\ rows[p] \in RowSet /\ rows[p].ne \in ToSet(payload.results)
         /\ rows[p].attributes \in Seq(Told) /\ Len(rows[p].attributes) = Len(payloads)
  BY <1>0, <1>1 DEF TypeOK, RowsInv, CoverInv, RowSet
<1>6. ASSUME NEW p \in DOMAIN rows
      PROVE  added(p) = CellSaid(payload, k, rows[p]) /\ added(p) \in Told
  <2>1. added(p) = CellSaid(payload, k, rows[p])
    BY <1>1, <1>5, PartnerIs DEF CellSaid
  <2>2. rows[p].ne \in Names /\ payload.reply[rows[p].ne] \in ReplySet
    BY <1>1, <1>5, FrameIs
  <2>3. \A v \in payload.reply[rows[p].ne].records : v.attribute \in Told
    BY <2>2 DEF ReplySet, RecordSet
  <2>4. CellSaid(payload, k, rows[p]) \in Told
    BY <2>3 DEF CellSaid, Told
  <2> QED BY <2>1, <2>4
<1> HIDE DEF added
<1>7. ASSUME NEW p \in DOMAIN rows
      PROVE  /\ rows'[p] \in RowSet
             /\ rows'[p].ne = rows[p].ne /\ rows'[p].id = rows[p].id
             /\ rows'[p].attributes = Append(rows[p].attributes, added(p))
  <2> DEFINE attributes == Append(rows[p].attributes, added(p))
  <2>1. attributes \in Seq(Told)
    BY <1>5, <1>6
  <2> HIDE DEF attributes
  <2>2. rows'[p] = [rows[p] EXCEPT !.attributes = attributes]
    BY <1>4 DEF attributes
  <2> QED BY <1>5, <2>1, <2>2 DEF RowSet, attributes
<1>8. ASSUME NEW p \in DOMAIN rows
      PROVE  /\ Len(rows'[p].attributes) = k /\ rows'[p].attributes[k] = added(p)
             /\ \A c \in 1..Len(payloads) : rows'[p].attributes[c] = rows[p].attributes[c]
  <2> DEFINE s == rows[p].attributes
  <2>1. s \in Seq(Told) /\ Len(s) = Len(payloads) /\ rows'[p].attributes = Append(s, added(p))
    BY <1>5, <1>7
  <2> HIDE DEF s
  <2>2. /\ Len(rows'[p].attributes) = k /\ rows'[p].attributes[k] = added(p)
        /\ \A c \in 1..Len(payloads) : rows'[p].attributes[c] = s[c]
    BY <1>1, <1>6, <2>1
  <2> QED BY <2>2 DEF s
<1>9. DOMAIN rows' = DOMAIN rows
  BY <1>4
<1>10. TypeOK'
  <2>1. rows' = [p \in DOMAIN rows |-> rows'[p]]
    BY <1>4
  <2>2. rows' \in [DOMAIN rows' -> RowSet]
    BY <1>7, <1>9, <2>1
  <2> QED BY <1>0, <1>1, <2>2 DEF TypeOK, Phases
<1>11. RowsInv'
  <2>1. \A p \in DOMAIN rows' :
          /\ rows'[p].ne = payloads'[1].results[p[1]] /\ rows'[p].id = p[2].id
          /\ Len(rows'[p].attributes) = k
          /\ rows'[p].attributes[1] = Known(p[2])
    BY <1>0, <1>2, <1>7, <1>8, <1>9 DEF RowsInv
  <2>2. DOMAIN rows' = Places(payloads'[1])
    BY <1>2, <1>3, <1>9
  <2>3. k \in 1..k
    BY <1>1
  <2>4. \A p \in DOMAIN rows' : Len(rows'[p].attributes) \in 1..k
    BY <2>1, <2>3
  <2>5. DOMAIN rows' # {}
    BY <1>3, <1>9
  <2> QED BY <1>1, <2>1, <2>2, <2>4, <2>5 DEF RowsInv
<1>12. CoverInv'
  <2>1. \A p \in DOMAIN rows' : \A c \in 1..k : rows'[p].ne \in ToSet(payloads'[c].results)
    BY <1>0, <1>1, <1>5, <1>7, <1>9 DEF CoverInv
  <2>2. \A p \in DOMAIN rows' : rows'[p].ne \in ToSet(requested')
    BY <1>1, <1>5, <1>7, <1>9
  <2> QED BY <1>1, <2>1, <2>2 DEF CoverInv, ToSet
<1>13. AnswerInv' /\ SummaryCrashIsExplained'
  BY <1>1, <1>3, <1>9 DEF AnswerInv, SummaryCrashIsExplained
<1>14. PatternInv'
  <2>1. FirstNames' = FirstNames
    BY <1>1, <1>2, <1>8, <1>9 DEF FirstNames, Range
  <2> QED BY <1>0, <1>1, <1>2, <2>1 DEF PatternInv
<1>15. AttributesAreOfTheCell'
  <2>1. ASSUME NEW p \in DOMAIN rows, NEW c \in 2..k
        PROVE  rows'[p].attributes[c] = CellSaid(payloads'[c], c, rows'[p])
    <3>1. CASE c = k
      BY <1>1, <1>6, <1>7, <1>8, <3>1 DEF CellSaid
    <3>2. CASE c # k
      <4>1. c \in 2..Len(payloads) /\ rows[p] \in Range(rows)
        BY <1>1, <3>2 DEF Range
      <4>2. rows[p].attributes[c] = CellSaid(payloads[c], c, rows[p])
        BY <1>0, <1>5, <4>1 DEF AttributesAreOfTheCell, CellSaid
      <4> QED BY <1>1, <1>7, <1>8, <4>1, <4>2 DEF CellSaid
    <3> QED BY <3>1, <3>2
  <2>2. \A row \in Range(rows') : \A c \in 2..Len(row.attributes) :
          row.attributes[c] = CellSaid(payloads'[c], c, row)
    <3> SUFFICES ASSUME NEW row \in Range(rows'), NEW c \in 2..Len(row.attributes)
                 PROVE  row.attributes[c] = CellSaid(payloads'[c], c, row)
      OBVIOUS
    <3>1. PICK p \in DOMAIN rows : row = rows'[p]
      BY <1>9 DEF Range
    <3>2. c \in 2..k
      BY <1>8, <3>1
    <3> QED BY <2>1, <3>1, <3>2
  <2> QED BY <2>2 DEF AttributesAreOfTheCell, CellSaid
<1> QED BY <1>1, <1>10, <1>11, <1>12, <1>13, <1>14, <1>15 DEF IInv

(* _execute_mml raises: no answer of an earlier command is left unjoined.  *)
LEMMA KeepFails == IInv /\ CommandFails => IInv'
<1> SUFFICES ASSUME IInv, CommandFails PROVE IInv'
  OBVIOUS
<1>0. /\ TypeOK /\ PayloadsInv /\ RowsInv /\ CoverInv /\ PatternInv /\ AttributesAreOfTheCell
      /\ phase = "running" /\ phase' \in {"rejected", "failed", "crashed"}
      /\ UNCHANGED <<technology, requested, payloads, rows, pattern>>
  BY DEF IInv, CommandFails
<1>1. TypeOK'
  BY <1>0 DEF TypeOK, Phases
<1>2. PayloadsInv'
  <2>1. \A c \in 1..Len(payloads') :
          /\ ToSet(payloads'[c].results) \subseteq DOMAIN payloads'[c].reply
          /\ \A ne \in DOMAIN payloads'[c].reply : payloads'[c].reply[ne] \in Replies(c, ne)'
    BY <1>0, SameReplies DEF PayloadsInv, PayloadOK
  <2> QED BY <2>1 DEF PayloadsInv, PayloadOK
<1>3. RowsInv' /\ CoverInv'
  BY <1>0 DEF RowsInv, CoverInv, Places, Known, ToSet
<1>4. AnswerInv'
  BY <1>0 DEF AnswerInv
<1>5. PatternInv'
  <2>1. FirstNames' = FirstNames
    BY <1>0 DEF FirstNames
  <2> QED BY <1>0, <2>1 DEF PatternInv
<1>6. AttributesAreOfTheCell'
  BY <1>0 DEF AttributesAreOfTheCell
<1>7. SummaryCrashIsExplained'
  <2>1. payloads # <<>> => \E row \in Range(rows) : Len(row.attributes) = Len(payloads)
    BY <1>0 DEF RowsInv, Range
  <2> QED BY <1>0, <2>1 DEF SummaryCrashIsExplained
<1> QED BY <1>1, <1>2, <1>3, <1>4, <1>5, <1>6, <1>7 DEF IInv

LEMMA OddRow ==
    ASSUME NEW payload \in PayloadSet, NEW c \in Nat, PayloadOK(payload, c),
           NEW row \in Range(Frame(payload)), row.attribute = NaN
    PROVE  Odd(payload)
<1>1. PICK p \in Places(payload) : row = Frame(payload)[p]
  BY FrameIs DEF Range
<1> DEFINE ne == payload.results[p[1]]
<1>2. ne \in DOMAIN payload.reply /\ p[2] \in payload.reply[ne].records /\ p[2].attribute = NaN
  BY <1>1, FrameIs
<1> HIDE DEF ne
<1> QED BY <1>2 DEF Odd

(* A merge is refused only when an element has two results. *)
LEMMA RefusedMerge ==
    ASSUME IInv, NEW payload \in PayloadSet, PayloadOK(payload, k), k > 1,
           ~MergeIsValid(rows, Frame(payload))
    PROVE  Repeats(payload) \/ Repeats(payloads[1])
<1>0. TypeOK /\ PayloadsInv /\ RowsInv /\ k \in Nat /\ k = Len(payloads) + 1 /\ Len(payloads) \in Nat
  BY DEF IInv, TypeOK, k
<1>1. CASE ~UniqueKeys(Frame(payload))
  BY <1>0, <1>1, UnrepeatedKeys
<1>2. CASE ~UniqueKeys(rows)
  <2>1. PICK p \in DOMAIN rows, q \in DOMAIN rows : p # q /\ Key(rows[p]) = Key(rows[q])
    BY <1>2 DEF UniqueKeys
  <2>2. rows[p].ne = rows[q].ne /\ rows[p].id = rows[q].id
    BY <2>1 DEF Key
  <2>3. p \in Places(payloads[1]) /\ q \in Places(payloads[1])
    BY <1>0, <2>1 DEF RowsInv
  <2>4. payloads[1].results[p[1]] = payloads[1].results[q[1]] /\ p[2].id = q[2].id
    BY <1>0, <2>2 DEF RowsInv
  <2>5. payloads[1] \in PayloadSet /\ PayloadOK(payloads[1], 1)
    BY <1>0 DEF TypeOK, PayloadsInv
  <2> QED BY <2>1, <2>3, <2>4, <2>5, DuplicateIsRepeated
<1> QED BY <1>1, <1>2 DEF MergeIsValid

LEMMA KeepAnswered == IInv /\ CommandAnswered => IInv'
<1> SUFFICES ASSUME IInv, CommandAnswered PROVE IInv'
  OBVIOUS
<1> DEFINE nobody(p) == technology = "UMTS" /\ k = 1 /\ Matched(p) = {}
           names(p) == {row.attribute : row \in Range(Frame(p))} \ {None}
<1>1. PICK payload \in Payloads(k) :
          /\ payloads' = Append(payloads, payload)
          /\ \/ nobody(payload) /\ phase' = "answered" /\ UNCHANGED <<requested, rows, pattern>>
             \/ ~nobody(payload) /\ TableLacks(Frame(payload)) /\ UNCHANGED <<requested, rows, pattern>>
             \/ Complete(Frame(payload)) /\ k = 1 /\ FirstTable(Frame(payload), payload)
             \/ Complete(Frame(payload)) /\ k > 1 /\ NextTable(Frame(payload))
  BY DEF CommandAnswered
<1>2. phase = "running" /\ UNCHANGED technology
  BY DEF CommandAnswered
<1>3. /\ TypeOK /\ PayloadsInv /\ k \in Nat /\ Len(payloads) \in Nat /\ k = Len(payloads) + 1
      /\ payload \in PayloadSet /\ PayloadOK(payload, k)
      /\ payload \in ToSet(payloads') /\ \A p \in ToSet(payloads) : p \in ToSet(payloads')
  BY <1>1, <1>2, Appended DEF IInv
<1>4. CASE nobody(payload) /\ phase' = "answered" /\ UNCHANGED <<requested, rows, pattern>>
  <2>1. \A ne \in ToSet(payload.results) : payload.reply[ne].error
    BY <1>4 DEF Matched
  <2> QED BY <1>1, <1>2, <1>4, <2>1, KeepStop
<1>5. CASE ~nobody(payload) /\ TableLacks(Frame(payload)) /\ UNCHANGED <<requested, rows, pattern>>
  <2>1. phase' = "failed" \/ phase' = "crashed"
    BY <1>5 DEF TableLacks
  <2>2. phase' = "crashed" => Odd(payload)
    <3> SUFFICES ASSUME phase' = "crashed" PROVE Odd(payload)
      OBVIOUS
    <3>1. HasKey(Frame(payload)) /\ ~HasAttribute(Frame(payload))
      BY <1>5 DEF TableLacks
    <3>2. PICK row \in Range(Frame(payload)) : row.attribute = NaN
      BY <3>1 DEF HasKey, HasAttribute
    <3> QED BY <1>3, <3>2, OddRow
  <2> QED BY <1>1, <1>2, <1>3, <1>5, <2>1, <2>2, KeepStop
<1>6. CASE Complete(Frame(payload)) /\ k = 1 /\ FirstTable(Frame(payload), payload)
  <2>1. CASE phase' = "running"
    BY <1>1, <1>2, <1>6, <2>1, KeepFirst DEF Complete
  <2>2. CASE phase' # "running"
    <3>1. /\ UNCHANGED <<requested, rows, pattern>>
          /\ \/ phase' = "failed"
             \/ phase' = "crashed" /\ NaN \in names(payload)
      BY <1>2, <1>6, <2>2 DEF FirstTable, FirstUmtsTable
    <3>2. NaN \in names(payload) => Odd(payload)
      BY <1>3, OddRow
    <3> QED BY <1>1, <1>2, <1>3, <3>1, <3>2, KeepStop
  <2> QED BY <2>1, <2>2
<1>7. CASE Complete(Frame(payload)) /\ k > 1 /\ NextTable(Frame(payload))
  <2>1. CASE MergeIsValid(rows, Frame(payload))
    <3>1. /\ UniqueKeys(Frame(payload)) /\ rows' = Joined(rows, Frame(payload))
          /\ phase' \in {"running", "answered"} /\ UNCHANGED <<requested, pattern>>
      BY <1>7, <2>1 DEF NextTable, MergeIsValid
    <3> QED BY <1>1, <1>2, <1>7, <3>1, KeepJoin
  <2>2. CASE ~MergeIsValid(rows, Frame(payload))
    <3>1. phase' = "crashed" /\ UNCHANGED <<requested, rows, pattern>>
      BY <1>7, <2>2 DEF NextTable
    <3>2. Repeats(payload) \/ Repeats(payloads[1])
      BY <1>3, <1>7, <2>2, RefusedMerge
    <3>3. payloads[1] \in ToSet(payloads')
      <4>1. payloads[1] \in ToSet(payloads)
        BY <1>3, <1>7 DEF ToSet, TypeOK
      <4> QED BY <1>3, <4>1
    <3> QED BY <1>1, <1>2, <1>3, <3>1, <3>2, <3>3, KeepStop
  <2> QED BY <2>1, <2>2
<1> QED BY <1>1, <1>4, <1>5, <1>6, <1>7

LEMMA KeepNothing == IInv /\ UNCHANGED vars => IInv'
<1> SUFFICES ASSUME IInv, UNCHANGED vars PROVE IInv'
  OBVIOUS
<1>0. /\ TypeOK /\ PayloadsInv /\ RowsInv /\ CoverInv /\ AnswerInv /\ PatternInv
      /\ AttributesAreOfTheCell /\ SummaryCrashIsExplained
      /\ UNCHANGED <<technology, requested, payloads, rows, pattern, phase>>
  BY DEF IInv, vars
<1>1. PayloadsInv'
  <2>1. \A c \in 1..Len(payloads') :
          /\ ToSet(payloads'[c].results) \subseteq DOMAIN payloads'[c].reply
          /\ \A ne \in DOMAIN payloads'[c].reply : payloads'[c].reply[ne] \in Replies(c, ne)'
    BY <1>0, SameReplies DEF PayloadsInv, PayloadOK
  <2> QED BY <2>1 DEF PayloadsInv, PayloadOK
<1>2. PatternInv'
  <2>1. FirstNames' = FirstNames
    BY <1>0 DEF FirstNames
  <2> QED BY <1>0, <2>1 DEF PatternInv
<1>3. TypeOK' /\ RowsInv' /\ CoverInv' /\ AnswerInv'
  BY <1>0 DEF TypeOK, RowsInv, CoverInv, AnswerInv
<1>4. AttributesAreOfTheCell' /\ SummaryCrashIsExplained'
  BY <1>0 DEF AttributesAreOfTheCell, SummaryCrashIsExplained
<1> QED BY <1>1, <1>2, <1>3, <1>4 DEF IInv

LEMMA IndNext == IInv /\ [Next]_vars => IInv'
BY KeepAnswered, KeepFails, KeepNothing DEF Next

-----------------------------------------------------------------------------
(* The theorems.                                                           *)

(* The invariant the others follow from: how the rows stand to the answers *)
(* of the commands so far.                                                 *)
THEOREM Inductive == Spec => []IInv
BY IndInit, IndNext, PTL DEF Spec

(* The variables hold what the program can put into them. *)
THEOREM TypeCorrect == Spec => []TypeOK
<1>1. IInv => TypeOK
  BY DEF IInv
<1> QED BY <1>1, Inductive, PTL

(* The merges of create_cell_summary, _nr and _umts never mix the cells of *)
(* two elements, whatever identifiers they share.                          *)
THEOREM AttributesStay == Spec => []AttributesAreOfTheCell
<1>1. IInv => AttributesAreOfTheCell
  BY DEF IInv
<1> QED BY <1>1, Inductive, PTL

LEMMA ErrorsTell ==
    ASSUME TypeOK, payloads # <<>>, NEW ne \in Names, HasError(payloads[1], ne)
    PROVE  ne \in DOMAIN Errors
<1>1. 1 \in 1..Len(payloads)
  BY DEF TypeOK
<1> QED BY <1>1 DEF Errors

(* An element is left out of a summary only with an error, or for a table  *)
(* that had no rows.                                                       *)
THEOREM ElementsAreAccountedFor == Spec => []EveryElementIsAccountedFor
<1>1. IInv => EveryElementIsAccountedFor
  <2> SUFFICES ASSUME IInv, phase = "answered" PROVE EveryElementIsAccountedFor
    BY DEF EveryElementIsAccountedFor
  <2> DEFINE first == payloads[1]
  <2>1. /\ TypeOK /\ PayloadsInv /\ RowsInv /\ AnswerInv
        /\ payloads # <<>> /\ Len(payloads) \in Nat /\ Len(payloads) > 0
    BY DEF IInv, AnswerInv, TypeOK
  <2>2. first \in PayloadSet /\ PayloadOK(first, 1)
    BY <2>1 DEF TypeOK, PayloadsInv
  <2>3. ASSUME NEW ne \in ToSet(first.results)
        PROVE  /\ first.reply[ne].error => ne \in DOMAIN Errors
               /\ \/ \E row \in Range(rows) : row.ne = ne
                  \/ ne \in DOMAIN Errors
                  \/ first.reply[ne] = Empty
    <3>1. ne \in Names /\ ne \in DOMAIN first.reply /\ first.reply[ne] \in Replies(1, ne)
      BY <2>2, FrameIs
    <3>2. first.reply[ne].error => ne \in DOMAIN Errors
      BY <2>1, <3>1, ErrorsTell DEF HasError
    <3>3. CASE first.reply[ne].records = {}
      BY <3>1, <3>2, <3>3, ReplyIs
    <3>4. CASE DOMAIN rows = {}
      BY <2>1, <3>2, <3>4 DEF AnswerInv
    <3>5. CASE first.reply[ne].records # {} /\ DOMAIN rows # {}
      <4>1. PICK p \in Places(first) : first.results[p[1]] = ne
        BY <2>2, <3>5, FrameIs
      <4>2. p \in DOMAIN rows /\ rows[p].ne = ne
        BY <2>1, <3>5, <4>1 DEF RowsInv
      <4> QED BY <3>2, <4>2 DEF Range
    <3> QED BY <3>3, <3>4, <3>5
  <2>4. rows = <<>> => /\ technology = "UMTS" /\ ToSet(first.results) \subseteq DOMAIN Errors
    <3> SUFFICES ASSUME rows = <<>>
                 PROVE  technology = "UMTS" /\ ToSet(first.results) \subseteq DOMAIN Errors
      OBVIOUS
    <3>1. DOMAIN rows = {}
      OBVIOUS
    <3> QED BY <2>1, <2>3, <3>1 DEF AnswerInv
  <2> QED BY <2>3, <2>4 DEF EveryElementIsAccountedFor
<1> QED BY <1>1, Inductive, PTL

(* Neither KeyError nor MergeError comes from elements that share cell     *)
(* identifiers.                                                            *)
THEOREM CrashIsExplained == Spec => []SummaryCrashIsExplained
<1>1. IInv => SummaryCrashIsExplained
  BY DEF IInv
<1> QED BY <1>1, Inductive, PTL

(* _common_cell_name_pattern gives the longest pattern that lists every    *)
(* cell of the first command.                                              *)
THEOREM PatternListsThem == Spec => []PatternIsTheirPrefix
<1>1. IInv => PatternIsTheirPrefix
  BY PatternIs DEF IInv, PatternInv, PatternIsTheirPrefix, FirstNames
<1> QED BY <1>1, Inductive, PTL
=============================================================================
