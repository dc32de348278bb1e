---------------------------- MODULE CellSummary ----------------------------
(***************************************************************************)
(* POST /mml/cell-summary-lte, -nr and -umts of app/api/routes/huawei.py:  *)
(* two or three MML commands, sent one after the other to the same network *)
(* elements, whose tables are joined by element and cell.                  *)
(*                                                                         *)
(* Each command is one call of _execute_mml, which answers as MmlContract  *)
(* says; MmlBatch is checked to do so.  The network may change between two *)
(* commands, so each one answers for itself.                               *)
(***************************************************************************)
EXTENDS Integers, FiniteSets, MmlContract

CONSTANTS
    Names,      \* network elements (the fixed list of RNCs for UMTS)
    Cells,      \* identifiers of cells, which elements may share
    Requests,   \* what ne_names may be (1 to 100 names in CellSummaryRequest)
    CellNames   \* names of UMTS cells: sequences of the tokens between "_"

NoKey == 0          \* the table has no column for the cell's identifier
NaN == <<"NaN">>    \* the table has no such column
None == <<>>        \* NULL in the table

ASSUME NamesAssumption == IsFiniteSet(Names)
ASSUME CellsAssumption == IsFiniteSet(Cells) /\ Cells # {} /\ Cells \subseteq Nat \ {NoKey}
ASSUME RequestsAssumption == Requests \subseteq Seq(Names) \ {<<>>}
ASSUME CellNamesAssumption == CellNames \subseteq Seq(STRING) \ {NaN, None}

Technologies == {"LTE", "NR", "UMTS"}
Commands(t) == IF t = "NR" THEN 3 ELSE 2

VARIABLES
    technology,
    requested,  \* the elements of the next command, in order
    payloads,   \* the answers to the commands so far
    rows,       \* summary_dataframe: the cells of the first command, joined
    pattern,    \* of the cells' names (UMTS), <<>> before it is known
    phase       \* "running", "answered", "rejected" (400), "failed" (502), "crashed" (500)

vars == <<technology, requested, payloads, rows, pattern, phase>>

(* An element's report, parsed: an error, or the records of a table, whose *)
(* order no property tells apart.                                          *)
Reply(error, records) == [error |-> error, records |-> records]
Record(id, attribute) == [id |-> id, attribute |-> attribute]

Failed == Reply(TRUE, {})
Empty == Reply(FALSE, {})        \* RETCODE not 0, or a table without rows

(* What a record says besides the cell's identifier: for UMTS the cell's   *)
(* name, elsewhere which command said it about which cell of which element.*)
Said(k, ne, id) == <<k, ne, id>>
Sayings(k, ne, id) ==
    IF technology = "UMTS" /\ k = 1 THEN CellNames \cup {None} ELSE {Said(k, ne, id)}

Tables(k, ne) ==
    UNION {{Reply(FALSE, {Record(id, a[id]) : id \in S}) :
               a \in {f \in [S -> UNION {Sayings(k, ne, id) : id \in S}] :
                        \A id \in S : f[id] \in Sayings(k, ne, id)}} :
           S \in (SUBSET Cells) \ {{}}}

(* A table of an unforeseen layout, without the attribute or the key. *)
OddTables(id) ==
    {Reply(FALSE, {Record(id, NaN)}), Reply(FALSE, {Record(NoKey, None)})}

Replies(k, ne) ==
    {Failed, Empty} \cup Tables(k, ne) \cup OddTables(CHOOSE id \in Cells : TRUE)

(* A retry means that an element was set aside, with an error. *)
Payloads(k) ==
    LET all == UNION {Replies(k, ne) : ne \in ToSet(requested)}
        each == {f \in [ToSet(requested) -> all] : \A ne \in DOMAIN f : f[ne] \in Replies(k, ne)}
        retries(f) == IF \E ne \in DOMAIN f : f[ne].error THEN BOOLEAN ELSE {FALSE}
    IN  UNION {[results : UNION {AnswersTo(requested, r) : r \in retries(f)}, reply : {f}] : f \in each}

Init ==
    /\ technology \in Technologies
    /\ requested \in IF technology = "UMTS" THEN SetToSeqs(Names)
                     ELSE Requests
    /\ payloads = <<>>
    /\ rows = <<>>
    /\ pattern = <<>>
    /\ phase = "running"

-----------------------------------------------------------------------------
(* _records_dataframe: the records of all elements without an error, with  *)
(* the element's name; once for every result the element has.  A row's     *)
(* place in the frame is that result and its record.                       *)

Places(payload) ==
    UNION {{i} \X payload.reply[payload.results[i]].records : i \in DOMAIN payload.results}

Frame(payload) ==
    [p \in Places(payload) |->
        [ne |-> payload.results[p[1]], id |-> p[2].id, attribute |-> p[2].attribute]]

(* A column exists if one record has it, of whichever element. *)
HasKey(frame) == \E row \in Range(frame) : row.id # NoKey
HasAttribute(frame) == \E row \in Range(frame) : row.attribute # NaN

(* summary_dataframe.where(notna(), None) *)
Known(row) == IF row.attribute = NaN THEN None ELSE row.attribute

(* Mutant of Key: the tables are joined by cell only. *)
KeyWithoutElement(row) == row.id

Key(row) == <<row.ne, row.id>>
UniqueKeys(frame) == \A p, q \in DOMAIN frame : p # q => Key(frame[p]) # Key(frame[q])

(* validate= of the merges: one_to_one, but many_to_one for NR. *)
MergeIsValid(left, right) ==
    UniqueKeys(right) /\ (technology # "NR" => UniqueKeys(left))

Matches(row, frame) == {r \in Range(frame) : Key(r) = Key(row)}

(* Mutant of Joined: the partner is any cell of the same identifier. *)
JoinedByCell(left, right) ==
    [p \in DOMAIN left |->
        LET partner == {r \in Range(right) : r.id = left[p].id}
        IN  [left[p] EXCEPT !.attributes =
                Append(@, IF partner = {} THEN None ELSE Known(CHOOSE r \in partner : TRUE))]]

(* A cell without a partner, or whose partner lacks the column, has None. *)
Joined(left, right) ==
    [p \in DOMAIN left |->
        LET partner == Matches(left[p], right)
        IN  [left[p] EXCEPT !.attributes =
                Append(@, IF partner = {} THEN None ELSE Known(CHOOSE r \in partner : TRUE))]]

Firsts(frame) ==
    [p \in DOMAIN frame |->
        [ne |-> frame[p].ne, id |-> frame[p].id, attributes |-> <<Known(frame[p])>>]]

(* _successful_ne_names: an inner RETCODE other than 0 is no error. *)
Matched(payload) == {ne \in ToSet(payload.results) : ~payload.reply[ne].error}

HasError(payload, ne) == ne \in DOMAIN payload.reply /\ payload.reply[ne].error

(* Mutant of Errors: the last command has the last word. *)
ErrorsOfTheLast ==
    LET k == Len(payloads)
    IN  [ne \in {n \in Names : k > 0 /\ HasError(payloads[k], n)} |-> k]

(* _ne_errors and _umts_ne_errors: by element, the first command that gave *)
(* it an error.                                                            *)
Errors ==
    LET wrong(ne) == {k \in 1..Len(payloads) : HasError(payloads[k], ne)}
    IN  [ne \in {n \in Names : wrong(n) # {}} |->
            CHOOSE k \in wrong(ne) : \A l \in wrong(ne) : k <= l]

(* _common_cell_name_pattern, over the names that are not None; <<>> when  *)
(* there is none, or nothing that they share, which is a 502.              *)
CommonTokens(names) ==
    LET shortest == CHOOSE n \in {Len(name) : name \in names} :
                       \A name \in names : n <= Len(name)
        same(i) == \A v, w \in names : v[i] = w[i]
        run == {n \in 0..shortest : \A i \in 1..n : same(i)}
    IN  SubSeq(CHOOSE name \in names : TRUE, 1, CHOOSE n \in run : \A m \in run : m <= n)

(* Mutant of Pattern: all equal tokens are taken, not only the leading ones. *)
PatternWithGaps(names) ==
    LET one == CHOOSE name \in names : TRUE
    IN  IF names = {} THEN <<>> ELSE IF Cardinality(names) = 1 THEN <<one[1]>>
        ELSE LET shared == {i \in DOMAIN one :
                        \A name \in names : i \in DOMAIN name /\ name[i] = one[i]}
             IN  [i \in 1..Cardinality(shared) |-> one[SetToSortSeq(shared, <)[i]]]

Pattern(names) ==
    CASE names = {} -> <<>>
      [] Cardinality(names) = 1 -> <<(CHOOSE name \in names : TRUE)[1]>>
      [] OTHER -> CommonTokens(names)

-----------------------------------------------------------------------------

k == Len(payloads) + 1   \* the command under way

(* _records_dataframe answers 502 without the key column, which is missing *)
(* too when no element has a record; selecting another column that is      *)
(* missing raises KeyError.                                                *)
TableLacks(frame) ==
    \/ ~HasKey(frame) /\ phase' = "failed"
    \/ HasKey(frame) /\ ~HasAttribute(frame) /\ phase' = "crashed"

Complete(frame) == HasKey(frame) /\ HasAttribute(frame)

(* The names of the cells; split() is not defined for NaN.  The order in   *)
(* which the second command names the elements is MAE's, and any order     *)
(* stands for it.                                                          *)
FirstUmtsTable(frame, payload) ==
    LET names == {row.attribute : row \in Range(frame)} \ {None}
    IN  \/ /\ NaN \in names
           /\ phase' = "crashed" /\ UNCHANGED <<requested, rows, pattern>>
        \/ /\ NaN \notin names
           /\ Pattern(names) = <<>>
           /\ phase' = "failed" /\ UNCHANGED <<requested, rows, pattern>>
        \/ /\ NaN \notin names /\ Pattern(names) # <<>>
           /\ rows' = Firsts(frame)
           /\ pattern' = Pattern(names)
           /\ requested' \in SetToSeqs(Matched(payload))
           /\ UNCHANGED phase

FirstTable(frame, payload) ==
    \/ technology = "UMTS" /\ FirstUmtsTable(frame, payload)
    \/ technology # "UMTS" /\ rows' = Firsts(frame) /\ UNCHANGED <<requested, pattern, phase>>

(* The merge raises MergeError when the keys are not as it was told. *)
NextTable(frame) ==
    /\ \/ ~MergeIsValid(rows, frame) /\ phase' = "crashed" /\ UNCHANGED rows
       \/ /\ MergeIsValid(rows, frame)
          /\ rows' = Joined(rows, frame)
          /\ phase' = IF k = Commands(technology) THEN "answered" ELSE "running"
    /\ UNCHANGED <<requested, pattern>>

(* A command was answered.  For UMTS nothing more is asked when no RNC     *)
(* knows the NodeB.                                                        *)
CommandAnswered ==
    /\ phase = "running"
    /\ \E payload \in Payloads(k) :
        /\ payloads' = Append(payloads, payload)
        /\ LET frame == Frame(payload)
               nobody == technology = "UMTS" /\ k = 1 /\ Matched(payload) = {}
           IN  \/ nobody /\ phase' = "answered" /\ UNCHANGED <<requested, rows, pattern>>
               \/ ~nobody /\ TableLacks(frame) /\ UNCHANGED <<requested, rows, pattern>>
               \/ Complete(frame) /\ k = 1 /\ FirstTable(frame, payload)
               \/ Complete(frame) /\ k > 1 /\ NextTable(frame)
    /\ UNCHANGED technology

(* _execute_mml raises: what earlier commands answered is lost. *)
CommandFails ==
    /\ phase = "running"
    /\ phase' \in {"rejected", "failed", "crashed"}
    /\ UNCHANGED <<technology, requested, payloads, rows, pattern>>

Next == CommandAnswered \/ CommandFails

Spec == Init /\ [][Next]_vars

-----------------------------------------------------------------------------
(* Safety.                                                                 *)

(* A cell of the summary has the attributes that the same element gave for *)
(* the same cell, and None only where a table does not have them: the      *)
(* merge never mixes the cells of two elements that share an identifier.   *)
AttributesAreOfTheCell ==
    \A row \in Range(rows) : \A c \in 2..Len(row.attributes) :
        LET said == Record(row.id, Said(c, row.ne, row.id))
        IN  row.attributes[c] = IF said \in payloads[c].reply[row.ne].records
                                THEN said.attribute ELSE None

(* Every element that was asked has cells in the summary or an error, also *)
(* when it failed for one command only; but one whose table was empty, or  *)
(* whose command was refused with a RETCODE, has neither.  A summary with  *)
(* errors alone is given only for a NodeB that no RNC knows: when every    *)
(* element failed otherwise the caller gets a 502 and not their errors.    *)
EveryElementIsAccountedFor ==
    phase = "answered" =>
        /\ \A ne \in ToSet(payloads[1].results) :
              \/ \E row \in Range(rows) : row.ne = ne
              \/ ne \in DOMAIN Errors
              \/ payloads[1].reply[ne] = Empty
        /\ rows = <<>> => /\ technology = "UMTS"
                         /\ ToSet(payloads[1].results) \subseteq DOMAIN Errors

(* Only a name that was given twice, in a request that had to be retried,  *)
(* and a table of an unforeseen layout end in a 500 of the summary's own:  *)
(* elements that share cell identifiers do not.                            *)
SummaryCrashIsExplained ==
    LET joined == \E row \in Range(rows) : Len(row.attributes) = Len(payloads)
        repeats(p) == \E i, j \in DOMAIN p.results : i # j /\ p.results[i] = p.results[j]
        odd(p) == \E ne \in DOMAIN p.reply : \E r \in p.reply[ne].records :
                      r.id = NoKey \/ r.attribute = NaN
    IN  phase = "crashed" /\ payloads # <<>> /\ ~joined =>
            \E p \in ToSet(payloads) : repeats(p) \/ odd(p)

(* The pattern of the second UMTS command begins the name of every cell of *)
(* the first, so that all of them are listed, and it is as long as can be: *)
(* other NodeBs' cells are not listed for want of a token.                 *)
PatternIsTheirPrefix ==
    LET names == {row.attributes[1] : row \in Range(rows)} \ {None}
    IN  pattern # <<>> =>
            /\ \A name \in names : IsPrefix(pattern, name)
            /\ Cardinality(names) > 1 => pattern = LongestCommonPrefix(names)
=============================================================================
