----------------------------- MODULE MmlReport -----------------------------
(***************************************************************************)
(* app/services/mml_parser.py: what MMLAutoParser.parse makes of the text  *)
(* of one element's report.  A line is what the parser tells apart: its    *)
(* kind, its columns when it is split at two or more spaces, and, of an    *)
(* attribute line, the two sides of its first "=".                         *)
(*                                                                         *)
(* A value is the sequence of its parts: NULL is <<>>, a plain value has   *)
(* one part, and a list, which the parser joins with ", ", has several.    *)
(***************************************************************************)
EXTENDS Integers, FiniteSets, Sequences, SequencesExt

CONSTANTS
    Keys,    \* names of attributes and columns
    Values   \* values other than NULL

NoKey == ""   \* the key of a line "= value"

ASSUME KeysAssumption == IsFiniteSet(Keys) /\ Keys # {} /\ NoKey \notin Keys
ASSUME ValuesAssumption == "NULL" \notin Values

Line(kind, columns, key, value) ==
    [kind |-> kind, columns |-> columns, key |-> key, value |-> value]

Blank == Line("blank", <<>>, NoKey, <<>>)
Text == Line("text", <<"text">>, NoKey, <<>>)             \* +++ NE-001 ..., O&M, a title
Divider == Line("divider", <<"---">>, NoKey, <<>>)
Count == Line("count", <<"(Number of results = ">>, NoKey, <<>>)
End == Line("end", <<"---", "END">>, NoKey, <<>>)
Retcode(code) == Line("retcode", <<"RETCODE">>, "RETCODE", <<code>>)
Row(columns) == Line("text", columns, NoKey, <<>>)
Attribute(key, value) == Line("attribute", <<key>>, key, value)
More(value) == Line("attribute", <<"=">>, NoKey, value)   \* "  =  value": one more part

NULL == <<>>

(* The elements of s that are in S, or are not, in order. *)
Within(s, S) ==
    LET kept[i \in 0..Len(s)] ==
            IF i = 0 THEN <<>>
            ELSE IF s[i] \in S THEN Append(kept[i - 1], s[i]) ELSE kept[i - 1]
    IN  kept[Len(s)]
Without(s, S) == Within(s, ToSet(s) \ S)

Stripped(lines) == Without(lines, {Blank})

(* Position of the first line of one of the kinds, 0 if there is none. *)
FirstOf(lines, kinds) == SelectInSeq(lines, LAMBDA l : l.kind \in kinds)

From(lines, i) == SubSeq(lines, i, Len(lines))

(* Without a divider four lines are taken for the heading of the report. *)
DetectFormat(lines) ==
    LET text == Stripped(lines)
        divider == FirstOf(text, {"divider"})
        body == From(text, IF divider # 0 THEN divider + 1 ELSE 5)
    IN  IF FirstOf(body, {"attribute"}) # 0 THEN "vertical" ELSE "horizontal"

Cell(columns, i) ==
    IF i > Len(columns) \/ columns[i] = "NULL" THEN NULL ELSE <<columns[i]>>

(* A heading that occurs twice is looked up at its first place. *)
RowRecord(headings, columns) ==
    [h \in ToSet(headings) |-> Cell(columns, SelectInSeq(headings, LAMBDA x : x = h))]

(* The rows of the first table; next() finds no divider: StopIteration. *)
ParseHorizontal(lines) ==
    LET text == Stripped(lines)
        divider == FirstOf(text, {"divider"})
        rows == From(text, divider + 2)
        table == SubSeq(rows, 1, FirstOf(rows, {"count", "divider", "end"}) - 1)
    IN  IF divider = 0 THEN [outcome |-> "StopIteration", records |-> <<>>]
        ELSE [outcome |-> "records",
              records |-> [i \in 1..Len(table) |->
                              RowRecord(text[divider + 1].columns, table[i].columns)]]

NoRecord == [k \in {} |-> NULL]
With(record, key, value) ==
    [k \in DOMAIN record \cup {key} |-> IF k = key THEN value ELSE record[k]]

(* What the loop of _parse_vertical carries: the records, the current one, *)
(* its last key, and whether it has met the end.                           *)
Start == [records |-> <<>>, current |-> NoRecord, lastKey |-> NoKey, done |-> FALSE]

Closed(acc) ==
    IF acc.current = NoRecord THEN acc
    ELSE [acc EXCEPT !.records = Append(@, acc.current), !.current = NoRecord, !.lastKey = NoKey]

(* Mutant of VerticalStep: every other line ends the record. *)
VerticalStepByLine(acc, line) ==
    CASE acc.done -> acc
      [] ~acc.done /\ line.kind \in {"count", "end"} -> [acc EXCEPT !.done = TRUE]
      [] ~acc.done /\ line.kind = "attribute" /\ line.key # NoKey ->
            [acc EXCEPT !.current = With(@, line.key, line.value), !.lastKey = line.key]
      [] OTHER -> Closed(acc)

(* A line without a key adds a part to the last value, in place of NULL if *)
(* it was NULL; one whose value is NULL adds nothing.                      *)
VerticalStep(acc, line) ==
    CASE acc.done -> acc
      [] ~acc.done /\ line.kind \in {"count", "end"} -> [acc EXCEPT !.done = TRUE]
      [] ~acc.done /\ line.kind = "blank" -> Closed(acc)
      [] ~acc.done /\ line.kind \in {"attribute", "retcode"} /\ line.key # NoKey ->
            [acc EXCEPT !.current = With(@, line.key, line.value), !.lastKey = line.key]
      [] ~acc.done /\ line.kind = "attribute" /\ line.key = NoKey /\ acc.lastKey # NoKey ->
            [acc EXCEPT !.current[acc.lastKey] = @ \o line.value]
      [] OTHER -> acc

(* Without a divider it begins with the first "=" after the fourth line,   *)
(* blank lines included this time.                                         *)
VerticalBody(lines) ==
    LET divider == FirstOf(lines, {"divider"})
        equals == {"attribute", "retcode", "count"}
    IN  IF divider # 0 THEN From(lines, divider + 1)
        ELSE From(lines, 4 + FirstOf(From(lines, 5), equals))

(* The loop of _parse_vertical over some lines. *)
Stepped(acc, lines) ==
    LET after[i \in 0..Len(lines)] ==
            IF i = 0 THEN acc ELSE VerticalStep(after[i - 1], lines[i])
    IN  after[Len(lines)]

ParseVertical(lines) ==
    [outcome |-> "records",
     records |-> Closed(Stepped(Start, VerticalBody(lines))).records]

(* Mutant of Parse: a report that was cut short is parsed as it is. *)
ParseWithoutEnd(lines) ==
    IF DetectFormat(lines) = "vertical" THEN ParseVertical(lines) ELSE ParseHorizontal(lines)

(* A report without RETCODE counts as one whose RETCODE is not 0. *)
Parse(lines) ==
    LET text == Stripped(lines)
        retcode == FirstOf(text, {"retcode"})
    IN  IF text = <<>> \/ Last(text).kind # "end"
            THEN [outcome |-> "ValueError", records |-> <<>>]
        ELSE IF retcode = 0 \/ text[retcode].value # <<0>>
            THEN [outcome |-> "records", records |-> <<>>]
        ELSE IF DetectFormat(lines) = "vertical" THEN ParseVertical(lines)
        ELSE ParseHorizontal(lines)

-----------------------------------------------------------------------------
(* How MAE prints records, as the reports in the tests show it.            *)

Heading(code) == <<Text, Text, Text, Retcode(code)>>

Parts == {NULL} \cup {<<v>> : v \in Values} \cup {<<v, w>> : v, w \in Values}

AttributeRecords == UNION {[K -> Parts] : K \in (SUBSET Keys) \ {{}}}
TableRecords == [Keys -> {NULL} \cup {<<v>> : v \in Values}]

PrintedAttribute(key, value) ==
    IF value = NULL THEN <<Attribute(key, NULL)>>
    ELSE <<Attribute(key, <<Head(value)>>)>>
            \o [i \in 1..Len(value) - 1 |-> More(<<value[i + 1]>>)]

PrintedRecord(record) ==
    LET keys == SetToSeq(DOMAIN record)
    IN  FlattenSeq([i \in 1..Len(keys) |-> PrintedAttribute(keys[i], record[keys[i]])])

PrintedAttributes(records, divider) ==
    Heading(0) \o (IF divider THEN <<Text, Divider>> ELSE <<>>)
        \o FlattenSeq([i \in 1..Len(records) |-> PrintedRecord(records[i]) \o <<Blank>>])
        \o <<Count, Blank, End>>

(* A row may leave out the NULLs at its end. *)
PrintedRow(headings, record, short) ==
    LET word(i) == IF record[headings[i]] = NULL THEN "NULL" ELSE record[headings[i]][1]
        told == {i \in 1..Len(headings) : record[headings[i]] # NULL} \cup {1}
        width == IF short THEN CHOOSE i \in told : \A j \in told : j <= i ELSE Len(headings)
    IN  Row([i \in 1..width |-> word(i)])

PrintedTable(headings, records, short) ==
    Heading(0) \o <<Text, Divider, Row(headings), Blank>>
        \o [i \in 1..Len(records) |-> PrintedRow(headings, records[i], short)]
        \o <<Count, Blank, End>>
=============================================================================
