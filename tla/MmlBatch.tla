------------------------------ MODULE MmlBatch ------------------------------
(***************************************************************************)
(* POST /mml/command of app/api/routes/huawei.py: _execute_mml sends one   *)
(* MML command to a batch of network elements.  Huawei refuses a batch     *)
(* that names an element it does not know, so the elements it complains    *)
(* about are set aside as failed results and the rest is sent again; then  *)
(* the results are merged and the reports parsed.                          *)
(***************************************************************************)
EXTENDS Integers, FiniteSets, MmlContract, MmlReport

CONSTANTS
    Names,     \* network elements
    MaxNames   \* elements of one request (100 in MmlCommandRequest)

ASSUME MaxNamesAssumption == MaxNames \in Nat \ {0}

VARIABLES
    requested,  \* ne_names, as the caller gave them
    phase,      \* "posting", "answered", "rejected" (400), "failed" (502), "crashed" (500)
    remaining,  \* what is sent to Huawei next
    missing,    \* the elements of missing_results
    results,    \* the elements of payload["results"], in order
    says,       \* what MAE answered for each element
    reported    \* "report" of each element's result in the answer

vars == <<requested, phase, remaining, missing, results, says, reported>>

Report(outcome, records) == [outcome |-> outcome, records |-> records]
NoReport == Report("none", <<>>)

Batches == UNION {[1..n -> Names] : n \in 1..MaxNames}

(* An element's result: it failed, for a reason in plain text; its command *)
(* was refused; it succeeded without records to print; it printed records; *)
(* or what it printed was cut off.                                         *)
Reply(kind, records, lines) == [kind |-> kind, records |-> records, lines |-> lines]

Failed == Reply("failed", <<>>, <<>>)
Refused == Reply("refused", <<>>, Heading(5) \o <<Blank, End>>)
Bare == Reply("bare", <<>>, Heading(0) \o <<Blank, End>>)
Attributes(records, divider) ==
    Reply("whole", records, PrintedAttributes(records, divider))
Table(headings, records, short) ==
    Reply("whole", records, PrintedTable(headings, records, short))
Cut(reply, n) == Reply("cut", reply.records, SubSeq(reply.lines, 1, n))

Init ==
    /\ requested \in Batches
    /\ phase = "posting"
    /\ remaining = requested
    /\ missing = {}
    /\ results = <<>>
    /\ says = [n \in Names |-> Failed]
    /\ reported = [n \in Names |-> NoReport]

-----------------------------------------------------------------------------

(* Mutant of Merged: only what Huawei answered is put in order. *)
MergedWithoutMissing(answered, aside) ==
    IF aside = {} THEN answered ELSE Within(requested, ToSet(answered))

(* The merge: with elements set aside, the results are put in the order of *)
(* ne_names, once for every time a name occurs there; without, they stay   *)
(* as Huawei sent them.                                                    *)
Merged(answered, aside) ==
    IF aside = {} THEN answered ELSE Within(requested, ToSet(answered) \cup aside)

(* What becomes of an element's report: the text of a failed element is    *)
(* its error, and so is the parser's ValueError.                           *)
Reported(reply) ==
    IF reply.kind = "failed" THEN Report("error", <<>>)
    ELSE LET parsed == Parse(reply.lines)
         IN  IF parsed.outcome = "ValueError" THEN Report("error", <<>>) ELSE parsed

(* No handler of _execute_mml catches the parser's StopIteration.          *)
Finish(answered, aside) ==
    LET report == [n \in Names |->
                      CASE n \in ToSet(answered) -> Reported(says'[n])
                        [] n \in aside \ ToSet(answered) -> Report("missing", <<>>)
                        [] OTHER -> NoReport]
    IN  IF \E n \in ToSet(Merged(answered, aside)) : report[n].outcome = "StopIteration"
        THEN phase' = "crashed" /\ UNCHANGED <<results, reported>>
        ELSE phase' = "answered" /\ results' = Merged(answered, aside) /\ reported' = report

(* Mutant of NamesRefused: only the last refusal is taken out. *)
NamesRefusedOnce(named) ==
    LET newly == named \cap ToSet(remaining)
        left == Without(requested, newly)
    IN  /\ phase = "posting" /\ newly # {} /\ left # <<>>
        /\ remaining' = left /\ missing' = missing \cup newly
        /\ UNCHANGED <<requested, phase, results, says, reported>>

(* Huawei refuses the batch and names elements it does not know. *)
NamesRefused(named) ==
    LET newly == named \cap ToSet(remaining)
        left == Without(remaining, newly)
    IN  /\ phase = "posting"
        /\ \/ /\ newly = {}
              /\ phase' = "rejected"
              /\ UNCHANGED <<remaining, missing, results, reported>>
           \/ /\ newly # {} /\ left # <<>>
              /\ remaining' = left /\ missing' = missing \cup newly
              /\ UNCHANGED <<phase, results, reported>>
           \/ /\ newly # {} /\ left = <<>>
              /\ remaining' = left /\ missing' = missing \cup newly
              /\ Finish(<<>>, missing')
        /\ UNCHANGED <<requested, says>>

(* Any other error: Huawei's envelope (400), HTTP or transport (502), or a  *)
(* body that cannot be used (500).                                         *)
RequestFails ==
    /\ phase = "posting"
    /\ phase' \in {"rejected", "failed", "crashed"}
    /\ UNCHANGED <<requested, remaining, missing, results, says, reported>>

(* What the elements may say: any small report in a request for one        *)
(* element, one of each kind in a request for more.                        *)
Replies ==
    LET whole == {Attributes(records, divider) :
                     records \in BoundedSeq(AttributeRecords, 2) \ {<<>>}, divider \in BOOLEAN}
                 \cup {Table(headings, records, short) :
                     headings \in SetToSeqs(Keys), records \in BoundedSeq(TableRecords, 2),
                     short \in BOOLEAN}
        brief == {r \in whole : Len(r.records) = 1}
    IN  {Failed, Refused, Bare} \cup whole
            \cup UNION {{Cut(r, n) : n \in 0..Len(r.lines) - 1} : r \in brief}

Samples ==
    LET record == [k \in Keys |-> NULL]
        table == Table(SetToSeq(Keys), <<record>>, FALSE)
    IN  {Failed, Refused, Bare, table, Cut(table, 8)}

BatchAnswered ==
    /\ phase = "posting"
    /\ \E given \in [ToSet(remaining) -> IF Len(requested) = 1 THEN Replies ELSE Samples] :
          says' = [n \in Names |-> IF n \in ToSet(remaining) THEN given[n] ELSE says[n]]
    /\ \E a \in OnceEach(remaining) : Finish(a, missing)
    /\ UNCHANGED <<requested, remaining, missing>>

Next ==
    \/ \E named \in (SUBSET Names) \ {{}} : NamesRefused(named)
    \/ RequestFails
    \/ BatchAnswered

Spec == Init /\ [][Next]_vars

-----------------------------------------------------------------------------
(* Safety.                                                                 *)

(* What a caller learns of an element, going by what MAE said of it:       *)
(* unknown, a result or a report that cannot be used, or its records, of   *)
(* which an element that refused its command has none.                     *)
Verdict(n) ==
    IF n \in missing THEN "missing"
    ELSE IF says[n].kind \in {"failed", "cut"} THEN "error" ELSE "records"

(* However many rounds it took to find the elements MAE does not know, an  *)
(* answer speaks of every element that was asked for and of no other.      *)
(* After a retry it has the names of the request in their order, repeated  *)
(* ones as often as they were given; without one it has each name once, in *)
(* MAE's order.  Each element's report tells what MAE said of that         *)
(* element: none is lost, mixed up or set aside but those MAE refused.     *)
AnswerCoversRequest ==
    phase = "answered" =>
        /\ results \in AnswersTo(requested, missing # {})
        /\ \A n \in ToSet(requested) : reported[n].outcome = Verdict(n)

(* The records an element printed come back, as attributes or as a table,  *)
(* with a divider or without, with lists whole and short rows filled up.   *)
PrintedRecordsComeBack ==
    phase = "answered" =>
        \A n \in ToSet(requested) \ missing :
            says[n].kind = "whole" => reported[n] = Report("records", says[n].records)

(* A report that was cut off, wherever it was, is the element's error: it  *)
(* is never read as a shorter list of records, nor is it the one that      *)
(* costs the answer for the others.                                        *)
CutReportIsAnError ==
    \A n \in ToSet(remaining) : says[n].kind = "cut" =>
        IF phase = "answered" THEN reported[n] = Report("error", <<>>)
        ELSE \E other \in ToSet(remaining) : says[other].kind = "bare"

(* Each round sends a shorter batch, without anything refused before: the  *)
(* `while remaining` loop ends.                                            *)
RoundsShrink ==
    [][\A named \in SUBSET Names :
          NamesRefused(named) /\ phase' # "rejected" =>
              /\ Len(remaining') < Len(remaining)
              /\ ToSet(remaining') \cap missing' = {}]_vars

-----------------------------------------------------------------------------
(* What the route's description says and the code does not do.             *)

(* "Los nodos operativos devuelven su reporte parseado": an element whose  *)
(* report can be parsed has it in the answer, whatever another one says.   *)
OneReportSparesTheRest ==
    (\E n \in ToSet(remaining) : says[n].kind = "whole") => phase = "answered"
=============================================================================
