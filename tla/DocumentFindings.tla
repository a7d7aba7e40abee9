-------------------------- MODULE DocumentFindings --------------------------
(***************************************************************************)
(* process_document (app/applied_workflows/document_processing/processor.py):  *)
(* the file is checked and its text taken out, the text is classified, the       *)
(* provider is asked twice, and the lines that declare something are compared.    *)
(* Of a text the model keeps how many signals of each kind it holds, which         *)
(* section names, and its "label: value" lines; findings are those before the      *)
(* list is cut to fifty.                                                        *)
(***************************************************************************)
EXTENDS Integers, Sequences, FiniteSets, SequencesExt

CONSTANTS Label,        \* labels lines may have, in lower case
          Value,        \* values as written: [text, folded]
          MaxSignals,   \* signals of a kind a text may hold
          MaxLines      \* bound: declaring lines of a document

ASSUME DocumentAssumption == MaxSignals \in Nat /\ MaxLines \in Nat

VARIABLES lines, docPhase, result

docVars == <<lines, docPhase, result>>

(* In the order of the code's dictionaries: of equals the first wins.           *)
DocumentTypes == <<"MARKETING_BRIEF", "CAMPAIGN_REPORT", "GAME_DESIGN_DOCUMENT",
                   "PRODUCT_REQUIREMENT_DOCUMENT", "MEETING_NOTES">>

Required(type) ==
    CASE type = "MARKETING_BRIEF" -> {"objective", "audience", "message", "budget", "timeline"}
      [] type = "CAMPAIGN_REPORT" -> {"summary", "results", "metrics", "learnings"}
      [] type = "GAME_DESIGN_DOCUMENT" -> {"gameplay", "mechanics", "progression", "art"}
      [] type = "PRODUCT_REQUIREMENT_DOCUMENT" ->
             {"problem", "requirements", "acceptance", "risks"}
      [] type = "MEETING_NOTES" -> {"attendees", "decisions", "actions"}
      [] type = "UNKNOWN" -> {}

Aliases ==
    [DATE |-> {"date", "launch date", "start date"},
     DEADLINE |-> {"deadline", "due date"},
     BUDGET |-> {"budget", "campaign budget"},
     PRODUCT_NAME |-> {"product", "product name", "campaign", "campaign name"},
     PRIORITY |-> {"priority", "priority level"},
     TOTAL |-> {"total", "grand total"}]

(* "requirement x" and "requirements x" declare x.                              *)
RequirementOf == [l \in {"requirement login", "requirements login"} |-> "login"]

-----------------------------------------------------------------------------
(* The first type with the most signals; UNKNOWN when there is none.            *)
Classified(signals) ==
    LET best == CHOOSE i \in 1..5 :
                  \A k \in 1..5 : \/ signals[DocumentTypes[i]] > signals[DocumentTypes[k]]
                                  \/ /\ signals[DocumentTypes[i]] = signals[DocumentTypes[k]]
                                     /\ i <= k
    IN IF signals[DocumentTypes[best]] = 0 THEN "UNKNOWN" ELSE DocumentTypes[best]

(* In hundredths.                                                              *)
Confidence(signals) ==
    LET n == IF Classified(signals) = "UNKNOWN" THEN 0 ELSE signals[Classified(signals)]
    IN IF n = 0 THEN 25 ELSE IF 50 + 15 * n > 95 THEN 95 ELSE 50 + 15 * n

(* Mutant: the values are compared as they are written.                         *)
ConflictAsWritten(kind, subject, at) ==
    IF Cardinality({lines[i].value.text : i \in at}) < 2 THEN {}
    ELSE {[kind |-> kind, subject |-> subject, lines |-> at]}

(* The values of one subject, folded, are not all the same.                      *)
Conflict(kind, subject, at) ==
    IF Cardinality({lines[i].value.folded : i \in at}) < 2 THEN {}
    ELSE {[kind |-> kind, subject |-> subject, lines |-> at]}

(* Sections are looked for in the whole text, the labels included.               *)
Mentioned ==
    UNION {CASE lines[i].label \in Aliases.BUDGET -> {"budget"}
             [] lines[i].label = "requirements login" -> {"requirements"}
             [] OTHER -> {lines[i].label} : i \in DOMAIN lines}

Labelled(names) == {i \in DOMAIN lines : lines[i].label \in names}

Inconsistencies ==
    (UNION {Conflict(kind, kind, Labelled(Aliases[kind])) : kind \in DOMAIN Aliases})
    \cup (UNION {Conflict("DUPLICATED_SECTION", l, Labelled({l})) :
                  l \in Label \ UNION {Aliases[kind] : kind \in DOMAIN Aliases}})
    \cup (UNION {Conflict("CONTRADICTORY_REQUIREMENT", r,
                         Labelled({l \in DOMAIN RequirementOf : RequirementOf[l] = r})) :
                  r \in {RequirementOf[l] : l \in DOMAIN RequirementOf}})

-----------------------------------------------------------------------------
(* STEPS                                                                    *)

File == [extension : {"pdf", "docx", "txt", "other"}, fits : BOOLEAN, matches : BOOLEAN,
         extracts : BOOLEAN, hasText : BOOLEAN]

DocInit == lines = <<>> /\ docPhase = "uploaded" /\ result = [type |-> "none"]

DocFails == docPhase' = "failed" /\ UNCHANGED <<lines, result>>

(* Size, extension with signature and media type, the archive and page checks with *)
(* the extraction, and a text to work on; text files are decoded, not extracted.   *)
OpenFile ==
    /\ docPhase = "uploaded"
    /\ \E file \in File :
        IF file.fits /\ file.extension # "other" /\ file.matches /\ file.extracts /\ file.hasText
        THEN docPhase' = "opened" /\ UNCHANGED <<lines, result>>
        ELSE DocFails

DeclaringLine ==
    /\ docPhase = "opened" /\ Len(lines) < MaxLines
    /\ \E l \in Label, v \in Value : lines' = Append(lines, [label |-> l, value |-> v])
    /\ UNCHANGED <<docPhase, result>>

(* Either call of the provider may fail; what it finds itself comes after the       *)
(* deterministic findings and is marked as its own whatever it says it is.           *)
Process ==
    /\ docPhase = "opened"
    /\ \/ DocFails
       \/ \E signals \in [ToSet(DocumentTypes) -> 0..MaxSignals], assisted \in 0..1 :
            \E present \in {{}, Required(Classified(signals))} :
             /\ result' = [type |-> Classified(signals), confidence |-> Confidence(signals),
                           missing |-> Required(Classified(signals)) \ (present \cup Mentioned),
                           findings |-> Inconsistencies, assisted |-> assisted]
             /\ docPhase' = "processed"
             /\ UNCHANGED lines

DocStep == OpenFile \/ DeclaringLine \/ Process

-----------------------------------------------------------------------------
(* PROPERTIES                                                               *)

OneSubject(k, l) ==
    \/ k = l
    \/ \E kind \in DOMAIN Aliases : {k, l} \subseteq Aliases[kind]
    \/ {k, l} \subseteq DOMAIN RequirementOf /\ RequirementOf[k] = RequirementOf[l]

(* Two lines that declare one subject differently are cited by one finding, and     *)
(* every finding cites two such lines; the lowest confidence goes with a document of  *)
(* no type and with no other (_deterministic_inconsistencies, _conflict_finding,      *)
(* _classify).                                                                 *)
ConflictsAreReported ==
    docPhase = "processed" =>
      /\ \A i, k \in DOMAIN lines :
            OneSubject(lines[i].label, lines[k].label)
            /\ lines[i].value.folded # lines[k].value.folded
              => \E f \in result.findings : {i, k} \subseteq f.lines
      /\ \A f \in result.findings : \E i, k \in f.lines :
            /\ OneSubject(lines[i].label, lines[k].label)
            /\ lines[i].value.folded # lines[k].value.folded
      /\ (result.type = "UNKNOWN") = (result.confidence = 25)
=============================================================================
