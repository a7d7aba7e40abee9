----------------------------- MODULE CsvReports -----------------------------
(***************************************************************************)
(* analyze_csv (app/applied_workflows/data_analysis/processor.py): a file is   *)
(* read row by row, its cells are parsed when all rows are in, figures are       *)
(* computed over all rows and over the rows of each segment, a provider is        *)
(* asked to explain them.  Numbers are the exact ones; what the report shows      *)
(* is rounded to six places as _decimal_string does.  Anomalies are taken         *)
(* before the list is cut to a hundred.                                         *)
(***************************************************************************)
EXTENDS Integers, Sequences, FiniteSets, Functions, SequencesExt

CONSTANTS Header,       \* sets of columns a file may have
          Number,       \* what a numeric cell may hold
          Name,         \* what another cell may hold
          Missing,      \* an empty cell, a figure there is none of
          NotANumber,   \* a cell of a numeric column that does not parse
          Unknown,      \* the segment "unknown"
          MaxCsvRows,   \* max_csv_rows
          CellLimit     \* bound: cells of a file

ASSUME CsvAssumption == Number \subseteq Int /\ Missing \notin Int /\ MaxCsvRows \in Nat

VARIABLES columns, rows, csvPhase, report

csvVars == <<columns, rows, csvPhase, report>>

NumericColumns ==
    {"impressions", "clicks", "spend", "conversions", "retention", "sessions", "revenue"}

(* Rows are indexed from the one under the header; dates order as numbers do.    *)
Cell(c) == IF c \in NumericColumns THEN Number \cup {Missing, NotANumber}
           ELSE IF c = "date" THEN {0, 1} ELSE Name \cup {Missing}

Abs(x) == IF x < 0 THEN -x ELSE x

Micro == 1000000

(* Six places, half up.                                                        *)
Rounded(n, d) ==
    LET half == (2 * Abs(n) * Micro + d) \div (2 * d) IN IF n < 0 THEN -half ELSE half

-----------------------------------------------------------------------------
(* FIGURES                                                                  *)

(* The numbers that the rows ix have in a column.                               *)
Valued(rs, ix, c) == {i \in ix : c \in DOMAIN rs[i] /\ rs[i][c] # Missing}
Column(rs, ix, c) == [i \in Valued(rs, ix, c) |-> rs[i][c]]

Sum(rs, ix, c) == IF Valued(rs, ix, c) = {} THEN Missing ELSE SumFunction(Column(rs, ix, c))

Rate(n, d) == IF n = Missing \/ d = Missing THEN Missing
              ELSE IF d <= 0 THEN Missing ELSE Rounded(n, d)

ClicksOrSessions(rs, ix) ==
    IF Sum(rs, ix, "clicks") \in {Missing, 0} THEN Sum(rs, ix, "sessions")
    ELSE Sum(rs, ix, "clicks")

Metrics(rs, ix) ==
    [rows |-> Cardinality(ix),
     sums |-> [c \in {"impressions", "clicks", "spend", "conversions", "revenue"} |->
                 Sum(rs, ix, c)],
     ctr |-> Rate(Sum(rs, ix, "clicks"), Sum(rs, ix, "impressions")),
     cpc |-> Rate(Sum(rs, ix, "spend"), Sum(rs, ix, "clicks")),
     cpa |-> Rate(Sum(rs, ix, "spend"), Sum(rs, ix, "conversions")),
     conversion_rate |-> Rate(Sum(rs, ix, "conversions"), ClicksOrSessions(rs, ix)),
     roas |-> Rate(Sum(rs, ix, "revenue"), Sum(rs, ix, "spend")),
     retention |-> Rate(Sum(rs, ix, "retention"), Cardinality(Valued(rs, ix, "retention")))]

(* The first of the three columns the file has.                                 *)
SegmentColumn ==
    IF "platform" \in columns THEN "platform"
    ELSE IF "country" \in columns THEN "country"
    ELSE IF "campaign" \in columns THEN "campaign" ELSE Missing

(* Mutant: rows that name no segment are in none.                                *)
SegmentsOfNamed(rs) ==
    IF SegmentColumn = Missing THEN <<>>
    ELSE LET named == {i \in DOMAIN rs : rs[i][SegmentColumn] # Missing}
         IN [s \in {rs[i][SegmentColumn] : i \in named} |->
                Metrics(rs, {i \in named : rs[i][SegmentColumn] = s})]

SegmentOf(r) == IF r[SegmentColumn] = Missing THEN Unknown ELSE r[SegmentColumn]

Segments(rs) ==
    IF SegmentColumn = Missing THEN <<>>
    ELSE [s \in {SegmentOf(rs[i]) : i \in DOMAIN rs} |->
             Metrics(rs, {i \in DOMAIN rs : SegmentOf(rs[i]) = s})]

Squares(f) == [x \in DOMAIN f |-> f[x] * f[x]]

(* Further from the mean than two (population) deviations, without the roots:    *)
(* |x - S/n| > 2 sqrt(Q/n - (S/n)^2).                                           *)
IsOdd(f, x) ==
    LET n == Cardinality(DOMAIN f)
        S == SumFunction(f)
        spread == n * SumFunction(Squares(f)) - S * S
    IN n >= 3 /\ spread # 0 /\ (n * f[x] - S) * (n * f[x] - S) > 4 * spread

Anomalies(rs) ==
    {a \in (DOMAIN rs) \X (NumericColumns \cap columns) :
        a[1] \in Valued(rs, DOMAIN rs, a[2]) /\ IsOdd(Column(rs, DOMAIN rs, a[2]), a[1])}

(* From the first to the last value by date, rows of one date as they stand.     *)
Trends(rs) ==
    LET Earlier(i, k) == rs[i].date < rs[k].date \/ (rs[i].date = rs[k].date /\ i <= k)
        Values(c) == Column(rs, DOMAIN rs, c)
        Earliest(c) == CHOOSE i \in DOMAIN Values(c) : \A k \in DOMAIN Values(c) : Earlier(i, k)
        Latest(c) == CHOOSE i \in DOMAIN Values(c) : \A k \in DOMAIN Values(c) : Earlier(k, i)
        Moved == {c \in NumericColumns \cap columns :
                    Cardinality(DOMAIN Values(c)) >= 2 /\ Values(c)[Earliest(c)] # 0}
    IN IF "date" \notin columns THEN <<>>
       ELSE [c \in Moved |->
               [first |-> Earliest(c), last |-> Latest(c),
                delta |-> Rounded(Values(c)[Latest(c)] - Values(c)[Earliest(c)],
                                  Abs(Values(c)[Earliest(c)]))]]

(* Empty cells; rows that say what another one does.                            *)
Quality(rs) ==
    [missing |-> Rounded(Cardinality({x \in (DOMAIN rs) \X columns : rs[x[1]][x[2]] = Missing}),
                         Len(rs) * Cardinality(columns)),
     duplicates |-> Len(rs) - Cardinality(ToSet(rs))]

-----------------------------------------------------------------------------
(* STEPS                                                                    *)

CsvInit == columns \in Header /\ rows = <<>> /\ csvPhase = "reading" /\ report = Missing

CsvFails == csvPhase' = "failed" /\ UNCHANGED <<columns, rows, report>>

(* A row beyond the limit ends it before anything is parsed.                    *)
ReadRow ==
    /\ csvPhase = "reading"
    /\ \/ Len(rows) >= MaxCsvRows /\ CsvFails
       \/ /\ Len(rows) < MaxCsvRows
          /\ (Len(rows) + 1) * Cardinality(columns) <= CellLimit
          /\ \E r \in [columns -> UNION {Cell(c) : c \in columns}] :
                /\ \A c \in columns : r[c] \in Cell(c)
                /\ rows' = Append(rows, r)
          /\ UNCHANGED <<columns, csvPhase, report>>

(* All rows are in: a file without rows or with a cell that does not parse is     *)
(* refused, and so is one the provider fails to explain.                         *)
Report ==
    /\ csvPhase = "reading"
    /\ IF rows = <<>> \/ \E i \in DOMAIN rows, c \in columns : rows[i][c] = NotANumber
       THEN CsvFails
       ELSE \/ CsvFails
            \/ /\ report' = [metrics |-> Metrics(rows, DOMAIN rows), segments |-> Segments(rows),
                             anomalies |-> Anomalies(rows), trends |-> Trends(rows),
                             quality |-> Quality(rows)]
               /\ csvPhase' = "reported"
               /\ UNCHANGED <<columns, rows>>

CsvStep == ReadRow \/ Report

-----------------------------------------------------------------------------
(* PROPERTIES                                                               *)

Segmented == DOMAIN report.segments

(* The segments of a report are all of its rows, each once: what they sum to is    *)
(* what all rows sum to, and the click rate of all rows lies between those of the   *)
(* segments.  Fewer than one value of a column in four is an anomaly, so the five   *)
(* values of a short file never hold one (_segments, _metrics, _anomalies).        *)
ReportAddsUp ==
    csvPhase = "reported" =>
      /\ SegmentColumn # Missing =>
           /\ SumFunction([s \in Segmented |-> report.segments[s].rows]) = Len(rows)
           /\ \A c \in DOMAIN report.metrics.sums :
                LET with == {s \in Segmented : report.segments[s].sums[c] # Missing}
                IN report.metrics.sums[c] =
                     IF with = {} THEN Missing
                     ELSE SumFunction([s \in with |-> report.segments[s].sums[c]])
           /\ (\A s \in Segmented : report.segments[s].ctr # Missing) =>
                \E low, high \in Segmented :
                    /\ report.segments[low].ctr <= report.metrics.ctr
                    /\ report.metrics.ctr <= report.segments[high].ctr
      /\ \A c \in NumericColumns \cap columns :
            LET odd == {i \in DOMAIN rows : <<i, c>> \in report.anomalies}
            IN odd # {} => 4 * Cardinality(odd) < Cardinality(Valued(rows, DOMAIN rows, c))
      /\ Cardinality(DOMAIN rows) < 6 => report.anomalies = {}
=============================================================================
