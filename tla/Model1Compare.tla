---------------------------- MODULE Model1Compare ----------------------------
(***************************************************************************)
(* The comparator of src/model1.rs and the run of tests/parity_model1.rs   *)
(* over one twin: acadrust's stream, as it was read back, and the frozen   *)
(* streams of the oracle and of ezdxf are compared by key, leaf by leaf,   *)
(* under the rules of parity/MODEL1.toml, and the rules are held to be     *)
(* needed.  The pairs over saves and of a twin with its save are the same  *)
(* calls with other sides, and are left out.                               *)
(*                                                                         *)
(* A row of the rules has one name: a row with several is several rows.    *)
(***************************************************************************)
EXTENDS Model1

CONSTANTS
  Trials       \* by document, what it may meet: the frozen streams of the oracle
               \* and of ezdxf, and the rules, known and excluded

VARIABLES
  frozen,      \* the frozen streams of this run
  rules,       \* the rules of this run
  reports      \* pair by pair, what the comparison found

judgeVars == <<frozen, rules, reports>>

Pairs == <<<<"ezdxf", "oracle">>, <<"ezdxf", "acadrust">>, <<"oracle", "acadrust">>>>

-----------------------------------------------------------------------------
(* Patterns: a star stands for any run of pieces. *)

\* What stands between the stars.
Parts(pattern) ==
  FoldLeft(LAMBDA parts, piece : IF piece = "*" THEN Append(parts, <<>>)
                                 ELSE [parts EXCEPT ![Len(parts)] = Append(@, piece)],
           <<<<>>>>, pattern)

NoRest == <<"no rest">>

\* What is left of a text after the first place where a part stands.
RestAfter(rest, part) ==
  LET places == {n \in 0..(Len(rest) - Len(part)) : SubSeq(rest, n + 1, n + Len(part)) = part}
      first == CHOOSE n \in places : \A m \in places : n <= m
  IN  IF rest = NoRest \/ places = {} THEN NoRest ELSE SubSeq(rest, first + Len(part) + 1, Len(rest))

\* Mutant: the last part may stand anywhere.
GlobAnyEnd(pattern, text) ==
  LET parts == Parts(pattern)
  IN  IF Len(parts) = 1 THEN pattern = text
      ELSE IsPrefix(parts[1], text) /\
           FoldLeft(RestAfter, SubSeq(text, Len(parts[1]) + 1, Len(text)), Tail(parts)) # NoRest

Glob(pattern, text) ==
  LET parts == Parts(pattern)
      rest == FoldLeft(RestAfter, SubSeq(text, Len(parts[1]) + 1, Len(text)),
                       SubSeq(parts, 2, Len(parts) - 1))
  IN  IF Len(parts) = 1 THEN pattern = text
      ELSE IsPrefix(parts[1], text) /\ rest # NoRest /\ IsSuffix(parts[Len(parts)], rest)

-----------------------------------------------------------------------------
(* A stream as the comparator sees it. *)

ItemKey(r) == IF r.kind = "header" THEN r.name ELSE <<r.kind, "/">> \o r.name

Index(n) == <<"[0]", "[1]", "[2]", "[3]", "[4]", "[5]">>[n]

\* A list is its length, and the leaves of its elements.
LeavesOf(r) ==
  UNION {LET v == r.values[key]
         IN  IF v.t = "list"
             THEN {<<<<key, ".len">>, Whole(Len(v.v))>>} \cup
                  UNION {{<<<<key, Index(n), ".", f>>, v.v[n][f]>> : f \in DOMAIN v.v[n]} : n \in DOMAIN v.v}
             ELSE {<<<<key>>, v>>} : key \in DOMAIN r.values}

\* The records by key; of two with one key the later counts.
IndexOf(stream) ==
  LET keys == {ItemKey(stream[n]) : n \in DOMAIN stream}
      Latest(key) == CHOOSE n \in DOMAIN stream :
                     ItemKey(stream[n]) = key /\ \A m \in DOMAIN stream : ItemKey(stream[m]) = key => m <= n
  IN  [key \in keys |-> [leaf \in {l[1] : l \in LeavesOf(stream[Latest(key)])} |->
                           (CHOOSE l \in LeavesOf(stream[Latest(key)]) : l[1] = leaf)[2]]]

Abs(x) == IF x < 0 THEN -x ELSE x

\* The relative part of the tolerance is a hundredth here, and its floor is
\* smaller than any two numbers are apart.
Within(x, y) == Abs(x - y) * 100 <= (IF Abs(x) > Abs(y) THEN Abs(x) ELSE Abs(y))

Same(x, y) ==
  CASE x.t = "double" -> Within(x.v, y.v)
    [] x.t \in {"point2", "point3"} -> \A n \in DOMAIN x.v : Within(x.v[n], y.v[n])
    [] OTHER -> x.v = y.v

\* "Type", "Value", or nothing.
Difference(x, y) == IF x.t # y.t THEN "Type" ELSE IF Same(x, y) THEN "" ELSE "Value"

-----------------------------------------------------------------------------
(* The comparison. *)

Twin == "twin"

InScope(row, pair) == (row.pairs = {} \/ pair \in row.pairs) /\ (row.fixtures = {} \/ Twin \in row.fixtures)

KnownFor(R, pair, key) == \E row \in R.known : Glob(row.name, key) /\ InScope(row, pair)

ExcludedFor(R, pair, engine, key) ==
  \E row \in R.excluded : row.engine = engine /\ Glob(row.name, key) /\ InScope(row, pair)

Finding(kind, key, disposition, excluded) ==
  [kind |-> kind, key |-> key, disposition |-> disposition, excluded |-> excluded]

Differing(R, pair, key, x, y) ==
  IF Difference(x, y) = "" THEN {}
  ELSE {Finding(Difference(x, y), key, IF KnownFor(R, pair, key) THEN "Known" ELSE "Red", "")}

\* A value on both sides: not stored by one, not to be had from one, or held
\* against the other.
LeafFindings(R, pair, key, x, y) ==
  LET cannot == {engine \in {pair[1], pair[2]} : ExcludedFor(R, pair, engine, key)}
      LeftOut(engine) == {Finding("Value", key, "Excluded", engine)}
  IN  CASE x.t = "null" -> LeftOut(pair[1])
        [] x.t # "null" /\ y.t = "null" -> LeftOut(pair[2])
        [] x.t # "null" /\ y.t # "null" /\ cannot # {} ->
             LeftOut(IF pair[1] \in cannot THEN pair[1] ELSE pair[2])
        [] OTHER -> Differing(R, pair, key, x, y)

IsHeader(item) == <<"value">> \in DOMAIN item

\* A header variable is only ever held against the other; of an entry, the
\* leaves both sides have.
ItemFindings(R, pair, key, a, b) ==
  IF IsHeader(a) THEN Differing(R, pair, key, a[<<"value">>], b[<<"value">>])
  ELSE UNION {LeafFindings(R, pair, key \o <<".">> \o leaf, a[leaf], b[leaf]) : leaf \in DOMAIN a \cap DOMAIN b}

\* A name on one side is what the other cannot produce, or red.
OneSided(R, kind, pair, key, lacking) ==
  IF ExcludedFor(R, pair, lacking, key) THEN Finding(kind, key, "Excluded", lacking)
  ELSE Finding(kind, key, "Red", "")

Compare(R, pair, streams) ==
  UNION {{OneSided(R, "OnlyInA", pair, key, pair[2]) : key \in DOMAIN a \ DOMAIN b}
           \cup {OneSided(R, "OnlyInB", pair, key, pair[1]) : key \in DOMAIN b \ DOMAIN a}
           \cup UNION {ItemFindings(R, pair, key, a[key], b[key]) : key \in DOMAIN a \cap DOMAIN b} :
         a \in {IndexOf(streams[pair[1]])}, b \in {IndexOf(streams[pair[2]])}}

Count(report, disposition) == Cardinality({f \in report : f.disposition = disposition})

Verdict(report) ==
  IF Count(report, "Red") > 0 THEN <<"DIFF", Count(report, "Red")>>
  ELSE IF Count(report, "Known") > 0 THEN <<"KNOWN", Count(report, "Known")>> ELSE <<"MATCH", 0>>

-----------------------------------------------------------------------------
(* The run. *)

JudgeInit == frozen = <<>> /\ rules = <<>> /\ reports = <<>>

\* The run starts once acadrust has answered; one that fails otherwise than by
\* not reading the drawing, or whose stream cannot be parsed, ends it.
Thaw ==
  /\ phase \in {"read", "unread"} /\ doc \in Comparable /\ ~stdin /\ frozen = <<>>
  /\ \E trial \in Trials[doc] : frozen' = trial.frozen /\ rules' = trial.rules
  /\ UNCHANGED <<modelVars, reports>>

Streams == frozen @@ [acadrust |-> read]

\* A drawing acadrust did not open fails the pairs it is a side of.
Judge ==
  /\ frozen # <<>> /\ Len(reports) < Len(Pairs)
  /\ LET pair == Pairs[Len(reports) + 1]
         failed == phase = "unread" /\ pair[2] = "acadrust"
     IN  reports' = Append(reports, [failed |-> failed,
                                     findings |-> IF failed THEN {} ELSE Compare(rules, pair, Streams)])
  /\ UNCHANGED <<modelVars, frozen, rules>>

JudgeNext == Thaw \/ Judge

Judged == Len(reports) = Len(Pairs)

OfThisTwin(row) == row.fixtures = {} \/ Twin \in row.fixtures

\* The rows the run's two tests over the rules call stale.
StaleExcluded ==
  {row \in rules.excluded :
     ~\E n \in DOMAIN reports : \E f \in reports[n].findings :
        f.disposition = "Excluded" /\ f.excluded = row.engine /\ Glob(row.name, f.key) /\ OfThisTwin(row)}

\* Mutant: a row is needed only for a value.
StaleKnownValues ==
  {row \in rules.known :
     ~\E n \in DOMAIN reports : InScope(row, Pairs[n]) /\ \E f \in reports[n].findings :
        Glob(row.name, f.key) /\ f.disposition = "Known" /\ f.kind = "Value"}

StaleKnown ==
  {row \in rules.known :
     ~\E n \in DOMAIN reports : InScope(row, Pairs[n]) /\ \E f \in reports[n].findings :
        Glob(row.name, f.key) /\ f.disposition = "Known" /\ f.kind \in {"Value", "Type"}}

-----------------------------------------------------------------------------
(* The same, said of the streams as a whole. *)

\* A pattern fits a text when its parts can be laid along it, in order, the
\* first at the start and the last at the end.
Fits(pattern, text) ==
  \E parts \in {Parts(pattern)} :
    \E at \in [DOMAIN parts -> 0..Len(text)] :
      LET End(n) == at[n] + Len(parts[n])
      IN  /\ at[1] = 0 /\ End(Len(parts)) = Len(text)
          /\ \A n \in DOMAIN parts : End(n) <= Len(text) /\ SubSeq(text, at[n] + 1, End(n)) = parts[n]
          /\ \A n \in 2..Len(parts) : End(n - 1) <= at[n]

\* Every value of a stream: its place, the item it is in, and itself.  A
\* header variable is an item and a place at once.
Places(stream) ==
  UNION {LET item == ItemKey(stream[n])
         IN  IF stream[n].kind = "header" THEN {<<item, item, stream[n].values.value>>}
             ELSE {<<item \o <<".">> \o leaf[1], item, leaf[2]>> : leaf \in LeavesOf(stream[n])} :
         n \in DOMAIN stream}

\* The word of a pair is the number of places where its streams disagree: a
\* name one of them lacks, or two values of one place that are stored on both
\* sides and differ in type or beyond the tolerance, none of it given up by a
\* row for the engine that cannot have it; and what a known row names is
\* counted only when nothing else is left.
VerdictIsWhatDiffers ==
  reports # <<>> =>
    LET pair == Pairs[Len(reports)]
        report == reports[Len(reports)]
        Named_(rows, key) == \E row \in rows : Fits(row.name, key) /\ InScope(row, pair)
        GivenUp(engines, key) == Named_({row \in rules.excluded : row.engine \in engines}, key)
        Items(stream) == {ItemKey(stream[i]) : i \in DOMAIN stream}
        Disagree(p, q) == /\ q[1] = p[1] /\ p[3].t # "null" /\ q[3].t # "null"
                          /\ p[1] = p[2] \/ ~GivenUp({pair[1], pair[2]}, p[1])
                          /\ Difference(p[3], q[3]) # ""
    IN  ~report.failed =>
        \A a \in {Streams[pair[1]]}, b \in {Streams[pair[2]]} :
        \A lone \in {{key \in Items(a) \ Items(b) : ~GivenUp({pair[2]}, key)}
                       \cup {key \in Items(b) \ Items(a) : ~GivenUp({pair[1]}, key)}} :
        \A places \in {Places(b)} :
        \A apart \in {{p[1] : p \in {x \in Places(a) : \E q \in places : Disagree(x, q)}}} :
        \A known \in {{key \in apart : Named_(rules.known, key)}} :
          Verdict(report.findings) =
            IF lone \cup apart = {} THEN <<"MATCH", 0>>
            ELSE IF lone = {} /\ apart = known THEN <<"KNOWN", Cardinality(known)>>
            ELSE <<"DIFF", Cardinality(lone) + Cardinality(apart \ known)>>

\* A row that the run asks to be taken out may be taken out, and all of them
\* together: no verdict comes to another word or number.
StaleRowsAreIdle ==
  Judged =>
    \A R \in {[known |-> rules.known \ StaleKnown, excluded |-> rules.excluded \ StaleExcluded]} :
      \A n \in DOMAIN reports :
        ~reports[n].failed => Verdict(Compare(R, Pairs[n], Streams)) = Verdict(reports[n].findings)
=============================================================================
