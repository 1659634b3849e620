---------------------------- MODULE LogCompressor ----------------------------
(* CompressLog and LooksLikeLog: which lines of a tool's output survive.    *)
(* A line is [class, indented, size, key]: what the patterns recognise in   *)
(* it, its bytes, and what tells one warning from another.                  *)
EXTENDS Integers, Sequences, FiniteSets, SequencesExt, FiniteSetsExt

CONSTANTS BudgetPercent, BudgetMin, BudgetMax,   \* 10, 20 and 200
          Radius, MaxStack,                      \* 2 and 60
          MinLines, SignalPercent,               \* 8 and 30
          MarkerSize                             \* bytes of "... n lines omitted ..."

ASSUME LogAssumption ==
  /\ BudgetPercent \in Nat /\ BudgetMin \in Nat /\ BudgetMax \in Nat
  /\ Radius \in Nat /\ MaxStack \in Nat /\ MarkerSize \in Nat
  /\ SignalPercent \in Nat \ {0}

Blank(l) == l.class = "blank"
ExceptionLine(l) == l.class = "exception"
ErrorLine(l) == l.class \in {"error", "exception"}
FailLine(l) == l.class \in {"fail", "run"}
StackSignal(l) == l.class \in {"frame", "header"}
LogSignal(l) == ErrorLine(l) \/ FailLine(l) \/ StackSignal(l) \/ l.class \in {"warn", "info", "summary"}

-----------------------------------------------------------------------------
(* Stack regions: a traceback header and the indented lines after it, or    *)
(* consecutive frames.  Blank lines do not end a region but do not extend   *)
(* it either; the line that ends one may begin the next.                    *)
NoRegion == [first |-> 0, last |-> 0, python |-> FALSE]
Extends(l, r) == IF r.python THEN l.indented ELSE l.class = "frame"

(* One line more: done are the regions that have ended. *)
Scan(lines, st, i) ==
  LET l == lines[i]
  IN  IF Blank(l) THEN st
      ELSE IF st.open # NoRegion /\ Extends(l, st.open) THEN [st EXCEPT !.open.last = i]
      ELSE [done |-> st.done \cup {st.open},
            open |-> IF StackSignal(l)
                     THEN [first |-> i, last |-> i, python |-> l.class = "header"]
                     ELSE NoRegion]
StackRegions(lines) ==
  LET scanned == FoldLeftDomain(LAMBDA st, i : Scan(lines, st, i), [done |-> {}, open |-> NoRegion], lines)
  IN  (scanned.done \cup {scanned.open}) \ {NoRegion}

InRegion(i, r) == i \in r.first..r.last

Kind(l, stacked) ==
  CASE ErrorLine(l) -> "error"
    [] l.class = "run" -> "info"
    [] l.class \in {"fail", "summary", "warn", "info"} -> l.class
    [] l.class \in {"frame", "header", "other"} /\ stacked -> "stack"
    [] OTHER -> "other"
Kinds(lines, regions) ==
  [i \in DOMAIN lines |-> Kind(lines[i], \E r \in regions : InRegion(i, r))]

(* The exception header stands in the region or right behind it. *)
Behind(lines, r) ==
  {i \in {r.last + 1} \cap DOMAIN lines : ExceptionLine(lines[i])}
HasError(lines, kinds, r) ==
  \/ \E i \in r.first..r.last : kinds[i] \in {"error", "fail"}
  \/ Behind(lines, r) # {}

(* Mutant: a long stack keeps its tail. *)
TailKept(r) == Max({r.first, r.last - MaxStack + 1})..r.last

(* A long stack keeps its head and its tail. *)
StackKept(r) ==
  IF r.last - r.first + 1 > MaxStack
  THEN (r.first..(r.first + MaxStack \div 2 - 1)) \cup ((r.last - MaxStack \div 2 + 1)..r.last)
  ELSE r.first..r.last

MustKeep(lines, kinds, erring) ==
  {i \in DOMAIN lines : kinds[i] \in {"error", "fail", "summary"}}
  \cup UNION {StackKept(r) \cup Behind(lines, r) : r \in erring}

-----------------------------------------------------------------------------
(* The budget is filled by score, equal scores in the order of lines.       *)
AdaptiveBudget(n) == Min({BudgetMax, Max({BudgetMin, (n * BudgetPercent) \div 100})})

Score(kind, inErring) ==
  CASE kind \in {"error", "fail", "summary"} -> 90
    [] kind = "stack" -> IF inErring THEN 70 ELSE 30
    [] kind = "warn" -> 40
    [] kind = "info" -> 5
    [] OTHER -> 0
Scores(kinds, erring) ==
  [i \in DOMAIN kinds |-> Score(kinds[i], \E r \in erring : InRegion(i, r))]

(* Of warnings that say the same only the first is a candidate. *)
Candidates(lines, kinds, scores, kept) ==
  {i \in DOMAIN lines \ kept :
     /\ scores[i] > 0
     /\ kinds[i] = "warn" =>
          ~\E j \in DOMAIN lines \ kept :
             j < i /\ kinds[j] = "warn" /\ lines[j].key = lines[i].key}

(* What must be kept counts against the budget too. *)
Filled(must, candidates, scores) ==
  LET Before(j, i) == scores[j] > scores[i] \/ (scores[j] = scores[i] /\ j < i)
      room == AdaptiveBudget(Len(scores)) - Cardinality(must)
  IN  must \cup {i \in candidates : Cardinality({j \in candidates : Before(j, i)}) < room}

Kept(lines, regions, kinds) ==
  LET erring == {r \in regions : HasError(lines, kinds, r)}
      scores == Scores(kinds, erring)
      must == MustKeep(lines, kinds, erring)
  IN  Filled(must, Candidates(lines, kinds, scores, must), scores)

WithContext(lines, kept) ==
  {i \in DOMAIN lines : \E j \in kept : i - j \in (-Radius)..Radius}

(* A run of dropped lines becomes a marker when that is the cheaper; the    *)
(* others are shown.                                                        *)
Bytes(lines, is) == MapThenSumSet(LAMBDA i : lines[i].size, is)
Runs(lines, kept) ==
  {q[1]..q[2] : q \in {p \in (DOMAIN lines) \X (DOMAIN lines) :
     /\ p[1] <= p[2] /\ (p[1]..p[2]) \cap kept = {}
     /\ (p[1] - 1) \in kept \cup {0} /\ (p[2] + 1) \in kept \cup {Len(lines) + 1}}}
Omitted(lines, kept) == {run \in Runs(lines, kept) : Bytes(lines, run) > MarkerSize}

CompressLog(lines) ==
  LET KeptIn(regions) == Kept(lines, regions, Kinds(lines, regions))
      omitted == IF Len(lines) < 2 THEN {}
                 ELSE Omitted(lines, WithContext(lines, KeptIn(StackRegions(lines))))
  IN  [shown |-> DOMAIN lines \ UNION omitted,
       markers |-> {[at |-> Min(run), counts |-> Cardinality(run)] : run \in omitted}]
ResultBytes(lines, result) == Bytes(lines, result.shown) + MarkerSize * Cardinality(result.markers)

(* Enough of the lines look like a log, or errors, results and structure    *)
(* corroborate each other.                                                  *)
LooksLikeLog(lines) ==
  LET Count(Is(_)) == Cardinality({i \in DOMAIN lines : Is(lines[i])})
      speaking == Len(lines) - Count(Blank)
      corroborated == \/ Count(LAMBDA l : l.class = "summary") >= 1
                      \/ \E r \in StackRegions(lines) : r.last > r.first
                      \/ Count(StackSignal) >= 1
  IN  /\ Len(lines) >= MinLines /\ speaking > 0
      /\ \/ 100 * Count(LogSignal) >= SignalPercent * speaking
         \/ Count(ErrorLine) >= 3
         \/ corroborated /\ (Count(ErrorLine) >= 2 \/ Count(FailLine) >= 1)
=============================================================================
