------------------------------ MODULE Dashboard ------------------------------
(***************************************************************************)
(* What users see of the saved reports (dashboard.go, the report           *)
(* repositories): lists read page by page, counts by category and by       *)
(* severity, over windows of time that are resolved anew at every call.    *)
(* Meanwhile reports are saved, with the time their generation began, and  *)
(* deleted, and midnight passes.                                           *)
(*                                                                         *)
(* Time is counted in ticks, PerDay of them to a day of the one time zone  *)
(* the code knows; day 0 is a Monday.                                      *)
(***************************************************************************)
EXTENDS Findings

CONSTANTS Users, PerDay,
          MonthStart,   \* the calendar: of each day the first day of its month
          Contents,     \* [overall, list], list of [type, title, cvss]
          Queries,      \* [user, range, from, to, limit]; user All for an administrator
          All, None,
          MaxClock, MaxReports          \* bounds of the instance

(* The windows with a shorthand, and those that mean no bounds; any other   *)
(* range is refused. *)
Shorthands == {"today", "7d", "30d", "this_week", "this_month"}
AllTime == {"all", "custom", None}

Days == 0 .. (MaxClock \div PerDay)

ASSUME DashboardAssumption ==
  /\ PerDay \in Nat \ {0} /\ MaxClock \in Nat
  /\ None \notin Int
  /\ \A d, e \in Days : /\ MonthStart[d] \in Int
                        /\ d <= e => MonthStart[d] <= MonthStart[e]
  /\ \A q \in Queries : {q.from, q.to, q.limit} \subseteq Int \cup {None}
  /\ \A c \in Contents : c.overall \in Severities /\ c.list \in Seq(ToSet(c.list))

VARIABLES clock, begun,   \* reports begun, with the time each began
          pending,        \* begun and not saved
          rows,           \* the table
          reader          \* somebody reading a list to its end

boardVars == <<clock, begun, pending, rows, reader>>

----------------------------------------------------------------------------
(* Windows and pages.                                                      *)

StartOfDay(now) == now - (now % PerDay)

DaysBack(now, n) == StartOfDay(now) - n * PerDay

Weekday(now) == (now \div PerDay) % 7

\* Bounds that exclude nothing stand for the zero times.
Unbounded == [from |-> -100 * PerDay, to |-> MaxClock]

Explicit(q) == {q.from, q.to} # {None}

(* What resolveDateRange refuses, and nothing is listed or counted for.     *)
Resolvable(q) ==
  IF Explicit(q) THEN None \notin {q.from, q.to} => q.from <= q.to
  ELSE q.range \in Shorthands \cup AllTime

(* resolveDateRange: bounds given win, and one not given excludes nothing;  *)
(* a shorthand is calendar-aligned and ends now. *)
ResolveDateRange(q, now) ==
  LET start == CASE q.range = "today" -> StartOfDay(now)
                 [] q.range = "7d" -> DaysBack(now, 6)
                 [] q.range = "30d" -> DaysBack(now, 29)
                 [] q.range = "this_week" -> DaysBack(now, Weekday(now))
                 [] q.range = "this_month" -> MonthStart[now \div PerDay] * PerDay
      bound(given, none) == IF given = None THEN none ELSE given
  IN IF ~ Explicit(q) /\ q.range \in Shorthands THEN [from |-> start, to |-> now]
     ELSE [from |-> bound(q.from, Unbounded.from), to |-> bound(q.to, Unbounded.to)]

(* parseListReportsRequest and normalizeReportFilter: a limit asked as 0   *)
(* travels as -1 and means no limit, one not given means 20. *)
NormalizeLimit(asked) ==
  LET limit == IF asked = 0 THEN -1 ELSE IF asked = None THEN 0 ELSE asked
  IN IF limit = -1 THEN 0 ELSE IF limit <= 0 THEN 20 ELSE limit

Matching(user, window) ==
  {r \in rows : /\ user \in {All, r.user}
                /\ r.created >= window.from /\ r.created <= window.to}

(* The orders a query may answer in: newest first, and between reports of  *)
(* one time whichever the database happens to choose, anew at each query.   *)
Orders(set) ==
  {order \in SetToSeqs(set) :
     \A i, j \in DOMAIN order : i < j => order[i].created >= order[j].created}

(* A mutation: pages are counted from 0. *)
OffsetFromZero(page, limit) == page * limit

Offset(page, limit) == IF page > 1 THEN (page - 1) * limit ELSE 0

PageOf(order, page, limit) ==
  LET rest == Len(order) - Offset(page, limit)
  IN IF limit = 0 THEN order
     ELSE [i \in 1..(IF rest < limit THEN rest ELSE limit) |-> order[Offset(page, limit) + i]]

(* FindByUserIDFiltered: the answers it may give, each a page and the total *)
(* of all pages. *)
FindByUserIDFiltered(user, window, page, limit) ==
  {[total |-> Len(order), page |-> PageOf(order, page, limit)] :
     order \in Orders(Matching(user, window))}

----------------------------------------------------------------------------
(* The charts.                                                             *)

(* A mutation: the marker of older static reports is shown as a category. *)
CategoryLabelOfType(v) == IF v.type = Blank THEN VulnCategory(v.title) ELSE v.type

(* categoryLabel: the marker types give way to the category of the title. *)
CategoryLabel(v) ==
  IF v.type \in {Blank, "SAST", "DAST"} THEN VulnCategory(v.title) ELSE v.type

Loaded(user, window) == {a.page : a \in FindByUserIDFiltered(user, window, 1, 0)}

(* The findings of reports, by report and place. *)
Entries(reports) == UNION {{r} \X (1..Len(r.list)) : r \in reports}

Entry(p) == p[1].list[p[2]]

(* aggregateTopCategories without its limit: findings per category, and    *)
(* the mean of the scores above zero, in tenths. *)
AggregateTopCategories(reports) ==
  LET all == Entries(ToSet(reports))
      of(c) == {p \in all : CategoryLabel(Entry(p)) = c}
      scored(c) == {p \in of(c) : Entry(p).cvss > 0}
      mean(c) == IF scored(c) = {} THEN 0
                 ELSE MapThenSumSet(LAMBDA p : Entry(p).cvss, scored(c))
                        \div Cardinality(scored(c))
  IN [c \in {CategoryLabel(Entry(p)) : p \in all} |->
        [count |-> Cardinality(of(c)), cvss |-> mean(c)]]

(* aggregateScanRanking: per severity the number of reports and the newest *)
(* one, the first of them in the list. *)
AggregateScanRanking(reports) ==
  [s \in Severities |->
     LET of == {i \in 1..Len(reports) : reports[i].overall = s}
         newest == CHOOSE i \in of :
                     \A j \in of : \/ reports[j].created < reports[i].created
                                   \/ reports[j].created = reports[i].created /\ i <= j
     IN [count |-> Cardinality(of), id |-> IF of = {} THEN 0 ELSE reports[newest].id]]

----------------------------------------------------------------------------
(* Behaviour.                                                              *)

Closed == [open |-> FALSE, done |-> FALSE]

BoardInit ==
  /\ clock = 0 /\ begun = 0
  /\ pending = {} /\ rows = {}
  /\ reader = Closed

Tick ==
  /\ clock < MaxClock
  /\ clock' = clock + 1
  /\ UNCHANGED <<begun, pending, rows, reader>>

(* A generation begins and takes the time it will be filed under, perhaps  *)
(* that of another. *)
Begin(u) ==
  /\ begun < MaxReports
  /\ begun' = begun + 1
  /\ pending' = pending \cup {[id |-> begun + 1, user |-> u, created |-> clock]}
  /\ UNCHANGED <<clock, rows, reader>>

(* It is saved, sooner or later than others begun after it. *)
SaveReport(p) ==
  /\ p \in pending
  /\ pending' = pending \ {p}
  /\ \E c \in Contents :
       rows' = rows \cup {[id |-> p.id, user |-> p.user, created |-> p.created,
                           overall |-> c.overall, list |-> c.list]}
  /\ UNCHANGED <<clock, begun, reader>>

(* DeleteReport; a reader notes that the table lost a row under it. *)
DeleteReport(r) ==
  /\ r \in rows
  /\ rows' = rows \ {r}
  /\ reader' = IF reader.open THEN [reader EXCEPT !.lost = TRUE] ELSE reader
  /\ UNCHANGED <<clock, begun, pending>>

(* Somebody begins to read a list from its first page; a window that is     *)
(* refused is not read. *)
Open(q) ==
  /\ ~ reader.open /\ Resolvable(q)
  /\ reader' = [open |-> TRUE, done |-> FALSE, query |-> q, page |-> 1, seen |-> {},
                began |-> {r.id : r \in Matching(q.user, ResolveDateRange(q, clock))},
                lost |-> FALSE]
  /\ UNCHANGED <<clock, begun, pending, rows>>

(* ListReports for the next page, the window resolved at this moment; a    *)
(* page that is not full, or an unlimited one, is the last. *)
ListReports ==
  /\ reader.open /\ ~ reader.done
  /\ LET q == reader.query
         limit == NormalizeLimit(q.limit)
     IN \E found \in FindByUserIDFiltered(q.user, ResolveDateRange(q, clock),
                                          reader.page, limit) :
          reader' = [reader EXCEPT
                       !.seen = @ \cup {r.id : r \in ToSet(found.page)},
                       !.page = @ + 1,
                       !.done = limit = 0 \/ Len(found.page) < limit]
  /\ UNCHANGED <<clock, begun, pending, rows>>

Close ==
  /\ reader.open
  /\ reader' = Closed
  /\ UNCHANGED <<clock, begun, pending, rows>>

BoardNext ==
  \/ Tick
  \/ \E u \in Users : Begin(u)
  \/ \E p \in pending : SaveReport(p)
  \/ \E r \in rows : DeleteReport(r)
  \/ \E q \in Queries : Open(q)
  \/ ListReports
  \/ Close

BoardSpec == BoardInit /\ [][BoardNext]_boardVars

----------------------------------------------------------------------------
(* Properties.                                                             *)

(* A report that shares its time with no other of the set.                 *)
Alone(set, r) == \A s \in set : s.created = r.created => s = r

(* Who reads a list to its end has seen every report that was in it when   *)
(* the reading began and still is, although reports were saved meanwhile,  *)
(* some filed under earlier times, although midnight may have moved the    *)
(* window, and although reports of one time change places between two      *)
(* pages: only one of those can be skipped, or any when another was        *)
(* deleted. *)
(* (FindByUserIDFiltered: newest first, pages by offset.) *)
PagingMissesNothing ==
  reader.done /\ ~ reader.lost =>
    LET listed == Matching(reader.query.user, ResolveDateRange(reader.query, clock))
    IN \A r \in listed : Alone(listed, r) /\ r.id \in reader.began => r.id \in reader.seen

Sum(f) ==
  LET keys == SetToSeq(DOMAIN f)
      upto[i \in 0..Len(keys)] == IF i = 0 THEN 0 ELSE upto[i - 1] + f[keys[i]].count
  IN upto[Len(keys)]

(* The charts and the list of one window tell of the same reports: the     *)
(* ranking counts as many as the list has and points, for each severity,   *)
(* at a report of the list that none of its kind is newer than; the        *)
(* categories count every finding once and none under a marker type.  They *)
(* depend on the table alone, whoever reads a list, and hold in whatever   *)
(* order each of the queries answers. *)
(* (TopCategories, ScanRanking, ListReports.) *)
ChartsAgreeWithTheList ==
  ~ reader.open => \A q \in Queries : Resolvable(q) =>
    LET window == ResolveDateRange(q, clock)
        matching == Matching(q.user, window)
    IN \A loaded \in Loaded(q.user, window),
         listed \in FindByUserIDFiltered(q.user, window, 1, 1) :
         LET ranking == AggregateScanRanking(loaded)
             categories == AggregateTopCategories(loaded)
         IN /\ Sum(ranking) = listed.total
            /\ \A r \in matching : \E n \in matching :
                 /\ n.id = ranking[r.overall].id
                 /\ n.overall = r.overall /\ n.created >= r.created
            /\ Sum(categories) = Cardinality(Entries(matching))
            /\ DOMAIN categories \cap {"SAST", "DAST"} = {}

=============================================================================
