---------------------------- MODULE SubmissionFeed ----------------------------
(***************************************************************************)
(* What the database answers about everybody's submissions while they go   *)
(* on arriving and being judged: the lists of submissions, read page by    *)
(* page by a visitor who follows the Next and Previous links, the two      *)
(* rankings, the solve counts, and a problem's page, which shows a count   *)
(* beside a ranking.  Neither a list (findSubmissionPage) nor the page of  *)
(* a problem is read in one transaction.  A visitor walks through a list   *)
(* or opens a problem: either stands for one of many who do both.          *)
(***************************************************************************)
EXTENDS Naturals, Sequences, FiniteSets

CONSTANTS
  People,      \* ids of accounts
  Problems,
  Visitor,     \* who reads the lists
  Stamps,      \* created_at and id of a submission: its place in time
  PageSize,
  Limit        \* rows a ranking returns

ASSUME PeopleAssumption == People \subseteq Nat /\ Visitor \in People /\ IsFiniteSet(People)
ASSUME StampsAssumption == Stamps \subseteq Nat \ {0} /\ IsFiniteSet(Stamps)
ASSUME PageSizeAssumption == PageSize \in Nat \ {0} /\ Limit \in Nat \ {0}

Everything == "everything"

VARIABLES
  rows,   \* [stamp -> submission] of the submissions that are stored
  walk,   \* the visitor's way through a list
  visit   \* the problem's page the visitor has opened

vars == <<rows, walk, visit>>

Statuses == {"pending", "accepted", "other"}
Submission == [user : People, problem : Problems, status : Statuses]
Lists == [problem : Problems \union {Everything}, mine : BOOLEAN]

Stored == DOMAIN rows

(* shown and total are the answer on the screen, got all stamps seen so    *)
(* far, start those that were stored when the walk began.                  *)
Walk ==
  [list : Lists, page : Nat \ {0}, at : {"closed", "asked", "half", "shown"},
   shown : SUBSET Stamps, total : Nat, got : SUBSET Stamps, start : SUBSET Stamps]

(* solved is the number in the limits box, ranked who is in the ranking.   *)
Visit ==
  [problem : Problems, at : {"closed", "asked", "half", "shown"},
   solved : Nat, ranked : SUBSET People]

FeedTypeOK ==
  /\ Stored \subseteq Stamps /\ rows \in [Stored -> Submission]
  /\ walk \in Walk
  /\ visit \in Visit

-----------------------------------------------------------------------------
(* The statements.                                                         *)

(* buildFilter; listMySubmissions takes the person from the session. *)
Listed(list) ==
  {s \in Stored : /\ list.problem \in {Everything, rows[s].problem}
                  /\ list.mine => rows[s].user = Visitor}

(* Mistaken: the first page is number nought. *)
OffsetFromNought(page) == page * PageSize

Offset(page) == (page - 1) * PageSize

(* Newest first: a row stands below the rows that are newer. *)
RowsOf(list, page) ==
  {s \in Listed(list) :
     LET newer == Cardinality({t \in Listed(list) : t > s})
     IN newer >= Offset(page) /\ newer < Offset(page) + PageSize}

SolvedBy(user, problem) ==
  {s \in Stored : rows[s] = [user |-> user, problem |-> problem, status |-> "accepted"]}

(* created_at of the first accepted submission *)
FirstSolve(user, problem) ==
  CHOOSE s \in SolvedBy(user, problem) : \A t \in SolvedBy(user, problem) : s <= t

Solvers(problem) == {u \in People : SolvedBy(u, problem) # {}}

(* Mistaken: submissions are counted, not the people who made them. *)
AcceptedCount(problem) == Cardinality(UNION {SolvedBy(u, problem) : u \in People})

(* solveCountSql *)
SolveCount(problem) == Cardinality(Solvers(problem))

(* row_number and limit, of those ahead of everyone who stands in a ranking *)
Ranked(ahead) == {u \in DOMAIN ahead : Cardinality(ahead[u]) < Limit}

(* get-problem-ranking *)
ProblemRanking(problem) ==
  Ranked([u \in Solvers(problem) |->
    {v \in Solvers(problem) : FirstSolve(v, problem) < FirstSolve(u, problem)}])

(* get-global-ranking: more problems first, then who got there earlier,    *)
(* then the id.                                                            *)
SolvedCount(user) == Cardinality({p \in Problems : SolvedBy(user, p) # {}})

ReachedAt(user) ==
  LET firsts == {FirstSolve(user, p) : p \in {q \in Problems : SolvedBy(user, q) # {}}}
  IN CHOOSE s \in firsts : \A t \in firsts : t <= s

Leads(u, v) ==
  IF SolvedCount(u) # SolvedCount(v) THEN SolvedCount(u) > SolvedCount(v)
  ELSE \/ ReachedAt(u) < ReachedAt(v)
       \/ ReachedAt(u) = ReachedAt(v) /\ u < v

Standing == {u \in People : SolvedCount(u) > 0}
GlobalRanking == Ranked([u \in Standing |-> {v \in Standing : Leads(v, u)}])

-----------------------------------------------------------------------------
(* Submissions.  The stamp is taken when an insert begins, so one that     *)
(* began earlier may become visible later.                                 *)

(* A page of the site with the list it starts to read. *)
OpensList(list) ==
  walk = [list |-> list, page |-> 1, at |-> "asked", shown |-> {}, total |-> 0,
          got |-> {}, start |-> {}]

SubmissionsPage == OpensList([problem |-> Everything, mine |-> FALSE])
MySubmissionsPage == OpensList([problem |-> Everything, mine |-> TRUE])

(* The tab of a problem's page lists the first page of one's attempts. *)
ProblemSubmissionsPanel(problem) == OpensList([problem |-> problem, mine |-> TRUE])

(* The page of a problem, one that is published. *)
ProblemPage(problem) ==
  visit = [problem |-> problem, at |-> "asked", solved |-> 0, ranked |-> {}]

NoWalk ==
  [list |-> [problem |-> Everything, mine |-> FALSE], page |-> 1, at |-> "closed",
   shown |-> {}, total |-> 0, got |-> {}, start |-> {}]

NoVisit(problem) == [problem |-> problem, at |-> "closed", solved |-> 0, ranked |-> {}]

Init ==
  /\ \E old \in SUBSET Stamps : rows \in [old -> Submission]
  /\ \E problem \in Problems :
       \/ /\ \/ SubmissionsPage
             \/ MySubmissionsPage
             \/ ProblemSubmissionsPanel(problem)
          /\ visit = NoVisit(CHOOSE p \in Problems : TRUE)
       \/ ProblemPage(problem) /\ walk = NoWalk

CreateSubmission(stamp, user, problem) ==
  /\ stamp \in Stamps \ Stored
  /\ rows' = [s \in Stored \union {stamp} |->
                IF s = stamp THEN [user |-> user, problem |-> problem, status |-> "pending"]
                             ELSE rows[s]]
  /\ UNCHANGED <<walk, visit>>

(* Mistaken: a verdict that was written is written over by a later one.    *)
JudgeAgain(stamp, status) ==
  /\ stamp \in Stored
  /\ status # "pending"
  /\ rows' = [rows EXCEPT ![stamp].status = status]
  /\ UNCHANGED <<walk, visit>>

Judge(stamp, status) ==
  /\ stamp \in Stored
  /\ rows[stamp].status = "pending" /\ status # "pending"
  /\ rows' = [rows EXCEPT ![stamp].status = status]
  /\ UNCHANGED <<walk, visit>>

-----------------------------------------------------------------------------
(* A list.  A page is rendered on the server from both statements.         *)

SelectRows ==
  /\ walk.at = "asked"
  /\ LET shown == RowsOf(walk.list, walk.page)
     IN walk' = [walk EXCEPT !.at = "half", !.shown = shown, !.got = @ \union shown,
                   !.start = IF walk.got = {} /\ walk.page = 1 THEN Listed(walk.list) ELSE @]
  /\ UNCHANGED <<rows, visit>>

CountRows ==
  /\ walk.at = "half"
  /\ walk' = [walk EXCEPT !.at = "shown", !.total = Cardinality(Listed(walk.list))]
  /\ UNCHANGED <<rows, visit>>

(* Mistaken: one page more than there are. *)
OneMorePage(total) == 1 + total \div PageSize

TotalPages(total) == IF total = 0 THEN 1 ELSE (total + PageSize - 1) \div PageSize

HasPrevious == walk.page > 1
HasNext == walk.page < TotalPages(walk.total)

(* PaginationControls; without a second page there are none, and the panel *)
(* has none at all.                                                        *)
Follow(page) ==
  /\ walk.at = "shown"
  /\ walk.list.problem = Everything
  /\ walk.total > PageSize
  /\ \/ page = walk.page - 1 /\ HasPrevious
     \/ page = walk.page + 1 /\ HasNext
  /\ walk' = [walk EXCEPT !.page = page, !.at = "asked", !.shown = {}, !.total = 0]
  /\ UNCHANGED <<rows, visit>>

-----------------------------------------------------------------------------
(* The page of a problem awaits the problem before it asks for the ranking. *)

GetProblem ==
  /\ visit.at = "asked"
  /\ visit' = [visit EXCEPT !.at = "half", !.solved = SolveCount(visit.problem)]
  /\ UNCHANGED <<rows, walk>>

GetProblemRanking ==
  /\ visit.at = "half"
  /\ visit' = [visit EXCEPT !.at = "shown", !.ranked = ProblemRanking(visit.problem)]
  /\ UNCHANGED <<rows, walk>>

Next ==
  \/ \E s \in Stamps, u \in People, p \in Problems : CreateSubmission(s, u, p)
  \/ \E s \in Stamps, status \in Statuses : Judge(s, status)
  \/ SelectRows
  \/ CountRows
  \/ \E page \in 0..(Cardinality(Stamps) + 1) : Follow(page)
  \/ GetProblem
  \/ GetProblemRanking

Spec == Init /\ [][Next]_vars

-----------------------------------------------------------------------------
(* Properties.                                                             *)

(* Whoever has come to a page without a Next link has seen every           *)
(* submission that was there when the walk began, however many arrived     *)
(* meanwhile: new ones push the old ones towards the pages still to come,  *)
(* and the total is counted after the rows are read.                       *)
WalkMissesNothing == walk.at = "shown" /\ ~HasNext => walk.start \subseteq walk.got

(* A Next link leads to a page that has rows, also when it is followed     *)
(* much later: TotalPages is right and nothing is ever taken away.         *)
NextPageHasRows ==
  walk.at = "shown" /\ walk.total > PageSize /\ HasNext => RowsOf(walk.list, walk.page + 1) # {}

(* The three places that tell who has solved what agree: a problem's solve *)
(* count is the length of its ranking, and a person's count in the global  *)
(* ranking is the number of problem rankings the person stands in.         *)
RankingsAgree ==
  /\ \A p \in Problems :
       LET longest == IF SolveCount(p) < Limit THEN SolveCount(p) ELSE Limit
       IN Cardinality(ProblemRanking(p)) = longest
  /\ Cardinality(People) <= Limit =>
       \A u \in GlobalRanking :
         SolvedCount(u) = Cardinality({p \in Problems : u \in ProblemRanking(p)})

(* The number of solvers in the limits box and the ranking in the panel    *)
(* are read one after the other.  The page never counts a solver its       *)
(* ranking does not name, up to the limit: the count is awaited first, and *)
(* an accepted submission stays accepted.                                  *)
CountedAreRanked ==
  visit.at = "shown" =>
    Cardinality(visit.ranked) >= IF visit.solved < Limit THEN visit.solved ELSE Limit

(* The rows and the visitor's pages keep their types, and Next leads to    *)
(* rows.                                                                   *)
FeedInv == FeedTypeOK /\ NextPageHasRows
=============================================================================
