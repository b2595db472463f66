----------------------------- MODULE FeedProofs -----------------------------
(***************************************************************************)
(* Theorems about the lists and rankings, for any people, problems and     *)
(* stamps, any page size and any limit: a walk through a list misses       *)
(* nothing, a Next link leads to rows, and what counts solvers agrees.     *)
(***************************************************************************)
EXTENDS SubmissionFeed, FiniteSetTheorems, TLAPS

-----------------------------------------------------------------------------
(* Ranks.  Each of S has those ahead of it, and of any two one is ahead of *)
(* the other, together with all that are ahead of it.                      *)
InLine(S, ahead) ==
  /\ \A u \in S : ahead[u] \subseteq S \ {u}
  /\ \A u, v \in S : u # v =>
       \/ u \in ahead[v] /\ ahead[u] \subseteq ahead[v]
       \/ v \in ahead[u] /\ ahead[v] \subseteq ahead[u]

LEMMA AheadIsLess ==
  ASSUME NEW S, IsFiniteSet(S), NEW T \in SUBSET S, NEW U \in SUBSET S, NEW u,
         u \in T, u \notin U, U \subseteq T
  PROVE  Cardinality(U) < Cardinality(T)
  <1>1. IsFiniteSet(T) /\ IsFiniteSet(U)
    BY FS_Subset
  <1>2. Cardinality(T) \in Nat /\ Cardinality(U) \in Nat
    BY <1>1, FS_CardinalityType
  <1>3. Cardinality(U) <= Cardinality(T) /\ (Cardinality(T) = Cardinality(U) => T = U)
    BY <1>1, FS_Subset
  <1> QED
    BY <1>2, <1>3

(* The ranks in a line are 0 and up, each of them once.                    *)
LEMMA RanksAreFull ==
  ASSUME NEW S, IsFiniteSet(S), NEW ahead, InLine(S, ahead)
  PROVE  [u \in S |-> Cardinality(ahead[u])] \in Bijection(S, 0..(Cardinality(S) - 1))
  <1> DEFINE rank == [u \in S |-> Cardinality(ahead[u])]
             N == 0..(Cardinality(S) - 1)
  <1>1. Cardinality(S) \in Nat
    BY FS_CardinalityType
  <1>2. ASSUME NEW u \in S PROVE rank[u] \in N
    <2>1. ahead[u] \in SUBSET S /\ u \notin ahead[u]
      BY DEF InLine
    <2>2. Cardinality(ahead[u]) < Cardinality(S)
      BY <2>1, AheadIsLess
    <2>3. Cardinality(ahead[u]) \in Nat
      BY <2>1, FS_Subset, FS_CardinalityType
    <2> QED
      BY <1>1, <2>2, <2>3
  <1>3. ASSUME NEW u \in S, NEW v \in S, u \in ahead[v], ahead[u] \subseteq ahead[v]
        PROVE  rank[u] < rank[v]
    <2>1. ahead[u] \in SUBSET S /\ ahead[v] \in SUBSET S /\ u \notin ahead[u]
      BY DEF InLine
    <2> QED
      BY <1>3, <2>1, AheadIsLess
  <1>4. ASSUME NEW u \in S, NEW v \in S, rank[u] = rank[v] PROVE u = v
    <2> SUFFICES ASSUME u # v PROVE FALSE
      OBVIOUS
    <2>1. rank[u] < rank[v] \/ rank[v] < rank[u]
      BY <1>3 DEF InLine
    <2>2. rank[u] \in N /\ rank[v] \in N
      BY <1>2
    <2> HIDE DEF rank
    <2> QED
      BY <1>1, <1>4, <2>1, <2>2
  <1>5. rank \in Injection(S, N)
    <2>1. rank \in [S -> N] /\ DOMAIN rank = S
      BY <1>2
    <2> HIDE DEF rank
    <2> QED
      BY <1>4, <2>1 DEF Injection, IsInjective
  <1>6. IsFiniteSet(N) /\ Cardinality(N) = Cardinality(S)
    BY <1>1, FS_Interval
  <1> HIDE DEF rank, N
  <1>7. rank \in Surjection(S, N)
    BY <1>5, <1>6, FS_Injection
  <1> QED
    BY <1>5, <1>7 DEF Bijection, rank, N

(* Somebody has each rank there is. *)
LEMMA RankIsTaken ==
  ASSUME NEW S, IsFiniteSet(S), NEW ahead, InLine(S, ahead),
         NEW k \in Nat, k < Cardinality(S)
  PROVE  \E u \in S : Cardinality(ahead[u]) = k
  <1>1. [u \in S |-> Cardinality(ahead[u])] \in Surjection(S, 0..(Cardinality(S) - 1))
    BY RanksAreFull DEF Bijection
  <1>2. k \in 0..(Cardinality(S) - 1)
    BY FS_CardinalityType
  <1> QED
    BY <1>1, <1>2 DEF Surjection

LEMMA FirstExists ==
  ASSUME NEW S, IsFiniteSet(S), S # {}, NEW ahead, InLine(S, ahead)
  PROVE  \E u \in S : Cardinality(ahead[u]) = 0
  <1>1. 0 \in Nat /\ 0 < Cardinality(S)
    BY FS_EmptySet, FS_CardinalityType
  <1> QED
    BY <1>1, RankIsTaken

(* A limit takes that many of a line, or all.                              *)
LEMMA FirstOfLine ==
  ASSUME NEW S, IsFiniteSet(S), NEW ahead, InLine(S, ahead), NEW limit \in Nat
  PROVE  LET first == {u \in S : Cardinality(ahead[u]) < limit}
         IN /\ IsFiniteSet(first)
            /\ Cardinality(first) = IF Cardinality(S) < limit THEN Cardinality(S) ELSE limit
  <1> DEFINE rank == [u \in S |-> Cardinality(ahead[u])]
             first == {u \in S : Cardinality(ahead[u]) < limit}
             n == Cardinality(S)
             m == IF n < limit THEN n ELSE limit
  <1>1. n \in Nat /\ m \in Nat
    BY FS_CardinalityType
  <1>2. rank \in [S -> 0..(n - 1)] /\ IsInjective(rank)
        /\ \A k \in 0..(n - 1) : \E u \in S : rank[u] = k
    BY RanksAreFull DEF Bijection, Injection, Surjection
  <1>3. first = {u \in S : rank[u] < limit} /\ DOMAIN rank = S
    OBVIOUS
  <1>4. first \in SUBSET S
    OBVIOUS
  <1> HIDE DEF rank, first, n
  <1> DEFINE part == [u \in first |-> rank[u]]
  <1>5. part \in [first -> 0..(m - 1)]
    <2>1. ASSUME NEW u \in first PROVE rank[u] \in 0..(m - 1)
      <3>1. rank[u] \in 0..(n - 1) /\ rank[u] < limit
        BY <1>2, <1>3
      <3> QED
        BY <1>1, <3>1
    <2> QED
      BY <2>1
  <1>6. IsInjective(part)
    BY <1>2, <1>3 DEF IsInjective
  <1>7. ASSUME NEW k \in 0..(m - 1) PROVE \E u \in first : part[u] = k
    <2>1. k \in 0..(n - 1) /\ k < limit
      BY <1>1
    <2>2. PICK u \in S : rank[u] = k
      BY <1>2, <2>1
    <2> QED
      BY <1>3, <2>1, <2>2
  <1>8. part \in Bijection(first, 0..(m - 1))
    <2> HIDE DEF part, m
    <2> QED
      BY <1>5, <1>6, <1>7 DEF Bijection, Injection, Surjection
  <1>9. IsFiniteSet(first)
    BY <1>4, FS_Subset
  <1>10. Cardinality(0..(m - 1)) = Cardinality(first)
    <2>1. ExistsBijection(first, 0..(m - 1))
      BY <1>8 DEF ExistsBijection
    <2> QED
      BY <1>9, <2>1, FS_Bijection
  <1>11. Cardinality(0..(m - 1)) = m
    <2> HIDE DEF m
    <2>1. Cardinality(0..(m - 1)) = IF 0 > m - 1 THEN 0 ELSE m - 1 - 0 + 1
      BY <1>1, FS_Interval
    <2> QED
      BY <1>1, <2>1
  <1> QED
    BY <1>9, <1>10, <1>11 DEF first, n

(* Numbers stand in line, smallest first or largest first.                 *)
LEMMA NumbersInLine ==
  ASSUME NEW S \in SUBSET Nat
  PROVE  /\ InLine(S, [u \in S |-> {v \in S : v < u}])
         /\ InLine(S, [u \in S |-> {v \in S : v > u}])
  <1>1. ASSUME NEW u \in S, NEW v \in S, u < v
        PROVE  /\ u \in {w \in S : w < v} /\ {w \in S : w < u} \subseteq {w \in S : w < v}
               /\ v \in {w \in S : w > u} /\ {w \in S : w > v} \subseteq {w \in S : w > u}
    <2>1. \A w \in S : w \in Nat
      OBVIOUS
    <2>2. \A w \in S : (w < u => w < v) /\ (w > v => w > u)
      BY <1>1, <2>1
    <2> QED
      BY <1>1, <2>1, <2>2
  <1>2. \A u, v \in S : u # v => u < v \/ v < u
    OBVIOUS
  <1>3. \A u \in S : {w \in S : w < u} \subseteq S \ {u} /\ {w \in S : w > u} \subseteq S \ {u}
    OBVIOUS
  <1> DEFINE below == [u \in S |-> {v \in S : v < u}]
             above == [u \in S |-> {v \in S : v > u}]
  <1>4. /\ \A u \in S : below[u] = {v \in S : v < u}
        /\ \A u \in S : above[u] = {v \in S : v > u}
    OBVIOUS
  <1> HIDE DEF below, above
  <1>5. InLine(S, below)
    BY <1>1, <1>2, <1>3, <1>4 DEF InLine
  <1>6. InLine(S, above)
    BY <1>1, <1>2, <1>3, <1>4 DEF InLine
  <1> QED
    BY <1>5, <1>6 DEF below, above

(* A set of numbers that is finite has a least one.                        *)
LEMMA LeastExists ==
  ASSUME NEW S \in SUBSET Nat, IsFiniteSet(S), S # {}
  PROVE  \E s \in S : \A t \in S : s <= t
  <1> DEFINE below == [u \in S |-> {v \in S : v < u}]
  <1>1. InLine(S, below)
    BY NumbersInLine
  <1> HIDE DEF below
  <1>2. PICK s \in S : Cardinality(below[s]) = 0
    BY <1>1, FirstExists
  <1>3. below[s] = {v \in S : v < s}
    BY DEF below
  <1>4. {v \in S : v < s} = {}
    <2>1. IsFiniteSet({v \in S : v < s})
      BY FS_Subset
    <2> QED
      BY <1>2, <1>3, <2>1, FS_EmptySet
  <1> QED
    BY <1>4

-----------------------------------------------------------------------------
(* Pages.                                                                  *)

LEMMA Products ==
  ASSUME NEW d \in Nat, NEW k \in Nat, NEW n \in Nat, k <= n
  PROVE  /\ k * d \in Nat /\ n * d \in Nat /\ k * d <= n * d
         /\ (k + 1) * d = k * d + d
  OBVIOUS

LEMMA Quotient ==
  ASSUME NEW n \in Nat, NEW d \in Nat \ {0}
  PROVE  /\ n \div d \in Nat
         /\ (n \div d) * d <= n
         /\ n < (n \div d) * d + d
  OBVIOUS

(* There are more than k pages of n rows just when k pages do not hold n.  *)
LEMMA PageCount ==
  ASSUME NEW n \in Nat, NEW d \in Nat \ {0}, NEW k \in Nat
  PROVE  k < (n + d - 1) \div d <=> k * d < n
  <1> DEFINE q == (n + d - 1) \div d
  <1>1. n + d - 1 \in Nat
    OBVIOUS
  <1>2. q \in Nat /\ q * d <= n + d - 1 /\ n + d - 1 < q * d + d
    BY <1>1, Quotient
  <1> HIDE DEF q
  <1>3. CASE k < q
    <2>1. (k + 1) * d <= q * d /\ (k + 1) * d = k * d + d /\ q * d \in Nat /\ k * d \in Nat
      BY <1>2, <1>3, Products
    <2> QED
      BY <1>2, <1>3, <2>1 DEF q
  <1>4. CASE q <= k
    <2>1. q * d <= k * d /\ q * d \in Nat /\ k * d \in Nat
      BY <1>2, <1>4, Products
    <2> QED
      BY <1>2, <1>4, <2>1 DEF q
  <1> QED
    BY <1>2, <1>3, <1>4

(* A Next link is there just when the pages so far do not hold the total.  *)
LEMMA NextMeansMore ==
  ASSUME FeedTypeOK
  PROVE  /\ walk.page \in Nat \ {0} /\ walk.total \in Nat /\ PageSize \in Nat \ {0}
         /\ HasNext <=> walk.page * PageSize < walk.total
  <1>1. walk.page \in Nat \ {0} /\ walk.total \in Nat /\ PageSize \in Nat \ {0}
    BY PageSizeAssumption DEF FeedTypeOK, Walk
  <1>2. CASE walk.total = 0
    <2>1. walk.page * PageSize \in Nat
      BY <1>1, Products
    <2> QED
      BY <1>1, <1>2, <2>1 DEF HasNext, TotalPages
  <1>3. CASE walk.total # 0
    BY <1>1, <1>3, PageCount DEF HasNext, TotalPages
  <1> QED
    BY <1>1, <1>2, <1>3

LEMMA PageTurns ==
  ASSUME NEW page \in Nat \ {0}
  PROVE  /\ Offset(page) \in Nat /\ page * PageSize \in Nat
         /\ Offset(page) + PageSize = page * PageSize
         /\ Offset(page + 1) = page * PageSize
         /\ PageSize \in Nat \ {0}
  <1>1. page - 1 \in Nat /\ (page - 1) + 1 = page /\ (page + 1) - 1 = page
    OBVIOUS
  <1>2. PageSize \in Nat /\ PageSize # 0
    BY PageSizeAssumption
  <1> QED
    BY <1>1, <1>2, Products DEF Offset

-----------------------------------------------------------------------------
(* What is stored. *)

LEMMA StoredFinite ==
  ASSUME FeedTypeOK
  PROVE  /\ Stored \subseteq Nat /\ IsFiniteSet(Stored)
         /\ \A list : Listed(list) \subseteq Stored /\ IsFiniteSet(Listed(list))
                        /\ Cardinality(Listed(list)) \in Nat
         /\ \A u, p : SolvedBy(u, p) \subseteq Stored /\ IsFiniteSet(SolvedBy(u, p))
  <1>1. Stored \subseteq Nat /\ IsFiniteSet(Stored)
    BY StampsAssumption, FS_Subset DEF FeedTypeOK
  <1>2. ASSUME NEW list
        PROVE  Listed(list) \subseteq Stored /\ IsFiniteSet(Listed(list))
                 /\ Cardinality(Listed(list)) \in Nat
    <2>1. Listed(list) \subseteq Stored
      BY DEF Listed
    <2> QED
      BY <1>1, <2>1, FS_Subset, FS_CardinalityType
  <1>3. ASSUME NEW u, NEW p
        PROVE  SolvedBy(u, p) \subseteq Stored /\ IsFiniteSet(SolvedBy(u, p))
    <2>1. SolvedBy(u, p) \subseteq Stored
      BY DEF SolvedBy
    <2> QED
      BY <1>1, <2>1, FS_Subset
  <1> QED
    BY <1>1, <1>2, <1>3

(* The same of any rows r, before a step or after it.                      *)
ListedIn(r, list) ==
  {s \in DOMAIN r : /\ list.problem \in {Everything, r[s].problem}
                    /\ list.mine => r[s].user = Visitor}

Newer(r, list, s) == {t \in ListedIn(r, list) : t > s}

LEMMA ListedNow == \A list : Listed(list) = ListedIn(rows, list)
  BY DEF Listed, ListedIn, Stored

LEMMA NewerFinite ==
  ASSUME FeedTypeOK, NEW list, NEW s
  PROVE  IsFiniteSet(Newer(rows, list, s)) /\ Cardinality(Newer(rows, list, s)) \in Nat
  <1>1. Newer(rows, list, s) \subseteq Listed(list) /\ IsFiniteSet(Listed(list))
    BY StoredFinite, ListedNow DEF Newer
  <1> QED
    BY <1>1, FS_Subset, FS_CardinalityType

LEMMA RowsOfNewer ==
  ASSUME NEW list, NEW page
  PROVE  RowsOf(list, page) =
           {s \in Listed(list) : /\ Cardinality(Newer(rows, list, s)) >= Offset(page)
                                 /\ Cardinality(Newer(rows, list, s)) < Offset(page) + PageSize}
  BY ListedNow DEF RowsOf, Newer

(* A page that starts below the number of rows has a row.                  *)
LEMMA PageHasRow ==
  ASSUME FeedTypeOK, NEW list, NEW page \in Nat \ {0}, Offset(page) < Cardinality(Listed(list))
  PROVE  RowsOf(list, page) # {}
  <1> DEFINE newer == [s \in Listed(list) |-> {t \in Listed(list) : t > s}]
  <1>1. IsFiniteSet(Listed(list)) /\ Listed(list) \in SUBSET Nat
    BY StoredFinite
  <1>2. InLine(Listed(list), newer)
    BY <1>1, NumbersInLine
  <1>3. Offset(page) \in Nat /\ PageSize \in Nat \ {0}
    BY PageTurns
  <1> HIDE DEF newer
  <1>4. PICK s \in Listed(list) : Cardinality(newer[s]) = Offset(page)
    BY <1>1, <1>2, <1>3, RankIsTaken
  <1>5. newer[s] = Newer(rows, list, s)
    BY ListedNow DEF newer, Newer
  <1>6. s \in RowsOf(list, page)
    BY <1>3, <1>4, <1>5, RowsOfNewer
  <1> QED
    BY <1>6

-----------------------------------------------------------------------------
(* Submissions are added and judged: nothing is taken away, and what was   *)
(* accepted stays accepted.                                                *)
RowsGrow ==
  /\ Stored \subseteq DOMAIN rows'
  /\ \A s \in Stored :
       /\ rows'[s].user = rows[s].user /\ rows'[s].problem = rows[s].problem
       /\ rows[s].status = "accepted" => rows'[s].status = "accepted"

RowsTypeOK == Stored \subseteq Stamps /\ rows \in [Stored -> Submission]

LEMMA CreateGrows ==
  ASSUME RowsTypeOK, NEW stamp \in Stamps, NEW user \in People, NEW problem \in Problems,
         CreateSubmission(stamp, user, problem)
  PROVE  RowsTypeOK' /\ RowsGrow
  <1> DEFINE new == [user |-> user, problem |-> problem, status |-> "pending"]
  <1>1. new \in Submission
    BY DEF Submission, Statuses
  <1>2. rows' = [s \in Stored \union {stamp} |-> IF s = stamp THEN new ELSE rows[s]]
        /\ stamp \notin Stored
    BY DEF CreateSubmission
  <1> HIDE DEF new
  <1>3. RowsTypeOK'
    BY <1>1, <1>2 DEF RowsTypeOK, Stored
  <1>4. RowsGrow
    BY <1>2 DEF RowsGrow, Stored
  <1> QED
    BY <1>3, <1>4

LEMMA JudgeGrows ==
  ASSUME RowsTypeOK, NEW stamp \in Stamps, NEW status \in Statuses, Judge(stamp, status)
  PROVE  RowsTypeOK' /\ RowsGrow
  <1>1. rows' = [rows EXCEPT ![stamp] = [rows[stamp] EXCEPT !.status = status]]
        /\ stamp \in Stored /\ rows[stamp].status = "pending"
    BY DEF Judge
  <1>2. rows[stamp] \in Submission
    BY <1>1 DEF RowsTypeOK
  <1> DEFINE new == [rows[stamp] EXCEPT !.status = status]
  <1>3. new \in Submission /\ new.user = rows[stamp].user /\ new.problem = rows[stamp].problem
    BY <1>2 DEF Submission
  <1>4. rows' = [rows EXCEPT ![stamp] = new]
    BY <1>1
  <1> HIDE DEF new
  <1>5. RowsTypeOK'
    BY <1>3, <1>4 DEF RowsTypeOK, Stored
  <1>6. RowsGrow
    BY <1>1, <1>3, <1>4 DEF RowsGrow, RowsTypeOK, Stored
  <1> QED
    BY <1>5, <1>6

LEMMA RowsStay ==
  ASSUME RowsTypeOK, UNCHANGED rows
  PROVE  RowsTypeOK' /\ RowsGrow
  BY DEF RowsTypeOK, RowsGrow, Stored

LEMMA NextGrows ==
  ASSUME RowsTypeOK, [Next]_vars
  PROVE  RowsTypeOK' /\ RowsGrow
  <1>1. \/ UNCHANGED rows
        \/ \E s \in Stamps, u \in People, p \in Problems : CreateSubmission(s, u, p)
        \/ \E s \in Stamps, status \in Statuses : Judge(s, status)
    BY DEF Next, vars, SelectRows, CountRows, Follow, GetProblem, GetProblemRanking
  <1> QED
    BY <1>1, RowsStay, CreateGrows, JudgeGrows

(* Lists, and those who solved a problem, only grow.                       *)
LEMMA ListsGrow ==
  ASSUME RowsGrow, NEW list
  PROVE  ListedIn(rows, list) \subseteq ListedIn(rows', list)
  BY DEF RowsGrow, ListedIn, Stored

SolversIn(r, problem) ==
  {u \in People : \E s \in DOMAIN r :
     r[s] = [user |-> u, problem |-> problem, status |-> "accepted"]}

LEMMA SolversNow == \A p : Solvers(p) = SolversIn(rows, p)
  BY DEF Solvers, SolvedBy, SolversIn, Stored

LEMMA SolversGrow ==
  ASSUME RowsTypeOK, RowsTypeOK', RowsGrow, NEW p
  PROVE  SolversIn(rows, p) \subseteq SolversIn(rows', p)
  <1> SUFFICES ASSUME NEW u \in People, NEW s \in Stored,
                      rows[s] = [user |-> u, problem |-> p, status |-> "accepted"]
               PROVE  s \in DOMAIN rows' /\ rows'[s] = [user |-> u, problem |-> p,
                                                        status |-> "accepted"]
    BY DEF SolversIn, Stored
  <1>1. s \in DOMAIN rows' /\ rows'[s] \in Submission
    BY DEF RowsGrow, RowsTypeOK, Stored
  <1>2. rows'[s].user = u /\ rows'[s].problem = p /\ rows'[s].status = "accepted"
    BY DEF RowsGrow
  <1> QED
    BY <1>1, <1>2 DEF Submission

LEMMA SolversFinite ==
  ASSUME NEW p
  PROVE  Solvers(p) \subseteq People /\ IsFiniteSet(Solvers(p)) /\ SolveCount(p) \in Nat
  <1>1. Solvers(p) \subseteq People
    BY DEF Solvers
  <1> QED
    BY <1>1, PeopleAssumption, FS_Subset, FS_CardinalityType DEF SolveCount

(* The rows that are newer only grow in number.                            *)
LEMMA NewerGrows ==
  ASSUME RowsTypeOK, RowsTypeOK', RowsGrow, NEW list, NEW s
  PROVE  /\ Cardinality(Newer(rows, list, s)) <= Cardinality(Newer(rows', list, s))
         /\ Cardinality(Newer(rows, list, s)) \in Nat
         /\ Cardinality(Newer(rows', list, s)) \in Nat
         /\ Cardinality(ListedIn(rows, list)) <= Cardinality(ListedIn(rows', list))
         /\ Cardinality(ListedIn(rows, list)) \in Nat
         /\ Cardinality(ListedIn(rows', list)) \in Nat
  <1>1. ListedIn(rows, list) \subseteq ListedIn(rows', list)
    BY ListsGrow
  <1>2. Newer(rows, list, s) \subseteq Newer(rows', list, s)
    BY <1>1 DEF Newer
  <1>3. ListedIn(rows', list) \subseteq Stamps
    BY DEF ListedIn, RowsTypeOK, Stored
  <1>4. IsFiniteSet(ListedIn(rows', list))
    BY <1>3, StampsAssumption, FS_Subset
  <1>5. IsFiniteSet(Newer(rows', list, s))
    <2>1. Newer(rows', list, s) \subseteq ListedIn(rows', list)
      BY DEF Newer
    <2> QED
      BY <1>4, <2>1, FS_Subset
  <1> QED
    BY <1>1, <1>2, <1>4, <1>5, FS_Subset, FS_CardinalityType

-----------------------------------------------------------------------------
(* The walk through a list. *)

(* What was stored when the walk began and was not seen yet stands on the  *)
(* pages still to come, and a total on the screen tells so.                *)
Missing == walk.start \ walk.got

Ahead ==
  /\ walk.start \subseteq ListedIn(rows, walk.list)
  /\ \A s \in Missing :
       Cardinality(Newer(rows, walk.list, s)) >=
         IF walk.at = "asked" THEN Offset(walk.page) ELSE walk.page * PageSize
  /\ walk.at = "shown" =>
       /\ Missing # {} => walk.total > walk.page * PageSize
       /\ walk.total <= Cardinality(ListedIn(rows, walk.list))

LEMMA TypeInParts == FeedTypeOK <=> RowsTypeOK /\ walk \in Walk /\ visit \in Visit
  BY DEF FeedTypeOK, RowsTypeOK

LEMMA WalkType ==
  ASSUME walk \in Walk
  PROVE  /\ walk.page \in Nat \ {0} /\ walk.total \in Nat
         /\ Offset(walk.page) \in Nat /\ walk.page * PageSize \in Nat
         /\ Offset(walk.page) <= walk.page * PageSize
  <1>1. walk.page \in Nat \ {0} /\ walk.total \in Nat
    BY DEF Walk
  <1> QED
    BY <1>1, PageTurns

(* While the visitor reads, submissions push the old ones onwards.         *)
LEMMA WalkStays ==
  ASSUME RowsTypeOK, RowsTypeOK', RowsGrow, walk \in Walk, Ahead, UNCHANGED walk
  PROVE  Ahead'
  <1>1. PICK list : list = walk.list
    OBVIOUS
  <1>2. walk'.list = list /\ Missing' = Missing
    BY <1>1 DEF Missing
  <1>3. walk'.start \subseteq ListedIn(rows', list)
    BY <1>1, ListsGrow DEF Ahead
  <1>4. ASSUME NEW s \in Missing
        PROVE  Cardinality(Newer(rows', list, s)) >=
                 IF walk.at = "asked" THEN Offset(walk.page) ELSE walk.page * PageSize
    <2>1. Cardinality(Newer(rows, list, s)) >=
            IF walk.at = "asked" THEN Offset(walk.page) ELSE walk.page * PageSize
      BY <1>1 DEF Ahead
    <2>2. /\ Cardinality(Newer(rows, list, s)) <= Cardinality(Newer(rows', list, s))
          /\ Cardinality(Newer(rows, list, s)) \in Nat /\ Cardinality(Newer(rows', list, s)) \in Nat
      BY NewerGrows
    <2> QED
      BY <2>1, <2>2, WalkType
  <1>5. ASSUME walk.at = "shown"
        PROVE  /\ Missing # {} => walk.total > walk.page * PageSize
               /\ walk.total <= Cardinality(ListedIn(rows', list))
    <2>1. /\ Missing # {} => walk.total > walk.page * PageSize
          /\ walk.total <= Cardinality(ListedIn(rows, list))
      BY <1>1, <1>5 DEF Ahead
    <2>2. /\ Cardinality(ListedIn(rows, list)) <= Cardinality(ListedIn(rows', list))
          /\ Cardinality(ListedIn(rows, list)) \in Nat
          /\ Cardinality(ListedIn(rows', list)) \in Nat
      BY NewerGrows
    <2> QED
      BY <2>1, <2>2, WalkType
  <1> QED
    BY <1>1, <1>2, <1>3, <1>4, <1>5 DEF Ahead

(* What is not on the page that is read stands below it.                   *)
LEMMA SelectKeeps ==
  ASSUME FeedTypeOK, Ahead, SelectRows
  PROVE  walk' \in Walk /\ Ahead'
  <1> DEFINE shown == RowsOf(walk.list, walk.page)
             start == IF walk.got = {} /\ walk.page = 1 THEN Listed(walk.list) ELSE walk.start
  <1>1. walk' = [walk EXCEPT !.at = "half", !.shown = shown, !.got = walk.got \union shown,
                             !.start = start]
    BY DEF SelectRows
  <1>2. rows' = rows /\ walk.at = "asked" /\ walk \in Walk
    BY DEF SelectRows, FeedTypeOK
  <1>3. Listed(walk.list) = ListedIn(rows, walk.list) /\ Listed(walk.list) \subseteq Stamps
    BY ListedNow, StoredFinite DEF FeedTypeOK
  <1>4. shown \subseteq Listed(walk.list)
    BY DEF RowsOf
  <1>5. start \subseteq Listed(walk.list)
    BY <1>3 DEF Ahead
  <1>6. shown = {s \in Listed(walk.list) :
                   /\ Cardinality(Newer(rows, walk.list, s)) >= Offset(walk.page)
                   /\ Cardinality(Newer(rows, walk.list, s)) < Offset(walk.page) + PageSize}
    BY RowsOfNewer
  <1>7. /\ Offset(walk.page) \in Nat /\ walk.page * PageSize \in Nat
        /\ Offset(walk.page) + PageSize = walk.page * PageSize
    BY <1>2, PageTurns DEF Walk
  <1>8. ASSUME NEW s \in start, s \notin walk.got, s \notin shown
        PROVE  Cardinality(Newer(rows, walk.list, s)) >= walk.page * PageSize
    <2>1. Cardinality(Newer(rows, walk.list, s)) \in Nat
      BY NewerFinite
    <2>2. Cardinality(Newer(rows, walk.list, s)) >= Offset(walk.page)
      <3>1. CASE walk.got = {} /\ walk.page = 1
        <4>1. Offset(walk.page) = 0
          BY <3>1, PageSizeAssumption DEF Offset
        <4> QED
          BY <2>1, <4>1
      <3>2. CASE ~(walk.got = {} /\ walk.page = 1)
        <4>1. s \in Missing
          BY <1>8, <3>2 DEF Missing
        <4> QED
          BY <1>2, <4>1 DEF Ahead
      <3> QED
        BY <3>1, <3>2
    <2>3. s \in Listed(walk.list)
      BY <1>5
    <2> HIDE DEF shown
    <2> QED
      BY <1>6, <1>7, <1>8, <2>1, <2>2, <2>3, PageSizeAssumption
  <1> HIDE DEF shown, start
  <1>9. /\ walk'.at = "half" /\ walk'.start = start /\ walk'.got = walk.got \union shown
        /\ walk'.page = walk.page /\ walk'.list = walk.list
    BY <1>1, <1>2 DEF Walk
  <1>10. walk' \in Walk
    BY <1>1, <1>2, <1>3, <1>4, <1>5 DEF Walk
  <1>11. Ahead'
    BY <1>2, <1>3, <1>5, <1>8, <1>9 DEF Ahead, Missing
  <1> QED
    BY <1>10, <1>11

(* The total is counted when the rows are read: it counts what is missing. *)
LEMMA CountKeeps ==
  ASSUME FeedTypeOK, Ahead, CountRows
  PROVE  walk' \in Walk /\ Ahead'
  <1> DEFINE total == Cardinality(Listed(walk.list))
  <1>1. walk' = [walk EXCEPT !.at = "shown", !.total = total]
    BY DEF CountRows
  <1>2. rows' = rows /\ walk.at = "half" /\ walk \in Walk
    BY DEF CountRows, FeedTypeOK
  <1>3. total \in Nat /\ total = Cardinality(ListedIn(rows, walk.list))
    BY StoredFinite, ListedNow
  <1>4. ASSUME NEW s \in Missing PROVE total > walk.page * PageSize
    <2>1. s \in Listed(walk.list)
      BY ListedNow DEF Ahead, Missing
    <2>2. Newer(rows, walk.list, s) \subseteq Listed(walk.list) \ {s}
      <3>1. Listed(walk.list) \subseteq Nat
        BY StoredFinite
      <3> QED
        BY <2>1, <3>1, ListedNow DEF Newer
    <2>3. Cardinality(Newer(rows, walk.list, s)) < total
      BY <2>1, <2>2, StoredFinite, AheadIsLess
    <2>4. Cardinality(Newer(rows, walk.list, s)) >= walk.page * PageSize
      BY <1>2 DEF Ahead
    <2>5. Cardinality(Newer(rows, walk.list, s)) \in Nat
      BY NewerFinite
    <2> HIDE DEF total
    <2> QED
      BY <1>2, <1>3, <2>3, <2>4, <2>5, WalkType
  <1> HIDE DEF total
  <1>5. /\ walk'.at = "shown" /\ walk'.start = walk.start /\ walk'.got = walk.got
        /\ walk'.page = walk.page /\ walk'.list = walk.list /\ walk'.total = total
    BY <1>1, <1>2 DEF Walk
  <1>6. walk' \in Walk
    BY <1>1, <1>2, <1>3 DEF Walk
  <1>7. Missing' = Missing
    BY <1>5 DEF Missing
  <1>8. Ahead'
    BY <1>2, <1>3, <1>4, <1>5, <1>7 DEF Ahead
  <1> QED
    BY <1>6, <1>8

(* A link leads to the page before, or to the next one.                    *)
LEMMA FollowKeeps ==
  ASSUME FeedTypeOK, Ahead, NEW page, Follow(page)
  PROVE  walk' \in Walk /\ Ahead'
  <1>1. walk' = [walk EXCEPT !.page = page, !.at = "asked", !.shown = {}, !.total = 0]
    BY DEF Follow
  <1>2. rows' = rows /\ walk.at = "shown" /\ walk \in Walk
    BY DEF Follow, FeedTypeOK
  <1>3. page \in Nat \ {0} /\ (page = walk.page + 1 \/ page + 1 = walk.page)
    BY <1>2, WalkType DEF Follow, HasPrevious
  <1>4. /\ walk'.at = "asked" /\ walk'.start = walk.start /\ walk'.got = walk.got
        /\ walk'.page = page /\ walk'.list = walk.list
    BY <1>1, <1>2 DEF Walk
  <1>5. walk' \in Walk
    BY <1>1, <1>2, <1>3 DEF Walk
  <1>6. Offset(page) \in Nat /\ Offset(page) <= walk.page * PageSize
        /\ walk.page * PageSize \in Nat
    <2>1. CASE page = walk.page + 1
      BY <1>2, <1>3, <2>1, PageTurns, WalkType
    <2>2. CASE page + 1 = walk.page
      <3>1. /\ Offset(page) + PageSize = page * PageSize
            /\ Offset(walk.page) = page * PageSize
            /\ Offset(page) \in Nat /\ PageSize \in Nat /\ page * PageSize \in Nat
        BY <1>3, <2>2, PageTurns
      <3>2. Offset(walk.page) <= walk.page * PageSize /\ walk.page * PageSize \in Nat
        BY <1>2, WalkType
      <3> QED
        BY <3>1, <3>2
    <2> QED
      BY <1>3, <2>1, <2>2
  <1>7. ASSUME NEW s \in Missing PROVE Cardinality(Newer(rows, walk.list, s)) >= Offset(page)
    <2>1. Cardinality(Newer(rows, walk.list, s)) >= walk.page * PageSize
      BY <1>2 DEF Ahead
    <2>2. Cardinality(Newer(rows, walk.list, s)) \in Nat
      BY NewerFinite
    <2> QED
      BY <1>6, <2>1, <2>2
  <1>8. Missing' = Missing
    BY <1>4 DEF Missing
  <1>9. Ahead'
    BY <1>2, <1>4, <1>7, <1>8 DEF Ahead
  <1> QED
    BY <1>5, <1>9

-----------------------------------------------------------------------------
(* The rankings. *)

(* The first solve is a submission of that person to that problem.         *)
LEMMA FirstSolveIs ==
  ASSUME FeedTypeOK, NEW p, NEW u \in Solvers(p)
  PROVE  FirstSolve(u, p) \in SolvedBy(u, p)
  <1>1. SolvedBy(u, p) \in SUBSET Nat /\ IsFiniteSet(SolvedBy(u, p)) /\ SolvedBy(u, p) # {}
    BY StoredFinite DEF Solvers
  <1>2. \E s \in SolvedBy(u, p) : \A t \in SolvedBy(u, p) : s <= t
    BY <1>1, LeastExists
  <1> QED
    BY <1>2 DEF FirstSolve

(* Solvers stand in line: one submission is one person's.                  *)
LEMMA SolversInLine ==
  ASSUME FeedTypeOK, NEW p
  PROVE  InLine(Solvers(p), [u \in Solvers(p) |->
                               {v \in Solvers(p) : FirstSolve(v, p) < FirstSolve(u, p)}])
  <1> DEFINE ahead == [u \in Solvers(p) |->
                         {v \in Solvers(p) : FirstSolve(v, p) < FirstSolve(u, p)}]
  <1>1. ASSUME NEW u \in Solvers(p)
        PROVE  FirstSolve(u, p) \in Nat /\ rows[FirstSolve(u, p)].user = u
    <2>1. FirstSolve(u, p) \in SolvedBy(u, p)
      BY FirstSolveIs
    <2> QED
      BY <2>1, StoredFinite DEF SolvedBy
  <1>2. ASSUME NEW u \in Solvers(p), NEW v \in Solvers(p), u # v
        PROVE  FirstSolve(u, p) < FirstSolve(v, p) \/ FirstSolve(v, p) < FirstSolve(u, p)
    BY <1>1, <1>2
  <1>3. ASSUME NEW u \in Solvers(p), NEW v \in Solvers(p), FirstSolve(u, p) < FirstSolve(v, p)
        PROVE  u \in ahead[v] /\ ahead[u] \subseteq ahead[v]
    <2>1. u \in ahead[v]
      BY <1>3
    <2>2. ASSUME NEW w \in ahead[u] PROVE w \in ahead[v]
      <3>1. w \in Solvers(p) /\ FirstSolve(w, p) < FirstSolve(u, p)
        BY <2>2
      <3>2. FirstSolve(w, p) \in Nat /\ FirstSolve(u, p) \in Nat /\ FirstSolve(v, p) \in Nat
        BY <1>1, <3>1
      <3>3. FirstSolve(w, p) < FirstSolve(v, p)
        BY <1>3, <3>1, <3>2
      <3> QED
        BY <3>1, <3>3
    <2> QED
      BY <2>1, <2>2
  <1>4. \A u \in Solvers(p) : ahead[u] \subseteq Solvers(p) \ {u}
    BY <1>1
  <1> HIDE DEF ahead
  <1>5. InLine(Solvers(p), ahead)
    BY <1>2, <1>3, <1>4 DEF InLine
  <1> QED
    BY <1>5 DEF ahead

(* A ranking is as long as the limit lets it be.                           *)
LEMMA RankingIsFull ==
  ASSUME FeedTypeOK, NEW p
  PROVE  /\ ProblemRanking(p) \subseteq Solvers(p)
         /\ IsFiniteSet(ProblemRanking(p))
         /\ Cardinality(ProblemRanking(p)) =
              IF SolveCount(p) < Limit THEN SolveCount(p) ELSE Limit
  <1> DEFINE ahead == [u \in Solvers(p) |->
                         {v \in Solvers(p) : FirstSolve(v, p) < FirstSolve(u, p)}]
  <1>1. InLine(Solvers(p), ahead)
    BY SolversInLine
  <1>2. ProblemRanking(p) = {u \in Solvers(p) : Cardinality(ahead[u]) < Limit}
    BY DEF ProblemRanking, Ranked
  <1>3. IsFiniteSet(Solvers(p)) /\ Limit \in Nat
    BY SolversFinite, PageSizeAssumption
  <1> HIDE DEF ahead
  <1> QED
    BY <1>1, <1>2, <1>3, FirstOfLine DEF SolveCount

(* When everybody fits, a ranking names every solver.                      *)
LEMMA RankingNamesAll ==
  ASSUME FeedTypeOK, Cardinality(People) <= Limit, NEW p
  PROVE  ProblemRanking(p) = Solvers(p)
  <1>1. /\ Solvers(p) \in SUBSET People /\ IsFiniteSet(Solvers(p))
        /\ IsFiniteSet(People) /\ SolveCount(p) \in Nat /\ Limit \in Nat
    BY SolversFinite, PeopleAssumption, PageSizeAssumption
  <1>2. SolveCount(p) <= Cardinality(People) /\ Cardinality(People) \in Nat
    BY <1>1, FS_Subset, FS_CardinalityType DEF SolveCount
  <1>3. Cardinality(ProblemRanking(p)) = SolveCount(p)
    BY <1>1, <1>2, RankingIsFull
  <1> QED
    BY <1>1, <1>3, RankingIsFull, FS_Subset DEF SolveCount

LEMMA RankingsOfRows ==
  ASSUME FeedTypeOK
  PROVE  RankingsAgree
  <1>1. ASSUME NEW p \in Problems
        PROVE  Cardinality(ProblemRanking(p)) =
                 IF SolveCount(p) < Limit THEN SolveCount(p) ELSE Limit
    BY RankingIsFull
  <1>2. ASSUME Cardinality(People) <= Limit, NEW u \in GlobalRanking
        PROVE  SolvedCount(u) = Cardinality({p \in Problems : u \in ProblemRanking(p)})
    <2>1. u \in People
      BY DEF GlobalRanking, Ranked, Standing
    <2>2. \A p \in Problems : u \in ProblemRanking(p) <=> SolvedBy(u, p) # {}
      BY <1>2, <2>1, RankingNamesAll DEF Solvers
    <2>3. {p \in Problems : u \in ProblemRanking(p)} = {p \in Problems : SolvedBy(u, p) # {}}
      BY <2>2
    <2> QED
      BY <2>3 DEF SolvedCount
  <1> QED
    BY <1>1, <1>2 DEF RankingsAgree

-----------------------------------------------------------------------------
(* The page of a problem: a count that was read is not above the ranking   *)
(* that is read after it.                                                  *)
Counted ==
  /\ visit.at = "half" => visit.solved <= Cardinality(SolversIn(rows, visit.problem))
  /\ CountedAreRanked

LEMMA SolversInFinite ==
  ASSUME NEW r, NEW p
  PROVE  IsFiniteSet(SolversIn(r, p)) /\ Cardinality(SolversIn(r, p)) \in Nat
  <1>1. SolversIn(r, p) \subseteq People
    BY DEF SolversIn
  <1> QED
    BY <1>1, PeopleAssumption, FS_Subset, FS_CardinalityType

LEMMA VisitStays ==
  ASSUME RowsTypeOK, RowsTypeOK', RowsGrow, visit \in Visit, Counted, UNCHANGED visit
  PROVE  Counted'
  <1>1. PICK p : p = visit.problem
    OBVIOUS
  <1>2. SolversIn(rows, p) \subseteq SolversIn(rows', p)
    BY SolversGrow
  <1>3. /\ Cardinality(SolversIn(rows, p)) <= Cardinality(SolversIn(rows', p))
        /\ Cardinality(SolversIn(rows, p)) \in Nat /\ Cardinality(SolversIn(rows', p)) \in Nat
    BY <1>2, SolversInFinite, FS_Subset
  <1>4. visit.solved \in Nat
    BY DEF Visit
  <1>5. visit.at = "half" => visit.solved <= Cardinality(SolversIn(rows', p))
    BY <1>1, <1>3, <1>4 DEF Counted
  <1> QED
    BY <1>1, <1>5 DEF Counted, CountedAreRanked

LEMMA GetProblemKeeps ==
  ASSUME FeedTypeOK, Counted, GetProblem
  PROVE  visit' \in Visit /\ Counted'
  <1> DEFINE solved == SolveCount(visit.problem)
  <1>1. visit' = [visit EXCEPT !.at = "half", !.solved = solved] /\ rows' = rows
    BY DEF GetProblem
  <1>2. solved \in Nat /\ solved = Cardinality(SolversIn(rows, visit.problem))
    BY SolversFinite, SolversNow DEF SolveCount
  <1>3. visit \in Visit
    BY DEF FeedTypeOK
  <1> HIDE DEF solved
  <1>4. /\ visit' \in Visit /\ visit'.at = "half" /\ visit'.solved = solved
        /\ visit'.problem = visit.problem
    BY <1>1, <1>2, <1>3 DEF Visit
  <1> QED
    BY <1>1, <1>2, <1>4 DEF Counted, CountedAreRanked

LEMMA GetRankingKeeps ==
  ASSUME FeedTypeOK, Counted, GetProblemRanking
  PROVE  visit' \in Visit /\ Counted'
  <1> DEFINE ranked == ProblemRanking(visit.problem)
  <1>1. visit' = [visit EXCEPT !.at = "shown", !.ranked = ranked] /\ visit.at = "half"
    BY DEF GetProblemRanking
  <1>2. visit \in Visit /\ visit.solved \in Nat
    BY DEF FeedTypeOK, Visit
  <1>3. ranked \subseteq People
    BY RankingIsFull, SolversFinite
  <1>4. Cardinality(ranked) = IF SolveCount(visit.problem) < Limit THEN SolveCount(visit.problem)
                              ELSE Limit
    BY RankingIsFull
  <1>5. visit.solved <= SolveCount(visit.problem) /\ SolveCount(visit.problem) \in Nat
    BY <1>1, SolversNow, SolversFinite DEF Counted, SolveCount
  <1> HIDE DEF ranked
  <1>6. /\ visit' \in Visit /\ visit'.at = "shown" /\ visit'.ranked = ranked
        /\ visit'.solved = visit.solved
    BY <1>1, <1>2, <1>3 DEF Visit
  <1>7. Cardinality(ranked) >= IF visit.solved < Limit THEN visit.solved ELSE Limit
    BY <1>2, <1>4, <1>5, PageSizeAssumption
  <1> QED
    BY <1>6, <1>7 DEF Counted, CountedAreRanked

-----------------------------------------------------------------------------
(* The whole. *)
IInv == FeedTypeOK /\ Ahead /\ Counted

LEMMA FeedStarts == Init => IInv
  <1> SUFFICES ASSUME Init PROVE IInv
    OBVIOUS
  <1>1. RowsTypeOK
    BY DEF Init, RowsTypeOK, Stored
  <1>2. PICK problem \in Problems :
          \/ /\ \/ SubmissionsPage \/ MySubmissionsPage \/ ProblemSubmissionsPanel(problem)
             /\ visit = NoVisit(CHOOSE p \in Problems : TRUE)
          \/ ProblemPage(problem) /\ walk = NoWalk
    BY DEF Init
  <1>3. ASSUME NEW list \in Lists, OpensList(list)
        PROVE  walk \in Walk /\ walk.start = {} /\ walk.at \in {"asked", "closed"}
    BY <1>3 DEF OpensList, Walk
  <1>4. walk \in Walk /\ walk.start = {} /\ walk.at \in {"asked", "closed"}
    <2>1. /\ [problem |-> Everything, mine |-> FALSE] \in Lists
          /\ [problem |-> Everything, mine |-> TRUE] \in Lists
          /\ [problem |-> problem, mine |-> TRUE] \in Lists
      BY DEF Lists
    <2>2. NoWalk \in Walk /\ NoWalk.start = {} /\ NoWalk.at = "closed"
      BY <2>1 DEF NoWalk, Walk
    <2> QED
      BY <1>2, <1>3, <2>1, <2>2 DEF SubmissionsPage, MySubmissionsPage, ProblemSubmissionsPanel
  <1>5. (CHOOSE p \in Problems : TRUE) \in Problems
    BY <1>2
  <1>6. visit \in Visit /\ visit.at \in {"asked", "closed"}
    BY <1>2, <1>5 DEF NoVisit, ProblemPage, Visit
  <1>7. Ahead
    BY <1>4 DEF Ahead, Missing
  <1>8. Counted
    BY <1>6 DEF Counted, CountedAreRanked
  <1> QED
    BY <1>1, <1>4, <1>6, <1>7, <1>8, TypeInParts DEF IInv

LEMMA NextKeepsFeed ==
  ASSUME IInv, [Next]_vars
  PROVE  IInv'
  <1>1. RowsTypeOK /\ walk \in Walk /\ visit \in Visit /\ FeedTypeOK /\ Ahead /\ Counted
    BY TypeInParts DEF IInv
  <1>2. RowsTypeOK' /\ RowsGrow
    BY <1>1, NextGrows
  <1>3. walk' \in Walk /\ Ahead'
    <2>1. \/ UNCHANGED walk
          \/ SelectRows \/ CountRows
          \/ \E page \in 0..(Cardinality(Stamps) + 1) : Follow(page)
      BY DEF Next, vars, CreateSubmission, Judge, GetProblem, GetProblemRanking
    <2> QED
      BY <1>1, <1>2, <2>1, WalkStays, SelectKeeps, CountKeeps, FollowKeeps
  <1>4. visit' \in Visit /\ Counted'
    <2>1. UNCHANGED visit \/ GetProblem \/ GetProblemRanking
      BY DEF Next, vars, CreateSubmission, Judge, SelectRows, CountRows, Follow
    <2> QED
      BY <1>1, <1>2, <2>1, VisitStays, GetProblemKeeps, GetRankingKeeps
  <1> QED
    BY <1>2, <1>3, <1>4 DEF IInv, FeedTypeOK, RowsTypeOK

(* The inductive invariant of the lists and of the problem's page.         *)
THEOREM FeedInvariant == Spec => []IInv
  <1> QED
    BY FeedStarts, NextKeepsFeed, PTL DEF Spec

(* A walk that has come to its end has seen every submission that was      *)
(* stored when it began: new ones push the old ones towards the pages      *)
(* still to come, and the total is counted after the rows.                 *)
THEOREM WalksMissNothing == Spec => []WalkMissesNothing
  <1>1. IInv => WalkMissesNothing
    <2> SUFFICES ASSUME IInv, walk.at = "shown", ~HasNext PROVE walk.start \subseteq walk.got
      BY DEF WalkMissesNothing
    <2>1. ~(walk.page * PageSize < walk.total)
      BY NextMeansMore DEF IInv
    <2>2. walk.page * PageSize \in Nat /\ walk.total \in Nat
      BY WalkType DEF IInv, FeedTypeOK
    <2>3. Missing = {}
      BY <2>1, <2>2 DEF IInv, Ahead
    <2> QED
      BY <2>3 DEF Missing
  <1> QED
    BY <1>1, FeedInvariant, PTL

(* A Next link leads to a page with rows, however late it is followed.     *)
THEOREM NextLinksLeadToRows == Spec => []FeedInv
  <1>1. IInv => NextPageHasRows
    <2> SUFFICES ASSUME IInv, walk.at = "shown", HasNext
                 PROVE  RowsOf(walk.list, walk.page + 1) # {}
      BY DEF NextPageHasRows
    <2>1. walk.page * PageSize < walk.total /\ walk.page \in Nat \ {0} /\ walk.total \in Nat
      BY NextMeansMore DEF IInv
    <2>2. walk.total <= Cardinality(Listed(walk.list)) /\ Cardinality(Listed(walk.list)) \in Nat
      BY ListedNow, StoredFinite DEF IInv, Ahead
    <2>3. Offset(walk.page + 1) = walk.page * PageSize /\ walk.page * PageSize \in Nat
      BY <2>1, PageTurns
    <2>4. walk.page + 1 \in Nat \ {0} /\ Offset(walk.page + 1) < Cardinality(Listed(walk.list))
      BY <2>1, <2>2, <2>3
    <2> QED
      BY <2>4, PageHasRow DEF IInv
  <1>2. IInv => FeedInv
    BY <1>1 DEF IInv, FeedInv
  <1> QED
    BY <1>2, FeedInvariant, PTL

(* A problem's solve count is the length of its ranking, and a person's    *)
(* count the number of rankings that name the person.                      *)
THEOREM RankingsAlwaysAgree == Spec => []RankingsAgree
  <1>1. IInv => RankingsAgree
    BY RankingsOfRows DEF IInv
  <1> QED
    BY <1>1, FeedInvariant, PTL

(* A page never counts a solver its ranking does not name, up to the       *)
(* limit, though a verdict may come between the two reads.                 *)
THEOREM CountedSolversAreRanked == Spec => []CountedAreRanked
  <1>1. IInv => CountedAreRanked
    BY DEF IInv, Counted
  <1> QED
    BY <1>1, FeedInvariant, PTL
=============================================================================
