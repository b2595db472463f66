----------------------------- MODULE ListProofs -----------------------------
(***************************************************************************)
(* Theorems about the problem list, for any problems, ratings, texts, page *)
(* sizes and first addresses, and any number of clicks: once quiet the     *)
(* page agrees with the address it follows, the rows shown are the rows    *)
(* asked for, the buttons lead to pages that exist, and pages share no     *)
(* problem.                                                                *)
(***************************************************************************)
EXTENDS ProblemList, FiniteSetTheorems, SequenceTheorems, TLAPS

-----------------------------------------------------------------------------
(* Addresses. *)

Fields == {"search", "difficulty", "kind", "sort", "order", "page", "pageSize"}

(* An address the tab may stand on.                                        *)
Addresses == FirstAddresses \union {Build(r) : r \in Requests}

LEMMA DefaultFields ==
  /\ Default.search = All /\ Default.difficulty = All /\ Default.kind = All
  /\ Default.sort = "code" /\ Default.order = "asc" /\ Default.page = 1
  /\ Default.pageSize = DefaultSize
  BY DEF Default

LEMMA RequestFields ==
  ASSUME NEW r \in Requests
  PROVE  /\ DOMAIN r = Fields
         /\ r.search \in Texts /\ r.difficulty \in Difficulties \union {All}
         /\ r.kind \in STRING /\ r.sort \in Sorts /\ r.order \in {"asc", "desc"}
         /\ r.page \in Nat \ {0} /\ r.pageSize \in PageSizes
  BY DEF Requests, Fields

(* Two requests that agree in every field are one.                         *)
LEMMA SameFields ==
  ASSUME NEW r \in Requests, NEW s \in Requests,
         r.search = s.search, r.difficulty = s.difficulty, r.kind = s.kind,
         r.sort = s.sort, r.order = s.order, r.page = s.page, r.pageSize = s.pageSize
  PROVE  r = s
  BY DEF Requests

(* What is left out of an address is read back as its default.             *)
LEMMA BuildSays ==
  ASSUME NEW r \in Requests, NEW f \in Fields
  PROVE  Said(Build(r), f) = r[f]
  <1>1. DOMAIN r = Fields
    BY RequestFields
  <1>2. DOMAIN Build(r) = {g \in Fields : r[g] # Default[g]}
    BY <1>1 DEF Build
  <1>3. CASE r[f] # Default[f]
    BY <1>1, <1>2, <1>3 DEF Said, Build
  <1>4. CASE r[f] = Default[f]
    BY <1>2, <1>4 DEF Said
  <1> QED
    BY <1>3, <1>4

(* What any address is read as: a request the server accepts.              *)
LEMMA AddressesParse ==
  ASSUME NEW a \in Addresses
  PROVE  /\ Said(a, "search") \in Texts /\ Said(a, "kind") \in STRING /\ Said(a, "page") \in Nat
         /\ Parse(a) \in Requests /\ Accepted(Parse(a))
  <1>1. Said(a, "search") \in Texts /\ Said(a, "kind") \in STRING /\ Said(a, "page") \in Nat
    <2>1. CASE a \in FirstAddresses
      BY <2>1, AddressesAssumption
    <2>2. ASSUME NEW r \in Requests, a = Build(r)
          PROVE  Said(a, "search") \in Texts /\ Said(a, "kind") \in STRING
                   /\ Said(a, "page") \in Nat
      BY <2>2, BuildSays, RequestFields DEF Fields
    <2> QED
      BY <2>1, <2>2 DEF Addresses
  <1>2. Cut[Trimmed[Said(a, "search")]] \in Texts
    BY <1>1, TextsAssumption
  <1>3. /\ Narrowed(Said(a, "difficulty"), Difficulties, All) \in Difficulties \union {All}
        /\ Narrowed(Said(a, "sort"), Sorts, "code") \in Sorts
        /\ Narrowed(Said(a, "order"), {"desc"}, "asc") \in {"asc", "desc"}
        /\ Narrowed(Said(a, "pageSize"), PageSizes, DefaultSize) \in PageSizes
    BY SizesAssumption DEF Narrowed, Sorts
  <1>4. (IF Said(a, "page") >= 1 THEN Said(a, "page") ELSE 1) \in Nat \ {0}
    BY <1>1
  <1>5. Parse(a) \in Requests
    BY <1>1, <1>2, <1>3, <1>4 DEF Parse, Requests
  <1>6. Accepted(Parse(a))
    <2>1. Parse(a).search = Cut[Trimmed[Said(a, "search")]]
      BY DEF Parse
    <2>2. Trimmed[Said(a, "search")] \in Texts
      BY <1>1, TextsAssumption
    <2> QED
      BY <2>1, <2>2, TextsAssumption DEF Accepted
  <1> QED
    BY <1>1, <1>5, <1>6

(* A request written to the address is read back, its search trimmed and   *)
(* cut once more.                                                          *)
LEMMA ParseBuild ==
  ASSUME NEW r \in Requests
  PROVE  /\ Build(r) \in Addresses
         /\ Parse(Build(r)).search = Cut[Trimmed[r.search]]
         /\ Parse(Build(r)).difficulty = r.difficulty /\ Parse(Build(r)).kind = r.kind
         /\ Parse(Build(r)).sort = r.sort /\ Parse(Build(r)).order = r.order
         /\ Parse(Build(r)).page = r.page /\ Parse(Build(r)).pageSize = r.pageSize
  <1>1. /\ Said(Build(r), "search") = r.search /\ Said(Build(r), "difficulty") = r.difficulty
        /\ Said(Build(r), "kind") = r.kind /\ Said(Build(r), "sort") = r.sort
        /\ Said(Build(r), "order") = r.order /\ Said(Build(r), "page") = r.page
        /\ Said(Build(r), "pageSize") = r.pageSize
    BY BuildSays DEF Fields
  <1>2. r.page >= 1
    BY RequestFields
  <1> DEFINE b == Build(r)
  <1> HIDE DEF b
  <1>3. /\ Parse(b).search = Cut[Trimmed[Said(b, "search")]]
        /\ Parse(b).difficulty = Narrowed(Said(b, "difficulty"), Difficulties, All)
        /\ Parse(b).kind = Said(b, "kind")
        /\ Parse(b).sort = Narrowed(Said(b, "sort"), Sorts, "code")
        /\ Parse(b).order = Narrowed(Said(b, "order"), {"desc"}, "asc")
        /\ Parse(b).page = IF Said(b, "page") >= 1 THEN Said(b, "page") ELSE 1
        /\ Parse(b).pageSize = Narrowed(Said(b, "pageSize"), PageSizes, DefaultSize)
    BY DEF Parse
  <1>4. Build(r) \in Addresses
    BY DEF Addresses
  <1>5. /\ Narrowed(r.difficulty, Difficulties, All) = r.difficulty
        /\ Narrowed(r.sort, Sorts, "code") = r.sort
        /\ Narrowed(r.order, {"desc"}, "asc") = r.order
        /\ Narrowed(r.pageSize, PageSizes, DefaultSize) = r.pageSize
    BY RequestFields DEF Narrowed
  <1> QED
    BY <1>1, <1>2, <1>3, <1>4, <1>5 DEF b

-----------------------------------------------------------------------------
(* Pages of a list. *)

LEMMA Products ==
  ASSUME NEW d \in Nat, NEW k \in Nat, NEW n \in Nat, k <= n
  PROVE  /\ k * d \in Nat /\ n * d \in Nat /\ k * d <= n * d
         /\ (k + 1) * d = k * d + d
  OBVIOUS

LEMMA Quotient ==
  ASSUME NEW n \in Nat, NEW d \in Nat \ {0}
  PROVE  /\ n \div d \in Nat
         /\ (n \div d) * d <= n
         /\ n < (n \div d) * d + d
  OBVIOUS

(* More than k pages just when k pages do not hold the n rows.             *)
LEMMA PagesNeeded ==
  ASSUME NEW n \in Nat, NEW d \in Nat \ {0}, NEW k \in Nat
  PROVE  /\ (n + d - 1) \div d \in Nat
         /\ k < (n + d - 1) \div d <=> k * d < n
  <1> DEFINE q == (n + d - 1) \div d
  <1>1. n + d - 1 \in Nat
    OBVIOUS
  <1>2. q \in Nat /\ q * d <= n + d - 1 /\ n + d - 1 < q * d + d
    BY <1>1, Quotient
  <1> HIDE DEF q
  <1>3. CASE k < q
    <2>1. (k + 1) * d <= q * d /\ (k + 1) * d = k * d + d /\ q * d \in Nat /\ k * d \in Nat
      BY <1>2, <1>3, Products
    <2> QED
      BY <1>2, <1>3, <2>1 DEF q
  <1>4. CASE q <= k
    <2>1. q * d <= k * d /\ q * d \in Nat /\ k * d \in Nat
      BY <1>2, <1>4, Products
    <2> QED
      BY <1>2, <1>4, <2>1 DEF q
  <1> QED
    BY <1>2, <1>3, <1>4

LEMMA MatchesFinite ==
  ASSUME NEW r
  PROVE  Matches(r) \subseteq Problems /\ IsFiniteSet(Matches(r)) /\ Total(r) \in Nat
  <1>1. Matches(r) \subseteq Problems
    BY DEF Matches
  <1> QED
    BY <1>1, ProblemsAssumption, FS_Subset, FS_CardinalityType DEF Total

(* A list has a first page, and one after each that leaves rows over.      *)
LEMMA PagesThereAre ==
  ASSUME NEW r \in Requests
  PROVE  /\ TotalPages(r) \in Nat \ {0}
         /\ \A k \in Nat \ {0} : k < TotalPages(r) <=> k * r.pageSize < Total(r)
  <1>1. Total(r) \in Nat /\ r.pageSize \in Nat \ {0}
    BY MatchesFinite, RequestFields, SizesAssumption
  <1>2. CASE Total(r) = 0
    <2>1. TotalPages(r) = 1
      BY <1>2 DEF TotalPages
    <2>2. \A k \in Nat \ {0} : k * r.pageSize \in Nat
      BY <1>1, Products
    <2> QED
      BY <1>2, <2>1, <2>2
  <1>3. CASE Total(r) # 0
    <2>1. TotalPages(r) = (Total(r) + r.pageSize - 1) \div r.pageSize
      BY <1>3 DEF TotalPages
    <2>2. TotalPages(r) \in Nat /\ \A k \in Nat : k < TotalPages(r) <=> k * r.pageSize < Total(r)
      BY <1>1, <2>1, PagesNeeded
    <2>3. 0 * r.pageSize < Total(r)
      BY <1>1, <1>3
    <2> QED
      BY <2>2, <2>3
  <1> QED
    BY <1>2, <1>3

(* What a list holds depends on the filters alone.                         *)
LEMMA SameMatches ==
  ASSUME NEW r, NEW s, Trimmed[r.search] = Trimmed[s.search],
         r.difficulty = s.difficulty, r.kind = s.kind
  PROVE  Matches(r) = Matches(s) /\ Total(r) = Total(s)
  BY DEF Matches, Total

LEMMA SamePages ==
  ASSUME NEW r, NEW s, Trimmed[r.search] = Trimmed[s.search],
         r.difficulty = s.difficulty, r.kind = s.kind, r.pageSize = s.pageSize
  PROVE  TotalPages(r) = TotalPages(s)
  BY SameMatches DEF TotalPages

-----------------------------------------------------------------------------
(* The order of a list.                                                    *)

LEMMA KeysAreNumbers ==
  ASSUME NEW r, NEW p \in Problems
  PROVE  p \in Nat /\ SortKey(r, p) \in Nat
  <1>1. p \in Nat /\ RatingOf[p] \in Nat /\ NullRank \in Nat
    BY ProblemsAssumption, RowsAssumption
  <1> QED
    BY <1>1 DEF SortKey, RatingRank

(* Of two rows one stands above the other, and never both.                 *)
LEMMA AboveIsStrict ==
  ASSUME NEW r, NEW p \in Problems, NEW q \in Problems
  PROVE  /\ p # q => Above(r, p, q) \/ Above(r, q, p)
         /\ ~(Above(r, p, q) /\ Above(r, q, p))
  <1>1. p \in Nat /\ q \in Nat /\ SortKey(r, p) \in Nat /\ SortKey(r, q) \in Nat
    BY KeysAreNumbers
  <1> QED
    BY <1>1 DEF Above

LEMMA SameOrders ==
  ASSUME NEW r, NEW s, Trimmed[r.search] = Trimmed[s.search],
         r.difficulty = s.difficulty, r.kind = s.kind, r.sort = s.sort, r.order = s.order
  PROVE  Orders(r) = Orders(s)
  <1>1. Matches(r) = Matches(s)
    BY SameMatches
  <1>2. \A p, q : Above(r, p, q) <=> Above(s, p, q)
    BY DEF Above, SortKey
  <1> QED
    BY <1>1, <1>2 DEF Orders

LEMMA OrderShape ==
  ASSUME NEW r, NEW list \in Orders(r)
  PROVE  /\ list \in [1..Total(r) -> Matches(r)]
         /\ list \in Seq(Problems) /\ Len(list) = Total(r)
         /\ \A i, j \in 1..Total(r) :
              i < j => list[i] # list[j] /\ Above(r, list[i], list[j])
  <1>1. Total(r) \in Nat /\ Matches(r) \subseteq Problems
    BY MatchesFinite
  <1>2. list \in [1..Total(r) -> Matches(r)]
    BY DEF Orders, Total
  <1>3. \A i, j \in 1..Total(r) : i < j => list[i] # list[j] /\ Above(r, list[i], list[j])
    BY DEF Orders, Total
  <1>4. list \in [1..Total(r) -> Problems]
    BY <1>1, <1>2
  <1>5. list \in Seq(Problems) /\ Len(list) = Total(r)
    BY <1>1, <1>4
  <1> QED
    BY <1>2, <1>3, <1>5

(* Every row that matches is in the list.                                  *)
LEMMA OrderIsFull ==
  ASSUME NEW r, NEW list \in Orders(r), NEW p \in Matches(r)
  PROVE  \E i \in 1..Total(r) : list[i] = p
  <1> DEFINE n == Total(r)
             M == Matches(r)
  <1>1. n \in Nat /\ IsFiniteSet(M) /\ Cardinality(M) = n
    BY MatchesFinite DEF Total
  <1>2. list \in [1..n -> M] /\ \A i, j \in 1..n : i < j => list[i] # list[j]
    BY OrderShape
  <1>3. p \in M
    OBVIOUS
  <1> HIDE DEF n, M
  <1>4. list \in Injection(1..n, M)
    <2>1. ASSUME NEW i \in 1..n, NEW j \in 1..n, list[i] = list[j] PROVE i = j
      <3>1. i < j \/ j < i \/ i = j
        BY <1>1
      <3> QED
        BY <1>2, <2>1, <3>1
    <2> QED
      BY <1>2, <2>1 DEF Injection, IsInjective
  <1>5. Cardinality(1..n) = Cardinality(M)
    <2>1. Cardinality(1..n) = IF 1 > n THEN 0 ELSE n - 1 + 1
      BY <1>1, FS_Interval
    <2> QED
      BY <1>1, <2>1
  <1>6. list \in Surjection(1..n, M)
    BY <1>1, <1>4, <1>5, FS_Injection
  <1> QED
    BY <1>3, <1>6 DEF Surjection, n

(* A row's place is the number of rows above it.                           *)
LEMMA PlaceIsRank ==
  ASSUME NEW r, NEW list \in Orders(r), NEW i \in 1..Total(r)
  PROVE  Cardinality({q \in Matches(r) : Above(r, q, list[i])}) = i - 1
  <1> DEFINE n == Total(r)
             higher == {q \in Matches(r) : Above(r, q, list[i])}
             part == [j \in 1..(i - 1) |-> list[j]]
  <1>1. n \in Nat /\ i \in 1..n
    BY MatchesFinite
  <1>2. /\ list \in [1..n -> Matches(r)] /\ Matches(r) \subseteq Problems
        /\ \A k, j \in 1..n : k < j => list[k] # list[j] /\ Above(r, list[k], list[j])
    BY OrderShape, MatchesFinite
  <1>3. \A q \in Matches(r) : \E k \in 1..n : list[k] = q
    BY OrderIsFull
  <1>4. ASSUME NEW j \in 1..(i - 1) PROVE j \in 1..n /\ list[j] \in higher
    <2>1. j \in 1..n /\ j < i
      BY <1>1
    <2> QED
      BY <1>1, <1>2, <2>1
  <1>5. ASSUME NEW q \in higher PROVE \E j \in 1..(i - 1) : list[j] = q
    <2>1. PICK k \in 1..n : list[k] = q
      BY <1>3
    <2>2. Above(r, list[k], list[i]) /\ list[k] \in Problems /\ list[i] \in Problems
      BY <1>1, <1>2, <2>1
    <2>3. ~Above(r, list[i], list[k]) /\ list[k] # list[i]
      BY <2>2, AboveIsStrict
    <2>4. ~(i < k) /\ k # i
      BY <1>1, <1>2, <2>3
    <2>5. k \in 1..(i - 1)
      BY <1>1, <2>4
    <2> QED
      BY <2>1, <2>5
  <1>6. \A k, j \in 1..(i - 1) : list[k] = list[j] => k = j
    <2>1. \A k, j \in 1..(i - 1) : k \in 1..n /\ j \in 1..n /\ (k < j \/ j < k \/ k = j)
      BY <1>1
    <2> QED
      BY <1>2, <2>1
  <1> HIDE DEF n, higher
  <1>7. part \in Bijection(1..(i - 1), higher)
    <2>1. part \in [1..(i - 1) -> higher] /\ \A j \in 1..(i - 1) : part[j] = list[j]
      BY <1>4
    <2> HIDE DEF part
    <2>2. DOMAIN part = 1..(i - 1)
      BY <2>1
    <2>3. IsInjective(part)
      BY <1>6, <2>1, <2>2 DEF IsInjective
    <2> QED
      BY <1>5, <2>1, <2>3 DEF Bijection, Injection, Surjection
  <1>8. Cardinality(1..(i - 1)) = i - 1 /\ IsFiniteSet(1..(i - 1))
    <2>1. i - 1 \in Nat
      BY <1>1
    <2>2. /\ IsFiniteSet(1..(i - 1))
          /\ Cardinality(1..(i - 1)) = IF 1 > i - 1 THEN 0 ELSE i - 1 - 1 + 1
      BY <2>1, FS_Interval
    <2> QED
      BY <2>1, <2>2
  <1>9. Cardinality(higher) = Cardinality(1..(i - 1))
    BY <1>7, <1>8, FS_Bijection DEF ExistsBijection
  <1> QED
    BY <1>8, <1>9 DEF higher

(* The rows of a list can be in one order only.                            *)
LEMMA OneOrder ==
  ASSUME NEW r, NEW one \in Orders(r), NEW two \in Orders(r),
         NEW i \in 1..Total(r), NEW j \in 1..Total(r), one[i] = two[j]
  PROVE  i = j
  <1>1. i - 1 = j - 1
    BY PlaceIsRank
  <1> QED
    BY <1>1, MatchesFinite

(* Where a page begins, how long it is and what stands on it.              *)
LEMMA PageShape ==
  ASSUME NEW r \in Requests, NEW list \in Orders(r)
  PROVE  LET page == PageOf(list, r)
             first == (r.page - 1) * r.pageSize
         IN /\ first \in Nat /\ page \in Seq(Problems)
            /\ r.page < TotalPages(r) => Len(page) = r.pageSize
            /\ \A i \in 1..Len(page) : /\ i <= r.pageSize /\ first + i \in 1..Total(r)
                                       /\ page[i] = list[first + i]
  <1> DEFINE page == PageOf(list, r)
             first == (r.page - 1) * r.pageSize
             end == r.page * r.pageSize
             n == Total(r)
             last1 == IF end <= n THEN end ELSE n
  <1>1. /\ first \in Nat /\ end = first + r.pageSize /\ n \in Nat
        /\ r.pageSize \in Nat \ {0}
    <2>1. r.page \in Nat \ {0} /\ r.pageSize \in Nat \ {0}
      BY RequestFields, SizesAssumption
    <2>2. r.page - 1 \in Nat /\ (r.page - 1) + 1 = r.page
      BY <2>1
    <2> QED
      BY <2>1, <2>2, Products, MatchesFinite
  <1>2. r.page < TotalPages(r) => end < n
    BY RequestFields, PagesThereAre
  <1>3. list \in Seq(Problems) /\ Len(list) = n
    BY OrderShape
  <1>4. page = SubSeq(list, first + 1, last1)
    BY <1>3 DEF PageOf
  <1> HIDE DEF page, first, end, n
  <1>5. first + 1 \in Int /\ last1 \in Int /\ last1 <= n /\ last1 <= first + r.pageSize
    BY <1>1
  <1> HIDE DEF last1
  <1>6. \A i \in (first + 1)..last1 : list[i] \in Problems
    <2>1. \A i \in (first + 1)..last1 : i \in 1..n
      BY <1>1, <1>5
    <2> QED
      BY <1>3, <2>1
  <1>7. /\ page \in Seq(Problems)
        /\ Len(page) = IF first + 1 <= last1 THEN last1 - (first + 1) + 1 ELSE 0
        /\ \A i \in 1..(last1 - (first + 1) + 1) : page[i] = list[first + 1 + i - 1]
    BY <1>4, <1>5, <1>6, SubSeqProperties
  <1>8. r.page < TotalPages(r) => Len(page) = r.pageSize
    BY <1>1, <1>2, <1>7 DEF last1
  <1>9. ASSUME NEW i \in 1..Len(page)
        PROVE  i <= r.pageSize /\ first + i \in 1..n /\ page[i] = list[first + i]
    <2>1. first + 1 <= last1 /\ i \in 1..(last1 - (first + 1) + 1)
      BY <1>1, <1>5, <1>7
    <2>2. first + 1 + i - 1 = first + i
      BY <1>1, <2>1
    <2> QED
      BY <1>1, <1>5, <1>7, <2>1, <2>2
  <1> QED
    BY <1>1, <1>7, <1>8, <1>9 DEF page, first, n

(* Two pages of one list, each from an order of its own, share no row.     *)
LEMMA PagesAreApart ==
  ASSUME NEW r \in Requests, NEW s \in Requests,
         r.search = s.search, r.difficulty = s.difficulty, r.kind = s.kind,
         r.sort = s.sort, r.order = s.order, r.pageSize = s.pageSize, r.page # s.page,
         NEW one \in Answers(r), NEW two \in Answers(s),
         NEW i \in 1..Len(one), NEW j \in 1..Len(two)
  PROVE  one[i] # two[j]
  <1>1. PICK a \in Orders(r) : one = PageOf(a, r)
    BY DEF Answers
  <1>2. PICK b \in Orders(s) : two = PageOf(b, s)
    BY DEF Answers
  <1>3. Orders(r) = Orders(s) /\ Total(r) = Total(s)
    BY SameOrders, SameMatches
  <1> DEFINE d == r.pageSize
             x == (r.page - 1) * d
             y == (s.page - 1) * d
  <1>4. /\ x \in Nat /\ i <= d /\ x + i \in 1..Total(r) /\ one[i] = a[x + i]
        /\ y \in Nat /\ j <= d /\ y + j \in 1..Total(r) /\ two[j] = b[y + j]
    BY <1>1, <1>2, <1>3, PageShape
  <1>5. i \in Nat \ {0} /\ j \in Nat \ {0}
    <2>1. one \in Seq(Problems) /\ two \in Seq(Problems)
      BY <1>1, <1>2, PageShape
    <2> QED
      BY <2>1
  <1>6. d \in Nat \ {0} /\ r.page \in Nat \ {0} /\ s.page \in Nat \ {0}
    BY RequestFields, SizesAssumption
  <1>7. x + d <= y \/ y + d <= x
    <2>1. ASSUME NEW u \in Nat \ {0}, NEW v \in Nat \ {0}, u < v
          PROVE  (u - 1) * d + d <= (v - 1) * d
      <3>1. u - 1 \in Nat /\ (u - 1) + 1 = u /\ v - 1 \in Nat /\ u <= v - 1
        BY <2>1
      <3>2. ((u - 1) + 1) * d = (u - 1) * d + d /\ u * d <= (v - 1) * d
        BY <1>6, <3>1, Products
      <3> QED
        BY <3>1, <3>2
    <2>2. r.page < s.page \/ s.page < r.page
      BY <1>6
    <2> QED
      BY <1>6, <2>1, <2>2
  <1> HIDE DEF x, y, d
  <1>8. x + i # y + j
    BY <1>4, <1>5, <1>6, <1>7
  <1> QED
    BY <1>3, <1>4, <1>8, OneOrder

-----------------------------------------------------------------------------
(* The inductive invariant. *)

AddressesOK == history \in Seq(Addresses) /\ resolved \in Addresses

(* What is kept as an answer is one of the server's.                       *)
Answered == \A r \in DOMAIN answers : Accepted(r) /\ answers[r] \in Answers(r)

(* The request of the page is never forgotten.                             *)
AskedFor == params \in fetching \union DOMAIN answers \union failed

(* Where the router has caught up, the request was read from the address,  *)
(* or the address was written from it and reads as what was there before;  *)
(* not so where it came back to the address it had before it was done.     *)
FollowsAddress ==
  resolved = Address /\ ~overlooked => params = Parse(Address) \/ Address = Build(params)

(* A search with a blank at its end was cut from the address resolved.     *)
SearchIsClean ==
  params.search = Cut[Trimmed[Said(resolved, "search")]] \/ Trimmed[params.search] = params.search

BoxHoldsSearch == timer = NoRequest => Trimmed[draft] = Trimmed[params.search]

(* A search that is too long has just been typed, on a first page.         *)
LongIsFirst == Accepted(params) \/ params.page = 1

Exists(request) == request.page <= TotalPages(request)

(* Every address the buttons can lead to shows a page there is.            *)
PagesExist ==
  Exists(Parse(history[1])) =>
    Exists(params) /\ \A i \in DOMAIN history : Exists(Parse(history[i]))

IInv ==
  /\ AddressesOK /\ ListTypeOK
  /\ Answered /\ AskedFor
  /\ FollowsAddress /\ SearchIsClean /\ BoxHoldsSearch
  /\ LongIsFirst /\ PagesExist

-----------------------------------------------------------------------------
(* Renders. *)

LEMMA TrimmedTwice == \A t \in Texts : Trimmed[t] \in Texts /\ Trimmed[Trimmed[t]] = Trimmed[t]
  BY TextsAssumption

(* A render leaves the section typed, its request asked for and its box    *)
(* holding the search, or a debounce pending.                              *)
LEMMA Renders ==
  ASSUME IInv, NEW request \in Requests, NEW typed \in Texts,
         NEW pending \in Requests \union {NoRequest},
         Rendered(request, typed, pending),
         \/ pending = timer
         \/ Trimmed[typed] = request.search
  PROVE  /\ params' = request /\ draft' \in Texts /\ timer' \in Requests \union {NoRequest}
         /\ answers' = answers /\ fetching' \subseteq Requests /\ failed' \subseteq Requests
         /\ last' \in DOMAIN answers
         /\ Answered' /\ AskedFor' /\ BoxHoldsSearch'
  <1>1. /\ params \in Requests /\ draft \in Texts
        /\ timer \in Requests \union {NoRequest}
        /\ fetching \subseteq Requests /\ failed \subseteq Requests /\ last \in DOMAIN answers
    BY DEF IInv, ListTypeOK
  <1>2. request.search \in Texts /\ params.search \in Texts
    BY <1>1, RequestFields
  <1>3. params' = request /\ draft' \in Texts /\ timer' \in Requests \union {NoRequest}
    BY <1>1, <1>2 DEF Rendered, SyncedDraft, Debounced
  <1>4. /\ answers' = answers /\ fetching' \subseteq Requests /\ failed' \subseteq Requests
        /\ last' \in DOMAIN answers
    BY <1>1 DEF Rendered, Asked
  <1>5. Answered'
    BY <1>4 DEF IInv, Answered
  <1>6. AskedFor'
    BY <1>3, <1>4 DEF IInv, AskedFor, Rendered, Asked
  <1>7. BoxHoldsSearch'
    <2> SUFFICES ASSUME timer' = NoRequest PROVE Trimmed[draft'] = Trimmed[request.search]
      BY <1>3 DEF BoxHoldsSearch
    <2>1. CASE request.search # params.search
      BY <2>1 DEF Rendered, SyncedDraft
    <2>2. CASE request.search = params.search /\ Trimmed[typed] = request.search
      <3>1. draft' = typed
        BY <2>2 DEF Rendered, SyncedDraft
      <3> QED
        BY <2>2, <3>1, TrimmedTwice
    <2>3. CASE request.search = params.search /\ pending = timer
      <3>1. draft' = typed
        BY <2>3 DEF Rendered, SyncedDraft
      <3>2. CASE typed = draft
        <4>1. timer = NoRequest
          BY <2>3, <3>1, <3>2 DEF Rendered, Debounced
        <4>2. Trimmed[draft] = Trimmed[params.search]
          BY <4>1 DEF IInv, BoxHoldsSearch
        <4> QED
          BY <2>3, <3>1, <3>2, <4>2
      <3>3. CASE typed # draft
        <4>1. Trimmed[typed] = request.search \/ timer' = request
          BY <3>1, <3>3 DEF Rendered, Debounced
        <4>2. request # NoRequest
          BY NoRequestAssumption
        <4>3. Trimmed[typed] = request.search
          BY <4>1, <4>2
        <4> QED
          BY <3>1, <4>3, TrimmedTwice
      <3> QED
        BY <3>2, <3>3
    <2> QED
      BY <2>1, <2>2, <2>3
  <1> QED
    BY <1>3, <1>4, <1>5, <1>6, <1>7

(* A page read back from the address it was written to exists as well.     *)
LEMMA WrittenPageExists ==
  ASSUME NEW r \in Requests, Accepted(r) \/ r.page = 1, Exists(r)
  PROVE  Exists(Parse(Build(r)))
  <1>1. Build(r) \in Addresses /\ Parse(Build(r)) \in Requests
    BY ParseBuild, AddressesParse
  <1>2. /\ Parse(Build(r)).search = Cut[Trimmed[r.search]]
        /\ Parse(Build(r)).difficulty = r.difficulty /\ Parse(Build(r)).kind = r.kind
        /\ Parse(Build(r)).page = r.page /\ Parse(Build(r)).pageSize = r.pageSize
    BY ParseBuild
  <1>3. CASE r.page = 1
    <2>1. TotalPages(Parse(Build(r))) \in Nat \ {0}
      BY <1>1, PagesThereAre
    <2> QED
      BY <1>2, <1>3, <2>1 DEF Exists
  <1>4. CASE Accepted(r)
    <2>1. Trimmed[Parse(Build(r)).search] = Trimmed[r.search]
      BY <1>2, <1>4, RequestFields, TrimmedTwice DEF Accepted
    <2>2. TotalPages(Parse(Build(r))) = TotalPages(r)
      BY <1>2, <2>1, SamePages
    <2> QED
      BY <1>2, <2>2 DEF Exists
  <1> QED
    BY <1>3, <1>4

(* What lies ahead is dropped, the new address is put at the end.          *)
LEMMA PushedHistory ==
  ASSUME IInv, NEW request \in Requests, NEW pending,
         SetParamsAndUrl(request, pending)
  PROVE  /\ history' \in Seq(Addresses) /\ Len(history') = at + 1 /\ at' = at + 1
         /\ at \in 1..Len(history) /\ Len(history) \in Nat
         /\ \A i \in 1..at : history'[i] = history[i]
         /\ history'[at + 1] = Build(request)
         /\ resolved' = resolved /\ overlooked' = FALSE
  <1>1. history \in Seq(Addresses) /\ at \in 1..Len(history) /\ Len(history) \in Nat
    BY LenProperties DEF IInv, AddressesOK, ListTypeOK
  <1> DEFINE kept == SubSeq(history, 1, at)
             new == <<Build(request)>>
  <1>2. /\ kept \in Seq(Addresses) /\ Len(kept) = at
        /\ \A i \in 1..at : kept[i] = history[i]
    <2>1. \A i \in 1..at : history[i] \in Addresses
      BY <1>1
    <2>2. 1 \in Int /\ at \in Int
      BY <1>1
    <2>3. /\ kept \in Seq(Addresses)
          /\ Len(kept) = IF 1 <= at THEN at - 1 + 1 ELSE 0
          /\ \A i \in 1..(at - 1 + 1) : kept[i] = history[1 + i - 1]
      BY <2>1, <2>2, SubSeqProperties
    <2>4. at - 1 + 1 = at /\ 1 <= at
      BY <1>1
    <2>5. \A i \in 1..at : 1 + i - 1 = i
      BY <1>1
    <2> QED
      BY <2>3, <2>4, <2>5
  <1>3. new \in Seq(Addresses) /\ Len(new) = 1 /\ new[1] = Build(request)
    BY ParseBuild
  <1>4. history' = kept \o new /\ at' = at + 1 /\ resolved' = resolved /\ overlooked' = FALSE
    BY DEF SetParamsAndUrl
  <1> HIDE DEF kept, new
  <1>5. /\ kept \o new \in Seq(Addresses) /\ Len(kept \o new) = at + 1
        /\ \A i \in 1..(at + 1) : (kept \o new)[i] = IF i <= at THEN kept[i] ELSE new[i - at]
    <2>1. /\ kept \o new \in Seq(Addresses) /\ Len(kept \o new) = Len(kept) + Len(new)
          /\ \A i \in 1..(Len(kept) + Len(new)) :
               (kept \o new)[i] = IF i <= Len(kept) THEN kept[i] ELSE new[i - Len(kept)]
      BY <1>2, <1>3, ConcatProperties
    <2> QED
      BY <1>2, <1>3, <2>1
  <1>6. \A i \in 1..at : (kept \o new)[i] = history[i]
    BY <1>1, <1>2, <1>5
  <1>7. (kept \o new)[at + 1] = Build(request)
    <2>1. at + 1 \in 1..(at + 1) /\ ~(at + 1 <= at) /\ (at + 1) - at = 1
      BY <1>1
    <2> QED
      BY <1>3, <1>5, <2>1
  <1> QED
    BY <1>1, <1>4, <1>5, <1>6, <1>7

(* Whatever sets request and address at once keeps the invariant.          *)
LEMMA Pushes ==
  ASSUME IInv, NEW request \in Requests, NEW pending \in Requests \union {NoRequest},
         SetParamsAndUrl(request, pending),
         pending = timer \/ Trimmed[draft] = request.search,
         request.search = params.search \/ Trimmed[request.search] = request.search,
         Accepted(request) \/ request.page = 1,
         Exists(Parse(history[1])) => Exists(request),
         clicks' \in Nat, faults' \in Nat
  PROVE  IInv'
  <1>1. Rendered(request, draft, pending) /\ draft \in Texts
    BY DEF SetParamsAndUrl, IInv, ListTypeOK
  <1>2. /\ params' = request /\ draft' \in Texts /\ timer' \in Requests \union {NoRequest}
        /\ answers' = answers /\ fetching' \subseteq Requests /\ failed' \subseteq Requests
        /\ last' \in DOMAIN answers
        /\ Answered' /\ AskedFor' /\ BoxHoldsSearch'
    BY <1>1, Renders
  <1>3. /\ history' \in Seq(Addresses) /\ Len(history') = at + 1 /\ at' = at + 1
        /\ at \in 1..Len(history) /\ Len(history) \in Nat
        /\ \A i \in 1..at : history'[i] = history[i]
        /\ history'[at + 1] = Build(request)
        /\ resolved' = resolved /\ overlooked' = FALSE
    BY PushedHistory
  <1>4. AddressesOK'
    BY <1>3 DEF IInv, AddressesOK
  <1>5. ListTypeOK'
    <2>1. at' \in 1..Len(history')
      BY <1>3
    <2>2. overlooked' \in BOOLEAN
      BY <1>3
    <2> QED
      BY <1>2, <2>1, <2>2 DEF IInv, ListTypeOK
  <1>6. FollowsAddress'
    BY <1>2, <1>3 DEF FollowsAddress, Address
  <1>7. SearchIsClean'
    BY <1>2, <1>3 DEF SearchIsClean, IInv
  <1>8. LongIsFirst'
    BY <1>2 DEF LongIsFirst
  <1>9. PagesExist'
    <2>1. DOMAIN history' = 1..(at + 1) /\ DOMAIN history = 1..Len(history)
      BY <1>3, LenProperties DEF IInv, AddressesOK
    <2>2. 1 \in 1..at /\ 1..at \subseteq 1..Len(history)
      BY <1>3
    <2>3. \A i \in 1..(at + 1) : i \in 1..at \/ i = at + 1
      BY <1>3
    <2> SUFFICES ASSUME Exists(Parse(history'[1]))
                 PROVE  Exists(params') /\ \A i \in DOMAIN history' : Exists(Parse(history'[i]))
      BY DEF PagesExist, Exists
    <2>4. Exists(Parse(history[1]))
      BY <1>3, <2>2
    <2>5. Exists(request) /\ \A i \in DOMAIN history : Exists(Parse(history[i]))
      BY <2>4 DEF IInv, PagesExist
    <2>6. Exists(Parse(Build(request)))
      BY <2>5, WrittenPageExists
    <2>7. ASSUME NEW i \in DOMAIN history' PROVE Exists(Parse(history'[i]))
      <3>1. CASE i \in 1..at
        BY <1>3, <2>1, <2>2, <2>5, <3>1
      <3>2. CASE i = at + 1
        BY <1>3, <2>6, <3>2
      <3> QED
        BY <2>1, <2>3, <2>7, <3>1, <3>2
    <2> QED
      BY <1>2, <2>5, <2>7
  <1> QED
    BY <1>2, <1>4, <1>5, <1>6, <1>7, <1>8, <1>9 DEF IInv

-----------------------------------------------------------------------------
(* Every step keeps the invariant. *)

(* A list that is shown while nothing is on its way is the one asked for.  *)
LEMMA ShownWhenUsable ==
  ASSUME AskedFor, PaginationUsable
  PROVE  ShownRequest = params /\ params \in DOMAIN answers
  BY DEF AskedFor, PaginationUsable, ShownRequest

(* The first page of anything exists.                                      *)
LEMMA FirstPageExists ==
  ASSUME NEW r \in Requests, r.page = 1
  PROVE  Exists(r)
  BY PagesThereAre DEF Exists

LEMMA ListStarts == Init => IInv
  <1> SUFFICES ASSUME Init PROVE IInv
    OBVIOUS
  <1>1. PICK a \in FirstAddresses : /\ history = <<a>> /\ resolved = a /\ params = Parse(a)
                                    /\ \E rows \in Answers(params) :
                                         answers = [r \in {params} |-> rows]
    BY DEF Init
  <1>2. PICK rows \in Answers(params) : answers = [r \in {params} |-> rows]
    BY <1>1
  <1>3. a \in Addresses /\ params \in Requests /\ Accepted(params)
    BY <1>1, AddressesParse DEF Addresses
  <1>4. history \in Seq(Addresses) /\ Len(history) = 1 /\ history[1] = a /\ DOMAIN history = {1}
    BY <1>1, <1>3
  <1>5. DOMAIN answers = {params} /\ answers[params] = rows
    BY <1>2
  <1>6. rows \in Rows
    BY <1>3, PageShape DEF Answers, Rows
  <1>7. draft = params.search /\ draft \in Texts /\ at = 1
        /\ timer = (IF Trimmed[draft] = params.search THEN NoRequest ELSE params)
        /\ fetching = {} /\ failed = {} /\ last = params /\ clicks = 0 /\ faults = 0
        /\ overlooked = FALSE
    BY <1>3, RequestFields DEF Init
  <1>8. AddressesOK
    BY <1>1, <1>3, <1>4 DEF AddressesOK
  <1>9. ListTypeOK
    <2>1. overlooked \in BOOLEAN
      BY <1>7
    <2>2. \A r \in DOMAIN answers : answers[r] \in Rows
      BY <1>5, <1>6
    <2> QED
      BY <1>3, <1>4, <1>5, <1>7, <2>1, <2>2 DEF ListTypeOK
  <1>10. Answered /\ AskedFor
    BY <1>3, <1>5 DEF Answered, AskedFor
  <1>11. FollowsAddress
    BY <1>1, <1>4, <1>7 DEF FollowsAddress, Address
  <1>12. SearchIsClean
    BY <1>1 DEF SearchIsClean, Parse
  <1>13. BoxHoldsSearch
    BY <1>7 DEF BoxHoldsSearch
  <1>14. LongIsFirst
    BY <1>3 DEF LongIsFirst
  <1>15. PagesExist
    BY <1>1, <1>4 DEF PagesExist
  <1> QED
    BY <1>8, <1>9, <1>10, <1>11, <1>12, <1>13, <1>14, <1>15 DEF IInv

LEMMA TypeKeeps ==
  ASSUME IInv, NEW text \in Texts, Type(text)
  PROVE  IInv'
  <1>1. Rendered(params, text, timer) /\ UNCHANGED <<addressVars, faults>> /\ clicks' = clicks + 1
    BY DEF Type, Click
  <1>2. params \in Requests /\ timer \in Requests \union {NoRequest}
    BY DEF IInv, ListTypeOK
  <1>3. /\ params' = params /\ draft' \in Texts /\ timer' \in Requests \union {NoRequest}
        /\ answers' = answers /\ fetching' \subseteq Requests /\ failed' \subseteq Requests
        /\ last' \in DOMAIN answers
        /\ Answered' /\ AskedFor' /\ BoxHoldsSearch'
    BY <1>1, <1>2, Renders
  <1>4. UNCHANGED <<history, at, resolved, overlooked>>
    BY <1>1 DEF addressVars
  <1>5. ListTypeOK'
    BY <1>1, <1>3, <1>4 DEF IInv, ListTypeOK
  <1>6. /\ AddressesOK' /\ FollowsAddress' /\ SearchIsClean' /\ LongIsFirst' /\ PagesExist'
    BY <1>3, <1>4 DEF IInv, AddressesOK, FollowsAddress, Address, SearchIsClean, LongIsFirst,
                      PagesExist
  <1> QED
    BY <1>3, <1>5, <1>6 DEF IInv

LEMMA DebounceKeeps ==
  ASSUME IInv, DebounceFires
  PROVE  IInv'
  <1> DEFINE request == [timer EXCEPT !.search = Trimmed[draft], !.page = 1]
  <1>1. timer \in Requests /\ draft \in Texts /\ clicks \in Nat /\ faults \in Nat
    BY DEF DebounceFires, IInv, ListTypeOK
  <1>2. Trimmed[draft] \in Texts /\ Trimmed[Trimmed[draft]] = Trimmed[draft]
    BY <1>1, TrimmedTwice
  <1>3. request \in Requests /\ request.search = Trimmed[draft] /\ request.page = 1
    <2> DEFINE searched == [timer EXCEPT !.search = Trimmed[draft]]
    <2>1. searched \in Requests /\ searched.search = Trimmed[draft]
      BY <1>1, <1>2 DEF Requests
    <2>2. request = [searched EXCEPT !.page = 1]
      OBVIOUS
    <2> HIDE DEF searched, request
    <2> QED
      BY <2>1, <2>2 DEF Requests
  <1>4. SetParamsAndUrl(request, NoRequest) /\ clicks' = clicks /\ faults' = faults
    BY DEF DebounceFires
  <1> HIDE DEF request
  <1>5. Exists(request)
    BY <1>3, FirstPageExists
  <1> QED
    BY <1>1, <1>2, <1>3, <1>4, <1>5, Pushes

LEMMA OfferedIsText == Offered \subseteq STRING
  BY RowsAssumption DEF Offered

LEMMA ChoiceFields ==
  ASSUME NEW partial \in Choices
  PROVE  /\ DOMAIN partial \subseteq {"difficulty", "kind", "sort", "order", "pageSize"}
         /\ "difficulty" \in DOMAIN partial => partial["difficulty"] \in Difficulties \union {All}
         /\ "kind" \in DOMAIN partial => partial["kind"] \in STRING
         /\ "sort" \in DOMAIN partial => partial["sort"] \in Sorts
         /\ "order" \in DOMAIN partial => partial["order"] \in {"asc", "desc"}
         /\ "pageSize" \in DOMAIN partial => partial["pageSize"] \in PageSizes
  <1>1. All \in STRING
    BY TextsAssumption
  <1>2. CASE partial \in [difficulty : Difficulties \union {All}]
    <2>1. DOMAIN partial = {"difficulty"} /\ partial["difficulty"] \in Difficulties \union {All}
      BY <1>2
    <2> QED
      BY <2>1
  <1>3. CASE partial \in [kind : Offered \union {All}]
    <2>1. DOMAIN partial = {"kind"} /\ partial["kind"] \in STRING
      BY <1>1, <1>3, OfferedIsText
    <2> QED
      BY <2>1
  <1>4. CASE partial \in [sort : Sorts]
    <2>1. DOMAIN partial = {"sort"} /\ partial["sort"] \in Sorts
      BY <1>4
    <2> QED
      BY <2>1
  <1>5. CASE partial \in [order : {"asc", "desc"}]
    <2>1. DOMAIN partial = {"order"} /\ partial["order"] \in {"asc", "desc"}
      BY <1>5
    <2> QED
      BY <2>1
  <1>6. CASE partial \in [pageSize : PageSizes]
    <2>1. DOMAIN partial = {"pageSize"} /\ partial["pageSize"] \in PageSizes
      BY <1>6
    <2> QED
      BY <2>1
  <1> QED
    BY <1>2, <1>3, <1>4, <1>5, <1>6 DEF Choices

(* A choice changes a filter, the order or the page size, never the search. *)
LEMMA WithIsRequest ==
  ASSUME NEW r \in Requests, NEW partial \in Choices
  PROVE  With(r, partial) \in Requests /\ With(r, partial).search = r.search
  <1> DEFINE w == With(r, partial)
             chosen(f) == IF f \in DOMAIN partial THEN partial[f] ELSE r[f]
  <1>1. w = [f \in Fields |-> chosen(f)]
    BY RequestFields DEF With
  <1>2. /\ chosen("search") = r.search /\ chosen("page") = r.page
    BY ChoiceFields
  <1>3. /\ chosen("difficulty") \in Difficulties \union {All} /\ chosen("kind") \in STRING
        /\ chosen("sort") \in Sorts /\ chosen("order") \in {"asc", "desc"}
        /\ chosen("pageSize") \in PageSizes
    BY ChoiceFields, RequestFields
  <1>4. r.search \in Texts /\ r.page \in Nat \ {0}
    BY RequestFields
  <1> HIDE DEF chosen, w
  <1>5. w = [search |-> chosen("search"), difficulty |-> chosen("difficulty"),
             kind |-> chosen("kind"), sort |-> chosen("sort"), order |-> chosen("order"),
             page |-> chosen("page"), pageSize |-> chosen("pageSize")]
    BY <1>1 DEF Fields
  <1>6. w \in Requests /\ w.search = r.search
    BY <1>2, <1>3, <1>4, <1>5 DEF Requests
  <1> QED
    BY <1>6 DEF w

LEMMA ChooseKeeps ==
  ASSUME IInv, NEW partial \in Choices, ChooseFilter(partial)
  PROVE  IInv'
  <1> DEFINE w == With(params, partial)
             request == [w EXCEPT !.page = 1]
  <1>1. params \in Requests /\ timer \in Requests \union {NoRequest}
        /\ clicks \in Nat /\ faults \in Nat
    BY DEF IInv, ListTypeOK
  <1>2. w \in Requests /\ w.search = params.search
    BY <1>1, WithIsRequest
  <1>3. SetParamsAndUrl(request, timer) /\ clicks' = clicks + 1 /\ faults' = faults
    BY DEF ChooseFilter, Click
  <1> HIDE DEF w
  <1>4. request \in Requests /\ request.search = params.search /\ request.page = 1
    BY <1>2 DEF Requests
  <1> HIDE DEF request
  <1>5. Exists(request)
    BY <1>4, FirstPageExists
  <1> QED
    BY <1>1, <1>3, <1>4, <1>5, Pushes

LEMMA ClearKeeps ==
  ASSUME IInv, ClearFilters
  PROVE  IInv'
  <1> DEFINE request == [params EXCEPT !.search = All, !.difficulty = All, !.kind = All,
                                       !.page = 1]
  <1>1. params \in Requests /\ timer \in Requests \union {NoRequest}
        /\ clicks \in Nat /\ faults \in Nat
    BY DEF IInv, ListTypeOK
  <1>2. SetParamsAndUrl(request, timer) /\ clicks' = clicks + 1 /\ faults' = faults
    BY DEF ClearFilters, Click
  <1>3. All \in STRING
    BY TextsAssumption
  <1>4. request \in Requests /\ request.search = All /\ request.page = 1
    <2> DEFINE searched == [params EXCEPT !.search = All]
               rated == [searched EXCEPT !.difficulty = All]
               named == [rated EXCEPT !.kind = All]
    <2>1. searched \in Requests /\ searched.search = All
      BY <1>1, TextsAssumption DEF Requests
    <2>2. request = [named EXCEPT !.page = 1]
      OBVIOUS
    <2> HIDE DEF searched, request
    <2>3. rated \in Requests /\ rated.search = All
      BY <2>1 DEF Requests
    <2> HIDE DEF rated
    <2>4. named \in Requests /\ named.search = All
      BY <1>3, <2>3 DEF Requests
    <2> HIDE DEF named
    <2> QED
      BY <2>2, <2>4 DEF Requests
  <1> HIDE DEF request
  <1>5. Exists(request) /\ Trimmed[request.search] = request.search
    BY <1>4, FirstPageExists, TextsAssumption
  <1> QED
    BY <1>1, <1>2, <1>4, <1>5, Pushes

LEMMA StepKeeps ==
  ASSUME IInv, NEW page \in 0..(Cardinality(Problems) + 1), StepPage(page)
  PROVE  IInv'
  <1> DEFINE request == [params EXCEPT !.page = page]
  <1>1. params \in Requests /\ timer \in Requests \union {NoRequest}
        /\ clicks \in Nat /\ faults \in Nat
    BY DEF IInv, ListTypeOK
  <1>2. SetParamsAndUrl(request, timer) /\ clicks' = clicks + 1 /\ faults' = faults
    BY DEF StepPage, Click
  <1>3. ShownRequest = params /\ params \in DOMAIN answers
    BY ShownWhenUsable DEF StepPage, IInv
  <1>4. Accepted(params)
    BY <1>3 DEF IInv, Answered
  <1>5. params.page \in Nat \ {0} /\ TotalPages(params) \in Nat
        /\ (params.page < TotalPages(params) <=> params.page * params.pageSize < Total(params))
    BY <1>1, RequestFields, PagesThereAre
  <1>6. \/ page = params.page - 1 /\ params.page > 1
        \/ page = params.page + 1 /\ params.page * params.pageSize < Total(params)
    BY <1>3 DEF StepPage, HasPrevious, HasNext
  <1>7. page \in Nat \ {0} /\ (page <= TotalPages(params) \/ page < params.page)
    BY <1>5, <1>6
  <1>8. request \in Requests /\ request.search = params.search /\ request.page = page
        /\ request.difficulty = params.difficulty /\ request.kind = params.kind
        /\ request.pageSize = params.pageSize
    BY <1>1, <1>7 DEF Requests
  <1> HIDE DEF request
  <1>9. Accepted(request) /\ TotalPages(request) = TotalPages(params)
    BY <1>4, <1>8, SamePages DEF Accepted
  <1>10. Exists(Parse(history[1])) => Exists(request)
    <2>1. Exists(Parse(history[1])) => params.page <= TotalPages(params)
      BY DEF IInv, PagesExist, Exists
    <2> QED
      BY <1>5, <1>7, <1>8, <1>9, <2>1 DEF Exists
  <1> QED
    BY <1>1, <1>2, <1>8, <1>9, <1>10, Pushes

LEMMA TravelKeeps ==
  ASSUME IInv, NEW entry \in DOMAIN history, Travel(entry)
  PROVE  IInv'
  <1>1. /\ at' = entry /\ clicks' = clicks + 1
        /\ overlooked' = (history[entry] = resolved /\ (overlooked \/ resolved # Address))
        /\ UNCHANGED <<listVars, history, resolved, queryVars, faults>>
    BY DEF Travel, Click
  <1>2. entry \in 1..Len(history)
    BY LenProperties DEF IInv, AddressesOK
  <1>3. ListTypeOK'
    BY <1>1, <1>2 DEF IInv, ListTypeOK, listVars, queryVars
  <1>4. resolved' = Address' /\ ~overlooked' => resolved = Address /\ ~overlooked /\ Address' = Address
    <2>1. Address' = history[entry] /\ resolved' = resolved
      BY <1>1 DEF Address
    <2> QED
      BY <1>1, <2>1
  <1>5. FollowsAddress'
    BY <1>1, <1>4 DEF IInv, FollowsAddress, listVars
  <1>6. AddressesOK' /\ SearchIsClean' /\ LongIsFirst' /\ PagesExist' /\ Answered' /\ AskedFor'
        /\ BoxHoldsSearch'
    BY <1>1 DEF IInv, AddressesOK, SearchIsClean, LongIsFirst, PagesExist, Answered, AskedFor,
                BoxHoldsSearch, listVars, queryVars
  <1> QED
    BY <1>3, <1>5, <1>6 DEF IInv

LEMMA ResolveKeeps ==
  ASSUME IInv, Resolve
  PROVE  IInv'
  <1>1. /\ resolved' = Address /\ overlooked' = FALSE
        /\ Rendered(Parse(Address), draft, timer)
        /\ UNCHANGED <<history, at, clicks, faults>>
    BY DEF Resolve
  <1>2. history \in Seq(Addresses) /\ at \in 1..Len(history) /\ draft \in Texts
        /\ timer \in Requests \union {NoRequest}
    BY DEF IInv, AddressesOK, ListTypeOK
  <1>3. Address \in Addresses /\ at \in DOMAIN history
    BY <1>2 DEF Address
  <1>4. Parse(Address) \in Requests /\ Accepted(Parse(Address))
    BY <1>3, AddressesParse
  <1>5. /\ params' = Parse(Address) /\ draft' \in Texts
        /\ timer' \in Requests \union {NoRequest}
        /\ answers' = answers /\ fetching' \subseteq Requests /\ failed' \subseteq Requests
        /\ last' \in DOMAIN answers
        /\ Answered' /\ AskedFor' /\ BoxHoldsSearch'
    BY <1>1, <1>2, <1>4, Renders
  <1>6. Address' = Address
    BY <1>1 DEF Address
  <1>7. AddressesOK' /\ ListTypeOK'
    BY <1>1, <1>3, <1>4, <1>5 DEF IInv, AddressesOK, ListTypeOK
  <1>8. FollowsAddress'
    BY <1>5, <1>6 DEF FollowsAddress
  <1>9. SearchIsClean'
    <2>1. Parse(Address).search = Cut[Trimmed[Said(Address, "search")]]
      BY DEF Parse
    <2> QED
      BY <1>1, <1>5, <2>1 DEF SearchIsClean
  <1>10. LongIsFirst'
    BY <1>4, <1>5 DEF LongIsFirst
  <1>11. PagesExist'
    BY <1>1, <1>3, <1>5 DEF IInv, PagesExist, Address
  <1> QED
    BY <1>5, <1>7, <1>8, <1>9, <1>10, <1>11 DEF IInv

(* What only moves requests and answers leaves the page and its address.   *)
LEMMA FetchesKeep ==
  ASSUME IInv, UNCHANGED <<listVars, addressVars>>,
         DOMAIN answers' \subseteq Requests /\ \A r \in DOMAIN answers' : answers'[r] \in Rows,
         fetching' \subseteq Requests, failed' \subseteq Requests, last' \in DOMAIN answers',
         Answered', AskedFor', clicks' \in Nat, faults' \in Nat
  PROVE  IInv'
  <1>1. ListTypeOK'
    BY DEF IInv, ListTypeOK, listVars, addressVars
  <1>2. /\ AddressesOK' /\ FollowsAddress' /\ SearchIsClean' /\ BoxHoldsSearch' /\ LongIsFirst'
        /\ PagesExist'
    BY DEF IInv, AddressesOK, FollowsAddress, Address, SearchIsClean, BoxHoldsSearch,
           LongIsFirst, PagesExist, listVars, addressVars
  <1> QED
    BY <1>1, <1>2 DEF IInv

LEMMA AnswerKeeps ==
  ASSUME IInv, NEW request \in fetching, Answer(request)
  PROVE  IInv'
  <1>1. /\ Accepted(request) /\ failed' = failed \ {request}
        /\ fetching' = fetching \ {request}
        /\ last' = (IF params \in DOMAIN answers' THEN params ELSE last)
        /\ UNCHANGED <<listVars, addressVars, clicks, faults>>
    BY DEF Answer, Settled
  <1>2. PICK rows \in Answers(request) :
          answers' = [r \in DOMAIN answers \union {request} |->
                        IF r = request THEN rows ELSE answers[r]]
    BY DEF Answer
  <1>3. /\ fetching \subseteq Requests /\ failed \subseteq Requests /\ request \in Requests
        /\ DOMAIN answers \subseteq Requests /\ \A r \in DOMAIN answers : answers[r] \in Rows
        /\ last \in DOMAIN answers /\ clicks \in Nat /\ faults \in Nat
    BY DEF IInv, ListTypeOK
  <1>4. rows \in Rows
    BY <1>3, PageShape DEF Answers, Rows
  <1>5. DOMAIN answers' = DOMAIN answers \union {request} /\ answers'[request] = rows
        /\ \A r \in DOMAIN answers \ {request} : answers'[r] = answers[r]
    BY <1>2
  <1>6. Answered'
    <2>1. ASSUME NEW r \in DOMAIN answers' PROVE Accepted(r) /\ answers'[r] \in Answers(r)
      <3>1. CASE r = request
        BY <1>1, <1>2, <1>5, <3>1
      <3>2. CASE r # request
        BY <1>5, <3>2 DEF IInv, Answered
      <3> QED
        BY <3>1, <3>2
    <2> QED
      BY <2>1 DEF Answered
  <1>7. AskedFor'
    BY <1>1, <1>5 DEF IInv, AskedFor, listVars
  <1>8. DOMAIN answers' \subseteq Requests /\ \A r \in DOMAIN answers' : answers'[r] \in Rows
    BY <1>3, <1>4, <1>5
  <1>9. last' \in DOMAIN answers'
    BY <1>1, <1>3, <1>5
  <1> QED
    BY <1>1, <1>3, <1>6, <1>7, <1>8, <1>9, FetchesKeep

(* A request that ends without an answer, refused or lost.                 *)
LEMMA FailureKeeps ==
  ASSUME IInv, NEW request \in fetching, Refuse(request) \/ FailRequest(request)
  PROVE  IInv'
  <1>1. /\ failed' = failed \union {request} /\ fetching' = fetching \ {request}
        /\ UNCHANGED <<listVars, addressVars, clicks, answers, last>>
    BY DEF Refuse, FailRequest, Settled
  <1>2. /\ fetching \subseteq Requests /\ failed \subseteq Requests /\ request \in Requests
        /\ DOMAIN answers \subseteq Requests /\ \A r \in DOMAIN answers : answers[r] \in Rows
        /\ last \in DOMAIN answers /\ clicks \in Nat /\ faults \in Nat
    BY DEF IInv, ListTypeOK
  <1>3. faults' \in Nat
    BY <1>2 DEF Refuse, FailRequest
  <1>4. Answered' /\ AskedFor'
    BY <1>1 DEF IInv, Answered, AskedFor, listVars
  <1> QED
    BY <1>1, <1>2, <1>3, <1>4, FetchesKeep

LEMMA RefetchKeeps ==
  ASSUME IInv, Refetch
  PROVE  IInv'
  <1>1. /\ fetching' = fetching \union {params}
        /\ failed' = (IF params \in DOMAIN answers THEN failed ELSE failed \ {params})
        /\ clicks' = clicks + 1
        /\ UNCHANGED <<listVars, addressVars, answers, last, faults>>
    BY DEF Refetch, Click
  <1>2. /\ fetching \subseteq Requests /\ failed \subseteq Requests /\ params \in Requests
        /\ DOMAIN answers \subseteq Requests /\ \A r \in DOMAIN answers : answers[r] \in Rows
        /\ last \in DOMAIN answers /\ clicks \in Nat /\ faults \in Nat
    BY DEF IInv, ListTypeOK
  <1>3. Answered' /\ AskedFor'
    BY <1>1 DEF IInv, Answered, AskedFor, listVars
  <1> QED
    BY <1>1, <1>2, <1>3, FetchesKeep

LEMMA ListSteps == IInv /\ [Next]_vars => IInv'
  <1> SUFFICES ASSUME IInv, [Next]_vars PROVE IInv'
    OBVIOUS
  <1>1. ASSUME NEW text \in Texts, Type(text) PROVE IInv'
    BY <1>1, TypeKeeps
  <1>2. CASE DebounceFires
    BY <1>2, DebounceKeeps
  <1>3. ASSUME NEW partial \in Choices, ChooseFilter(partial) PROVE IInv'
    BY <1>3, ChooseKeeps
  <1>4. CASE ClearFilters
    BY <1>4, ClearKeeps
  <1>5. ASSUME NEW page \in 0..(Cardinality(Problems) + 1), StepPage(page) PROVE IInv'
    BY <1>5, StepKeeps
  <1>6. ASSUME NEW entry \in DOMAIN history, Travel(entry) PROVE IInv'
    BY <1>6, TravelKeeps
  <1>7. CASE Resolve
    BY <1>7, ResolveKeeps
  <1>8. ASSUME NEW request \in fetching,
               Answer(request) \/ Refuse(request) \/ FailRequest(request)
        PROVE  IInv'
    BY <1>8, AnswerKeeps, FailureKeeps
  <1>9. CASE Refetch
    BY <1>9, RefetchKeeps
  <1>10. CASE UNCHANGED vars
    BY <1>10, FetchesKeep
       DEF vars, listVars, addressVars, queryVars, IInv, ListTypeOK, Answered, AskedFor
  <1> QED
    BY <1>1, <1>2, <1>3, <1>4, <1>5, <1>6, <1>7, <1>8, <1>9, <1>10 DEF Next

-----------------------------------------------------------------------------
(* Theorems. *)

(* The inductive invariant of the page: what it remembers of its request,  *)
(* its address, its search box and its answers.                            *)
THEOREM ListInvariant == Spec => []IInv
  <1>1. Init => IInv
    BY ListStarts
  <1>2. IInv /\ [Next]_vars => IInv'
    BY ListSteps
  <1> QED
    BY <1>1, <1>2, PTL DEF Spec

(* Once the router has caught up and no search is pending, the list shows  *)
(* what the address says and the box holds its search, after Back and      *)
(* Forward too, unless the last of them led a router under way back to the *)
(* address it still had (the effect on [searchParams] in                   *)
(* problem-list-section.tsx, the two effects in problem-filters.tsx).      *)
THEOREM AddressStaysFollowed == Spec => []AddressIsFollowed
  <1>1. IInv => AddressIsFollowed
    <2> SUFFICES ASSUME IInv, resolved = Address, timer = NoRequest, ~overlooked, Accepted(params)
                 PROVE  params = Parse(Address)
      BY DEF IInv, AddressIsFollowed, Quiet, ShowsAddress, BoxHoldsSearch
    <2>1. params \in Requests
      BY DEF IInv, ListTypeOK
    <2>2. CASE Address = Build(params)
      <3>1. /\ Parse(Address) \in Requests
            /\ Parse(Address).search = Cut[Trimmed[params.search]]
            /\ Parse(Address).difficulty = params.difficulty
            /\ Parse(Address).kind = params.kind /\ Parse(Address).sort = params.sort
            /\ Parse(Address).order = params.order /\ Parse(Address).page = params.page
            /\ Parse(Address).pageSize = params.pageSize
        BY <2>1, <2>2, ParseBuild, AddressesParse
      <3>2. Said(resolved, "search") = params.search
        BY <2>1, <2>2, BuildSays DEF Fields
      <3>3. Cut[Trimmed[params.search]] = params.search
        BY <3>2 DEF IInv, SearchIsClean, Accepted
      <3> QED
        BY <2>1, <3>1, <3>3, SameFields
    <2> QED
      BY <2>2 DEF IInv, FollowsAddress
  <1> QED
    BY <1>1, ListInvariant, PTL

(* With nothing on its way for the request of the page, its own rows are   *)
(* on the screen, or its failure (keepPreviousData never outlives the      *)
(* fetch it covers for).                                                   *)
THEOREM RowsShownAreAskedFor == Spec => []ShownIsAsked
  <1>1. IInv => ShownIsAsked
    BY DEF IInv, AskedFor, ShownIsAsked, ShownRequest
  <1> QED
    BY <1>1, ListInvariant, PTL

(* From an address whose page exists no button, filter or search leads to  *)
(* a page that does not, Back and Forward included (problem-pagination.tsx *)
(* goes by the list that is shown).                                        *)
THEOREM ButtonsStayInTheList == Spec => []ListInv
  <1>1. IInv => ListInv
    BY DEF IInv, ListInv, PagesExist, PageExists, Exists
  <1> QED
    BY <1>1, ListInvariant, PTL

(* Pages of one list that are kept, whenever they were fetched, share no   *)
(* problem, and each but the last is full (list-problems orders by the id  *)
(* last, "so a row never slips between pages").                            *)
THEOREM PagesShareNoRow == Spec => []PagesCoverOnce
  <1>1. IInv => PagesCoverOnce
    <2> SUFFICES ASSUME IInv, NEW r \in DOMAIN answers, NEW s \in DOMAIN answers
                 PROVE  /\ r # s /\ [r EXCEPT !.page = s.page] = s
                             => {answers[r][i] : i \in DOMAIN answers[r]}
                                  \intersect {answers[s][i] : i \in DOMAIN answers[s]} = {}
                        /\ r.page < TotalPages(r) => Len(answers[r]) = r.pageSize
      BY DEF PagesCoverOnce
    <2>1. /\ r \in Requests /\ s \in Requests
          /\ answers[r] \in Answers(r) /\ answers[s] \in Answers(s)
          /\ answers[r] \in Rows /\ answers[s] \in Rows
      BY DEF IInv, ListTypeOK, Answered
    <2>2. ASSUME r # s, [r EXCEPT !.page = s.page] = s,
                 NEW i \in DOMAIN answers[r], NEW j \in DOMAIN answers[s]
          PROVE  answers[r][i] # answers[s][j]
      <3>1. /\ r.search = s.search /\ r.difficulty = s.difficulty /\ r.kind = s.kind
            /\ r.sort = s.sort /\ r.order = s.order /\ r.pageSize = s.pageSize
        BY <2>1, <2>2 DEF Requests
      <3>2. r.page # s.page
        BY <2>1, <2>2, <3>1, SameFields
      <3>3. i \in 1..Len(answers[r]) /\ j \in 1..Len(answers[s])
        BY <2>1, LenProperties DEF Rows
      <3> QED
        BY <2>1, <3>1, <3>2, <3>3, PagesAreApart
    <2>3. r.page < TotalPages(r) => Len(answers[r]) = r.pageSize
      <3>1. PICK list \in Orders(r) : answers[r] = PageOf(list, r)
        BY <2>1 DEF Answers
      <3> QED
        BY <2>1, <3>1, PageShape
    <2> QED
      BY <2>2, <2>3
  <1> QED
    BY <1>1, ListInvariant, PTL
=============================================================================
