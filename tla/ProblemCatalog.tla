---------------------------- MODULE ProblemCatalog ----------------------------
(***************************************************************************)
(* What a request for the problem list is, how it is kept in the address   *)
(* of the page (list-params.ts), and what the server answers to it         *)
(* (list-problems).  A request is a record; an address is the same record  *)
(* with any of its fields missing or filled with anything; a kind in it    *)
(* is taken as trimmed already.  The tag filter works as the kind filter   *)
(* does and is left out, and of the six orders two stand for all whose key *)
(* does not move: the code, which is unique, and the rating, which is      *)
(* neither unique nor always there.                                        *)
(***************************************************************************)
EXTENDS Naturals, Sequences, FiniteSets

CONSTANTS
  Problems,       \* ids of the problems that are published
  Texts,          \* what may stand in the search box, "" for nothing
  Trimmed,        \* a text without the blanks at its ends
  Cut,            \* a text cut to the 128 characters a search may have
  Finds,          \* [Texts -> SUBSET Problems]: whose code or title contains the text
  Difficulties,
  DifficultyOf,   \* [Problems -> Difficulties]
  KindOf,         \* [Problems -> kinds]
  RatingOf,       \* [Problems -> Nat], 0 for none
  NullRank,       \* where a rating that is not there sorts: above every other
  PageSizes,
  DefaultSize,
  FacetsSize      \* FACETS_PAGE_SIZE

All == ""         \* no filter, no search
Kinds == {KindOf[p] : p \in Problems}
Sorts == {"code", "rating"}

ASSUME ProblemsAssumption == Problems \subseteq Nat /\ IsFiniteSet(Problems)
ASSUME TextsAssumption ==
  /\ All \in Texts /\ Texts \subseteq STRING
  /\ Trimmed \in [Texts -> Texts] /\ Cut \in [Texts -> Texts]
  /\ Trimmed[All] = All
  /\ \A t \in Texts : /\ Trimmed[Trimmed[t]] = Trimmed[t]
                      /\ Cut[Cut[Trimmed[t]]] = Cut[Trimmed[t]]
                      /\ Cut[Trimmed[Cut[t]]] = Trimmed[Cut[t]]
  /\ Finds \in [Texts -> SUBSET Problems]
ASSUME RowsAssumption ==
  /\ DifficultyOf \in [Problems -> Difficulties] /\ KindOf \in [Problems -> STRING]
  /\ RatingOf \in [Problems -> Nat]
  /\ NullRank \in Nat /\ \A p \in Problems : RatingOf[p] < NullRank
ASSUME SizesAssumption ==
  PageSizes \subseteq Nat \ {0} /\ DefaultSize \in PageSizes /\ FacetsSize \in Nat

Requests ==
  [search : Texts, difficulty : Difficulties \union {All}, kind : STRING,
   sort : Sorts, order : {"asc", "desc"}, page : Nat \ {0}, pageSize : PageSizes]

Default ==
  [search |-> All, difficulty |-> All, kind |-> All, sort |-> "code", order |-> "asc",
   page |-> 1, pageSize |-> DefaultSize]

-----------------------------------------------------------------------------
(* The address.                                                            *)

(* What an address says of a field, or what no field means. *)
Said(address, field) == IF field \in DOMAIN address THEN address[field] ELSE Default[field]

Narrowed(value, known, default) == IF value \in known THEN value ELSE default

(* parseProblemListParams *)
Parse(address) ==
  [search     |-> Cut[Trimmed[Said(address, "search")]],
   difficulty |-> Narrowed(Said(address, "difficulty"), Difficulties, All),
   kind       |-> Said(address, "kind"),
   sort       |-> Narrowed(Said(address, "sort"), Sorts, "code"),
   order      |-> Narrowed(Said(address, "order"), {"desc"}, "asc"),
   page       |-> IF Said(address, "page") >= 1 THEN Said(address, "page") ELSE 1,
   pageSize   |-> Narrowed(Said(address, "pageSize"), PageSizes, DefaultSize)]

(* buildProblemListSearchParams: values at their default are left out. *)
Build(request) ==
  [f \in {g \in DOMAIN request : request[g] # Default[g]} |-> request[f]]

-----------------------------------------------------------------------------
(* The server.                                                             *)

(* ListProblemsInputDTOZ: a search is trimmed, and refused when too long. *)
Accepted(request) == Cut[Trimmed[request.search]] = Trimmed[request.search]

Matches(request) ==
  {p \in Problems : /\ Trimmed[request.search] # All => p \in Finds[Trimmed[request.search]]
                    /\ request.difficulty \in {All, DifficultyOf[p]}
                    /\ request.kind \in {All, KindOf[p]}}

(* Postgres puts NULL last when ascending: above every value. *)
RatingRank(p) == IF RatingOf[p] = 0 THEN NullRank ELSE RatingOf[p]

(* sortTarget; codes are unique and in the order of the ids. *)
SortKey(request, p) == IF request.sort = "rating" THEN RatingRank(p) ELSE p

(* Mistaken: rows of one key in any order. *)
KeyAlone(request, p, q) ==
  IF request.order = "asc" THEN SortKey(request, p) <= SortKey(request, q)
                           ELSE SortKey(request, p) >= SortKey(request, q)

(* May p stand above q?  The id decides between equal keys, ascending in   *)
(* either order.                                                           *)
Above(request, p, q) ==
  IF SortKey(request, p) = SortKey(request, q) THEN p < q
  ELSE IF request.order = "asc" THEN SortKey(request, p) < SortKey(request, q)
       ELSE SortKey(request, p) > SortKey(request, q)

(* Every order Postgres may return the matching rows in. *)
Orders(request) ==
  LET rows == Matches(request)
      n == Cardinality(rows)
  IN {s \in [1..n -> rows] : \A i, j \in 1..n :
        i < j => s[i] # s[j] /\ Above(request, s[i], s[j])}

(* limit and offset *)
PageOf(rows, request) ==
  LET first == (request.page - 1) * request.pageSize + 1
      last == request.page * request.pageSize
  IN SubSeq(rows, first, IF last <= Len(rows) THEN last ELSE Len(rows))

Answers(request) == {PageOf(s, request) : s \in Orders(request)}

Total(request) == Cardinality(Matches(request))
TotalPages(request) ==
  IF Total(request) = 0 THEN 1 ELSE (Total(request) + request.pageSize - 1) \div request.pageSize

(* useProblemFacets: the kinds of the first problems of the whole list. *)
Offered == {KindOf[p] : p \in {q \in Problems : Cardinality({r \in Problems : r < q}) < FacetsSize}}
=============================================================================
