----------------------------- MODULE ProblemList -----------------------------
(***************************************************************************)
(* The problem list open in a browser (problem-list-section.tsx and        *)
(* problem-filters.tsx): its request, the search box and its debounce, the *)
(* history of the tab, the answers TanStack Query keeps.  After each event *)
(* React renders and runs the effects before the next one; only the Next   *)
(* router takes its time to follow the address (a transition), and where   *)
(* it comes back to what it had before it finished, it changes nothing.    *)
(***************************************************************************)
EXTENDS ProblemCatalog

CONSTANTS
  FirstAddresses,  \* addresses the page may be opened at
  MaxClicks,       \* edits and presses of anything (a bound for model checking)
  MaxFaults,       \* requests that fail (a bound for model checking)
  NoRequest        \* no request at all

ASSUME NoRequestAssumption == NoRequest \notin Requests
ASSUME AddressesAssumption ==
  \A address \in FirstAddresses :
    Said(address, "search") \in Texts /\ Said(address, "kind") \in STRING
      /\ Said(address, "page") \in Nat

VARIABLES
  history,    \* addresses of the tab's history
  at,         \* the entry it stands on
  resolved,   \* what useSearchParams returns
  overlooked, \* the last Back or Forward led a router under way to what it still had
  params,     \* the request the section shows
  draft,      \* text in the search box
  timer,      \* request the pending debounce remembers, or NoRequest
  answers,    \* cached answers: request -> rows
  fetching,   \* requests on their way
  failed,     \* requests whose last fetch failed
  last,       \* last shown request that had an answer
  clicks,
  faults

listVars == <<params, draft, timer>>
addressVars == <<history, at, resolved, overlooked>>
queryVars == <<answers, fetching, failed, last>>
vars == <<listVars, addressVars, queryVars, clicks, faults>>

Rows == Seq(Problems)

ListTypeOK ==
  /\ at \in 1..Len(history)
  /\ overlooked \in BOOLEAN
  /\ params \in Requests
  /\ draft \in Texts
  /\ timer \in Requests \union {NoRequest}
  /\ DOMAIN answers \subseteq Requests /\ \A r \in DOMAIN answers : answers[r] \in Rows
  /\ fetching \subseteq Requests /\ failed \subseteq Requests
  /\ last \in DOMAIN answers
  /\ clicks \in Nat /\ faults \in Nat

Address == history[at]

(* The page is rendered on the server with its first request answered.  A  *)
(* search cut right after a blank starts the debounce at once: trimmed, it *)
(* is another text.                                                        *)
Init ==
  /\ \E address \in FirstAddresses :
       /\ history = <<address>>
       /\ resolved = address
       /\ params = Parse(address)
       /\ \E rows \in Answers(params) : answers = [r \in {params} |-> rows]
  /\ at = 1
  /\ overlooked = FALSE
  /\ draft = params.search
  /\ timer = IF Trimmed[draft] = params.search THEN NoRequest ELSE params
  /\ fetching = {} /\ failed = {}
  /\ last = params
  /\ clicks = 0 /\ faults = 0

Click == clicks < MaxClicks /\ clicks' = clicks + 1

-----------------------------------------------------------------------------
(* A render and its effects.                                               *)

(* Mistaken: what was typed stays whatever happens to the request. *)
KeptDraft(typed, request) == typed

(* A change of params.search replaces the text; a text that is not the     *)
(* search (re)starts the debounce, which remembers the request of this     *)
(* render.                                                                 *)
SyncedDraft(typed, request) == IF request.search # params.search THEN request.search ELSE typed

Debounced(request, text, pending) ==
  IF text = draft THEN pending
  ELSE IF Trimmed[text] = request.search THEN NoRequest ELSE request

(* Mistaken: whatever is shown already serves until it is asked again. *)
AskedOnce(request) == fetching

(* useQuery asks for a request it has no answer to. *)
Asked(request) ==
  IF request = params \/ request \in DOMAIN answers THEN fetching ELSE fetching \union {request}

Rendered(request, typed, pending) ==
  /\ params' = request
  /\ draft' = SyncedDraft(typed, request)
  /\ timer' = Debounced(request, draft', pending)
  /\ fetching' = Asked(request)
  /\ failed' = failed \ (fetching' \ (fetching \union DOMAIN answers))
  /\ last' = IF request \in DOMAIN answers THEN request ELSE last
  /\ UNCHANGED answers

(* setParamsAndUrl: pushState drops what lies ahead in the history. *)
SetParamsAndUrl(request, pending) ==
  /\ Rendered(request, draft, pending)
  /\ history' = SubSeq(history, 1, at) \o <<Build(request)>>
  /\ at' = at + 1
  /\ overlooked' = FALSE
  /\ UNCHANGED resolved

-----------------------------------------------------------------------------
(* The search box.                                                         *)

Type(text) ==
  /\ Click
  /\ text # draft
  /\ Rendered(params, text, timer)
  /\ UNCHANGED <<addressVars, faults>>

(* 300 ms without a change of the text. *)
DebounceFires ==
  /\ timer # NoRequest
  /\ SetParamsAndUrl([timer EXCEPT !.search = Trimmed[draft], !.page = 1], NoRequest)
  /\ UNCHANGED <<clicks, faults>>

-----------------------------------------------------------------------------
(* The other controls.                                                     *)

Choices ==
  [difficulty : Difficulties \union {All}] \union [kind : Offered \union {All}]
  \union [sort : Sorts] \union [order : {"asc", "desc"}] \union [pageSize : PageSizes]

(* {...params, ...partial} *)
With(request, partial) ==
  [f \in DOMAIN request |-> IF f \in DOMAIN partial THEN partial[f] ELSE request[f]]

ChooseFilter(partial) ==
  /\ Click
  /\ With(params, partial) # params
  /\ SetParamsAndUrl([With(params, partial) EXCEPT !.page = 1], timer)
  /\ UNCHANGED <<faults>>

HasActiveFilters == params.search # All \/ params.difficulty # All \/ params.kind # All

ClearFilters ==
  /\ Click
  /\ HasActiveFilters
  /\ SetParamsAndUrl([params EXCEPT !.search = All, !.difficulty = All, !.kind = All,
                                    !.page = 1], timer)
  /\ UNCHANGED <<faults>>

(* The request whose rows are on the screen: keepPreviousData shows the    *)
(* last answer while the first one of a request is awaited.                *)
ShownRequest ==
  IF params \in DOMAIN answers THEN params ELSE IF params \in failed THEN NoRequest ELSE last

(* Mistaken: the buttons work while a list is on its way. *)
AlwaysUsable == ShownRequest # NoRequest

PaginationUsable == ShownRequest # NoRequest /\ params \notin fetching

HasPrevious(request) == request.page > 1
HasNext(request) == request.page * request.pageSize < Total(request)

(* Both buttons go by the list that is shown. *)
StepPage(page) ==
  /\ Click
  /\ PaginationUsable
  /\ \/ page = ShownRequest.page - 1 /\ HasPrevious(ShownRequest)
     \/ page = ShownRequest.page + 1 /\ HasNext(ShownRequest)
  /\ SetParamsAndUrl([params EXCEPT !.page = page], timer)
  /\ UNCHANGED <<faults>>

-----------------------------------------------------------------------------
(* The back and forward buttons, and the router behind them.               *)

(* overlooked only remembers what the properties have to tell apart.       *)
Travel(entry) ==
  /\ Click
  /\ entry \in DOMAIN history \ {at}
  /\ at' = entry
  /\ overlooked' = (history[entry] = resolved /\ (overlooked \/ resolved # Address))
  /\ UNCHANGED <<listVars, history, resolved, queryVars, faults>>

(* The effect on [searchParams].  Transitions under way end together, at   *)
(* the address of the last; the effect runs only if that is another one.   *)
Resolve ==
  /\ resolved # Address
  /\ resolved' = Address
  /\ overlooked' = FALSE
  /\ Rendered(Parse(Address), draft, timer)
  /\ UNCHANGED <<history, at, clicks, faults>>

-----------------------------------------------------------------------------
(* Requests on their way.  An answer is kept whoever looks at it.          *)

Settled(request) ==
  /\ fetching' = fetching \ {request}
  /\ UNCHANGED <<listVars, addressVars, clicks>>

Answer(request) ==
  /\ request \in fetching
  /\ Accepted(request)
  /\ \E rows \in Answers(request) :
       answers' = [r \in DOMAIN answers \union {request} |->
                     IF r = request THEN rows ELSE answers[r]]
  /\ failed' = failed \ {request}
  /\ last' = IF params \in DOMAIN answers' THEN params ELSE last
  /\ Settled(request)
  /\ UNCHANGED faults

Refuse(request) ==
  /\ request \in fetching
  /\ ~Accepted(request)
  /\ failed' = failed \union {request}
  /\ Settled(request)
  /\ UNCHANGED <<answers, last, faults>>

FailRequest(request) ==
  /\ faults < MaxFaults /\ faults' = faults + 1
  /\ request \in fetching
  /\ failed' = failed \union {request}
  /\ Settled(request)
  /\ UNCHANGED <<answers, last>>

(* The tab is looked at again and the list has become stale (30 s). *)
Refetch ==
  /\ Click
  /\ params \notin fetching
  /\ fetching' = fetching \union {params}
  /\ failed' = IF params \in DOMAIN answers THEN failed ELSE failed \ {params}
  /\ UNCHANGED <<listVars, addressVars, answers, last, faults>>

Next ==
  \/ \E text \in Texts : Type(text)
  \/ DebounceFires
  \/ \E partial \in Choices : ChooseFilter(partial)
  \/ ClearFilters
  \/ \E page \in 0..(Cardinality(Problems) + 1) : StepPage(page)
  \/ \E entry \in DOMAIN history : Travel(entry)
  \/ Resolve
  \/ \E request \in fetching : Answer(request) \/ Refuse(request) \/ FailRequest(request)
  \/ Refetch

Spec == Init /\ [][Next]_vars

-----------------------------------------------------------------------------
(* Properties.                                                             *)

(* What a quiet page shows: what its address says, and in the box the      *)
(* search, blanks at its ends aside.  Only a search that is too long may   *)
(* stand uncut: asked for twice in a row it does not change the address,   *)
(* so nobody parses it.                                                    *)
Quiet == resolved = Address /\ timer = NoRequest

ShowsAddress ==
  /\ params = Parse(Address) \/ ~Accepted(params)
  /\ Trimmed[draft] = Trimmed[params.search]

(* Once the router has caught up and no search is pending, the section     *)
(* shows what its address says, whatever typing, clicking, Back and        *)
(* Forward came in between: unless the last Back or Forward came while the *)
(* router was under way and led to the address it still had.               *)
AddressIsFollowed == Quiet /\ ~overlooked => ShowsAddress

(* The same without exception: "the URL is the source of truth (e.g. after *)
(* Clear filters or the back button)".  The code breaks this: the effect   *)
(* on [searchParams] does not run where the router ends at what it had,    *)
(* and the request that was being written to the address stays.            *)
AddressIsTruth == Quiet => ShowsAddress

(* When nothing is on its way for the request of the page, the rows on the *)
(* screen are its own or an error is shown: an answer that comes late, or  *)
(* for another request, is never left standing as this one's.              *)
ShownIsAsked ==
  params \notin fetching => ShownRequest = params \/ params \in failed

(* The buttons never lead past the last page, though they go by the list   *)
(* that is shown and write to the request that is asked for.               *)
PageExists ==
  LET Exists(request) == request.page <= TotalPages(request)
  IN Exists(Parse(history[1])) => Exists(params)

(* Pages of one list fetched at different times share no problem, and each *)
(* is as full as it can be: "id breaks ties so a row never slips between   *)
(* pages", also between rows of the same rating or of none.                *)
PagesCoverOnce ==
  \A r, s \in DOMAIN answers :
    /\ r # s /\ [r EXCEPT !.page = s.page] = s
         => {answers[r][i] : i \in DOMAIN answers[r]}
              \intersect {answers[s][i] : i \in DOMAIN answers[s]} = {}
    /\ r.page < TotalPages(r) => Len(answers[r]) = r.pageSize

(* A search that was pending changes the search, and nothing else of what  *)
(* the address says by then.  The code breaks this: the debounce remembers *)
(* the request of the render that started it.                              *)
PendingSearchKeepsFilters ==
  [][DebounceFires => [f \in DOMAIN params \ {"search", "page"} |-> params'[f]]
                        = [f \in DOMAIN params \ {"search", "page"} |-> params[f]]]_vars

(* The parts of the list keep their types, and no page beyond the last is  *)
(* shown.                                                                  *)
ListInv == ListTypeOK /\ PageExists
=============================================================================
