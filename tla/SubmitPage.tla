----------------------------- MODULE SubmitPage -----------------------------
(***************************************************************************)
(* One signed-in person at work on one problem in one browser tab: the     *)
(* submit form with the files dropped onto it (submit-panel.tsx,           *)
(* editor-drop-zone.tsx), the request that creates a submission, the panel *)
(* of the person's own attempts and the page of a submission, both of      *)
(* which poll while it is judged.  Judging itself is reduced to what these *)
(* pages see of it: JudgingSystem has the rest.  The tab stays visible.    *)
(***************************************************************************)
EXTENDS Naturals, Sequences, FiniteSets

CONSTANTS
  Languages,    \* every language there is
  Accepted,     \* those the problem takes
  Files,        \* files that may be dropped, none above 2 MB
  LanguageOf,   \* language the name of a file stands for, or NoLanguage
  NoLanguage,
  Typed,        \* what may be typed into the editor
  MaxRows,      \* submissions (a bound for model checking)
  MaxClicks,    \* what the person does (a bound for model checking)
  MaxFaults     \* requests that fail (a bound for model checking)

ASSUME LanguagesAssumption == Accepted \subseteq Languages /\ Accepted # {}
ASSUME FilesAssumption == LanguageOf \in [Files -> Languages \union {NoLanguage}]
ASSUME BoundsAssumption == MaxRows \in Nat /\ MaxClicks \in Nat /\ MaxFaults \in Nat

VARIABLES
  rows,      \* the person's submissions to the problem, in the database
  view,      \* tab of the problem page, or page of a submission
  form,      \* the mounted submit form
  posts,     \* createSubmission requests under way
  mine,      \* cached list of attempts
  listing,   \* the read of that list which is under way
  detail,    \* cached submissions
  poll,      \* getSubmission asked by the open page
  render,    \* getSubmission asked by the server to render a page
  pressed,   \* everything Submit was pressed for
  clicks,
  faults

formVars == <<form, posts, pressed>>
listVars == <<mine, listing>>
detailVars == <<detail, poll, render>>
vars == <<rows, view, formVars, listVars, detailVars, clicks, faults>>

Sources == Files \union Typed \union {""}
Statuses == {"queued", "running", "final"}
Ids == 1..MaxRows
Tabs == {"submit", "mine", "ranking"}

Row == [language : Languages, source : Sources, status : Statuses]
Seen == [status : Statuses, tests : BOOLEAN]
Post ==
  [press : 1..MaxClicks, language : Languages, source : Sources,
   at : {"asked", "made", "refused"}, id : Ids \union {0}]
Read == [at : {"none", "half", "read"}, id : Ids \union {0}, seen : Seen]

PageTypeOK ==
  /\ rows \in Seq(Row) /\ Len(rows) <= MaxRows
  /\ view \in [at : Tabs \union {"page"}, id : Ids \union {0}]
  /\ form \in [language : Languages, source : Sources, press : 0..MaxClicks,
               loads : SUBSET [file : Files, language : Languages]]
  /\ posts \subseteq Post
  /\ mine \in [known : BOOLEAN, list : Seq(Statuses)]
  /\ listing \in [at : {"none", "read"}, list : Seq(Statuses)]
  /\ DOMAIN detail \subseteq DOMAIN rows /\ detail \in [DOMAIN detail -> Seen]
  /\ poll \in Read /\ render \in Read
  /\ pressed \in [[language : Languages, source : Sources] -> Nat]
  /\ clicks \in 0..MaxClicks /\ faults \in 0..MaxFaults

-----------------------------------------------------------------------------
(* useState(languages[0]): a new form has the first accepted language. *)
NewForm ==
  [language |-> CHOOSE l \in Accepted : TRUE, source |-> "", press |-> 0, loads |-> {}]

Nothing == [status |-> "queued", tests |-> FALSE]
NoRead == [at |-> "none", id |-> 0, seen |-> Nothing]
NoListing == [at |-> "none", list |-> <<>>]
At(tab) == [at |-> tab, id |-> 0]

Init ==
  /\ rows = <<>>
  /\ view = At("submit")
  /\ form = NewForm
  /\ posts = {}
  /\ mine = [known |-> FALSE, list |-> <<>>]
  /\ listing = NoListing
  /\ detail = [id \in {} |-> Nothing]
  /\ poll = NoRead /\ render = NoRead
  /\ pressed = [what \in [language : Languages, source : Sources] |-> 0]
  /\ clicks = 0 /\ faults = 0

Click == clicks < MaxClicks /\ clicks' = clicks + 1
Fault == faults < MaxFaults /\ faults' = faults + 1

-----------------------------------------------------------------------------
(* The form.                                                               *)

Type(text) ==
  /\ Click
  /\ view.at = "submit" /\ text # form.source
  /\ form' = [form EXCEPT !.source = text]
  /\ UNCHANGED <<rows, view, posts, pressed, listVars, detailVars, faults>>

PickLanguage(language) ==
  /\ Click
  /\ view.at = "submit" /\ language \in Accepted \ {form.language}
  /\ form' = [form EXCEPT !.language = language]
  /\ UNCHANGED <<rows, view, posts, pressed, listVars, detailVars, faults>>

(* The handler of the render the file was dropped on goes on with it. *)
DropFile(file) ==
  /\ Click
  /\ view.at = "submit"
  /\ form' = [form EXCEPT !.loads = @ \union {[file |-> file, language |-> form.language]}]
  /\ UNCHANGED <<rows, view, posts, pressed, listVars, detailVars, faults>>

(* handleFileLoaded: the language is compared with that of the old render, *)
(* and is any language there is.                                           *)
FileLoaded(load) ==
  /\ load \in form.loads
  /\ form' = [form EXCEPT
       !.source = load.file,
       !.language = IF LanguageOf[load.file] \in {NoLanguage, load.language} THEN @
                    ELSE LanguageOf[load.file],
       !.loads = @ \ {load}]
  /\ UNCHANGED <<rows, view, posts, pressed, listVars, detailVars, clicks, faults>>

FileFails(load) ==
  /\ Fault
  /\ load \in form.loads
  /\ form' = [form EXCEPT !.loads = @ \ {load}]
  /\ UNCHANGED <<rows, view, posts, pressed, listVars, detailVars, clicks>>

IsPending(press) == \E post \in posts : post.press = press

Submit ==
  /\ Click
  /\ view.at = "submit" /\ form.source # "" /\ ~IsPending(form.press)
  /\ posts' = posts \union {[press |-> clicks', language |-> form.language,
                             source |-> form.source, at |-> "asked", id |-> 0]}
  /\ form' = [form EXCEPT !.press = clicks']
  /\ pressed' = [pressed EXCEPT ![[language |-> form.language, source |-> form.source]] = @ + 1]
  /\ UNCHANGED <<rows, view, listVars, detailVars, faults>>

(* Mistaken: any language there is will do. *)
AnyLanguage(post) == post.language \in Languages

Allowed(post) == post.language \in Accepted

Became(post, at, id) == (posts \ {post}) \union {[post EXCEPT !.at = at, !.id = id]}

(* createSubmission *)
CreateSubmission(post) ==
  /\ post \in posts /\ post.at = "asked"
  /\ \/ /\ ~Allowed(post)
        /\ posts' = Became(post, "refused", 0)
        /\ UNCHANGED rows
     \/ /\ Allowed(post)
        /\ Len(rows) < MaxRows
        /\ rows' = Append(rows, [language |-> post.language, source |-> post.source,
                                 status |-> "queued"])
        /\ posts' = Became(post, "made", Len(rows'))
  /\ UNCHANGED <<view, form, pressed, listVars, detailVars, clicks, faults>>

(* A request or its answer is lost: the form says it could not submit. *)
PostFails(post) ==
  /\ Fault
  /\ post \in posts
  /\ posts' = posts \ {post}
  /\ UNCHANGED <<rows, view, form, pressed, listVars, detailVars, clicks>>

-----------------------------------------------------------------------------
(* getSubmission: two statements, the submission and then its tests.       *)

(* Mistaken: the tests first. *)
TestsFirst(read, half) ==
  IF half THEN [read.seen EXCEPT !.status = rows[read.id].status]
          ELSE [read.seen EXCEPT !.tests = rows[read.id].status = "final"]

Statement(read, half) ==
  IF half THEN [read.seen EXCEPT !.tests = rows[read.id].status = "final"]
          ELSE [read.seen EXCEPT !.status = rows[read.id].status]

Asked(id) ==
  LET read == [NoRead EXCEPT !.at = "half", !.id = id]
  IN [read EXCEPT !.seen = Statement(read, FALSE)]

Answered(read) == [read EXCEPT !.at = "read", !.seen = Statement(read, TRUE)]

-----------------------------------------------------------------------------
(* Moving between the pages.  Leaving a tab takes its form with it; a      *)
(* request goes on.  A read is asked for when its first statement runs.    *)

(* listMySubmissions *)
Listed == [at |-> "read", list |-> [i \in DOMAIN rows |-> rows[i].status]]

(* A mounted panel asks for a list it does not have, and may ask for one   *)
(* it has: staleTime is 30 seconds.                                        *)
Mounted(tab) ==
  IF tab = "mine" /\ listing.at = "none"
  THEN listing' = Listed \/ (mine.known /\ UNCHANGED listing)
  ELSE UNCHANGED listing

OpenTab(tab) ==
  /\ Click
  /\ view.at # tab
  /\ view' = At(tab)
  /\ form' = NewForm
  /\ Mounted(tab)
  /\ render' = IF view.at = "page" THEN NoRead ELSE render
  /\ UNCHANGED <<rows, posts, pressed, mine, detail, poll, faults>>

(* The old page stays, and works, until the server has rendered the new one. *)
OpenSubmission(id) ==
  /\ Click
  /\ view.at = "mine" /\ id \in DOMAIN mine.list
  /\ render' = Asked(id)
  /\ UNCHANGED <<rows, view, formVars, listVars, detail, poll, faults>>

(* onSuccess: router.push, wherever the person is by now. *)
PostArrives(post) ==
  /\ post \in posts /\ post.at # "asked"
  /\ posts' = posts \ {post}
  /\ render' = IF post.at = "made" THEN Asked(post.id) ELSE render
  /\ UNCHANGED <<rows, view, form, pressed, listVars, detail, poll, clicks, faults>>

-----------------------------------------------------------------------------
(* The page of a submission.                                               *)

RenderReads ==
  /\ render.at = "half"
  /\ render' = Answered(render)
  /\ UNCHANGED <<rows, view, formVars, listVars, detail, poll, clicks, faults>>

(* initialData counts only where nothing is cached. *)
PageArrives ==
  /\ render.at = "read"
  /\ view' = [at |-> "page", id |-> render.id]
  /\ detail' = [id \in DOMAIN detail \union {render.id} |->
                  IF id \in DOMAIN detail THEN detail[id] ELSE render.seen]
  /\ render' = NoRead
  /\ form' = NewForm
  /\ UNCHANGED <<rows, posts, pressed, listVars, poll, clicks, faults>>

(* The page fails to render; from its error page one goes back to the      *)
(* problem.                                                                *)
RenderFails ==
  /\ Fault
  /\ render.at # "none"
  /\ render' = NoRead
  /\ view' = At("submit") /\ form' = NewForm
  /\ UNCHANGED <<rows, posts, pressed, listVars, detail, poll, clicks>>

(* Mistaken: the page is polled once a machine has taken the submission. *)
OnceClaimed(status) == status = "running"

IsJudgingInProgress(status) == status \in {"queued", "running"}

(* refetchInterval, one second *)
PollDetail ==
  /\ view.at = "page" /\ IsJudgingInProgress(detail[view.id].status)
  /\ poll.at = "none"
  /\ poll' = Asked(view.id)
  /\ UNCHANGED <<rows, view, formVars, listVars, detail, render, clicks, faults>>

PollReads ==
  /\ poll.at = "half"
  /\ poll' = Answered(poll)
  /\ UNCHANGED <<rows, view, formVars, listVars, detail, render, clicks, faults>>

PollArrives ==
  /\ poll.at = "read"
  /\ detail' = [detail EXCEPT ![poll.id] = poll.seen]
  /\ poll' = NoRead
  /\ UNCHANGED <<rows, view, formVars, listVars, render, clicks, faults>>

PollFails ==
  /\ Fault
  /\ poll.at # "none"
  /\ poll' = NoRead
  /\ UNCHANGED <<rows, view, formVars, listVars, detail, render, clicks>>

-----------------------------------------------------------------------------
(* The panel of attempts.                                                  *)

IsJudging(list) == \E i \in DOMAIN list : list[i] \in {"queued", "running"}

(* refetchInterval, two seconds *)
PollList ==
  /\ view.at = "mine" /\ IsJudging(mine.list)
  /\ listing.at = "none"
  /\ listing' = Listed
  /\ UNCHANGED <<rows, view, formVars, mine, detailVars, clicks, faults>>

ListArrives ==
  /\ listing.at = "read"
  /\ mine' = [known |-> TRUE, list |-> listing.list]
  /\ listing' = NoListing
  /\ UNCHANGED <<rows, view, formVars, detailVars, clicks, faults>>

ListFails ==
  /\ Fault
  /\ listing.at # "none"
  /\ listing' = NoListing
  /\ UNCHANGED <<rows, view, formVars, mine, detailVars, clicks>>

-----------------------------------------------------------------------------
(* Judging: claimed, given back, or finished with its tests at once.       *)

Judge(id) ==
  /\ id \in DOMAIN rows /\ rows[id].status # "final"
  /\ \E status \in Statuses \ {rows[id].status} : rows' = [rows EXCEPT ![id].status = status]
  /\ UNCHANGED <<view, formVars, listVars, detailVars, clicks, faults>>

Next ==
  \/ \E text \in Typed \union {""} : Type(text)
  \/ \E language \in Languages : PickLanguage(language)
  \/ \E file \in Files : DropFile(file)
  \/ \E load \in form.loads : FileLoaded(load) \/ FileFails(load)
  \/ Submit
  \/ \E post \in posts : CreateSubmission(post) \/ PostFails(post) \/ PostArrives(post)
  \/ \E tab \in Tabs : OpenTab(tab)
  \/ \E id \in Ids : OpenSubmission(id) \/ Judge(id)
  \/ RenderReads \/ PageArrives \/ RenderFails
  \/ PollDetail \/ PollReads \/ PollArrives \/ PollFails
  \/ PollList \/ ListArrives \/ ListFails

Spec == Init /\ [][Next]_vars

(* The timers of a visible tab go off, and a request that does not fail is *)
(* answered.  Nothing is assumed of the judging.                           *)
FairSpec ==
  /\ Spec
  /\ WF_vars(PollDetail) /\ WF_vars(PollReads) /\ WF_vars(PollArrives)
  /\ WF_vars(PollList) /\ WF_vars(ListArrives)

-----------------------------------------------------------------------------
(* Properties.                                                             *)

(* A submission is what was on the screen at a press of Submit, in a       *)
(* language the problem takes, and no press makes two: although a dropped  *)
(* file may choose any language, two files may load in any order, and a    *)
(* lost answer is reported as a failure.                                   *)
RowsComeFromPresses ==
  \A what \in DOMAIN pressed :
    LET made == {i \in DOMAIN rows : [language |-> rows[i].language,
                                      source |-> rows[i].source] = what}
    IN /\ Cardinality(made) <= pressed[what]
       /\ made # {} => what.language \in Accepted

(* A page never shows a verdict without the tests behind it, though they   *)
(* are read by two statements with the judging in between: polling stops   *)
(* at a verdict, so what is missing then stays missing.                    *)
FinalShowsTests ==
  \A id \in DOMAIN detail : detail[id].status = "final" => detail[id].tests

(* An open page comes to show the verdict of its submission, a failed poll *)
(* or an old cached copy notwithstanding: "stops the instant a final       *)
(* status arrives", and not before.                                        *)
PageCatchesUp(id) ==
  (view = [at |-> "page", id |-> id] /\ rows[id].status = "final")
    ~> (view # [at |-> "page", id |-> id] \/ detail[id].status = "final")

(* The panel comes to show the verdict of every attempt it shows as not    *)
(* judged yet: "stops once every one has a verdict".                       *)
PanelCatchesUp(id) ==
  (view.at = "mine" /\ id \in DOMAIN mine.list /\ rows[id].status = "final")
    ~> (view.at # "mine" \/ (id \in DOMAIN mine.list /\ mine.list[id] = "final"))

(* Both pages that poll by what their last answer said do not stop early.  *)
PagesCatchUp == \A id \in Ids : PageCatchesUp(id) /\ PanelCatchesUp(id)

(* The parts of the tab keep their types, and rows come from presses only. *)
PageInv == PageTypeOK /\ RowsComeFromPresses
=============================================================================
