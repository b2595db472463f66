---------------------------- MODULE SubmitProofs ----------------------------
(***************************************************************************)
(* Theorems about a person's tab on one problem, for any languages, files  *)
(* and texts, any number of clicks and lost requests: a submission is what *)
(* was on the screen at a press, no press makes two, and no page shows a   *)
(* verdict without its tests.                                              *)
(***************************************************************************)
EXTENDS SubmitPage, FiniteSetTheorems, SequenceTheorems, TLAPS

-----------------------------------------------------------------------------
(* The inductive invariant, in four parts: the stored submissions, the     *)
(* form and its requests, what the pages read, and the count of presses.   *)

StoreInv ==
  /\ rows \in Seq(Row) /\ Len(rows) <= MaxRows
  /\ \A i \in DOMAIN rows : rows[i].language \in Accepted

FormTypeOK ==
  /\ form \in [language : Languages, source : Sources, press : 0..MaxClicks,
               loads : SUBSET [file : Files, language : Languages]]
  /\ posts \subseteq Post
  /\ pressed \in [[language : Languages, source : Sources] -> Nat]
  /\ clicks \in 0..MaxClicks /\ faults \in 0..MaxFaults

(* A request that was served leads to a stored submission.                 *)
PostsLead == \A post \in posts : post.at = "made" => post.id \in DOMAIN rows

FormInv == FormTypeOK /\ PostsLead

ReadTypeOK ==
  /\ view \in [at : Tabs \union {"page"}, id : Ids \union {0}]
  /\ mine \in [known : BOOLEAN, list : Seq(Statuses)]
  /\ listing \in [at : {"none", "read"}, list : Seq(Statuses)]
  /\ DOMAIN detail \subseteq DOMAIN rows /\ detail \in [DOMAIN detail -> Seen]
  /\ poll \in Read /\ render \in Read

(* A read asks for a stored submission.  Between its statements a verdict  *)
(* it has seen still stands; at its end a verdict has its tests.           *)
ReadIsSound(read) ==
  /\ read.at # "none" => read.id \in DOMAIN rows
  /\ read.at = "half" /\ read.seen.status = "final" => rows[read.id].status = "final"
  /\ read.at = "read" /\ read.seen.status = "final" => read.seen.tests

(* What the pages may ask for is stored.                                   *)
LinksLead ==
  /\ view.at = "page" => view.id \in DOMAIN detail
  /\ Len(mine.list) <= Len(rows) /\ Len(listing.list) <= Len(rows)

ReadInv ==
  /\ ReadTypeOK
  /\ ReadIsSound(poll) /\ ReadIsSound(render)
  /\ LinksLead
  /\ FinalShowsTests

What(thing) == [language |-> thing.language, source |-> thing.source]

Made(what) == {i \in DOMAIN rows : What(rows[i]) = what}

Waiting(what) == {post \in posts : post.at = "asked" /\ What(post) = what}

(* Each press is one submission, one request that waits, or lost.          *)
PressesCount ==
  /\ IsFiniteSet(posts)
  /\ \A what \in DOMAIN pressed :
       Cardinality(Made(what)) + Cardinality(Waiting(what)) <= pressed[what]

IInv == StoreInv /\ FormInv /\ ReadInv /\ PressesCount

LEMMA TypeInParts ==
  ASSUME StoreInv, FormTypeOK, ReadTypeOK
  PROVE  PageTypeOK
  BY DEF StoreInv, FormTypeOK, ReadTypeOK, PageTypeOK

LEMMA NewFormType ==
  NewForm \in [language : Languages, source : Sources, press : 0..MaxClicks,
               loads : SUBSET [file : Files, language : Languages]]
  <1>1. (CHOOSE l \in Accepted : TRUE) \in Languages
    BY LanguagesAssumption
  <1> QED
    BY <1>1, BoundsAssumption DEF NewForm, Sources

LEMMA NoReadType == NoRead \in Read /\ NoRead.at = "none"
  BY DEF NoRead, Read, Nothing, Seen, Statuses

LEMMA NoListingType ==
  NoListing \in [at : {"none", "read"}, list : Seq(Statuses)] /\ Len(NoListing.list) = 0
  BY DEF NoListing

LEMMA AtType == \A tab \in Tabs : At(tab) \in [at : Tabs \union {"page"}, id : Ids \union {0}]
                               /\ At(tab).at # "page"
  BY DEF At, Tabs

LEMMA RowsDomain ==
  ASSUME rows \in Seq(Row)
  PROVE  /\ DOMAIN rows = 1..Len(rows) /\ Len(rows) \in Nat
         /\ \A i \in DOMAIN rows : rows[i] \in Row
  BY LenProperties, ElementOfSeq

-----------------------------------------------------------------------------
LEMMA StoreStarts == Init => StoreInv
  BY BoundsAssumption DEF Init, StoreInv

LEMMA FormStarts == Init => FormInv
  <1> SUFFICES ASSUME Init PROVE FormInv
    OBVIOUS
  <1>1. FormTypeOK
    BY NewFormType, BoundsAssumption DEF Init, FormTypeOK
  <1>2. PostsLead
    BY DEF Init, PostsLead
  <1> QED
    BY <1>1, <1>2 DEF FormInv

LEMMA ReadStarts == Init => ReadInv
  <1> SUFFICES ASSUME Init PROVE ReadInv
    OBVIOUS
  <1>1. DOMAIN detail = {} /\ detail \in [DOMAIN detail -> Seen]
    BY DEF Init
  <1>2. mine \in [known : BOOLEAN, list : Seq(Statuses)] /\ Len(mine.list) = 0
    BY DEF Init
  <1>3. view \in [at : Tabs \union {"page"}, id : Ids \union {0}] /\ view.at # "page"
    BY AtType DEF Init, Tabs
  <1>4. ReadTypeOK
    BY <1>1, <1>2, <1>3, NoReadType, NoListingType DEF Init, ReadTypeOK
  <1>5. ReadIsSound(poll) /\ ReadIsSound(render)
    BY NoReadType DEF Init, ReadIsSound
  <1>6. LinksLead
    BY <1>2, <1>3, NoListingType DEF Init, LinksLead
  <1>7. FinalShowsTests
    BY <1>1 DEF FinalShowsTests
  <1> QED
    BY <1>4, <1>5, <1>6, <1>7 DEF ReadInv

LEMMA CountStarts == Init => PressesCount
  <1> SUFFICES ASSUME Init PROVE PressesCount
    OBVIOUS
  <1>1. \A what : Made(what) = {} /\ Waiting(what) = {}
    BY DEF Init, Made, Waiting
  <1>2. \A what \in DOMAIN pressed : pressed[what] = 0
    BY DEF Init
  <1>3. IsFiniteSet({}) /\ Cardinality({}) = 0
    BY FS_EmptySet
  <1>4. IsFiniteSet(posts)
    BY <1>3 DEF Init
  <1> QED
    BY <1>1, <1>2, <1>3, <1>4 DEF PressesCount

-----------------------------------------------------------------------------
(* The stored submissions are added to, and a verdict stands.              *)
RowsGrow ==
  /\ Len(rows) <= Len(rows')
  /\ DOMAIN rows \subseteq DOMAIN rows'
  /\ \A i \in DOMAIN rows :
       /\ rows[i].status = "final" => rows'[i].status = "final"
       /\ What(rows'[i]) = What(rows[i])

LEMMA RowsStay ==
  ASSUME StoreInv, UNCHANGED rows
  PROVE  StoreInv' /\ RowsGrow
  BY RowsDomain DEF StoreInv, RowsGrow

(* What is added is the request, in a language that was allowed.           *)
LEMMA AddsRow ==
  ASSUME StoreInv, FormTypeOK, NEW post, CreateSubmission(post), Allowed(post)
  PROVE  /\ Len(rows') = Len(rows) + 1 /\ Len(rows') <= MaxRows
         /\ rows' \in Seq(Row)
         /\ DOMAIN rows' = DOMAIN rows \union {Len(rows')}
         /\ Len(rows') \notin DOMAIN rows
         /\ \A i \in DOMAIN rows : rows'[i] = rows[i]
         /\ What(rows'[Len(rows')]) = What(post)
         /\ rows'[Len(rows')].language \in Accepted
  <1> DEFINE new == [language |-> post.language, source |-> post.source, status |-> "queued"]
  <1>1. rows' = Append(rows, new) /\ Len(rows) < MaxRows
    BY DEF CreateSubmission
  <1>2. new \in Row /\ new.language \in Accepted /\ What(new) = What(post)
    <2>1. post \in Post
      BY DEF CreateSubmission, FormTypeOK
    <2> QED
      BY <2>1 DEF Post, Row, Statuses, What, Allowed
  <1> HIDE DEF new
  <1>3. rows \in Seq(Row) /\ Len(rows) \in Nat /\ DOMAIN rows = 1..Len(rows)
    BY RowsDomain DEF StoreInv
  <1>4. /\ rows' \in Seq(Row) /\ Len(rows') = Len(rows) + 1
        /\ \A i \in 1..Len(rows) : rows'[i] = rows[i]
        /\ rows'[Len(rows) + 1] = new
    BY <1>1, <1>2, <1>3, AppendProperties
  <1>5. DOMAIN rows' = 1..(Len(rows) + 1)
    BY <1>4, LenProperties
  <1> QED
    BY <1>1, <1>2, <1>3, <1>4, <1>5, BoundsAssumption

LEMMA CreateStores ==
  ASSUME StoreInv, FormTypeOK, NEW post, CreateSubmission(post)
  PROVE  StoreInv' /\ RowsGrow
  <1>1. CASE Allowed(post)
    <2>1. Len(rows) \in Nat
      BY RowsDomain DEF StoreInv
    <2>2. StoreInv'
      BY <1>1, AddsRow DEF StoreInv
    <2>3. RowsGrow
      BY <1>1, <2>1, AddsRow DEF RowsGrow
    <2> QED
      BY <2>2, <2>3
  <1>2. CASE ~Allowed(post)
    BY <1>2, RowsStay DEF CreateSubmission
  <1> QED
    BY <1>1, <1>2

(* Judging gives a row another status.                                     *)
LEMMA JudgedRow ==
  ASSUME StoreInv, NEW id, Judge(id)
  PROVE  /\ id \in DOMAIN rows /\ rows[id].status # "final"
         /\ rows' \in Seq(Row) /\ Len(rows') = Len(rows) /\ DOMAIN rows' = DOMAIN rows
         /\ \A i \in DOMAIN rows \ {id} : rows'[i] = rows[i]
         /\ What(rows'[id]) = What(rows[id])
  <1>1. PICK status \in Statuses : rows' = [rows EXCEPT ![id] = [rows[id] EXCEPT !.status = status]]
    BY DEF Judge
  <1> DEFINE new == [rows[id] EXCEPT !.status = status]
  <1>2. /\ id \in 1..Len(rows) /\ DOMAIN rows = 1..Len(rows) /\ rows[id] \in Row
        /\ rows \in Seq(Row)
    BY RowsDomain DEF StoreInv, Judge
  <1>3. new \in Row /\ What(new) = What(rows[id])
    BY <1>2 DEF Row, What
  <1>4. rows' = [rows EXCEPT ![id] = new]
    BY <1>1
  <1> HIDE DEF new
  <1>5. /\ rows' \in Seq(Row) /\ Len(rows') = Len(rows)
        /\ \A j \in 1..Len(rows) : rows'[j] = IF j = id THEN new ELSE rows[j]
    BY <1>2, <1>3, <1>4, ExceptSeq
  <1>6. DOMAIN rows' = 1..Len(rows)
    BY <1>5, LenProperties
  <1> QED
    BY <1>2, <1>3, <1>5, <1>6 DEF Judge

LEMMA JudgeStores ==
  ASSUME StoreInv, NEW id, Judge(id)
  PROVE  StoreInv' /\ RowsGrow
  <1>1. \A i \in DOMAIN rows : rows'[i].language = rows[i].language
    BY JudgedRow DEF What
  <1>2. Len(rows) \in Nat
    BY RowsDomain DEF StoreInv
  <1>3. StoreInv'
    BY <1>1, JudgedRow DEF StoreInv
  <1>4. RowsGrow
    BY <1>2, JudgedRow DEF RowsGrow
  <1> QED
    BY <1>3, <1>4

LEMMA NextStores ==
  ASSUME StoreInv, FormTypeOK, [Next]_vars
  PROVE  StoreInv' /\ RowsGrow
  <1>1. \/ UNCHANGED rows
        \/ \E post \in posts : CreateSubmission(post)
        \/ \E id \in Ids : Judge(id)
    BY DEF Next, Type, PickLanguage, DropFile, FileLoaded, FileFails, Submit, PostFails,
           PostArrives, OpenTab, OpenSubmission, RenderReads, PageArrives, RenderFails,
           PollDetail, PollReads, PollArrives, PollFails, PollList, ListArrives, ListFails, vars
  <1> QED
    BY <1>1, RowsStay, CreateStores, JudgeStores

-----------------------------------------------------------------------------
(* The form and its requests. *)

LEMMA ClickType ==
  ASSUME FormTypeOK, Click
  PROVE  clicks' \in 0..MaxClicks
  BY BoundsAssumption DEF FormTypeOK, Click

LEMMA TypeKeepsForm ==
  ASSUME FormTypeOK, NEW text \in Typed \union {""}, Type(text)
  PROVE  FormTypeOK'
  <1>1. text \in Sources /\ Click
    BY DEF Sources, Type
  <1>2. form' = [form EXCEPT !.source = text] /\ UNCHANGED <<posts, pressed, faults>>
    BY DEF Type
  <1>3. form' \in [language : Languages, source : Sources, press : 0..MaxClicks,
                   loads : SUBSET [file : Files, language : Languages]]
    BY <1>1, <1>2 DEF FormTypeOK
  <1>4. clicks' \in 0..MaxClicks
    BY <1>1, ClickType
  <1> QED
    BY <1>2, <1>3, <1>4 DEF FormTypeOK

LEMMA PickKeepsForm ==
  ASSUME FormTypeOK, NEW language \in Languages, PickLanguage(language)
  PROVE  FormTypeOK'
  BY BoundsAssumption DEF PickLanguage, Click, FormTypeOK

LEMMA DropKeepsForm ==
  ASSUME FormTypeOK, NEW file \in Files, DropFile(file)
  PROVE  FormTypeOK'
  BY BoundsAssumption DEF DropFile, Click, FormTypeOK

LEMMA LoadKeepsForm ==
  ASSUME FormTypeOK, NEW load \in form.loads, FileLoaded(load)
  PROVE  FormTypeOK'
  <1>1. load.file \in Files
    BY DEF FormTypeOK
  <1>2. LanguageOf[load.file] \in Languages \union {NoLanguage}
    BY <1>1, FilesAssumption
  <1> QED
    BY <1>1, <1>2 DEF FileLoaded, FormTypeOK, Sources

LEMMA FileFailsKeepsForm ==
  ASSUME FormTypeOK, NEW load \in form.loads, FileFails(load)
  PROVE  FormTypeOK'
  BY BoundsAssumption DEF FileFails, Fault, FormTypeOK

LEMMA SubmitKeepsForm ==
  ASSUME FormTypeOK, Submit
  PROVE  FormTypeOK'
  <1>1. Click
    BY DEF Submit
  <1>2. clicks' \in 1..MaxClicks
    BY <1>1, BoundsAssumption DEF Click, FormTypeOK
  <1>3. form' = [form EXCEPT !.press = clicks']
    BY DEF Submit
  <1>4. form' \in [language : Languages, source : Sources, press : 0..MaxClicks,
                   loads : SUBSET [file : Files, language : Languages]]
    BY <1>2, <1>3, BoundsAssumption DEF FormTypeOK
  <1>5. posts' = posts \union {[press |-> clicks', language |-> form.language,
                                source |-> form.source, at |-> "asked", id |-> 0]}
    BY DEF Submit
  <1>6. posts' \subseteq Post
    BY <1>2, <1>5 DEF FormTypeOK, Post
  <1>7. pressed' = [pressed EXCEPT ![What(form)] = pressed[What(form)] + 1]
    BY DEF Submit, What
  <1>8. What(form) \in [language : Languages, source : Sources]
    BY DEF FormTypeOK, What
  <1>9. pressed' \in [[language : Languages, source : Sources] -> Nat]
    <2> DEFINE all == [language : Languages, source : Sources]
    <2>1. pressed \in [all -> Nat] /\ What(form) \in all
      BY <1>8 DEF FormTypeOK
    <2> HIDE DEF all
    <2>2. pressed[What(form)] + 1 \in Nat
      BY <2>1
    <2>3. pressed' \in [all -> Nat]
      BY <1>7, <2>1, <2>2
    <2> QED
      BY <2>3 DEF all
  <1>10. faults' = faults
    BY DEF Submit
  <1> QED
    BY <1>2, <1>4, <1>6, <1>9, <1>10 DEF FormTypeOK

LEMMA BecameType ==
  ASSUME FormTypeOK, NEW post \in posts, NEW where \in {"made", "refused"},
         NEW id \in Ids \union {0}
  PROVE  /\ Became(post, where, id) \subseteq Post
         /\ \A p \in Became(post, where, id) :
              p \in posts \/ (p.at = where /\ p.id = id)
  BY DEF FormTypeOK, Became, Post

LEMMA CreateKeepsForm ==
  ASSUME StoreInv, FormInv, NEW post \in posts, CreateSubmission(post)
  PROVE  FormInv'
  <1>1. RowsGrow
    BY CreateStores DEF FormInv
  <1>2. CASE ~Allowed(post)
    <2>1. posts' = Became(post, "refused", 0)
      BY <1>2 DEF CreateSubmission
    <2> QED
      BY <1>1, <2>1, BecameType DEF FormInv, FormTypeOK, PostsLead, RowsGrow, CreateSubmission
  <1>3. CASE Allowed(post)
    <2>1. posts' = Became(post, "made", Len(rows'))
      BY <1>3 DEF CreateSubmission
    <2>2. Len(rows') \in Ids /\ Len(rows') \in DOMAIN rows'
      <3>1. Len(rows) \in Nat
        BY RowsDomain DEF StoreInv
      <3> QED
        BY <1>3, <3>1, AddsRow, BoundsAssumption DEF FormInv, Ids
    <2> QED
      BY <1>1, <2>1, <2>2, BecameType DEF FormInv, FormTypeOK, PostsLead, RowsGrow,
                                         CreateSubmission
  <1> QED
    BY <1>2, <1>3

LEMMA PostFailsKeepsForm ==
  ASSUME FormTypeOK, NEW post \in posts, PostFails(post)
  PROVE  FormTypeOK'
  BY BoundsAssumption DEF PostFails, Fault, FormTypeOK

LEMMA PostArrivesKeepsForm ==
  ASSUME FormTypeOK, NEW post \in posts, PostArrives(post)
  PROVE  FormTypeOK'
  BY DEF PostArrives, FormTypeOK

(* A page that comes or goes takes the form with it.                       *)
LEMMA PageKeepsForm ==
  ASSUME FormTypeOK, UNCHANGED <<posts, pressed>>, form' \in {form, NewForm},
         UNCHANGED clicks \/ Click, UNCHANGED faults \/ Fault
  PROVE  FormTypeOK'
  BY NewFormType, BoundsAssumption DEF FormTypeOK, Click, Fault

(* Requests only leave, but for those a press makes and a server serves.   *)
LEMMA PostsStillLead ==
  ASSUME PostsLead, RowsGrow, \A post \in posts' : post \in posts \/ post.at # "made"
  PROVE  PostsLead'
  BY DEF PostsLead, RowsGrow

LEMMA PostsOfNext ==
  ASSUME Next, ~\E post \in posts : CreateSubmission(post)
  PROVE  posts' \subseteq posts \/ Submit
  BY DEF Next, Type, PickLanguage, DropFile, FileLoaded, FileFails, PostFails,
         PostArrives, OpenTab, OpenSubmission, Judge, RenderReads, PageArrives, RenderFails,
         PollDetail, PollReads, PollArrives, PollFails, PollList, ListArrives, ListFails,
         formVars

LEMMA NextKeepsForm ==
  ASSUME StoreInv, FormInv, [Next]_vars
  PROVE  FormInv'
  <1> USE DEF FormInv
  <1>1. RowsGrow
    BY NextStores
  <1>2. CASE \E post \in posts : CreateSubmission(post)
    BY <1>2, CreateKeepsForm
  <1>3. ASSUME ~\E post \in posts : CreateSubmission(post) PROVE FormTypeOK'
    <2>1. CASE UNCHANGED vars
      BY <2>1 DEF vars, formVars, FormTypeOK
    <2>2. CASE \E tab \in Tabs : OpenTab(tab)
      BY <2>2, PageKeepsForm DEF OpenTab
    <2>3. CASE \/ \E id \in Ids : OpenSubmission(id) \/ Judge(id)
               \/ RenderReads \/ PageArrives \/ RenderFails
               \/ PollDetail \/ PollReads \/ PollArrives \/ PollFails
               \/ PollList \/ ListArrives \/ ListFails
      <3>1. /\ UNCHANGED <<posts, pressed>> /\ form' \in {form, NewForm}
            /\ UNCHANGED clicks \/ Click
            /\ UNCHANGED faults \/ Fault
        BY <2>3 DEF OpenSubmission, Judge, RenderReads, PageArrives, RenderFails, PollDetail,
                    PollReads, PollArrives, PollFails, PollList, ListArrives, ListFails, formVars
      <3> QED
        BY <3>1, PageKeepsForm
    <2> QED
      BY <1>3, <2>1, <2>2, <2>3, TypeKeepsForm, PickKeepsForm, DropKeepsForm, LoadKeepsForm,
         FileFailsKeepsForm, SubmitKeepsForm, PostFailsKeepsForm, PostArrivesKeepsForm DEF Next
  <1>4. ASSUME ~\E post \in posts : CreateSubmission(post) PROVE PostsLead'
    <2>1. \A post \in posts' : post \in posts \/ post.at # "made"
      <3>1. CASE Submit
        <4>1. posts' = posts \union {[press |-> clicks', language |-> form.language,
                                      source |-> form.source, at |-> "asked", id |-> 0]}
          BY <3>1 DEF Submit
        <4> QED
          BY <4>1
      <3>2. CASE posts' \subseteq posts
        BY <3>2
      <3> QED
        BY <1>4, <3>1, <3>2, PostsOfNext DEF vars, formVars
    <2> QED
      BY <1>1, <2>1, PostsStillLead
  <1> QED
    BY <1>2, <1>3, <1>4

-----------------------------------------------------------------------------
(* What the pages read. *)

LEMMA IdsOfRows ==
  ASSUME StoreInv
  PROVE  /\ DOMAIN rows = 1..Len(rows) /\ Len(rows) \in Nat
         /\ \A i \in DOMAIN rows : i \in Ids /\ rows[i].status \in Statuses
  <1>1. /\ DOMAIN rows = 1..Len(rows) /\ Len(rows) \in Nat /\ Len(rows) <= MaxRows
        /\ \A i \in DOMAIN rows : rows[i] \in Row
    BY RowsDomain DEF StoreInv
  <1> QED
    BY <1>1, BoundsAssumption DEF Row, Ids

(* A read that starts, and one that ends, is sound: the first statement    *)
(* reads the status, the second the tests.                                 *)
LEMMA AskedSound ==
  ASSUME StoreInv, NEW id \in DOMAIN rows
  PROVE  Asked(id) \in Read /\ ReadIsSound(Asked(id))
  <1> DEFINE read == [NoRead EXCEPT !.at = "half", !.id = id]
             seen == Statement(read, FALSE)
  <1>1. id \in Ids /\ rows[id].status \in Statuses
    BY IdsOfRows
  <1>2. /\ read.at = "half" /\ read.id = id /\ read.seen = Nothing
        /\ read \in [at : {"half"}, id : Ids, seen : {Nothing}]
    BY <1>1 DEF NoRead
  <1>3. Asked(id) = [read EXCEPT !.seen = seen]
    BY Zenon DEF Asked
  <1>4. seen = [Nothing EXCEPT !.status = rows[id].status]
    BY <1>2 DEF Statement
  <1>5. seen \in Seen /\ seen.status = rows[id].status
    BY <1>1, <1>4 DEF Nothing, Seen
  <1> HIDE DEF read, seen
  <1>6. Asked(id) \in Read /\ Asked(id).at = "half" /\ Asked(id).id = id /\ Asked(id).seen = seen
    BY <1>1, <1>2, <1>3, <1>5 DEF Read
  <1> QED
    BY <1>5, <1>6 DEF ReadIsSound

LEMMA AnsweredSound ==
  ASSUME StoreInv, NEW read \in Read, read.at = "half", ReadIsSound(read)
  PROVE  Answered(read) \in Read /\ ReadIsSound(Answered(read))
  <1> DEFINE seen == Statement(read, TRUE)
  <1>1. read.id \in Ids \union {0} /\ read.seen \in Seen
    BY DEF Read
  <1>2. seen = [read.seen EXCEPT !.tests = rows[read.id].status = "final"]
    BY DEF Statement
  <1>3. /\ seen \in Seen /\ seen.status = read.seen.status
        /\ seen.tests = (rows[read.id].status = "final")
    BY <1>1, <1>2 DEF Seen
  <1>4. Answered(read) = [read EXCEPT !.at = "read", !.seen = seen]
    BY DEF Answered
  <1> HIDE DEF seen
  <1>5. /\ Answered(read) \in Read /\ Answered(read).at = "read" /\ Answered(read).id = read.id
        /\ Answered(read).seen = seen
    BY <1>1, <1>3, <1>4 DEF Read
  <1> QED
    BY <1>3, <1>5 DEF ReadIsSound

LEMMA NoReadSound == ReadIsSound(NoRead)
  BY NoReadType DEF ReadIsSound

(* Judging goes on meanwhile.                                              *)
LEMMA SoundStays ==
  ASSUME RowsGrow, NEW read, ReadIsSound(read)
  PROVE  /\ read.at # "none" => read.id \in DOMAIN rows'
         /\ read.at = "half" /\ read.seen.status = "final" => rows'[read.id].status = "final"
         /\ read.at = "read" /\ read.seen.status = "final" => read.seen.tests
  <1>1. read.at # "none" => read.id \in DOMAIN rows /\ read.id \in DOMAIN rows'
    BY DEF RowsGrow, ReadIsSound
  <1>2. read.at = "half" /\ read.seen.status = "final" => rows'[read.id].status = "final"
    BY <1>1 DEF RowsGrow, ReadIsSound
  <1> QED
    BY <1>1, <1>2 DEF ReadIsSound

LEMMA ReadsStay ==
  ASSUME StoreInv, ReadInv, RowsGrow, StoreInv', UNCHANGED <<view, listVars, detailVars>>
  PROVE  ReadInv'
  <1> USE DEF ReadInv
  <1>1. /\ view' = view /\ mine' = mine /\ listing' = listing
        /\ detail' = detail /\ poll' = poll /\ render' = render
    BY DEF listVars, detailVars
  <1>2. ReadTypeOK'
    BY <1>1 DEF ReadTypeOK, RowsGrow
  <1>3. ReadIsSound(poll)'
    BY <1>1, SoundStays DEF ReadIsSound
  <1>4. ReadIsSound(render)'
    BY <1>1, SoundStays DEF ReadIsSound
  <1>5. LinksLead'
    <2>1. Len(rows) \in Nat /\ Len(rows') \in Nat /\ Len(rows) <= Len(rows')
      BY IdsOfRows, RowsDomain DEF StoreInv, RowsGrow
    <2>2. Len(mine.list) \in Nat /\ Len(listing.list) \in Nat
      <3>1. mine.list \in Seq(Statuses) /\ listing.list \in Seq(Statuses)
        BY DEF ReadTypeOK
      <3> QED
        BY <3>1, LenProperties
    <2> QED
      BY <1>1, <2>1, <2>2 DEF LinksLead
  <1>6. FinalShowsTests'
    BY <1>1 DEF FinalShowsTests
  <1> QED
    BY <1>2, <1>3, <1>4, <1>5, <1>6

(* A step of the pages: the rows stay, and each part is as sound as it was.*)
LEMMA ReadsMove ==
  ASSUME ReadInv, UNCHANGED <<rows, mine, listing, view, detail>>,
         poll' \in Read, ReadIsSound(poll'),
         render' \in Read, ReadIsSound(render')
  PROVE  ReadInv'
  <1> USE DEF ReadInv
  <1>1. ReadTypeOK'
    BY DEF ReadTypeOK
  <1>2. ReadIsSound(poll)' /\ ReadIsSound(render)'
    BY DEF ReadIsSound
  <1>3. LinksLead' /\ FinalShowsTests'
    BY DEF LinksLead, FinalShowsTests
  <1> QED
    BY <1>1, <1>2, <1>3

LEMMA ListedType ==
  ASSUME StoreInv
  PROVE  Listed \in [at : {"none", "read"}, list : Seq(Statuses)] /\ Len(Listed.list) = Len(rows)
  <1> DEFINE seq == [i \in DOMAIN rows |-> rows[i].status]
  <1>1. DOMAIN rows = 1..Len(rows) /\ Len(rows) \in Nat
        /\ \A i \in DOMAIN rows : rows[i].status \in Statuses
    BY IdsOfRows
  <1>2. seq \in [1..Len(rows) -> Statuses]
    BY <1>1
  <1>3. seq \in Seq(Statuses)
    BY <1>1, <1>2, SeqDef
  <1>4. Len(seq) = Len(rows)
    <2>1. DOMAIN seq = 1..Len(rows) /\ DOMAIN seq = 1..Len(seq) /\ Len(seq) \in Nat
      BY <1>1, <1>3, LenProperties
    <2> QED
      BY <1>1, <2>1
  <1> QED
    BY <1>3, <1>4 DEF Listed

(* The list alone is read, or forgotten.                                   *)
LEMMA ListsMove ==
  ASSUME ReadInv, StoreInv, UNCHANGED <<rows, view, detailVars>>,
         mine' \in [known : BOOLEAN, list : Seq(Statuses)], Len(mine'.list) <= Len(rows),
         listing' \in [at : {"none", "read"}, list : Seq(Statuses)],
         Len(listing'.list) <= Len(rows)
  PROVE  ReadInv'
  <1> USE DEF ReadInv
  <1>1. ReadTypeOK'
    BY DEF ReadTypeOK, detailVars
  <1>2. ReadIsSound(poll)' /\ ReadIsSound(render)'
    BY DEF ReadIsSound, detailVars
  <1>3. LinksLead' /\ FinalShowsTests'
    BY DEF LinksLead, FinalShowsTests, detailVars
  <1> QED
    BY <1>1, <1>2, <1>3

LEMMA MineIsStored ==
  ASSUME StoreInv, ReadInv, NEW id \in DOMAIN mine.list
  PROVE  id \in DOMAIN rows
  <1>1. mine.list \in Seq(Statuses) /\ Len(mine.list) <= Len(rows)
    BY DEF ReadInv, ReadTypeOK, LinksLead
  <1>2. DOMAIN mine.list = 1..Len(mine.list) /\ Len(mine.list) \in Nat
    BY <1>1, LenProperties
  <1> QED
    BY <1>1, <1>2, IdsOfRows

LEMMA OpenTabReads ==
  ASSUME StoreInv, ReadInv, NEW tab \in Tabs, OpenTab(tab)
  PROVE  ReadInv'
  <1> USE DEF ReadInv
  <1>1. /\ rows' = rows /\ mine' = mine /\ detail' = detail /\ poll' = poll
        /\ view' = At(tab) /\ render' \in {render, NoRead}
    BY DEF OpenTab
  <1>2. /\ listing' \in [at : {"none", "read"}, list : Seq(Statuses)]
        /\ Len(listing'.list) <= Len(rows)
    <2>1. listing' = listing \/ listing' = Listed
      BY DEF OpenTab, Mounted
    <2>2. Len(rows) \in Nat
      BY IdsOfRows
    <2> QED
      BY <2>1, <2>2, ListedType DEF ReadTypeOK, LinksLead
  <1>3. ReadTypeOK'
    BY <1>1, <1>2, AtType, NoReadType DEF ReadTypeOK
  <1>4. ReadIsSound(poll)' /\ ReadIsSound(render)'
    BY <1>1, NoReadType DEF ReadIsSound
  <1>5. LinksLead' /\ FinalShowsTests'
    BY <1>1, <1>2, AtType DEF LinksLead, FinalShowsTests
  <1> QED
    BY <1>3, <1>4, <1>5

LEMMA OpenSubmissionReads ==
  ASSUME StoreInv, ReadInv, NEW id, OpenSubmission(id)
  PROVE  ReadInv'
  <1>1. id \in DOMAIN rows
    BY MineIsStored DEF OpenSubmission
  <1>2. Asked(id) \in Read /\ ReadIsSound(Asked(id))
    BY <1>1, AskedSound
  <1> QED
    BY <1>2, ReadsMove DEF OpenSubmission, listVars, ReadInv, ReadTypeOK

LEMMA PostArrivesReads ==
  ASSUME StoreInv, FormInv, ReadInv, NEW post \in posts, PostArrives(post)
  PROVE  ReadInv'
  <1>1. post.at = "made" => Asked(post.id) \in Read /\ ReadIsSound(Asked(post.id))
    BY AskedSound DEF FormInv, PostsLead
  <1>2. render' \in Read /\ ReadIsSound(render')
    BY <1>1 DEF PostArrives, ReadInv, ReadTypeOK
  <1> QED
    BY <1>2, ReadsMove DEF PostArrives, listVars, ReadInv, ReadTypeOK

LEMMA RenderReadsReads ==
  ASSUME StoreInv, ReadInv, RenderReads
  PROVE  ReadInv'
  <1>1. Answered(render) \in Read /\ ReadIsSound(Answered(render))
    BY AnsweredSound DEF RenderReads, ReadInv, ReadTypeOK
  <1> QED
    BY <1>1, ReadsMove DEF RenderReads, listVars, ReadInv, ReadTypeOK

LEMMA PollDetailReads ==
  ASSUME StoreInv, ReadInv, PollDetail
  PROVE  ReadInv'
  <1>1. view.id \in DOMAIN rows
    BY DEF PollDetail, ReadInv, LinksLead, ReadTypeOK
  <1>2. Asked(view.id) \in Read /\ ReadIsSound(Asked(view.id))
    BY <1>1, AskedSound
  <1> QED
    BY <1>2, ReadsMove DEF PollDetail, listVars, ReadInv, ReadTypeOK

LEMMA PollReadsReads ==
  ASSUME StoreInv, ReadInv, PollReads
  PROVE  ReadInv'
  <1>1. Answered(poll) \in Read /\ ReadIsSound(Answered(poll))
    BY AnsweredSound DEF PollReads, ReadInv, ReadTypeOK
  <1> QED
    BY <1>1, ReadsMove DEF PollReads, listVars, ReadInv, ReadTypeOK

LEMMA PollFailsReads ==
  ASSUME StoreInv, ReadInv, PollFails
  PROVE  ReadInv'
  BY NoReadType, NoReadSound, ReadsMove DEF PollFails, listVars, ReadInv, ReadTypeOK

LEMMA RenderFailsReads ==
  ASSUME StoreInv, ReadInv, RenderFails
  PROVE  ReadInv'
  <1> USE DEF ReadInv
  <1>1. /\ rows' = rows /\ mine' = mine /\ listing' = listing /\ detail' = detail /\ poll' = poll
        /\ view' = At("submit") /\ render' = NoRead
    BY DEF RenderFails, listVars
  <1>2. ReadTypeOK'
    BY <1>1, AtType, NoReadType DEF ReadTypeOK, Tabs
  <1>3. ReadIsSound(poll)' /\ ReadIsSound(render)'
    BY <1>1, NoReadType DEF ReadIsSound
  <1>4. LinksLead' /\ FinalShowsTests'
    BY <1>1, AtType DEF LinksLead, FinalShowsTests, Tabs
  <1> QED
    BY <1>2, <1>3, <1>4

(* What arrives was answered by both statements.                           *)
LEMMA PageArrivesReads ==
  ASSUME StoreInv, ReadInv, PageArrives
  PROVE  ReadInv'
  <1> USE DEF ReadInv
  <1>1. /\ rows' = rows /\ mine' = mine /\ listing' = listing /\ poll' = poll
        /\ view' = [at |-> "page", id |-> render.id] /\ render' = NoRead
    BY DEF PageArrives, listVars
  <1>2. /\ render.id \in DOMAIN rows /\ render.id \in Ids /\ render.seen \in Seen
        /\ render.seen.status = "final" => render.seen.tests
    BY IdsOfRows DEF PageArrives, ReadIsSound, ReadTypeOK, Read
  <1>3. /\ DOMAIN detail' = DOMAIN detail \union {render.id}
        /\ \A id \in DOMAIN detail' :
             detail'[id] = IF id \in DOMAIN detail THEN detail[id] ELSE render.seen
        /\ detail' = [id \in DOMAIN detail' |-> detail'[id]]
    BY DEF PageArrives
  <1>4. ReadTypeOK'
    <2>1. detail' \in [DOMAIN detail' -> Seen]
      <3>1. \A id \in DOMAIN detail' : detail'[id] \in Seen
        BY <1>2, <1>3 DEF ReadTypeOK
      <3> QED
        BY <1>3, <3>1
    <2>2. view' \in [at : Tabs \union {"page"}, id : Ids \union {0}]
      BY <1>1, <1>2
    <2> QED
      BY <1>1, <1>2, <1>3, <2>1, <2>2, NoReadType DEF ReadTypeOK
  <1>5. ReadIsSound(poll)' /\ ReadIsSound(render)'
    BY <1>1, NoReadType DEF ReadIsSound
  <1>6. LinksLead'
    BY <1>1, <1>3 DEF LinksLead
  <1>7. FinalShowsTests'
    BY <1>2, <1>3 DEF FinalShowsTests
  <1> QED
    BY <1>4, <1>5, <1>6, <1>7

LEMMA PollArrivesReads ==
  ASSUME StoreInv, ReadInv, PollArrives
  PROVE  ReadInv'
  <1> USE DEF ReadInv
  <1>1. /\ rows' = rows /\ mine' = mine /\ listing' = listing /\ render' = render
        /\ view' = view /\ poll' = NoRead
        /\ detail' = [detail EXCEPT ![poll.id] = poll.seen]
    BY DEF PollArrives, listVars
  <1>2. poll.seen \in Seen /\ (poll.seen.status = "final" => poll.seen.tests)
    BY DEF PollArrives, ReadIsSound, ReadTypeOK, Read
  <1>3. /\ DOMAIN detail' = DOMAIN detail /\ detail' \in [DOMAIN detail -> Seen]
        /\ \A id \in DOMAIN detail : detail'[id] = detail[id] \/ detail'[id] = poll.seen
    BY <1>1, <1>2 DEF ReadTypeOK
  <1>4. ReadTypeOK'
    BY <1>1, <1>3, NoReadType DEF ReadTypeOK
  <1>5. ReadIsSound(poll)' /\ ReadIsSound(render)'
    BY <1>1, NoReadType DEF ReadIsSound
  <1>6. LinksLead'
    BY <1>1, <1>3 DEF LinksLead
  <1>7. FinalShowsTests'
    BY <1>2, <1>3 DEF FinalShowsTests
  <1> QED
    BY <1>4, <1>5, <1>6, <1>7

LEMMA ListReads ==
  ASSUME StoreInv, ReadInv, PollList \/ ListArrives \/ ListFails
  PROVE  ReadInv'
  <1>1. /\ mine \in [known : BOOLEAN, list : Seq(Statuses)] /\ Len(mine.list) <= Len(rows)
        /\ listing \in [at : {"none", "read"}, list : Seq(Statuses)]
        /\ Len(listing.list) <= Len(rows)
    BY DEF ReadInv, ReadTypeOK, LinksLead
  <1>2. Listed \in [at : {"none", "read"}, list : Seq(Statuses)]
        /\ Len(Listed.list) <= Len(rows) /\ Len(NoListing.list) <= Len(rows)
    BY ListedType, IdsOfRows, NoListingType
  <1>3. CASE PollList
    BY <1>1, <1>2, <1>3, ListsMove DEF PollList
  <1>4. CASE ListArrives
    <2>1. mine' \in [known : BOOLEAN, list : Seq(Statuses)] /\ mine'.list = listing.list
      BY <1>1, <1>4 DEF ListArrives
    <2> QED
      BY <1>1, <1>2, <1>4, <2>1, NoListingType, ListsMove DEF ListArrives
  <1>5. CASE ListFails
    BY <1>1, <1>2, <1>5, NoListingType, ListsMove DEF ListFails
  <1> QED
    BY <1>3, <1>4, <1>5

LEMMA NextReads ==
  ASSUME StoreInv, FormInv, ReadInv, [Next]_vars
  PROVE  ReadInv'
  <1>1. StoreInv' /\ RowsGrow
    BY NextStores DEF FormInv
  <1>2. CASE UNCHANGED <<view, listVars, detailVars>>
    BY <1>1, <1>2, ReadsStay
  <1>3. CASE \E post \in posts : PostArrives(post)
    BY <1>3, PostArrivesReads
  <1>4. CASE \E tab \in Tabs : OpenTab(tab)
    BY <1>4, OpenTabReads
  <1>5. CASE \E id \in Ids : OpenSubmission(id)
    BY <1>5, OpenSubmissionReads
  <1>6. CASE \/ RenderReads \/ PageArrives \/ RenderFails
             \/ PollDetail \/ PollReads \/ PollArrives \/ PollFails
             \/ PollList \/ ListArrives \/ ListFails
    BY <1>6, RenderReadsReads, PageArrivesReads, RenderFailsReads, PollDetailReads,
       PollReadsReads, PollArrivesReads, PollFailsReads, ListReads
  <1>7. \/ UNCHANGED <<view, listVars, detailVars>>
        \/ \E post \in posts : PostArrives(post)
        \/ \E tab \in Tabs : OpenTab(tab)
        \/ \E id \in Ids : OpenSubmission(id)
        \/ RenderReads \/ PageArrives \/ RenderFails
        \/ PollDetail \/ PollReads \/ PollArrives \/ PollFails
        \/ PollList \/ ListArrives \/ ListFails
    BY DEF Next, vars, Type, PickLanguage, DropFile, FileLoaded, FileFails, Submit,
           CreateSubmission, PostFails, Judge
  <1> QED
    BY <1>2, <1>3, <1>4, <1>5, <1>6, <1>7

-----------------------------------------------------------------------------
(* The count of presses. *)

LEMMA MadeIsFinite ==
  ASSUME StoreInv, NEW what
  PROVE  IsFiniteSet(Made(what)) /\ Cardinality(Made(what)) \in Nat
  <1>1. Made(what) \subseteq 1..Len(rows) /\ Len(rows) \in Nat
    BY IdsOfRows DEF Made
  <1>2. IsFiniteSet(1..Len(rows))
    BY <1>1, FS_Interval
  <1> QED
    BY <1>1, <1>2, FS_Subset, FS_CardinalityType

LEMMA WaitingIsFinite ==
  ASSUME IsFiniteSet(posts), NEW what
  PROVE  IsFiniteSet(Waiting(what)) /\ Cardinality(Waiting(what)) \in Nat
  BY FS_Subset, FS_CardinalityType DEF Waiting

(* Fewer wait, as many are made, and no press is forgotten.                *)
LEMMA FewerWait ==
  ASSUME StoreInv, FormTypeOK, PressesCount, NEW what \in DOMAIN pressed,
         Waiting(what)' \subseteq Waiting(what), Made(what)' = Made(what)
  PROVE  Cardinality(Made(what)') + Cardinality(Waiting(what)') <= pressed[what]
  <1>1. pressed[what] \in Nat
    BY DEF FormTypeOK
  <1>2. Cardinality(Made(what)) + Cardinality(Waiting(what)) <= pressed[what]
    BY DEF PressesCount
  <1>3. IsFiniteSet(Waiting(what)) /\ Cardinality(Waiting(what)) \in Nat
    BY WaitingIsFinite DEF PressesCount
  <1>4. /\ Cardinality(Waiting(what)') \in Nat
        /\ Cardinality(Waiting(what)') <= Cardinality(Waiting(what))
    BY <1>3, FS_Subset, FS_CardinalityType
  <1>5. Cardinality(Made(what)) \in Nat
    BY MadeIsFinite
  <1> QED
    BY <1>1, <1>2, <1>3, <1>4, <1>5

LEMMA MadeStays ==
  ASSUME RowsGrow, DOMAIN rows' = DOMAIN rows, NEW what
  PROVE  Made(what)' = Made(what)
  BY DEF Made, RowsGrow

LEMMA CountStays ==
  ASSUME StoreInv, FormTypeOK, PressesCount, RowsGrow, DOMAIN rows' = DOMAIN rows,
         UNCHANGED pressed, posts' \subseteq posts
  PROVE  PressesCount'
  <1>1. IsFiniteSet(posts')
    BY FS_Subset DEF PressesCount
  <1>2. ASSUME NEW what \in DOMAIN pressed
        PROVE  Cardinality(Made(what)') + Cardinality(Waiting(what)') <= pressed[what]
    <2>1. Waiting(what)' \subseteq Waiting(what)
      BY DEF Waiting
    <2> QED
      BY <2>1, MadeStays, FewerWait
  <1> QED
    BY <1>1, <1>2 DEF PressesCount

(* A press makes one request.                                              *)
LEMMA SubmitCounts ==
  ASSUME StoreInv, FormTypeOK, PressesCount, Submit
  PROVE  PressesCount'
  <1> DEFINE new == [press |-> clicks', language |-> form.language,
                     source |-> form.source, at |-> "asked", id |-> 0]
  <1>1. posts' = posts \union {new} /\ rows' = rows
    BY DEF Submit
  <1>2. pressed' = [pressed EXCEPT ![What(form)] = pressed[What(form)] + 1]
    BY DEF Submit, What
  <1>3. What(new) = What(form)
    BY DEF What
  <1> HIDE DEF new
  <1>4. IsFiniteSet(posts) /\ IsFiniteSet(posts')
    BY <1>1, FS_AddElement DEF PressesCount
  <1>5. DOMAIN pressed' = DOMAIN pressed
    BY <1>2
  <1>6. ASSUME NEW what \in DOMAIN pressed
        PROVE  Cardinality(Made(what)') + Cardinality(Waiting(what)') <= pressed'[what]
    <2>1. Made(what)' = Made(what)
      BY <1>1 DEF Made
    <2>2. CASE what = What(form)
      <3>1. pressed'[what] = pressed[what] + 1
        BY <2>2, <1>2
      <3>2. pressed[what] \in Nat
        BY DEF FormTypeOK
      <3>3. Waiting(what)' \subseteq Waiting(what) \union {new}
        BY <1>1 DEF Waiting
      <3>4. IsFiniteSet(Waiting(what)) /\ Cardinality(Waiting(what)) \in Nat
        BY WaitingIsFinite DEF PressesCount
      <3>5. /\ IsFiniteSet(Waiting(what) \union {new})
            /\ Cardinality(Waiting(what) \union {new}) <= Cardinality(Waiting(what)) + 1
            /\ Cardinality(Waiting(what) \union {new}) \in Nat
        BY <3>4, FS_AddElement, FS_CardinalityType
      <3>6. /\ Cardinality(Waiting(what)') <= Cardinality(Waiting(what) \union {new})
            /\ Cardinality(Waiting(what)') \in Nat
        BY <3>3, <3>5, FS_Subset, FS_CardinalityType
      <3>7. Cardinality(Made(what)) + Cardinality(Waiting(what)) <= pressed[what]
        BY DEF PressesCount
      <3>8. Cardinality(Made(what)) \in Nat
        BY MadeIsFinite
      <3> QED
        BY <2>1, <3>1, <3>2, <3>4, <3>5, <3>6, <3>7, <3>8
    <2>3. CASE what # What(form)
      <3>1. pressed'[what] = pressed[what]
        BY <2>3, <1>2
      <3>2. Waiting(what)' \subseteq Waiting(what)
        BY <2>3, <1>1, <1>3 DEF Waiting
      <3> QED
        BY <2>1, <3>1, <3>2, FewerWait
    <2> QED
      BY <2>2, <2>3
  <1> QED
    BY <1>4, <1>5, <1>6 DEF PressesCount

(* A request that is served no longer waits, whatever became of it.        *)
LEMMA ServedLeaves ==
  ASSUME FormTypeOK, PressesCount, NEW post \in posts, NEW where \in {"made", "refused"}, NEW id,
         posts' = Became(post, where, id)
  PROVE  /\ IsFiniteSet(posts')
         /\ \A what : Waiting(what)' \subseteq Waiting(what) \ {post}
  <1> DEFINE new == [post EXCEPT !.at = where, !.id = id]
  <1>1. new.at = where
    BY DEF FormTypeOK, Post
  <1>2. posts' = (posts \ {post}) \union {new}
    BY DEF Became
  <1> HIDE DEF new
  <1>3. IsFiniteSet(posts')
    <2>1. IsFiniteSet(posts \ {post})
      BY FS_Subset DEF PressesCount
    <2> QED
      BY <1>2, <2>1, FS_AddElement
  <1> QED
    BY <1>1, <1>2, <1>3 DEF Waiting

(* It makes one submission, of what it asked for, or none.                 *)
LEMMA CreateCounts ==
  ASSUME StoreInv, FormTypeOK, PressesCount, NEW post \in posts, CreateSubmission(post)
  PROVE  PressesCount'
  <1>1. pressed' = pressed
    BY DEF CreateSubmission
  <1>2. \/ ~Allowed(post) /\ posts' = Became(post, "refused", 0) /\ rows' = rows
        \/ Allowed(post) /\ posts' = Became(post, "made", Len(rows'))
    BY DEF CreateSubmission
  <1>3. /\ IsFiniteSet(posts')
        /\ \A what : Waiting(what)' \subseteq Waiting(what) \ {post}
    BY <1>2, ServedLeaves
  <1>4. ASSUME NEW what \in DOMAIN pressed
        PROVE  Cardinality(Made(what)') + Cardinality(Waiting(what)') <= pressed[what]
    <2>1. Waiting(what)' \subseteq Waiting(what)
      BY <1>3
    <2>2. CASE ~Allowed(post)
      <3>1. Made(what)' = Made(what)
        BY <2>2, <1>2 DEF Made
      <3> QED
        BY <2>1, <3>1, FewerWait
    <2>3. CASE Allowed(post) /\ what # What(post)
      <3>1. Made(what)' = Made(what)
        BY <2>3, AddsRow DEF Made
      <3> QED
        BY <2>1, <3>1, FewerWait
    <2>4. CASE Allowed(post) /\ what = What(post)
      <3>1. Made(what)' = Made(what) \union {Len(rows')} /\ Len(rows') \notin Made(what)
        BY <2>4, AddsRow DEF Made
      <3>2. IsFiniteSet(Made(what)) /\ Cardinality(Made(what)) \in Nat
        BY MadeIsFinite
      <3>3. Cardinality(Made(what)') = Cardinality(Made(what)) + 1
        BY <3>1, <3>2, FS_AddElement
      <3>4. post \in Waiting(what)
        BY <2>4 DEF Waiting, CreateSubmission
      <3>5. IsFiniteSet(Waiting(what)) /\ Cardinality(Waiting(what)) \in Nat
        BY WaitingIsFinite DEF PressesCount
      <3>6. /\ IsFiniteSet(Waiting(what) \ {post})
            /\ Cardinality(Waiting(what) \ {post}) = Cardinality(Waiting(what)) - 1
        BY <3>4, <3>5, FS_RemoveElement
      <3>7. Waiting(what)' \subseteq Waiting(what) \ {post}
        BY <1>3
      <3>8. /\ Cardinality(Waiting(what)') <= Cardinality(Waiting(what) \ {post})
            /\ Cardinality(Waiting(what)') \in Nat
        BY <3>6, <3>7, FS_Subset, FS_CardinalityType
      <3>9. Cardinality(Made(what)) + Cardinality(Waiting(what)) <= pressed[what]
        BY DEF PressesCount
      <3>10. pressed[what] \in Nat
        BY DEF FormTypeOK
      <3> QED
        BY <3>2, <3>3, <3>5, <3>6, <3>8, <3>9, <3>10
    <2> QED
      BY <2>2, <2>3, <2>4
  <1> QED
    BY <1>1, <1>3, <1>4 DEF PressesCount

LEMMA NextCounts ==
  ASSUME StoreInv, FormInv, PressesCount, [Next]_vars
  PROVE  PressesCount'
  <1>1. RowsGrow
    BY NextStores DEF FormInv
  <1>2. CASE \E post \in posts : CreateSubmission(post)
    BY <1>2, CreateCounts DEF FormInv
  <1>3. CASE Submit
    BY <1>3, SubmitCounts DEF FormInv
  <1>4. ASSUME ~(\E post \in posts : CreateSubmission(post)), ~Submit
        PROVE  PressesCount'
    <2>1. posts' \subseteq posts
      BY <1>4, PostsOfNext DEF vars, formVars
    <2>2. UNCHANGED pressed
      BY <1>4 DEF Next, vars, Type, PickLanguage, DropFile, FileLoaded, FileFails, PostFails,
             PostArrives, OpenTab, OpenSubmission, Judge, RenderReads, PageArrives, RenderFails,
             PollDetail, PollReads, PollArrives, PollFails, PollList, ListArrives, ListFails,
             formVars
    <2>3. UNCHANGED rows \/ \E id \in Ids : Judge(id)
      BY <1>4 DEF Next, vars, Type, PickLanguage, DropFile, FileLoaded, FileFails, PostFails,
             PostArrives, OpenTab, OpenSubmission, Judge, RenderReads, PageArrives, RenderFails,
             PollDetail, PollReads, PollArrives, PollFails, PollList, ListArrives, ListFails
    <2>4. DOMAIN rows' = DOMAIN rows
      BY <2>3, JudgedRow
    <2> QED
      BY <1>1, <2>1, <2>2, <2>4, CountStays DEF FormInv
  <1> QED
    BY <1>2, <1>3, <1>4

-----------------------------------------------------------------------------
(* The inductive invariant of the tab. *)
THEOREM TabInvariant == Spec => []IInv
  <1>1. Init => IInv
    BY StoreStarts, FormStarts, ReadStarts, CountStarts DEF IInv
  <1>2. IInv /\ [Next]_vars => IInv'
    BY NextStores, NextKeepsForm, NextReads, NextCounts DEF IInv, FormInv
  <1> QED
    BY <1>1, <1>2, PTL DEF Spec

(* A submission is what was on the screen at a press of Submit, in a       *)
(* language the problem takes, and no press makes two: each submission of  *)
(* a text, and each request that waits with it, has a press of its own.    *)
THEOREM NoPressMakesTwo == Spec => []PageInv
  <1>1. IInv => RowsComeFromPresses
    <2> SUFFICES ASSUME IInv, NEW what \in DOMAIN pressed
                 PROVE  /\ Cardinality(Made(what)) <= pressed[what]
                        /\ Made(what) # {} => what.language \in Accepted
      BY DEF RowsComeFromPresses, Made, What
    <2>1. Cardinality(Made(what)) <= pressed[what]
      <3>1. pressed[what] \in Nat
        BY DEF IInv, FormInv, FormTypeOK
      <3>2. Cardinality(Made(what)) \in Nat /\ Cardinality(Waiting(what)) \in Nat
        BY MadeIsFinite, WaitingIsFinite DEF IInv, PressesCount
      <3>3. Cardinality(Made(what)) + Cardinality(Waiting(what)) <= pressed[what]
        BY DEF IInv, PressesCount
      <3> QED
        BY <3>1, <3>2, <3>3
    <2>2. Made(what) # {} => what.language \in Accepted
      BY DEF IInv, StoreInv, Made, What
    <2> QED
      BY <2>1, <2>2
  <1>2. IInv => PageTypeOK
    BY TypeInParts DEF IInv, FormInv, ReadInv
  <1>3. IInv => PageInv
    BY <1>1, <1>2 DEF PageInv
  <1> QED
    BY <1>3, TabInvariant, PTL

(* No page shows a verdict without the tests behind it, though two         *)
(* statements read them with the judging in between, and a page may be     *)
(* rendered on the server while it is polled.                              *)
THEOREM VerdictsHaveTests == Spec => []FinalShowsTests
  <1>1. IInv => FinalShowsTests
    BY DEF IInv, ReadInv
  <1> QED
    BY <1>1, TabInvariant, PTL
=============================================================================
