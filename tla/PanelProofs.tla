----------------------------- MODULE PanelProofs -----------------------------
(***************************************************************************)
(* Theorems about the machine registry and the admin page, for any         *)
(* machines, runners, settings and presses: the registry keeps what its    *)
(* operator chose, and a settled page shows the machines as they are.      *)
(***************************************************************************)
EXTENDS AdminPanel, TLAPS

-----------------------------------------------------------------------------
(* The registry. *)

(* A machine nobody has listed was never switched nor dropped.             *)
UnknownIsNew == \A m \in Machines \ Known : chosen[m] = TRUE /\ m \notin dropped

RegistryInv == RegistryTypeOK /\ SyncKeepsChoices /\ UnknownIsNew

(* The registry starts empty. *)
LEMMA RegistryStarts == RegistryInit => RegistryInv
  <1> SUFFICES ASSUME RegistryInit PROVE RegistryInv
    OBVIOUS
  <1>1. RegistryTypeOK
    BY DEF RegistryInit, RegistryTypeOK, MachineRow, SyncState, NoRow
  <1>2. Known = {}
    BY DEF RegistryInit, Known, NoRow
  <1>3. SyncKeepsChoices /\ UnknownIsNew
    BY <1>2 DEF SyncKeepsChoices, UnknownIsNew, RegistryInit
  <1> QED
    BY <1>1, <1>3 DEF RegistryInv

(* What does not write the registry leaves it true. *)
LEMMA RegistryKept ==
  ASSUME RegistryInv, UNCHANGED registryVars
  PROVE  RegistryInv'
  BY DEF RegistryInv, RegistryTypeOK, SyncKeepsChoices, UnknownIsNew, registryVars, Known,
         Enabled

(* A sync that starts, or dies, touches no machine. *)
LEMMA RegistryReads ==
  ASSUME RegistryInv, NEW r \in Runners,
         (\E setting \in Settings : ReadSettings(r, setting)) \/ SyncDies(r)
  PROVE  RegistryInv'
  <1>1. machine' = machine /\ chosen' = chosen /\ dropped' = dropped
    BY DEF ReadSettings, SyncDies
  <1>2. sync' \in [Runners -> SyncState]
    <2>1. CASE SyncDies(r)
      BY <2>1 DEF SyncDies, RegistryInv, RegistryTypeOK, SyncState
    <2>2. ASSUME NEW setting \in Settings, ReadSettings(r, setting)
          PROVE  sync' \in [Runners -> SyncState]
      <3>1. setting = Unreadable \/ setting \in SUBSET Machines
        BY SettingsAssumption
      <3> QED
        BY <2>2, <3>1 DEF ReadSettings, RegistryInv, RegistryTypeOK, SyncState
    <2> QED
      BY <2>1, <2>2
  <1> QED
    BY <1>1, <1>2 DEF RegistryInv, RegistryTypeOK, SyncKeepsChoices, UnknownIsNew, Known, Enabled

(* The upsert leaves a known row alone, and turns a new one on. *)
LEMMA RegistryUpserts ==
  ASSUME RegistryInv, NEW r \in Runners, UpsertListed(r)
  PROVE  RegistryInv'
  <1> USE DEF RegistryInv
  <1>1. machine \in [Machines -> MachineRow] /\ sync \in [Runners -> SyncState]
    BY DEF RegistryTypeOK
  <1>2. machine' \in [Machines -> MachineRow]
    BY <1>1 DEF UpsertListed, Upserted, NewRow, MachineRow
  <1>3. RegistryTypeOK'
    BY <1>1, <1>2 DEF UpsertListed, RegistryTypeOK, SyncState
  <1>4. ASSUME NEW m \in Machines
        PROVE  /\ m \in Known => m \in Known' /\ machine'[m] = machine[m]
               /\ m \notin Known => machine'[m] \in {machine[m], NewRow}
    BY <1>1 DEF UpsertListed, Upserted, Known
  <1>5. chosen' = chosen /\ dropped' = dropped
    BY DEF UpsertListed
  <1>6. ASSUME NEW m \in Known'
        PROVE  machine'[m].enabled = IF m \in dropped THEN FALSE ELSE chosen[m]
    <2>1. m \in Machines
      BY DEF Known
    <2>2. CASE m \in Known
      BY <2>1, <2>2, <1>4 DEF SyncKeepsChoices, Enabled
    <2>3. CASE m \notin Known
      <3>1. chosen[m] = TRUE /\ m \notin dropped
        BY <2>1, <2>3 DEF UnknownIsNew
      <3>2. machine'[m] = NewRow
        BY <2>1, <2>3, <1>4 DEF Known
      <3>3. machine'[m].enabled = TRUE
        BY <3>2 DEF NewRow
      <3> QED
        BY <3>1, <3>3, Zenon
    <2> QED
      BY <2>2, <2>3
  <1>7. SyncKeepsChoices'
    BY <1>5, <1>6 DEF SyncKeepsChoices, Enabled
  <1>8. UnknownIsNew'
    BY <1>4, <1>5 DEF UnknownIsNew, Known
  <1> QED
    BY <1>3, <1>7, <1>8

(* What a list leaves out is off, and counts as dropped. *)
LEMMA RegistryRetires ==
  ASSUME RegistryInv, NEW r \in Runners, RetireDropped(r)
  PROVE  RegistryInv'
  <1> USE DEF RegistryInv
  <1>1. machine \in [Machines -> MachineRow] /\ sync \in [Runners -> SyncState]
    BY DEF RegistryTypeOK
  <1>2. machine' \in [Machines -> MachineRow]
    BY <1>1 DEF RetireDropped, RetiredRow, MachineRow
  <1>3. RegistryTypeOK'
    BY <1>1, <1>2 DEF RetireDropped, RegistryTypeOK, SyncState, Known
  <1>4. ASSUME NEW m \in Machines
        PROVE  /\ m \in Known' <=> m \in Known
               /\ m \in Known \ sync[r].names => ~machine'[m].enabled
               /\ m \notin Known \ sync[r].names => machine'[m] = machine[m]
    BY <1>1 DEF RetireDropped, RetiredRow, Known, DroppedBy, Enabled, MachineRow
  <1>5. ASSUME NEW m \in Known' PROVE Enabled(m)' = IF m \in dropped' THEN FALSE ELSE chosen'[m]
    <2>1. m \in Known /\ m \in Machines /\ machine'[m].enabled \in BOOLEAN
      BY <1>2, <1>4 DEF Known, MachineRow
    <2>2. CASE m \in sync[r].names
      BY <2>1, <2>2, <1>4 DEF RetireDropped, SyncKeepsChoices, Enabled
    <2>3. CASE m \notin sync[r].names
      BY <2>1, <2>3, <1>4 DEF RetireDropped, Enabled
    <2> QED
      BY <2>2, <2>3
  <1>6. UnknownIsNew'
    BY <1>4 DEF UnknownIsNew, RetireDropped, Known
  <1> QED
    BY <1>3, <1>5, <1>6 DEF SyncKeepsChoices

(* The operator's switch is the choice. *)
LEMMA RegistrySaves ==
  ASSUME RegistryInv, NEW m \in Machines, NEW value \in BOOLEAN, SaveEnabled(m, value)
  PROVE  RegistryInv'
  <1> USE DEF RegistryInv
  <1>1. machine \in [Machines -> MachineRow] /\ chosen \in [Machines -> BOOLEAN]
    BY DEF RegistryTypeOK
  <1>2. machine' = [machine EXCEPT ![m] = [machine[m] EXCEPT !.enabled = value]]
    BY DEF SaveEnabled
  <1>3. machine' \in [Machines -> MachineRow]
    BY <1>1, <1>2 DEF MachineRow
  <1>4. RegistryTypeOK'
    BY <1>1, <1>3 DEF SaveEnabled, RegistryTypeOK
  <1>5. /\ Known' = Known /\ machine'[m].enabled = value
        /\ \A n \in Machines \ {m} : machine'[n] = machine[n]
    BY <1>1, <1>2 DEF Known, MachineRow
  <1>6. ASSUME NEW n \in Known' PROVE Enabled(n)' = IF n \in dropped' THEN FALSE ELSE chosen'[n]
    <2>1. n \in Known /\ n \in Machines
      BY <1>5 DEF Known
    <2>2. CASE n = m
      BY <2>1, <2>2, <1>1, <1>5 DEF SaveEnabled, Enabled
    <2>3. CASE n # m
      BY <2>1, <2>3, <1>1, <1>5 DEF SaveEnabled, Enabled, SyncKeepsChoices
    <2> QED
      BY <2>2, <2>3
  <1>7. UnknownIsNew'
    BY <1>1, <1>5 DEF UnknownIsNew, SaveEnabled
  <1> QED
    BY <1>4, <1>6, <1>7 DEF SyncKeepsChoices

-----------------------------------------------------------------------------
(* The page.                                                               *)

CacheTypeOK ==
  /\ batch \in Statuses /\ status \in Statuses
  /\ list \in [Machines -> Shown]
  /\ fetch \in [Queries -> FetchState]
  /\ broken \in SUBSET Queries

PressTypeOK ==
  /\ switch \in [Machines -> SwitchState]
  /\ press \in [Buttons -> {"idle", "asked", "done"}]
  /\ visible \in BOOLEAN
  /\ elsewhere \in SUBSET Machines
  /\ starts \in Nat /\ clicks \in Nat /\ faults \in Nat

(* Answer and cache: while a switch rests, what was read of its machine is *)
(* what the database has, unless somebody else has changed it since; and   *)
(* so is what the page shows, while all of them rest and nothing is read.  *)
AnswerIsTrue ==
  fetch["machines"].at = "answered" =>
    \A m \in Machines \ elsewhere :
      switch[m].at = "idle" => fetch["machines"].list[m] = ShownRow(m)

Rests ==
  /\ fetch["machines"].at = "none"
  /\ "machines" \notin broken
  /\ \A m \in Machines : switch[m].at = "idle"

CacheIsTrue == Rests => \A m \in Machines \ elsewhere : list[m] = ShownRow(m)

PageInv == CacheTypeOK /\ PressTypeOK /\ AnswerIsTrue /\ CacheIsTrue

LEMMA TypeInParts == PanelTypeOK <=> RegistryTypeOK /\ CacheTypeOK /\ PressTypeOK
  BY DEF PanelTypeOK, CacheTypeOK, PressTypeOK

(* What the page would show of a machine is one of three things.           *)
LEMMA RowsType == Rows \in [Machines -> Shown]
  BY DEF Rows, ShownRow, Shown

LEMMA RowsOfMachine == \A m \in Machines : Rows[m] = ShownRow(m)
  BY DEF Rows

(* A row that was not written is shown as before.                          *)
LEMMA ShownAsBefore ==
  ASSUME NEW m, machine'[m] = machine[m]
  PROVE  ShownRow(m)' = ShownRow(m)
  BY DEF ShownRow, Enabled

LEMMA PageStarts == Init => PageInv
  <1> SUFFICES ASSUME Init PROVE PageInv
    OBVIOUS
  <1>1. CacheTypeOK
    BY DEF Init, CacheTypeOK, Statuses, NoList, Shown, FetchState, NoFetch
  <1>2. PressTypeOK
    BY DEF Init, PressTypeOK, SwitchState, NoSwitch, NoList, Shown
  <1>3. AnswerIsTrue
    BY DEF Init, AnswerIsTrue, NoFetch, Queries
  <1>4. CacheIsTrue
    BY DEF Init, CacheIsTrue, RegistryInit, NoRow, NoList, ShownRow
  <1> QED
    BY <1>1, <1>2, <1>3, <1>4 DEF PageInv

-----------------------------------------------------------------------------
(* Reads.                                                                  *)

(* A read asked for is typed, answers nothing yet, and is not at rest.     *)
LEMMA AskedType ==
  ASSUME fetch \in [Queries -> FetchState], NEW q \in Queries
  PROVE  /\ Asked(q) \in [Queries -> FetchState]
         /\ Asked(q)[q].at = "asked"
         /\ \A p \in Queries \ {q} : Asked(q)[p] = fetch[p]
  <1>1. [NoFetch EXCEPT !.at = "asked"] \in FetchState
    BY DEF NoFetch, FetchState, NoList, Shown, Statuses
  <1>2. [NoFetch EXCEPT !.at = "asked"].at = "asked"
    BY DEF NoFetch
  <1> QED
    BY <1>1, <1>2 DEF Asked

LEMMA PollKeeps ==
  ASSUME PageInv, NEW q \in Queries, Poll(q)
  PROVE  PageInv'
  <1> USE DEF PageInv
  <1>1. fetch' \in [Queries -> FetchState] /\ fetch'[q].at = "asked"
        /\ \A p \in Queries \ {q} : fetch'[p] = fetch[p]
    BY AskedType DEF Poll, CacheTypeOK
  <1>2. machine' = machine /\ switch' = switch /\ elsewhere' = elsewhere /\ list' = list
        /\ broken' = broken
    BY DEF Poll, registryVars
  <1>3. CacheTypeOK'
    BY <1>1 DEF Poll, CacheTypeOK
  <1>4. PressTypeOK'
    BY DEF Poll, PressTypeOK
  <1>5. AnswerIsTrue'
    BY <1>1, <1>2, ShownAsBefore DEF AnswerIsTrue, Queries
  <1>6. CacheIsTrue'
    BY <1>1, <1>2, ShownAsBefore DEF CacheIsTrue, Rests, Queries
  <1> QED
    BY <1>3, <1>4, <1>5, <1>6

LEMMA AnswerFetchKeeps ==
  ASSUME PageInv, NEW q \in Queries, AnswerFetch(q)
  PROVE  PageInv'
  <1> USE DEF PageInv
  <1> DEFINE answer == IF q = "machines" THEN [NoFetch EXCEPT !.at = "answered", !.list = Rows]
                       ELSE [NoFetch EXCEPT !.at = "answered", !.status = batch]
  <1>1. answer \in FetchState /\ answer.at = "answered"
        /\ (q = "machines" => answer.list = Rows)
    <2>1. NoFetch \in FetchState /\ batch \in Statuses
      BY DEF NoFetch, FetchState, NoList, Shown, Statuses, CacheTypeOK
    <2> QED
      BY <2>1, RowsType DEF FetchState, NoFetch
  <1>2. fetch' = [fetch EXCEPT ![q] = answer]
    BY DEF AnswerFetch
  <1> HIDE DEF answer
  <1>3. /\ fetch' \in [Queries -> FetchState] /\ fetch'[q] = answer
        /\ \A p \in Queries \ {q} : fetch'[p] = fetch[p]
    BY <1>1, <1>2 DEF CacheTypeOK
  <1>4. machine' = machine /\ switch' = switch /\ list' = list /\ broken' = broken
    BY DEF AnswerFetch, registryVars
  <1>5. CacheTypeOK'
    BY <1>3 DEF AnswerFetch, CacheTypeOK
  <1>6. PressTypeOK'
    BY DEF AnswerFetch, PressTypeOK
  <1>7. AnswerIsTrue'
    <2>1. CASE q = "machines"
      BY <2>1, <1>1, <1>3, <1>4, RowsOfMachine, ShownAsBefore DEF AnswerIsTrue
    <2>2. CASE q # "machines"
      <3>1. fetch'["machines"] = fetch["machines"] /\ elsewhere' = elsewhere
        BY <2>2, <1>3 DEF Queries, AnswerFetch
      <3> QED
        BY <3>1, <1>4, ShownAsBefore DEF AnswerIsTrue
    <2> QED
      BY <2>1, <2>2
  <1>8. CacheIsTrue'
    <2>1. CASE q = "machines"
      BY <2>1, <1>1, <1>3 DEF CacheIsTrue, Rests
    <2>2. CASE q # "machines"
      <3>1. fetch'["machines"] = fetch["machines"] /\ elsewhere' = elsewhere
        BY <2>2, <1>3 DEF Queries, AnswerFetch
      <3> QED
        BY <3>1, <1>4, ShownAsBefore DEF CacheIsTrue, Rests
    <2> QED
      BY <2>1, <2>2
  <1> QED
    BY <1>5, <1>6, <1>7, <1>8

LEMMA NoFetchType == NoFetch \in FetchState /\ NoFetch.at = "none"
  BY DEF NoFetch, FetchState, NoList, Shown, Statuses

LEMMA FetchArrivesKeeps ==
  ASSUME PageInv, NEW q \in Queries, FetchArrives(q)
  PROVE  PageInv'
  <1> USE DEF PageInv
  <1>1. /\ fetch' \in [Queries -> FetchState] /\ fetch'[q].at = "none"
        /\ \A p \in Queries \ {q} : fetch'[p] = fetch[p]
    BY NoFetchType DEF FetchArrives, CacheTypeOK
  <1>2. machine' = machine /\ switch' = switch /\ elsewhere' = elsewhere
    BY DEF FetchArrives, registryVars
  <1>3. CacheTypeOK'
    <2>1. fetch[q].list \in [Machines -> Shown] /\ fetch[q].status \in Statuses
      BY DEF CacheTypeOK, FetchState
    <2> QED
      BY <2>1, <1>1 DEF FetchArrives, CacheTypeOK
  <1>4. PressTypeOK'
    BY DEF FetchArrives, PressTypeOK
  <1>5. AnswerIsTrue'
    BY <1>1, <1>2, ShownAsBefore DEF AnswerIsTrue, Queries
  <1>6. CacheIsTrue'
    <2>1. CASE q = "machines"
      <3>1. list' = fetch["machines"].list /\ fetch["machines"].at = "answered"
        BY <2>1 DEF FetchArrives
      <3> QED
        BY <3>1, <1>2, ShownAsBefore DEF AnswerIsTrue, CacheIsTrue, Rests
    <2>2. CASE q # "machines"
      <3>1. /\ fetch'["machines"] = fetch["machines"] /\ list' = list
            /\ "machines" \in broken => "machines" \in broken'
        BY <2>2, <1>1 DEF Queries, FetchArrives
      <3> QED
        BY <3>1, <1>2, ShownAsBefore DEF CacheIsTrue, Rests
    <2> QED
      BY <2>1, <2>2
  <1> QED
    BY <1>3, <1>4, <1>5, <1>6

LEMMA FetchFailsKeeps ==
  ASSUME PageInv, NEW q \in Queries, FetchFails(q)
  PROVE  PageInv'
  <1> USE DEF PageInv
  <1>1. /\ fetch' \in [Queries -> FetchState] /\ fetch'[q].at = "none"
        /\ \A p \in Queries \ {q} : fetch'[p] = fetch[p]
    BY NoFetchType DEF FetchFails, CacheTypeOK
  <1>2. /\ machine' = machine /\ switch' = switch /\ elsewhere' = elsewhere /\ list' = list
        /\ broken' = broken \union {q}
    BY DEF FetchFails, registryVars
  <1>3. CacheTypeOK'
    BY <1>1, <1>2 DEF FetchFails, CacheTypeOK
  <1>4. PressTypeOK'
    BY DEF FetchFails, Fault, PressTypeOK
  <1>5. AnswerIsTrue'
    BY <1>1, <1>2, ShownAsBefore DEF AnswerIsTrue, Queries
  <1>6. CacheIsTrue'
    BY <1>1, <1>2, ShownAsBefore DEF CacheIsTrue, Rests, Queries
  <1> QED
    BY <1>3, <1>4, <1>5, <1>6

-----------------------------------------------------------------------------
(* The switches.                                                           *)

LEMMA NoSwitchType == NoSwitch \in SwitchState /\ NoSwitch.at = "idle"
  BY DEF NoSwitch, SwitchState, NoList, Shown

(* Until it settles a switch that was pressed is not at rest.              *)
LEMMA ClickSwitchKeeps ==
  ASSUME PageInv, NEW m \in Machines, ClickSwitch(m)
  PROVE  PageInv'
  <1> USE DEF PageInv
  <1>1. /\ fetch' \in [Queries -> FetchState] /\ fetch'["machines"].at = "none"
    BY NoFetchType DEF ClickSwitch, CacheTypeOK, Queries
  <1>2. switch' \in [Machines -> SwitchState] /\ switch'[m].at = "asked"
    BY DEF ClickSwitch, PressTypeOK, CacheTypeOK, SwitchState
  <1>3. CacheTypeOK'
    BY <1>1 DEF ClickSwitch, CacheTypeOK, Flipped, Shown
  <1>4. PressTypeOK'
    BY <1>2 DEF ClickSwitch, Click, PressTypeOK
  <1>5. AnswerIsTrue'
    BY <1>1 DEF AnswerIsTrue
  <1>6. CacheIsTrue'
    BY <1>2 DEF CacheIsTrue, Rests
  <1> QED
    BY <1>3, <1>4, <1>5, <1>6

LEMMA ServeSwitchKeeps ==
  ASSUME PageInv, NEW m \in Machines, ServeSwitch(m)
  PROVE  PageInv'
  <1> USE DEF PageInv
  <1>1. /\ switch' \in [Machines -> SwitchState] /\ switch'[m].at = "saved"
        /\ \A n \in Machines \ {m} : switch'[n] = switch[n]
    BY DEF ServeSwitch, PressTypeOK, SwitchState
  <1>2. \A n \in Machines \ {m} : machine'[n] = machine[n]
    BY DEF ServeSwitch, SaveEnabled
  <1>3. fetch' = fetch /\ elsewhere' = elsewhere
    BY DEF ServeSwitch
  <1>4. CacheTypeOK'
    BY DEF ServeSwitch, CacheTypeOK
  <1>5. PressTypeOK'
    BY <1>1 DEF ServeSwitch, PressTypeOK
  <1>6. AnswerIsTrue'
    BY <1>1, <1>2, <1>3, ShownAsBefore DEF AnswerIsTrue
  <1>7. CacheIsTrue'
    BY <1>1 DEF CacheIsTrue, Rests
  <1> QED
    BY <1>4, <1>5, <1>6, <1>7

LEMMA LoseSwitchKeeps ==
  ASSUME PageInv, NEW m \in Machines, LoseSwitch(m)
  PROVE  PageInv'
  <1> USE DEF PageInv
  <1>1. /\ switch' \in [Machines -> SwitchState] /\ switch'[m].at = "failed"
        /\ \A n \in Machines \ {m} : switch'[n] = switch[n]
    BY DEF LoseSwitch, PressTypeOK, SwitchState
  <1>2. machine' = machine /\ fetch' = fetch /\ elsewhere' = elsewhere
    BY DEF LoseSwitch, registryVars
  <1>3. CacheTypeOK'
    BY DEF LoseSwitch, CacheTypeOK
  <1>4. PressTypeOK'
    BY <1>1 DEF LoseSwitch, Fault, PressTypeOK
  <1>5. AnswerIsTrue'
    BY <1>1, <1>2, ShownAsBefore DEF AnswerIsTrue
  <1>6. CacheIsTrue'
    BY <1>1 DEF CacheIsTrue, Rests
  <1> QED
    BY <1>3, <1>4, <1>5, <1>6

(* Whatever was put back into the list is read over.                       *)
LEMMA SettleSwitchKeeps ==
  ASSUME PageInv, NEW m \in Machines, SettleSwitch(m)
  PROVE  PageInv'
  <1> USE DEF PageInv
  <1>1. fetch' \in [Queries -> FetchState] /\ fetch'["machines"].at = "asked"
    BY AskedType DEF SettleSwitch, AfterSettling, Invalidate, CacheTypeOK, Queries
  <1>2. switch' \in [Machines -> SwitchState]
    BY NoSwitchType DEF SettleSwitch, PressTypeOK
  <1>3. CacheTypeOK'
    <2>1. switch[m].before \in [Machines -> Shown]
      BY DEF PressTypeOK, SwitchState
    <2> QED
      BY <1>1, <2>1 DEF SettleSwitch, CacheTypeOK
  <1>4. PressTypeOK'
    BY <1>2 DEF SettleSwitch, PressTypeOK
  <1>5. AnswerIsTrue' /\ CacheIsTrue'
    BY <1>1 DEF AnswerIsTrue, CacheIsTrue, Rests
  <1> QED
    BY <1>3, <1>4, <1>5

-----------------------------------------------------------------------------
(* The buttons, the tab and the batch: none of them touches a machine.     *)

MachinesAlone ==
  UNCHANGED <<machine, list, switch, elsewhere>> /\ fetch'["machines"] = fetch["machines"]
    /\ UNCHANGED broken

LEMMA AloneKeeps ==
  ASSUME AnswerIsTrue, CacheIsTrue, MachinesAlone
  PROVE  AnswerIsTrue' /\ CacheIsTrue'
  BY ShownAsBefore DEF AnswerIsTrue, CacheIsTrue, Rests, MachinesAlone

LEMMA PressButtonKeeps ==
  ASSUME PageInv, NEW b \in Buttons, PressButton(b) \/ ServeButton(b) \/ LoseButton(b)
  PROVE  PageInv'
  <1> USE DEF PageInv
  <1>1. MachinesAlone
    BY DEF PressButton, ServeButton, LoseButton, MachinesAlone, registryVars
  <1>2. CacheTypeOK'
    BY DEF PressButton, ServeButton, LoseButton, CacheTypeOK, Statuses
  <1>3. PressTypeOK'
    BY DEF PressButton, ServeButton, LoseButton, PressTypeOK, Click, Fault
  <1> QED
    BY <1>1, <1>2, <1>3, AloneKeeps

LEMMA SettleButtonKeeps ==
  ASSUME PageInv, NEW b \in Buttons, SettleButton(b)
  PROVE  PageInv'
  <1> USE DEF PageInv
  <1>1. fetch' \in [Queries -> FetchState] /\ fetch'["machines"] = fetch["machines"]
    BY AskedType DEF SettleButton, Invalidate, CacheTypeOK, Queries
  <1>2. MachinesAlone
    BY <1>1 DEF SettleButton, MachinesAlone, registryVars
  <1>3. CacheTypeOK'
    BY <1>1 DEF SettleButton, CacheTypeOK
  <1>4. PressTypeOK'
    BY DEF SettleButton, PressTypeOK
  <1> QED
    BY <1>2, <1>3, <1>4, AloneKeeps

LEMMA TabAndBatchKeep ==
  ASSUME PageInv, LookAway \/ BatchEndsItself
  PROVE  PageInv'
  <1> USE DEF PageInv
  <1>1. MachinesAlone
    BY DEF LookAway, BatchEndsItself, MachinesAlone, registryVars, panelVars
  <1>2. CacheTypeOK'
    BY DEF LookAway, BatchEndsItself, CacheTypeOK, panelVars, Statuses
  <1>3. PressTypeOK'
    BY DEF LookAway, BatchEndsItself, PressTypeOK, panelVars
  <1> QED
    BY <1>1, <1>2, <1>3, AloneKeeps

-----------------------------------------------------------------------------
(* Others.                                                                 *)

LEMMA RunnerStartsKeeps ==
  ASSUME PageInv, RegistryTypeOK, NEW r \in Runners, RunnerStarts(r)
  PROVE  PageInv'
  <1> USE DEF PageInv
  <1>1. CacheTypeOK'
    BY DEF RunnerStarts, panelVars, CacheTypeOK
  <1>2. PressTypeOK'
    BY DEF RunnerStarts, ReadsSettings, WritesRegistry, ChangedRows, panelVars, PressTypeOK
  <1>3. /\ elsewhere \subseteq elsewhere'
        /\ \A m \in Machines \ elsewhere' : machine'[m] = machine[m]
    BY DEF RunnerStarts, ReadsSettings, ReadSettings, WritesRegistry, ChangedRows
  <1>4. fetch' = fetch /\ switch' = switch /\ list' = list /\ broken' = broken
    BY DEF RunnerStarts, panelVars
  <1>5. AnswerIsTrue'
    BY <1>3, <1>4, ShownAsBefore DEF AnswerIsTrue
  <1>6. CacheIsTrue'
    BY <1>3, <1>4, ShownAsBefore DEF CacheIsTrue, Rests
  <1> QED
    BY <1>1, <1>2, <1>5, <1>6

LEMMA SyncFailsKeeps ==
  ASSUME PageInv, NEW r \in Runners, SyncFails(r)
  PROVE  PageInv'
  <1> USE DEF PageInv
  <1>1. MachinesAlone
    BY DEF SyncFails, SyncDies, MachinesAlone, panelVars
  <1>2. CacheTypeOK' /\ PressTypeOK'
    BY DEF SyncFails, Fault, CacheTypeOK, PressTypeOK, panelVars
  <1> QED
    BY <1>1, <1>2, AloneKeeps

-----------------------------------------------------------------------------
(* The whole. *)

IInv == RegistryInv /\ PageInv

LEMMA NextKeepsRegistry ==
  ASSUME IInv, Next
  PROVE  RegistryInv'
  <1>1. CASE UNCHANGED registryVars
    BY <1>1, RegistryKept DEF IInv
  <1>2. ASSUME NEW m \in Machines, ServeSwitch(m) PROVE RegistryInv'
    <2>1. switch[m].ask \in BOOLEAN
      BY DEF IInv, PageInv, PressTypeOK, SwitchState
    <2> QED
      BY <1>2, <2>1, RegistrySaves DEF IInv, ServeSwitch
  <1>3. ASSUME NEW r \in Runners, RunnerStarts(r) \/ SyncFails(r) PROVE RegistryInv'
    BY <1>3, RegistryReads, RegistryUpserts, RegistryRetires
       DEF IInv, RunnerStarts, ReadsSettings, WritesRegistry, SyncStep, SyncFails
  <1>4. \/ UNCHANGED registryVars
        \/ \E m \in Machines : ServeSwitch(m)
        \/ \E r \in Runners : RunnerStarts(r) \/ SyncFails(r)
    BY DEF Next, PanelStep, Poll, AnswerFetch, FetchArrives, FetchFails, ClickSwitch, LoseSwitch,
           SettleSwitch, PressButton, ServeButton, SettleButton, LoseButton, BatchEndsItself,
           LookAway
  <1> QED
    BY <1>1, <1>2, <1>3, <1>4

LEMMA NextKeepsPage ==
  ASSUME IInv, Next
  PROVE  PageInv'
  <1> USE DEF IInv
  <1>1. ASSUME NEW q \in Queries, Poll(q) \/ AnswerFetch(q) \/ FetchArrives(q) \/ FetchFails(q)
        PROVE  PageInv'
    BY <1>1, PollKeeps, AnswerFetchKeeps, FetchArrivesKeeps, FetchFailsKeeps
  <1>2. ASSUME NEW m \in Machines,
               ClickSwitch(m) \/ ServeSwitch(m) \/ LoseSwitch(m) \/ SettleSwitch(m)
        PROVE  PageInv'
    BY <1>2, ClickSwitchKeeps, ServeSwitchKeeps, LoseSwitchKeeps, SettleSwitchKeeps
  <1>3. ASSUME NEW b \in Buttons,
               PressButton(b) \/ ServeButton(b) \/ LoseButton(b) \/ SettleButton(b)
        PROVE  PageInv'
    BY <1>3, PressButtonKeeps, SettleButtonKeeps
  <1>4. ASSUME NEW r \in Runners, RunnerStarts(r) \/ SyncFails(r)
        PROVE  PageInv'
    BY <1>4, RunnerStartsKeeps, SyncFailsKeeps DEF RegistryInv
  <1>5. CASE BatchEndsItself \/ LookAway
    BY <1>5, TabAndBatchKeep
  <1> QED
    BY <1>1, <1>2, <1>3, <1>4, <1>5 DEF Next, PanelStep

LEMMA StutterKeeps ==
  ASSUME IInv, UNCHANGED vars
  PROVE  IInv'
  <1>1. RegistryInv'
    BY RegistryKept DEF IInv, vars
  <1>2. CacheTypeOK' /\ PressTypeOK'
    BY DEF IInv, PageInv, CacheTypeOK, PressTypeOK, vars, panelVars
  <1>3. MachinesAlone
    BY DEF vars, panelVars, registryVars, MachinesAlone
  <1> QED
    BY <1>1, <1>2, <1>3, AloneKeeps DEF IInv, PageInv

(* The inductive invariant of the page and its registry. *)
THEOREM PanelInvariant == Spec => []IInv
  <1>1. Init => IInv
    BY RegistryStarts, PageStarts DEF Init, IInv
  <1>2. IInv /\ [Next]_vars => IInv'
    BY NextKeepsRegistry, NextKeepsPage, StutterKeeps DEF IInv
  <1> QED
    BY <1>1, <1>2, PTL DEF Spec

(* The registry keeps the operator's choices through any number of         *)
(* startups, whatever their settings and wherever they were cut short, and *)
(* the page keeps its types.                                               *)
THEOREM RegistryKeepsChoices == Spec => []FleetInv
  <1>1. IInv => FleetInv
    BY TypeInParts DEF IInv, RegistryInv, PageInv, FleetInv
  <1> QED
    BY <1>1, PanelInvariant, PTL

(* A settled page shows each machine as the database has it, unless        *)
(* somebody else changed it since the list was read: however many switches *)
(* were pressed at once, failed, put an old list back or crossed a poll.   *)
THEOREM SettledSwitchesAreTrue == Spec => []SettledPanelIsTrue
  <1>1. IInv => SettledPanelIsTrue
    BY DEF IInv, PageInv, CacheIsTrue, Rests, SettledPanelIsTrue, Settled
  <1> QED
    BY <1>1, PanelInvariant, PTL
=============================================================================
