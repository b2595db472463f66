------------------------------ MODULE AdminPanel ------------------------------
(***************************************************************************)
(* One admin page open in a browser: its cached copies of the machine list *)
(* and of the batch status, the polls that refresh them, the switch of     *)
(* each machine with its optimistic update, and the buttons that start and *)
(* stop a batch (admin-panel.tsx, machine-toggle.tsx, batch-panel.tsx).    *)
(* The registry behind it is changed by others as well.  Throughput is a   *)
(* third cached read of the same kind, which nothing writes; it is left    *)
(* out.                                                                    *)
(***************************************************************************)
EXTENDS MachineRegistry

CONSTANTS
  MaxStarts,     \* starts of a runner (a bound for model checking)
  MaxClicks,     \* presses of a button (a bound for model checking)
  MaxFaults      \* requests and syncs that fail (a bound for model checking)

ASSUME BoundsAssumption == MaxStarts \in Nat /\ MaxClicks \in Nat /\ MaxFaults \in Nat

VARIABLES
  batch,       \* the status of the newest batch in the database
  list,        \* cached machine list: what the page shows of each machine
  status,      \* cached batch status
  fetch,       \* the read of each query that is under way
  broken,      \* queries whose last read failed
  switch,      \* the mutation of each machine's switch
  press,       \* the mutation of each batch button
  visible,     \* whether the tab is looked at
  elsewhere,   \* machines somebody else changed since the list was last read
  starts,
  clicks,
  faults

panelVars == <<list, status, fetch, broken, switch, press, visible>>
vars == <<registryVars, batch, panelVars, elsewhere, starts, clicks, faults>>

Shown == {"absent", "on", "off"}
Statuses == {"none", "running", "over"}
Queries == {"machines", "batch"}
Buttons == {"start", "stop"}

NoList == [m \in Machines |-> "absent"]

FetchState ==
  [at : {"none", "asked", "answered"}, list : [Machines -> Shown], status : Statuses]
SwitchState ==
  [at : {"idle", "asked", "saved", "failed"}, ask : BOOLEAN, before : [Machines -> Shown]]

PanelTypeOK ==
  /\ RegistryTypeOK
  /\ batch \in Statuses /\ status \in Statuses
  /\ list \in [Machines -> Shown]
  /\ fetch \in [Queries -> FetchState]
  /\ broken \in SUBSET Queries
  /\ switch \in [Machines -> SwitchState]
  /\ press \in [Buttons -> {"idle", "asked", "done"}]
  /\ visible \in BOOLEAN
  /\ elsewhere \in SUBSET Machines
  /\ starts \in Nat /\ clicks \in Nat /\ faults \in Nat

NoFetch == [at |-> "none", list |-> NoList, status |-> "none"]
NoSwitch == [at |-> "idle", ask |-> FALSE, before |-> NoList]

ShownRow(m) == IF ~machine[m].known THEN "absent" ELSE IF Enabled(m) THEN "on" ELSE "off"
Rows == [m \in Machines |-> ShownRow(m)]

(* The server renders the page with both queries prefetched. *)
Init ==
  /\ RegistryInit
  /\ batch = "none"
  /\ list = NoList /\ status = "none"
  /\ fetch = [q \in Queries |-> NoFetch]
  /\ broken = {}
  /\ switch = [m \in Machines |-> NoSwitch]
  /\ press = [b \in Buttons |-> "idle"]
  /\ visible = TRUE
  /\ elsewhere = {}
  /\ starts = 0 /\ clicks = 0 /\ faults = 0

Fault == faults < MaxFaults /\ faults' = faults + 1
Click == clicks < MaxClicks /\ clicks' = clicks + 1

-----------------------------------------------------------------------------
(* Reads (TanStack Query).  A TRPCClientError is not retried.              *)

Asked(q) == [fetch EXCEPT ![q] = [NoFetch EXCEPT !.at = "asked"]]

(* Mistaken: the page goes on polling only while a batch runs. *)
PollsInBatch(q) == visible /\ status = "running"

(* refetchInterval: a second or eight apart, and off in a hidden tab. *)
Polls(q) == visible

Poll(q) ==
  /\ Polls(q)
  /\ fetch[q].at = "none"
  /\ fetch' = Asked(q)
  /\ UNCHANGED <<registryVars, batch, list, status, broken, switch, press, visible,
                 elsewhere, starts, clicks, faults>>

AnswerFetch(q) ==
  /\ fetch[q].at = "asked"
  /\ fetch' = [fetch EXCEPT ![q] =
       IF q = "machines" THEN [NoFetch EXCEPT !.at = "answered", !.list = Rows]
                         ELSE [NoFetch EXCEPT !.at = "answered", !.status = batch]]
  /\ elsewhere' = IF q = "machines" THEN {} ELSE elsewhere
  /\ UNCHANGED <<registryVars, batch, list, status, broken, switch, press, visible, starts,
                 clicks, faults>>

FetchArrives(q) ==
  /\ fetch[q].at = "answered"
  /\ list' = IF q = "machines" THEN fetch[q].list ELSE list
  /\ status' = IF q = "batch" THEN fetch[q].status ELSE status
  /\ fetch' = [fetch EXCEPT ![q] = NoFetch]
  /\ broken' = broken \ {q}
  /\ UNCHANGED <<registryVars, batch, switch, press, visible, elsewhere, starts, clicks, faults>>

FetchFails(q) ==
  /\ Fault
  /\ fetch[q].at # "none"
  /\ fetch' = [fetch EXCEPT ![q] = NoFetch]
  /\ broken' = broken \union {q}
  /\ UNCHANGED <<registryVars, batch, list, status, switch, press, visible,
                 elsewhere, starts, clicks>>

(* A read that is under way is given up and asked again, whether or not    *)
(* the tab is looked at.                                                   *)
Invalidate(q) == fetch' = Asked(q)

LookAway ==
  /\ visible' = ~visible
  /\ UNCHANGED <<registryVars, batch, list, status, fetch, broken, switch, press,
                 elsewhere, starts, clicks, faults>>

(* What there is to press: nothing while a query is in error. *)
Usable == visible /\ broken = {}

-----------------------------------------------------------------------------
(* MachineToggle.  onMutate: the read under way is cancelled, the whole    *)
(* list remembered, the switch flipped in the cache.                       *)

Flipped(shown) == IF shown = "on" THEN "off" ELSE "on"

ClickSwitch(m) ==
  /\ Click
  /\ Usable
  /\ list[m] # "absent"
  /\ switch[m].at = "idle"
  /\ switch' = [switch EXCEPT ![m] =
       [at |-> "asked", ask |-> list[m] = "off", before |-> list]]
  /\ list' = [list EXCEPT ![m] = Flipped(@)]
  /\ fetch' = [fetch EXCEPT !["machines"] = NoFetch]
  /\ UNCHANGED <<registryVars, batch, status, broken, press, visible, elsewhere, starts, faults>>

ServeSwitch(m) ==
  /\ switch[m].at = "asked"
  /\ SaveEnabled(m, switch[m].ask)
  /\ switch' = [switch EXCEPT ![m].at = "saved"]
  /\ UNCHANGED <<batch, list, status, fetch, broken, press, visible, elsewhere, starts,
                 clicks, faults>>

(* The request or its answer is lost. *)
LoseSwitch(m) ==
  /\ Fault
  /\ switch[m].at \in {"asked", "saved"}
  /\ switch' = [switch EXCEPT ![m].at = "failed"]
  /\ UNCHANGED <<registryVars, batch, list, status, fetch, broken, press, visible,
                 elsewhere, starts, clicks>>

(* Mistaken: a success is taken to be on the page already. *)
InvalidateFailures(m) ==
  IF switch[m].at = "failed" THEN Invalidate("machines") ELSE UNCHANGED fetch

(* onSettled, after onError put the remembered list back. *)
AfterSettling(m) == Invalidate("machines")

SettleSwitch(m) ==
  /\ switch[m].at \in {"saved", "failed"}
  /\ list' = IF switch[m].at = "failed" THEN switch[m].before ELSE list
  /\ broken' = IF switch[m].at = "failed" THEN broken \ {"machines"} ELSE broken
  /\ AfterSettling(m)
  /\ switch' = [switch EXCEPT ![m] = NoSwitch]
  /\ UNCHANGED <<registryVars, batch, status, press, visible, elsewhere, starts, clicks, faults>>

-----------------------------------------------------------------------------
(* BatchPanel: the form gives way to the running batch. *)

Offers(b) == IF b = "stop" THEN status = "running" ELSE status # "running"

PressButton(b) ==
  /\ Click
  /\ Usable
  /\ Offers(b)
  /\ press[b] = "idle"
  /\ press' = [press EXCEPT ![b] = "asked"]
  /\ UNCHANGED <<registryVars, batch, list, status, fetch, broken, switch, visible,
                 elsewhere, starts, faults>>

(* startBatch refuses when a batch runs, and the panel tells so; stopBatch *)
(* stops whatever runs.                                                    *)
ServeButton(b) ==
  /\ press[b] = "asked"
  /\ batch' = IF b = "start" THEN "running"
              ELSE IF batch = "running" THEN "over" ELSE batch
  /\ press' = [press EXCEPT ![b] =
       IF b = "start" /\ batch = "running" THEN "idle" ELSE "done"]
  /\ UNCHANGED <<registryVars, list, status, fetch, broken, switch, visible,
                 elsewhere, starts, clicks, faults>>

(* onSuccess only. *)
SettleButton(b) ==
  /\ press[b] = "done"
  /\ Invalidate("batch")
  /\ press' = [press EXCEPT ![b] = "idle"]
  /\ UNCHANGED <<registryVars, batch, list, status, broken, switch, visible, elsewhere, starts,
                 clicks, faults>>

LoseButton(b) ==
  /\ Fault
  /\ press[b] \in {"asked", "done"}
  /\ press' = [press EXCEPT ![b] = "idle"]
  /\ UNCHANGED <<registryVars, batch, list, status, fetch, broken, switch, visible,
                 elsewhere, starts, clicks>>

-----------------------------------------------------------------------------
(* Others: runners that start, and the batch itself.                       *)

ChangedRows == {m \in Machines : machine'[m] # machine[m]}

ReadsSettings(r) ==
  /\ starts < MaxStarts
  /\ starts' = starts + 1
  /\ \E setting \in Settings : ReadSettings(r, setting)
  /\ UNCHANGED elsewhere

WritesRegistry(r) ==
  /\ SyncStep(r)
  /\ elsewhere' = elsewhere \union ChangedRows
  /\ UNCHANGED starts

RunnerStarts(r) ==
  /\ ReadsSettings(r) \/ WritesRegistry(r)
  /\ UNCHANGED <<batch, panelVars, clicks, faults>>

SyncFails(r) ==
  /\ Fault
  /\ SyncDies(r)
  /\ UNCHANGED <<batch, panelVars, elsewhere, starts, clicks>>

BatchEndsItself ==
  /\ batch = "running"
  /\ batch' = "over"
  /\ UNCHANGED <<registryVars, panelVars, elsewhere, starts, clicks, faults>>

-----------------------------------------------------------------------------
PanelStep ==
  \/ \E q \in Queries : AnswerFetch(q) \/ FetchArrives(q)
  \/ \E m \in Machines : ServeSwitch(m) \/ SettleSwitch(m)
  \/ \E b \in Buttons : ServeButton(b) \/ SettleButton(b)

Next ==
  \/ PanelStep
  \/ \E q \in Queries : Poll(q) \/ FetchFails(q)
  \/ \E m \in Machines : ClickSwitch(m) \/ LoseSwitch(m)
  \/ \E b \in Buttons : PressButton(b) \/ LoseButton(b)
  \/ \E r \in Runners : RunnerStarts(r) \/ SyncFails(r)
  \/ BatchEndsItself \/ LookAway

Spec == Init /\ [][Next]_vars

(* Requests are answered or lost, the interval of a visible tab fires.     *)
FairSpec ==
  /\ Spec
  /\ \A q \in Queries : WF_vars(Poll(q)) /\ WF_vars(AnswerFetch(q)) /\ WF_vars(FetchArrives(q))
  /\ \A m \in Machines : WF_vars(ServeSwitch(m)) /\ WF_vars(SettleSwitch(m))
  /\ \A b \in Buttons : WF_vars(ServeButton(b)) /\ WF_vars(SettleButton(b))

-----------------------------------------------------------------------------
(* The switch "reconciles with whatever the server actually saved": when   *)
(* no switch is being pressed and the list is not being read again, each   *)
(* switch stands as the database has it, whichever of several presses      *)
(* failed, wrote the whole list back, or crossed a poll.  A page that says *)
(* that it could not load shows no switch.                                 *)
Settled ==
  /\ \A m \in Machines : switch[m].at = "idle"
  /\ fetch["machines"].at = "none"
  /\ broken = {}

SettledPanelIsTrue ==
  Settled => \A m \in Machines \ elsewhere : list[m] = ShownRow(m)

(* A page somebody keeps looking at comes to show the machines and the     *)
(* batch as they are, though reads and presses may be lost on the way, and *)
(* no error stays on it.                                                   *)
UpToDate == list = Rows /\ status = batch /\ broken = {}

PanelCatchesUp == <>[]visible => []<>UpToDate

(* The parts of the page keep their types, and the registry behind it its  *)
(* operator's choices.                                                     *)
FleetInv == PanelTypeOK /\ SyncKeepsChoices
=============================================================================
