--------------------------- MODULE MachineRegistry ---------------------------
(***************************************************************************)
(* Which checker machines there are and which of them are turned on: the   *)
(* runners' startup writes CHECKER_MACHINES into the registry              *)
(* (machine-registry.ts, settings.ts), the operator turns machines on and  *)
(* off.  Rows are never deleted.  Address and port are data nothing here   *)
(* tells apart; reachable_ and last_error_, which a retired machine loses, *)
(* are written again by the next health pass (MachineHealth).              *)
(***************************************************************************)
EXTENDS Integers

CONSTANTS
  Machines,      \* names of checker machines
  Runners,       \* processes of the loop runner
  Unreadable,    \* CHECKER_MACHINES is unset, not JSON, or not a list of machines
  Settings       \* what it may hold: sets of names, and Unreadable

ASSUME SettingsAssumption == Settings \subseteq (SUBSET Machines) \union {Unreadable}

VARIABLES
  machine,     \* machine__machine_
  sync,        \* where the sync of each runner is, and the names it read
  chosen,      \* what was last chosen for a machine: by its operator, or at first TRUE
  dropped      \* machines a sync switched off and nobody switched on again

registryVars == <<machine, sync, chosen, dropped>>

MachineRow == [known : BOOLEAN, enabled : BOOLEAN]

SyncState == [at : {"idle", "upsert", "retire", "done"}, names : SUBSET Machines]

RegistryTypeOK ==
  /\ machine \in [Machines -> MachineRow]
  /\ sync \in [Runners -> SyncState]
  /\ chosen \in [Machines -> BOOLEAN]
  /\ dropped \in SUBSET Machines

NoRow == [known |-> FALSE, enabled |-> FALSE]
NewRow == [known |-> TRUE, enabled |-> TRUE]

RegistryInit ==
  /\ machine = [m \in Machines |-> NoRow]
  /\ sync = [r \in Runners |-> [at |-> "idle", names |-> {}]]
  /\ chosen = [m \in Machines |-> TRUE]
  /\ dropped = {}

Known == {m \in Machines : machine[m].known}
Enabled(m) == machine[m].enabled

-----------------------------------------------------------------------------
(* syncMachineRegistry: readConfiguredMachines, then two statements, each  *)
(* of its own.                                                             *)

(* A runner starts, or starts again, in a new environment. *)
ReadSettings(r, setting) ==
  /\ sync[r].at \in {"idle", "done"}
  /\ sync' = [sync EXCEPT ![r] =
       IF setting = Unreadable THEN [at |-> "done", names |-> {}]
                               ELSE [at |-> "upsert", names |-> setting]]
  /\ UNCHANGED <<machine, chosen, dropped>>

(* Mistaken: the row of a machine that is known is written anew. *)
UpsertedAnew(row) == NewRow

(* INSERT ... ON CONFLICT DO UPDATE of address and port. *)
Upserted(row) == IF row.known THEN row ELSE NewRow

UpsertListed(r) ==
  /\ sync[r].at = "upsert"
  /\ machine' = [m \in Machines |->
       IF m \in sync[r].names THEN Upserted(machine[m]) ELSE machine[m]]
  /\ sync' = [sync EXCEPT ![r].at = "retire"]
  /\ UNCHANGED <<chosen, dropped>>

(* Mistaken: those the list names are retired (inArray). *)
NamedBy(names) == {m \in Known \intersect names : Enabled(m)}

DroppedBy(names) == {m \in Known \ names : Enabled(m)}

RetiredRow == [known |-> TRUE, enabled |-> FALSE]

RetireDropped(r) ==
  /\ sync[r].at = "retire"
  /\ machine' = [m \in Machines |->
       IF m \in DroppedBy(sync[r].names) THEN RetiredRow ELSE machine[m]]
  /\ sync' = [sync EXCEPT ![r] = [at |-> "done", names |-> {}]]
  /\ dropped' = dropped \union (Known \ sync[r].names)
  /\ UNCHANGED chosen

(* A statement fails, or the process dies between the two: run() exits,    *)
(* and the runner is started again from the top.                           *)
SyncDies(r) ==
  /\ sync[r].at \in {"upsert", "retire"}
  /\ sync' = [sync EXCEPT ![r] = [at |-> "idle", names |-> {}]]
  /\ UNCHANGED <<machine, chosen, dropped>>

(* The UPDATE of setMachineEnabled. *)
SaveEnabled(m, value) ==
  /\ m \in Known
  /\ machine' = [machine EXCEPT ![m].enabled = value]
  /\ chosen' = [chosen EXCEPT ![m] = value]
  /\ dropped' = IF value THEN dropped \ {m} ELSE dropped
  /\ UNCHANGED sync

SyncStep(r) == UpsertListed(r) \/ RetireDropped(r)

-----------------------------------------------------------------------------
(* "A machine already known keeps whatever the operator did to it": a row  *)
(* is as its operator left it, and on if nobody touched it, however many   *)
(* runners started, with whatever settings, and wherever their startup was *)
(* cut short.  A machine a list left out is given no work until somebody   *)
(* turns it on, though a later list may name it again.                     *)
SyncKeepsChoices ==
  \A m \in Known : Enabled(m) = IF m \in dropped THEN FALSE ELSE chosen[m]
=============================================================================
