-------------------------------- MODULE Site --------------------------------
(***************************************************************************)
(* The web site from an empty database on: the entrypoint migrates, seeds  *)
(* and serves (deploy/web/entrypoint.sh), compose starts again what exits, *)
(* a person may seed by hand or serve from a checkout, the operator ships  *)
(* other packages or another secret, and people log in.  ProblemSeed and   *)
(* Accounts are the two stores; the seed writes to both.  The machine of   *)
(* the loop runner waits for its tables only (run-sweeper.ts).             *)
(***************************************************************************)
EXTENDS ProblemSeed, Accounts

CONSTANTS
  Entrypoint,    \* the seeder the container runs
  Shipments,     \* contents of the packages directory
  Scenarios      \* where a behaviour starts, and how often what may happen: see Scenario

(* How often the operator ships packages or changes the secret, somebody   *)
(* seeds by hand, a process is killed, a log-in is opened and a benchmark  *)
(* batch started (bounds).                                                 *)
Budget ==
  [{"ships", "rotations", "byHand", "kills", "logIns", "batches"} -> Nat]

Scenario ==
  [disk : Shipments, env : Environment, via : [Browsers -> Connections], left : Budget]

ASSUME SiteAssumption ==
  /\ Entrypoint \in Seeders
  /\ Shipments \subseteq [Directories -> Package \union {None}]
  /\ \A s \in Scenarios : s \in Scenario

VARIABLES
  migrated,   \* whether the tables exist
  container,  \* where the entrypoint of the web container is
  checkout,   \* a server run from a checkout beside it
  runner,     \* the loop runner
  left        \* what of the budget is left

siteVars == <<migrated, container, checkout, runner, left>>
vars == <<seedVars, accountVars, siteVars>>

SiteTypeOK ==
  /\ SeedTypeOK
  /\ AccountsTypeOK
  /\ migrated \in BOOLEAN
  /\ container \in {"down", "migrate", "seed", "serving"}
  /\ checkout \in BOOLEAN
  /\ runner \in {"waiting", "exited", "running"}
  /\ left \in Budget

Init ==
  /\ SeedInit
  /\ \E s \in Scenarios :
       /\ disk = s.disk
       /\ env = s.env
       /\ AccountsInit(s.via)
       /\ left = s.left
  /\ migrated = FALSE
  /\ container = "down"
  /\ checkout = FALSE
  /\ runner = "waiting"

Spend(bound) == left' = [left EXCEPT ![bound] = @ - 1]

Answers == container = "serving" \/ checkout

-----------------------------------------------------------------------------
(* The entrypoint: each step only when the one before it exited with 0.    *)

(* compose starts the container, again and again: restart: unless-stopped. *)
StartContainer ==
  /\ container = "down"
  /\ container' = "migrate"
  /\ UNCHANGED <<seedVars, accountVars, migrated, checkout, runner, left>>

(* The migrator applies what is missing in one transaction. *)
Migrate ==
  /\ container = "migrate"
  /\ migrated' = TRUE
  /\ container' = "seed"
  /\ Goto(Entrypoint, "list")
  /\ UNCHANGED <<disk, problem, tests, accountVars, checkout, runner, left>>

(* Mistaken: the script goes on after a seed that failed (no set -e). *)
AfterSeed(succeeded) == "serving"

(* set -e: a failed seed ends the container, a finished one is followed by *)
(* the server.                                                             *)
Handover(succeeded) == IF succeeded THEN "serving" ELSE "down"

(* Whose exit it was decides what it means to the container. *)
Exited(p, succeeded) ==
  container' = IF p = Entrypoint THEN Handover(succeeded) ELSE container

(* seedDatabase: the problems first, in a transaction of their own. *)
SeedStep(p) ==
  /\ SeedProblems(p)
  /\ IF seeder'[p].at = "idle" THEN Exited(p, FALSE) ELSE UNCHANGED container
  /\ UNCHANGED <<accountVars, migrated, checkout, runner, left>>

(* seedBenchmarkAccount: look, then insert plainly. *)
SeedAccount(p) ==
  LET there == SamePerson(Benchmark) /= {}
  IN  /\ \/ /\ seeder[p].at = "find"
            /\ ~there
            /\ Goto(p, "create")
            /\ UNCHANGED <<account, container>>
         \/ /\ seeder[p].at = "find"
            /\ there
            /\ Goto(p, "idle")
            /\ Exited(p, TRUE)
            /\ UNCHANGED account
         \/ /\ seeder[p].at = "create"
            /\ there \/ CanCreate
            /\ account' = IF there THEN account ELSE Stored(Benchmark)
            /\ Goto(p, "idle")
            /\ Exited(p, ~there)
      /\ UNCHANGED <<disk, problem, tests, browser, author, env, migrated, checkout,
                     runner, left>>

(* bun run db:seed; without tables its first statement fails. *)
SeedByHand(p) ==
  /\ p /= Entrypoint
  /\ seeder[p].at = "idle"
  /\ left.byHand > 0
  /\ Spend("byHand")
  /\ IF migrated THEN Goto(p, "list") ELSE UNCHANGED seeder
  /\ UNCHANGED <<disk, problem, tests, accountVars, migrated, container, checkout, runner>>

(* bun run dev, on a database somebody migrated but maybe nobody seeded.   *)
ServeCheckout ==
  /\ migrated
  /\ ~checkout
  /\ checkout' = TRUE
  /\ UNCHANGED <<seedVars, accountVars, migrated, container, runner, left>>

-----------------------------------------------------------------------------
(* What goes wrong, and what the operator does. *)

(* A server ends, and the requests it was answering with it; any of those  *)
(* under way may be with another server, if there is one.                  *)
Drop(another) ==
  /\ \E kept \in SUBSET Browsers :
       /\ another \/ kept = {}
       /\ browser' = [b \in Browsers |->
                        IF b \in kept THEN browser[b] ELSE Interrupted(browser[b])]
  /\ author' = "idle" \/ (another /\ author' = author)

(* The container is killed, wherever it is. *)
KillContainer ==
  /\ container /= "down"
  /\ left.kills > 0
  /\ Spend("kills")
  /\ IF container = "seed" THEN SeedFails(Entrypoint) ELSE UNCHANGED <<problem, tests, seeder>>
  /\ container' = "down"
  /\ Drop(checkout)
  /\ UNCHANGED <<disk, account, env, migrated, checkout, runner>>

(* A seed by hand is interrupted. *)
KillByHand(p) ==
  /\ p /= Entrypoint
  /\ seeder[p].at /= "idle"
  /\ left.kills > 0
  /\ Spend("kills")
  /\ SeedFails(p)
  /\ UNCHANGED <<disk, accountVars, migrated, container, checkout, runner>>

(* The operator stops what serves, changes something, and compose starts   *)
(* the container again.  No seed runs meanwhile.                           *)
Stopped ==
  /\ \A p \in Seeders : seeder[p].at = "idle"
  /\ container' = "down"
  /\ checkout' = FALSE
  /\ Drop(FALSE)
  /\ UNCHANGED <<problem, tests, seeder, account, migrated, runner>>

(* Other packages. *)
Ship(shipment) ==
  /\ left.ships > 0
  /\ Spend("ships")
  /\ Stopped
  /\ disk' = shipment
  /\ UNCHANGED env

(* Another SESSION_SECRET, or none. *)
Rotate(secret) ==
  /\ left.rotations > 0
  /\ Spend("rotations")
  /\ Stopped
  /\ env' = [env EXCEPT !.secret = secret]
  /\ UNCHANGED disk

-----------------------------------------------------------------------------
(* GET /api/ready: the web container serves and the database answers it,   *)
(* which it always does here.  The tables are not looked at.               *)
Ready == container = "serving"

(* The loop runner: compose starts it first when the site is ready, and    *)
(* again whenever it exits; its first statement needs the tables.  Under   *)
(* Ansible it is started at once, and exits until there are tables.        *)
StartRunner ==
  /\ \/ runner = "waiting" /\ Ready
     \/ runner = "exited"
  /\ runner' = IF migrated THEN "running" ELSE "exited"
  /\ UNCHANGED <<seedVars, accountVars, migrated, container, checkout, left>>

KillRunner ==
  /\ runner = "running"
  /\ left.kills > 0
  /\ Spend("kills")
  /\ runner' = "exited"
  /\ UNCHANGED <<seedVars, accountVars, migrated, container, checkout>>

-----------------------------------------------------------------------------
(* People. *)
LogIn(b, name) ==
  /\ Answers
  /\ left.logIns > 0
  /\ Spend("logIns")
  /\ OpenLogIn(b, name)
  /\ UNCHANGED <<seedVars, migrated, container, checkout, runner>>

Served(b) ==
  /\ Answers
  /\ LogInStep(b) \/ LeaveForm(b) \/ ClearCookie(b)
  /\ UNCHANGED <<seedVars, siteVars>>

Press(b) ==
  /\ Answers
  /\ PressSignOut(b) \/ LoadPage(b)
  /\ UNCHANGED <<seedVars, siteVars>>

Batch ==
  /\ Answers
  /\ left.batches > 0
  /\ Spend("batches")
  /\ StartBatch
  /\ UNCHANGED <<seedVars, migrated, container, checkout, runner>>

BatchAuthor ==
  /\ Answers
  /\ AuthorStep
  /\ UNCHANGED <<seedVars, siteVars>>

-----------------------------------------------------------------------------
Next ==
  \/ StartContainer
  \/ Migrate
  \/ \E p \in Seeders : SeedStep(p) \/ SeedAccount(p) \/ SeedByHand(p) \/ KillByHand(p)
  \/ ServeCheckout
  \/ KillContainer
  \/ \E shipment \in Shipments : Ship(shipment)
  \/ \E secret \in Secrets \union {Unset} : Rotate(secret)
  \/ StartRunner
  \/ KillRunner
  \/ \E b \in Browsers : (\E name \in Names : LogIn(b, name)) \/ Served(b) \/ Press(b)
  \/ Batch
  \/ BatchAuthor

Spec == Init /\ [][Next]_vars

(* compose starts what exited, and a process that runs goes on: nothing is *)
(* assumed of people and of the operator.                                  *)
FairSpec ==
  /\ Spec
  /\ WF_vars(StartContainer)
  /\ WF_vars(Migrate)
  /\ \A p \in Seeders : WF_vars(SeedStep(p)) /\ WF_vars(SeedAccount(p))
  /\ WF_vars(StartRunner)

-----------------------------------------------------------------------------
(* The container serves only what is ready to be used: every package it    *)
(* ships is a problem, and the account of the batches exists.  The         *)
(* packages are those of its image, or those its start found: one added    *)
(* to a mounted directory while it serves waits for the next seed.         *)
ServesWhatItShips ==
  container = "serving" =>
    /\ \A d \in Shipped : \E row \in problem : row.dir = d
    /\ SamePerson(Benchmark) /= {}

(* Every start seeds, and "re-seeding picks up a new or edited problem     *)
(* package" (deploy/compose.local.yml): a problem whose package was edited *)
(* since, in good order and under its slug, has the statement and the      *)
(* tests of the package it is served with.                                 *)
(* The code breaks this, and says so itself: see LeftAsIs.                 *)
EditsArePickedUp ==
  container = "serving" =>
    \A row \in problem :
      /\ row.dir \in Shipped
      /\ ~disk[row.dir].flawed
      /\ disk[row.dir].slug = row.slug
      => /\ row.markdown = disk[row.dir].markdown
         /\ row.needs = disk[row.dir].tests

(* Packages that can all be seeded beside what the database holds. *)
Seedable ==
  /\ \A d \in Shipped : ~disk[d].flawed /\ disk[d].tests > 0
  /\ \A d, e \in Shipped : disk[d].slug = disk[e].slug => d = e
  /\ \A d \in Shipped, row \in problem :
       disk[d].slug = row.slug => d = row.dir

(* With packages that can be seeded, the site comes up and stays up, and   *)
(* the loop runner with it, whatever was killed on the way, who else       *)
(* seeded or took the name of the benchmark account meanwhile.             *)
SiteComesUp == <>[]Seedable => <>[](container = "serving" /\ runner = "running")
=============================================================================
