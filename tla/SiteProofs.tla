----------------------------- MODULE SiteProofs -----------------------------
(***************************************************************************)
(* Theorems about the site's start, for any packages, any number of        *)
(* seeders and browsers: what the seed leaves in the database, one account *)
(* for one person, and a container that serves what it ships.  They rest   *)
(* on one inductive invariant in three parts, for the seed, the accounts   *)
(* and the container.                                                      *)
(***************************************************************************)
EXTENDS Site, TLAPS

-----------------------------------------------------------------------------
(* The seed.  Between SELECT and COMMIT a transaction may hold rows.       *)
Open(p) == seeder[p].at \in {"problem", "tests", "finish"}

HoldsNothing ==
  \A p \in Seeders : ~Open(p) => seeder[p].rows = {} /\ seeder[p].tests = {}

(* What a transaction holds it read from the disk as it is now.            *)
HeldFromDisk ==
  \A p \in Seeders : \A r \in seeder[p].rows :
    disk[r.dir] /= None /\ r.slug = disk[r.dir].slug

(* A directory that is still to be inserted is unknown, or became known    *)
(* since the SELECT, under the slug it has now.                            *)
TodoIsNew ==
  \A p \in Seeders : Open(p) =>
    \A d \in seeder[p].todo :
      /\ disk[d] /= None
      /\ \A row \in problem : row.dir = d => row.slug = disk[d].slug

Clash(r, o) == r.id = o.id \/ r.slug = o.slug \/ r.dir = o.dir

(* No two rows clash, committed or held, whoever holds them.               *)
RowsDistinct ==
  /\ \A r, o \in problem : Clash(r, o) => r = o
  /\ \A p \in Seeders : \A r \in seeder[p].rows, o \in problem : ~Clash(r, o)
  /\ \A p, q \in Seeders : \A r \in seeder[p].rows, o \in seeder[q].rows :
       Clash(r, o) => p = q /\ r = o

(* Every row has its tests, but the one whose tests come next.             *)
TestsMatch ==
  /\ \A row \in problem : row.needs > 0 /\ TestsOf(row) \subseteq tests
  /\ \A t \in tests : \E row \in problem : t \in TestsOf(row)
  /\ \A p \in Seeders :
       /\ \A r \in seeder[p].rows :
            r.dir \notin seeder[p].todo =>
              r.needs > 0 /\ TestsOf(r) \subseteq seeder[p].tests
       /\ \A t \in seeder[p].tests : \E r \in seeder[p].rows : t \in TestsOf(r)

InTurn ==
  \A p \in Seeders :
    /\ seeder[p].at = "problem" => \A r \in seeder[p].rows : r.dir \notin seeder[p].todo
    /\ seeder[p].at = "tests" =>
         \A r \in seeder[p].rows :
           r.dir \in seeder[p].todo => IsNext(r.dir, seeder[p].todo)
    /\ seeder[p].at = "finish" => seeder[p].todo = {}

Known(d) == \E row \in problem : row.dir = d

(* No package is forgotten on the way.                                     *)
NoneForgotten ==
  \A p \in Seeders :
    /\ seeder[p].at = "select" => seeder[p].todo = Shipped
    /\ Open(p) =>
         \A d \in Shipped :
           d \in seeder[p].todo \/ Known(d) \/ \E r \in seeder[p].rows : r.dir = d
    /\ seeder[p].at \in {"find", "create"} => \A d \in Shipped : Known(d)

SeedInv ==
  /\ SeedTypeOK
  /\ HoldsNothing
  /\ HeldFromDisk
  /\ TodoIsNew
  /\ RowsDistinct
  /\ TestsMatch
  /\ InTurn
  /\ NoneForgotten

(* The accounts. *)
AgainIsFound ==
  \A b \in Browsers : browser[b].at = "again" => SamePerson(browser[b].name) /= {}

(* The cookie of a log-in that went well is that person's, whatever the    *)
(* secret is by now.                                                       *)
SignedIn ==
  \A b \in Browsers :
    /\ browser[b].at = "signed"
    /\ env.secure = "true" => browser[b].via.https
    => /\ browser[b].cookie /= Unset
       /\ \E a \in SamePerson(browser[b].name) : a.id = browser[b].cookie.user

AccountInv ==
  /\ AccountsTypeOK
  /\ OnePersonOneAccount
  /\ AgainIsFound
  /\ SignedIn

(* The container. *)
ContainerInv ==
  /\ migrated \in BOOLEAN
  /\ container \in {"down", "migrate", "seed", "serving"}
  /\ checkout \in BOOLEAN
  /\ runner \in {"waiting", "exited", "running"}
  /\ left \in Budget
  /\ container = "seed" <=> seeder[Entrypoint].at /= "idle"
  /\ ServesWhatItShips

SiteInv == SeedInv /\ AccountInv /\ ContainerInv

-----------------------------------------------------------------------------
(* The seed's statements, one lemma for each.                              *)

(* What every leaf needs to see of the invariant.                          *)
LEMMA SeederIsTyped ==
  ASSUME SeedTypeOK, NEW p \in Seeders
  PROVE  /\ seeder[p].at \in Steps
         /\ seeder[p].todo \subseteq Directories
         /\ seeder[p].rows \subseteq Problem
         /\ seeder[p].tests \subseteq Test
         /\ seeder[p].found \subseteq 1..MaxProblems
PROOF BY DEF SeedTypeOK, SeederState

(* A process that holds nothing moves on. *)
LEMMA GotoKeepsInv ==
  ASSUME SeedInv, NEW p \in Seeders, NEW at \in Steps,
         seeder[p].at \notin {"problem", "tests", "finish", "select"},
         at \notin {"problem", "tests", "finish", "select"},
         at \in {"find", "create"} => seeder[p].at \in {"find", "create"},
         Goto(p, at), UNCHANGED <<disk, problem, tests>>
  PROVE  SeedInv'
<1>1. SeedTypeOK
  BY DEF SeedInv
<1>2. seeder' = [seeder EXCEPT ![p].at = at]
  BY DEF Goto
<1>3. SeedTypeOK'
  BY <1>1, <1>2 DEF SeedTypeOK, SeederState
<1>4. /\ seeder'[p].at = at
      /\ \A q \in Seeders \ {p} : seeder'[q] = seeder[q]
      /\ \A q \in Seeders : /\ seeder'[q].todo = seeder[q].todo
                           /\ seeder'[q].rows = seeder[q].rows
                           /\ seeder'[q].tests = seeder[q].tests
  BY <1>1, <1>2 DEF SeedTypeOK, SeederState
<1>5. HoldsNothing' /\ HeldFromDisk' /\ TodoIsNew'
  BY <1>4 DEF SeedInv, HoldsNothing, HeldFromDisk, TodoIsNew, Open
<1>6. RowsDistinct' /\ TestsMatch'
  BY <1>4 DEF SeedInv, RowsDistinct, TestsMatch, Clash, TestsOf
<1>7. InTurn' /\ NoneForgotten'
  BY <1>4 DEF SeedInv, InTurn, NoneForgotten, Open, Known, Shipped, IsNext
<1> QED BY <1>3, <1>5, <1>6, <1>7 DEF SeedInv

(* A transaction that fails leaves nothing behind. *)
LEMMA SeedFailsKeepsInv ==
  ASSUME SeedInv, NEW p \in Seeders, SeedFails(p), UNCHANGED disk
  PROVE  SeedInv' /\ UNCHANGED <<problem, tests>> /\ seeder'[p].at = "idle"
<1>1. SeedTypeOK
  BY DEF SeedInv
<1>2. problem' = problem /\ tests' = tests
  BY DEF SeedFails, RolledBack
<1>3. NotSeeding \in SeederState
  BY DEF NotSeeding, SeederState, Steps
<1>4. SeedTypeOK'
  BY <1>1, <1>2, <1>3 DEF SeedTypeOK, SeedFails
<1>5. /\ seeder'[p] = NotSeeding
      /\ \A q \in Seeders \ {p} : seeder'[q] = seeder[q]
  BY <1>1 DEF SeedFails, SeedTypeOK
<1>6. /\ seeder'[p].at = "idle" /\ seeder'[p].rows = {} /\ seeder'[p].tests = {}
  BY <1>5 DEF NotSeeding
<1>7. HoldsNothing' /\ HeldFromDisk' /\ TodoIsNew'
  BY <1>2, <1>5, <1>6 DEF SeedInv, HoldsNothing, HeldFromDisk, TodoIsNew, Open
<1>8. RowsDistinct' /\ TestsMatch'
  <2>1. RowsDistinct'
    BY <1>2, <1>5, <1>6 DEF SeedInv, RowsDistinct, Clash
  <2>2. TestsMatch'
    BY <1>2, <1>5, <1>6 DEF SeedInv, TestsMatch, TestsOf
  <2> QED BY <2>1, <2>2
<1>9. InTurn' /\ NoneForgotten'
  BY <1>2, <1>5, <1>6 DEF SeedInv, InTurn, NoneForgotten, Open, Known, Shipped, IsNext
<1> QED BY <1>2, <1>4, <1>6, <1>7, <1>8, <1>9 DEF SeedInv

LEMMA ListPackagesKeepsInv ==
  ASSUME SeedInv, NEW p \in Seeders, ListPackages(p)
  PROVE  SeedInv'
<1>1. SeedTypeOK
  BY DEF SeedInv
<1>2. PICK next \in {"find", "select"} :
        /\ seeder' = [seeder EXCEPT ![p] =
             [NotSeeding EXCEPT !.at = next, !.todo = Shipped]]
        /\ next = "find" => Shipped = {}
  <2>1. CASE Shipped = {}
    BY <2>1 DEF ListPackages
  <2>2. CASE Shipped /= {}
    BY <2>2 DEF ListPackages
  <2> QED BY <2>1, <2>2
<1>3. UNCHANGED <<disk, problem, tests>>
  BY DEF ListPackages
<1>4. [NotSeeding EXCEPT !.at = next, !.todo = Shipped] \in SeederState
  BY DEF NotSeeding, SeederState, Steps, Shipped
<1>5. SeedTypeOK'
  BY <1>1, <1>2, <1>3, <1>4 DEF SeedTypeOK
<1>6. /\ seeder'[p].at = next /\ seeder'[p].todo = Shipped
      /\ seeder'[p].rows = {} /\ seeder'[p].tests = {}
      /\ \A q \in Seeders \ {p} : seeder'[q] = seeder[q]
  BY <1>1, <1>2 DEF SeedTypeOK, NotSeeding
<1>7. HoldsNothing' /\ HeldFromDisk' /\ TodoIsNew'
  BY <1>3, <1>6 DEF SeedInv, HoldsNothing, HeldFromDisk, TodoIsNew, Open
<1>8. RowsDistinct'
  BY <1>3, <1>6 DEF SeedInv, RowsDistinct, Clash
<1>9. TestsMatch'
  BY <1>3, <1>6 DEF SeedInv, TestsMatch, TestsOf
<1>10. InTurn' /\ NoneForgotten'
  BY <1>2, <1>3, <1>6 DEF SeedInv, InTurn, NoneForgotten, Open, Known, Shipped, IsNext
<1> QED BY <1>5, <1>7, <1>8, <1>9, <1>10 DEF SeedInv

LEMMA SelectSeededKeepsInv ==
  ASSUME SeedInv, NEW p \in Seeders, SelectSeeded(p)
  PROVE  SeedInv'
<1> DEFINE seeded == {row \in problem : row.dir \in seeder[p].todo}
           todo == Missing(seeder[p].todo, seeded)
           found == {row.id : row \in seeded}
<1>1. /\ SeedTypeOK /\ seeder[p].at = "select" /\ UNCHANGED <<disk, problem, tests>>
      /\ seeder[p].todo = Shipped /\ seeder[p].rows = {} /\ seeder[p].tests = {}
  BY DEF SeedInv, SelectSeeded, NoneForgotten, HoldsNothing, Open
<1>2. PICK next \in {"problem", "finish"} :
        /\ seeder' = [seeder EXCEPT ![p] =
             [seeder[p] EXCEPT !.todo = todo, !.found = found, !.at = next]]
        /\ next = "finish" => todo = {}
  <2>1. CASE todo = {}
    BY <2>1, <1>1 DEF SelectSeeded, SeedTypeOK, SeederState
  <2>2. CASE todo /= {}
    BY <2>2, <1>1 DEF SelectSeeded, SeedTypeOK, SeederState
  <2> QED BY <2>1, <2>2
<1>3. /\ todo \subseteq Shipped
      /\ \A d \in todo : ~Known(d)
      /\ \A d \in Shipped \ todo : Known(d)
  BY <1>1 DEF Missing, Known
<1>4. found \subseteq 1..MaxProblems /\ todo \subseteq Directories
  BY <1>1, <1>3 DEF SeedTypeOK, Problem, Shipped
<1>5. [seeder[p] EXCEPT !.todo = todo, !.found = found, !.at = next] \in SeederState
  BY <1>1, <1>4 DEF SeedTypeOK, SeederState, Steps
<1>6. SeedTypeOK'
  BY <1>1, <1>2, <1>5 DEF SeedTypeOK
<1>7. /\ seeder'[p].at = next /\ seeder'[p].todo = todo
      /\ seeder'[p].rows = {} /\ seeder'[p].tests = {}
      /\ \A q \in Seeders \ {p} : seeder'[q] = seeder[q]
  BY <1>1, <1>2 DEF SeedTypeOK, SeederState
<1> HIDE DEF todo, found
<1>8. HoldsNothing' /\ HeldFromDisk'
  BY <1>1, <1>7 DEF SeedInv, HoldsNothing, HeldFromDisk, Open
<1>9. TodoIsNew'
  BY <1>1, <1>3, <1>7 DEF SeedInv, TodoIsNew, Open, Known, Shipped
<1>10. RowsDistinct'
  BY <1>1, <1>7 DEF SeedInv, RowsDistinct, Clash
<1>11. TestsMatch'
  BY <1>1, <1>7 DEF SeedInv, TestsMatch, TestsOf
<1>12. InTurn'
  BY <1>1, <1>2, <1>7 DEF SeedInv, InTurn, IsNext
<1>13. NoneForgotten'
  BY <1>1, <1>2, <1>3, <1>7 DEF SeedInv, NoneForgotten, Open, Known, Shipped
<1> QED BY <1>6, <1>8, <1>9, <1>10, <1>11, <1>12, <1>13 DEF SeedInv

LEMMA NewIdIsNew ==
  ASSUME CanInsert
  PROVE  NewId \in 1..MaxProblems /\ \A row \in problem \union Pending : row.id /= NewId
PROOF BY DEF CanInsert, NewId, NewIds

LEMMA InsertProblemKeepsInv ==
  ASSUME SeedInv, NEW p \in Seeders, InsertProblem(p)
  PROVE  SeedInv'
<1>1. PICK dir \in seeder[p].todo :
        /\ IsNext(dir, seeder[p].todo)
        /\ \/ SeedFails(p)
           \/ /\ ~MustWait(p, disk[dir].slug)
              /\ ~SlugTaken(p, disk[dir].slug)
              /\ CanInsert
              /\ seeder' = [seeder EXCEPT
                   ![p].rows = @ \union {RowFor(dir, disk[dir])}, ![p].at = "tests"]
              /\ UNCHANGED <<problem, tests>>
  BY DEF InsertProblem
<1>2. SeedTypeOK /\ seeder[p].at = "problem" /\ UNCHANGED disk
  BY DEF SeedInv, InsertProblem
<1>3. CASE SeedFails(p)
  BY <1>2, <1>3, SeedFailsKeepsInv
<1>4. ASSUME ~MustWait(p, disk[dir].slug), ~SlugTaken(p, disk[dir].slug), CanInsert,
             seeder' = [seeder EXCEPT
               ![p].rows = @ \union {RowFor(dir, disk[dir])}, ![p].at = "tests"],
             UNCHANGED <<problem, tests>>
      PROVE  SeedInv'
  <2> DEFINE new == RowFor(dir, disk[dir])
  <2>1. /\ dir \in Directories /\ disk[dir] \in Package
        /\ \A row \in problem : row.dir = dir => row.slug = disk[dir].slug
    BY <1>2 DEF SeedInv, SeedTypeOK, SeederState, TodoIsNew, Open
  <2>2. /\ new.id = NewId /\ new.dir = dir /\ new.slug = disk[dir].slug
        /\ new.needs = disk[dir].tests /\ new.markdown = disk[dir].markdown
        /\ new \in Problem
    BY <2>1, <1>4, NewIdIsNew DEF RowFor, Package, Problem
  <2>3. seeder' = [seeder EXCEPT ![p] =
          [seeder[p] EXCEPT !.rows = seeder[p].rows \union {new}, !.at = "tests"]]
    BY <1>2, <1>4 DEF SeedTypeOK, SeederState
  <2> HIDE DEF new
  <2>4. [seeder[p] EXCEPT !.rows = seeder[p].rows \union {new}, !.at = "tests"]
          \in SeederState
    BY <1>2, <2>2 DEF SeedTypeOK, SeederState, Steps
  <2>5. SeedTypeOK'
    BY <1>2, <1>4, <2>3, <2>4 DEF SeedTypeOK
  <2>6. /\ seeder'[p].at = "tests" /\ seeder'[p].todo = seeder[p].todo
        /\ seeder'[p].rows = seeder[p].rows \union {new}
        /\ seeder'[p].tests = seeder[p].tests
        /\ \A q \in Seeders \ {p} : seeder'[q] = seeder[q]
    BY <1>2, <2>3 DEF SeedTypeOK, SeederState
  <2>7. HoldsNothing' /\ HeldFromDisk'
    BY <1>2, <2>1, <2>2, <2>6, SeedAssumption
       DEF SeedInv, HoldsNothing, HeldFromDisk, Open, TodoIsNew
  <2>8. TodoIsNew'
    <3> SUFFICES ASSUME NEW q \in Seeders, Open(q)', NEW d \in seeder'[q].todo
                 PROVE  /\ disk[d] /= None
                        /\ \A row \in problem : row.dir = d => row.slug = disk[d].slug
      BY <1>2, <1>4 DEF TodoIsNew
    <3>1. Open(q) /\ d \in seeder[q].todo
      BY <1>2, <2>6 DEF Open
    <3> QED BY <3>1 DEF SeedInv, TodoIsNew
  <2>9. /\ \A o \in problem : ~Clash(new, o)
        /\ \A q \in Seeders : \A o \in seeder[q].rows : ~Clash(new, o)
    <3>1. /\ \A o \in problem : o.id /= NewId
          /\ \A q \in Seeders : \A o \in seeder[q].rows : o.id /= NewId
      BY <1>4, NewIdIsNew DEF Pending
    <3>2. /\ \A o \in problem : o.slug /= disk[dir].slug
          /\ \A o \in seeder[p].rows : o.slug /= disk[dir].slug
          /\ \A q \in Seeders \ {p} : \A o \in seeder[q].rows : o.slug /= disk[dir].slug
      BY <1>4 DEF SlugTaken, MustWait
    <3>3. /\ \A o \in problem : o.dir /= dir
          /\ \A o \in seeder[p].rows : o.dir /= dir
          /\ \A q \in Seeders \ {p} : \A o \in seeder[q].rows : o.dir /= dir
      BY <1>2, <2>1, <3>2 DEF SeedInv, InTurn, HeldFromDisk
    <3> QED BY <2>2, <3>1, <3>2, <3>3 DEF Clash
  <2>10. RowsDistinct'
    <3>1. \A q \in Seeders : \A r \in seeder'[q].rows :
            r \in seeder[q].rows \/ (q = p /\ r = new)
      BY <2>6
    <3>2. \A r, o : Clash(r, o) <=> Clash(o, r)
      BY DEF Clash
    <3>3. \A q \in Seeders : \A r \in seeder'[q].rows, o \in problem : ~Clash(r, o)
      BY <2>9, <3>1 DEF SeedInv, RowsDistinct
    <3>4. \A q, s \in Seeders : \A r \in seeder'[q].rows, o \in seeder'[s].rows :
            Clash(r, o) => q = s /\ r = o
      BY <2>9, <3>1, <3>2 DEF SeedInv, RowsDistinct
    <3>5. \A r, o \in problem : Clash(r, o) => r = o
      BY DEF SeedInv, RowsDistinct
    <3> QED BY <1>4, <3>3, <3>4, <3>5 DEF RowsDistinct, Clash
  <2>11. TestsMatch'
    <3>1. /\ \A row \in problem : row.needs > 0 /\ TestsOf(row) \subseteq tests
          /\ \A t \in tests : \E row \in problem : t \in TestsOf(row)
      BY DEF SeedInv, TestsMatch
    <3>2. ASSUME NEW q \in Seeders, NEW r \in seeder'[q].rows, r.dir \notin seeder'[q].todo
          PROVE  r.needs > 0 /\ TestsOf(r) \subseteq seeder'[q].tests
      BY <2>2, <2>6, <3>2 DEF SeedInv, TestsMatch
    <3>3. ASSUME NEW q \in Seeders, NEW t \in seeder'[q].tests
          PROVE  \E r \in seeder'[q].rows : t \in TestsOf(r)
      BY <2>6, <3>3 DEF SeedInv, TestsMatch
    <3> QED BY <1>4, <3>1, <3>2, <3>3 DEF TestsMatch, TestsOf
  <2>12. InTurn'
    BY <1>1, <1>2, <2>2, <2>6 DEF SeedInv, InTurn
  <2>13. NoneForgotten'
    <3>1. (\A d : Known(d)' <=> Known(d)) /\ Shipped' = Shipped
      BY <1>2, <1>4 DEF Known, Shipped
    <3>2. ASSUME NEW d \in Shipped
          PROVE  d \in seeder'[p].todo \/ Known(d) \/ \E r \in seeder'[p].rows : r.dir = d
      BY <1>2, <2>6 DEF SeedInv, NoneForgotten, Open
    <3> QED BY <2>6, <3>1, <3>2 DEF SeedInv, NoneForgotten, Open
  <2> QED BY <2>5, <2>7, <2>8, <2>10, <2>11, <2>12, <2>13 DEF SeedInv
<1> QED BY <1>1, <1>3, <1>4

LEMMA InsertTestsKeepsInv ==
  ASSUME SeedInv, NEW p \in Seeders, InsertTests(p)
  PROVE  SeedInv'
<1>1. PICK row \in seeder[p].rows :
        /\ IsNext(row.dir, seeder[p].todo)
        /\ \/ SeedFails(p)
           \/ /\ row.needs > 0
              /\ seeder' = [seeder EXCEPT
                   ![p].tests = @ \union TestsOf(row),
                   ![p].todo = seeder[p].todo \ {row.dir},
                   ![p].at = IF seeder[p].todo \ {row.dir} = {} THEN "finish" ELSE "problem"]
              /\ UNCHANGED <<problem, tests>>
  BY DEF InsertTests
<1>2. SeedTypeOK /\ seeder[p].at = "tests" /\ UNCHANGED disk
  BY DEF SeedInv, InsertTests
<1>3. CASE SeedFails(p)
  BY <1>2, <1>3, SeedFailsKeepsInv
<1>4. ASSUME row.needs > 0,
             seeder' = [seeder EXCEPT
               ![p].tests = @ \union TestsOf(row),
               ![p].todo = seeder[p].todo \ {row.dir},
               ![p].at = IF seeder[p].todo \ {row.dir} = {} THEN "finish" ELSE "problem"],
             UNCHANGED <<problem, tests>>
      PROVE  SeedInv'
  <2> DEFINE todo == seeder[p].todo \ {row.dir}
             held == seeder[p].tests \union TestsOf(row)
  <2>1. PICK next \in {"problem", "finish"} :
          /\ seeder' = [seeder EXCEPT ![p] =
               [seeder[p] EXCEPT !.tests = held, !.todo = todo, !.at = next]]
          /\ next = "finish" => todo = {}
    <3>1. CASE todo = {}
      BY <1>2, <1>4, <3>1 DEF SeedTypeOK, SeederState
    <3>2. CASE todo /= {}
      BY <1>2, <1>4, <3>2 DEF SeedTypeOK, SeederState
    <3> QED BY <3>1, <3>2
  <2>2. row \in Problem /\ row.dir \in Directories /\ row.dir \in seeder[p].todo
    BY <1>1, <1>2 DEF SeedTypeOK, SeederState, Problem, IsNext
  <2>3. TestsOf(row) \subseteq Test
    BY <2>2, SeedAssumption DEF TestsOf, Test, Problem
  <2>4. held \subseteq Test /\ todo \subseteq Directories
    BY <1>2, <2>3 DEF SeedTypeOK, SeederState
  <2>5. [seeder[p] EXCEPT !.tests = held, !.todo = todo, !.at = next] \in SeederState
    BY <1>2, <2>4 DEF SeedTypeOK, SeederState, Steps
  <2>6. SeedTypeOK'
    BY <1>2, <1>4, <2>1, <2>5 DEF SeedTypeOK
  <2>7. /\ seeder'[p].at = next /\ seeder'[p].todo = todo
        /\ seeder'[p].rows = seeder[p].rows /\ seeder'[p].tests = held
        /\ \A q \in Seeders \ {p} : seeder'[q] = seeder[q]
    BY <1>2, <2>1 DEF SeedTypeOK, SeederState
  <2>8. \A r \in seeder[p].rows : r.dir \in seeder[p].todo => r = row
    <3> SUFFICES ASSUME NEW r \in seeder[p].rows, r.dir \in seeder[p].todo
                 PROVE  r = row
      OBVIOUS
    <3>1. IsNext(r.dir, seeder[p].todo) /\ r.dir \in Directories
      BY <1>2 DEF SeedInv, InTurn, SeedTypeOK, SeederState, Problem
    <3>2. r.dir = row.dir
      BY <1>1, <2>2, <3>1, SeedAssumption DEF IsNext
    <3> QED BY <3>2 DEF SeedInv, RowsDistinct, Clash
  <2> HIDE DEF todo, held
  <2>9. todo = seeder[p].todo \ {row.dir} /\ held = seeder[p].tests \union TestsOf(row)
    BY DEF todo, held
  <2>rows. \A q \in Seeders : seeder'[q].rows = seeder[q].rows
    BY <2>7
  <2>10. HoldsNothing' /\ HeldFromDisk' /\ TodoIsNew'
    <3>1. HoldsNothing'
      BY <2>1, <2>7 DEF SeedInv, HoldsNothing, Open
    <3>2. HeldFromDisk'
      BY <1>2, <2>rows DEF SeedInv, HeldFromDisk
    <3>3. \A q \in Seeders : (Open(q)' => Open(q)) /\ seeder'[q].todo \subseteq seeder[q].todo
      BY <1>2, <2>7, <2>9 DEF Open
    <3>4. TodoIsNew'
      <4> SUFFICES ASSUME NEW q \in Seeders, Open(q)', NEW d \in seeder'[q].todo
                   PROVE  /\ disk[d] /= None
                          /\ \A o \in problem : o.dir = d => o.slug = disk[d].slug
        BY <1>2, <1>4 DEF TodoIsNew
      <4> QED BY <3>3 DEF SeedInv, TodoIsNew
    <3> QED BY <3>1, <3>2, <3>4
  <2>11. RowsDistinct'
    <3>1. RowsDistinct
      BY DEF SeedInv
    <3>2. problem' = problem
      BY <1>4
    <3> QED BY <2>rows, <3>1, <3>2 DEF RowsDistinct, Clash
  <2>12. TestsMatch'
    <3>1. /\ \A o \in problem : o.needs > 0 /\ TestsOf(o) \subseteq tests
          /\ \A t \in tests : \E o \in problem : t \in TestsOf(o)
      BY DEF SeedInv, TestsMatch
    <3>2. ASSUME NEW q \in Seeders, NEW r \in seeder'[q].rows, r.dir \notin seeder'[q].todo
          PROVE  r.needs > 0 /\ TestsOf(r) \subseteq seeder'[q].tests
      <4>1. CASE q = p /\ r.dir = row.dir
        BY <1>4, <2>7, <2>8, <2>2, <2>9, <4>1
      <4>2. CASE ~(q = p /\ r.dir = row.dir)
        <5>1. r \in seeder[q].rows /\ r.dir \notin seeder[q].todo
          BY <2>7, <2>9, <3>2, <4>2
        <5>2. seeder[q].tests \subseteq seeder'[q].tests
          BY <2>7, <2>9
        <5> QED BY <5>1, <5>2 DEF SeedInv, TestsMatch
      <4> QED BY <4>1, <4>2
    <3>3. ASSUME NEW q \in Seeders, NEW t \in seeder'[q].tests
          PROVE  \E r \in seeder'[q].rows : t \in TestsOf(r)
      BY <2>7, <2>9, <3>3 DEF SeedInv, TestsMatch
    <3> QED BY <1>4, <3>1, <3>2, <3>3 DEF TestsMatch, TestsOf
  <2>13. InTurn'
    BY <1>2, <2>1, <2>7, <2>8, <2>9 DEF SeedInv, InTurn, IsNext
  <2>14. NoneForgotten'
    <3>1. (\A d : Known(d)' <=> Known(d)) /\ Shipped' = Shipped
      BY <1>2, <1>4 DEF Known, Shipped
    <3>2. ASSUME NEW d \in Shipped
          PROVE  d \in seeder'[p].todo \/ Known(d) \/ \E r \in seeder'[p].rows : r.dir = d
      <4>1. d \in seeder[p].todo \/ Known(d) \/ \E r \in seeder[p].rows : r.dir = d
        BY <1>2 DEF SeedInv, NoneForgotten, Open
      <4> QED BY <2>7, <2>9, <4>1
    <3> QED BY <2>1, <2>7, <3>1, <3>2 DEF SeedInv, NoneForgotten, Open
  <2> QED BY <2>6, <2>10, <2>11, <2>12, <2>13, <2>14 DEF SeedInv
<1> QED BY <1>1, <1>3, <1>4

(* A committed row after the backfill. *)
After(row, p) == IF row.id \in seeder[p].found THEN Backfilled(row) ELSE row

LEMMA BackfillKeepsTheRest ==
  ASSUME SeedTypeOK, NEW p \in Seeders, NEW row \in problem
  PROVE  /\ After(row, p) \in Problem
         /\ After(row, p).id = row.id /\ After(row, p).dir = row.dir
         /\ After(row, p).slug = row.slug /\ After(row, p).needs = row.needs
         /\ \/ After(row, p) = row
            \/ row.markdown = None /\ After(row, p) = [row EXCEPT !.markdown = After(row, p).markdown]
<1>1. row \in Problem /\ row.dir \in Directories
  BY DEF SeedTypeOK, Problem
<1>2. disk[row.dir] /= None => disk[row.dir].markdown \in Texts \union {None}
  BY <1>1 DEF SeedTypeOK, Package
<1>3. CASE row.id \in seeder[p].found /\ row.markdown = None /\ disk[row.dir] /= None
  <2>1. After(row, p) = [row EXCEPT !.markdown = disk[row.dir].markdown]
    BY <1>3 DEF After, Backfilled
  <2> QED BY <1>1, <1>2, <1>3, <2>1 DEF Problem
<1>4. CASE ~(row.id \in seeder[p].found /\ row.markdown = None /\ disk[row.dir] /= None)
  <2>1. After(row, p) = row
    BY <1>4 DEF After, Backfilled
  <2> QED BY <1>1, <2>1
<1> QED BY <1>3, <1>4

LEMMA CommitKeepsInv ==
  ASSUME SeedInv, NEW p \in Seeders, CommitProblems(p)
  PROVE  SeedInv'
<1>1. /\ SeedTypeOK /\ seeder[p].at = "finish" /\ UNCHANGED disk
      /\ tests' = tests \union seeder[p].tests
      /\ seeder' = [seeder EXCEPT ![p] = [NotSeeding EXCEPT !.at = "find"]]
  BY DEF SeedInv, CommitProblems
<1>2. problem' = seeder[p].rows \union {After(row, p) : row \in problem}
  BY DEF CommitProblems, After
<1>3. seeder[p].todo = {}
  BY <1>1 DEF SeedInv, InTurn
<1>4. [NotSeeding EXCEPT !.at = "find"] \in SeederState
  BY DEF NotSeeding, SeederState, Steps
<1>5. /\ seeder'[p].at = "find" /\ seeder'[p].rows = {} /\ seeder'[p].tests = {}
      /\ \A q \in Seeders \ {p} : seeder'[q] = seeder[q]
  BY <1>1 DEF SeedTypeOK, NotSeeding
(* Each row that is there afterwards was committed or held before, and     *)
(* nothing but its statement changed.                                      *)
<1>6. \A n \in problem' :
        \/ n \in seeder[p].rows
        \/ \E row \in problem : n = After(row, p)
  BY <1>2
<1>7. \A row \in problem : After(row, p) \in problem'
  BY <1>2
<1>8. seeder[p].rows \subseteq problem'
  BY <1>2
<1>9. SeedTypeOK'
  <2>1. problem' \subseteq Problem
    BY <1>1, <1>6, BackfillKeepsTheRest DEF SeedTypeOK, SeederState
  <2>2. tests' \subseteq Test
    BY <1>1 DEF SeedTypeOK, SeederState
  <2> QED BY <1>1, <1>4, <2>1, <2>2 DEF SeedTypeOK
<1>10. HoldsNothing' /\ HeldFromDisk'
  BY <1>1, <1>5 DEF SeedInv, HoldsNothing, HeldFromDisk, Open
<1>11. TodoIsNew'
  <2> SUFFICES ASSUME NEW q \in Seeders, Open(q)', NEW d \in seeder'[q].todo
               PROVE  /\ disk[d] /= None
                      /\ \A n \in problem' : n.dir = d => n.slug = disk[d].slug
    BY <1>1 DEF TodoIsNew
  <2>1. q /= p /\ Open(q) /\ d \in seeder[q].todo
    BY <1>5 DEF Open
  <2>2. disk[d] /= None /\ \A row \in problem : row.dir = d => row.slug = disk[d].slug
    BY <2>1 DEF SeedInv, TodoIsNew
  <2>3. \A r \in seeder[p].rows : r.slug = disk[r.dir].slug
    BY DEF SeedInv, HeldFromDisk
  <2> QED BY <1>1, <1>6, <2>2, <2>3, BackfillKeepsTheRest
<1>12. RowsDistinct'
  <2>1. ASSUME NEW n \in problem', NEW m \in problem', Clash(n, m) PROVE n = m
    <3>1. CASE n \in seeder[p].rows /\ m \in seeder[p].rows
      BY <2>1, <3>1 DEF SeedInv, RowsDistinct
    <3>2. ASSUME NEW r \in seeder[p].rows, NEW row \in problem PROVE ~Clash(r, After(row, p))
      BY <1>1, BackfillKeepsTheRest DEF SeedInv, RowsDistinct, Clash
    <3>3. ASSUME NEW row \in problem, NEW o \in problem, Clash(After(row, p), After(o, p))
          PROVE  row = o
      BY <1>1, <3>3, BackfillKeepsTheRest DEF SeedInv, RowsDistinct, Clash
    <3>4. Clash(m, n)
      BY <2>1 DEF Clash
    <3> QED BY <1>6, <2>1, <3>1, <3>2, <3>3, <3>4
  <2>2. ASSUME NEW q \in Seeders, NEW r \in seeder'[q].rows, NEW n \in problem'
        PROVE  ~Clash(r, n)
    <3>1. q /= p /\ r \in seeder[q].rows
      BY <1>5
    <3>2. CASE n \in seeder[p].rows
      BY <3>1, <3>2 DEF SeedInv, RowsDistinct
    <3>3. ASSUME NEW row \in problem PROVE ~Clash(r, After(row, p))
      BY <1>1, <3>1, BackfillKeepsTheRest DEF SeedInv, RowsDistinct, Clash
    <3> QED BY <1>6, <3>2, <3>3
  <2>3. ASSUME NEW q \in Seeders, NEW s \in Seeders,
               NEW r \in seeder'[q].rows, NEW o \in seeder'[s].rows, Clash(r, o)
        PROVE  q = s /\ r = o
    BY <1>5, <2>3 DEF SeedInv, RowsDistinct
  <2> QED BY <2>1, <2>2, <2>3 DEF RowsDistinct, Clash
<1>13. TestsMatch'
  <2>1. \A row \in problem : TestsOf(After(row, p)) = TestsOf(row)
    BY <1>1, BackfillKeepsTheRest DEF TestsOf
  <2>2. ASSUME NEW n \in problem' PROVE n.needs > 0 /\ TestsOf(n) \subseteq tests'
    <3>1. CASE n \in seeder[p].rows
      BY <1>1, <1>3, <3>1 DEF SeedInv, TestsMatch
    <3>2. ASSUME NEW row \in problem, n = After(row, p)
          PROVE  n.needs > 0 /\ TestsOf(n) \subseteq tests'
      BY <1>1, <2>1, <3>2, BackfillKeepsTheRest DEF SeedInv, TestsMatch
    <3> QED BY <1>6, <3>1, <3>2
  <2>3. ASSUME NEW t \in tests' PROVE \E n \in problem' : t \in TestsOf(n)
    <3>1. CASE t \in tests
      BY <1>7, <2>1, <3>1 DEF SeedInv, TestsMatch
    <3>2. CASE t \in seeder[p].tests
      BY <1>8, <3>2 DEF SeedInv, TestsMatch
    <3> QED BY <1>1, <3>1, <3>2
  <2>4. ASSUME NEW q \in Seeders
        PROVE  /\ \A r \in seeder'[q].rows :
                    r.dir \notin seeder'[q].todo =>
                      r.needs > 0 /\ TestsOf(r) \subseteq seeder'[q].tests
               /\ \A t \in seeder'[q].tests : \E r \in seeder'[q].rows : t \in TestsOf(r)
    BY <1>5 DEF SeedInv, TestsMatch
  <2> QED BY <2>2, <2>3, <2>4 DEF TestsMatch, TestsOf
<1>14. InTurn'
  BY <1>5 DEF SeedInv, InTurn, IsNext
<1>15. NoneForgotten'
  <2>1. Shipped' = Shipped
    BY <1>1 DEF Shipped
  <2>2. \A d : Known(d) => Known(d)'
    BY <1>1, <1>7, BackfillKeepsTheRest DEF Known
  <2>3. \A d \in Shipped : Known(d)'
    BY <1>1, <1>3, <1>8, <2>2 DEF SeedInv, NoneForgotten, Open, Known
  <2> QED BY <1>5, <2>1, <2>2, <2>3 DEF SeedInv, NoneForgotten, Open
<1> QED BY <1>9, <1>10, <1>11, <1>12, <1>13, <1>14, <1>15 DEF SeedInv

LEMMA SeedProblemsKeepsInv ==
  ASSUME SeedInv, NEW p \in Seeders, SeedProblems(p)
  PROVE  SeedInv'
PROOF BY ListPackagesKeepsInv, SelectSeededKeepsInv, InsertProblemKeepsInv, InsertTestsKeepsInv,
         CommitKeepsInv DEF SeedProblems

(* What the seed of one process means to everybody else. *)
LEMMA SeedProblemsOnlyAdds ==
  ASSUME SeedInv, NEW p \in Seeders, SeedProblems(p)
  PROVE  /\ UNCHANGED disk
         /\ seeder[p].at \in {"list", "select", "problem", "tests", "finish"}
         /\ \A q \in Seeders \ {p} : seeder'[q] = seeder[q]
         /\ \A row \in problem :
              \E after \in problem' :
                /\ after.dir = row.dir
                /\ \/ after = row
                   \/ row.markdown = None /\ after = [row EXCEPT !.markdown = after.markdown]
<1>1. SeedTypeOK
  BY DEF SeedInv
<1>2. CASE ListPackages(p)
  BY <1>1, <1>2 DEF ListPackages, SeedTypeOK
<1>3. CASE SelectSeeded(p)
  BY <1>1, <1>3 DEF SelectSeeded, SeedTypeOK
<1>4. CASE InsertProblem(p)
  <2>1. UNCHANGED <<disk, problem>> /\ seeder[p].at = "problem"
    BY <1>4 DEF InsertProblem, SeedFails, RolledBack
  <2>2. \A q \in Seeders \ {p} : seeder'[q] = seeder[q]
    BY <1>1, <1>4 DEF InsertProblem, SeedFails, SeedTypeOK
  <2> QED BY <2>1, <2>2
<1>5. CASE InsertTests(p)
  <2>1. UNCHANGED <<disk, problem>> /\ seeder[p].at = "tests"
    BY <1>5 DEF InsertTests, SeedFails, RolledBack
  <2>2. \A q \in Seeders \ {p} : seeder'[q] = seeder[q]
    BY <1>1, <1>5 DEF InsertTests, SeedFails, SeedTypeOK
  <2> QED BY <2>1, <2>2
<1>6. CASE CommitProblems(p)
  <2>1. /\ UNCHANGED disk /\ seeder[p].at = "finish"
        /\ \A q \in Seeders \ {p} : seeder'[q] = seeder[q]
    BY <1>1, <1>6 DEF CommitProblems, SeedTypeOK
  <2>2. \A row \in problem : After(row, p) \in problem'
    BY <1>6 DEF CommitProblems, After
  <2> QED BY <1>1, <2>1, <2>2, BackfillKeepsTheRest
<1> QED BY <1>2, <1>3, <1>4, <1>5, <1>6 DEF SeedProblems

-----------------------------------------------------------------------------
(* The accounts.                                                           *)

(* What LogInAlwaysWorks and GreetedByName say of one step.                *)
NoneRefused ==
  \A b \in Browsers :
    browser[b].at /= "refused" /\ browser'[b].at = "refused" => env.secret = Unset

EachGreeted ==
  \A b \in Browsers :
    /\ browser[b].at = "signed" /\ browser'[b].at = "idle"
    /\ env.secure = "true" => browser[b].via.https
    => \/ \E a \in account :
            a.id = browser'[b].shown /\ Lower[a.name] = Lower[browser[b].name]
       \/ browser[b].cookie /= Unset /\ browser[b].cookie.key /= env.secret

LEMMA StoredIsOnePerson ==
  ASSUME AccountInv, NEW name \in Names, SamePerson(name) = {}, CanCreate,
         account' = Stored(name)
  PROVE  /\ account' \subseteq Account /\ account \subseteq account'
         /\ OnePersonOneAccount'
         /\ [id |-> NextId, name |-> name] \in account'
         /\ NextId \in 1..MaxAccounts
<1>1. NextId \in 1..MaxAccounts
  BY DEF CanCreate, NextId, FreeIds
<1>2. \A a \in account : Lower[a.name] /= Lower[name]
  BY DEF SamePerson
<1>3. account' \subseteq Account /\ account \subseteq account'
  BY <1>1 DEF Stored, AccountInv, AccountsTypeOK, Account
<1>4. OnePersonOneAccount'
  BY <1>2 DEF Stored, AccountInv, OnePersonOneAccount
<1> QED BY <1>1, <1>3, <1>4 DEF Stored

(* A browser that does not change keeps what holds of it when accounts are *)
(* only added.                                                             *)
LEMMA OnlyAccountsAdded ==
  ASSUME AccountInv, account \subseteq account', account' \subseteq Account,
         UNCHANGED <<browser, env>>
  PROVE  AgainIsFound' /\ SignedIn' /\ NoneRefused /\ EachGreeted
<1>1. AgainIsFound'
  BY DEF AccountInv, AgainIsFound, SamePerson
<1>2. SignedIn'
  BY DEF AccountInv, SignedIn, SamePerson
<1> QED BY <1>1, <1>2 DEF NoneRefused, EachGreeted

LEMMA SignsInIsRight ==
  ASSUME AccountInv, NEW b \in Browsers, NEW id \in 1..MaxAccounts, SignsIn(b, id),
         browser[b].at \in {"find", "create", "again"},
         \E a \in account' : a.id = id /\ Lower[a.name] = Lower[browser[b].name],
         account \subseteq account', UNCHANGED env
  PROVE  /\ browser' \in [Browsers -> Browser]
         /\ AgainIsFound' /\ SignedIn' /\ NoneRefused /\ EachGreeted
<1> DEFINE at == IF env.secret = Unset THEN "refused" ELSE "signed"
           cookie == IF env.secret /= Unset /\ Keeps(browser[b].via)
                       THEN [user |-> id, key |-> env.secret] ELSE browser[b].cookie
<1>1. browser \in [Browsers -> Browser] /\ env \in Environment
  BY DEF AccountInv, AccountsTypeOK
<1>2. browser' = [browser EXCEPT ![b] = [browser[b] EXCEPT !.at = at, !.cookie = cookie]]
  BY <1>1 DEF SignsIn, Browser
<1>3. cookie \in Cookie \union {Unset}
  BY <1>1 DEF Cookie, Environment, Browser
<1>4. at \in {"refused", "signed"}
  OBVIOUS
<1>5. (at = "refused" => env.secret = Unset)
      /\ (at = "signed" /\ Keeps(browser[b].via) =>
            cookie = [user |-> id, key |-> env.secret] /\ env.secret \in Secrets)
  BY <1>1 DEF Environment
<1> HIDE DEF at, cookie
<1>6. browser' \in [Browsers -> Browser]
  BY <1>1, <1>2, <1>3, <1>4 DEF Browser
<1>7. /\ browser'[b].at = at /\ browser'[b].cookie = cookie
      /\ browser'[b].name = browser[b].name /\ browser'[b].via = browser[b].via
      /\ \A c \in Browsers \ {b} : browser'[c] = browser[c]
  BY <1>1, <1>2 DEF Browser
<1>8. AgainIsFound'
  BY <1>4, <1>7 DEF AccountInv, AgainIsFound, SamePerson
<1>9. SignedIn'
  <2>1. ASSUME NEW c \in Browsers \ {b}, browser'[c].at = "signed",
               env.secure = "true" => browser'[c].via.https
        PROVE  /\ browser'[c].cookie /= Unset
               /\ \E a \in account' : /\ Lower[a.name] = Lower[browser'[c].name]
                                     /\ a.id = browser'[c].cookie.user
    BY <1>7, <2>1 DEF AccountInv, SignedIn, SamePerson
  <2>2. ASSUME at = "signed", env.secure = "true" => browser[b].via.https
        PROVE  /\ cookie /= Unset
               /\ \E a \in account' : /\ Lower[a.name] = Lower[browser[b].name]
                                     /\ a.id = cookie.user
    <3>1. browser[b].via \in Connections
      BY <1>1 DEF Browser
    <3>2. Keeps(browser[b].via)
      BY <2>2, <3>1, AccountsAssumption DEF Keeps, Secure
    <3>3. cookie = [user |-> id, key |-> env.secret] /\ env.secret \in Secrets
      BY <1>5, <2>2, <3>2
    <3>4. cookie \in Cookie /\ cookie.user = id
      BY <3>3 DEF Cookie
    <3> QED BY <3>4, AccountsAssumption
  <2> QED BY <1>7, <2>1, <2>2 DEF SignedIn, SamePerson
<1>10. NoneRefused
  BY <1>5, <1>7 DEF NoneRefused
<1>11. EachGreeted
  BY <1>4, <1>7 DEF EachGreeted
<1> QED BY <1>6, <1>8, <1>9, <1>10, <1>11

AccountStep == AccountInv' /\ NoneRefused /\ EachGreeted

LEMMA AccountsUnchanged ==
  ASSUME AccountInv, UNCHANGED accountVars
  PROVE  AccountStep
<1>1. AccountInv'
  BY DEF AccountInv, accountVars, AccountsTypeOK, OnePersonOneAccount, AgainIsFound, SignedIn,
         SamePerson
<1> QED BY <1>1 DEF AccountStep, NoneRefused, EachGreeted, accountVars

(* A browser that moves without anybody being signed in. *)
LEMMA BrowserMoves ==
  ASSUME AccountInv, NEW b \in Browsers, NEW state \in Browser,
         browser' = [browser EXCEPT ![b] = state],
         state.at \in {"idle", "find", "create", "again", "clear"},
         state.at = "again" => SamePerson(state.name) /= {},
         browser[b].at /= "signed", UNCHANGED <<account, author, env>>
  PROVE  AccountStep
<1>1. browser \in [Browsers -> Browser]
  BY DEF AccountInv, AccountsTypeOK
<1>2. browser'[b] = state /\ \A c \in Browsers \ {b} : browser'[c] = browser[c]
  BY <1>1
<1>3. AccountsTypeOK'
  BY <1>1 DEF AccountInv, AccountsTypeOK
<1>4. OnePersonOneAccount'
  BY DEF AccountInv, OnePersonOneAccount
<1>5. AgainIsFound'
  BY <1>2 DEF AccountInv, AgainIsFound, SamePerson
<1>6. SignedIn'
  BY <1>2 DEF AccountInv, SignedIn, SamePerson
<1>7. NoneRefused /\ EachGreeted
  BY <1>2 DEF NoneRefused, EachGreeted
<1> QED BY <1>3, <1>4, <1>5, <1>6, <1>7 DEF AccountInv, AccountStep

LEMMA CurrentUserIsTyped ==
  ASSUME NEW cookie \in Cookie \union {Unset}
  PROVE  CurrentUser(cookie) \in (1..MaxAccounts) \union {Unset}
PROOF BY DEF CurrentUser, Verified, Cookie

LEMMA OpenLogInKeepsInv ==
  ASSUME AccountInv, NEW b \in Browsers, NEW name \in Names, OpenLogIn(b, name)
  PROVE  AccountStep
<1> DEFINE state == [browser[b] EXCEPT !.at = "find", !.name = name, !.shown = Unset]
<1>1. browser \in [Browsers -> Browser]
  BY DEF AccountInv, AccountsTypeOK
<1>2. browser' = [browser EXCEPT ![b] = state]
  BY <1>1 DEF OpenLogIn, Browser
<1>3. state \in Browser /\ state.at = "find"
  BY <1>1 DEF Browser
<1> QED BY <1>2, <1>3, BrowserMoves DEF OpenLogIn

LEMMA FindUserKeepsInv ==
  ASSUME AccountInv, NEW b \in Browsers, FindUser(b)
  PROVE  AccountStep
<1>1. /\ browser \in [Browsers -> Browser] /\ account \subseteq Account
      /\ UNCHANGED <<account, author, env>> /\ browser[b].at = "find"
  BY DEF AccountInv, AccountsTypeOK, FindUser
<1>2. ASSUME NEW a \in SamePerson(browser[b].name), SignsIn(b, a.id)
      PROVE  AccountStep
  <2>1. /\ a \in account /\ a.id \in 1..MaxAccounts
        /\ Lower[a.name] = Lower[browser[b].name]
    BY <1>1 DEF SamePerson, Account
  <2>2. /\ browser' \in [Browsers -> Browser]
        /\ AgainIsFound' /\ SignedIn' /\ NoneRefused /\ EachGreeted
    BY <1>1, <1>2, <2>1, SignsInIsRight
  <2> QED BY <1>1, <2>2 DEF AccountStep, AccountInv, AccountsTypeOK, OnePersonOneAccount
<1>3. CASE browser' = [browser EXCEPT ![b].at = "create"]
  <2> DEFINE state == [browser[b] EXCEPT !.at = "create"]
  <2>1. browser' = [browser EXCEPT ![b] = state]
    BY <1>3
  <2>2. state \in Browser /\ state.at = "create"
    BY <1>1 DEF Browser
  <2> QED BY <1>1, <2>1, <2>2, BrowserMoves
<1> QED BY <1>2, <1>3 DEF FindUser

LEMMA CreateUserKeepsInv ==
  ASSUME AccountInv, NEW b \in Browsers, CreateUser(b)
  PROVE  AccountStep
<1> DEFINE name == browser[b].name
<1>1. /\ browser \in [Browsers -> Browser] /\ name \in Names
      /\ UNCHANGED <<author, env>> /\ browser[b].at = "create"
  BY DEF AccountInv, AccountsTypeOK, CreateUser, Browser
<1>2. ASSUME SamePerson(name) = {}, CanCreate, account' = Stored(name), SignsIn(b, NextId)
      PROVE  AccountStep
  <2>1. /\ account' \subseteq Account /\ account \subseteq account'
        /\ OnePersonOneAccount'
        /\ [id |-> NextId, name |-> name] \in account'
        /\ NextId \in 1..MaxAccounts
    BY <1>1, <1>2, StoredIsOnePerson
  <2>2. \E a \in account' : a.id = NextId /\ Lower[a.name] = Lower[name]
    BY <2>1
  <2>3. /\ browser' \in [Browsers -> Browser]
        /\ AgainIsFound' /\ SignedIn' /\ NoneRefused /\ EachGreeted
    BY <1>1, <1>2, <2>1, <2>2, SignsInIsRight
  <2> QED BY <1>1, <2>1, <2>3 DEF AccountStep, AccountInv, AccountsTypeOK
<1>3. ASSUME SamePerson(name) /= {}, browser' = [browser EXCEPT ![b].at = "again"],
             UNCHANGED account
      PROVE  AccountStep
  <2> DEFINE state == [browser[b] EXCEPT !.at = "again"]
  <2>1. browser' = [browser EXCEPT ![b] = state]
    BY <1>3
  <2>2. state \in Browser /\ state.at = "again" /\ state.name = name
    BY <1>1 DEF Browser
  <2> QED BY <1>1, <1>3, <2>1, <2>2, BrowserMoves
<1> QED BY <1>2, <1>3 DEF CreateUser

(* The second look always finds: an account that was there is there. *)
LEMMA FindUserAgainKeepsInv ==
  ASSUME AccountInv, NEW b \in Browsers, FindUserAgain(b)
  PROVE  AccountStep
<1>1. /\ browser \in [Browsers -> Browser] /\ account \subseteq Account
      /\ UNCHANGED <<account, author, env>> /\ browser[b].at = "again"
  BY DEF AccountInv, AccountsTypeOK, FindUserAgain
<1>2. PICK a \in SamePerson(browser[b].name) : SignsIn(b, a.id)
  BY <1>1 DEF FindUserAgain, FoundAgain, AccountInv, AgainIsFound
<1>3. /\ a \in account /\ a.id \in 1..MaxAccounts
      /\ Lower[a.name] = Lower[browser[b].name]
  BY <1>1 DEF SamePerson, Account
<1>4. /\ browser' \in [Browsers -> Browser]
      /\ AgainIsFound' /\ SignedIn' /\ NoneRefused /\ EachGreeted
  BY <1>1, <1>2, <1>3, SignsInIsRight
<1> QED BY <1>1, <1>4 DEF AccountStep, AccountInv, AccountsTypeOK, OnePersonOneAccount

LEMMA LeaveFormKeepsInv ==
  ASSUME AccountInv, NEW b \in Browsers, LeaveForm(b)
  PROVE  AccountStep
<1> DEFINE shown == IF browser[b].at = "signed" THEN CurrentUser(browser[b].cookie)
                                                ELSE browser[b].shown
           state == [browser[b] EXCEPT !.at = "idle", !.shown = shown]
<1>1. /\ browser \in [Browsers -> Browser]
      /\ UNCHANGED <<account, author, env>> /\ browser[b].at \in {"signed", "refused"}
  BY DEF AccountInv, AccountsTypeOK, LeaveForm
<1>2. browser' = [browser EXCEPT ![b] = state]
  BY <1>1 DEF LeaveForm, Browser
<1>3. shown \in (1..MaxAccounts) \union {Unset}
  BY <1>1, CurrentUserIsTyped DEF Browser
<1>4. state \in Browser /\ state.at = "idle" /\ state.shown = shown
  BY <1>1, <1>3 DEF Browser
<1>5. CASE browser[b].at = "refused"
  BY <1>1, <1>2, <1>4, <1>5, BrowserMoves
<1>6. CASE browser[b].at = "signed"
  <2>1. browser'[b] = state /\ \A c \in Browsers \ {b} : browser'[c] = browser[c]
    BY <1>1, <1>2
  <2>2. shown = CurrentUser(browser[b].cookie)
    BY <1>6
  <2> HIDE DEF state, shown
  <2>3. AccountsTypeOK' /\ OnePersonOneAccount'
    BY <1>1, <1>2, <1>4 DEF AccountInv, AccountsTypeOK, OnePersonOneAccount
  <2>4. AgainIsFound' /\ SignedIn'
    <3>1. AgainIsFound'
      BY <1>1, <1>4, <2>1 DEF AccountInv, AgainIsFound, SamePerson
    <3>2. SignedIn'
      BY <1>1, <1>4, <2>1 DEF AccountInv, SignedIn, SamePerson
    <3> QED BY <3>1, <3>2
  <2>5. NoneRefused
    BY <1>4, <2>1 DEF NoneRefused
  <2>6. EachGreeted
    <3> SUFFICES ASSUME env.secure = "true" => browser[b].via.https,
                        browser[b].cookie.key = env.secret
                 PROVE  \E a \in account :
                          a.id = shown /\ Lower[a.name] = Lower[browser[b].name]
      BY <1>4, <1>6, <2>1 DEF EachGreeted, AccountInv, SignedIn
    <3>1. /\ browser[b].cookie /= Unset
          /\ \E a \in SamePerson(browser[b].name) : a.id = browser[b].cookie.user
      BY <1>6 DEF AccountInv, SignedIn
    <3> QED BY <2>2, <3>1 DEF CurrentUser, Verified, SamePerson
  <2> QED BY <2>3, <2>4, <2>5, <2>6 DEF AccountStep, AccountInv
<1> QED BY <1>1, <1>5, <1>6

LEMMA SignOutAndPagesKeepInv ==
  ASSUME AccountInv, NEW b \in Browsers, PressSignOut(b) \/ ClearCookie(b) \/ LoadPage(b)
  PROVE  AccountStep
<1>1. browser \in [Browsers -> Browser]
  BY DEF AccountInv, AccountsTypeOK
<1>2. CASE PressSignOut(b)
  <2> DEFINE state == [browser[b] EXCEPT !.at = "clear"]
  <2>1. browser' = [browser EXCEPT ![b] = state]
    BY <1>2 DEF PressSignOut
  <2>2. state \in Browser /\ state.at = "clear"
    BY <1>1 DEF Browser
  <2> QED BY <1>2, <2>1, <2>2, BrowserMoves DEF PressSignOut
<1>3. CASE ClearCookie(b)
  <2> DEFINE cookie == IF Keeps(browser[b].via) THEN Unset ELSE browser[b].cookie
             state == [browser[b] EXCEPT !.at = "idle", !.cookie = cookie,
                                         !.shown = CurrentUser(cookie)]
  <2>1. browser' = [browser EXCEPT ![b] = state]
    BY <1>1, <1>3 DEF ClearCookie, Browser
  <2>2. cookie \in Cookie \union {Unset}
    BY <1>1 DEF Browser
  <2>3. CurrentUser(cookie) \in (1..MaxAccounts) \union {Unset}
    BY <2>2, CurrentUserIsTyped
  <2> HIDE DEF cookie
  <2>4. state \in Browser /\ state.at = "idle"
    BY <1>1, <2>2, <2>3 DEF Browser
  <2> QED BY <1>3, <2>1, <2>4, BrowserMoves DEF ClearCookie
<1>4. CASE LoadPage(b)
  <2> DEFINE shown == CurrentUser(browser[b].cookie)
             state == [browser[b] EXCEPT !.shown = shown]
  <2>1. browser' = [browser EXCEPT ![b] = state] /\ browser[b].at = "idle"
    BY <1>1, <1>4 DEF LoadPage, Browser
  <2>2. shown \in (1..MaxAccounts) \union {Unset}
    BY <1>1, CurrentUserIsTyped DEF Browser
  <2> HIDE DEF shown
  <2>3. state \in Browser /\ state.at = "idle"
    BY <1>1, <2>1, <2>2 DEF Browser
  <2> QED BY <1>4, <2>1, <2>3, BrowserMoves DEF LoadPage
<1> QED BY <1>2, <1>3, <1>4

(* Whoever makes the account of the batches, a person of that name may be  *)
(* there.                                                                  *)
LEMMA BenchmarkMayBeMade ==
  ASSUME AccountInv, UNCHANGED <<browser, env>>,
         author' \in {"idle", "read", "find", "create", "reread", "missing"},
         \/ UNCHANGED account
         \/ SamePerson(Benchmark) = {} /\ CanCreate /\ account' = Stored(Benchmark)
  PROVE  AccountStep /\ account \subseteq account'
<1>1. /\ account' \subseteq Account /\ account \subseteq account'
      /\ OnePersonOneAccount'
  <2>1. CASE UNCHANGED account
    BY <2>1 DEF AccountInv, AccountsTypeOK, OnePersonOneAccount
  <2>2. CASE SamePerson(Benchmark) = {} /\ CanCreate /\ account' = Stored(Benchmark)
    BY <2>2, StoredIsOnePerson, AccountsAssumption
  <2> QED BY <2>1, <2>2
<1>2. AgainIsFound' /\ SignedIn' /\ NoneRefused /\ EachGreeted
  BY <1>1, OnlyAccountsAdded
<1> QED BY <1>1, <1>2 DEF AccountStep, AccountInv, AccountsTypeOK

LEMMA BatchKeepsInv ==
  ASSUME AccountInv, StartBatch \/ AuthorStep
  PROVE  AccountStep /\ account \subseteq account'
<1>1. UNCHANGED <<browser, env>>
  BY DEF StartBatch, AuthorStep
<1>2. author' \in {"idle", "read", "find", "create", "reread", "missing"}
  BY DEF StartBatch, AuthorStep
<1>3. \/ UNCHANGED account
      \/ SamePerson(Benchmark) = {} /\ CanCreate /\ account' = Stored(Benchmark)
  BY DEF StartBatch, AuthorStep
<1> QED BY <1>1, <1>2, <1>3, BenchmarkMayBeMade

(* Servers stop, and maybe the secret is another one afterwards.           *)
LEMMA DropKeepsInv ==
  ASSUME AccountInv, NEW another, Drop(another), UNCHANGED account,
         env' \in Environment, env'.secure = env.secure
  PROVE  AccountStep
<1>1. browser \in [Browsers -> Browser]
  BY DEF AccountInv, AccountsTypeOK
<1>2. ASSUME NEW b \in Browsers
      PROVE  /\ browser'[b] \in Browser
             /\ browser'[b].via = browser[b].via /\ browser'[b].name = browser[b].name
             /\ browser'[b].cookie = browser[b].cookie
             /\ \/ browser'[b].at = "idle" /\ browser[b].at \in {"find", "create", "again", "clear"}
                \/ browser'[b] = browser[b]
  <2>1. browser'[b] = browser[b] \/ browser'[b] = Interrupted(browser[b])
    BY DEF Drop
  <2>2. CASE browser[b].at \in {"find", "create", "again", "clear"}
    <3>1. browser'[b] = browser[b] \/ browser'[b] = [browser[b] EXCEPT !.at = "idle"]
      BY <2>1, <2>2 DEF Interrupted
    <3> QED BY <1>1, <2>2, <3>1 DEF Browser
  <2>3. CASE browser[b].at \notin {"find", "create", "again", "clear"}
    BY <1>1, <2>1, <2>3 DEF Interrupted
  <2> QED BY <2>2, <2>3
<1>3. AccountsTypeOK'
  BY <1>2 DEF AccountInv, AccountsTypeOK, Drop
<1>4. OnePersonOneAccount' /\ AgainIsFound'
  BY <1>2 DEF AccountInv, OnePersonOneAccount, AgainIsFound, SamePerson
<1>5. SignedIn'
  <2> SUFFICES ASSUME NEW b \in Browsers, browser'[b].at = "signed",
                      env.secure = "true" => browser'[b].via.https
               PROVE  /\ browser'[b].cookie /= Unset
                      /\ \E a \in account : /\ Lower[a.name] = Lower[browser'[b].name]
                                            /\ a.id = browser'[b].cookie.user
    BY DEF SignedIn, SamePerson
  <2>1. browser'[b] = browser[b]
    BY <1>2
  <2> QED BY <2>1 DEF AccountInv, SignedIn, SamePerson
<1>6. NoneRefused /\ EachGreeted
  BY <1>2 DEF NoneRefused, EachGreeted
<1> QED BY <1>3, <1>4, <1>5, <1>6 DEF AccountStep, AccountInv

-----------------------------------------------------------------------------
(* The whole site.                                                         *)

(* What LeftAsIs says of one step. *)
ProblemsLeft ==
  \A row \in problem :
    \E after \in problem' :
      \/ after = row
      \/ row.markdown = None /\ after = [row EXCEPT !.markdown = after.markdown]

SiteStep == SiteInv' /\ NoneRefused /\ EachGreeted /\ ProblemsLeft

LEMMA SeedUnchanged ==
  ASSUME SeedInv, UNCHANGED seedVars
  PROVE  SeedInv' /\ ProblemsLeft
<1> USE DEF seedVars
<1>1. SeedTypeOK' /\ HoldsNothing' /\ HeldFromDisk' /\ TodoIsNew'
  BY DEF SeedInv, SeedTypeOK, HoldsNothing, HeldFromDisk, TodoIsNew, Open
<1>2. RowsDistinct' /\ TestsMatch'
  <2>1. RowsDistinct /\ TestsMatch
    BY DEF SeedInv
  <2>2. RowsDistinct'
    BY <2>1 DEF RowsDistinct, Clash
  <2>3. TestsMatch'
    BY <2>1 DEF TestsMatch, TestsOf
  <2> QED BY <2>2, <2>3
<1>3. InTurn' /\ NoneForgotten'
  BY DEF SeedInv, InTurn, NoneForgotten, Open, Known, Shipped, IsNext
<1>4. ProblemsLeft
  BY DEF ProblemsLeft
<1> QED BY <1>1, <1>2, <1>3, <1>4 DEF SeedInv

LEMMA SpendIsTyped ==
  ASSUME NEW bound \in {"ships", "rotations", "byHand", "kills", "logIns", "batches"},
         left \in Budget, Spend(bound), left[bound] > 0
  PROVE  left' \in Budget
PROOF BY DEF Spend, Budget

LEMMA StillServes ==
  ASSUME ServesWhatItShips, UNCHANGED disk, account \subseteq account',
         \A row \in problem : \E after \in problem' : after.dir = row.dir,
         container' = "serving" => container = "serving"
  PROVE  ServesWhatItShips'
<1> SUFFICES ASSUME container' = "serving"
             PROVE  /\ \A d \in Shipped : \E row \in problem' : row.dir = d
                    /\ \E a \in account' : Lower[a.name] = Lower[Benchmark]
  BY DEF ServesWhatItShips, Shipped, SamePerson
<1> QED BY DEF ServesWhatItShips, SamePerson

(* Steps that neither touch the database nor the container's state.        *)
LEMMA ContainerUnchanged ==
  ASSUME ContainerInv, UNCHANGED <<seedVars, container>>, account \subseteq account',
         migrated' \in BOOLEAN, checkout' \in BOOLEAN,
         runner' \in {"waiting", "exited", "running"}, left' \in Budget
  PROVE  ContainerInv'
<1>1. ServesWhatItShips'
  BY StillServes DEF ContainerInv, seedVars
<1> QED BY <1>1 DEF ContainerInv, seedVars

LEMMA PeopleKeepInv ==
  ASSUME SiteInv, NEW b \in Browsers,
         (\E name \in Names : LogIn(b, name)) \/ Served(b) \/ Press(b)
  PROVE  SiteStep
<1>1. CASE \E name \in Names : LogIn(b, name)
  <2>1. PICK name \in Names : LogIn(b, name)
    BY <1>1
  <2>2. /\ UNCHANGED <<seedVars, container>> /\ UNCHANGED <<migrated, checkout, runner>>
        /\ UNCHANGED account /\ left' \in Budget
    BY <2>1, SpendIsTyped DEF LogIn, OpenLogIn, seedVars, SiteInv, ContainerInv
  <2>3. AccountStep
    BY <2>1, OpenLogInKeepsInv DEF LogIn, SiteInv
  <2>4. ContainerInv'
    BY <2>2, ContainerUnchanged DEF SiteInv, ContainerInv
  <2> QED BY <2>2, <2>3, <2>4, SeedUnchanged DEF SiteStep, SiteInv, AccountStep
<1>2. CASE Served(b) \/ Press(b)
  <2>1. UNCHANGED <<seedVars, container>> /\ UNCHANGED <<migrated, checkout, runner, left>>
    BY <1>2 DEF Served, Press, seedVars, siteVars
  <2>2. account \subseteq account'
    BY <1>2 DEF Served, LogInStep, FindUser, CreateUser, FindUserAgain, LeaveForm, ClearCookie,
       Stored, Press, PressSignOut, LoadPage
  <2>3. AccountStep
    BY <1>2, FindUserKeepsInv, CreateUserKeepsInv, FindUserAgainKeepsInv, LeaveFormKeepsInv,
       SignOutAndPagesKeepInv DEF Served, Press, LogInStep, SiteInv
  <2>4. ContainerInv'
    BY <2>1, <2>2, ContainerUnchanged DEF SiteInv, ContainerInv
  <2> QED BY <2>1, <2>3, <2>4, SeedUnchanged DEF SiteStep, SiteInv, AccountStep
<1> QED BY <1>1, <1>2

LEMMA BatchesKeepInv ==
  ASSUME SiteInv, Batch \/ BatchAuthor
  PROVE  SiteStep
<1>1. /\ UNCHANGED <<seedVars, container>> /\ UNCHANGED <<migrated, checkout, runner>>
      /\ left' \in Budget
  <2>1. CASE Batch
    BY <2>1, SpendIsTyped DEF Batch, seedVars, SiteInv, ContainerInv
  <2>2. CASE BatchAuthor
    BY <2>2 DEF BatchAuthor, seedVars, siteVars, SiteInv, ContainerInv
  <2> QED BY <2>1, <2>2
<1>2. AccountStep /\ account \subseteq account'
  BY BatchKeepsInv DEF Batch, BatchAuthor, SiteInv
<1>3. ContainerInv'
  BY <1>1, <1>2, ContainerUnchanged DEF SiteInv, ContainerInv
<1> QED BY <1>1, <1>2, <1>3, SeedUnchanged DEF SiteStep, SiteInv, AccountStep

(* Steps of the container, the runner and the operator that leave the     *)
(* accounts and the problems alone.                                        *)
LEMMA OthersKeepInv ==
  ASSUME SiteInv, StartContainer \/ ServeCheckout \/ StartRunner \/ KillRunner
  PROVE  SiteStep
<1>1. /\ UNCHANGED seedVars /\ UNCHANGED accountVars
      /\ migrated' = migrated /\ checkout' \in BOOLEAN /\ left' \in Budget
      /\ runner' \in {"waiting", "exited", "running"}
      /\ \/ container' = container
         \/ container = "down" /\ container' = "migrate"
  <2>1. CASE StartContainer
    BY <2>1 DEF StartContainer, seedVars, accountVars, SiteInv, ContainerInv
  <2>2. CASE ServeCheckout
    BY <2>2 DEF ServeCheckout, seedVars, accountVars, SiteInv, ContainerInv
  <2>3. CASE StartRunner
    BY <2>3 DEF StartRunner, seedVars, accountVars, SiteInv, ContainerInv
  <2>4. CASE KillRunner
    BY <2>4, SpendIsTyped DEF KillRunner, seedVars, accountVars, SiteInv, ContainerInv
  <2> QED BY <2>1, <2>2, <2>3, <2>4
<1>2. ServesWhatItShips'
  BY <1>1, StillServes DEF SiteInv, ContainerInv, seedVars, accountVars
<1>3. ContainerInv'
  BY <1>1, <1>2 DEF SiteInv, ContainerInv, seedVars
<1> QED BY <1>1, <1>3, SeedUnchanged, AccountsUnchanged DEF SiteStep, SiteInv, AccountStep

LEMMA ProblemsAreLeft ==
  ASSUME UNCHANGED problem
  PROVE  ProblemsLeft
PROOF BY DEF ProblemsLeft

LEMMA GotoMoves ==
  ASSUME SeedTypeOK, NEW p \in Seeders, NEW at, Goto(p, at)
  PROVE  seeder'[p].at = at /\ \A q \in Seeders \ {p} : seeder'[q] = seeder[q]
PROOF BY DEF Goto, SeedTypeOK, SeederState

LEMMA MigrateKeepsInv ==
  ASSUME SiteInv, Migrate
  PROVE  SiteStep
<1>1. /\ SeedInv /\ SeedTypeOK /\ Entrypoint \in Seeders /\ Goto(Entrypoint, "list")
      /\ UNCHANGED <<disk, problem, tests>> /\ UNCHANGED accountVars
      /\ seeder[Entrypoint].at = "idle"
  BY SiteAssumption, SeederIsTyped DEF Migrate, SiteInv, SeedInv, ContainerInv
<1>2. SeedInv'
  BY <1>1, GotoKeepsInv DEF Steps
<1>3. seeder'[Entrypoint].at = "list"
  BY <1>1, GotoMoves
<1>4. ContainerInv'
  BY <1>3 DEF Migrate, SiteInv, ContainerInv, ServesWhatItShips
<1> QED BY <1>1, <1>2, <1>4, AccountsUnchanged, ProblemsAreLeft
        DEF SiteStep, SiteInv, AccountStep

(* The container while process p goes on with its seed or ends it. *)
LEMMA ContainerFollowsSeed ==
  ASSUME ContainerInv, NEW p \in Seeders, UNCHANGED disk, account \subseteq account',
         seeder[p].at /= "idle", \A q \in Seeders \ {p} : seeder'[q] = seeder[q],
         \A row \in problem : \E after \in problem' : after.dir = row.dir,
         NEW succeeded \in BOOLEAN,
         IF seeder'[p].at = "idle" THEN Exited(p, succeeded) ELSE UNCHANGED container,
         succeeded =>
           (\A d \in Shipped : \E row \in problem' : row.dir = d) /\ SamePerson(Benchmark)' /= {},
         UNCHANGED <<migrated, checkout, runner>>, left' \in Budget
  PROVE  ContainerInv'
<1>1. Entrypoint \in Seeders
  BY SiteAssumption
<1>2. CASE p = Entrypoint
  <2>1. container = "seed"
    BY <1>2 DEF ContainerInv
  <2>2. CASE seeder'[p].at = "idle" /\ succeeded
    <3>1. container' = "serving"
      BY <1>2, <2>2 DEF Exited, Handover
    <3>2. ServesWhatItShips'
      BY <2>2, <3>1 DEF ServesWhatItShips, Shipped, SamePerson
    <3> QED BY <1>2, <2>2, <3>1, <3>2 DEF ContainerInv
  <2>3. CASE seeder'[p].at = "idle" /\ ~succeeded
    <3>1. container' = "down"
      BY <1>2, <2>3 DEF Exited, Handover
    <3> QED BY <1>2, <2>3, <3>1 DEF ContainerInv, ServesWhatItShips
  <2>4. CASE seeder'[p].at /= "idle"
    <3>1. container' = "seed"
      BY <2>1, <2>4
    <3> QED BY <1>2, <2>4, <3>1 DEF ContainerInv, ServesWhatItShips
  <2> QED BY <2>2, <2>3, <2>4
<1>3. CASE p /= Entrypoint
  <2>1. container' = container /\ seeder'[Entrypoint] = seeder[Entrypoint]
    BY <1>1, <1>3 DEF Exited
  <2>2. ServesWhatItShips'
    BY <2>1, StillServes DEF ContainerInv
  <2> QED BY <2>1, <2>2 DEF ContainerInv
<1> QED BY <1>2, <1>3

LEMMA SeedStepKeepsInv ==
  ASSUME SiteInv, NEW p \in Seeders, SeedStep(p)
  PROVE  SiteStep
<1>1. /\ SeedInv /\ SeedProblems(p) /\ UNCHANGED accountVars
      /\ UNCHANGED <<migrated, checkout, runner>> /\ left' \in Budget
      /\ IF seeder'[p].at = "idle" THEN Exited(p, FALSE) ELSE UNCHANGED container
  BY DEF SeedStep, SiteInv, ContainerInv
<1>2. SeedInv'
  BY <1>1, SeedProblemsKeepsInv
<1>3. /\ UNCHANGED disk /\ seeder[p].at /= "idle"
      /\ \A q \in Seeders \ {p} : seeder'[q] = seeder[q]
      /\ \A row \in problem : \E after \in problem' : after.dir = row.dir
      /\ ProblemsLeft
  <2>1. /\ UNCHANGED disk
        /\ seeder[p].at \in {"list", "select", "problem", "tests", "finish"}
        /\ \A q \in Seeders \ {p} : seeder'[q] = seeder[q]
        /\ \A row \in problem :
             \E after \in problem' :
               /\ after.dir = row.dir
               /\ \/ after = row
                  \/ row.markdown = None /\ after = [row EXCEPT !.markdown = after.markdown]
    BY <1>1, SeedProblemsOnlyAdds
  <2> QED BY <2>1 DEF ProblemsLeft
<1>4. account \subseteq account'
  BY <1>1 DEF accountVars
<1>5. ContainerInv'
  BY <1>1, <1>3, <1>4, ContainerFollowsSeed DEF SiteInv
<1> QED BY <1>1, <1>2, <1>3, <1>5, AccountsUnchanged DEF SiteStep, SiteInv, AccountStep

LEMMA SeedAccountKeepsInv ==
  ASSUME SiteInv, NEW p \in Seeders, SeedAccount(p)
  PROVE  SiteStep
<1> DEFINE there == SamePerson(Benchmark) /= {}
<1>1. /\ SeedInv /\ SeedTypeOK /\ AccountInv /\ ContainerInv
      /\ UNCHANGED <<disk, problem, tests>> /\ UNCHANGED <<browser, author, env>>
      /\ UNCHANGED <<migrated, checkout, runner>> /\ left' \in Budget
      /\ seeder[p].at \in {"find", "create"}
  BY DEF SeedAccount, SiteInv, SeedInv, ContainerInv
<1>2. \A d \in Shipped : \E row \in problem' : row.dir = d
  BY <1>1 DEF SeedInv, NoneForgotten, Known
<1>3. PICK next \in {"create", "idle"}, succeeded \in BOOLEAN :
        /\ Goto(p, next)
        /\ IF next = "idle" THEN Exited(p, succeeded) ELSE UNCHANGED container
        /\ \/ UNCHANGED account
           \/ SamePerson(Benchmark) = {} /\ CanCreate /\ account' = Stored(Benchmark)
        /\ succeeded => there \/ account' = Stored(Benchmark)
        /\ succeeded /\ there => UNCHANGED account
  <2>1. CASE seeder[p].at = "find" /\ ~there
    BY <2>1 DEF SeedAccount
  <2>2. CASE seeder[p].at = "find" /\ there
    BY <2>2 DEF SeedAccount
  <2>3. CASE seeder[p].at = "create" /\ there
    BY <2>3 DEF SeedAccount
  <2>4. CASE seeder[p].at = "create" /\ ~there
    BY <2>4 DEF SeedAccount
  <2> QED BY <1>1, <2>1, <2>2, <2>3, <2>4
<1>4. SeedInv'
  BY <1>1, <1>3, GotoKeepsInv DEF Steps
<1>5. seeder'[p].at = next /\ \A q \in Seeders \ {p} : seeder'[q] = seeder[q]
  BY <1>1, <1>3, GotoMoves
<1>6. AccountStep /\ account \subseteq account'
  BY <1>1, <1>3, BenchmarkMayBeMade DEF AccountInv, AccountsTypeOK
<1>7. succeeded => SamePerson(Benchmark)' /= {}
  <2>1. CASE there
    <3>1. PICK a \in account : Lower[a.name] = Lower[Benchmark]
      BY <2>1 DEF SamePerson
    <3> QED BY <1>6, <3>1 DEF SamePerson
  <2>2. CASE account' = Stored(Benchmark)
    <3>1. [id |-> NextId, name |-> Benchmark] \in account'
      BY <2>2 DEF Stored
    <3> QED BY <3>1 DEF SamePerson
  <2> QED BY <1>3, <2>1, <2>2
<1>8. ContainerInv'
  BY <1>1, <1>2, <1>3, <1>5, <1>6, <1>7, ContainerFollowsSeed
<1> QED BY <1>1, <1>4, <1>6, <1>8, ProblemsAreLeft DEF SiteStep, SiteInv, AccountStep

LEMMA SeedsByHandKeepInv ==
  ASSUME SiteInv, NEW p \in Seeders, SeedByHand(p) \/ KillByHand(p)
  PROVE  SiteStep
<1>1. /\ SeedInv /\ SeedTypeOK /\ ContainerInv /\ p /= Entrypoint /\ Entrypoint \in Seeders
      /\ UNCHANGED accountVars /\ UNCHANGED <<migrated, container, checkout, runner>>
  BY SiteAssumption DEF SeedByHand, KillByHand, SiteInv, SeedInv
<1>2. left' \in Budget
  BY <1>1, SpendIsTyped DEF SeedByHand, KillByHand, ContainerInv
<1>3. /\ SeedInv' /\ UNCHANGED <<disk, problem, tests>>
      /\ seeder'[Entrypoint] = seeder[Entrypoint]
  <2>1. CASE SeedByHand(p) /\ migrated
    <3>1. /\ Goto(p, "list") /\ seeder[p].at = "idle" /\ UNCHANGED <<disk, problem, tests>>
      BY <2>1 DEF SeedByHand
    <3> QED BY <1>1, <3>1, GotoKeepsInv, GotoMoves DEF Steps
  <2>2. CASE SeedByHand(p) /\ ~migrated
    <3>1. UNCHANGED seedVars
      BY <2>2 DEF SeedByHand, seedVars
    <3> QED BY <1>1, <3>1, SeedUnchanged DEF seedVars
  <2>3. CASE KillByHand(p)
    <3>1. SeedFails(p) /\ UNCHANGED disk
      BY <2>3 DEF KillByHand
    <3>2. seeder'[Entrypoint] = seeder[Entrypoint]
      BY <1>1, <3>1 DEF SeedFails, SeedTypeOK
    <3> QED BY <1>1, <3>1, <3>2, SeedFailsKeepsInv
  <2> QED BY <2>1, <2>2, <2>3
<1>4. ServesWhatItShips'
  BY <1>1, <1>3, StillServes DEF ContainerInv, accountVars
<1>5. ContainerInv'
  BY <1>1, <1>2, <1>3, <1>4 DEF ContainerInv
<1> QED BY <1>1, <1>3, <1>5, AccountsUnchanged, ProblemsAreLeft
        DEF SiteStep, SiteInv, AccountStep

LEMMA KillContainerKeepsInv ==
  ASSUME SiteInv, KillContainer
  PROVE  SiteStep
<1>1. /\ SeedInv /\ ContainerInv /\ Entrypoint \in Seeders /\ container' = "down"
      /\ Drop(checkout) /\ UNCHANGED <<disk, account, env, migrated, checkout, runner>>
      /\ left' \in Budget
  BY SpendIsTyped, SiteAssumption DEF KillContainer, SiteInv, ContainerInv
<1>2. SeedInv' /\ UNCHANGED problem /\ seeder'[Entrypoint].at = "idle"
  <2>1. CASE container = "seed"
    <3>1. SeedFails(Entrypoint)
      BY <2>1 DEF KillContainer
    <3> QED BY <1>1, <3>1, SeedFailsKeepsInv
  <2>2. CASE container /= "seed"
    <3>1. UNCHANGED seedVars
      BY <1>1, <2>2 DEF KillContainer, seedVars
    <3>2. seeder[Entrypoint].at = "idle"
      BY <1>1, <2>2 DEF ContainerInv
    <3> QED BY <1>1, <3>1, <3>2, SeedUnchanged DEF seedVars
  <2> QED BY <2>1, <2>2
<1>3. AccountStep
  BY <1>1, DropKeepsInv DEF SiteInv, AccountInv, AccountsTypeOK
<1>4. ContainerInv'
  BY <1>1, <1>2 DEF ContainerInv, ServesWhatItShips
<1> QED BY <1>2, <1>3, <1>4, ProblemsAreLeft DEF SiteStep, SiteInv, AccountStep

(* Nothing of the seed depends on the disk while no seed runs. *)
LEMMA DiskMayChange ==
  ASSUME SeedInv, \A p \in Seeders : seeder[p].at = "idle",
         UNCHANGED <<problem, tests, seeder>>,
         disk' \in [Directories -> Package \union {None}]
  PROVE  SeedInv'
<1>1. SeedTypeOK' /\ HoldsNothing' /\ InTurn' /\ TodoIsNew' /\ NoneForgotten'
  BY DEF SeedInv, SeedTypeOK, HoldsNothing, InTurn, TodoIsNew, NoneForgotten, Open
<1>2. HeldFromDisk'
  BY DEF SeedInv, HoldsNothing, HeldFromDisk, Open
<1>3. RowsDistinct'
  BY DEF SeedInv, RowsDistinct, Clash
<1>4. TestsMatch'
  BY DEF SeedInv, TestsMatch, TestsOf
<1> QED BY <1>1, <1>2, <1>3, <1>4 DEF SeedInv

LEMMA OperatorKeepsInv ==
  ASSUME SiteInv,
         \/ \E shipment \in Shipments : Ship(shipment)
         \/ \E secret \in Secrets \union {Unset} : Rotate(secret)
  PROVE  SiteStep
<1>1. /\ SeedInv /\ ContainerInv /\ Entrypoint \in Seeders /\ Stopped /\ left' \in Budget
  BY SpendIsTyped, SiteAssumption DEF Ship, Rotate, SiteInv, ContainerInv
<1>2. /\ \A p \in Seeders : seeder[p].at = "idle"
      /\ UNCHANGED <<problem, tests, seeder>> /\ UNCHANGED <<account, migrated, runner>>
      /\ container' = "down" /\ checkout' = FALSE /\ Drop(FALSE)
  BY <1>1 DEF Stopped
<1>3. disk' \in [Directories -> Package \union {None}]
  BY <1>1, SiteAssumption DEF Ship, Rotate, SeedInv, SeedTypeOK
<1>4. env' \in Environment /\ env'.secure = env.secure
  <2>1. env \in Environment
    BY DEF SiteInv, AccountInv, AccountsTypeOK
  <2> QED BY <2>1 DEF Ship, Rotate, Environment
<1>5. SeedInv'
  BY <1>1, <1>2, <1>3, DiskMayChange
<1>6. AccountStep
  BY <1>2, <1>4, DropKeepsInv DEF SiteInv
<1>7. ContainerInv'
  BY <1>1, <1>2 DEF ContainerInv, ServesWhatItShips
<1> QED BY <1>2, <1>5, <1>6, <1>7, ProblemsAreLeft DEF SiteStep, SiteInv, AccountStep

-----------------------------------------------------------------------------
(* The invariant, and what follows from it.                                *)

LEMMA InitHasInv ==
  ASSUME Init
  PROVE  SiteInv
<1>1. PICK s \in Scenarios : disk = s.disk /\ env = s.env /\ AccountsInit(s.via) /\ left = s.left
  BY DEF Init
<1>2. /\ s.disk \in Shipments /\ s.env \in Environment /\ s.left \in Budget
      /\ s.via \in [Browsers -> Connections]
  BY SiteAssumption DEF Scenario
<1>3. SeedInv
  <2>1. NotSeeding \in SeederState /\ NotSeeding.at = "idle"
        /\ NotSeeding.rows = {} /\ NotSeeding.tests = {}
    BY DEF NotSeeding, SeederState, Steps
  <2>2. \A p \in Seeders : seeder[p] = NotSeeding
    BY DEF Init, SeedInit
  <2>3. SeedTypeOK
    BY <1>1, <1>2, <2>1, SiteAssumption DEF Init, SeedInit, SeedTypeOK
  <2>4. HoldsNothing /\ HeldFromDisk /\ TodoIsNew
    BY <2>1, <2>2 DEF HoldsNothing, HeldFromDisk, TodoIsNew, Open
  <2>5. RowsDistinct /\ TestsMatch
    BY <2>1, <2>2 DEF Init, SeedInit, RowsDistinct, TestsMatch
  <2>6. InTurn /\ NoneForgotten
    BY <2>1, <2>2 DEF InTurn, NoneForgotten, Open
  <2> QED BY <2>3, <2>4, <2>5, <2>6 DEF SeedInv
<1>4. AccountInv
  <2>1. \A b \in Browsers :
          browser[b] = [at |-> "idle", name |-> Benchmark, via |-> s.via[b], cookie |-> Unset,
                        shown |-> Unset]
    BY <1>1 DEF AccountsInit
  <2>2. browser \in [Browsers -> Browser]
    BY <1>1, <1>2, AccountsAssumption DEF AccountsInit, Browser
  <2>3. AccountsTypeOK /\ OnePersonOneAccount
    BY <1>1, <1>2, <2>2 DEF AccountsInit, AccountsTypeOK, OnePersonOneAccount
  <2>4. AgainIsFound /\ SignedIn
    <3>1. ASSUME NEW b \in Browsers PROVE browser[b].at = "idle"
      <4> DEFINE from == s.via[b]
      <4>1. browser[b] = [at |-> "idle", name |-> Benchmark, via |-> from, cookie |-> Unset,
                          shown |-> Unset]
        BY <2>1
      <4> HIDE DEF from
      <4> QED BY <4>1
    <3> QED BY <3>1 DEF AgainIsFound, SignedIn
  <2> QED BY <2>3, <2>4 DEF AccountInv
<1>5. ContainerInv
  <2>1. seeder[Entrypoint].at = "idle"
    BY SiteAssumption DEF Init, SeedInit, NotSeeding
  <2> QED BY <1>1, <1>2, <2>1 DEF Init, ContainerInv, ServesWhatItShips
<1> QED BY <1>3, <1>4, <1>5 DEF SiteInv

LEMMA NextKeepsInv ==
  ASSUME SiteInv, [Next]_vars
  PROVE  SiteStep
<1>1. CASE Next
  <2>1. CASE \E p \in Seeders : SeedStep(p) \/ SeedAccount(p) \/ SeedByHand(p) \/ KillByHand(p)
    BY <2>1, SeedStepKeepsInv, SeedAccountKeepsInv, SeedsByHandKeepInv
  <2>2. CASE \/ \E shipment \in Shipments : Ship(shipment)
             \/ \E secret \in Secrets \union {Unset} : Rotate(secret)
    BY <2>2, OperatorKeepsInv
  <2>3. CASE \E b \in Browsers :
               (\E name \in Names : LogIn(b, name)) \/ Served(b) \/ Press(b)
    BY <2>3, PeopleKeepInv
  <2>4. CASE Migrate
    BY <2>4, MigrateKeepsInv
  <2>5. CASE KillContainer
    BY <2>5, KillContainerKeepsInv
  <2>6. CASE StartContainer \/ ServeCheckout \/ StartRunner \/ KillRunner
    BY <2>6, OthersKeepInv
  <2>7. CASE Batch \/ BatchAuthor
    BY <2>7, BatchesKeepInv
  <2> QED BY <1>1, <2>1, <2>2, <2>3, <2>4, <2>5, <2>6, <2>7 DEF Next
<1>2. CASE UNCHANGED vars
  <2>1. /\ UNCHANGED seedVars /\ UNCHANGED accountVars
        /\ UNCHANGED <<migrated, container, checkout, runner, left>>
    BY <1>2 DEF vars, siteVars
  <2>2. ContainerInv'
    BY <2>1, ContainerUnchanged DEF SiteInv, ContainerInv, accountVars
  <2> QED BY <2>1, <2>2, SeedUnchanged, AccountsUnchanged DEF SiteStep, SiteInv, AccountStep
<1> QED BY <1>1, <1>2

LEMMA SpecHasInv == Spec => []SiteInv
<1>1. SiteInv /\ [Next]_vars => SiteInv'
  BY NextKeepsInv DEF SiteStep
<1> QED BY <1>1, InitHasInv, PTL DEF Spec

(* Whatever is seeded, shipped, killed and typed, the two stores, the      *)
(* processes and the pages stay in the states Site.tla describes.          *)
THEOREM SiteStaysTyped == Spec => []SiteTypeOK
<1>1. SiteInv => SiteTypeOK
  BY DEF SiteInv, SeedInv, AccountInv, ContainerInv, SiteTypeOK
<1> QED BY <1>1, SpecHasInv, PTL

(* A seed that fails, is killed or meets another one leaves no problem     *)
(* without its tests: insertProblemPackage in one transaction (seed.ts).   *)
THEOREM ProblemsAreWhole == Spec => []WholeProblems
<1>1. SiteInv => WholeProblems
  <2> SUFFICES ASSUME SiteInv, NEW row \in problem
               PROVE  /\ {t.ordinal : t \in {u \in tests : u.problem = row.id}} = 1..row.needs
                      /\ row.needs > 0
    BY DEF WholeProblems
  <2>1. /\ row.needs > 0 /\ TestsOf(row) \subseteq tests
        /\ \A t \in tests : \E o \in problem : t \in TestsOf(o)
    BY DEF SiteInv, SeedInv, TestsMatch
  <2>2. ASSUME NEW t \in tests, t.problem = row.id PROVE t.ordinal \in 1..row.needs
    <3>1. PICK o \in problem : t \in TestsOf(o)
      BY <2>1
    <3>2. o.id = row.id /\ t.ordinal \in 1..o.needs
      BY <2>2, <3>1 DEF TestsOf
    <3>3. o = row
      BY <3>2 DEF SiteInv, SeedInv, RowsDistinct, Clash
    <3> QED BY <3>2, <3>3
  <2>3. ASSUME NEW n \in 1..row.needs
        PROVE  [problem |-> row.id, ordinal |-> n] \in tests
    BY <2>1 DEF TestsOf
  <2>4. {t.ordinal : t \in {u \in tests : u.problem = row.id}} \subseteq 1..row.needs
    BY <2>2
  <2>5. 1..row.needs \subseteq {t.ordinal : t \in {u \in tests : u.problem = row.id}}
    <3> SUFFICES ASSUME NEW n \in 1..row.needs
                 PROVE  \E t \in tests : t.problem = row.id /\ t.ordinal = n
      OBVIOUS
    <3>1. [problem |-> row.id, ordinal |-> n] \in tests
      BY <2>3
    <3> QED BY <3>1
  <2> QED BY <2>1, <2>4, <2>5
<1> QED BY <1>1, SpecHasInv, PTL

(* Seeds at once never insert a package twice: the unique slug stands in   *)
(* for the directory, which has no index of its own.                       *)
THEOREM PackagesAreSeededOnce == Spec => []EachPackageOnce
<1>1. SiteInv => EachPackageOnce
  BY DEF SiteInv, SeedInv, RowsDistinct, Clash, EachPackageOnce
<1> QED BY <1>1, SpecHasInv, PTL

(* A later seed changes nothing of a problem that is there but a statement *)
(* it lacks (backfillStatementMarkdown).                                   *)
THEOREM ProblemsStayAsSeeded == Spec => LeftAsIs
<1>1. SiteInv /\ [Next]_vars => ProblemsLeft
  BY NextKeepsInv DEF SiteStep
<1>2. SiteInv /\ [Next]_vars =>
        [\A row \in problem :
           \E after \in problem' :
             \/ after = row
             \/ row.markdown = None /\ after = [row EXCEPT !.markdown = after.markdown]]_problem
  BY <1>1 DEF ProblemsLeft
<1> QED BY <1>2, SpecHasInv, PTL DEF Spec, LeftAsIs

(* However a name is written, and whoever creates it at once - log-ins,    *)
(* the seed, a batch - it is one account.                                  *)
THEOREM OneAccountEach == Spec => []OnePersonOneAccount
<1>1. SiteInv => OnePersonOneAccount
  BY DEF SiteInv, AccountInv
<1> QED BY <1>1, SpecHasInv, PTL

(* The entrypoint starts the server only when every package it ships is a  *)
(* problem and the account of the batches exists, and so it stays.         *)
THEOREM ServingMeansSeeded == Spec => []ServesWhatItShips
<1>1. SiteInv => ServesWhatItShips
  BY DEF SiteInv, ContainerInv
<1> QED BY <1>1, SpecHasInv, PTL

(* A log-in fails only for want of a secret: the second look always finds  *)
(* whom the unique index kept out (log-in/index.ts).                       *)
THEOREM LogInsWork == Spec => LogInAlwaysWorks
<1>1. SiteInv /\ [Next]_vars => NoneRefused
  BY NextKeepsInv DEF SiteStep
<1>2. SiteInv /\ [Next]_vars =>
        [\A b \in Browsers :
           browser[b].at /= "refused" /\ browser'[b].at = "refused" => env.secret = Unset]_browser
  BY <1>1 DEF NoneRefused
<1> QED BY <1>2, SpecHasInv, PTL DEF Spec, LogInAlwaysWorks

(* The page after a log-in greets who logged in, over every connection     *)
(* AccountsAssumption allows (isSecureRequest, context.ts).                *)
THEOREM LogInsAreGreeted == Spec => GreetedByName
<1>1. SiteInv /\ [Next]_vars => EachGreeted
  BY NextKeepsInv DEF SiteStep
<1>2. SiteInv /\ [Next]_vars =>
        [\A b \in Browsers :
           /\ browser[b].at = "signed" /\ browser'[b].at = "idle"
           /\ env.secure = "true" => browser[b].via.https
           => \/ \E a \in account :
                   a.id = browser'[b].shown /\ Lower[a.name] = Lower[browser[b].name]
              \/ browser[b].cookie /= Unset /\ browser[b].cookie.key /= env.secret]_browser
  BY <1>1 DEF EachGreeted
<1> QED BY <1>2, SpecHasInv, PTL DEF Spec, GreetedByName
=============================================================================
