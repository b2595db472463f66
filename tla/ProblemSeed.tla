----------------------------- MODULE ProblemSeed -----------------------------
(***************************************************************************)
(* The seed of the shipped problem packages (task/seed.ts): one            *)
(* transaction that inserts what no earlier seed inserted and gives older  *)
(* problems their statement.  Seeders may run at once: the container's     *)
(* entrypoint and one started by hand.  Of a package the model keeps its   *)
(* slug, its statement.md, how many tests it has and whether reading it    *)
(* throws; the other columns are data nothing here tells apart.            *)
(***************************************************************************)
EXTENDS Integers

CONSTANTS
  Directories, \* package directories, numbered in the order localeCompare gives them
  Slugs,
  Texts,       \* contents of a statement.md
  None,        \* no such file, or a null column
  Seeders,     \* processes that may run the seed
  MaxTests,    \* tests of a package (bound)
  MaxProblems  \* rows of task__problem_ (bound)

ASSUME SeedAssumption ==
  /\ Directories \subseteq Nat
  /\ MaxTests \in Nat /\ MaxProblems \in Nat
  /\ None \notin Texts

VARIABLES
  disk,     \* the packages directory: a package or None for each directory
  problem,  \* committed rows of task__problem_
  tests,    \* committed rows of task__problem_test_
  seeder    \* how far each process is, and what its transaction holds

seedVars == <<disk, problem, tests, seeder>>

(* flawed: no manifest of the expected shape, a test without its output    *)
(* file or no language we can run.  Each throws before the first insert.   *)
Package ==
  [slug : Slugs, markdown : Texts \union {None}, tests : 0..MaxTests, flawed : BOOLEAN]

(* needs is how many tests the package had when the row was made.          *)
Problem ==
  [id : 1..MaxProblems, dir : Directories, slug : Slugs,
   markdown : Texts \union {None}, needs : 0..MaxTests]

Test == [problem : 1..MaxProblems, ordinal : 1..MaxTests]

Steps == {"idle", "list", "select", "problem", "tests", "finish", "find", "create"}

SeederState ==
  [at : Steps, todo : SUBSET Directories, rows : SUBSET Problem, tests : SUBSET Test,
   found : SUBSET (1..MaxProblems)]

SeedTypeOK ==
  /\ disk \in [Directories -> Package \union {None}]
  /\ problem \subseteq Problem
  /\ tests \subseteq Test
  /\ seeder \in [Seeders -> SeederState]

NotSeeding == [at |-> "idle", todo |-> {}, rows |-> {}, tests |-> {}, found |-> {}]

SeedInit ==
  /\ problem = {}
  /\ tests = {}
  /\ seeder = [p \in Seeders |-> NotSeeding]

Goto(p, at) == seeder' = [seeder EXCEPT ![p].at = at]

-----------------------------------------------------------------------------
(* listPackageDirectories *)
Shipped == {d \in Directories : disk[d] /= None}

(* The packages are gone through in the order of their directories. *)
IsNext(dir, todo) == dir \in todo /\ \A d \in todo : dir <= d

Pending == UNION {seeder[p].rows : p \in Seeders}

(* uuidv7: an identifier no row has. *)
NewIds == {id \in 1..MaxProblems : \A row \in problem \union Pending : row.id /= id}
CanInsert == NewIds /= {}
NewId == CHOOSE id \in NewIds : TRUE

ListPackages(p) ==
  /\ seeder[p].at = "list"
  /\ seeder' = [seeder EXCEPT ![p] =
       [NotSeeding EXCEPT !.at = IF Shipped = {} THEN "find" ELSE "select",
                          !.todo = Shipped]]
  /\ UNCHANGED <<disk, problem, tests>>

(* Mistaken: what is there is inserted again. *)
Everything(todo, seeded) == todo

(* What is left to insert beside the rows the SELECT found. *)
Missing(todo, seeded) == {d \in todo : \A row \in seeded : row.dir /= d}

(* The transaction's SELECT: what an earlier seed committed. *)
SelectSeeded(p) ==
  LET seeded == {row \in problem : row.dir \in seeder[p].todo}
      todo == Missing(seeder[p].todo, seeded)
  IN  /\ seeder[p].at = "select"
      /\ seeder' = [seeder EXCEPT ![p].todo = todo,
                                  ![p].found = {row.id : row \in seeded},
                                  ![p].at = IF todo = {} THEN "finish" ELSE "problem"]
      /\ UNCHANGED <<disk, problem, tests>>

(* Mistaken: no transaction, each statement commits on its own. *)
KeptOf(rows) == rows

(* What stays of the rows a transaction wrote when it fails. *)
RolledBack(rows) == {row \in rows : FALSE}

(* The seed throws: the transaction is rolled back, the process exits 1.   *)
SeedFails(p) ==
  /\ problem' = problem \union RolledBack(seeder[p].rows)
  /\ tests' = tests \union RolledBack(seeder[p].tests)
  /\ seeder' = [seeder EXCEPT ![p] = NotSeeding]

(* Mistaken: no unique index on slug_. *)
NotUnique(p, slug) == FALSE

(* task__problem__slug__unique_idx_, over what the transaction can see.    *)
SlugTaken(p, slug) == \E row \in problem \union seeder[p].rows : row.slug = slug

(* Another open transaction inserted the slug: the INSERT waits for it.    *)
MustWait(p, slug) ==
  \E q \in Seeders \ {p} : \E row \in seeder[q].rows : row.slug = slug

RowFor(dir, package) ==
  [id |-> NewId, dir |-> dir, slug |-> package.slug, markdown |-> package.markdown,
   needs |-> package.tests]

(* insertProblemPackage up to its first INSERT. *)
InsertProblem(p) ==
  /\ seeder[p].at = "problem"
  /\ \E dir \in seeder[p].todo :
       LET package == disk[dir]
       IN  /\ IsNext(dir, seeder[p].todo)
           /\ \/ /\ package.flawed
                 /\ SeedFails(p)
              \/ /\ ~package.flawed
                 /\ ~MustWait(p, package.slug)
                 /\ SlugTaken(p, package.slug)
                 /\ SeedFails(p)
              \/ /\ ~package.flawed
                 /\ ~MustWait(p, package.slug)
                 /\ ~SlugTaken(p, package.slug)
                 /\ CanInsert
                 /\ seeder' = [seeder EXCEPT
                      ![p].rows = @ \union {RowFor(dir, package)}, ![p].at = "tests"]
                 /\ UNCHANGED <<problem, tests>>
  /\ UNCHANGED disk

(* Mistaken: ordinals start at index. *)
TestsFromZero(row) == [problem : {row.id}, ordinal : 0..(row.needs - 1)]

TestsOf(row) == [problem : {row.id}, ordinal : 1..row.needs]

(* Its second INSERT: samples and hidden tests in one statement, which     *)
(* drizzle refuses when there are none.                                    *)
InsertTests(p) ==
  /\ seeder[p].at = "tests"
  /\ \E row \in seeder[p].rows :
       LET todo == seeder[p].todo \ {row.dir}
       IN  /\ IsNext(row.dir, seeder[p].todo)
           /\ \/ row.needs = 0 /\ SeedFails(p)
              \/ /\ row.needs > 0
                 /\ seeder' = [seeder EXCEPT
                      ![p].tests = @ \union TestsOf(row),
                      ![p].todo = todo,
                      ![p].at = IF todo = {} THEN "finish" ELSE "problem"]
                 /\ UNCHANGED <<problem, tests>>
  /\ UNCHANGED disk

(* Mistaken: the statement on the disk always wins. *)
Reread(row) ==
  IF disk[row.dir] /= None THEN [row EXCEPT !.markdown = disk[row.dir].markdown] ELSE row

(* backfillStatementMarkdown, for a problem that has none. *)
Backfilled(row) ==
  IF row.markdown = None /\ disk[row.dir] /= None
    THEN [row EXCEPT !.markdown = disk[row.dir].markdown]
    ELSE row

(* The backfill of what the SELECT found, and the COMMIT. *)
CommitProblems(p) ==
  /\ seeder[p].at = "finish"
  /\ problem' = seeder[p].rows \union
       {IF row.id \in seeder[p].found THEN Backfilled(row) ELSE row : row \in problem}
  /\ tests' = tests \union seeder[p].tests
  /\ seeder' = [seeder EXCEPT ![p] = [NotSeeding EXCEPT !.at = "find"]]
  /\ UNCHANGED disk

SeedProblems(p) ==
  \/ ListPackages(p)
  \/ SelectSeeded(p)
  \/ InsertProblem(p)
  \/ InsertTests(p)
  \/ CommitProblems(p)

-----------------------------------------------------------------------------
(* Wherever seeds failed, were killed or ran at once: a problem anybody    *)
(* can see has all the tests its package had, and at least one.            *)
WholeProblems ==
  \A row \in problem :
    LET ordinals == {t.ordinal : t \in {u \in tests : u.problem = row.id}}
    IN  ordinals = 1..row.needs /\ row.needs > 0

(* "Puts every shipped problem package into the database once": the        *)
(* directory has no unique index, the slug has, and two seeds at once both *)
(* find it missing.                                                        *)
EachPackageOnce ==
  \A one, other \in problem :
    one.dir = other.dir \/ one.slug = other.slug => one = other

(* "A problem that is already there is left exactly as it is", but for a   *)
(* statement it does not have, whatever the disk holds by now: what        *)
(* task/seed.ts says of itself, so that tests and limits never change      *)
(* under submissions judged by them.  deploy/compose.local.yml says the    *)
(* opposite of an edited package, which no seed picks up: see              *)
(* EditsArePickedUp in Site.                                               *)
LeftAsIs ==
  [][\A row \in problem :
       \E after \in problem' :
         \/ after = row
         \/ row.markdown = None /\ after = [row EXCEPT !.markdown = after.markdown]]_problem
=============================================================================
