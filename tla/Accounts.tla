------------------------------ MODULE Accounts ------------------------------
(***************************************************************************)
(* Accounts, log-ins and the signed cookie (log-in, log-out,               *)
(* get-current-user, session.ts, context.ts) with the pages that use them  *)
(* (login-form.tsx, header-auth.tsx).  Who may create an account: a        *)
(* log-in, the seed, and a benchmark batch that finds no author.           *)
(* The cookie's thirty days are left out, as is any account being deleted: *)
(* no code does.                                                           *)
(***************************************************************************)
EXTENDS Integers

CONSTANTS
  Names,        \* names as typed
  Lower,        \* what lower() makes of each
  Benchmark,    \* BENCHMARK_USERNAME
  Browsers,
  Connections,  \* how a browser reaches the app: see Connection
  Secrets,      \* values of SESSION_SECRET
  Unset,        \* no cookie, no secret, no account
  MaxAccounts   \* rows of account__user_ (bound)

(* https: what the browser speaks.  said: protocols the forwarding headers *)
(* name.  url: protocol of the address the app itself received.            *)
Connection == [https : BOOLEAN, said : SUBSET {"http", "https"}, url : {"http", "https"}]

Cookie == [user : 1..MaxAccounts, key : Secrets]

(* Nothing in front of the app says https of a browser that does not speak *)
(* it, and some name is kept for the batches.                              *)
ASSUME AccountsAssumption ==
  /\ Connections \subseteq Connection
  /\ \A c \in Connections : "https" \in c.said \/ c.url = "https" => c.https
  /\ Benchmark \in Names
  /\ MaxAccounts \in Nat
  /\ Unset \notin Cookie

VARIABLES
  account,  \* rows of account__user_
  browser,  \* of each browser: its cookie, page and log-in under way
  author,   \* resolveBenchmarkAuthorId of a batch being started
  env       \* environment of the web app: SESSION_SECRET and SESSION_COOKIE_SECURE

accountVars == <<account, browser, author, env>>

Account == [id : 1..MaxAccounts, name : Names]

(* at: where the log-in is, on its way through the server and back.        *)
(* shown: account the header names.                                        *)
Browser ==
  [at : {"idle", "find", "create", "again", "signed", "refused", "clear"},
   name : Names, via : Connections, cookie : Cookie \union {Unset},
   shown : (1..MaxAccounts) \union {Unset}]

Environment == [secret : Secrets \union {Unset}, secure : {"auto", "true", "false"}]

AccountsTypeOK ==
  /\ account \subseteq Account
  /\ browser \in [Browsers -> Browser]
  /\ author \in {"idle", "read", "find", "create", "reread", "missing"}
  /\ env \in Environment

AccountsInit(via) ==
  /\ account = {}
  /\ author = "idle"
  /\ browser = [b \in Browsers |->
       [at |-> "idle", name |-> Benchmark, via |-> via[b], cookie |-> Unset,
        shown |-> Unset]]

-----------------------------------------------------------------------------
(* Mistaken: names are compared as they are stored. *)
AsTyped(name) == {a \in account : a.name = name}

(* The lookup, and account__user__username_lower__unique_idx_: accounts    *)
(* that are the same person.                                               *)
SamePerson(name) == {a \in account : Lower[a.name] = Lower[name]}

(* uuidv7: an identifier no row has. *)
FreeIds == {id \in 1..MaxAccounts : \A a \in account : a.id /= id}
CanCreate == FreeIds /= {}
NextId == CHOOSE id \in FreeIds : TRUE

Stored(name) == account \union {[id |-> NextId, name |-> name]}

-----------------------------------------------------------------------------
(* session.ts and context.ts *)

(* Mistaken: a production deployment marks its cookie Secure. *)
SecureInProduction(via) == env.secure /= "false"

(* isSecureRequest *)
Secure(via) ==
  \/ env.secure = "true"
  \/ env.secure = "auto" /\ ("https" \in via.said \/ via.url = "https")

(* A browser drops a Secure cookie that comes over plain HTTP. *)
Keeps(via) == Secure(via) => via.https

(* verifySession: the user of a cookie signed with the secret in use.      *)
Verified(cookie) ==
  IF cookie /= Unset /\ cookie.key = env.secret THEN cookie.user ELSE Unset

(* getCurrentUser: the account of the cookie, if there is such a row.      *)
CurrentUser(cookie) ==
  IF \E a \in account : a.id = Verified(cookie) THEN Verified(cookie) ELSE Unset

-----------------------------------------------------------------------------
(* The log-in form and the procedure behind it. *)

(* The page is rendered from the server: the form shows to nobody known.   *)
OpenLogIn(b, name) ==
  /\ browser[b].at = "idle"
  /\ CurrentUser(browser[b].cookie) = Unset
  /\ browser' = [browser EXCEPT ![b].at = "find", ![b].name = name,
                                ![b].shown = Unset]
  /\ UNCHANGED <<account, author, env>>

(* setSessionCookie of user id; without a secret signSession throws.       *)
SignsIn(b, id) ==
  browser' = [browser EXCEPT
    ![b].at = IF env.secret = Unset THEN "refused" ELSE "signed",
    ![b].cookie = IF env.secret /= Unset /\ Keeps(browser[b].via)
                    THEN [user |-> id, key |-> env.secret] ELSE @]

FindUser(b) ==
  /\ browser[b].at = "find"
  /\ \/ \E a \in SamePerson(browser[b].name) : SignsIn(b, a.id)
     \/ /\ SamePerson(browser[b].name) = {}
        /\ browser' = [browser EXCEPT ![b].at = "create"]
  /\ UNCHANGED <<account, author, env>>

(* Mistaken: no second look. *)
NotFound(name) == {}

(* findUser once more, after an INSERT the index refused. *)
FoundAgain(name) == SamePerson(name)

(* INSERT ... ON CONFLICT DO NOTHING: the name is stored as typed. *)
CreateUser(b) ==
  LET name == browser[b].name
  IN  /\ browser[b].at = "create"
      /\ \/ /\ SamePerson(name) = {}
            /\ CanCreate
            /\ account' = Stored(name)
            /\ SignsIn(b, NextId)
         \/ /\ SamePerson(name) /= {}
            /\ browser' = [browser EXCEPT ![b].at = "again"]
            /\ UNCHANGED account
      /\ UNCHANGED <<author, env>>

FindUserAgain(b) ==
  /\ browser[b].at = "again"
  /\ \/ \E a \in FoundAgain(browser[b].name) : SignsIn(b, a.id)
     \/ /\ FoundAgain(browser[b].name) = {}
        /\ browser' = [browser EXCEPT ![b].at = "refused"]
  /\ UNCHANGED <<account, author, env>>

LogInStep(b) == FindUser(b) \/ CreateUser(b) \/ FindUserAgain(b)

(* The request dies with its server; the form says so and may be sent      *)
(* again.                                                                  *)
Interrupted(state) ==
  IF state.at \in {"find", "create", "again", "clear"} THEN [state EXCEPT !.at = "idle"] ELSE state

(* The form navigates to a fresh home page on success, and only reports    *)
(* what it is told when refused.                                           *)
LeaveForm(b) ==
  /\ browser[b].at \in {"signed", "refused"}
  /\ browser' = [browser EXCEPT
       ![b].at = "idle",
       ![b].shown = IF browser[b].at = "signed" THEN CurrentUser(browser[b].cookie) ELSE @]
  /\ UNCHANGED <<account, author, env>>

(* logOut, its cookie cleared the way it was set, and the reload. *)
PressSignOut(b) ==
  /\ browser[b].at = "idle"
  /\ browser[b].shown /= Unset
  /\ browser' = [browser EXCEPT ![b].at = "clear"]
  /\ UNCHANGED <<account, author, env>>

ClearCookie(b) ==
  LET cookie == IF Keeps(browser[b].via) THEN Unset ELSE browser[b].cookie
  IN  /\ browser[b].at = "clear"
      /\ browser' = [browser EXCEPT ![b].at = "idle", ![b].cookie = cookie,
                                    ![b].shown = CurrentUser(cookie)]
      /\ UNCHANGED <<account, author, env>>

(* Any other page of the site. *)
LoadPage(b) ==
  /\ browser[b].at = "idle"
  /\ browser' = [browser EXCEPT ![b].shown = CurrentUser(browser[b].cookie)]
  /\ UNCHANGED <<account, author, env>>

-----------------------------------------------------------------------------
(* resolveBenchmarkAuthorId: read, seed the account, read again. *)
StartBatch ==
  /\ author = "idle"
  /\ author' = "read"
  /\ UNCHANGED <<account, browser, env>>

(* Each read that finds the account ends it; seedBenchmarkAccount looks    *)
(* for itself before it inserts, plainly: a row that appeared since is an  *)
(* error the batch fails with.                                             *)
AuthorStep ==
  LET there == SamePerson(Benchmark) /= {}
  IN  /\ \/ /\ author = "read"
            /\ author' = IF there THEN "idle" ELSE "find"
            /\ UNCHANGED account
         \/ /\ author = "find"
            /\ author' = IF there THEN "reread" ELSE "create"
            /\ UNCHANGED account
         \/ /\ author = "create"
            /\ there \/ CanCreate
            /\ account' = IF there THEN account ELSE Stored(Benchmark)
            /\ author' = IF there THEN "idle" ELSE "reread"
         \/ /\ author = "reread"
            /\ author' = IF there THEN "idle" ELSE "missing"
            /\ UNCHANGED account
      /\ UNCHANGED <<browser, env>>

-----------------------------------------------------------------------------
(* Capitals never split an account, whoever creates it and however many    *)
(* create it at once.                                                      *)
OnePersonOneAccount ==
  \A one, other \in account : Lower[one.name] = Lower[other.name] => one = other

(* Two first log-ins of a name at once, or one beside the seed: none ends  *)
(* in "Could not sign you in.".  Without a secret every log-in fails.      *)
LogInAlwaysWorks ==
  [][\A b \in Browsers :
       browser[b].at /= "refused" /\ browser'[b].at = "refused" => env.secret = Unset]_browser

(* Who logged in is who the next page greets, under the name typed in some *)
(* capitals, over every connection a deployment may put in front of the    *)
(* app: but where it insists on Secure cookies over plain HTTP, or where   *)
(* the secret is another one by then.                                      *)
GreetedByName ==
  [][\A b \in Browsers :
       /\ browser[b].at = "signed" /\ browser'[b].at = "idle"
       /\ env.secure = "true" => browser[b].via.https
       => \/ \E a \in account :
               a.id = browser'[b].shown /\ Lower[a.name] = Lower[browser[b].name]
          \/ browser[b].cookie /= Unset /\ browser[b].cookie.key /= env.secret]_browser
=============================================================================
