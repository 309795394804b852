------------------------------ MODULE Accounts ------------------------------
(***************************************************************************)
(* Accounts and sessions: handleRegister, handleLogin, handleLogout        *)
(* (internal/handler/handler.go), handleGoogleLogin, handleGoogleCallback  *)
(* (google_auth.go), session.go, auth.go, the users functions of           *)
(* internal/db/queries.go and the choice of the secret in main.go.         *)
(*                                                                         *)
(* The server keeps nothing of a session: it is in the browser's cookie,   *)
(* signed.  Every request is a goroutine of its own and answers with       *)
(* cookies that take effect when the response arrives, so the requests of  *)
(* a browser's tabs interleave.  A password stands for its hash, a name is *)
(* one that passes the length checks, and an email is only what            *)
(* deriveUsername makes of it: the stored email is never read back.        *)
(* The row that migration 003 makes for the bot has neither password nor   *)
(* Google user, and its name is taken: it is left out of users and Names.  *)
(* Someone who registered that name before is a row like any other: the    *)
(* migration sets only is_system on it, which no handler here reads.       *)
(***************************************************************************)
EXTENDS Naturals, FiniteSets

CONSTANTS
  Browsers,        \* browsers, each with one cookie jar
  Logins,          \* sign-in attempts; one through Google spans two requests
  Names,           \* usernames
  Passwords,       \* passwords
  GoogleUsers,     \* the sub field of Google's userinfo
  Emails,          \* addresses of Google accounts
  deriveUsername,  \* the function of that name
  None             \* no value

ASSUME DeriveAssumption == deriveUsername \in [Emails -> Names]
ASSUME NoneAssumption == None \notin Browsers \union Logins \union Names
                                      \union Passwords \union GoogleUsers

VARIABLES
  users,       \* rows of the users table
  nextUser,    \* the sequence behind users.id, less the gaps of failed inserts
  persistent,  \* whether SESSION_SECRET is set
  secret,      \* the signing key of the running server
  cookie,      \* the session cookie of each browser
  oauthState,  \* the oauth_state cookie of each browser: the login that set it
  pc,          \* where each login is
  ask,         \* what it asks for
  session,     \* the session its response sets
  spent        \* history: logins whose state expired, or whose callback was answered

accountVars == <<users, nextUser, persistent, secret, cookie, oauthState,
                 pc, ask, session, spent>>

jar == <<cookie, oauthState>>

AtServer == {"register", "login", "exchange", "upsert"}

\* The response is on its way; the process that wrote it may have died since.
Written == {"answer", "late"}

Nothing == [browser |-> None, name |-> None, password |-> None, google |-> None]

AccountsInit ==
  /\ users = {}
  /\ nextUser = 1
  /\ persistent \in BOOLEAN
  /\ secret = 1
  /\ cookie = [b \in Browsers |-> None]
  /\ oauthState = [b \in Browsers |-> None]
  /\ pc = [r \in Logins |-> "idle"]
  /\ ask = [r \in Logins |-> Nothing]
  /\ session = [r \in Logins |-> None]
  /\ spent = {}

\* setSessionCookie, and verifySession of what comes back.
Sign(uid, n) == [uid |-> uid, username |-> n, key |-> secret, old |-> FALSE]

SignedIn(b) == cookie[b] # None /\ cookie[b].key = secret /\ ~cookie[b].old

Taken(n) == \E u \in users : u.username = n

Enter(r, to, what) ==
  /\ pc[r] = "idle"
  /\ pc' = [pc EXCEPT ![r] = to]
  /\ ask' = [ask EXCEPT ![r] = what]

\* The handler writes its response, with a session or without.
Answer(r, from, s) ==
  /\ pc[r] = from
  /\ pc' = [pc EXCEPT ![r] = "answer"]
  /\ session' = [session EXCEPT ![r] = s]

InsertUser(r) ==
  /\ users' = users \union {[id |-> nextUser, username |-> ask[r].name,
                             password |-> ask[r].password, google |-> ask[r].google]}
  /\ nextUser' = nextUser + 1

-----------------------------------------------------------------------------
\* Passwords.

RejectForm(r) ==
  /\ pc[r] = "idle"
  /\ pc' = [pc EXCEPT ![r] = "rejected"]
  /\ UNCHANGED <<users, nextUser, persistent, secret, jar, ask, session, spent>>

Submit(r, form, b, n, p) ==
  /\ Enter(r, form, [Nothing EXCEPT !.browser = b, !.name = n, !.password = p])
  /\ UNCHANGED <<users, nextUser, persistent, secret, jar, session, spent>>

CreateUser(r) ==
  /\ ~Taken(ask[r].name)
  /\ InsertUser(r)
  /\ \/ Answer(r, "register", Sign(nextUser, ask[r].name))
     \/ Answer(r, "register", None)   \* inserted, but the call returns an error
  /\ UNCHANGED <<persistent, secret, jar, ask, spent>>

\* Mutant of AnswerLogin: the password is not compared.
AnswerLoginByName(r) ==
  /\ \/ \E u \in users : u.username = ask[r].name /\ Answer(r, "login", Sign(u.id, u.username))
     \/ ~Taken(ask[r].name) /\ Answer(r, "login", None)
  /\ UNCHANGED <<users, nextUser, persistent, secret, jar, ask, spent>>

\* An account that Google created has no password and matches none.
AnswerLogin(r) ==
  LET match == {u \in users : u.username = ask[r].name /\ u.password = ask[r].password} IN
  /\ \/ \E u \in match : Answer(r, "login", Sign(u.id, u.username))
     \/ match = {} /\ Answer(r, "login", None)
  /\ UNCHANGED <<users, nextUser, persistent, secret, jar, ask, spent>>

-----------------------------------------------------------------------------
\* Google.

AnyLogin(r) == TRUE   \* mutant of Google

Google(r) == ask[r].password = None   \* the response clears oauth_state

GoogleLogin(r, b) ==
  /\ Enter(r, "consent", [Nothing EXCEPT !.browser = b])
  /\ oauthState' = [oauthState EXCEPT ![b] = r]
  /\ UNCHANGED <<users, nextUser, persistent, secret, cookie, session, spent>>

\* Google sends the browser back, and the state is the one in its cookie.
Callback(r, g, e) ==
  /\ pc[r] = "consent"
  /\ oauthState[ask[r].browser] = r
  /\ pc' = [pc EXCEPT ![r] = "exchange"]
  /\ ask' = [ask EXCEPT ![r].google = g, ![r].name = deriveUsername[e]]
  /\ UNCHANGED <<users, nextUser, persistent, secret, jar, session, spent>>

CallbackRefused(r) ==
  /\ pc[r] = "consent"
  /\ oauthState[ask[r].browser] # r
  /\ pc' = [pc EXCEPT ![r] = "bad state"]
  /\ UNCHANGED <<users, nextUser, persistent, secret, jar, ask, session, spent>>

\* The user declines, and the callback has no code.
Declined(r) ==
  /\ pc[r] = "consent"
  /\ oauthState[ask[r].browser] = r
  /\ Answer(r, "consent", None)
  /\ UNCHANGED <<users, nextUser, persistent, secret, jar, ask, spent>>

\* A callback that got no session, or no answer, is tried again: it is reloaded, or
\* the user goes back to Google's page; the state is still that of the login.
Retry(r) ==
  /\ Google(r)
  /\ pc[r] = "lost" \/ (pc[r] = "done" /\ session[r] = None)
  /\ pc' = [pc EXCEPT ![r] = "consent"]
  /\ ask' = [ask EXCEPT ![r] = [Nothing EXCEPT !.browser = ask[r].browser]]
  /\ session' = [session EXCEPT ![r] = None]
  /\ UNCHANGED <<users, nextUser, persistent, secret, jar, spent>>

\* UpsertGoogleUser.  Postgres looks for the google_id first, and when it finds
\* none inserts, entering the unique indexes in the order of their creation:
\* username before google_id.  Between the two another login may insert.
KnownByName(r) == {u \in users : u.username = ask[r].name}  \* mutant: ON CONFLICT (username)

Known(r) == {u \in users : u.google = ask[r].google}

\* Mutant of UpsertFinds: DO UPDATE SET username = EXCLUDED.username.
UpsertRenames(r, from) ==
  /\ ~Taken(ask[r].name)
  /\ \E u \in Known(r) :
       /\ users' = (users \ {u}) \union {[u EXCEPT !.username = ask[r].name]}
       /\ Answer(r, from, Sign(u.id, ask[r].name))
  /\ UNCHANGED <<nextUser, persistent, secret, jar, ask, spent>>

UpsertFinds(r, from) ==
  /\ from = "upsert" => ~Taken(ask[r].name)
  /\ \E u \in Known(r) : Answer(r, from, Sign(u.id, u.username))
  /\ UNCHANGED <<users, nextUser, persistent, secret, jar, ask, spent>>

UpsertMisses(r) ==
  /\ pc[r] = "exchange"
  /\ Known(r) = {}
  /\ pc' = [pc EXCEPT ![r] = "upsert"]
  /\ UNCHANGED <<users, nextUser, persistent, secret, jar, ask, session, spent>>

UpsertInserts(r) ==
  /\ ~Taken(ask[r].name)
  /\ Known(r) = {}
  /\ InsertUser(r)
  /\ \/ Answer(r, "upsert", Sign(nextUser, ask[r].name))
     \/ Answer(r, "upsert", None)
  /\ UNCHANGED <<persistent, secret, jar, ask, spent>>

\* A unique violation of username: in CreateUser, or in the upsert.
NameTaken(r) ==
  /\ Taken(ask[r].name)
  /\ Answer(r, "register", None) \/ Answer(r, "upsert", None)
  /\ UNCHANGED <<users, nextUser, persistent, secret, jar, ask, spent>>

-----------------------------------------------------------------------------
\* Failures, responses and time.

\* The database or Google fails, or the address is not verified.
CallFails(r) ==
  /\ \E at \in AtServer : Answer(r, at, None)
  /\ UNCHANGED <<users, nextUser, persistent, secret, jar, ask, spent>>

\* The response arrives: a session cookie if it has one, and after a callback
\* whose state was good the oauth_state cookie is gone, whoever set it since.
Respond(r) ==
  /\ pc[r] \in Written
  /\ pc' = [pc EXCEPT ![r] = "done"]
  /\ cookie' = IF session[r] = None THEN cookie
               ELSE [cookie EXCEPT ![ask[r].browser] = session[r]]
  /\ oauthState' = IF Google(r) THEN [oauthState EXCEPT ![ask[r].browser] = None]
                   ELSE oauthState
  /\ spent' = IF Google(r) THEN spent \union {r} ELSE spent
  /\ UNCHANGED <<users, nextUser, persistent, secret, ask, session>>

ResponseLost(r) ==
  /\ pc[r] \in Written
  /\ pc' = [pc EXCEPT ![r] = "lost"]
  /\ UNCHANGED <<users, nextUser, persistent, secret, jar, ask, session, spent>>

Logout(b) ==
  /\ cookie' = [cookie EXCEPT ![b] = None]
  /\ UNCHANGED <<users, nextUser, persistent, secret, oauthState, pc, ask, session, spent>>

\* Thirty days for a session, ten minutes for an oauth_state cookie.
SessionExpires(b) ==
  /\ cookie[b] # None
  /\ cookie' = [cookie EXCEPT ![b].old = TRUE]
  /\ UNCHANGED <<users, nextUser, persistent, secret, oauthState, pc, ask, session, spent>>

StateExpires(b) ==
  /\ oauthState[b] # None
  /\ oauthState' = [oauthState EXCEPT ![b] = None]
  /\ spent' = spent \union {oauthState[b]}
  /\ UNCHANGED <<users, nextUser, persistent, secret, cookie, pc, ask, session>>

AnotherSecret == secret + 1   \* mutant of SecretAtStart

\* main: the configured secret, or one that is generated.
SecretAtStart == IF persistent THEN secret ELSE secret + 1

\* The requests being handled go with the process; what it has written stays
\* written, and may arrive at any time after.
Restart ==
  /\ secret' = SecretAtStart
  /\ pc' = [r \in Logins |-> IF pc[r] \in AtServer THEN "lost"
                            ELSE IF pc[r] = "answer" THEN "late" ELSE pc[r]]
  /\ UNCHANGED <<users, nextUser, persistent, jar, ask, session, spent>>

PasswordStep(r) ==
  \/ RejectForm(r)
  \/ \E b \in Browsers, n \in Names, p \in Passwords :
        Submit(r, "register", b, n, p) \/ Submit(r, "login", b, n, p)
  \/ CreateUser(r)
  \/ AnswerLogin(r)

GoogleStep(r) ==
  \/ \E b \in Browsers : GoogleLogin(r, b)
  \/ \E g \in GoogleUsers, e \in Emails : Callback(r, g, e)
  \/ CallbackRefused(r)
  \/ Declined(r)
  \/ Retry(r)
  \/ UpsertFinds(r, "exchange")
  \/ UpsertFinds(r, "upsert")
  \/ UpsertMisses(r)
  \/ UpsertInserts(r)

BrowserStep(b) == Logout(b) \/ SessionExpires(b) \/ StateExpires(b)

AccountsNext ==
  \/ \E r \in Logins : PasswordStep(r)
  \/ \E r \in Logins : GoogleStep(r)
  \/ \E r \in Logins : NameTaken(r)
  \/ \E r \in Logins : CallFails(r)
  \/ \E r \in Logins : Respond(r)
  \/ \E r \in Logins : ResponseLost(r)
  \/ \E b \in Browsers : BrowserStep(b)
  \/ Restart

AccountsSpec == AccountsInit /\ [][AccountsNext]_accountVars
-----------------------------------------------------------------------------
Sessions == [uid : Nat, username : Names, key : Nat, old : BOOLEAN]

\* Types; and every account has a username, also one that Google made.
AccountsTypeOK ==
  /\ users \subseteq [id : Nat, username : Names, password : Passwords \union {None},
                      google : GoogleUsers \union {None}]
  /\ nextUser \in Nat
  /\ persistent \in BOOLEAN
  /\ secret \in Nat
  /\ cookie \in [Browsers -> Sessions \union {None}]
  /\ oauthState \in [Browsers -> Logins \union {None}]
  /\ pc \in [Logins -> AtServer \union Written \union
                       {"idle", "rejected", "consent", "bad state", "done", "lost"}]
  /\ ask \in [Logins -> [browser : Browsers \union {None}, name : Names \union {None},
                         password : Passwords \union {None},
                         google : GoogleUsers \union {None}]]
  /\ session \in [Logins -> Sessions \union {None}]
  /\ spent \subseteq Logins

\* A session, signed with whichever secret and however old, names an account
\* that exists and carries its username: handlers trust the cookie's username
\* and never look it up.
SessionNamesAccount ==
  \A b \in Browsers : cookie[b] # None =>
     \E u \in users : u.id = cookie[b].uid /\ u.username = cookie[b].username

\* A browser holds only sessions that a login made in that browser got, for the
\* account whose password or Google user that login gave.
SessionIsEarned ==
  \A b \in Browsers : cookie[b] # None =>
     \E r \in Logins :
        /\ pc[r] = "done" /\ ask[r].browser = b
        /\ session[r] # None /\ session[r].uid = cookie[b].uid
        /\ \E u \in users : /\ u.id = session[r].uid
                            /\ u.password = ask[r].password
                            /\ u.google = ask[r].google

\* One account for each Google user, though its address changes and its logins
\* run at the same time: two logins get the same account exactly when they are
\* the same Google user.
AccountPerGoogleUser ==
  \A q, r \in Logins :
     /\ session[q] # None /\ ask[q].google # None
     /\ session[r] # None /\ ask[r].google # None
     => (session[q].uid = session[r].uid <=> ask[q].google = ask[r].google)

\* The answer of a process that has died since brings a session.
LateSession(b) ==
  \E r \in Logins : /\ pc[r] = "late" /\ Respond(r)
                    /\ session[r] # None /\ ask[r].browser = b

\* What ends a session is a logout, its age, or a restart that generates another
\* secret, be it that an answer from before the restart arrives only now and
\* takes the place of a newer session.  No other answer to another tab does, and
\* with SESSION_SECRET set neither a restart nor an answer from before it.
SignedInUntilCause ==
  [][\A b \in Browsers : SignedIn(b) /\ ~SignedIn(b)' =>
        \/ Logout(b)
        \/ SessionExpires(b)
        \/ ~persistent /\ (Restart \/ LateSession(b))]_accountVars

\* A Google login whose state is refused was overtaken by another one in the same
\* browser, or its own ten minutes were over, or its own callback was answered
\* before: restarts, lost answers and logins with a password do no harm.
StateRefusalHasCause ==
  \A r \in Logins : pc[r] = "bad state" =>
     \/ r \in spent
     \/ \E q \in Logins \ {r} : /\ ask[q].browser = ask[r].browser
                                /\ ask[q].password = None

\* UpsertGoogleUser's comment: it "creates a new user for the given Google
\* account, or returns the existing one".  It can do neither when the google_id
\* is new and the username that its address makes is taken.
UpsertAnswers == \A r \in Logins : pc[r] = "upsert" => ~Taken(ask[r].name)
=============================================================================
