--------------------------- MODULE AccountsProofs ---------------------------
(***************************************************************************)
(* What accounts and sessions promise, for any number of browsers, logins, *)
(* accounts and restarts.                                                  *)
(***************************************************************************)
EXTENDS Accounts, TLAPS

USE DeriveAssumption, NoneAssumption

Rows == [id : Nat, username : Names, password : Passwords \union {None},
         google : GoogleUsers \union {None}]

Asks == [browser : Browsers \union {None}, name : Names \union {None},
         password : Passwords \union {None}, google : GoogleUsers \union {None}]

Places == AtServer \union Written \union {"idle", "rejected", "consent", "bad state", "done", "lost"}

\* An id is the next of the sequence, a Google user has one row, and no row has
\* both a password and a Google user.
UsersOK ==
  /\ \A u \in users : u.id < nextUser
  /\ \A u, v \in users : u.id = v.id => u = v
  /\ \A u, v \in users : u.google # None /\ u.google = v.google => u = v
  /\ \A u \in users : u.password = None \/ u.google = None

\* A login's session is that of the account with the password or the Google user
\* that the login gave, whatever else was inserted since.
Earned(r) ==
  /\ ask[r].browser \in Browsers
  /\ \E u \in users : /\ u.id = session[r].uid /\ u.username = session[r].username
                      /\ u.password = ask[r].password /\ u.google = ask[r].google

NoSessionYet == {"idle", "rejected", "register", "login", "consent", "bad state",
                 "exchange", "upsert"}

\* What the place of a login says of what it asks for.
LoginOK(r) ==
  /\ pc[r] \in {"idle", "rejected"} => ask[r] = Nothing
  /\ pc[r] \notin {"idle", "rejected"} => ask[r].browser \in Browsers
  /\ pc[r] \in {"register", "login"} =>
       ask[r].name \in Names /\ ask[r].password \in Passwords /\ ask[r].google = None
  /\ pc[r] \in {"exchange", "upsert"} =>
       ask[r].name \in Names /\ ask[r].google \in GoogleUsers
  /\ pc[r] \in {"consent", "exchange", "upsert", "bad state"} => ask[r].password = None
  /\ pc[r] \in NoSessionYet => session[r] = None
  /\ session[r] # None => Earned(r)
  /\ pc[r] \in Written /\ session[r] # None =>
       ~session[r].old /\ (pc[r] = "answer" \/ persistent => session[r].key = secret)

\* A session cookie came with the response of a login made in that browser.
CookieOK(b) ==
  cookie[b] # None =>
    \E r \in Logins : /\ pc[r] = "done" /\ ask[r].browser = b
                      /\ session[r] # None
                      /\ session[r].uid = cookie[b].uid
                      /\ session[r].username = cookie[b].username

\* Another login in the browser, the ten minutes, or its own answered callback
\* took this one's state.
Overtaken(r) ==
  \/ r \in spent
  \/ \E q \in Logins \ {r} : ask[q].browser = ask[r].browser /\ ask[q].password = None

\* A login through Google, wherever it is.
ByGoogle(r) == pc[r] \notin {"idle", "rejected"} /\ ask[r].password = None

StateOK(r) ==
  /\ ByGoogle(r) => oauthState[ask[r].browser] = r \/ Overtaken(r)
  /\ pc[r] = "bad state" => Overtaken(r)

AccountsInv ==
  /\ AccountsTypeOK
  /\ UsersOK
  /\ \A r \in Logins : LoginOK(r)
  /\ \A b \in Browsers : CookieOK(b)
  /\ \A r \in Logins : StateOK(r)

LEMMA NothingHasNoBrowser == Nothing.browser \notin Browsers
  BY DEF Nothing

LEMMA InitialAccounts == AccountsInit => AccountsInv
<1> SUFFICES ASSUME AccountsInit PROVE AccountsInv
  OBVIOUS
<1> USE DEF AccountsInit
<1>1. Nothing \in Asks
  BY DEF Nothing, Asks
<1>2. AccountsTypeOK
  BY <1>1 DEF AccountsTypeOK, Asks, Places, AtServer, Written
<1>3. UsersOK
  BY DEF UsersOK
<1>4. \A r \in Logins : LoginOK(r)
  BY DEF LoginOK, NoSessionYet
<1>5. \A b \in Browsers : CookieOK(b)
  BY DEF CookieOK
<1>6. \A r \in Logins : StateOK(r)
  BY DEF StateOK, ByGoogle
<1> QED
  BY <1>2, <1>3, <1>4, <1>5, <1>6 DEF AccountsInv

-----------------------------------------------------------------------------
\* A login that is somewhere else is not disturbed by more rows, by another
\* login, or by what happens to the cookies.
LEMMA OtherLogin ==
  ASSUME AccountsInv, NEW r \in Logins, users \subseteq users',
         pc'[r] = pc[r], ask'[r] = ask[r], session'[r] = session[r],
         secret' = secret, persistent' = persistent
  PROVE  LoginOK(r)'
<1>1. LoginOK(r)
  BY DEF AccountsInv
<1>2. Earned(r) => Earned(r)'
  BY DEF Earned
<1> QED
  BY <1>1, <1>2 DEF LoginOK

\* A cookie keeps its origin while the login that brought it does.
LEMMA SameCookie ==
  ASSUME AccountsInv, NEW b \in Browsers,
         cookie'[b] # None => /\ cookie[b] # None
                              /\ cookie'[b].uid = cookie[b].uid
                              /\ cookie'[b].username = cookie[b].username,
         \A q \in Logins : pc[q] = "done" /\ session[q] # None =>
           pc'[q] = "done" /\ ask'[q] = ask[q] /\ session'[q] = session[q]
  PROVE  CookieOK(b)'
  BY DEF AccountsInv, CookieOK

\* A browser that had two logins has had them.
LEMMA StillOvertaken ==
  ASSUME AccountsInv, NEW r \in Logins, pc[r] \notin {"idle", "rejected"}, Overtaken(r),
         spent \subseteq spent', ask'[r].browser = ask[r].browser,
         \A q \in Logins : pc[q] \notin {"idle", "rejected"} =>
           ask'[q].browser = ask[q].browser /\ ask'[q].password = ask[q].password
  PROVE  Overtaken(r)'
<1>1. ask[r].browser \in Browsers
  BY DEF AccountsInv, LoginOK
<1>2. CASE r \in spent
  BY <1>2 DEF Overtaken
<1>3. ASSUME NEW q \in Logins \ {r}, ask[q].browser = ask[r].browser, ask[q].password = None
      PROVE  ask'[q].browser = ask[r].browser /\ ask'[q].password = None
  <2>1. ask[q] # Nothing
    BY <1>1, <1>3, NothingHasNoBrowser
  <2>2. pc[q] \notin {"idle", "rejected"}
    BY <2>1 DEF AccountsInv, LoginOK
  <2> QED
    BY <1>3, <2>2
<1> QED
  BY <1>2, <1>3 DEF Overtaken

\* A step that leaves the keys and the cookies alone and moves one login, of which
\* no cookie is.  Its state is as good as before, and it is refused only if not.
LEMMA MoveLogin ==
  ASSUME AccountsInv, NEW r \in Logins, pc[r] # "done" \/ session[r] = None,
         users \subseteq users', UsersOK', AccountsTypeOK', LoginOK(r)',
         UNCHANGED <<persistent, secret, jar, spent>>,
         \A q \in Logins : q # r =>
           pc'[q] = pc[q] /\ ask'[q] = ask[q] /\ session'[q] = session[q],
         pc[r] \in {"idle", "rejected"} => ~ByGoogle(r)' /\ pc'[r] # "bad state",
         pc'[r] = "bad state" => Overtaken(r),
         pc[r] \notin {"idle", "rejected"} =>
           ask'[r].browser = ask[r].browser /\ ask'[r].password = ask[r].password
  PROVE  AccountsInv'
<1>1. \A q \in Logins : LoginOK(q)'
  BY OtherLogin
<1>2. \A b \in Browsers : CookieOK(b)'
  BY SameCookie DEF jar
<1>3. ASSUME NEW q \in Logins, pc[q] \notin {"idle", "rejected"}, Overtaken(q)
      PROVE  Overtaken(q)'
  BY <1>3, StillOvertaken
<1>4. ASSUME NEW q \in Logins, q # r PROVE StateOK(q)'
  <2>1. pc'[q] = pc[q] /\ ask'[q] = ask[q] /\ oauthState' = oauthState
    BY <1>4 DEF jar
  <2>2. StateOK(q)
    BY DEF AccountsInv
  <2> QED
    BY <1>3, <2>1, <2>2 DEF StateOK, ByGoogle
<1>5. StateOK(r)'
  <2>1. StateOK(r) /\ oauthState' = oauthState
    BY DEF AccountsInv, jar
  <2>2. CASE pc[r] \in {"idle", "rejected"}
    BY <2>2 DEF StateOK
  <2>3. CASE pc[r] \notin {"idle", "rejected"}
    <3>1. Overtaken(r) => Overtaken(r)'
      BY <1>3, <2>3
    <3>2. ask'[r].browser = ask[r].browser /\ ask'[r].password = ask[r].password
      BY <2>3
    <3> QED
      BY <2>1, <2>3, <3>1, <3>2 DEF StateOK, ByGoogle
  <2> QED
    BY <2>2, <2>3
<1> QED
  BY <1>1, <1>2, <1>4, <1>5 DEF AccountsInv

-----------------------------------------------------------------------------
\* What moving one login does to the places of all.
LEMMA LoginMoves ==
  ASSUME AccountsInv, NEW r \in Logins, NEW to \in Places, pc' = [pc EXCEPT ![r] = to]
  PROVE  /\ pc'[r] = to /\ pc' \in [Logins -> Places]
         /\ \A q \in Logins : q # r => pc'[q] = pc[q]
  BY DEF AccountsInv, AccountsTypeOK, Places

\* The session of a response is None, or that of a row with what the login gave.
LEMMA AnswerStep ==
  ASSUME AccountsInv, NEW r \in Logins,
         NEW from \in {"register", "login", "consent", "exchange", "upsert"},
         NEW s \in Sessions \union {None}, Answer(r, from, s),
         users \subseteq users', users' \subseteq Rows, nextUser' \in Nat, UsersOK',
         UNCHANGED <<persistent, secret, jar, ask, spent>>,
         s # None => /\ s.key = secret /\ ~s.old
                     /\ \E u \in users' : /\ u.id = s.uid /\ u.username = s.username
                                          /\ u.password = ask[r].password
                                          /\ u.google = ask[r].google
  PROVE  AccountsInv'
<1> USE DEF Answer
<1>1. /\ pc[r] = from /\ pc'[r] = "answer" /\ pc' \in [Logins -> Places]
      /\ \A q \in Logins : q # r => pc'[q] = pc[q]
  BY LoginMoves DEF Places, Written
<1>2. /\ session'[r] = s /\ session' \in [Logins -> Sessions \union {None}]
      /\ \A q \in Logins : q # r => session'[q] = session[q]
  BY DEF AccountsInv, AccountsTypeOK
<1>3. AccountsTypeOK'
  BY <1>1, <1>2 DEF AccountsInv, AccountsTypeOK, Rows, Places, jar
<1>4. ask[r].browser \in Browsers
  BY <1>1 DEF AccountsInv, LoginOK
<1>5. LoginOK(r)'
  BY <1>1, <1>2, <1>4 DEF LoginOK, Earned, NoSessionYet
<1> QED
  BY <1>1, <1>2, <1>3, <1>5, MoveLogin

\* The new row has an id of its own and, when its Google user is new, keeps
\* Google users apart.
LEMMA InsertStep ==
  ASSUME AccountsInv, NEW r \in Logins, InsertUser(r), ask[r].name \in Names,
         ask[r].password = None \/ ask[r].google = None,
         ask[r].google = None \/ Known(r) = {}
  PROVE  /\ users \subseteq users' /\ users' \subseteq Rows /\ nextUser' \in Nat
         /\ UsersOK'
         /\ \E u \in users' : /\ u.id = nextUser /\ u.username = ask[r].name
                              /\ u.password = ask[r].password /\ u.google = ask[r].google
<1> DEFINE new == [id |-> nextUser, username |-> ask[r].name,
                   password |-> ask[r].password, google |-> ask[r].google]
<1>1. users' = users \union {new} /\ nextUser' = nextUser + 1
  BY DEF InsertUser
<1>2. users \subseteq Rows /\ nextUser \in Nat /\ ask[r] \in Asks
  BY DEF AccountsInv, AccountsTypeOK, Rows, Asks
<1>3. new \in Rows
  BY <1>2 DEF Rows, Asks
<1>4. /\ new.id = nextUser /\ new.username = ask[r].name
      /\ new.password = ask[r].password /\ new.google = ask[r].google
  OBVIOUS
<1> HIDE DEF new
<1>5. \A u \in users : u.id \in Nat /\ u.id < nextUser /\ u.id # nextUser
  BY <1>2 DEF Rows, AccountsInv, UsersOK
<1>6. \A u \in users' : u.id < nextUser'
  <2> TAKE u \in users'
  <2>1. CASE u \in users
    BY <2>1, <1>1, <1>2, <1>5
  <2>2. CASE u = new
    BY <2>2, <1>1, <1>2, <1>4
  <2> QED
    BY <2>1, <2>2, <1>1
<1>7. \A u, v \in users' : u.id = v.id => u = v
  BY <1>1, <1>4, <1>5 DEF AccountsInv, UsersOK
<1>8. \A u, v \in users' : u.google # None /\ u.google = v.google => u = v
  BY <1>1, <1>4 DEF AccountsInv, UsersOK, Known
<1>9. \A u \in users' : u.password = None \/ u.google = None
  BY <1>1, <1>4 DEF AccountsInv, UsersOK
<1>10. UsersOK'
  BY <1>6, <1>7, <1>8, <1>9 DEF UsersOK
<1> QED
  BY <1>1, <1>2, <1>3, <1>4, <1>10

\* The session that is signed for a row.
LEMMA SignedSession ==
  ASSUME AccountsInv, NEW id \in Nat, NEW n \in Names
  PROVE  /\ Sign(id, n) \in Sessions
         /\ Sign(id, n).uid = id /\ Sign(id, n).username = n
         /\ Sign(id, n).key = secret /\ ~Sign(id, n).old
  BY DEF Sign, Sessions, AccountsInv, AccountsTypeOK

-----------------------------------------------------------------------------
\* The steps of a login with a password.
LEMMA RejectFormKeeps ==
  ASSUME AccountsInv, NEW r \in Logins, RejectForm(r)
  PROVE  AccountsInv'
<1> USE DEF RejectForm
<1>1. /\ pc'[r] = "rejected" /\ pc' \in [Logins -> Places]
      /\ \A q \in Logins : q # r => pc'[q] = pc[q]
  BY LoginMoves DEF Places
<1>2. AccountsTypeOK' /\ UsersOK'
  BY <1>1 DEF AccountsInv, AccountsTypeOK, UsersOK, Places, jar
<1>3. LoginOK(r)'
  BY <1>1 DEF AccountsInv, LoginOK, NoSessionYet, Written
<1> QED
  BY <1>1, <1>2, <1>3, MoveLogin DEF ByGoogle

LEMMA SubmitKeeps ==
  ASSUME AccountsInv, NEW r \in Logins, NEW f \in {"register", "login"}, NEW b \in Browsers,
         NEW n \in Names, NEW p \in Passwords, Submit(r, f, b, n, p)
  PROVE  AccountsInv'
<1> DEFINE a == [Nothing EXCEPT !.browser = b, !.name = n, !.password = p]
<1> USE DEF Submit, Enter
<1>1. /\ pc[r] = "idle" /\ pc'[r] = f /\ pc' \in [Logins -> Places]
      /\ \A q \in Logins : q # r => pc'[q] = pc[q]
  BY LoginMoves DEF Places, AtServer
<1>2. a \in Asks /\ a.browser = b /\ a.name = n /\ a.password = p /\ a.google = None
  BY DEF Asks, Nothing
<1>3. /\ ask'[r] = a /\ ask' \in [Logins -> Asks]
      /\ \A q \in Logins : q # r => ask'[q] = ask[q]
  BY <1>2 DEF AccountsInv, AccountsTypeOK, Asks
<1> HIDE DEF a
<1>4. AccountsTypeOK' /\ UsersOK'
  BY <1>1, <1>3 DEF AccountsInv, AccountsTypeOK, UsersOK, Places, Asks, jar
<1>5. session'[r] = None
  BY <1>1 DEF AccountsInv, LoginOK, NoSessionYet
<1>6. LoginOK(r)' /\ ~ByGoogle(r)'
  BY <1>1, <1>2, <1>3, <1>5 DEF LoginOK, ByGoogle, NoSessionYet, Written
<1> QED
  BY <1>1, <1>3, <1>4, <1>6, MoveLogin

LEMMA CreateUserKeeps ==
  ASSUME AccountsInv, NEW r \in Logins, CreateUser(r)
  PROVE  AccountsInv'
<1> USE DEF CreateUser
<1>1. pc[r] = "register"
  BY DEF Answer
<1>2. ask[r].name \in Names /\ ask[r].google = None
  BY <1>1 DEF AccountsInv, LoginOK
<1>3. /\ users \subseteq users' /\ users' \subseteq Rows /\ nextUser' \in Nat
      /\ UsersOK'
      /\ \E u \in users' : /\ u.id = nextUser /\ u.username = ask[r].name
                           /\ u.password = ask[r].password /\ u.google = ask[r].google
  BY <1>2, InsertStep
<1>4. nextUser \in Nat
  BY DEF AccountsInv, AccountsTypeOK
<1>5. CASE Answer(r, "register", Sign(nextUser, ask[r].name))
  BY <1>2, <1>3, <1>4, <1>5, SignedSession, AnswerStep
<1>6. CASE Answer(r, "register", None)
  BY <1>3, <1>6, AnswerStep
<1> QED
  BY <1>5, <1>6

\* The session of a row, or none, when the rows stay as they are.
LEMMA AnswerOnly ==
  ASSUME AccountsInv, NEW r \in Logins,
         NEW from \in {"register", "login", "consent", "exchange", "upsert"},
         UNCHANGED <<users, nextUser, persistent, secret, jar, ask, spent>>,
         \/ Answer(r, from, None)
         \/ \E u \in users : /\ u.password = ask[r].password /\ u.google = ask[r].google
                             /\ Answer(r, from, Sign(u.id, u.username))
  PROVE  AccountsInv'
<1>1. /\ users' = users /\ users' \subseteq Rows /\ nextUser' \in Nat /\ UsersOK'
  BY DEF AccountsInv, AccountsTypeOK, UsersOK, Rows
<1>2. CASE Answer(r, from, None)
  BY <1>1, <1>2, AnswerStep
<1>3. ASSUME NEW u \in users, u.password = ask[r].password, u.google = ask[r].google,
             Answer(r, from, Sign(u.id, u.username))
      PROVE  AccountsInv'
  <2>1. u.id \in Nat /\ u.username \in Names
    BY <1>1 DEF Rows
  <2> QED
    BY <1>1, <1>3, <2>1, SignedSession, AnswerStep
<1> QED
  BY <1>2, <1>3

LEMMA AnswerLoginKeeps ==
  ASSUME AccountsInv, NEW r \in Logins, AnswerLogin(r)
  PROVE  AccountsInv'
<1>1. pc[r] = "login"
  BY DEF AnswerLogin, Answer
<1>2. ask[r].password \in Passwords /\ ask[r].google = None
  BY <1>1 DEF AccountsInv, LoginOK
<1>3. \A u \in users : u.password = ask[r].password => u.google = ask[r].google
  BY <1>2 DEF AccountsInv, UsersOK
<1> QED
  BY <1>3, AnswerOnly DEF AnswerLogin

-----------------------------------------------------------------------------
\* The steps of a login through Google.
LEMMA GoogleLoginKeeps ==
  ASSUME AccountsInv, NEW r \in Logins, NEW b \in Browsers, GoogleLogin(r, b)
  PROVE  AccountsInv'
<1> DEFINE a == [Nothing EXCEPT !.browser = b]
<1> USE DEF GoogleLogin, Enter
<1>1. /\ pc[r] = "idle" /\ pc'[r] = "consent" /\ pc' \in [Logins -> Places]
      /\ \A q \in Logins : q # r => pc'[q] = pc[q]
  BY LoginMoves DEF Places
<1>2. a \in Asks /\ a.browser = b /\ a.password = None
  BY DEF Asks, Nothing
<1>3. /\ ask'[r] = a /\ ask' \in [Logins -> Asks]
      /\ \A q \in Logins : q # r => ask'[q] = ask[q]
  BY <1>2 DEF AccountsInv, AccountsTypeOK, Asks
<1> HIDE DEF a
<1>4. /\ oauthState'[b] = r /\ oauthState' \in [Browsers -> Logins \union {None}]
      /\ \A c \in Browsers : c # b => oauthState'[c] = oauthState[c]
  BY DEF AccountsInv, AccountsTypeOK
<1>5. AccountsTypeOK' /\ UsersOK'
  BY <1>1, <1>3, <1>4 DEF AccountsInv, AccountsTypeOK, UsersOK, Places, Asks
<1>6. session'[r] = None
  BY <1>1 DEF AccountsInv, LoginOK, NoSessionYet
<1>7. LoginOK(r)' /\ StateOK(r)'
  BY <1>1, <1>2, <1>3, <1>4, <1>6 DEF LoginOK, StateOK, NoSessionYet, Written
<1>8. \A q \in Logins : LoginOK(q)'
  BY <1>1, <1>3, <1>7, OtherLogin
<1>9. \A c \in Browsers : CookieOK(c)'
  BY <1>1, <1>3, SameCookie
<1>10. ASSUME NEW q \in Logins, q # r PROVE StateOK(q)'
  <2>1. pc'[q] = pc[q] /\ ask'[q] = ask[q] /\ StateOK(q)
    BY <1>1, <1>3, <1>10 DEF AccountsInv
  <2>2. pc[q] \notin {"idle", "rejected"} /\ Overtaken(q) => Overtaken(q)'
    BY <2>1, <1>1, <1>3, StillOvertaken
  <2>3. ask[q].browser = b => Overtaken(q)'
    BY <2>1, <1>2, <1>3, <1>10 DEF Overtaken
  <2>4. pc[q] \notin {"idle", "rejected"} => ask[q].browser \in Browsers
    BY DEF AccountsInv, LoginOK
  <2> QED
    BY <2>1, <2>2, <2>3, <2>4, <1>4 DEF StateOK, ByGoogle
<1> QED
  BY <1>5, <1>7, <1>8, <1>9, <1>10 DEF AccountsInv

LEMMA CallbackKeeps ==
  ASSUME AccountsInv, NEW r \in Logins, NEW g \in GoogleUsers, NEW e \in Emails,
         Callback(r, g, e)
  PROVE  AccountsInv'
<1> DEFINE a == [ask[r] EXCEPT !.google = g, !.name = deriveUsername[e]]
<1> USE DEF Callback
<1>1. /\ pc[r] = "consent" /\ pc'[r] = "exchange" /\ pc' \in [Logins -> Places]
      /\ \A q \in Logins : q # r => pc'[q] = pc[q]
  BY LoginMoves DEF Places, AtServer
<1>2. ask[r] \in Asks /\ deriveUsername[e] \in Names
  BY DEF AccountsInv, AccountsTypeOK, Asks
<1>3. /\ a \in Asks /\ a.google = g /\ a.name = deriveUsername[e]
      /\ a.browser = ask[r].browser /\ a.password = ask[r].password
  BY <1>2 DEF Asks
<1>4. /\ ask'[r] = a /\ ask' \in [Logins -> Asks]
      /\ \A q \in Logins : q # r => ask'[q] = ask[q]
  BY <1>3 DEF AccountsInv, AccountsTypeOK, Asks
<1> HIDE DEF a
<1>5. AccountsTypeOK' /\ UsersOK'
  BY <1>1, <1>4 DEF AccountsInv, AccountsTypeOK, UsersOK, Places, Asks, jar
<1>6. session'[r] = None /\ ask[r].browser \in Browsers /\ ask[r].password = None
  BY <1>1 DEF AccountsInv, LoginOK, NoSessionYet
<1>7. LoginOK(r)'
  BY <1>1, <1>2, <1>3, <1>4, <1>6 DEF LoginOK, NoSessionYet, Written
<1> QED
  BY <1>1, <1>3, <1>4, <1>5, <1>7, MoveLogin

LEMMA CallbackRefusedKeeps ==
  ASSUME AccountsInv, NEW r \in Logins, CallbackRefused(r)
  PROVE  AccountsInv'
<1> USE DEF CallbackRefused
<1>1. /\ pc[r] = "consent" /\ pc'[r] = "bad state" /\ pc' \in [Logins -> Places]
      /\ \A q \in Logins : q # r => pc'[q] = pc[q]
  BY LoginMoves DEF Places
<1>2. AccountsTypeOK' /\ UsersOK'
  BY <1>1 DEF AccountsInv, AccountsTypeOK, UsersOK, Places, jar
<1>3. LoginOK(r)'
  BY <1>1 DEF AccountsInv, LoginOK, NoSessionYet, Written
<1>4. Overtaken(r)
  BY <1>1 DEF AccountsInv, StateOK, ByGoogle, LoginOK
<1> QED
  BY <1>1, <1>2, <1>3, <1>4, MoveLogin

\* A login that is tried again has the state that it had.
LEMMA RetryKeeps ==
  ASSUME AccountsInv, NEW r \in Logins, Retry(r)
  PROVE  AccountsInv'
<1> DEFINE a == [Nothing EXCEPT !.browser = ask[r].browser]
<1> USE DEF Retry
<1>1. /\ pc[r] \in {"lost", "done"} /\ pc[r] = "done" => session[r] = None
      /\ pc'[r] = "consent" /\ pc' \in [Logins -> Places]
      /\ \A q \in Logins : q # r => pc'[q] = pc[q]
  BY LoginMoves DEF Places
<1>2. ask[r].browser \in Browsers /\ ask[r].password = None
  BY <1>1 DEF AccountsInv, LoginOK, Google
<1>3. a \in Asks /\ a.browser = ask[r].browser /\ a.password = None
  BY <1>2 DEF Asks, Nothing
<1>4. /\ ask'[r] = a /\ ask' \in [Logins -> Asks]
      /\ \A q \in Logins : q # r => ask'[q] = ask[q]
  BY <1>3 DEF AccountsInv, AccountsTypeOK, Asks
<1> HIDE DEF a
<1>5. /\ session'[r] = None /\ session' \in [Logins -> Sessions \union {None}]
      /\ \A q \in Logins : q # r => session'[q] = session[q]
  BY DEF AccountsInv, AccountsTypeOK
<1>6. AccountsTypeOK' /\ UsersOK'
  BY <1>1, <1>4, <1>5 DEF AccountsInv, AccountsTypeOK, UsersOK, Places, Asks, jar
<1>7. LoginOK(r)'
  BY <1>1, <1>2, <1>3, <1>4, <1>5 DEF LoginOK, NoSessionYet, Written
<1> QED
  BY <1>1, <1>2, <1>3, <1>4, <1>5, <1>6, <1>7, MoveLogin

LEMMA UpsertFindsKeeps ==
  ASSUME AccountsInv, NEW r \in Logins, NEW from \in {"exchange", "upsert"},
         UpsertFinds(r, from)
  PROVE  AccountsInv'
<1>1. pc[r] = from
  BY DEF UpsertFinds, Answer
<1>2. ask[r].google \in GoogleUsers /\ ask[r].password = None
  BY <1>1 DEF AccountsInv, LoginOK
<1>3. \A u \in Known(r) : u \in users /\ u.password = ask[r].password /\ u.google = ask[r].google
  BY <1>2 DEF Known, AccountsInv, UsersOK
<1> QED
  BY <1>3, AnswerOnly DEF UpsertFinds

LEMMA UpsertMissesKeeps ==
  ASSUME AccountsInv, NEW r \in Logins, UpsertMisses(r)
  PROVE  AccountsInv'
<1> USE DEF UpsertMisses
<1>1. /\ pc[r] = "exchange" /\ pc'[r] = "upsert" /\ pc' \in [Logins -> Places]
      /\ \A q \in Logins : q # r => pc'[q] = pc[q]
  BY LoginMoves DEF Places, AtServer
<1>2. AccountsTypeOK' /\ UsersOK'
  BY <1>1 DEF AccountsInv, AccountsTypeOK, UsersOK, Places, jar
<1>3. LoginOK(r)'
  BY <1>1 DEF AccountsInv, LoginOK, NoSessionYet, Written
<1> QED
  BY <1>1, <1>2, <1>3, MoveLogin

LEMMA UpsertInsertsKeeps ==
  ASSUME AccountsInv, NEW r \in Logins, UpsertInserts(r)
  PROVE  AccountsInv'
<1> USE DEF UpsertInserts
<1>1. pc[r] = "upsert"
  BY DEF Answer
<1>2. ask[r].name \in Names /\ ask[r].password = None
  BY <1>1 DEF AccountsInv, LoginOK
<1>3. /\ users \subseteq users' /\ users' \subseteq Rows /\ nextUser' \in Nat
      /\ UsersOK'
      /\ \E u \in users' : /\ u.id = nextUser /\ u.username = ask[r].name
                           /\ u.password = ask[r].password /\ u.google = ask[r].google
  BY <1>2, InsertStep
<1>4. nextUser \in Nat
  BY DEF AccountsInv, AccountsTypeOK
<1>5. CASE Answer(r, "upsert", Sign(nextUser, ask[r].name))
  BY <1>2, <1>3, <1>4, <1>5, SignedSession, AnswerStep
<1>6. CASE Answer(r, "upsert", None)
  BY <1>3, <1>6, AnswerStep
<1> QED
  BY <1>5, <1>6

LEMMA GoogleStepKeeps ==
  ASSUME AccountsInv, NEW r \in Logins, GoogleStep(r)
  PROVE  AccountsInv'
<1>1. CASE Declined(r)
  BY <1>1, AnswerOnly DEF Declined
<1> QED
  BY <1>1, GoogleLoginKeeps, CallbackKeeps, CallbackRefusedKeeps, RetryKeeps, UpsertFindsKeeps,
     UpsertMissesKeeps, UpsertInsertsKeeps DEF GoogleStep

-----------------------------------------------------------------------------
\* Failures, responses and time.
LEMMA RefusalsKeep ==
  ASSUME AccountsInv, NEW r \in Logins, NameTaken(r) \/ CallFails(r)
  PROVE  AccountsInv'
<1>1. CASE NameTaken(r)
  BY <1>1, AnswerOnly DEF NameTaken
<1>2. CASE CallFails(r)
  BY <1>2, AnswerOnly DEF CallFails, AtServer
<1> QED
  BY <1>1, <1>2

\* A cookie arrives with the login that it is from.
LEMMA RespondKeeps ==
  ASSUME AccountsInv, NEW r \in Logins, Respond(r)
  PROVE  AccountsInv'
<1> DEFINE b == ask[r].browser
<1> USE DEF Respond
<1>1. /\ pc[r] \in Written /\ pc'[r] = "done" /\ pc' \in [Logins -> Places]
      /\ \A q \in Logins : q # r => pc'[q] = pc[q]
  BY LoginMoves DEF Places
<1>2. b \in Browsers
  BY <1>1 DEF AccountsInv, LoginOK, Written
<1>3. /\ cookie' \in [Browsers -> Sessions \union {None}]
      /\ oauthState' \in [Browsers -> Logins \union {None}]
      /\ session[r] # None => cookie'[b] = session[r]
      /\ session[r] = None => cookie' = cookie
      /\ \A c \in Browsers : c # b => cookie'[c] = cookie[c] /\ oauthState'[c] = oauthState[c]
      /\ oauthState' # oauthState => Google(r)
      /\ spent \subseteq spent' /\ spent' \subseteq Logins /\ (Google(r) => r \in spent')
  BY <1>2 DEF AccountsInv, AccountsTypeOK
<1>4. AccountsTypeOK' /\ UsersOK'
  BY <1>1, <1>3 DEF AccountsInv, AccountsTypeOK, UsersOK, Places
<1>5. LoginOK(r)'
  BY <1>1 DEF AccountsInv, LoginOK, Earned, NoSessionYet, Written
<1>6. \A q \in Logins : LoginOK(q)'
  BY <1>1, <1>5, OtherLogin
<1>7. ASSUME NEW c \in Browsers PROVE CookieOK(c)'
  <2>1. CASE c = b /\ session[r] # None
    BY <2>1, <1>1, <1>3 DEF CookieOK
  <2>2. CASE ~(c = b /\ session[r] # None)
    <3>1. cookie'[c] = cookie[c]
      BY <2>2, <1>3
    <3> QED
      BY <3>1, <1>1, SameCookie DEF Written
  <2> QED
    BY <2>1, <2>2
<1>8. ASSUME NEW q \in Logins PROVE StateOK(q)'
  <2>1. CASE q = r
    BY <2>1, <1>1, <1>3 DEF StateOK, ByGoogle, Google, Overtaken
  <2>2. CASE q # r
    <3>1. pc'[q] = pc[q] /\ ask'[q] = ask[q] /\ StateOK(q)
      BY <2>2, <1>1 DEF AccountsInv
    <3>2. pc[q] \notin {"idle", "rejected"} /\ Overtaken(q) => Overtaken(q)'
      BY <1>3, <3>1, StillOvertaken
    <3>3. ask[q].browser = b /\ Google(r) => Overtaken(q)'
      BY <2>2 DEF Overtaken, Google
    <3>4. pc[q] \notin {"idle", "rejected"} => ask[q].browser \in Browsers
      BY DEF AccountsInv, LoginOK
    <3> QED
      BY <3>1, <3>2, <3>3, <3>4, <1>3 DEF StateOK, ByGoogle
  <2> QED
    BY <2>1, <2>2
<1> QED
  BY <1>4, <1>6, <1>7, <1>8 DEF AccountsInv

LEMMA ResponseLostKeeps ==
  ASSUME AccountsInv, NEW r \in Logins, ResponseLost(r)
  PROVE  AccountsInv'
<1> USE DEF ResponseLost
<1>1. /\ pc[r] \in Written /\ pc'[r] = "lost" /\ pc' \in [Logins -> Places]
      /\ \A q \in Logins : q # r => pc'[q] = pc[q]
  BY LoginMoves DEF Places
<1>2. AccountsTypeOK' /\ UsersOK'
  BY <1>1 DEF AccountsInv, AccountsTypeOK, UsersOK, Places, jar
<1>3. LoginOK(r)'
  BY <1>1 DEF AccountsInv, LoginOK, Earned, NoSessionYet, Written
<1> QED
  BY <1>1, <1>2, <1>3, MoveLogin DEF Written

LEMMA BrowserStepKeeps ==
  ASSUME AccountsInv, NEW b \in Browsers, BrowserStep(b)
  PROVE  AccountsInv'
<1>1. /\ UNCHANGED <<users, nextUser, persistent, secret, pc, ask, session>>
      /\ spent \subseteq spent'
  BY DEF BrowserStep, Logout, SessionExpires, StateExpires
<1>2. \A c \in Browsers : cookie'[c] # None =>
         /\ cookie[c] # None
         /\ cookie'[c].uid = cookie[c].uid /\ cookie'[c].username = cookie[c].username
  <2>1. CASE Logout(b)
    BY <2>1 DEF Logout, AccountsInv, AccountsTypeOK
  <2>2. CASE SessionExpires(b)
    <3>1. cookie[b] \in Sessions
      BY <2>2 DEF SessionExpires, AccountsInv, AccountsTypeOK
    <3> QED
      BY <2>2, <3>1 DEF SessionExpires, AccountsInv, AccountsTypeOK, Sessions
  <2>3. CASE StateExpires(b)
    BY <2>3 DEF StateExpires
  <2> QED
    BY <2>1, <2>2, <2>3 DEF BrowserStep
<1>3. /\ cookie' \in [Browsers -> Sessions \union {None}]
      /\ oauthState' \in [Browsers -> Logins \union {None}] /\ spent' \subseteq Logins
  <2>1. CASE Logout(b)
    BY <2>1 DEF Logout, AccountsInv, AccountsTypeOK
  <2>2. CASE SessionExpires(b)
    <3>1. cookie[b] \in Sessions
      BY <2>2 DEF SessionExpires, AccountsInv, AccountsTypeOK
    <3>2. [cookie[b] EXCEPT !.old = TRUE] \in Sessions
      BY <3>1 DEF Sessions
    <3> QED
      BY <2>2, <3>2 DEF SessionExpires, AccountsInv, AccountsTypeOK
  <2>3. CASE StateExpires(b)
    BY <2>3 DEF StateExpires, AccountsInv, AccountsTypeOK
  <2> QED
    BY <2>1, <2>2, <2>3 DEF BrowserStep
<1>4. AccountsTypeOK' /\ UsersOK'
  BY <1>1, <1>3 DEF AccountsInv, AccountsTypeOK, UsersOK
<1>5. \A q \in Logins : LoginOK(q)'
  BY <1>1, OtherLogin
<1>6. \A c \in Browsers : CookieOK(c)'
  BY <1>1, <1>2, SameCookie
<1>7. ASSUME NEW q \in Logins PROVE StateOK(q)'
  <2>1. pc'[q] = pc[q] /\ ask'[q] = ask[q] /\ StateOK(q)
    BY <1>1 DEF AccountsInv
  <2>2. pc[q] \notin {"idle", "rejected"} /\ Overtaken(q) => Overtaken(q)'
    BY <2>1, <1>1, StillOvertaken
  <2>3. ByGoogle(q) /\ oauthState[ask[q].browser] = q =>
          oauthState'[ask[q].browser] = q \/ Overtaken(q)'
    <3>1. ByGoogle(q) => ask[q].browser \in Browsers
      BY DEF AccountsInv, LoginOK, ByGoogle
    <3>2. CASE StateExpires(b)
      BY <3>1, <3>2, <2>1 DEF StateExpires, AccountsInv, AccountsTypeOK, Overtaken
    <3>3. CASE Logout(b) \/ SessionExpires(b)
      BY <3>3 DEF Logout, SessionExpires
    <3> QED
      BY <3>2, <3>3 DEF BrowserStep
  <2> QED
    BY <2>1, <2>2, <2>3 DEF StateOK, ByGoogle
<1> QED
  BY <1>4, <1>5, <1>6, <1>7 DEF AccountsInv

\* A restart loses the requests being handled; a session that was sent and has not
\* arrived has the new key only when the secret is configured.
LEMMA RestartKeeps == AccountsInv /\ Restart => AccountsInv'
<1> SUFFICES ASSUME AccountsInv, Restart PROVE AccountsInv'
  OBVIOUS
<1> USE DEF Restart
<1>1. /\ pc' \in [Logins -> Places]
      /\ \A q \in Logins : pc'[q] = IF pc[q] \in AtServer THEN "lost"
                                    ELSE IF pc[q] = "answer" THEN "late" ELSE pc[q]
  BY DEF AccountsInv, AccountsTypeOK, Places, Written
<1>2. secret' \in Nat /\ (persistent => secret' = secret)
  <2>1. secret \in Nat
    BY DEF AccountsInv, AccountsTypeOK
  <2>2. secret' = IF persistent THEN secret ELSE secret + 1
    BY DEF SecretAtStart
  <2> QED
    BY <2>1, <2>2
<1>3. AccountsTypeOK' /\ UsersOK'
  BY <1>1, <1>2 DEF AccountsInv, AccountsTypeOK, UsersOK, Places, jar
<1>4. ASSUME NEW q \in Logins PROVE LoginOK(q)'
  <2>1. LoginOK(q) /\ pc[q] \in Places /\ ask'[q] = ask[q] /\ session'[q] = session[q]
    BY DEF AccountsInv, AccountsTypeOK, Places
  <2>2. CASE pc[q] \in AtServer
    <3>1. pc'[q] = "lost"
      BY <2>2, <1>1
    <3>2. pc[q] \notin {"idle", "rejected"}
      BY <2>2 DEF AtServer
    <3> QED
      BY <2>1, <3>1, <3>2 DEF LoginOK, Earned, NoSessionYet, Written
  <2>3. CASE pc[q] = "answer"
    <3>1. pc'[q] = "late"
      BY <2>3, <1>1 DEF AtServer
    <3> QED
      BY <1>2, <2>1, <2>3, <3>1 DEF LoginOK, Earned, NoSessionYet, Written
  <2>4. CASE pc[q] \notin AtServer /\ pc[q] # "answer"
    <3>1. pc'[q] = pc[q]
      BY <2>4, <1>1
    <3> QED
      BY <1>2, <2>1, <2>4, <3>1 DEF LoginOK, Earned
  <2> QED
    BY <2>2, <2>3, <2>4
<1>5. \A b \in Browsers : CookieOK(b)'
  BY <1>1, SameCookie DEF jar, AtServer
<1>6. \A q \in Logins : StateOK(q)'
  BY <1>1 DEF AccountsInv, StateOK, ByGoogle, Overtaken, AtServer, jar
<1> QED
  BY <1>3, <1>4, <1>5, <1>6 DEF AccountsInv

LEMMA AccountsStep == AccountsInv /\ [AccountsNext]_accountVars => AccountsInv'
<1> SUFFICES ASSUME AccountsInv, [AccountsNext]_accountVars PROVE AccountsInv'
  OBVIOUS
<1>1. CASE UNCHANGED accountVars
  <2> USE <1>1 DEF accountVars, jar
  <2>1. AccountsTypeOK' /\ UsersOK'
    BY DEF AccountsInv, AccountsTypeOK, UsersOK
  <2>2. \A r \in Logins : LoginOK(r)'
    BY OtherLogin
  <2>3. \A b \in Browsers : CookieOK(b)'
    BY SameCookie
  <2>4. \A r \in Logins : StateOK(r)'
    BY DEF AccountsInv, StateOK, ByGoogle, Overtaken
  <2> QED
    BY <2>1, <2>2, <2>3, <2>4 DEF AccountsInv
<1>2. ASSUME NEW r \in Logins, PasswordStep(r) PROVE AccountsInv'
  BY <1>2, RejectFormKeeps, SubmitKeeps, CreateUserKeeps, AnswerLoginKeeps DEF PasswordStep
<1>3. CASE AccountsNext
  BY <1>2, <1>3, GoogleStepKeeps, RefusalsKeep, RespondKeeps, ResponseLostKeeps,
     BrowserStepKeeps, RestartKeeps DEF AccountsNext
<1> QED
  BY <1>1, <1>3

LEMMA AccountsInvariant == AccountsSpec => []AccountsInv
  BY InitialAccounts, AccountsStep, PTL DEF AccountsSpec

-----------------------------------------------------------------------------
\* Types; and every account has a username, also one that Google made.
THEOREM AccountsTypeCorrect == AccountsSpec => []AccountsTypeOK
<1>1. AccountsInv => AccountsTypeOK
  BY DEF AccountsInv
<1> QED
  BY <1>1, AccountsInvariant, PTL

\* Every session cookie, however old and signed with whichever secret, names an
\* account that exists, by the username that it has.
THEOREM SessionsNameAccounts == AccountsSpec => []SessionNamesAccount
<1>1. AccountsInv => SessionNamesAccount
  <2> SUFFICES ASSUME AccountsInv, NEW b \in Browsers, cookie[b] # None
               PROVE  \E u \in users : u.id = cookie[b].uid /\ u.username = cookie[b].username
    BY DEF SessionNamesAccount
  <2>1. PICK r \in Logins : /\ session[r] # None
                            /\ session[r].uid = cookie[b].uid
                            /\ session[r].username = cookie[b].username
    BY DEF AccountsInv, CookieOK
  <2>2. Earned(r)
    BY <2>1 DEF AccountsInv, LoginOK
  <2> QED
    BY <2>1, <2>2 DEF Earned
<1> QED
  BY <1>1, AccountsInvariant, PTL

\* No browser ever holds a session that a login in it did not get, nor a login one
\* of an account whose password or Google user it did not give.
THEOREM SessionsAreEarned == AccountsSpec => []SessionIsEarned
<1>1. AccountsInv => SessionIsEarned
  <2> SUFFICES ASSUME AccountsInv, NEW b \in Browsers, cookie[b] # None
               PROVE  \E r \in Logins :
                        /\ pc[r] = "done" /\ ask[r].browser = b
                        /\ session[r] # None /\ session[r].uid = cookie[b].uid
                        /\ \E u \in users : /\ u.id = session[r].uid
                                            /\ u.password = ask[r].password
                                            /\ u.google = ask[r].google
    BY DEF SessionIsEarned
  <2>1. PICK r \in Logins : /\ pc[r] = "done" /\ ask[r].browser = b
                            /\ session[r] # None /\ session[r].uid = cookie[b].uid
    BY DEF AccountsInv, CookieOK
  <2>2. Earned(r)
    BY <2>1 DEF AccountsInv, LoginOK
  <2> QED
    BY <2>1, <2>2 DEF Earned
<1> QED
  BY <1>1, AccountsInvariant, PTL

\* Two logins through Google get one account exactly when they are of one Google
\* user, whatever its address and however they interleave.
THEOREM OneAccountPerGoogleUser == AccountsSpec => []AccountPerGoogleUser
<1>1. AccountsInv => AccountPerGoogleUser
  <2> SUFFICES ASSUME AccountsInv, NEW q \in Logins, NEW r \in Logins,
                      session[q] # None, ask[q].google # None,
                      session[r] # None, ask[r].google # None
               PROVE  session[q].uid = session[r].uid <=> ask[q].google = ask[r].google
    BY DEF AccountPerGoogleUser
  <2>1. Earned(q) /\ Earned(r)
    BY DEF AccountsInv, LoginOK
  <2>2. PICK u \in users : u.id = session[q].uid /\ u.google = ask[q].google
    BY <2>1 DEF Earned
  <2>3. PICK v \in users : v.id = session[r].uid /\ v.google = ask[r].google
    BY <2>1 DEF Earned
  <2> QED
    BY <2>2, <2>3 DEF AccountsInv, UsersOK
<1> QED
  BY <1>1, AccountsInvariant, PTL

\* A Google login's state is refused only after another one in the same browser,
\* its ten minutes, or an answer to its own callback.
THEOREM StateRefusalsHaveCause == AccountsSpec => []StateRefusalHasCause
<1>1. AccountsInv => StateRefusalHasCause
  BY DEF AccountsInv, StateOK, Overtaken, StateRefusalHasCause
<1> QED
  BY <1>1, AccountsInvariant, PTL

\* Only a logout, its age, a restart with a new secret or an answer from before
\* one ends a session: every other answer to another login in the browser replaces
\* it by one that is as good.
THEOREM SessionsEndForCause == AccountsSpec => SignedInUntilCause
<1> DEFINE Cause == \A b \in Browsers : SignedIn(b) /\ ~SignedIn(b)' =>
                      \/ Logout(b)
                      \/ SessionExpires(b)
                      \/ ~persistent /\ (Restart \/ LateSession(b))
<1>1. AccountsInv /\ [AccountsNext]_accountVars => [Cause]_accountVars
  <2> SUFFICES ASSUME AccountsInv, AccountsNext, NEW b \in Browsers,
                      SignedIn(b), ~SignedIn(b)'
               PROVE  \/ Logout(b)
                      \/ SessionExpires(b)
                      \/ ~persistent /\ (Restart \/ LateSession(b))
    OBVIOUS
  <2>1. cookie'[b] # cookie[b] \/ secret' # secret
    BY DEF SignedIn
  <2>2. CASE Restart
    BY <2>1, <2>2 DEF Restart, SecretAtStart, SignedIn, jar
  <2>3. ASSUME NEW r \in Logins, Respond(r)
        PROVE  ~persistent /\ LateSession(b)
    <3>1. pc[r] \in Written /\ secret' = secret
      BY <2>3 DEF Respond
    <3>2. session[r] # None =>
            ~session[r].old /\ (pc[r] = "answer" \/ persistent => session[r].key = secret)
      BY <3>1 DEF AccountsInv, LoginOK
    <3>3. cookie'[b] = session[r] /\ session[r] # None /\ ask[r].browser = b
      <4>1. cookie'[b] # cookie[b]
        BY <2>1, <3>1
      <4> QED
        BY <2>3, <4>1 DEF Respond, AccountsInv, AccountsTypeOK
    <3>4. session[r].key # secret
      BY <3>1, <3>2, <3>3 DEF SignedIn
    <3>5. pc[r] = "late" /\ ~persistent
      BY <3>1, <3>2, <3>3, <3>4 DEF Written
    <3> QED
      BY <2>3, <3>3, <3>5 DEF LateSession
  <2>4. ASSUME NEW c \in Browsers, BrowserStep(c)
        PROVE  Logout(b) \/ SessionExpires(b)
    BY <2>1, <2>4 DEF BrowserStep, Logout, SessionExpires, StateExpires, AccountsInv,
                      AccountsTypeOK
  <2>5. CASE \E r \in Logins : PasswordStep(r)
    BY <2>1, <2>5 DEF PasswordStep, RejectForm, Submit, CreateUser, AnswerLogin, jar
  <2>6. CASE \E r \in Logins : GoogleStep(r)
    BY <2>1, <2>6 DEF GoogleStep, GoogleLogin, Callback, CallbackRefused, Declined, Retry,
                      UpsertFinds, UpsertMisses, UpsertInserts, jar
  <2>7. CASE \E r \in Logins : NameTaken(r) \/ CallFails(r) \/ ResponseLost(r)
    BY <2>1, <2>7 DEF NameTaken, CallFails, ResponseLost, jar
  <2> QED
    BY <2>2, <2>3, <2>4, <2>5, <2>6, <2>7 DEF AccountsNext
<1> QED
  BY <1>1, AccountsInvariant, PTL DEF AccountsSpec, SignedInUntilCause
=============================================================================
