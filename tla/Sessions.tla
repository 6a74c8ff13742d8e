------------------------------ MODULE Sessions ------------------------------
(***************************************************************************)
(* Accounts and browser sessions: registration and sign-in (users/, ui/    *)
(* pages/account.py), the signed-in user in NiceGUI's storage of a browser *)
(* session, the middleware in front of the pages and the log-out of the    *)
(* home page.  The handlers are synchronous: the server's event loop runs  *)
(* one at a time, while other processes may register and the server die.   *)
(* NiceGUI writes a session's storage to its file in a background task,    *)
(* after the handler that changed it: a server that dies first comes back  *)
(* with what the file has.                                                 *)
(***************************************************************************)
EXTENDS Integers, FiniteSets

CONSTANTS
    Browsers, Tabs,
    BrowserOf,    \* the browser of a tab
    Sessions,     \* session ids the cookie may hold
    Typed,        \* what is typed as a username
    NoName,       \* what is typed is blank
    NormalOf,     \* normalize_username
    ValidNames,   \* normalized usernames that validate_username lets pass
    Secrets,
    NoSecret,     \* an empty password field
    Refused,      \* secrets that validate_secret refuses with a username
    Unhashable,   \* secrets for which bcrypt raises
    Nobody        \* nobody is signed in

ASSUME BrowsersAssumption == BrowserOf \in [Tabs -> Browsers]
ASSUME TypedAssumption ==
    /\ NoName \in Typed /\ NoSecret \in Secrets
    /\ DOMAIN NormalOf = Typed
    /\ ValidNames \subseteq {NormalOf[n] : n \in Typed}
    /\ Refused \in [ValidNames -> SUBSET Secrets]
    /\ \A n \in ValidNames : Unhashable \subseteq Refused[n]

Names == {NormalOf[n] : n \in Typed}

VARIABLES
    users,    \* the table: of each registered name the user_id and the secret
    cookie,   \* the session id a browser sends
    storage,  \* app.storage.user of each session, in memory
    disk,     \* the file of it, which a server starts from
    tab,      \* the page in each tab
    handler,  \* the submit() on the event loop
    earned,   \* the model's own: who typed whose secret in a session since its log-out
    kept      \* the model's own: what earned was when the file was written

vars == <<users, cookie, storage, disk, tab, handler, earned, kept>>

Account == [user_id : Nat, secret : Secrets]
SessionUser == [user_id : Nat, username : Names]
Login == [username : Names, secret : Secrets]

\* A page keeps the session it was requested with; shown is the user a home page was
\* built for, goto what ui.navigate.to told the browser to open.
Page ==
    [page : {"login", "register", "home"}, session : Sessions,
     shown : SessionUser \cup {Nobody}, goto : {"none", "login", "home"}]

Submission ==
    [phase : {"submitted", "accepted"}, tab : Tabs, name : Typed, secret : Secrets,
     confirmed : BOOLEAN, user_id : Nat]

ASSUME NobodyAssumption == Nobody \notin SessionUser \cup Login \cup Submission

-----------------------------------------------------------------------------

TypeOK ==
    /\ DOMAIN users \subseteq ValidNames /\ users \in [DOMAIN users -> Account]
    /\ cookie \in [Browsers -> Sessions]
    /\ storage \in [Sessions -> SessionUser \cup {Nobody}]
    /\ disk \in [Sessions -> SessionUser \cup {Nobody}]
    /\ tab \in [Tabs -> Page]
    /\ handler \in Submission \cup {Nobody}
    /\ earned \in [Sessions -> Login \cup {Nobody}]
    /\ kept \in [Sessions -> Login \cup {Nobody}]

Blank(page, s) == [page |-> page, session |-> s, shown |-> Nobody, goto |-> "none"]

Init ==
    /\ users = [n \in {} |-> 0]
    /\ cookie \in {f \in [Browsers -> Sessions] : \A a, b \in Browsers : f[a] = f[b] => a = b}
    /\ storage = [s \in Sessions |-> Nobody]
    /\ disk = storage
    /\ tab = [t \in Tabs |-> Blank("login", cookie[BrowserOf[t]])]
    /\ handler = Nobody
    /\ earned = [s \in Sessions |-> Nobody]
    /\ kept = earned

\* The session of a request.
Session(t) == cookie[BrowserOf[t]]

\* AuthMiddleware, then the page: public pages are shown to anybody, the home page to
\* the session's user.
PageFor(path, s, user) ==
    IF path = "home" /\ user = Nobody THEN Blank("login", s)
    ELSE IF path = "home" THEN [Blank("home", s) EXCEPT !.shown = user]
    ELSE Blank(path, s)

\* A request of the browser: an address, a link or a reload.
Visit(t, path) ==
    /\ handler = Nobody
    /\ tab' = [tab EXCEPT ![t] = PageFor(path, Session(t), storage[Session(t)])]
    /\ UNCHANGED <<users, cookie, storage, disk, handler, earned, kept>>

FollowGoto(t) ==
    /\ tab[t].goto # "none"
    /\ Visit(t, tab[t].goto)

Submit(t, name, secret, confirmed) ==
    /\ handler = Nobody
    /\ tab[t].page \in {"login", "register"}
    /\ handler' = [phase |-> "submitted", tab |-> t, name |-> name, secret |-> secret,
                   confirmed |-> confirmed, user_id |-> 0]
    /\ UNCHANGED <<users, cookie, storage, disk, tab, earned, kept>>

Form == tab[handler.tab].page
Running(form) == handler # Nobody /\ handler.phase = "submitted" /\ Form = form
Name == NormalOf[handler.name]

Missing == handler.name = NoName \/ handler.secret = NoSecret

\* The form stays, with a message.
Reject ==
    /\ handler' = Nobody
    /\ UNCHANGED <<users, cookie, storage, disk, tab, earned, kept>>

Accept(id) ==
    /\ handler' = [handler EXCEPT !.phase = "accepted", !.user_id = id]
    /\ UNCHANGED <<cookie, storage, disk, tab, earned, kept>>

\* Mutant: any secret of the right account will do.
VerifiedByName == Name \in DOMAIN users

\* bcrypt.checkpw raises ValueError for some secrets, which sign-in counts as wrong.
Verified ==
    /\ Name \in DOMAIN users
    /\ handler.secret \notin Unhashable
    /\ users[Name].secret = handler.secret

CheckCredentials ==
    /\ Running("login")
    /\ IF ~Missing /\ Verified THEN Accept(users[Name].user_id) ELSE Reject
    /\ UNCHANGED users

\* uuid4
Fresh == 1 + Cardinality(DOMAIN users)

WithAccount(name, secret) ==
    [n \in DOMAIN users \cup {name} |->
        IF n = name THEN [user_id |-> Fresh, secret |-> secret] ELSE users[n]]

\* Mutant: the insert replaces a row of the name.
CanInsertAnyway(name) == TRUE

\* UNIQUE of users.username; other processes insert too, up to this statement.
CanInsert(name) == name \notin DOMAIN users

Acceptable ==
    /\ ~Missing
    /\ handler.confirmed
    /\ Name \in ValidNames
    /\ handler.secret \notin Refused[Name]

CreateAccount ==
    /\ Running("register")
    /\ IF Acceptable /\ CanInsert(Name)
       THEN users' = WithAccount(Name, handler.secret) /\ Accept(Fresh)
       ELSE Reject /\ UNCHANGED users

\* sign_in and ui.navigate.to: the session is that of the page.
CompleteSignIn ==
    /\ handler # Nobody
    /\ handler.phase = "accepted"
    /\ LET s == tab[handler.tab].session IN
         /\ storage' = [storage EXCEPT ![s] = [user_id |-> handler.user_id, username |-> Name]]
         /\ earned' = [earned EXCEPT ![s] = [username |-> Name, secret |-> handler.secret]]
    /\ tab' = [tab EXCEPT ![handler.tab].goto = "home"]
    /\ handler' = Nobody
    /\ UNCHANGED <<users, cookie, disk, kept>>

\* The database fails: the exception ends submit() and the page stays as it is.
SubmitRaises ==
    /\ handler # Nobody
    /\ handler.phase = "submitted"
    /\ ~Missing
    /\ handler' = Nobody
    /\ UNCHANGED <<users, cookie, storage, disk, tab, earned, kept>>

SignedOut(s) == [storage EXCEPT ![s] = Nobody]

LogOut(t) ==
    /\ handler = Nobody
    /\ tab[t].page = "home"
    /\ storage' = SignedOut(tab[t].session)
    /\ earned' = [earned EXCEPT ![tab[t].session] = Nobody]
    /\ tab' = [tab EXCEPT ![t].goto = "login"]
    /\ UNCHANGED <<users, cookie, disk, handler, kept>>

\* After SESSION_MAX_AGE the browser forgets the cookie and gets another session; open
\* pages keep theirs.
Expire(b) ==
    /\ \E s \in Sessions :
         /\ \A a \in Browsers, t \in Tabs : s # cookie[a] /\ s # tab[t].session
         /\ storage[s] = Nobody /\ disk[s] = Nobody
         /\ cookie' = [cookie EXCEPT ![b] = s]
    /\ UNCHANGED <<users, storage, disk, tab, handler, earned, kept>>

\* The background task that writes what a session's storage holds to its file.
Backup(s) ==
    /\ disk[s] # storage[s]
    /\ disk' = [disk EXCEPT ![s] = storage[s]]
    /\ kept' = [kept EXCEPT ![s] = earned[s]]
    /\ UNCHANGED <<users, cookie, storage, tab, handler, earned>>

\* The server dies and comes back with the files; the pages reload.
Restart ==
    /\ handler' = Nobody
    /\ storage' = disk
    /\ earned' = kept
    /\ tab' = [t \in Tabs |-> PageFor(tab[t].page, Session(t), disk[Session(t)])]
    /\ UNCHANGED <<users, cookie, disk, kept>>

\* Another process registers an account with the same service.
OtherRegisters(name, secret) ==
    /\ name \in ValidNames
    /\ secret \notin Refused[name]
    /\ name \notin DOMAIN users
    /\ users' = WithAccount(name, secret)
    /\ UNCHANGED <<cookie, storage, disk, tab, handler, earned, kept>>

Next ==
    \/ \E t \in Tabs :
         \/ \E path \in {"login", "register", "home"} : Visit(t, path)
         \/ FollowGoto(t)
         \/ \E n \in Typed, p \in Secrets, same \in BOOLEAN : Submit(t, n, p, same)
         \/ LogOut(t)
    \/ CheckCredentials
    \/ CreateAccount
    \/ CompleteSignIn
    \/ SubmitRaises
    \/ \E b \in Browsers : Expire(b)
    \/ \E s \in Sessions : Backup(s)
    \/ Restart
    \/ \E n \in ValidNames, p \in Secrets : OtherRegisters(n, p)

Spec == Init /\ [][Next]_vars

-----------------------------------------------------------------------------

\* A user of a session whose login is the one given: the account it names exists, with
\* this id and the secret that was typed.
OfAccount(user, login) ==
    /\ user.username \in DOMAIN users
    /\ users[user.username].user_id = user.user_id
    /\ login = [username |-> user.username, secret |-> users[user.username].secret]

\* Whoever is signed in in a session typed, in one of its pages, the username and the
\* secret the account has, and did not log out there since; only a log-out (or a
\* sign-in) whose file was not written before the server died is undone.  Registrations
\* of one name that race, expired cookies and pages left open do not change that.
SessionsNameTheirAccount ==
    \A s \in Sessions : storage[s] # Nobody => OfAccount(storage[s], earned[s])

\* The inductive invariant: the files hold signed-in users too, and an accepted
\* submission holds the id and the secret of the account it names.
FilesNameTheirAccount ==
    \A s \in Sessions : disk[s] # Nobody => OfAccount(disk[s], kept[s])

Accepted == handler # Nobody /\ handler.phase = "accepted"

IInv ==
    /\ TypeOK
    /\ IsFiniteSet(DOMAIN users)
    /\ SessionsNameTheirAccount
    /\ FilesNameTheirAccount
    /\ Accepted => /\ Name \in DOMAIN users
                   /\ users[Name].user_id = handler.user_id
                   /\ users[Name].secret = handler.secret
=============================================================================
