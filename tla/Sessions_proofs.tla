-------------------------- MODULE Sessions_proofs --------------------------
(***************************************************************************)
(* Proofs about accounts and sessions for any number of browsers, tabs,    *)
(* sessions and usernames: a session names only an account whose secret    *)
(* was typed in it, and so does the file a restarted server reads.         *)
(***************************************************************************)
EXTENDS Sessions, FiniteSetTheorems, TLAPS

-----------------------------------------------------------------------------
(* Types *)

LEMMA SubmissionOk ==
    ASSUME TypeOK, handler # Nobody
    PROVE  /\ handler \in Submission
           /\ handler.tab \in Tabs /\ handler.secret \in Secrets /\ handler.user_id \in Nat
           /\ Name \in Names
BY DEF TypeOK, Submission, Name, Names

LEMMA PageOk ==
    ASSUME NEW path \in {"login", "register", "home"}, NEW s \in Sessions,
           NEW user \in SessionUser \cup {Nobody}
    PROVE  PageFor(path, s, user) \in Page
BY DEF PageFor, Blank, Page

LEMMA SessionOk ==
    ASSUME TypeOK, NEW t \in Tabs
    PROVE  Session(t) \in Sessions
BY BrowsersAssumption DEF TypeOK, Session

\* A new account leaves the others.
LEMMA WithAccountOk ==
    ASSUME IInv, NEW name \in ValidNames, NEW secret \in Secrets, name \notin DOMAIN users,
           users' = WithAccount(name, secret)
    PROVE  /\ DOMAIN users' \subseteq ValidNames /\ users' \in [DOMAIN users' -> Account]
           /\ IsFiniteSet(DOMAIN users')
           /\ DOMAIN users' = DOMAIN users \cup {name}
           /\ Fresh \in Nat
           /\ users'[name].user_id = Fresh /\ users'[name].secret = secret
           /\ \A n \in DOMAIN users : users'[n] = users[n]
<1>1. Fresh \in Nat
  BY FS_CardinalityType DEF IInv, Fresh
<1>2. DOMAIN users' = DOMAIN users \cup {name}
  BY DEF WithAccount
<1>3. IsFiniteSet(DOMAIN users')
  BY <1>2, FS_AddElement DEF IInv
<1> HIDE DEF Fresh
<1> QED BY <1>1, <1>2, <1>3 DEF IInv, TypeOK, WithAccount, Account

-----------------------------------------------------------------------------
(* The inductive invariant *)

LEMMA InitOk == Init => IInv
<1> SUFFICES ASSUME Init PROVE IInv
  OBVIOUS
<1>1. DOMAIN users = {} /\ users \in [DOMAIN users -> Account]
  BY DEF Init
<1>2. \A t \in Tabs : cookie[BrowserOf[t]] \in Sessions
  BY BrowsersAssumption DEF Init
<1>3. tab \in [Tabs -> Page]
  BY <1>2 DEF Init, Blank, Page
<1>4. TypeOK
  BY <1>1, <1>3 DEF Init, TypeOK
<1> QED BY <1>1, <1>4, FS_EmptySet
    DEF Init, IInv, SessionsNameTheirAccount, FilesNameTheirAccount, Accepted

\* A step that changes nothing but pages and cookies, and drops or begins a submission.
LEMMA PagesKeep ==
    ASSUME IInv, UNCHANGED <<users, storage, disk, earned, kept>>, TypeOK',
           ~Accepted' \/ UNCHANGED handler
    PROVE  IInv'
BY DEF IInv, SessionsNameTheirAccount, FilesNameTheirAccount, OfAccount, Accepted, Name

LEMMA VisitKeeps ==
    ASSUME IInv, NEW t \in Tabs, NEW path \in {"login", "register", "home"}, Visit(t, path)
    PROVE  IInv'
<1>1. tab' \in [Tabs -> Page]
  <2>1. Session(t) \in Sessions /\ storage[Session(t)] \in SessionUser \cup {Nobody}
    BY SessionOk DEF IInv, TypeOK
  <2>2. PageFor(path, Session(t), storage[Session(t)]) \in Page
    BY <2>1, PageOk
  <2> QED BY <2>2 DEF Visit, IInv, TypeOK
<1>2. TypeOK'
  BY <1>1 DEF Visit, IInv, TypeOK
<1> QED BY <1>2, PagesKeep DEF Visit

LEMMA SubmitKeeps ==
    ASSUME IInv, NEW t \in Tabs, NEW name \in Typed, NEW secret \in Secrets,
           NEW confirmed \in BOOLEAN, Submit(t, name, secret, confirmed)
    PROVE  IInv'
<1>1. handler' \in Submission /\ handler'.phase = "submitted"
  BY DEF Submit, Submission
<1>2. TypeOK'
  BY <1>1 DEF Submit, IInv, TypeOK
<1> QED BY <1>1, <1>2, PagesKeep DEF Submit, Accepted

\* The submission is over, and nothing else changed.
LEMMA RejectKeeps ==
    ASSUME IInv, handler' = Nobody, UNCHANGED <<users, cookie, storage, disk, tab, earned, kept>>
    PROVE  IInv'
<1>1. TypeOK'
  BY DEF IInv, TypeOK
<1> QED BY <1>1, PagesKeep DEF Accepted

\* An accepted submission, with the account it names in the table.
LEMMA AcceptKeeps ==
    ASSUME IInv, handler # Nobody, NEW id \in Nat, Accept(id),
           DOMAIN users' \subseteq ValidNames, users' \in [DOMAIN users' -> Account],
           IsFiniteSet(DOMAIN users'), DOMAIN users \subseteq DOMAIN users',
           \A n \in DOMAIN users : users'[n] = users[n],
           Name \in DOMAIN users', users'[Name].user_id = id,
           users'[Name].secret = handler.secret
    PROVE  IInv'
<1>1. handler \in Submission
  BY SubmissionOk DEF IInv
<1>2. handler' \in Submission /\ handler'.name = handler.name
      /\ handler'.secret = handler.secret /\ handler'.user_id = id
  BY <1>1 DEF Accept, Submission
<1>3. TypeOK'
  BY <1>2 DEF Accept, IInv, TypeOK
<1>4. Name' = Name
  BY <1>2 DEF Name
<1>5. SessionsNameTheirAccount' /\ FilesNameTheirAccount'
  BY DEF Accept, IInv, SessionsNameTheirAccount, FilesNameTheirAccount, OfAccount
<1> QED BY <1>2, <1>3, <1>4, <1>5 DEF IInv

LEMMA CheckKeeps ==
    ASSUME IInv, CheckCredentials
    PROVE  IInv'
<1>1. CASE ~Missing /\ Verified
  <2>1. handler # Nobody /\ Accept(users[Name].user_id) /\ UNCHANGED users
    BY <1>1 DEF CheckCredentials, Running
  <2>2. Name \in DOMAIN users /\ users[Name].secret = handler.secret
    BY <1>1 DEF Verified
  <2>3. users[Name].user_id \in Nat
    BY <2>2 DEF IInv, TypeOK, Account
  <2> QED BY <2>1, <2>2, <2>3, AcceptKeeps DEF IInv, TypeOK
<1>2. CASE ~(~Missing /\ Verified)
  BY <1>2, RejectKeeps DEF CheckCredentials, Reject
<1> QED BY <1>1, <1>2

LEMMA CreateKeeps ==
    ASSUME IInv, CreateAccount
    PROVE  IInv'
<1>1. CASE Acceptable /\ CanInsert(Name)
  <2>1. handler # Nobody /\ Accept(Fresh) /\ users' = WithAccount(Name, handler.secret)
    BY <1>1 DEF CreateAccount, Running
  <2>2. Name \in ValidNames /\ Name \notin DOMAIN users /\ handler.secret \in Secrets
    BY <1>1, <2>1, SubmissionOk DEF Acceptable, CanInsert, IInv
  <2> HIDE DEF Name
  <2> QED BY <2>1, <2>2, WithAccountOk, AcceptKeeps
<1>2. CASE ~(Acceptable /\ CanInsert(Name))
  BY <1>2, RejectKeeps DEF CreateAccount, Reject
<1> QED BY <1>1, <1>2

LEMMA SignInKeeps ==
    ASSUME IInv, CompleteSignIn
    PROVE  IInv'
<1>1. handler # Nobody /\ Accepted /\ handler' = Nobody
      /\ UNCHANGED <<users, cookie, disk, kept>>
  BY DEF CompleteSignIn, Accepted
<1>2. handler.tab \in Tabs /\ handler.secret \in Secrets /\ handler.user_id \in Nat /\ Name \in Names
  BY <1>1, SubmissionOk DEF IInv
<1> DEFINE s == tab[handler.tab].session
           user == [user_id |-> handler.user_id, username |-> Name]
           login == [username |-> Name, secret |-> handler.secret]
<1>3. s \in Sessions /\ user \in SessionUser /\ login \in Login
  BY <1>2 DEF IInv, TypeOK, Page, SessionUser, Login
<1>4. storage' = [storage EXCEPT ![s] = user] /\ earned' = [earned EXCEPT ![s] = login]
  BY DEF CompleteSignIn
<1>5. tab' \in [Tabs -> Page]
  BY <1>2 DEF CompleteSignIn, IInv, TypeOK, Page
<1>6. TypeOK'
  BY <1>1, <1>3, <1>4, <1>5 DEF IInv, TypeOK
<1>7. SessionsNameTheirAccount'
  <2> SUFFICES ASSUME NEW q \in Sessions, storage'[q] # Nobody
               PROVE  OfAccount(storage'[q], earned'[q])
    BY <1>1 DEF SessionsNameTheirAccount, OfAccount
  <2>1. CASE q = s
    <3>1. storage'[q] = user /\ earned'[q] = login
      BY <1>3, <1>4, <2>1 DEF IInv, TypeOK
    <3>2. user.username = Name /\ user.user_id = handler.user_id
      OBVIOUS
    <3> HIDE DEF Name, user
    <3> QED BY <1>1, <3>1, <3>2 DEF IInv, OfAccount
  <2>2. CASE q # s
    <3>1. storage'[q] = storage[q] /\ earned'[q] = earned[q]
      BY <1>4, <2>2 DEF IInv, TypeOK
    <3> QED BY <3>1 DEF IInv, SessionsNameTheirAccount
  <2> QED BY <2>1, <2>2
<1>8. FilesNameTheirAccount'
  BY <1>1 DEF IInv, FilesNameTheirAccount, OfAccount
<1> QED BY <1>1, <1>6, <1>7, <1>8 DEF IInv, Accepted

LEMMA LogOutKeeps ==
    ASSUME IInv, NEW t \in Tabs, LogOut(t)
    PROVE  IInv'
<1> DEFINE s == tab[t].session
<1>1. s \in Sessions
  BY DEF IInv, TypeOK, Page
<1>2. storage' = [storage EXCEPT ![s] = Nobody] /\ earned' = [earned EXCEPT ![s] = Nobody]
      /\ UNCHANGED <<users, cookie, disk, handler, kept>>
  BY DEF LogOut, SignedOut
<1>3. tab' \in [Tabs -> Page]
  BY DEF LogOut, IInv, TypeOK, Page
<1>4. TypeOK'
  BY <1>1, <1>2, <1>3 DEF IInv, TypeOK
<1>5. SessionsNameTheirAccount' /\ FilesNameTheirAccount'
  BY <1>1, <1>2 DEF IInv, TypeOK, SessionsNameTheirAccount, FilesNameTheirAccount, OfAccount
<1> QED BY <1>2, <1>4, <1>5 DEF IInv, Accepted, Name

LEMMA ExpireKeeps ==
    ASSUME IInv, NEW b \in Browsers, Expire(b)
    PROVE  IInv'
<1>1. TypeOK'
  BY DEF Expire, IInv, TypeOK
<1> QED BY <1>1, PagesKeep DEF Expire

\* A file gets a user whose login the storage kept.
LEMMA BackupKeeps ==
    ASSUME IInv, NEW s \in Sessions, Backup(s)
    PROVE  IInv'
<1>1. /\ UNCHANGED <<users, cookie, storage, tab, handler, earned>>
      /\ disk' = [disk EXCEPT ![s] = storage[s]] /\ kept' = [kept EXCEPT ![s] = earned[s]]
  BY DEF Backup
<1>2. TypeOK'
  BY <1>1 DEF IInv, TypeOK
<1>3. SessionsNameTheirAccount'
  BY <1>1 DEF IInv, SessionsNameTheirAccount, OfAccount
<1>4. FilesNameTheirAccount'
  <2> SUFFICES ASSUME NEW q \in Sessions, disk'[q] # Nobody
               PROVE  OfAccount(disk'[q], kept'[q])
    BY <1>1 DEF FilesNameTheirAccount, OfAccount
  <2>1. CASE q = s
    BY <1>1, <2>1 DEF IInv, TypeOK, SessionsNameTheirAccount
  <2>2. CASE q # s
    <3>1. disk'[q] = disk[q] /\ kept'[q] = kept[q]
      BY <1>1, <2>2 DEF IInv, TypeOK
    <3> QED BY <3>1 DEF IInv, FilesNameTheirAccount
  <2> QED BY <2>1, <2>2
<1> QED BY <1>1, <1>2, <1>3, <1>4 DEF IInv, Accepted, Name

\* The server starts from what the files hold.
LEMMA RestartKeeps ==
    ASSUME IInv, Restart
    PROVE  IInv'
<1>0. /\ handler' = Nobody /\ storage' = disk /\ earned' = kept
      /\ UNCHANGED <<users, cookie, disk, kept>>
  BY DEF Restart
<1>1. ASSUME NEW t \in Tabs PROVE PageFor(tab[t].page, Session(t), disk[Session(t)]) \in Page
  <2>1. tab[t].page \in {"login", "register", "home"}
    BY DEF IInv, TypeOK, Page
  <2>2. Session(t) \in Sessions /\ disk[Session(t)] \in SessionUser \cup {Nobody}
    BY SessionOk DEF IInv, TypeOK
  <2> QED BY <2>1, <2>2, PageOk
<1>2. TypeOK'
  BY <1>0, <1>1 DEF Restart, IInv, TypeOK
<1>3. SessionsNameTheirAccount' /\ FilesNameTheirAccount'
  BY <1>0 DEF IInv, SessionsNameTheirAccount, FilesNameTheirAccount, OfAccount
<1> QED BY <1>0, <1>2, <1>3 DEF IInv, Accepted

LEMMA OtherKeeps ==
    ASSUME IInv, NEW name \in ValidNames, NEW secret \in Secrets, OtherRegisters(name, secret)
    PROVE  IInv'
<1>1. users' = WithAccount(name, secret) /\ name \notin DOMAIN users
      /\ UNCHANGED <<cookie, storage, disk, tab, handler, earned, kept>>
  BY DEF OtherRegisters
<1>2. /\ DOMAIN users' \subseteq ValidNames /\ users' \in [DOMAIN users' -> Account]
      /\ IsFiniteSet(DOMAIN users') /\ DOMAIN users \subseteq DOMAIN users'
      /\ \A n \in DOMAIN users : users'[n] = users[n]
  BY <1>1, WithAccountOk
<1>3. TypeOK'
  BY <1>1, <1>2 DEF IInv, TypeOK
<1>4. SessionsNameTheirAccount' /\ FilesNameTheirAccount'
  BY <1>1, <1>2 DEF IInv, SessionsNameTheirAccount, FilesNameTheirAccount, OfAccount
<1>5. Name' = Name
  BY <1>1 DEF Name
<1> QED BY <1>1, <1>2, <1>3, <1>4, <1>5 DEF IInv, Accepted

LEMMA NextKeeps ==
    ASSUME IInv, [Next]_vars
    PROVE  IInv'
<1>1. CASE UNCHANGED vars
  BY <1>1 DEF vars, IInv, TypeOK, SessionsNameTheirAccount, FilesNameTheirAccount, OfAccount,
       Accepted, Name
<1>2. ASSUME NEW t \in Tabs, FollowGoto(t) PROVE IInv'
  <2>1. tab[t].goto \in {"login", "home"}
    BY <1>2 DEF FollowGoto, IInv, TypeOK, Page
  <2> QED BY <1>2, <2>1, VisitKeeps DEF FollowGoto
<1>3. CASE SubmitRaises
  BY <1>3, RejectKeeps DEF SubmitRaises
<1> QED BY <1>1, <1>2, <1>3, VisitKeeps, SubmitKeeps, LogOutKeeps, CheckKeeps, CreateKeeps,
           SignInKeeps, ExpireKeeps, BackupKeeps, RestartKeeps, OtherKeeps DEF Next

-----------------------------------------------------------------------------
(* Theorems *)

\* Types, accepted submissions, signed-in sessions and their files agree with the table
\* of accounts.
THEOREM Inductive == Spec => []IInv
<1>1. IInv /\ [Next]_vars => IInv'
  BY NextKeeps
<1> QED BY <1>1, InitOk, PTL DEF Spec

\* Whoever is signed in in a session typed the secret of the account there, since the
\* last log-out that reached the file if the server died, for any accounts, browsers,
\* races and expiries.
THEOREM SignedIn == Spec => []SessionsNameTheirAccount
<1>1. IInv => SessionsNameTheirAccount BY DEF IInv
<1> QED BY <1>1, Inductive, PTL
=============================================================================
