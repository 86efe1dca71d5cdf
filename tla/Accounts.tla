------------------------------ MODULE Accounts ------------------------------
(***************************************************************************)
(* Signing in: how auth/context.ts finds or creates the account behind a   *)
(* Cloudflare Access identity, and auth/dev-login.ts that of a name while  *)
(* Access is not configured.  Each statement of D1 is a step, so sign-ins  *)
(* interleave.  Assertions, cookies and tokens are left out: a sign-in     *)
(* begins with an identity that was verified.                              *)
(***************************************************************************)
EXTENDS Naturals, FiniteSets

CONSTANTS
  Subjects,           \* "sub" claims of Access
  EmailOf,            \* the email of each
  LoginNames,         \* what logins are made from
  LoginOf,            \* loginFromEmail: email -> login name
  MaxAttempts,        \* numbers tried after a login name (50)
  SignIns,            \* sign-ins in progress at once
  MaxSignIns          \* bound: sign-ins started

ASSUME AccountsAssumption ==
  /\ EmailOf \in [Subjects -> DOMAIN LoginOf]
  /\ LoginOf \in [DOMAIN LoginOf -> LoginNames]
  /\ LoginNames # {}
  /\ MaxAttempts \in Nat \ {0}
  /\ MaxSignIns \in Nat

VARIABLES
  accessConfigured,
  users,          \* owners and users: id -> login, email, access_sub, is_admin
  signIn,         \* SignIns -> what it knows, and where it stands
  answered,       \* history: subject -> ids it was signed in as
  early,          \* history: the sign-ins that began before there was any user
  signInsStarted

accountsVars == <<accessConfigured, users, signIn, answered, early, signInsStarted>>

NoSubject == "none"
NoEmail == "none"
UserIds == 1 .. MaxSignIns
Login == [name : LoginNames, suffix : Nat]
User == [login : Login, email : (DOMAIN LoginOf) \cup {NoEmail}, sub : Subjects \cup {NoSubject}, admin : BOOLEAN]
SignIn == [at : {"idle", "find", "email", "claim", "login", "count", "insert"},
           id : UserIds \cup {0}, sub : Subjects \cup {NoSubject}, found : UserIds \cup {0},
           login : Login, admin : BOOLEAN]
NoSignIn == [at |-> "idle", id |-> 0, sub |-> NoSubject, found |-> 0,
             login |-> [name |-> CHOOSE n \in LoginNames : TRUE, suffix |-> 1], admin |-> FALSE]

AccountsTypeOK ==
  /\ accessConfigured \in BOOLEAN
  /\ DOMAIN users \subseteq UserIds
  /\ users \in [DOMAIN users -> User]
  /\ signIn \in [SignIns -> SignIn]
  /\ answered \in [Subjects -> SUBSET UserIds]
  /\ early \subseteq UserIds
  /\ signInsStarted \in 0 .. MaxSignIns

AccountsInit ==
  /\ accessConfigured \in BOOLEAN
  /\ users = [i \in {} |-> 0]
  /\ signIn = [s \in SignIns |-> NoSignIn]
  /\ answered = [sub \in Subjects |-> {}]
  /\ early = {}
  /\ signInsStarted = 0

ByAccess(s) == signIn[s].sub # NoSubject
SignInEnds(s) == signIn' = [signIn EXCEPT ![s] = NoSignIn]
SignInGoesTo(s, at) == signIn' = [signIn EXCEPT ![s].at = at]

\* The session or the viewer is that of account i.
AnswersAs(s, i) ==
  /\ answered' = IF ByAccess(s) THEN [answered EXCEPT ![signIn[s].sub] = @ \cup {i}] ELSE answered
  /\ SignInEnds(s)

\* The deployment is given a team domain and an audience.
ConfiguresAccess ==
  /\ ~accessConfigured
  /\ accessConfigured' = TRUE
  /\ UNCHANGED <<users, signIn, answered, early, signInsStarted>>

\* An identity of Access, or a name typed into the form.
StartsSignIn(s) ==
  /\ signIn[s].at = "idle"
  /\ signInsStarted < MaxSignIns
  /\ signInsStarted' = signInsStarted + 1
  /\ early' = early \cup (IF DOMAIN users = {} THEN {signInsStarted + 1} ELSE {})
  /\ LET fresh == [NoSignIn EXCEPT !.at = "find", !.id = signInsStarted + 1] IN
       \/ /\ accessConfigured
          /\ \E sub \in Subjects :
               signIn' = [signIn EXCEPT ![s] =
                 [fresh EXCEPT !.sub = sub, !.login = [name |-> LoginOf[EmailOf[sub]], suffix |-> 1]]]
       \/ /\ ~accessConfigured
          /\ \E n \in LoginNames :
               signIn' = [signIn EXCEPT ![s] = [fresh EXCEPT !.login = [name |-> n, suffix |-> 1]]]
  /\ UNCHANGED <<accessConfigured, users, answered>>

\* By the subject; by the login.
FindsUser(s) ==
  /\ signIn[s].at = "find"
  /\ LET is(i) == IF ByAccess(s) THEN users[i].sub = signIn[s].sub ELSE users[i].login = signIn[s].login IN
       \/ \E i \in DOMAIN users : is(i) /\ AnswersAs(s, i)
       \/ /\ ~ \E i \in DOMAIN users : is(i)
          /\ SignInGoesTo(s, IF ByAccess(s) THEN "email" ELSE "count")
          /\ UNCHANGED answered
  /\ UNCHANGED <<accessConfigured, users, early, signInsStarted>>

Claimable(i, s) == users[i].email = EmailOf[signIn[s].sub] /\ users[i].sub = NoSubject

FindsByEmail(s) ==
  /\ signIn[s].at = "email"
  /\ \/ \E i \in DOMAIN users :
          Claimable(i, s) /\ signIn' = [signIn EXCEPT ![s].at = "claim", ![s].found = i]
     \/ (~ \E i \in DOMAIN users : Claimable(i, s)) /\ SignInGoesTo(s, "login")
  /\ UNCHANGED <<accessConfigured, users, answered, early, signInsStarted>>

HasSubject(sub) == \E j \in DOMAIN users : users[j].sub = sub

\* A subject is of one user: the index refuses the second.
ClaimsUser(s) ==
  /\ signIn[s].at = "claim"
  /\ IF \E j \in DOMAIN users : j # signIn[s].found /\ users[j].sub = signIn[s].sub
     THEN SignInEnds(s) /\ UNCHANGED <<users, answered>>
     ELSE /\ users' = [users EXCEPT ![signIn[s].found].sub = signIn[s].sub]
          /\ AnswersAs(s, signIn[s].found)
  /\ UNCHANGED <<accessConfigured, early, signInsStarted>>

HasLogin(login) == \E j \in DOMAIN users : users[j].login = login

\* uniqueLogin: one number after the other, then something random.
TriesLogin(s) ==
  /\ signIn[s].at = "login"
  /\ LET login == signIn[s].login IN
       \/ ~HasLogin(login) /\ SignInGoesTo(s, "count")
       \/ /\ HasLogin(login) /\ login.suffix < MaxAttempts
          /\ signIn' = [signIn EXCEPT ![s].login.suffix = @ + 1]
       \/ /\ HasLogin(login) /\ login.suffix >= MaxAttempts
          /\ signIn' = [signIn EXCEPT ![s].login.suffix = MaxAttempts + signIn[s].id, ![s].at = "count"]
  /\ UNCHANGED <<accessConfigured, users, answered, early, signInsStarted>>

MutantIsFirst == Cardinality(DOMAIN users) <= 1

\* The first user administers the site.
IsFirst == DOMAIN users = {}

CountsUsers(s) ==
  /\ signIn[s].at = "count"
  /\ signIn' = [signIn EXCEPT ![s].at = "insert", ![s].admin = IsFirst]
  /\ UNCHANGED <<accessConfigured, users, answered, early, signInsStarted>>

\* Both rows in a batch; login and subject are unique.  An account of the form has an
\* email at localhost, which is taken for that of the identity of the same name.
InsertsUser(s) ==
  /\ signIn[s].at = "insert"
  /\ LET new == [login |-> signIn[s].login, sub |-> signIn[s].sub, admin |-> signIn[s].admin,
                 email |-> IF ByAccess(s) THEN EmailOf[signIn[s].sub] ELSE NoEmail]
     IN  IF HasLogin(new.login) \/ (ByAccess(s) /\ HasSubject(new.sub))
         THEN SignInEnds(s) /\ UNCHANGED <<users, answered>>
         ELSE /\ \E email \in {new.email} \cup {e \in DOMAIN LoginOf : ~ByAccess(s) /\ LoginOf[e] = new.login.name} :
                   users' = [i \in DOMAIN users \cup {signIn[s].id} |->
                     IF i = signIn[s].id THEN [new EXCEPT !.email = email] ELSE users[i]]
              /\ AnswersAs(s, signIn[s].id)
  /\ UNCHANGED <<accessConfigured, early, signInsStarted>>

\* A statement fails, or the isolate goes.
FailsSignIn(s) ==
  /\ signIn[s].at # "idle"
  /\ SignInEnds(s)
  /\ UNCHANGED <<accessConfigured, users, answered, early, signInsStarted>>

AccountsNext ==
  \/ ConfiguresAccess
  \/ \E s \in SignIns :
       \/ StartsSignIn(s) \/ FindsUser(s) \/ FindsByEmail(s) \/ ClaimsUser(s) \/ TriesLogin(s)
       \/ CountsUsers(s) \/ InsertsUser(s) \/ FailsSignIn(s)

AccountsSpec == AccountsInit /\ [][AccountsNext]_accountsVars

-----------------------------------------------------------------------------
(***************************************************************************)
(* Properties.                                                             *)
(***************************************************************************)

\* auth/context.ts:135: "The very first user becomes the site administrator; there is
\* no other way to bootstrap one"; dev-login.ts:114: "The first account created becomes
\* the site administrator".  Whichever sign-ins race or fail, there is an administrator
\* as soon as there is a user.
AnAdminExists ==
  DOMAIN users # {} => \E i \in DOMAIN users : users[i].admin

\* And nobody else is, except by a race: an account administers the site only if its
\* sign-in began before there was any user.  Whoever comes once there is an account, by
\* either path, is not made one; two are only if both sign-ins were under way when the
\* first account was made, so that each may have counted none.
OnlyTheFirst ==
  \A i \in DOMAIN users : users[i].admin => i \in early

\* An identity is always signed in as one account, found, claimed or made, unless
\* another identity has its email and may claim what it did.
IdentitiesStay ==
  \A sub \in Subjects :
    \/ \A i, j \in answered[sub] : i = j
    \/ \E other \in Subjects \ {sub} : EmailOf[other] = EmailOf[sub]

AccountsHold == AnAdminExists /\ OnlyTheFirst /\ IdentitiesStay
=============================================================================
