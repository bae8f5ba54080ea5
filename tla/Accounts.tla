------------------------------ MODULE Accounts ------------------------------
(***************************************************************************)
(* Users, the provider accounts linked to them, and their sessions.         *)
(*                                                                         *)
(* Sign-up, OAuth sign-in and the profile update check that a username is   *)
(* free and write it later, as statements of their own; `users` has no      *)
(* unique index on it.  A request with a session token validates it first:  *)
(* it reads the session, and may delete or renew it in a later statement.   *)
(***************************************************************************)
EXTENDS Naturals

CONSTANTS
  Requests,    \* requests; a user or a session is named by what created it
  Seed,        \* a user who exists, with a session
  Providers, ProviderIds,
  Lifetime,    \* SESSION_DURATION_MS; renewal is due after half of it
  None,        \* null
  MaxSuffix,   \* bound: the numbers put behind a username
  MaxNow,      \* bound: the clock
  MaxFaults    \* bound: statements that fail

ASSUME AccountsAssumption ==
  /\ Seed \notin Requests
  /\ None \notin Requests \cup {Seed} \cup Nat
  /\ None \notin [user : Requests \cup {Seed}, expires : Nat]
  /\ MaxSuffix \in Nat /\ MaxNow \in Nat /\ MaxFaults \in Nat
  /\ Lifetime \in Nat \ {0}

Ids      == Requests \cup {Seed}
Names    == 0..MaxSuffix       \* one base, and the base with a number behind
Accounts == Providers \X ProviderIds
SessionRows == [user : Ids, expires : Nat]

VARIABLES
  username,    \* of each user; None: there is no such user
  password,    \* the user has one (an OAuth user's is empty)
  linked,      \* oauth_accounts: the user of a provider account
  sessions,    \* user_sessions
  now,
  pc, arg,     \* of each request: where it is and what it holds
  faults,
  ended,       \* history: sessions signed out
  told,        \* history: the latest expiry written for a session
  raced,       \* history: usernames two requests had checked before one wrote
  straddled    \* history: sessions two validations wrote to by stale reads

rowVars == <<username, password, linked, sessions>>
history == <<ended, told, raced, straddled>>
vars    == <<rowVars, now, pc, arg, faults, history>>

Taken(n)     == \E u \in Ids : username[u] = n
NoArg        == [name |-> None, account |-> None, user |-> None, session |-> None, expires |-> None]
Go(r, where) == pc' = [pc EXCEPT ![r] = where]
Keep(r, a)   == arg' = [arg EXCEPT ![r] = a]
Session(u)   == [user |-> u, expires |-> now + Lifetime]
FailOnce     == faults < MaxFaults /\ faults' = faults + 1

\* r writes a username that others have found free as well.
Writes(n, r) ==
  raced' = IF \E q \in Requests \ {r} :
                pc[q] \in {"insert", "create", "rename"} /\ arg[q].name = n
           THEN raced \cup {n} ELSE raced

-----------------------------------------------------------------------------
SignUpReads(r, n) ==
  /\ pc[r] = "new"
  /\ Go(r, IF Taken(n) THEN "done" ELSE "insert")
  /\ Keep(r, [NoArg EXCEPT !.name = n])
  /\ UNCHANGED <<rowVars, now, faults, history>>

SignUpInserts(r) ==
  /\ pc[r] = "insert"
  /\ username' = [username EXCEPT ![r] = arg[r].name]
  /\ password' = [password EXCEPT ![r] = TRUE]
  /\ Writes(arg[r].name, r)
  /\ Go(r, "issue") /\ Keep(r, [NoArg EXCEPT !.user = r])
  /\ UNCHANGED <<linked, sessions, now, faults, ended, told, straddled>>

\* The user found by a username has a password, and it matches.
SignInReads(r, u) ==
  /\ pc[r] = "new" /\ username[u] # None /\ password[u]
  /\ Go(r, "issue") /\ Keep(r, [NoArg EXCEPT !.user = u])
  /\ UNCHANGED <<rowVars, now, faults, history>>

\* A fresh user id also for an account that is known.
OAuthReadsMutant(r, a) ==
  /\ pc[r] = "new"
  /\ Go(r, IF linked[a] # None THEN "issue" ELSE "claim")
  /\ Keep(r, [NoArg EXCEPT !.account = a, !.user = r, !.name = 0])
  /\ UNCHANGED <<rowVars, now, faults, history>>

\* signInWithOAuthAccount: the linked user, or one to be created.
OAuthReads(r, a) ==
  /\ pc[r] = "new"
  /\ Go(r, IF linked[a] # None THEN "issue" ELSE "claim")
  /\ Keep(r, [NoArg EXCEPT !.account = a, !.user = linked[a], !.name = 0])
  /\ UNCHANGED <<rowVars, now, faults, history>>

\* A taken username is followed by the next one, unchecked.
OAuthClaimsMutant(r) ==
  /\ pc[r] = "claim"
  /\ Keep(r, [arg[r] EXCEPT !.name = IF Taken(@) THEN @ + 1 ELSE @])
  /\ Go(r, "create")
  /\ UNCHANGED <<rowVars, now, faults, history>>

\* claimUsername: one candidate after the other.
OAuthClaims(r) ==
  /\ pc[r] = "claim"
  /\ \/ Taken(arg[r].name) /\ arg[r].name < MaxSuffix
        /\ Keep(r, [arg[r] EXCEPT !.name = @ + 1]) /\ UNCHANGED pc
     \/ ~Taken(arg[r].name) /\ Go(r, "create") /\ UNCHANGED arg
  /\ UNCHANGED <<rowVars, now, faults, history>>

\* The primary key, and the unique index on provider_user_id alone.
Conflicts(a) == \E b \in Accounts : linked[b] # None /\ b[2] = a[2]

\* No transaction: the user stays when the account conflicts, and is signed in.
OAuthCreatesMutant(r) ==
  /\ pc[r] = "create"
  /\ username' = [username EXCEPT ![r] = arg[r].name]
  /\ Writes(arg[r].name, r)
  /\ linked' = IF Conflicts(arg[r].account) THEN linked
               ELSE [linked EXCEPT ![arg[r].account] = r]
  /\ Go(r, "issue") /\ Keep(r, [arg[r] EXCEPT !.user = r])
  /\ UNCHANGED <<password, sessions, now, faults, ended, told, straddled>>

\* createOAuthUser: the user and the account, in one transaction or not at all.
OAuthCreates(r) ==
  LET a == arg[r].account IN
  /\ pc[r] = "create"
  /\ \/ /\ ~Conflicts(a)
        /\ username' = [username EXCEPT ![r] = arg[r].name]
        /\ linked' = [linked EXCEPT ![a] = r]
        /\ Writes(arg[r].name, r)
        /\ Go(r, "issue") /\ Keep(r, [arg[r] EXCEPT !.user = r])
     \/ /\ Conflicts(a)
        /\ Go(r, "done")
        /\ UNCHANGED <<username, linked, raced, arg>>
  /\ UNCHANGED <<password, sessions, now, faults, ended, told, straddled>>

\* issueSession: a fresh token, and its session.
Issue(r) ==
  /\ pc[r] = "issue"
  /\ sessions' = [sessions EXCEPT ![r] = Session(arg[r].user)]
  /\ told' = [told EXCEPT ![r] = now + Lifetime]
  /\ Go(r, "done")
  /\ UNCHANGED <<username, password, linked, now, arg, faults, ended, raced, straddled>>

IssueFails(r) ==
  /\ pc[r] = "issue"
  /\ FailOnce
  /\ Go(r, "done")
  /\ UNCHANGED <<rowVars, now, arg, history>>

-----------------------------------------------------------------------------
\* assessSession: expired at its deadline, due for renewal past the halfway mark.
Expired(expires)  == now >= expires
RenewDue(expires) == now + (Lifetime \div 2) >= expires

\* A session is expired from the halfway mark on.
VerdictMutant(expires) ==
  IF RenewDue(expires) THEN "expire" ELSE "authed"

Verdict(expires) ==
  IF Expired(expires) THEN "expire" ELSE IF RenewDue(expires) THEN "renew" ELSE "authed"

\* validateSessionToken, for the token of session s.
Validate(r, s) ==
  /\ pc[r] = "new"
  /\ \/ /\ sessions[s] = None
        /\ Go(r, "done") /\ UNCHANGED arg
     \/ /\ sessions[s] # None
        /\ Go(r, Verdict(sessions[s].expires))
        /\ Keep(r, [NoArg EXCEPT !.session = s, !.user = sessions[s].user,
                                 !.expires = now + Lifetime])
  /\ UNCHANGED <<rowVars, now, faults, history>>

\* The delete by id, whatever the row has become.
Expire(r) ==
  /\ pc[r] = "expire"
  /\ sessions' = [sessions EXCEPT ![arg[r].session] = None]
  /\ Go(r, "done")
  /\ UNCHANGED <<username, password, linked, now, arg, faults, history>>

\* updateExpiry puts the session back if it is gone.
RenewMutant(r) ==
  LET s == arg[r].session IN
  /\ pc[r] = "renew"
  /\ sessions' = [sessions EXCEPT ![s] = [user |-> arg[r].user, expires |-> arg[r].expires]]
  /\ told' = [told EXCEPT ![s] = arg[r].expires]
  /\ Go(r, "authed")
  /\ UNCHANGED <<username, password, linked, now, arg, faults, ended, raced, straddled>>

\* updateExpiry writes the row it finds, if any.
Renew(r) ==
  LET s == arg[r].session IN
  /\ pc[r] = "renew"
  /\ \/ /\ sessions[s] # None
        /\ sessions' = [sessions EXCEPT ![s].expires = arg[r].expires]
        /\ told' = [told EXCEPT ![s] = IF arg[r].expires > @ THEN arg[r].expires ELSE @]
        /\ straddled' = IF \/ arg[r].expires < sessions[s].expires
                           \/ \E q \in Requests : pc[q] = "expire" /\ arg[q].session = s
                        THEN straddled \cup {s} ELSE straddled
     \/ sessions[s] = None /\ UNCHANGED <<sessions, told, straddled>>
  /\ Go(r, "authed")
  /\ UNCHANGED <<username, password, linked, now, arg, faults, ended, raced>>

\* The request was one that changes nothing here.
Answer(r) ==
  /\ pc[r] = "authed"
  /\ Go(r, "done")
  /\ UNCHANGED <<rowVars, now, arg, faults, history>>

SignOut(r) ==
  /\ pc[r] = "authed"
  /\ sessions' = [sessions EXCEPT ![arg[r].session] = None]
  /\ ended' = ended \cup {arg[r].session}
  /\ Go(r, "done")
  /\ UNCHANGED <<username, password, linked, now, arg, faults, told, raced, straddled>>

\* updateProfile: nobody else holds the username, and later it is written.
ProfileReads(r, n) ==
  /\ pc[r] = "authed"
  /\ Go(r, IF \E u \in Ids \ {arg[r].user} : username[u] = n THEN "done" ELSE "rename")
  /\ Keep(r, [arg[r] EXCEPT !.name = n])
  /\ UNCHANGED <<rowVars, now, faults, history>>

ProfileWrites(r) ==
  /\ pc[r] = "rename"
  /\ username' = [username EXCEPT ![arg[r].user] = arg[r].name]
  /\ Writes(arg[r].name, r)
  /\ Go(r, "done")
  /\ UNCHANGED <<password, linked, sessions, now, arg, faults, ended, told, straddled>>

Tick ==
  /\ now < MaxNow
  /\ now' = now + 1
  /\ UNCHANGED <<rowVars, pc, arg, faults, history>>

-----------------------------------------------------------------------------
Init ==
  /\ username = [u \in Ids |-> IF u = Seed THEN 0 ELSE None]
  /\ password = [u \in Ids |-> u = Seed]
  /\ linked = [a \in Accounts |-> None]
  /\ now = 0
  /\ sessions = [s \in Ids |-> IF s = Seed THEN [user |-> Seed, expires |-> Lifetime] ELSE None]
  /\ told = [s \in Ids |-> IF s = Seed THEN Lifetime ELSE None]
  /\ pc = [r \in Requests |-> "new"] /\ arg = [r \in Requests |-> NoArg]
  /\ faults = 0 /\ ended = {} /\ raced = {} /\ straddled = {}

Next ==
  \/ Tick
  \/ \E r \in Requests :
       \/ \E n \in Names : SignUpReads(r, n) \/ ProfileReads(r, n)
       \/ \E u \in Ids : SignInReads(r, u) \/ Validate(r, u)
       \/ \E a \in Accounts : OAuthReads(r, a)
       \/ SignUpInserts(r) \/ OAuthClaims(r) \/ OAuthCreates(r)
       \/ Issue(r) \/ IssueFails(r)
       \/ Expire(r) \/ Renew(r) \/ Answer(r) \/ SignOut(r) \/ ProfileWrites(r)

Spec == Init /\ [][Next]_vars

-----------------------------------------------------------------------------
Pcs == {"new", "insert", "claim", "create", "issue", "expire", "renew",
        "authed", "rename", "done"}

Args ==
  [name : Names \cup {None}, account : Accounts \cup {None}, user : Ids \cup {None},
   session : Ids \cup {None}, expires : Nat \cup {None}]

\* Types; and a row that refers to a user refers to one that exists (the
\* foreign keys never have to refuse a write).
TypeOK ==
  /\ username \in [Ids -> Names \cup {None}]
  /\ password \in [Ids -> BOOLEAN]
  /\ linked \in [Accounts -> Ids \cup {None}]
  /\ sessions \in [Ids -> SessionRows \cup {None}]
  /\ now \in 0..MaxNow /\ faults \in 0..MaxFaults
  /\ pc \in [Requests -> Pcs] /\ arg \in [Requests -> Args]
  /\ ended \subseteq Ids /\ straddled \subseteq Ids /\ raced \subseteq Names
  /\ told \in [Ids -> Nat \cup {None}]
  /\ \A a \in Accounts : linked[a] # None => username[linked[a]] # None
  /\ \A s \in Ids : sessions[s] # None => username[sessions[s].user] # None

\* Two users never have the same username, unless two requests had both found
\* it free before either wrote it.
UsernamesUnique ==
  \A u, v \in Ids :
    u # v /\ username[u] # None /\ username[u] = username[v] => username[u] \in raced

\* A user without a password has a provider account to sign in with, and a
\* session that a provider account opened is its user's: also when two sign-ins
\* of the same new account race.
AccountsWhole ==
  /\ \A u \in Ids :
       username[u] # None /\ ~password[u] => \E a \in Accounts : linked[a] = u
  /\ \A r \in Requests :
       arg[r].account # None /\ sessions[r] # None =>
         linked[arg[r].account] = sessions[r].user

\* A session that was signed out is gone for good, also for a request that was
\* validating it and renews it.
SignedOutStaysOut == \A s \in ended : sessions[s] = None

\* A session lives until the expiry last written for it, unless it is signed
\* out, or two validations of it straddled each other.
SessionSurvives ==
  \A s \in Ids :
    told[s] # None /\ now < told[s] /\ s \notin ended \cup straddled =>
      sessions[s] # None /\ sessions[s].expires = told[s]

=============================================================================
