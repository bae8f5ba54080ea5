---------------------------- MODULE AccountsProofs ----------------------------
(***************************************************************************)
(* Theorems about Accounts, for any number of requests, accounts and faults *)
(* and any clock.                                                           *)
(***************************************************************************)
EXTENDS Accounts, TLAPS

USE DEF Go, Keep, FailOnce

\* A request that may still create the user or the session named by it.
Creating  == {"new", "insert", "claim", "create"}
\* A request that has a username to write, and one that validated its session.
Naming    == {"insert", "create", "rename"}
Validated == {"expire", "renew", "authed", "rename"}

\* The user whose username r is about to write.
Target(r) == IF pc[r] = "rename" THEN arg[r].user ELSE r

\* What a request that has read may still rely on.
NothingYet(r) ==
  /\ pc[r] \in Creating => username[r] = None
  /\ pc[r] \in Creating \cup {"issue"} => sessions[r] = None /\ told[r] = None

Holds(r) ==
  /\ pc[r] \in Naming \cup {"claim"} => arg[r].name \in Names
  /\ pc[r] \in {"claim", "create"} => arg[r].account \in Accounts
  /\ pc[r] = "issue" =>
       /\ arg[r].user \in Ids /\ username[arg[r].user] # None
       /\ arg[r].account # None => linked[arg[r].account] = arg[r].user
  /\ pc[r] \in Validated =>
       /\ arg[r].session \in Ids /\ told[arg[r].session] # None
       /\ arg[r].user \in Ids /\ username[arg[r].user] # None
       /\ arg[r].account = None /\ arg[r].expires \in Nat

\* The username it found free still is, or somebody raced it.
FoundFree(r) ==
  pc[r] \in Naming =>
    \A u \in Ids \ {Target(r)} : username[u] = arg[r].name => arg[r].name \in raced

\* The session it found expired still is, or somebody straddled it.
FoundExpired(r) ==
  pc[r] = "expire" =>
    \/ arg[r].session \in straddled \cup ended
    \/ now >= told[arg[r].session]

RequestGood(r) == NothingYet(r) /\ Holds(r) /\ FoundFree(r) /\ FoundExpired(r)

\* A session has the expiry last written for it while it is there, and is not
\* gone before it.
SessionRowGood(s) ==
  /\ sessions[s] # None => told[s] # None
  /\ sessions[s] # None /\ s \notin straddled => sessions[s].expires = told[s]
  /\ told[s] # None /\ sessions[s] = None /\ s \notin ended \cup straddled => now >= told[s]
  /\ s \in ended => told[s] # None

IInv ==
  /\ TypeOK /\ UsernamesUnique /\ AccountsWhole /\ SignedOutStaysOut
  /\ \A s \in Ids : SessionRowGood(s)
  /\ \A r \in Requests : RequestGood(r)

LEMMA RequestsAreIds == Requests \subseteq Ids /\ Seed \in Ids
  BY DEF Ids

LEMMA NoneIsNone ==
  /\ None \notin Ids /\ None \notin Names /\ None \notin Nat /\ None \notin SessionRows
  BY AccountsAssumption DEF Ids, Names, SessionRows

LEMMA NoArgTyped == NoArg \in Args
  BY DEF NoArg, Args

\* A step that only reads, or fails: nothing moves but the request itself.
LEMMA ReadStep ==
  ASSUME IInv, NEW r \in Requests, NEW w \in Pcs, NEW a \in Args,
         pc' = [pc EXCEPT ![r] = w], arg' = [arg EXCEPT ![r] = a],
         UNCHANGED <<rowVars, now, history>>, faults' \in 0..MaxFaults,
         RequestGood(r)',
         a.account # None /\ sessions[r] # None => linked[a.account] = sessions[r].user
  PROVE  IInv'
<1> USE DEF rowVars, history
<1>1. TypeOK'
  BY DEF IInv, TypeOK
<1>2. (UsernamesUnique /\ SignedOutStaysOut /\ \A s \in Ids : SessionRowGood(s))'
  BY DEF IInv, UsernamesUnique, SignedOutStaysOut, SessionRowGood
<1>3. AccountsWhole'
  BY DEF IInv, AccountsWhole, TypeOK
<1>4. ASSUME NEW q \in Requests PROVE RequestGood(q)'
  <2>1. CASE q = r
    BY <2>1
  <2>2. CASE q # r
    <3>1. pc'[q] = pc[q] /\ arg'[q] = arg[q] /\ RequestGood(q)
      BY <2>2 DEF IInv, TypeOK
    <3> QED
      BY <3>1 DEF RequestGood, NothingYet, Holds, FoundFree, FoundExpired, Target
  <2> QED
    BY <2>1, <2>2
<1> QED
  BY <1>1, <1>2, <1>3, <1>4 DEF IInv

LEMMA SignUpReadsKeeps ==
  ASSUME IInv, NEW r \in Requests, NEW n \in Names, SignUpReads(r, n)
  PROVE  IInv'
<1> DEFINE w == IF Taken(n) THEN "done" ELSE "insert"
           a == [NoArg EXCEPT !.name = n]
<1>1. w \in Pcs /\ a \in Args /\ a.account = None /\ a.name = n
  BY NoArgTyped DEF Pcs, Args, NoArg
<1>2. pc' = [pc EXCEPT ![r] = w] /\ arg' = [arg EXCEPT ![r] = a]
  BY DEF SignUpReads
<1>3. pc'[r] = w /\ arg'[r] = a /\ pc[r] = "new"
  BY <1>2 DEF IInv, TypeOK, SignUpReads
<1>4. UNCHANGED <<rowVars, now, history>> /\ faults' \in 0..MaxFaults
  BY DEF SignUpReads, IInv, TypeOK
<1>5. RequestGood(r)'
  <2>1. RequestGood(r)
    BY DEF IInv
  <2> HIDE DEF a
  <2> QED
    BY <1>1, <1>3, <1>4, <2>1
       DEF RequestGood, NothingYet, Holds, FoundFree, FoundExpired, Target, Taken, rowVars,
           history, Creating, Naming, Validated
<1> HIDE DEF w, a
<1> QED
  BY <1>1, <1>2, <1>4, <1>5, ReadStep

LEMMA SignInReadsKeeps ==
  ASSUME IInv, NEW r \in Requests, NEW u \in Ids, SignInReads(r, u)
  PROVE  IInv'
<1> DEFINE a == [NoArg EXCEPT !.user = u]
<1>1. "issue" \in Pcs /\ a \in Args /\ a.account = None /\ a.user = u
  BY NoArgTyped DEF Pcs, Args, NoArg
<1>2. pc' = [pc EXCEPT ![r] = "issue"] /\ arg' = [arg EXCEPT ![r] = a]
  BY DEF SignInReads
<1>3. pc'[r] = "issue" /\ arg'[r] = a /\ pc[r] = "new" /\ username[u] # None
  BY <1>2 DEF IInv, TypeOK, SignInReads
<1>4. UNCHANGED <<rowVars, now, history>> /\ faults' \in 0..MaxFaults
  BY DEF SignInReads, IInv, TypeOK
<1> HIDE DEF a
<1>5. RequestGood(r)'
  <2>1. RequestGood(r)
    BY DEF IInv
  <2> QED
    BY <1>1, <1>3, <1>4, <2>1
       DEF RequestGood, NothingYet, Holds, FoundFree, FoundExpired, Target, rowVars,
           history, Creating, Naming, Validated
<1> QED
  BY <1>1, <1>2, <1>4, <1>5, ReadStep

LEMMA OAuthReadsKeeps ==
  ASSUME IInv, NEW r \in Requests, NEW c \in Accounts, OAuthReads(r, c)
  PROVE  IInv'
<1> DEFINE w == IF linked[c] # None THEN "issue" ELSE "claim"
           a == [NoArg EXCEPT !.account = c, !.user = linked[c], !.name = 0]
<1>1. /\ w \in Pcs /\ a \in Args
      /\ a.account = c /\ a.user = linked[c] /\ a.name = 0 /\ 0 \in Names
  <2>1. 0 \in Names /\ linked[c] \in Ids \cup {None}
    BY AccountsAssumption DEF Names, IInv, TypeOK
  <2> QED
    BY <2>1, NoArgTyped DEF Pcs, Args, NoArg
<1>2. pc' = [pc EXCEPT ![r] = w] /\ arg' = [arg EXCEPT ![r] = a]
  BY DEF OAuthReads
<1>3. pc'[r] = w /\ arg'[r] = a /\ pc[r] = "new"
  BY <1>2 DEF IInv, TypeOK, OAuthReads
<1>4. UNCHANGED <<rowVars, now, history>> /\ faults' \in 0..MaxFaults
  BY DEF OAuthReads, IInv, TypeOK
<1>5. RequestGood(r) /\ (linked[c] # None => linked[c] \in Ids /\ username[linked[c]] # None)
  BY DEF IInv, TypeOK
<1> HIDE DEF a
<1>6. RequestGood(r)'
  BY <1>1, <1>3, <1>4, <1>5
     DEF RequestGood, NothingYet, Holds, FoundFree, FoundExpired, Target, rowVars,
         history, Creating, Naming, Validated
<1>7. sessions[r] = None
  BY <1>3, <1>5 DEF RequestGood, NothingYet, Creating
<1> HIDE DEF w
<1> QED
  BY <1>1, <1>2, <1>4, <1>6, <1>7, ReadStep

LEMMA OAuthClaimsKeeps ==
  ASSUME IInv, NEW r \in Requests, OAuthClaims(r)
  PROVE  IInv'
<1>1. pc[r] = "claim" /\ RequestGood(r) /\ arg[r] \in Args /\ arg[r].name \in Names
  BY DEF OAuthClaims, IInv, TypeOK, RequestGood, Holds
<1>2. UNCHANGED <<rowVars, now, history>> /\ faults' \in 0..MaxFaults
  BY DEF OAuthClaims, IInv, TypeOK
<1>3. sessions[r] = None
  BY <1>1 DEF RequestGood, NothingYet, Creating
<1>4. ASSUME arg[r].name < MaxSuffix, Keep(r, [arg[r] EXCEPT !.name = @ + 1]), UNCHANGED pc
      PROVE  IInv'
  <2> DEFINE a == [arg[r] EXCEPT !.name = @ + 1]
  <2>1. a.name = arg[r].name + 1 /\ a.name \in Names
    <3>1. a.name = arg[r].name + 1
      BY <1>1 DEF Args
    <3> QED
      BY <1>1, <1>4, <3>1, AccountsAssumption DEF Names
  <2>2. a \in Args /\ a.account = arg[r].account
    BY <1>1, <2>1 DEF Args
  <2>3. pc' = [pc EXCEPT ![r] = "claim"] /\ arg' = [arg EXCEPT ![r] = a]
    BY <1>1, <1>4 DEF IInv, TypeOK
  <2>4. pc'[r] = "claim" /\ arg'[r] = a
    BY <2>3 DEF IInv, TypeOK
  <2> HIDE DEF a
  <2>5. RequestGood(r)'
    BY <1>1, <1>2, <2>1, <2>2, <2>4
       DEF RequestGood, NothingYet, Holds, FoundFree, FoundExpired, rowVars, history,
           Creating, Naming, Validated
  <2> QED
    BY <1>2, <1>3, <2>2, <2>3, <2>5, ReadStep DEF Pcs
<1>5. ASSUME ~Taken(arg[r].name), Go(r, "create"), UNCHANGED arg
      PROVE  IInv'
  <2>1. pc' = [pc EXCEPT ![r] = "create"] /\ arg' = [arg EXCEPT ![r] = arg[r]]
    BY <1>5 DEF IInv, TypeOK
  <2>2. pc'[r] = "create" /\ arg'[r] = arg[r]
    BY <2>1 DEF IInv, TypeOK
  <2>3. RequestGood(r)'
    BY <1>1, <1>2, <1>5, <2>2
       DEF RequestGood, NothingYet, Holds, FoundFree, FoundExpired, Target, Taken, rowVars,
           history, Creating, Naming, Validated
  <2> QED
    BY <1>1, <1>2, <1>3, <2>1, <2>3, ReadStep DEF Pcs
<1> QED
  BY <1>4, <1>5 DEF OAuthClaims

\* Validating a session: the verdict on a session that is there.
LEMMA ValidateKeeps ==
  ASSUME IInv, NEW r \in Requests, NEW s \in Ids, Validate(r, s)
  PROVE  IInv'
<1>1. /\ pc[r] = "new" /\ RequestGood(r) /\ arg[r] \in Args /\ sessions[r] = None
      /\ UNCHANGED <<rowVars, now, history>> /\ faults' \in 0..MaxFaults
  BY DEF Validate, IInv, TypeOK, RequestGood, NothingYet, Creating
<1>2. CASE sessions[s] = None
  <2>1. pc' = [pc EXCEPT ![r] = "done"] /\ arg' = [arg EXCEPT ![r] = arg[r]]
    BY <1>2 DEF Validate, IInv, TypeOK
  <2>2. pc'[r] = "done" /\ arg'[r] = arg[r]
    BY <2>1 DEF IInv, TypeOK
  <2>3. RequestGood(r)'
    BY <2>2 DEF RequestGood, NothingYet, Holds, FoundFree, FoundExpired, Creating, Naming,
                Validated
  <2> QED
    BY <1>1, <2>1, <2>3, ReadStep DEF Pcs
<1>3. CASE sessions[s] # None
  <2> DEFINE w == Verdict(sessions[s].expires)
             a == [NoArg EXCEPT !.session = s, !.user = sessions[s].user,
                                !.expires = now + Lifetime]
  <2>1. /\ sessions[s].user \in Ids /\ sessions[s].expires \in Nat /\ now + Lifetime \in Nat
        /\ username[sessions[s].user] # None
        /\ SessionRowGood(s)
    BY <1>3, AccountsAssumption DEF IInv, TypeOK, SessionRows
  <2>2. /\ a \in Args /\ a.account = None /\ a.session = s
        /\ a.user = sessions[s].user /\ a.expires \in Nat
    BY <2>1, NoArgTyped DEF Args, NoArg
  <2>3. w \in {"expire", "renew", "authed"} /\ w \in Pcs
        /\ (w = "expire" => now >= sessions[s].expires)
    BY DEF Verdict, Expired, Pcs
  <2>4. pc' = [pc EXCEPT ![r] = w] /\ arg' = [arg EXCEPT ![r] = a]
    BY <1>3 DEF Validate
  <2> HIDE DEF w, a
  <2>5. pc'[r] = w /\ arg'[r] = a
    BY <2>4 DEF IInv, TypeOK
  <2>6. RequestGood(r)'
    BY <1>1, <1>3, <2>1, <2>2, <2>3, <2>5
       DEF RequestGood, NothingYet, Holds, FoundFree, FoundExpired, SessionRowGood, rowVars,
           history, Creating, Naming, Validated
  <2> QED
    BY <1>1, <2>2, <2>3, <2>4, <2>6, ReadStep
<1> QED
  BY <1>2, <1>3

LEMMA ProfileReadsKeeps ==
  ASSUME IInv, NEW r \in Requests, NEW n \in Names, ProfileReads(r, n)
  PROVE  IInv'
<1> DEFINE w == IF \E u \in Ids \ {arg[r].user} : username[u] = n THEN "done" ELSE "rename"
           a == [arg[r] EXCEPT !.name = n]
<1>1. pc[r] = "authed" /\ RequestGood(r) /\ arg[r] \in Args
  BY DEF ProfileReads, IInv, TypeOK
<1>2. /\ w \in Pcs /\ a \in Args /\ a.name = n /\ a.account = arg[r].account
      /\ a.user = arg[r].user /\ a.session = arg[r].session /\ a.expires = arg[r].expires
  BY <1>1 DEF Pcs, Args
<1>3. pc' = [pc EXCEPT ![r] = w] /\ arg' = [arg EXCEPT ![r] = a]
  BY DEF ProfileReads
<1>4. pc'[r] = w /\ arg'[r] = a
  BY <1>3 DEF IInv, TypeOK
<1>5. UNCHANGED <<rowVars, now, history>> /\ faults' \in 0..MaxFaults
  BY DEF ProfileReads, IInv, TypeOK
<1> HIDE DEF a
<1>6. RequestGood(r)'
  BY <1>1, <1>2, <1>4, <1>5
     DEF RequestGood, NothingYet, Holds, FoundFree, FoundExpired, Target, rowVars, history,
         Creating, Naming, Validated
<1>7. a.account = None
  BY <1>1, <1>2 DEF RequestGood, Holds, Validated
<1> HIDE DEF w
<1> QED
  BY <1>2, <1>3, <1>5, <1>6, <1>7, ReadStep

\* A request that ends without a write.
LEMMA EndsKeep ==
  ASSUME IInv, NEW r \in Requests, Answer(r) \/ IssueFails(r)
  PROVE  IInv'
<1>1. /\ pc' = [pc EXCEPT ![r] = "done"] /\ arg' = [arg EXCEPT ![r] = arg[r]]
      /\ arg[r] \in Args /\ RequestGood(r) /\ pc[r] \in {"issue", "authed"}
      /\ UNCHANGED <<rowVars, now, history>> /\ faults' \in 0..MaxFaults
  BY AccountsAssumption DEF Answer, IssueFails, IInv, TypeOK
<1>2. pc'[r] = "done"
  BY <1>1 DEF IInv, TypeOK
<1>3. RequestGood(r)'
  BY <1>2 DEF RequestGood, NothingYet, Holds, FoundFree, FoundExpired, Creating, Naming,
              Validated
<1>4. arg[r].account # None => sessions[r] = None
  BY <1>1 DEF RequestGood, NothingYet, Holds, Validated
<1> QED
  BY <1>1, <1>3, <1>4, ReadStep DEF Pcs

-----------------------------------------------------------------------------
\* A step that writes a username: a user u is there from now on, and whoever
\* else had found the name free is noted in raced.
LEMMA NamesStayUnique ==
  ASSUME IInv, NEW r \in Requests, NEW u \in Ids,
         pc[r] \in Naming, u = Target(r), arg[r].name \in Names,
         username' = [username EXCEPT ![u] = arg[r].name], Writes(arg[r].name, r)
  PROVE  /\ UsernamesUnique'
         /\ raced \subseteq raced' /\ raced' \subseteq Names
         /\ \A v \in Ids : username[v] # None => username'[v] # None
<1>1. FoundFree(r)
  BY DEF IInv, RequestGood
<1>2. raced \subseteq raced' /\ raced' \subseteq Names
  BY DEF Writes, IInv, TypeOK
<1>3. /\ username'[u] = arg[r].name
      /\ \A v \in Ids \ {u} : username'[v] = username[v]
  BY DEF IInv, TypeOK
<1>4. \A v \in Ids \ {u} : username[v] = arg[r].name => arg[r].name \in raced
  BY <1>1 DEF FoundFree
<1>5. UsernamesUnique'
  BY <1>2, <1>3, <1>4 DEF IInv, UsernamesUnique
<1> QED
  BY <1>2, <1>3, <1>5, NoneIsNone

\* ... and so for another request that has found a name free.
LEMMA OthersFoundFree ==
  ASSUME IInv, NEW r \in Requests, NEW q \in Requests \ {r}, NEW u \in Ids,
         pc[r] \in Naming, arg[r].name \in Names,
         username' = [username EXCEPT ![u] = arg[r].name], Writes(arg[r].name, r),
         pc'[q] = pc[q], arg'[q] = arg[q]
  PROVE  FoundFree(q)'
<1>1. FoundFree(q) /\ raced \subseteq raced'
  BY DEF IInv, RequestGood, Writes
<1>2. \A v \in Ids : username'[v] = username[v] \/ username'[v] = arg[r].name
  BY DEF IInv, TypeOK
<1>3. pc[q] \in Naming /\ arg[q].name = arg[r].name => arg[q].name \in raced'
  BY DEF Writes, Naming
<1> QED
  BY <1>1, <1>2, <1>3 DEF FoundFree, Target

LEMMA SignUpInsertsKeeps ==
  ASSUME IInv, NEW r \in Requests, SignUpInserts(r)
  PROVE  IInv'
<1> DEFINE a == [NoArg EXCEPT !.user = r]
<1>1. /\ pc[r] = "insert" /\ RequestGood(r) /\ r \in Ids /\ Target(r) = r
      /\ arg[r].name \in Names /\ username[r] = None /\ sessions[r] = None /\ told[r] = None
  BY RequestsAreIds DEF SignUpInserts, IInv, RequestGood, NothingYet, Holds, Target, Creating, Naming
<1>2. a \in Args /\ a.account = None /\ a.user = r
  BY <1>1, NoArgTyped DEF Args, NoArg
<1>3. /\ pc' = [pc EXCEPT ![r] = "issue"] /\ arg' = [arg EXCEPT ![r] = a]
      /\ username' = [username EXCEPT ![r] = arg[r].name]
      /\ password' = [password EXCEPT ![r] = TRUE]
      /\ Writes(arg[r].name, r)
      /\ UNCHANGED <<linked, sessions, now, faults, ended, told, straddled>>
  BY DEF SignUpInserts
<1> HIDE DEF a
<1>4. /\ UsernamesUnique' /\ raced \subseteq raced' /\ raced' \subseteq Names
      /\ \A v \in Ids : username[v] # None => username'[v] # None
  BY <1>1, <1>3, NamesStayUnique DEF Naming
<1>5. pc'[r] = "issue" /\ arg'[r] = a /\ username'[r] # None
  BY <1>1, <1>3, NoneIsNone DEF IInv, TypeOK
<1>6. TypeOK'
  BY <1>1, <1>2, <1>3, <1>4 DEF IInv, TypeOK, Pcs, SessionRows
<1>7. AccountsWhole'
  <2>1. ASSUME NEW u \in Ids, username'[u] # None, ~password'[u]
        PROVE  \E c \in Accounts : linked[c] = u
    <3>1. u # r /\ username[u] # None /\ ~password[u]
      BY <1>1, <1>3, <2>1 DEF IInv, TypeOK
    <3> QED
      BY <3>1 DEF IInv, AccountsWhole
  <2>2. ASSUME NEW q \in Requests, arg'[q].account # None, sessions[q] # None
        PROVE  linked[arg'[q].account] = sessions[q].user
    BY <1>1, <1>2, <1>3, <1>5, <2>2 DEF IInv, AccountsWhole, TypeOK
  <2> QED
    BY <1>3, <2>1, <2>2 DEF AccountsWhole
<1>8. SignedOutStaysOut' /\ \A s \in Ids : SessionRowGood(s)'
  BY <1>3 DEF IInv, SignedOutStaysOut, SessionRowGood
<1>9. ASSUME NEW q \in Requests PROVE RequestGood(q)'
  <2>1. CASE q = r
    BY <1>1, <1>2, <1>3, <1>5, <2>1
       DEF RequestGood, NothingYet, Holds, FoundFree, FoundExpired, Creating, Naming, Validated
  <2>2. CASE q # r
    <3>1. /\ pc'[q] = pc[q] /\ arg'[q] = arg[q] /\ username'[q] = username[q] /\ RequestGood(q)
          /\ q \in Ids
      BY <1>3, <2>2, RequestsAreIds DEF IInv, TypeOK
    <3>2. FoundFree(q)'
      BY <1>1, <1>3, <2>2, <3>1, OthersFoundFree DEF Naming
    <3>3. NothingYet(q)' /\ Holds(q)' /\ FoundExpired(q)'
      BY <1>3, <1>4, <3>1 DEF RequestGood, NothingYet, Holds, FoundExpired
    <3> QED
      BY <3>2, <3>3 DEF RequestGood
  <2> QED
    BY <2>1, <2>2
<1> QED
  BY <1>4, <1>6, <1>7, <1>8, <1>9 DEF IInv

LEMMA OAuthCreatesKeeps ==
  ASSUME IInv, NEW r \in Requests, OAuthCreates(r)
  PROVE  IInv'
<1> DEFINE c == arg[r].account
<1>1. /\ pc[r] = "create" /\ RequestGood(r) /\ r \in Ids /\ Target(r) = r /\ arg[r] \in Args
      /\ arg[r].name \in Names /\ c \in Accounts
      /\ username[r] = None /\ sessions[r] = None /\ told[r] = None
  BY RequestsAreIds
     DEF OAuthCreates, IInv, TypeOK, RequestGood, NothingYet, Holds, Target, Creating, Naming
<1>2. UNCHANGED <<password, sessions, now, faults, ended, told, straddled>>
  BY DEF OAuthCreates
<1>3. CASE Conflicts(c)
  <2>1. /\ pc' = [pc EXCEPT ![r] = "done"] /\ arg' = [arg EXCEPT ![r] = arg[r]]
        /\ UNCHANGED <<rowVars, now, history>> /\ faults' \in 0..MaxFaults
    BY <1>2, <1>3 DEF OAuthCreates, IInv, TypeOK, rowVars, history
  <2>2. pc'[r] = "done"
    BY <2>1 DEF IInv, TypeOK
  <2>3. RequestGood(r)'
    BY <2>2 DEF RequestGood, NothingYet, Holds, FoundFree, FoundExpired, Creating, Naming,
                Validated
  <2> QED
    BY <1>1, <2>1, <2>3, ReadStep DEF Pcs
<1>4. CASE ~Conflicts(c)
  <2> DEFINE a == [arg[r] EXCEPT !.user = r]
  <2>1. a \in Args /\ a.account = c /\ a.user = r
    BY <1>1 DEF Args
  <2>2. /\ pc' = [pc EXCEPT ![r] = "issue"] /\ arg' = [arg EXCEPT ![r] = a]
        /\ username' = [username EXCEPT ![r] = arg[r].name]
        /\ linked' = [linked EXCEPT ![c] = r]
        /\ Writes(arg[r].name, r)
    BY <1>4 DEF OAuthCreates
  <2> HIDE DEF a
  <2>3. linked[c] = None /\ linked'[c] = r /\ \A b \in Accounts \ {c} : linked'[b] = linked[b]
    BY <1>1, <1>4, <2>2 DEF Conflicts, IInv, TypeOK
  <2>4. /\ UsernamesUnique' /\ raced \subseteq raced' /\ raced' \subseteq Names
        /\ \A v \in Ids : username[v] # None => username'[v] # None
    BY <1>1, <2>2, NamesStayUnique DEF Naming
  <2>5. pc'[r] = "issue" /\ arg'[r] = a /\ username'[r] # None
    BY <1>1, <2>2, NoneIsNone DEF IInv, TypeOK
  <2>6. TypeOK'
    <3>1. linked' \in [Accounts -> Ids \cup {None}]
      BY <1>1, <2>2 DEF IInv, TypeOK
    <3>2. \A b \in Accounts : linked'[b] # None => username'[linked'[b]] # None
      BY <1>1, <2>3, <2>4, <2>5 DEF IInv, TypeOK
    <3>3. \A s \in Ids : sessions'[s] # None => username'[sessions'[s].user] # None
      BY <1>2, <2>4 DEF IInv, TypeOK, SessionRows
    <3>4. username' \in [Ids -> Names \cup {None}]
      BY <1>1, <2>2 DEF IInv, TypeOK
    <3>5. pc' \in [Requests -> Pcs] /\ arg' \in [Requests -> Args]
      BY <2>1, <2>2 DEF IInv, TypeOK, Pcs
    <3> QED
      BY <1>2, <2>4, <3>1, <3>2, <3>3, <3>4, <3>5 DEF IInv, TypeOK
  <2>7. AccountsWhole'
    <3>1. ASSUME NEW u \in Ids, username'[u] # None, ~password[u]
          PROVE  \E b \in Accounts : linked'[b] = u
      <4>1. CASE u = r
        BY <1>1, <2>3, <4>1
      <4>2. CASE u # r
        <5>1. username[u] # None
          BY <2>2, <3>1, <4>2 DEF IInv, TypeOK
        <5>2. PICK b \in Accounts : linked[b] = u
          BY <3>1, <5>1 DEF IInv, AccountsWhole
        <5> QED
          BY <2>3, <5>2, NoneIsNone
      <4> QED
        BY <4>1, <4>2
    <3>2. ASSUME NEW q \in Requests, arg'[q].account # None, sessions[q] # None
          PROVE  linked'[arg'[q].account] = sessions[q].user
      <4>1. q # r /\ arg'[q] = arg[q] /\ arg[q] \in Args
        BY <1>1, <2>2, <3>2 DEF IInv, TypeOK
      <4>2. linked[arg[q].account] = sessions[q].user /\ arg[q].account \in Accounts
        BY <3>2, <4>1 DEF IInv, AccountsWhole, Args
      <4>3. sessions[q].user # None
        BY <3>2, NoneIsNone, RequestsAreIds DEF IInv, TypeOK, SessionRows
      <4> QED
        BY <2>3, <4>1, <4>2, <4>3
    <3> QED
      BY <1>2, <3>1, <3>2 DEF AccountsWhole
  <2>8. SignedOutStaysOut' /\ \A s \in Ids : SessionRowGood(s)'
    BY <1>2 DEF IInv, SignedOutStaysOut, SessionRowGood
  <2>9. ASSUME NEW q \in Requests PROVE RequestGood(q)'
    <3>1. CASE q = r
      BY <1>1, <1>2, <2>1, <2>3, <2>5, <3>1
         DEF RequestGood, NothingYet, Holds, FoundFree, FoundExpired, Creating, Naming, Validated
    <3>2. CASE q # r
      <4>1. /\ pc'[q] = pc[q] /\ arg'[q] = arg[q] /\ username'[q] = username[q]
            /\ RequestGood(q) /\ q \in Ids /\ arg[q] \in Args
        BY <2>2, <3>2, RequestsAreIds DEF IInv, TypeOK
      <4>2. FoundFree(q)'
        BY <1>1, <2>2, <3>2, <4>1, OthersFoundFree DEF Naming
      <4>3. NothingYet(q)' /\ FoundExpired(q)'
        BY <1>2, <4>1 DEF RequestGood, NothingYet, FoundExpired
      <4>4. Holds(q)'
        <5>1. pc[q] = "issue" /\ arg[q].account # None =>
                linked'[arg[q].account] = arg[q].user
          BY <2>3, <4>1, NoneIsNone DEF RequestGood, Holds, Args
        <5> QED
          BY <1>2, <2>4, <4>1, <5>1 DEF RequestGood, Holds
      <4> QED
        BY <4>2, <4>3, <4>4 DEF RequestGood
    <3> QED
      BY <3>1, <3>2
  <2> QED
    BY <2>4, <2>6, <2>7, <2>8, <2>9 DEF IInv
<1> QED
  BY <1>3, <1>4

LEMMA ProfileWritesKeeps ==
  ASSUME IInv, NEW r \in Requests, ProfileWrites(r)
  PROVE  IInv'
<1> DEFINE u == arg[r].user
<1>1. /\ pc[r] = "rename" /\ RequestGood(r) /\ u \in Ids /\ Target(r) = u
      /\ arg[r].name \in Names /\ username[u] # None
      /\ arg[r].account = None
  BY DEF ProfileWrites, IInv, RequestGood, Holds, Target, Naming, Validated
<1>2. /\ pc' = [pc EXCEPT ![r] = "done"] /\ arg' = arg
      /\ username' = [username EXCEPT ![u] = arg[r].name]
      /\ Writes(arg[r].name, r)
      /\ UNCHANGED <<password, linked, sessions, now, faults, ended, told, straddled>>
  BY DEF ProfileWrites
<1>3. /\ UsernamesUnique' /\ raced \subseteq raced' /\ raced' \subseteq Names
      /\ \A v \in Ids : username[v] # None => username'[v] # None
  BY <1>1, <1>2, NamesStayUnique DEF Naming
<1>4. \A v \in Ids : username[v] = None => username'[v] = None
  BY <1>1, <1>2 DEF IInv, TypeOK
<1>5. TypeOK'
  BY <1>1, <1>2, <1>3 DEF IInv, TypeOK, Pcs, SessionRows
<1>6. AccountsWhole' /\ SignedOutStaysOut' /\ \A s \in Ids : SessionRowGood(s)'
  BY <1>2, <1>4 DEF IInv, AccountsWhole, SignedOutStaysOut, SessionRowGood
<1>7. ASSUME NEW q \in Requests PROVE RequestGood(q)'
  <2>1. CASE q = r
    <3>1. pc'[q] = "done"
      BY <1>2, <2>1 DEF IInv, TypeOK
    <3> QED
      BY <3>1 DEF RequestGood, NothingYet, Holds, FoundFree, FoundExpired, Creating, Naming,
                  Validated
  <2>2. CASE q # r
    <3>1. pc'[q] = pc[q] /\ arg'[q] = arg[q] /\ RequestGood(q) /\ q \in Ids
      BY <1>2, <2>2, RequestsAreIds DEF IInv, TypeOK
    <3>2. FoundFree(q)'
      BY <1>1, <1>2, <2>2, <3>1, OthersFoundFree DEF Naming
    <3>3. NothingYet(q)' /\ Holds(q)' /\ FoundExpired(q)'
      BY <1>2, <1>3, <1>4, <3>1 DEF RequestGood, NothingYet, Holds, FoundExpired
    <3> QED
      BY <3>2, <3>3 DEF RequestGood
  <2> QED
    BY <2>1, <2>2
<1> QED
  BY <1>3, <1>5, <1>6, <1>7 DEF IInv

-----------------------------------------------------------------------------
\* A step that writes sessions and leaves users and accounts alone.  What is
\* left to show is about sessions, and the request itself.
LEMMA SessionStep ==
  ASSUME IInv, NEW r \in Requests, NEW w \in Pcs,
         pc' = [pc EXCEPT ![r] = w], w \in {"authed", "done"},
         UNCHANGED <<username, password, linked, now, arg, faults, raced>>,
         sessions' \in [Ids -> SessionRows \cup {None}],
         told' \in [Ids -> Nat \cup {None}],
         ended' \subseteq Ids, ended \subseteq ended',
         straddled' \subseteq Ids, straddled \subseteq straddled',
         \A s \in Ids : sessions'[s] # None /\ sessions[s] # None =>
                         sessions'[s].user = sessions[s].user,
         \A s \in Ids : sessions'[s] # None /\ sessions[s] = None =>
                         s = r /\ pc[r] = "issue" /\ sessions'[r].user = arg[r].user,
         \A s \in Ids : told[s] # None => told'[s] # None,
         \A s \in Ids : told[s] = None /\ told'[s] # None => s = r /\ pc[r] = "issue",
         SignedOutStaysOut', \A s \in Ids : SessionRowGood(s)',
         \A q \in Requests \ {r} : FoundExpired(q)',
         w = "authed" => Holds(r)'
  PROVE  IInv'
<1>1. pc'[r] = w /\ r \in Ids /\ RequestGood(r)
  BY RequestsAreIds DEF IInv, TypeOK
<1>2. /\ \A s \in Ids : sessions'[s] # None => username[sessions'[s].user] # None
      /\ \A a \in Accounts : linked[a] # None => username[linked[a]] # None
  BY <1>1 DEF IInv, TypeOK, RequestGood, Holds
<1>3. TypeOK'
  BY <1>2 DEF IInv, TypeOK
<1>4. UsernamesUnique'
  BY DEF IInv, UsernamesUnique
<1>5. AccountsWhole'
  <2>1. ASSUME NEW q \in Requests, arg[q].account # None, sessions'[q] # None
        PROVE  linked[arg[q].account] = sessions'[q].user
    <3>1. CASE sessions[q] # None
      BY <2>1, <3>1, RequestsAreIds DEF IInv, AccountsWhole
    <3>2. CASE sessions[q] = None
      BY <1>1, <2>1, <3>2, RequestsAreIds DEF RequestGood, Holds
    <3> QED
      BY <3>1, <3>2
  <2> QED
    BY <2>1 DEF IInv, AccountsWhole
<1>6. ASSUME NEW q \in Requests PROVE RequestGood(q)'
  <2>1. CASE q = r
    BY <1>1, <2>1
       DEF RequestGood, NothingYet, FoundFree, FoundExpired, Holds, Creating, Naming, Validated
  <2>2. CASE q # r
    <3>1. pc'[q] = pc[q] /\ RequestGood(q) /\ q \in Ids
      BY <2>2, RequestsAreIds DEF IInv, TypeOK
    <3>2. NothingYet(q)'
      BY <2>2, <3>1 DEF RequestGood, NothingYet
    <3>3. FoundFree(q)' /\ Holds(q)'
      BY <3>1 DEF RequestGood, FoundFree, Holds, Target
    <3> QED
      BY <2>2, <3>2, <3>3 DEF RequestGood
  <2> QED
    BY <2>1, <2>2
<1> QED
  BY <1>3, <1>4, <1>5, <1>6 DEF IInv

LEMMA IssueKeeps ==
  ASSUME IInv, NEW r \in Requests, Issue(r)
  PROVE  IInv'
<1>1. /\ pc[r] = "issue" /\ r \in Ids /\ RequestGood(r)
      /\ arg[r].user \in Ids /\ sessions[r] = None /\ told[r] = None
  BY RequestsAreIds DEF Issue, IInv, RequestGood, NothingYet, Holds, Creating
<1>2. now \in Nat /\ now + Lifetime \in Nat /\ Session(arg[r].user) \in SessionRows
  BY <1>1, AccountsAssumption DEF IInv, TypeOK, Session, SessionRows
<1>3. /\ pc' = [pc EXCEPT ![r] = "done"] /\ "done" \in Pcs
      /\ sessions' = [sessions EXCEPT ![r] = Session(arg[r].user)]
      /\ told' = [told EXCEPT ![r] = now + Lifetime]
      /\ UNCHANGED <<username, password, linked, now, arg, faults, ended, raced, straddled>>
  BY DEF Issue, Pcs
<1>4. /\ sessions' \in [Ids -> SessionRows \cup {None}]
      /\ told' \in [Ids -> Nat \cup {None}]
      /\ sessions'[r] = Session(arg[r].user) /\ told'[r] = now + Lifetime
      /\ \A s \in Ids \ {r} : sessions'[s] = sessions[s] /\ told'[s] = told[s]
  BY <1>1, <1>2, <1>3 DEF IInv, TypeOK
<1>5. Session(arg[r].user).user = arg[r].user /\ Session(arg[r].user).expires = now + Lifetime
  BY DEF Session
<1>6. r \notin ended /\ told'[r] # None /\ sessions'[r] # None
  BY <1>1, <1>2, <1>4, NoneIsNone DEF IInv, SessionRowGood
<1>7. SignedOutStaysOut' /\ \A s \in Ids : SessionRowGood(s)'
  BY <1>3, <1>4, <1>5, <1>6 DEF IInv, SignedOutStaysOut, SessionRowGood, TypeOK
<1>8. ASSUME NEW q \in Requests \ {r} PROVE FoundExpired(q)'
  <2>1. FoundExpired(q) /\ pc'[q] = pc[q]
    BY <1>3 DEF IInv, RequestGood, TypeOK
  <2>2. pc[q] = "expire" => arg[q].session \in Ids \ {r}
    BY <1>1 DEF IInv, RequestGood, Holds, Validated
  <2> QED
    BY <1>3, <1>4, <2>1, <2>2 DEF FoundExpired
<1>9. ended' \subseteq Ids /\ straddled' \subseteq Ids
  BY <1>3 DEF IInv, TypeOK
<1> QED
  BY <1>1, <1>3, <1>4, <1>5, <1>6, <1>7, <1>8, <1>9, SessionStep

\* The two steps that delete a session: it had expired, or it is signed out.
LEMMA DeleteKeeps ==
  ASSUME IInv, NEW r \in Requests, Expire(r) \/ SignOut(r)
  PROVE  IInv'
<1> DEFINE s == arg[r].session
<1>1. /\ s \in Ids /\ told[s] # None /\ RequestGood(r)
      /\ pc' = [pc EXCEPT ![r] = "done"] /\ "done" \in Pcs
      /\ sessions' = [sessions EXCEPT ![s] = None]
      /\ UNCHANGED <<username, password, linked, now, arg, faults, told, raced, straddled>>
      /\ ended' = ended \/ ended' = ended \cup {s}
  BY DEF Expire, SignOut, IInv, RequestGood, Holds, Validated, Pcs, history
<1> HIDE DEF s
<1>2. /\ sessions' \in [Ids -> SessionRows \cup {None}]
      /\ sessions'[s] = None /\ \A t \in Ids \ {s} : sessions'[t] = sessions[t]
  BY <1>1 DEF IInv, TypeOK
<1>3. s \in ended' \cup straddled \/ now >= told[s]
  <2>1. CASE Expire(r)
    BY <1>1, <2>1 DEF Expire, RequestGood, FoundExpired, history, s
  <2>2. CASE SignOut(r)
    BY <2>2 DEF SignOut, s
  <2> QED
    BY <2>1, <2>2
<1>4. SignedOutStaysOut' /\ \A t \in Ids : SessionRowGood(t)'
  BY <1>1, <1>2, <1>3 DEF IInv, SignedOutStaysOut, SessionRowGood
<1>5. ASSUME NEW q \in Requests \ {r} PROVE FoundExpired(q)'
  BY <1>1 DEF IInv, RequestGood, TypeOK, FoundExpired
<1>6. ended' \subseteq Ids /\ straddled' \subseteq Ids /\ told' \in [Ids -> Nat \cup {None}]
  BY <1>1 DEF IInv, TypeOK
<1> QED
  BY <1>1, <1>2, <1>4, <1>5, <1>6, SessionStep

LEMMA RenewKeeps ==
  ASSUME IInv, NEW r \in Requests, Renew(r)
  PROVE  IInv'
<1> DEFINE s == arg[r].session
           e == arg[r].expires
<1>1. /\ pc[r] = "renew" /\ s \in Ids /\ told[s] # None /\ told[s] \in Nat /\ e \in Nat
      /\ RequestGood(r) /\ SessionRowGood(s)
      /\ pc' = [pc EXCEPT ![r] = "authed"] /\ "authed" \in Pcs
      /\ UNCHANGED <<username, password, linked, now, arg, faults, ended, raced>>
  BY DEF Renew, IInv, TypeOK, RequestGood, Holds, Validated, Pcs
<1>2. pc'[r] = "authed"
  BY <1>1 DEF IInv, TypeOK
<1>3. told'[s] # None => Holds(r)'
  BY <1>1, <1>2 DEF RequestGood, Holds, Validated, Naming
<1>4. CASE sessions[s] = None
  <2>1. UNCHANGED <<sessions, told, straddled>>
    BY <1>4 DEF Renew
  <2>2. SignedOutStaysOut' /\ \A t \in Ids : SessionRowGood(t)'
    BY <1>1, <2>1 DEF IInv, SignedOutStaysOut, SessionRowGood
  <2>3. ASSUME NEW q \in Requests \ {r} PROVE FoundExpired(q)'
    BY <1>1, <2>1 DEF IInv, RequestGood, TypeOK, FoundExpired
  <2>4. /\ ended' \subseteq Ids /\ straddled' \subseteq Ids /\ told' \in [Ids -> Nat \cup {None}]
        /\ sessions' \in [Ids -> SessionRows \cup {None}]
    BY <1>1, <2>1 DEF IInv, TypeOK
  <2> QED
    BY <1>1, <1>3, <2>1, <2>2, <2>3, <2>4, SessionStep
<1>5. CASE sessions[s] # None
  <2>1. sessions[s] \in SessionRows /\ sessions[s].expires \in Nat /\ sessions[s].user \in Ids
    BY <1>1, <1>5 DEF IInv, TypeOK, SessionRows
  <2>2. /\ sessions' = [sessions EXCEPT ![s].expires = e]
        /\ told' = [told EXCEPT ![s] = IF e > told[s] THEN e ELSE told[s]]
        /\ straddled \subseteq straddled' /\ straddled' \subseteq straddled \cup {s}
        /\ e < sessions[s].expires => s \in straddled'
        /\ \A q \in Requests : pc[q] = "expire" /\ arg[q].session = s => s \in straddled'
    BY <1>1, <1>5 DEF Renew
  <2>3. /\ sessions'[s] = [user |-> sessions[s].user, expires |-> e]
        /\ sessions'[s].user = sessions[s].user /\ sessions'[s].expires = e
        /\ sessions'[s] \in SessionRows
        /\ \A t \in Ids \ {s} : sessions'[t] = sessions[t]
    BY <1>1, <2>1, <2>2 DEF IInv, TypeOK, SessionRows
  <2>4. /\ told'[s] = IF e > told[s] THEN e ELSE told[s]
        /\ told'[s] \in Nat /\ \A t \in Ids \ {s} : told'[t] = told[t]
        /\ told' \in [Ids -> Nat \cup {None}]
    BY <1>1, <2>2 DEF IInv, TypeOK
  <2>5. sessions' \in [Ids -> SessionRows \cup {None}]
    BY <1>1, <2>2, <2>3 DEF IInv, TypeOK
  <2>6. sessions'[s] # None /\ told'[s] # None /\ s \notin ended
    BY <1>1, <1>5, <2>3, <2>4, NoneIsNone DEF IInv, SignedOutStaysOut
  <2>7. s \notin straddled' => told'[s] = e
    BY <1>1, <1>5, <2>1, <2>2, <2>4 DEF SessionRowGood
  <2>8. ASSUME NEW t \in Ids PROVE SessionRowGood(t)'
    <3>1. CASE t = s
      BY <1>1, <2>3, <2>6, <2>7, <3>1 DEF SessionRowGood
    <3>2. CASE t # s
      BY <1>1, <2>2, <2>3, <2>4, <3>2 DEF IInv, SessionRowGood
    <3> QED
      BY <3>1, <3>2
  <2>9. SignedOutStaysOut'
    BY <1>1, <2>3, <2>6 DEF IInv, TypeOK, SignedOutStaysOut
  <2>10. ASSUME NEW q \in Requests \ {r} PROVE FoundExpired(q)'
    <3>1. FoundExpired(q) /\ pc'[q] = pc[q] /\ (pc[q] = "expire" => arg[q].session \in Ids)
      BY <1>1 DEF IInv, RequestGood, TypeOK, Holds, Validated
    <3>2. CASE arg[q].session = s
      BY <1>1, <2>2, <3>1, <3>2 DEF FoundExpired
    <3>3. CASE arg[q].session # s
      BY <1>1, <2>2, <2>4, <3>1, <3>3 DEF FoundExpired
    <3> QED
      BY <3>2, <3>3
  <2>11. ended' \subseteq Ids /\ straddled' \subseteq Ids
    BY <1>1, <2>2 DEF IInv, TypeOK
  <2> HIDE DEF s, e
  <2>12. /\ \A t \in Ids : sessions'[t] # None /\ sessions[t] # None =>
                            sessions'[t].user = sessions[t].user
         /\ \A t \in Ids : ~(sessions'[t] # None /\ sessions[t] = None)
         /\ \A t \in Ids : told[t] # None => told'[t] # None
         /\ \A t \in Ids : ~(told[t] = None /\ told'[t] # None)
    BY <1>1, <1>5, <2>3, <2>4, <2>6
  <2> QED
    BY <1>1, <1>3, <2>2, <2>4, <2>5, <2>6, <2>8, <2>9, <2>10, <2>11, <2>12, SessionStep
<1> QED
  BY <1>4, <1>5

\* Time passes: what had expired still has.
LEMMA TickKeeps == ASSUME IInv, Tick PROVE IInv'
<1>1. /\ now \in Nat /\ now' = now + 1 /\ now' \in 0..MaxNow
      /\ UNCHANGED <<rowVars, pc, arg, faults, history>>
  BY AccountsAssumption DEF Tick, IInv, TypeOK
<1> USE DEF rowVars, history
<1>2. (TypeOK /\ UsernamesUnique /\ AccountsWhole /\ SignedOutStaysOut)'
  BY <1>1 DEF IInv, TypeOK, UsernamesUnique, AccountsWhole, SignedOutStaysOut
<1>3. ASSUME NEW s \in Ids PROVE SessionRowGood(s)'
  BY <1>1 DEF IInv, TypeOK, SessionRowGood
<1>4. ASSUME NEW r \in Requests PROVE RequestGood(r)'
  <2>1. RequestGood(r) /\ (pc[r] = "expire" => told[arg[r].session] \in Nat)
    BY DEF IInv, TypeOK, RequestGood, Holds, Validated
  <2> QED
    BY <1>1, <2>1 DEF RequestGood, NothingYet, Holds, FoundFree, FoundExpired, Target
<1> QED
  BY <1>2, <1>3, <1>4 DEF IInv

-----------------------------------------------------------------------------
LEMMA InitKeeps == Init => IInv
<1> SUFFICES ASSUME Init PROVE IInv
  OBVIOUS
<1> USE RequestsAreIds, NoneIsNone, AccountsAssumption
<1>1. 0 \in Names /\ Lifetime \in Nat /\ \A r \in Requests : r # Seed
  BY DEF Names
<1>2. TypeOK
  <2>1. sessions \in [Ids -> SessionRows \cup {None}]
    BY <1>1 DEF Init, SessionRows
  <2>2. pc \in [Requests -> Pcs] /\ arg \in [Requests -> Args]
    BY NoArgTyped DEF Init, Pcs
  <2> QED
    BY <1>1, <2>1, <2>2 DEF Init, TypeOK
<1>3. UsernamesUnique /\ SignedOutStaysOut /\ \A s \in Ids : SessionRowGood(s)
  BY <1>1 DEF Init, UsernamesUnique, SignedOutStaysOut, SessionRowGood
<1>4. AccountsWhole
  BY DEF Init, AccountsWhole, NoArg
<1>5. \A r \in Requests : RequestGood(r)
  BY <1>1 DEF Init, RequestGood, NothingYet, Holds, FoundFree, FoundExpired, Creating, Naming,
              Validated
<1> QED
  BY <1>2, <1>3, <1>4, <1>5 DEF IInv

LEMMA StepKeeps == IInv /\ [Next]_vars => IInv'
<1> SUFFICES ASSUME IInv, [Next]_vars PROVE IInv'
  OBVIOUS
<1>1. CASE UNCHANGED vars
  BY <1>1 DEF vars, rowVars, history, IInv, TypeOK, UsernamesUnique, AccountsWhole,
              SignedOutStaysOut, SessionRowGood, RequestGood, NothingYet, Holds, FoundFree,
              FoundExpired, Target
<1>2. CASE Tick
  BY <1>2, TickKeeps
<1>3. ASSUME NEW r \in Requests, NEW n \in Names, SignUpReads(r, n) \/ ProfileReads(r, n)
      PROVE  IInv'
  BY <1>3, SignUpReadsKeeps, ProfileReadsKeeps
<1>4. ASSUME NEW r \in Requests, NEW u \in Ids, SignInReads(r, u) \/ Validate(r, u)
      PROVE  IInv'
  BY <1>4, SignInReadsKeeps, ValidateKeeps
<1>5. ASSUME NEW r \in Requests, NEW a \in Accounts, OAuthReads(r, a)
      PROVE  IInv'
  BY <1>5, OAuthReadsKeeps
<1>6. ASSUME NEW r \in Requests,
             \/ SignUpInserts(r) \/ OAuthClaims(r) \/ OAuthCreates(r) \/ ProfileWrites(r)
      PROVE  IInv'
  BY <1>6, SignUpInsertsKeeps, OAuthClaimsKeeps, OAuthCreatesKeeps, ProfileWritesKeeps
<1>7. ASSUME NEW r \in Requests,
             \/ Issue(r) \/ IssueFails(r) \/ Answer(r)
             \/ Expire(r) \/ Renew(r) \/ SignOut(r)
      PROVE  IInv'
  BY <1>7, IssueKeeps, EndsKeep, DeleteKeeps, RenewKeeps
<1> QED
  BY <1>1, <1>2, <1>3, <1>4, <1>5, <1>6, <1>7 DEF Next

\* The invariant the theorems below rest on.
THEOREM Invariance == Spec => []IInv
  BY InitKeeps, StepKeeps, PTL DEF Spec

\* The rows keep their types, and every account and session has its user.
THEOREM AccountsTyped == Spec => []TypeOK
<1>1. IInv => TypeOK
  BY DEF IInv
<1> QED
  BY <1>1, Invariance, PTL

\* signUp, claimUsername, updateProfile: two users share a username only when
\* two requests had checked it before either wrote it.
THEOREM NamesUnique == Spec => []UsernamesUnique
<1>1. IInv => UsernamesUnique
  BY DEF IInv
<1> QED
  BY <1>1, Invariance, PTL

\* createOAuthUser: no race of sign-ins leaves a user that cannot sign in, or
\* signs a provider account in as another user.
THEOREM ProviderAccounts == Spec => []AccountsWhole
<1>1. IInv => AccountsWhole
  BY DEF IInv
<1> QED
  BY <1>1, Invariance, PTL

\* signOut, updateExpiry: a renewal does not bring a signed-out session back.
THEOREM SignOutIsFinal == Spec => []SignedOutStaysOut
<1>1. IInv => SignedOutStaysOut
  BY DEF IInv
<1> QED
  BY <1>1, Invariance, PTL

\* validateSessionToken: a session lasts as long as it was last promised.
THEOREM SessionsSurvive == Spec => []SessionSurvives
<1>1. IInv => SessionSurvives
  <2> SUFFICES ASSUME IInv, NEW s \in Ids, told[s] # None, now < told[s],
                      s \notin ended \cup straddled
               PROVE  sessions[s] # None /\ sessions[s].expires = told[s]
    BY DEF SessionSurvives
  <2>1. SessionRowGood(s) /\ now \in Nat /\ told[s] \in Nat
    BY AccountsAssumption DEF IInv, TypeOK
  <2> QED
    BY <2>1 DEF SessionRowGood
<1> QED
  BY <1>1, Invariance, PTL

=============================================================================
