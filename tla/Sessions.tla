------------------------------ MODULE Sessions ------------------------------
(***************************************************************************)
(* Signing in, staying signed in and signing out: app/api/auth.py, the     *)
(* token checks of app/api/deps.py and the blacklist of app/cache.py.      *)
(*                                                                         *)
(* A grant is what login and refresh hand out together: a row of the table *)
(* refresh_tokens and a signed access token with its own jti.  The strings *)
(* are random, so a grant is known by its number.  Rows are committed at   *)
(* READ COMMITTED as in ReportStore; blacklist entries live in Redis; an   *)
(* access token lives nowhere, it is valid until it expires.               *)
(*                                                                         *)
(* Time is counted in ticks, several to the second, because the code       *)
(* rounds to seconds.  What expires carries the ticks it has left, so time *)
(* needs no bound.  A refresh token lives for days; when its time is up is *)
(* not related to anything else here, so it may be at any moment.          *)
(***************************************************************************)
EXTENDS Integers, FiniteSets

CONSTANTS
    Requests,       \* slots for requests being served at the same time
    Accounts,       \* Google accounts, by the claim `sub` of their id token
    Users,          \* ids that the users.id sequence may draw
    MaxGrants,      \* bound: grants ever issued
    MaxAnswers,     \* bound: grants of which the client gets to know
    TicksPerSecond,
    AccessSeconds,  \* jwt_expiry_seconds
    RedisFails,     \* may Redis fail to answer?
    NULL

ASSUME SessionsAssumption ==
    /\ {MaxGrants, MaxAnswers} \subseteq Nat
    /\ {TicksPerSecond, AccessSeconds} \subseteq Nat \ {0}
    /\ RedisFails \in BOOLEAN
    /\ NULL \notin Accounts \cup Users
    /\ IsFiniteSet(Requests) /\ IsFiniteSet(Users)

VARIABLES
    users,          \* id -> google_id of the row, or NULL
    grants,         \* grants issued so far
    refresh,        \* grant -> row of refresh_tokens, or NULL
    access,         \* grant -> claims of its access token, or NULL
    blacklist,      \* grant -> ticks that bl:{jti} has left, 0 if it is not set
    phase,          \* ticks since the second began
    tx,             \* request -> state of its handler and transaction
    login,          \* history: grant -> the grant its login began with
    spent,          \* history: grants whose refresh token was redeemed or purged
    ended,          \* history: logins whose row a logout of their own user has deleted
    revoked         \* history: unexpired grants that were logged out with, and answered

tokens  == <<grants, refresh, access>>
history == <<login, spent, ended, revoked>>
vars    == <<users, tokens, blacklist, phase, tx, history>>

Grants == 1 .. MaxGrants

Stage == {"idle", "login_create", "login_token", "refresh_rotate", "refresh_purge",
          "logout_blacklist", "logout_find", "logout_delete",
          "auth_check", "served"}

Tx == [pc      : Stage,
       account : Accounts \cup {NULL},  \* google_id
       user    : Users \cup {NULL},
       grant   : 0 .. MaxGrants,        \* whose token is presented or issued
       ttl     : Nat,                   \* seconds the blacklist entry will live
       found   : SUBSET Grants]         \* rows in the snapshot of the DELETE

Idle == [pc |-> "idle", account |-> NULL, user |-> NULL, grant |-> 0, ttl |-> 0, found |-> {}]

Row    == [user : Users, late : BOOLEAN]    \* late: expires_at < now
Claims == [user : Users, left : Nat]        \* left: ticks until exp

ASSUME NullAssumption == NULL \notin Row \cup Claims

At(q, stages) == tx[q].pc \in stages

\* The grants that a client has been handed.
Given == {g \in Grants : access[g] # NULL}

\* jwt.decode: the token has not expired.  exp is compared with the exact time.
Valid(g) == access[g].left > 0

Blacklisted(g) == blacklist[g] > 0

\* SELECT ... FOR UPDATE locks the presented token's row until the commit.
Locks(q, g) == At(q, {"refresh_rotate", "refresh_purge"}) /\ tx[q].grant = g

Free(q, g) == \A p \in Requests \ {q} : ~Locks(p, g)

\* A bound of the model: every request that is to issue a grant can.
GrantsLeft ==
    MaxGrants - grants >
        Cardinality({q \in Requests : At(q, {"login_create", "login_token", "refresh_rotate"})})

-----------------------------------------------------------------------------
(* auth_google *)

Rows(a) == {u \in Users : users[u] = a}

\* Fault: an unknown account is not created.
LoginGet_NoUser(q, a) ==
    /\ At(q, {"idle"})
    /\ GrantsLeft
    /\ \E u \in Rows(a) \cup IF Rows(a) = {} THEN {NULL} ELSE {} :
          tx' = [tx EXCEPT ![q] = [Idle EXCEPT !.pc = "login_token", !.user = u]]
    /\ UNCHANGED <<users, tokens, blacklist, phase, history>>

\* The id token is verified (a bad one is answered 401) and the user looked up.
LoginGet(q, a) ==
    /\ At(q, {"idle"})
    /\ GrantsLeft
    /\ IF Rows(a) = {}
       THEN tx' = [tx EXCEPT ![q] = [Idle EXCEPT !.pc = "login_create", !.account = a]]
       ELSE \E u \in Rows(a) :
               tx' = [tx EXCEPT ![q] = [Idle EXCEPT !.pc = "login_token", !.user = u]]
    /\ UNCHANGED <<users, tokens, blacklist, phase, history>>

\* Fault: no unique constraint on users.google_id.
LoginCreate_NotUnique(q) ==
    /\ At(q, {"login_create"})
    /\ \E u \in Users :
          /\ users[u] = NULL
          /\ users' = [users EXCEPT ![u] = tx[q].account]
          /\ tx' = [tx EXCEPT ![q].pc = "login_token", ![q].user = u]
    /\ UNCHANGED <<tokens, blacklist, phase, history>>

\* INSERT INTO users and its commit; google_id is unique.
LoginCreate(q) ==
    /\ At(q, {"login_create"})
    /\ Rows(tx[q].account) = {}
    /\ \E u \in Users :
          /\ users[u] = NULL
          /\ users' = [users EXCEPT ![u] = tx[q].account]
          /\ tx' = [tx EXCEPT ![q].pc = "login_token", ![q].user = u]
    /\ UNCHANGED <<tokens, blacklist, phase, history>>

\* Another first login of the account was faster: IntegrityError, a 500.
LoginRefused(q) ==
    /\ At(q, {"login_create"})
    /\ Rows(tx[q].account) # {}
    /\ tx' = [tx EXCEPT ![q] = Idle]
    /\ UNCHANGED <<users, tokens, blacklist, phase, history>>

\* The commit of a refresh token's row has succeeded, and the answer follows with
\* an access token of the time in whole seconds, unless the connection is lost.
Answer(g, u) ==
    \/ access' = access
    \/ /\ Cardinality(Given) < MaxAnswers
       /\ access' = [access EXCEPT ![g] =
                       [user |-> u, left |-> AccessSeconds * TicksPerSecond - phase]]

\* INSERT INTO refresh_tokens, in a transaction of its own.
LoginToken(q) ==
    LET g == grants + 1
    IN  /\ At(q, {"login_token"})
        /\ g \in Grants
        /\ grants' = g
        /\ refresh' = [refresh EXCEPT ![g] = [user |-> tx[q].user, late |-> FALSE]]
        /\ Answer(g, tx[q].user)
        /\ login' = [login EXCEPT ![g] = g]
        /\ tx' = [tx EXCEPT ![q] = Idle]
        /\ UNCHANGED <<users, blacklist, phase, spent, ended, revoked>>

-----------------------------------------------------------------------------
(* refresh *)

\* Fault: a plain SELECT, which locks nothing and waits for nobody.
RefreshGet_NoLock(q, g) ==
    /\ At(q, {"idle"})
    /\ g \in Given /\ refresh[g] # NULL
    /\ GrantsLeft \/ refresh[g].late
    /\ tx' = [tx EXCEPT ![q] =
                [Idle EXCEPT !.pc = IF refresh[g].late THEN "refresh_purge" ELSE "refresh_rotate",
                             !.user = refresh[g].user, !.grant = g]]
    /\ UNCHANGED <<users, tokens, blacklist, phase, history>>

\* SELECT ... FOR UPDATE.  A token without a row is answered 401.
RefreshGet(q, g) ==
    /\ At(q, {"idle"})
    /\ g \in Given /\ refresh[g] # NULL
    /\ GrantsLeft \/ refresh[g].late
    /\ Free(q, g)
    /\ tx' = [tx EXCEPT ![q] =
                [Idle EXCEPT !.pc = IF refresh[g].late THEN "refresh_purge" ELSE "refresh_rotate",
                             !.user = refresh[g].user, !.grant = g]]
    /\ UNCHANGED <<users, tokens, blacklist, phase, history>>

\* DELETE the token, INSERT its successor, commit.
RefreshRotate(q) ==
    LET old == tx[q].grant
        new == grants + 1
    IN  /\ At(q, {"refresh_rotate"})
        /\ new \in Grants
        /\ grants' = new
        /\ refresh' = [refresh EXCEPT
                          ![old] = NULL,
                          ![new] = [user |-> tx[q].user, late |-> FALSE]]
        /\ Answer(new, tx[q].user)
        /\ login' = [login EXCEPT ![new] = login[old]]
        /\ spent' = spent \cup {old}
        /\ tx' = [tx EXCEPT ![q] = Idle]
        /\ UNCHANGED <<users, blacklist, phase, ended, revoked>>

\* An expired token is deleted, and the deletion committed, before the 401.
RefreshPurge(q) ==
    /\ At(q, {"refresh_purge"})
    /\ refresh' = [refresh EXCEPT ![tx[q].grant] = NULL]
    /\ spent' = spent \cup {tx[q].grant}
    /\ tx' = [tx EXCEPT ![q] = Idle]
    /\ UNCHANGED <<users, grants, access, blacklist, phase, login, ended, revoked>>

-----------------------------------------------------------------------------
(* logout *)

\* int(payload["exp"] - time.time())
Ttl(g) == access[g].left \div TicksPerSecond

\* The access token is decoded; whether it is blacklisted is not looked at.
LogoutDecode(q, g) ==
    /\ At(q, {"idle"})
    /\ g \in Given /\ Valid(g)
    /\ tx' = [tx EXCEPT ![q] =
                [Idle EXCEPT !.pc = IF Ttl(g) > 0 THEN "logout_blacklist" ELSE "logout_find",
                             !.user = access[g].user, !.grant = g,
                             !.ttl = IF Ttl(g) > 0 THEN Ttl(g) ELSE 0]]
    /\ UNCHANGED <<users, tokens, blacklist, phase, history>>

Entry(q) == [blacklist EXCEPT ![tx[q].grant] = tx[q].ttl * TicksPerSecond]

\* SET bl:{jti} 1 EX ttl
LogoutBlacklist(q) ==
    /\ At(q, {"logout_blacklist"})
    /\ blacklist' = Entry(q)
    /\ tx' = [tx EXCEPT ![q].pc = "logout_find"]
    /\ UNCHANGED <<users, tokens, phase, history>>

\* No client, or a RedisError, after which the key may be set nevertheless.  The
\* exception leaves the handler before it has deleted anything.
LogoutRedisDown(q) ==
    /\ RedisFails
    /\ At(q, {"logout_blacklist"})
    /\ blacklist' \in {blacklist, Entry(q)}
    /\ tx' = [tx EXCEPT ![q] = Idle]
    /\ UNCHANGED <<users, tokens, phase, history>>

\* Fault: a DELETE without its WHERE clause.
LogoutFind_Everyone(q) ==
    /\ At(q, {"logout_find"})
    /\ tx' = [tx EXCEPT ![q].pc = "logout_delete",
                        ![q].found = {g \in Grants : refresh[g] # NULL}]
    /\ UNCHANGED <<users, tokens, blacklist, phase, history>>

\* DELETE FROM refresh_tokens WHERE user_id = ...: the rows it is going to
\* delete are those of its snapshot, which later inserts are not in.
LogoutFind(q) ==
    /\ At(q, {"logout_find"})
    /\ tx' = [tx EXCEPT
                ![q].pc = "logout_delete",
                ![q].found = {g \in Grants : refresh[g] # NULL /\ refresh[g].user = tx[q].user}]
    /\ UNCHANGED <<users, tokens, blacklist, phase, history>>

\* It waits for rows that are locked; those that are gone by then are skipped.
\* The commit and the answer follow.
LogoutDelete(q) ==
    LET there == {g \in tx[q].found : refresh[g] # NULL}
        own   == {g \in there : refresh[g].user = tx[q].user}
    IN  /\ At(q, {"logout_delete"})
        /\ \A g \in there : Free(q, g)
        /\ refresh' = [g \in Grants |-> IF g \in there THEN NULL ELSE refresh[g]]
        /\ ended' = ended \cup {login[g] : g \in own}
        /\ revoked' = revoked \cup {g \in {tx[q].grant} : Valid(g)}
        /\ tx' = [tx EXCEPT ![q] = Idle]
        /\ UNCHANGED <<users, grants, access, blacklist, phase, login, spent>>

-----------------------------------------------------------------------------
(* get_current_user_id and get_optional_user_id *)

\* A token that does not decode is answered 401, or makes the caller a guest.
AuthDecode(q, g) ==
    /\ At(q, {"idle"})
    /\ g \in Given /\ Valid(g)
    /\ tx' = [tx EXCEPT ![q] = [Idle EXCEPT !.pc = "auth_check", !.grant = g]]
    /\ UNCHANGED <<users, tokens, blacklist, phase, history>>

\* EXISTS bl:{jti}
AuthPass(q) ==
    /\ At(q, {"auth_check"})
    /\ ~Blacklisted(tx[q].grant)
    /\ tx' = [tx EXCEPT ![q].pc = "served", ![q].user = access[tx[q].grant].user]
    /\ UNCHANGED <<users, tokens, blacklist, phase, history>>

\* Fault: a Redis that does not answer is taken for "not blacklisted".
AuthRefuse_FailOpen(q) ==
    /\ At(q, {"auth_check"})
    /\ \/ /\ Blacklisted(tx[q].grant)
          /\ \/ tx' = [tx EXCEPT ![q] = Idle]
             \/ tx' = [tx EXCEPT ![q] = [Idle EXCEPT !.pc = "served"]]
       \/ /\ RedisFails
          /\ tx' = [tx EXCEPT ![q].pc = "served", ![q].user = access[tx[q].grant].user]
    /\ UNCHANGED <<users, tokens, blacklist, phase, history>>

\* Blacklisted, or Redis does not answer: a 401 where a user is required, and a
\* guest (user_id = None) where one is optional.
AuthRefuse(q) ==
    /\ At(q, {"auth_check"})
    /\ Blacklisted(tx[q].grant) \/ RedisFails
    /\ \/ tx' = [tx EXCEPT ![q] = Idle]
       \/ tx' = [tx EXCEPT ![q] = [Idle EXCEPT !.pc = "served"]]
    /\ UNCHANGED <<users, tokens, blacklist, phase, history>>

\* The endpoint's own handler has run.
Served(q) ==
    /\ At(q, {"served"})
    /\ tx' = [tx EXCEPT ![q] = Idle]
    /\ UNCHANGED <<users, tokens, blacklist, phase, history>>

-----------------------------------------------------------------------------
\* The pod or a connection is lost, with the open transaction or the answer.
Abort(q) ==
    /\ ~At(q, {"idle"})
    /\ tx' = [tx EXCEPT ![q] = Idle]
    /\ UNCHANGED <<users, tokens, blacklist, phase, history>>

Less(n) == IF n = 0 THEN 0 ELSE n - 1

Tick ==
    /\ phase' = (phase + 1) % TicksPerSecond
    /\ access' = [g \in Grants |->
                     IF g \in Given THEN [access[g] EXCEPT !.left = Less(@)] ELSE NULL]
    /\ blacklist' = [g \in Grants |-> Less(blacklist[g])]
    /\ revoked' = {g \in revoked : access[g].left > 1}
    /\ UNCHANGED <<users, grants, refresh, tx, login, spent, ended>>

\* refresh_token_ttl_days have passed since the token was issued.  Of one that
\* nobody was given it makes no difference.
Outlive(g) ==
    /\ g \in Given
    /\ refresh[g] # NULL /\ ~refresh[g].late
    /\ refresh' = [refresh EXCEPT ![g].late = TRUE]
    /\ UNCHANGED <<users, grants, access, blacklist, phase, tx, history>>

Init ==
    /\ users = [u \in Users |-> NULL]
    /\ grants = 0
    /\ refresh = [g \in Grants |-> NULL]
    /\ access = [g \in Grants |-> NULL]
    /\ blacklist = [g \in Grants |-> 0]
    /\ phase = 0
    /\ tx = [q \in Requests |-> Idle]
    /\ login = [g \in Grants |-> 0]
    /\ spent = {} /\ ended = {} /\ revoked = {}

Arrive(q) ==
    \/ \E a \in Accounts : LoginGet(q, a)
    \/ \E g \in Grants : RefreshGet(q, g) \/ LogoutDecode(q, g) \/ AuthDecode(q, g)

Step(q) ==
    \/ LoginCreate(q) \/ LoginRefused(q) \/ LoginToken(q)
    \/ RefreshRotate(q) \/ RefreshPurge(q)
    \/ LogoutBlacklist(q) \/ LogoutRedisDown(q) \/ LogoutFind(q) \/ LogoutDelete(q)
    \/ AuthPass(q) \/ AuthRefuse(q) \/ Served(q)

Next ==
    \/ \E q \in Requests : Arrive(q) \/ Step(q) \/ Abort(q)
    \/ \E g \in Grants : Outlive(g)
    \/ Tick

Spec == Init /\ [][Next]_vars

-----------------------------------------------------------------------------
(* Properties *)

TypeOK ==
    /\ users \in [Users -> Accounts \cup {NULL}]
    /\ grants \in 0 .. MaxGrants
    /\ refresh \in [Grants -> Row \cup {NULL}]
    /\ access \in [Grants -> Claims \cup {NULL}]
    /\ Given \subseteq 1 .. grants
    /\ blacklist \in [Grants -> Nat]
    /\ phase \in 0 .. TicksPerSecond - 1
    /\ tx \in [Requests -> Tx]
    /\ login \in [Grants -> 0 .. MaxGrants]
    /\ spent \subseteq Grants /\ ended \subseteq Grants /\ revoked \subseteq Given

\* auth_google looks a user up and creates it in two steps; however many first
\* logins of an account overlap, they end with one user.
OneUserPerAccount ==
    \A u, v \in Users : users[u] = users[v] /\ users[u] # NULL => u = v

\* Rotation: a login has at most one refresh token that works, however often
\* and however concurrently its tokens are presented.
OneTokenPerLogin ==
    \A g, h \in Grants :
        refresh[g] # NULL /\ refresh[h] # NULL /\ login[g] = login[h] => g = h

\* A login whose row a logout's DELETE has removed does not come back: a refresh
\* that waits for the row finds it gone and issues no successor.  One that holds
\* the row already when the DELETE takes its snapshot does keep its successor;
\* the DELETE has removed no row of that login then, and it is not in `ended`.
EndedStaysEnded == \A g \in Grants : refresh[g] # NULL => login[g] \notin ended

\* A refresh token that a client was given works until it is presented or a
\* logout of its own user deletes it: no rotation, purge or logout of somebody
\* else's takes it away, however the requests overlap.
GivenTokenWorks ==
    \A g \in Given : refresh[g] = NULL => g \in spent \/ login[g] \in ended

\* The access token of an answered logout is not served to its user again, Redis
\* failures and repeated logouts included, except in the last second of its
\* life: the lifetime of the blacklist entry is rounded down to seconds.
LoggedOutIsRefused ==
    [][\A q \in Requests :
          /\ At(q, {"auth_check"}) /\ tx[q].grant \in revoked
          /\ tx'[q].pc = "served" /\ tx'[q].user # NULL
          => access[tx[q].grant].left < TicksPerSecond]_vars

-----------------------------------------------------------------------------
(* The inductive invariant behind these properties *)

\* Numbers that have not been drawn are used nowhere.
Unused ==
    /\ \A g \in Grants : g > grants => refresh[g] = NULL
    /\ \A g \in 1 .. grants : login[g] \in 1 .. grants
    /\ ended \subseteq 1 .. grants

\* An entry with these ticks left refuses the token of g until its last second.
Outlasts(entry, g) == access[g].left < entry + TicksPerSecond

\* The rows a logout is going to delete are its own user's, as far as they are
\* still there; no grant that is issued meanwhile is among them.
FindsOwn(q) ==
    /\ tx[q].found \subseteq 1 .. grants
    /\ \A g \in tx[q].found : refresh[g] # NULL => refresh[g].user = tx[q].user

\* What a request knows at its next statement.
Own(q) ==
    LET g == tx[q].grant
    IN  /\ At(q, {"login_create"}) => tx[q].account \in Accounts
        /\ At(q, {"login_token", "refresh_rotate", "refresh_purge"}) => tx[q].user \in Users
        /\ At(q, {"refresh_rotate", "refresh_purge"}) =>
              g \in Grants /\ refresh[g] # NULL /\ Free(q, g)
        /\ At(q, {"logout_blacklist", "logout_find", "logout_delete", "auth_check"}) =>
              g \in Given
        /\ At(q, {"logout_blacklist"}) => Outlasts(tx[q].ttl * TicksPerSecond, g)
        /\ At(q, {"logout_find", "logout_delete"}) => Outlasts(blacklist[g], g)
        /\ At(q, {"logout_delete"}) => FindsOwn(q)

\* It holds in every reachable state and implies the invariants above.
Inv ==
    /\ TypeOK /\ Unused
    /\ OneUserPerAccount /\ OneTokenPerLogin /\ EndedStaysEnded /\ GivenTokenWorks
    /\ \A g \in revoked : Outlasts(blacklist[g], g)
    /\ \A q \in Requests : Own(q)
=============================================================================
