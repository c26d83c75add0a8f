--------------------------- MODULE SessionsProofs ---------------------------
(***************************************************************************)
(* Theorems about Sessions, for any sets of requests, accounts and user    *)
(* ids, any bounds and any lifetimes.                                      *)
(***************************************************************************)
EXTENDS Sessions, TLAPS

USE SessionsAssumption, NullAssumption

(* Rounding *)

\* int(): what rounding down to seconds takes away is less than a second.
LEMMA Rounding ==
    ASSUME NEW n \in Nat, NEW d \in Nat \ {0}
    PROVE  n \div d \in Nat /\ n < (n \div d) * d + d
  BY SMT

\* A lifetime of whole seconds is not over within its first second.
LEMMA Lifetime ==
    ASSUME NEW n \in Nat \ {0}, NEW d \in Nat \ {0}, NEW p \in 0 .. d - 1
    PROVE  n * d - p \in Nat
  BY SMT

\* The ticks of a second follow each other within their range.
LEMMA NextPhase ==
    ASSUME NEW d \in Nat \ {0}, NEW p \in 0 .. d - 1
    PROVE  (p + 1) % d \in 0 .. d - 1
  BY SMT

\* Seconds are a natural number of ticks.
LEMMA TicksOf ==
    ASSUME NEW n \in Nat, NEW d \in Nat
    PROVE  n * d \in Nat
  BY SMT

-----------------------------------------------------------------------------
(* Steps that change the request alone *)

\* A slot that is free is described by a record of the right type.
LEMMA IdleInTx == Idle \in Tx
BY DEF Idle, Tx, Stage, Grants

\* A step of one request that changes nothing but its record keeps the invariant
\* when the record is one the request's own clauses allow.
LEMMA LocalStep ==
    ASSUME Inv, NEW q \in Requests, NEW t \in Tx,
           tx' = [tx EXCEPT ![q] = t],
           UNCHANGED <<users, tokens, blacklist, phase, history>>,
           Own(q)'
    PROVE  Inv'
<1>1. TypeOK'
  BY DEF Inv, TypeOK, tokens, history, Given
<1>2. Unused' /\ OneUserPerAccount' /\ OneTokenPerLogin' /\ EndedStaysEnded' /\ GivenTokenWorks'
  BY DEF Inv, Unused, OneUserPerAccount, OneTokenPerLogin, EndedStaysEnded,
         GivenTokenWorks, tokens, history, Given
<1>3. \A g \in revoked' : Outlasts(blacklist[g], g)'
  BY DEF Inv, Outlasts, tokens, history
<1>4. ASSUME NEW p \in Requests
      PROVE  Own(p)'
  <2>1. CASE p = q
    BY <2>1
  <2>2. CASE p # q
    <3>1. tx'[p] = tx[p] /\ tx'[q] = t /\ Own(p)
      BY <2>2 DEF Inv, TypeOK
    <3>2. ASSUME At(p, {"refresh_rotate", "refresh_purge"})
          PROVE  Free(p, tx[p].grant)'
      BY <2>2, <3>1, <3>2 DEF Own, Free, Locks, At
    <3> QED
      BY <3>1, <3>2 DEF Own, FindsOwn, At, Outlasts, Given, tokens
  <2> QED
    BY <2>1, <2>2
<1> QED
  BY <1>1, <1>2, <1>3, <1>4 DEF Inv

\* So does a return to idle: an answer or an abort that changes nothing else.
LEMMA IdleIsOwn ==
    ASSUME Inv, NEW q \in Requests,
           tx' = [tx EXCEPT ![q] = Idle],
           UNCHANGED <<users, tokens, blacklist, phase, history>>
    PROVE  Inv'
<1>1. Own(q)'
  BY DEF Own, At, Idle, Inv, TypeOK
<1> QED
  BY <1>1, IdleInTx, LocalStep

\* auth_google's look-up: what it notes is an account or a user that exists.
LEMMA LoginGetInv ==
    ASSUME Inv, NEW q \in Requests, NEW a \in Accounts, LoginGet(q, a)
    PROVE  Inv'
<1>0. UNCHANGED <<users, tokens, blacklist, phase, history>>
  BY DEF LoginGet
<1>1. CASE tx' = [tx EXCEPT ![q] = [Idle EXCEPT !.pc = "login_create", !.account = a]]
  <2> DEFINE t == [Idle EXCEPT !.pc = "login_create", !.account = a]
  <2>0. t.pc = "login_create" /\ t.account = a
    BY DEF Idle
  <2>1. t \in Tx
    BY IdleInTx DEF Tx, Stage
  <2>2. tx' = [tx EXCEPT ![q] = t] /\ tx'[q] = t
    BY <1>1 DEF Inv, TypeOK
  <2> HIDE DEF t
  <2>3. Own(q)'
    BY <2>0, <2>2 DEF Own, At
  <2> QED
    BY <1>0, <2>1, <2>2, <2>3, LocalStep
<1>2. ASSUME NEW u \in Users,
             tx' = [tx EXCEPT ![q] = [Idle EXCEPT !.pc = "login_token", !.user = u]]
      PROVE  Inv'
  <2> DEFINE t == [Idle EXCEPT !.pc = "login_token", !.user = u]
  <2>0. t.pc = "login_token" /\ t.user = u
    BY DEF Idle
  <2>1. t \in Tx
    BY IdleInTx DEF Tx, Stage
  <2>2. tx' = [tx EXCEPT ![q] = t] /\ tx'[q] = t
    BY <1>2 DEF Inv, TypeOK
  <2> HIDE DEF t
  <2>3. Own(q)'
    BY <2>0, <2>2 DEF Own, At
  <2> QED
    BY <1>0, <2>1, <2>2, <2>3, LocalStep
<1> QED
  BY <1>1, <1>2 DEF LoginGet, Rows

\* SELECT ... FOR UPDATE: the row is there, and nobody else holds its lock.
LEMMA RefreshGetInv ==
    ASSUME Inv, NEW q \in Requests, NEW g \in Grants, RefreshGet(q, g)
    PROVE  Inv'
<1> DEFINE t == [Idle EXCEPT !.pc = IF refresh[g].late THEN "refresh_purge" ELSE "refresh_rotate",
                             !.user = refresh[g].user, !.grant = g]
<1>1. tx' = [tx EXCEPT ![q] = t]
  BY DEF RefreshGet
<1>2. refresh[g] \in Row /\ g \in 0 .. MaxGrants
  BY DEF RefreshGet, Inv, TypeOK, Grants
<1>3. t \in Tx
  BY <1>2 DEF Idle, Tx, Stage, Row
<1>4. tx'[q] = t
  BY <1>1 DEF Inv, TypeOK
<1>5. Free(q, g)'
  BY <1>1, <1>4 DEF RefreshGet, Free, Locks, At, Inv, TypeOK
<1>6. Own(q)'
  BY <1>2, <1>4, <1>5 DEF Own, At, Idle, Row, RefreshGet, tokens
<1> QED
  BY <1>1, <1>3, <1>6, LocalStep DEF RefreshGet

\* The lifetime a logout computes, or its skipping of the entry at 0, is enough.
LEMMA LogoutDecodeInv ==
    ASSUME Inv, NEW q \in Requests, NEW g \in Grants, LogoutDecode(q, g)
    PROVE  Inv'
<1> DEFINE t == [Idle EXCEPT !.pc = IF Ttl(g) > 0 THEN "logout_blacklist" ELSE "logout_find",
                             !.user = access[g].user, !.grant = g,
                             !.ttl = IF Ttl(g) > 0 THEN Ttl(g) ELSE 0]
<1>1. tx' = [tx EXCEPT ![q] = t]
  BY DEF LogoutDecode
<1>2. access[g] \in Claims /\ g \in Given /\ g \in 0 .. MaxGrants /\ blacklist[g] \in Nat
  BY DEF LogoutDecode, Given, Inv, TypeOK, Grants
<1>3. Ttl(g) \in Nat /\ access[g].left < Ttl(g) * TicksPerSecond + TicksPerSecond
  BY <1>2, Rounding DEF Ttl, Claims
<1>4. t \in Tx
  BY <1>2, <1>3 DEF Idle, Tx, Stage, Claims
<1>5. tx'[q] = t
  BY <1>1 DEF Inv, TypeOK
<1>6. ASSUME Ttl(g) > 0
      PROVE  Own(q)'
  <2>1. tx'[q].pc = "logout_blacklist" /\ tx'[q].grant = g /\ tx'[q].ttl = Ttl(g)
    BY <1>5, <1>6 DEF Idle
  <2> QED
    BY <2>1, <1>2, <1>3 DEF Own, At, Outlasts, LogoutDecode, tokens, Given
<1>7. ASSUME Ttl(g) = 0
      PROVE  Own(q)'
  <2>1. tx'[q].pc = "logout_find" /\ tx'[q].grant = g
    BY <1>5, <1>7 DEF Idle
  <2>2. access[g].left < blacklist[g] + TicksPerSecond
    BY <1>2, <1>3, <1>7 DEF Claims
  <2> QED
    BY <2>1, <2>2, <1>2 DEF Own, At, Outlasts, LogoutDecode, tokens, Given
<1>8. Own(q)'
  BY <1>3, <1>6, <1>7
<1> QED
  BY <1>1, <1>4, <1>8, LocalStep DEF LogoutDecode

\* The snapshot of the DELETE is just noted.
LEMMA LogoutFindInv ==
    ASSUME Inv, NEW q \in Requests, LogoutFind(q)
    PROVE  Inv'
<1> DEFINE F == {g \in Grants : refresh[g] # NULL /\ refresh[g].user = tx[q].user}
           t == [tx[q] EXCEPT !.pc = "logout_delete", !.found = F]
<1>1. tx[q] \in Tx /\ tx' = [tx EXCEPT ![q] = t]
  BY DEF LogoutFind, Inv, TypeOK
<1>2. t \in Tx
  BY <1>1 DEF Tx, Stage
<1>3. /\ tx'[q] = t /\ t.pc = "logout_delete" /\ t.grant = tx[q].grant
      /\ t.user = tx[q].user /\ t.found = F
  BY <1>1 DEF Inv, TypeOK, Tx
<1>4. \A g \in F : g \in 1 .. grants /\ refresh[g].user = tx[q].user
  BY DEF Inv, TypeOK, Unused, Grants
<1> HIDE DEF t, F
<1>5. UNCHANGED <<grants, refresh, access, blacklist>>
  BY DEF LogoutFind, tokens
<1>6. FindsOwn(q)'
  BY <1>3, <1>4, <1>5 DEF FindsOwn
<1>7. tx[q].grant \in Given /\ Outlasts(blacklist[tx[q].grant], tx[q].grant)
  BY DEF LogoutFind, At, Inv, Own
<1>8. Own(q)'
  BY <1>3, <1>5, <1>6, <1>7 DEF Own, At, Outlasts, Given
<1> QED
  BY <1>1, <1>2, <1>8, LocalStep DEF LogoutFind, t, F

\* A token that decodes is one that was given.
LEMMA AuthDecodeInv ==
    ASSUME Inv, NEW q \in Requests, NEW g \in Grants, AuthDecode(q, g)
    PROVE  Inv'
<1> DEFINE t == [Idle EXCEPT !.pc = "auth_check", !.grant = g]
<1>1. tx' = [tx EXCEPT ![q] = t] /\ g \in 0 .. MaxGrants
  BY DEF AuthDecode, Grants
<1>2. t \in Tx /\ tx'[q] = t
  BY <1>1 DEF Idle, Tx, Stage, Inv, TypeOK
<1>3. Own(q)'
  BY <1>2 DEF Own, At, Idle, AuthDecode, tokens, Given
<1> QED
  BY <1>1, <1>2, <1>3, LocalStep DEF AuthDecode

\* The user an endpoint is served for is the one of the token's claims.
LEMMA AuthPassInv ==
    ASSUME Inv, NEW q \in Requests, AuthPass(q)
    PROVE  Inv'
<1> DEFINE t == [tx[q] EXCEPT !.pc = "served", !.user = access[tx[q].grant].user]
<1>1. tx[q] \in Tx /\ tx' = [tx EXCEPT ![q] = t]
  BY DEF AuthPass, Inv, TypeOK
<1>2. access[tx[q].grant] \in Claims
  BY DEF AuthPass, Inv, Own, At, Given, TypeOK
<1>3. t \in Tx /\ tx'[q] = t
  BY <1>1, <1>2 DEF Tx, Stage, Claims, Inv, TypeOK
<1>4. t.pc = "served"
  BY <1>1 DEF Tx
<1> HIDE DEF t
<1>5. Own(q)'
  BY <1>3, <1>4 DEF Own, At
<1> QED
  BY <1>1, <1>3, <1>5, LocalStep DEF AuthPass, t

\* A refusal goes back to idle or on as a guest.
LEMMA AuthRefuseInv ==
    ASSUME Inv, NEW q \in Requests, AuthRefuse(q)
    PROVE  Inv'
<1>1. CASE tx' = [tx EXCEPT ![q] = Idle]
  BY <1>1, IdleIsOwn DEF AuthRefuse
<1>2. CASE tx' = [tx EXCEPT ![q] = [Idle EXCEPT !.pc = "served"]]
  <2>1. [Idle EXCEPT !.pc = "served"] \in Tx
    BY DEF Idle, Tx, Stage
  <2>2. Own(q)'
    BY <1>2 DEF Own, At, Idle, Inv, TypeOK
  <2> QED
    BY <1>2, <2>1, <2>2, LocalStep DEF AuthRefuse
<1> QED
  BY <1>1, <1>2 DEF AuthRefuse

\* The steps that end a request and change nothing else.
LEMMA ReturnInv ==
    ASSUME Inv, NEW q \in Requests, LoginRefused(q) \/ Served(q) \/ Abort(q)
    PROVE  Inv'
BY IdleIsOwn DEF LoginRefused, Served, Abort

-----------------------------------------------------------------------------
(* Steps that end a request and change tables or Redis *)

\* When a request goes back to idle, the others keep their records and locks.
LEMMA OthersKeep ==
    ASSUME Inv, NEW q \in Requests, tx' = [tx EXCEPT ![q] = Idle]
    PROVE  /\ tx' \in [Requests -> Tx]
           /\ Own(q)'
           /\ \A p \in Requests \ {q} :
                 /\ tx'[p] = tx[p] /\ Own(p)
                 /\ At(p, {"refresh_rotate", "refresh_purge"}) => Free(p, tx[p].grant)'
<1>1. tx' \in [Requests -> Tx] /\ tx'[q] = Idle
  BY IdleInTx DEF Inv, TypeOK
<1>2. Own(q)'
  BY <1>1 DEF Own, At, Idle
<1>3. ASSUME NEW p \in Requests \ {q}
      PROVE  tx'[p] = tx[p] /\ Own(p)
  BY DEF Inv, TypeOK
<1>4. ASSUME NEW p \in Requests \ {q}, At(p, {"refresh_rotate", "refresh_purge"})
      PROVE  Free(p, tx[p].grant)'
  <2>1. Free(p, tx[p].grant)
    BY <1>3, <1>4 DEF Own
  <2>2. ASSUME NEW r \in Requests \ {p}
        PROVE  ~Locks(r, tx[p].grant)'
    <3>1. CASE r = q
      BY <3>1, <1>1 DEF Locks, At, Idle
    <3>2. CASE r # q
      BY <3>2, <1>3, <2>1 DEF Free, Locks, At
    <3> QED
      BY <3>1, <3>2
  <2> QED
    BY <2>2, <1>3 DEF Free
<1> QED
  BY <1>1, <1>2, <1>3, <1>4

\* Rows of grants issued before are gone, or were there and keep their user.
OldRowsKept ==
    /\ 1 .. grants \subseteq 1 .. grants'
    /\ \A g \in 1 .. grants :
          refresh'[g] # NULL => refresh[g] # NULL /\ refresh'[g].user = refresh[g].user

\* A request that ends may delete rows that nobody else has locked, and give away
\* a new token: what the others know stays true.
LEMMA OwnKept ==
    ASSUME Inv, NEW q \in Requests, tx' = [tx EXCEPT ![q] = Idle],
           \A g \in Grants : refresh[g] # NULL /\ refresh'[g] = NULL => Free(q, g),
           OldRowsKept,
           \A g \in Given : /\ g \in Given' /\ access'[g] = access[g]
                            /\ Outlasts(blacklist[g], g) => Outlasts(blacklist[g], g)'
    PROVE  \A p \in Requests : Own(p)'
<1> SUFFICES ASSUME NEW p \in Requests \ {q}
             PROVE  Own(p)'
  BY OthersKeep
<1>2. tx'[p] = tx[p] /\ Own(p)
  BY OthersKeep
<1>3. ASSUME At(p, {"refresh_rotate", "refresh_purge"})
      PROVE  refresh'[tx[p].grant] # NULL /\ Free(p, tx[p].grant)'
  <2>1. Free(p, tx[p].grant)'
    BY <1>3, OthersKeep
  <2>2. tx[p].grant \in Grants /\ refresh[tx[p].grant] # NULL
    BY <1>2, <1>3 DEF Own
  <2>3. ~Free(q, tx[p].grant)
    BY <1>3 DEF Free, Locks
  <2> QED
    BY <2>1, <2>2, <2>3
<1>4. ASSUME At(p, {"logout_blacklist"})
      PROVE  Outlasts(tx[p].ttl * TicksPerSecond, tx[p].grant)'
  BY <1>2, <1>4 DEF Own, At, Outlasts
<1>5. ASSUME At(p, {"logout_find", "logout_delete"})
      PROVE  Outlasts(blacklist[tx[p].grant], tx[p].grant)'
  BY <1>2, <1>5 DEF Own, At
<1>6. ASSUME At(p, {"logout_delete"})
      PROVE  FindsOwn(p)'
  BY <1>2, <1>6 DEF Own, FindsOwn, OldRowsKept
<1> QED
  BY <1>2, <1>3, <1>4, <1>5, <1>6 DEF Own, At

\* Deleting an expired token leaves nobody with a lock on a row that is gone.
LEMMA RefreshPurgeInv ==
    ASSUME Inv, NEW q \in Requests, RefreshPurge(q)
    PROVE  Inv'
<1> DEFINE g == tx[q].grant
<1>1. g \in Grants /\ refresh[g] # NULL /\ Free(q, g)
  BY DEF RefreshPurge, At, Inv, Own
<1>2. /\ refresh' = [refresh EXCEPT ![g] = NULL]
      /\ spent' = spent \cup {g}
      /\ tx' = [tx EXCEPT ![q] = Idle]
      /\ UNCHANGED <<users, grants, access, blacklist, phase, login, ended, revoked>>
  BY DEF RefreshPurge
<1> HIDE DEF g
<1>3. TypeOK'
  BY <1>1, <1>2, OthersKeep DEF Inv, TypeOK, Given
<1>4. Unused' /\ OneUserPerAccount' /\ OneTokenPerLogin' /\ EndedStaysEnded'
  BY <1>1, <1>2 DEF Inv, TypeOK, Unused, OneUserPerAccount, OneTokenPerLogin, EndedStaysEnded
<1>5. GivenTokenWorks'
  BY <1>1, <1>2 DEF Inv, TypeOK, GivenTokenWorks, Given
<1>6. \A h \in revoked' : Outlasts(blacklist[h], h)'
  BY <1>2 DEF Inv, Outlasts
<1>7. \A p \in Requests : Own(p)'
  <2>1. \A h \in Grants : refresh[h] # NULL /\ refresh'[h] = NULL => Free(q, h)
    BY <1>1, <1>2 DEF Inv, TypeOK
  <2>2. \A h \in Given : /\ h \in Given' /\ access'[h] = access[h]
                         /\ Outlasts(blacklist[h], h) => Outlasts(blacklist[h], h)'
    BY <1>2 DEF Given, Outlasts
  <2>3. OldRowsKept
    BY <1>1, <1>2 DEF OldRowsKept, Inv, TypeOK, Grants
  <2> QED
    BY <1>2, <2>1, <2>2, <2>3, OwnKept
<1> QED
  BY <1>3, <1>4, <1>5, <1>6, <1>7 DEF Inv

\* logout: only the requests that still have the row's lock have it to lose, and
\* what is left of a login that ends is one token at most, which is deleted.
LEMMA LogoutDeleteInv ==
    ASSUME Inv, NEW q \in Requests, LogoutDelete(q)
    PROVE  Inv'
<1> DEFINE there == {g \in tx[q].found : refresh[g] # NULL}
           own == {g \in there : refresh[g].user = tx[q].user}
           G == tx[q].grant
<1>1. tx[q] \in Tx /\ there \subseteq Grants /\ \A g \in there : refresh[g] # NULL /\ Free(q, g)
  BY DEF LogoutDelete, Inv, TypeOK, Tx
<1>2. /\ refresh' = [g \in Grants |-> IF g \in there THEN NULL ELSE refresh[g]]
      /\ ended' = ended \cup {login[g] : g \in own}
      /\ revoked' \subseteq revoked \cup {G}
      /\ tx' = [tx EXCEPT ![q] = Idle]
      /\ UNCHANGED <<users, grants, access, blacklist, phase, login, spent>>
  BY DEF LogoutDelete
<1>3. G \in Given /\ Outlasts(blacklist[G], G)
  BY DEF LogoutDelete, At, Inv, Own
<1>3a. own = there
  <2>1. FindsOwn(q)
    BY DEF LogoutDelete, At, Inv, Own
  <2> QED
    BY <2>1 DEF FindsOwn
<1> HIDE DEF there, own, G
<1>4. \A g \in there : g \in 1 .. grants /\ login[g] \in 1 .. grants
  BY <1>1 DEF Inv, TypeOK, Unused, Grants
<1>5. TypeOK'
  <2>1. refresh' \in [Grants -> Row \cup {NULL}]
    BY <1>1, <1>2 DEF Inv, TypeOK
  <2>2. 1 .. grants \subseteq Grants
    BY DEF Inv, TypeOK, Grants
  <2>3. ended' \subseteq Grants
    BY <1>2, <1>4, <1>3a, <2>2 DEF Inv, TypeOK
  <2>4. Given' = Given /\ tx' \in [Requests -> Tx]
    BY <1>2, OthersKeep DEF Given
  <2> QED
    BY <1>2, <1>3, <2>1, <2>3, <2>4 DEF Inv, TypeOK
<1>6. Unused' /\ OneUserPerAccount' /\ OneTokenPerLogin'
  <2>1. \A h \in Grants : refresh[h] = NULL => refresh'[h] = NULL
    BY <1>2
  <2>2. Unused'
    BY <1>2, <1>4, <1>3a, <2>1 DEF Inv, Unused
  <2>3. OneUserPerAccount'
    BY <1>2 DEF Inv, OneUserPerAccount
  <2>4. OneTokenPerLogin'
    BY <1>2, <2>1 DEF Inv, OneTokenPerLogin
  <2> QED
    BY <2>2, <2>3, <2>4
<1>7. EndedStaysEnded'
  BY <1>1, <1>2, <1>3a DEF Inv, TypeOK, EndedStaysEnded, OneTokenPerLogin
<1>8. GivenTokenWorks'
  BY <1>1, <1>2, <1>3a DEF Inv, TypeOK, GivenTokenWorks, Given
<1>9. \A h \in revoked' : Outlasts(blacklist[h], h)'
  BY <1>2, <1>3 DEF Inv, Outlasts
<1>10. \A p \in Requests : Own(p)'
  <2>1. \A h \in Grants : refresh[h] # NULL /\ refresh'[h] = NULL => Free(q, h)
    BY <1>1, <1>2
  <2>2. \A h \in Given : /\ h \in Given' /\ access'[h] = access[h]
                         /\ Outlasts(blacklist[h], h) => Outlasts(blacklist[h], h)'
    BY <1>2 DEF Given, Outlasts
  <2>3. 1 .. grants \subseteq Grants
    BY DEF Inv, TypeOK, Grants
  <2>4. OldRowsKept
    BY <1>2, <2>3 DEF OldRowsKept
  <2> QED
    BY <1>2, <2>1, <2>2, <2>4, OwnKept
<1> QED
  BY <1>5, <1>6, <1>7, <1>8, <1>9, <1>10 DEF Inv

-----------------------------------------------------------------------------
(* Steps that issue a grant *)

\* An answer adds the claims of the new grant, or is lost; it changes no others.
LEMMA AnswerAdds ==
    ASSUME Inv, NEW u \in Users, grants + 1 \in Grants, Answer(grants + 1, u)
    PROVE  /\ access' \in [Grants -> Claims \cup {NULL}]
           /\ \A g \in Given : g \in Given' /\ access'[g] = access[g]
           /\ Given' \subseteq Given \cup {grants + 1}
           /\ Given' \subseteq 1 .. grants + 1
<1> DEFINE new == grants + 1
           claims == [user |-> u, left |-> AccessSeconds * TicksPerSecond - phase]
<1>1. new \notin Given /\ Given \subseteq 1 .. grants /\ grants \in Nat
  BY DEF Inv, TypeOK
<1>2. claims \in Claims
  BY Lifetime DEF Claims, Inv, TypeOK
<1>3. CASE access' = access
  BY <1>1, <1>3 DEF Inv, TypeOK, Given
<1>4. CASE access' = [access EXCEPT ![new] = claims]
  <2>1. \A g \in Given : g # new
    BY <1>1
  <2>2. access' \in [Grants -> Claims \cup {NULL}]
    BY <1>2, <1>4 DEF Inv, TypeOK
  <2>3. \A g \in Grants : g # new => access'[g] = access[g]
    BY <1>4 DEF Inv, TypeOK
  <2>4. Given' \subseteq Given \cup {new}
    BY <2>3 DEF Given
  <2> QED
    BY <1>1, <2>1, <2>2, <2>3, <2>4 DEF Given
<1> QED
  BY <1>3, <1>4 DEF Answer

\* The number of a new grant is used by no row, no login and no ended login.
LEMMA NewIsUnused ==
    ASSUME Inv, grants + 1 \in Grants
    PROVE  /\ refresh[grants + 1] = NULL
           /\ \A g \in Grants : refresh[g] # NULL => g \in 1 .. grants /\ login[g] \in 1 .. grants
           /\ grants + 1 \notin 1 .. grants /\ grants + 1 \notin ended
           /\ 1 .. grants \subseteq 1 .. grants + 1
           /\ \A g \in 1 .. grants + 1 : g = grants + 1 \/ g \in 1 .. grants
<1>1. grants \in Nat /\ ended \subseteq 1 .. grants
  BY DEF Inv, TypeOK, Unused
<1>2. \A g \in Grants : g > grants => refresh[g] = NULL
  BY DEF Inv, Unused
<1>3. \A g \in 1 .. grants : login[g] \in 1 .. grants
  BY DEF Inv, Unused
<1> QED
  BY <1>1, <1>2, <1>3 DEF Grants

\* auth_google's last transaction: a login begins with a token of its own.
LEMMA LoginTokenInv ==
    ASSUME Inv, NEW q \in Requests, LoginToken(q)
    PROVE  Inv'
<1> DEFINE g == grants + 1
           row == [user |-> tx[q].user, late |-> FALSE]
<1>1. /\ g \in Grants
      /\ grants' = g
      /\ refresh' = [refresh EXCEPT ![g] = row]
      /\ Answer(g, tx[q].user)
      /\ login' = [login EXCEPT ![g] = g]
      /\ tx' = [tx EXCEPT ![q] = Idle]
      /\ UNCHANGED <<users, blacklist, phase, spent, ended, revoked>>
  BY DEF LoginToken
<1>2. tx[q].user \in Users
  BY DEF LoginToken, At, Inv, Own
<1>3. row \in Row
  BY <1>2 DEF Row
<1>4. row # NULL
  BY <1>3
<1>5. /\ access' \in [Grants -> Claims \cup {NULL}]
      /\ \A h \in Given : h \in Given' /\ access'[h] = access[h]
      /\ Given' \subseteq Given \cup {g}
      /\ Given' \subseteq 1 .. g
  BY <1>1, <1>2, AnswerAdds
<1>6. /\ refresh[g] = NULL
      /\ \A h \in Grants : refresh[h] # NULL => h \in 1 .. grants /\ login[h] \in 1 .. grants
      /\ g \notin 1 .. grants /\ g \notin ended /\ 1 .. grants \subseteq 1 .. g
      /\ \A h \in 1 .. g : h = g \/ h \in 1 .. grants
  BY <1>1, NewIsUnused
<1> HIDE DEF row
<1>7. TypeOK'
  <2>1. tx' \in [Requests -> Tx]
    BY <1>1, OthersKeep
  <2>2. refresh' \in [Grants -> Row \cup {NULL}]
    BY <1>1, <1>3 DEF Inv, TypeOK
  <2>3. grants' \in 0 .. MaxGrants /\ login' \in [Grants -> 0 .. MaxGrants]
    BY <1>1 DEF Inv, TypeOK, Grants
  <2>4. revoked' \subseteq Given'
    BY <1>1, <1>5 DEF Inv, TypeOK
  <2> QED
    BY <1>1, <1>5, <2>1, <2>2, <2>3, <2>4 DEF Inv, TypeOK
<1>8. \A h \in Grants : h # g => refresh'[h] = refresh[h] /\ login'[h] = login[h]
  BY <1>1 DEF Inv, TypeOK
<1>9. refresh'[g] = row /\ login'[g] = g
  BY <1>1 DEF Inv, TypeOK
<1>10. Unused'
  BY <1>1, <1>6, <1>8, <1>9 DEF Inv, TypeOK, Unused, Grants
<1> HIDE DEF g
<1>11. OneUserPerAccount' /\ OneTokenPerLogin' /\ EndedStaysEnded'
  BY <1>1, <1>4, <1>6, <1>8, <1>9 DEF Inv, OneUserPerAccount, OneTokenPerLogin, EndedStaysEnded
<1>12. GivenTokenWorks'
  BY <1>1, <1>4, <1>5, <1>8, <1>9 DEF Inv, GivenTokenWorks, Given
<1>13. \A h \in revoked' : Outlasts(blacklist[h], h)'
  BY <1>1, <1>5 DEF Inv, TypeOK, Outlasts
<1>14. \A p \in Requests : Own(p)'
  <2>1. \A h \in Grants : refresh[h] # NULL /\ refresh'[h] = NULL => Free(q, h)
    BY <1>4, <1>8, <1>9
  <2>2. \A h \in Given : /\ h \in Given' /\ access'[h] = access[h]
                         /\ Outlasts(blacklist[h], h) => Outlasts(blacklist[h], h)'
    BY <1>1, <1>5 DEF Outlasts
  <2>3. 1 .. grants \subseteq Grants
    BY DEF Inv, TypeOK, Grants
  <2>4. OldRowsKept
    BY <1>1, <1>6, <1>8, <2>3 DEF OldRowsKept
  <2> QED
    BY <1>1, <2>1, <2>2, <2>4, OwnKept
<1> QED
  BY <1>7, <1>10, <1>11, <1>12, <1>13, <1>14 DEF Inv

\* refresh: the lock keeps the old row until this request deletes it, so the
\* successor takes the place of the one token its login had.
LEMMA RefreshRotateInv ==
    ASSUME Inv, NEW q \in Requests, RefreshRotate(q)
    PROVE  Inv'
<1> DEFINE g == grants + 1
           old == tx[q].grant
           row == [user |-> tx[q].user, late |-> FALSE]
<1>1. /\ g \in Grants
      /\ grants' = g
      /\ refresh' = [refresh EXCEPT ![old] = NULL, ![g] = row]
      /\ Answer(g, tx[q].user)
      /\ login' = [login EXCEPT ![g] = login[old]]
      /\ spent' = spent \cup {old}
      /\ tx' = [tx EXCEPT ![q] = Idle]
      /\ UNCHANGED <<users, blacklist, phase, ended, revoked>>
  BY DEF RefreshRotate
<1>2. tx[q].user \in Users /\ old \in Grants /\ refresh[old] # NULL /\ Free(q, old)
  BY DEF RefreshRotate, At, Inv, Own
<1>3. row \in Row
  BY <1>2 DEF Row
<1>4. row # NULL
  BY <1>3
<1>5. /\ access' \in [Grants -> Claims \cup {NULL}]
      /\ \A h \in Given : h \in Given' /\ access'[h] = access[h]
      /\ Given' \subseteq Given \cup {g}
      /\ Given' \subseteq 1 .. g
  BY <1>1, <1>2, AnswerAdds
<1>6. /\ refresh[g] = NULL
      /\ \A h \in Grants : refresh[h] # NULL => h \in 1 .. grants /\ login[h] \in 1 .. grants
      /\ g \notin 1 .. grants /\ g \notin ended /\ 1 .. grants \subseteq 1 .. g
      /\ \A h \in 1 .. g : h = g \/ h \in 1 .. grants
  BY <1>1, NewIsUnused
<1> HIDE DEF row, old
<1>7. old # g
  BY <1>2, <1>6
<1>8. TypeOK'
  <2>1. tx' \in [Requests -> Tx]
    BY <1>1, OthersKeep
  <2>2. refresh' \in [Grants -> Row \cup {NULL}]
    BY <1>1, <1>2, <1>3 DEF Inv, TypeOK
  <2>3. login[old] \in 0 .. MaxGrants
    BY <1>2 DEF Inv, TypeOK
  <2>4. grants' \in 0 .. MaxGrants /\ login' \in [Grants -> 0 .. MaxGrants]
    BY <1>1, <2>3 DEF Inv, TypeOK, Grants
  <2>5. revoked' \subseteq Given' /\ spent' \subseteq Grants
    BY <1>1, <1>2, <1>5 DEF Inv, TypeOK
  <2> QED
    BY <1>1, <1>5, <2>1, <2>2, <2>4, <2>5 DEF Inv, TypeOK
<1>9. \A h \in Grants : /\ h # g => login'[h] = login[h]
                        /\ h # g /\ h # old => refresh'[h] = refresh[h]
  BY <1>1 DEF Inv, TypeOK
<1>10. refresh'[g] = row /\ refresh'[old] = NULL /\ login'[g] = login[old]
  BY <1>1, <1>2, <1>7 DEF Inv, TypeOK
<1>11. Unused'
  <2>1. \A h \in Grants : h > grants' => refresh'[h] = NULL
    BY <1>1, <1>2, <1>6, <1>9 DEF Inv, TypeOK, Unused, Grants
  <2>2. ASSUME NEW h \in 1 .. g
        PROVE  login'[h] \in 1 .. g
    <3>1. CASE h = g
      BY <1>2, <1>6, <1>10, <3>1
    <3>2. CASE h \in 1 .. grants
      <4>1. h \in Grants /\ h # g /\ login[h] \in 1 .. grants
        BY <1>6, <3>2 DEF Inv, TypeOK, Unused, Grants
      <4> QED
        BY <1>6, <1>9, <4>1
    <3> QED
      BY <1>6, <3>1, <3>2
  <2>3. ended' \subseteq 1 .. g
    BY <1>1, <1>6 DEF Inv, Unused
  <2> QED
    BY <1>1, <2>1, <2>2, <2>3 DEF Unused
<1> HIDE DEF g
<1>12. OneUserPerAccount' /\ OneTokenPerLogin' /\ EndedStaysEnded'
  <2>1. OneUserPerAccount'
    BY <1>1 DEF Inv, OneUserPerAccount
  <2>2. ASSUME NEW h \in Grants, h # g, refresh'[h] # NULL
        PROVE  refresh[h] # NULL /\ login'[h] = login[h] /\ login[h] # login[old]
    BY <1>2, <1>9, <1>10, <2>2 DEF Inv, OneTokenPerLogin
  <2>3. OneTokenPerLogin'
    BY <1>10, <2>2 DEF Inv, OneTokenPerLogin
  <2>4. ended' = ended /\ \A h \in Grants : refresh[h] # NULL => login[h] \notin ended
    BY <1>1 DEF Inv, EndedStaysEnded
  <2>5. login'[g] \notin ended
    BY <1>2, <1>10, <2>4
  <2>6. EndedStaysEnded'
    BY <2>2, <2>4, <2>5 DEF EndedStaysEnded
  <2> QED
    BY <2>1, <2>3, <2>6
<1>13. GivenTokenWorks'
  BY <1>1, <1>4, <1>5, <1>9, <1>10 DEF Inv, GivenTokenWorks, Given
<1>14. \A h \in revoked' : Outlasts(blacklist[h], h)'
  BY <1>1, <1>5 DEF Inv, TypeOK, Outlasts
<1>15. \A p \in Requests : Own(p)'
  <2>1. \A h \in Grants : refresh[h] # NULL /\ refresh'[h] = NULL => Free(q, h)
    BY <1>2, <1>4, <1>9, <1>10
  <2>2. \A h \in Given : /\ h \in Given' /\ access'[h] = access[h]
                         /\ Outlasts(blacklist[h], h) => Outlasts(blacklist[h], h)'
    BY <1>1, <1>5 DEF Outlasts
  <2>3. 1 .. grants \subseteq Grants
    BY DEF Inv, TypeOK, Grants
  <2>4. OldRowsKept
    BY <1>1, <1>6, <1>9, <1>10, <2>3 DEF OldRowsKept
  <2> QED
    BY <1>1, <2>1, <2>2, <2>4, OwnKept
<1> QED
  BY <1>8, <1>11, <1>12, <1>13, <1>14, <1>15 DEF Inv

-----------------------------------------------------------------------------
(* The other steps *)

\* auth_google's second transaction: the unique constraint was in its way if the
\* account had a row by then.
LEMMA LoginCreateInv ==
    ASSUME Inv, NEW q \in Requests, LoginCreate(q)
    PROVE  Inv'
<1> DEFINE a == tx[q].account
<1>1. a \in Accounts /\ tx[q] \in Tx /\ \A v \in Users : users[v] # a
  BY DEF LoginCreate, Rows, At, Inv, Own, TypeOK
<1>2. PICK u \in Users :
         /\ users[u] = NULL
         /\ users' = [users EXCEPT ![u] = a]
         /\ tx' = [tx EXCEPT ![q].pc = "login_token", ![q].user = u]
  BY DEF LoginCreate
<1>3. UNCHANGED <<tokens, blacklist, phase, history>>
  BY DEF LoginCreate
<1> DEFINE t == [tx[q] EXCEPT !.pc = "login_token", !.user = u]
<1>4. t \in Tx
  BY <1>1 DEF Tx, Stage
<1>5. t.pc = "login_token" /\ t.user = u
  BY <1>1 DEF Tx
<1>6. tx' = [tx EXCEPT ![q] = t]
  BY <1>2
<1> HIDE DEF t, a
<1>7. TypeOK'
  <2>1. users' \in [Users -> Accounts \cup {NULL}]
    BY <1>1, <1>2 DEF Inv, TypeOK
  <2>2. tx' \in [Requests -> Tx]
    BY <1>4, <1>6 DEF Inv, TypeOK
  <2>3. Given' = Given
    BY <1>3 DEF Given, tokens
  <2> QED
    BY <1>3, <2>1, <2>2, <2>3 DEF Inv, TypeOK, tokens, history
<1>8. OneUserPerAccount'
  BY <1>1, <1>2 DEF Inv, TypeOK, OneUserPerAccount
<1>9. Unused' /\ OneTokenPerLogin' /\ EndedStaysEnded' /\ GivenTokenWorks'
  BY <1>3 DEF Inv, Unused, OneTokenPerLogin, EndedStaysEnded, GivenTokenWorks, Given, tokens, history
<1>10. \A g \in revoked' : Outlasts(blacklist[g], g)'
  BY <1>3 DEF Inv, Outlasts, tokens, history
<1>11. ASSUME NEW p \in Requests
       PROVE  Own(p)'
  <2>1. CASE p = q
    BY <1>5, <1>6, <2>1 DEF Own, At, Inv, TypeOK
  <2>2. CASE p # q
    <3>1. tx'[p] = tx[p] /\ tx'[q] = t /\ Own(p)
      BY <1>6, <2>2 DEF Inv, TypeOK
    <3>2. ASSUME At(p, {"refresh_rotate", "refresh_purge"})
          PROVE  Free(p, tx[p].grant)'
      BY <1>5, <1>6, <3>1, <3>2 DEF Own, Free, Locks, At, Inv, TypeOK
    <3> QED
      BY <1>3, <3>1, <3>2 DEF Own, FindsOwn, At, Outlasts, Given, tokens
  <2> QED
    BY <2>1, <2>2
<1> QED
  BY <1>7, <1>8, <1>9, <1>10, <1>11 DEF Inv

\* The entry a logout sets is enough for the token it is about, whatever entry
\* an earlier logout with the same token has left.
LEMMA EntryOutlasts ==
    ASSUME Inv, NEW q \in Requests, At(q, {"logout_blacklist"})
    PROVE  /\ tx[q].grant \in Given
           /\ Entry(q) \in [Grants -> Nat]
           /\ Outlasts(Entry(q)[tx[q].grant], tx[q].grant)
           /\ \A g \in Given : Outlasts(blacklist[g], g) => Outlasts(Entry(q)[g], g)
<1> DEFINE g == tx[q].grant
           n == tx[q].ttl * TicksPerSecond
<1>1. g \in Given /\ g \in Grants /\ Outlasts(n, g)
  BY DEF Inv, Own, At, Given
<1>2. tx[q].ttl \in Nat
  BY DEF Inv, TypeOK, Tx
<1>3. n \in Nat
  BY <1>2, TicksOf
<1> HIDE DEF n, g
<1>4. blacklist \in [Grants -> Nat] /\ Entry(q) = [blacklist EXCEPT ![g] = n]
  BY DEF Entry, Inv, TypeOK, n, g
<1>5. Entry(q) \in [Grants -> Nat] /\ Entry(q)[g] = n
  BY <1>1, <1>3, <1>4
<1>6. \A h \in Grants : h # g => Entry(q)[h] = blacklist[h]
  BY <1>4
<1> QED
  BY <1>1, <1>5, <1>6 DEF g, Given

\* SET bl:{jti} has been answered; the request goes on.
LEMMA LogoutBlacklistInv ==
    ASSUME Inv, NEW q \in Requests, LogoutBlacklist(q)
    PROVE  Inv'
<1> DEFINE t == [tx[q] EXCEPT !.pc = "logout_find"]
<1>1. /\ blacklist' = Entry(q)
      /\ tx' = [tx EXCEPT ![q] = t]
      /\ UNCHANGED <<users, tokens, phase, history>>
      /\ At(q, {"logout_blacklist"}) /\ tx[q] \in Tx
  BY DEF LogoutBlacklist, Inv, TypeOK
<1>2. t \in Tx /\ t.pc = "logout_find" /\ t.grant = tx[q].grant
  BY <1>1 DEF Tx, Stage
<1> HIDE DEF t
<1>3. /\ tx[q].grant \in Given
      /\ Entry(q) \in [Grants -> Nat]
      /\ Outlasts(Entry(q)[tx[q].grant], tx[q].grant)
      /\ \A g \in Given : Outlasts(blacklist[g], g) => Outlasts(Entry(q)[g], g)
  BY <1>1, EntryOutlasts
<1>4. TypeOK'
  BY <1>1, <1>2, <1>3 DEF Inv, TypeOK, Given, tokens, history
<1>5. Unused' /\ OneUserPerAccount' /\ OneTokenPerLogin' /\ EndedStaysEnded' /\ GivenTokenWorks'
  BY <1>1 DEF Inv, Unused, OneUserPerAccount, OneTokenPerLogin, EndedStaysEnded, GivenTokenWorks,
              Given, tokens, history
<1>6. \A g \in Given : Outlasts(blacklist[g], g) => Outlasts(blacklist[g], g)'
  BY <1>1, <1>3 DEF Outlasts, tokens
<1>7. \A g \in revoked' : Outlasts(blacklist[g], g)'
  BY <1>1, <1>6 DEF Inv, TypeOK, history
<1>8. ASSUME NEW p \in Requests
      PROVE  Own(p)'
  <2>1. CASE p = q
    <3>1. tx'[p].pc = "logout_find" /\ tx'[p].grant = tx[q].grant
      BY <1>1, <1>2, <2>1 DEF Inv, TypeOK
    <3>2. Outlasts(blacklist[tx[p].grant], tx[p].grant)'
      BY <1>1, <1>3, <3>1 DEF Outlasts, tokens
    <3> QED
      BY <1>1, <1>3, <3>1, <3>2 DEF Own, At, Given, tokens
  <2>2. CASE p # q
    <3>1. tx'[p] = tx[p] /\ tx'[q] = t /\ Own(p)
      BY <1>1, <2>2 DEF Inv, TypeOK
    <3>2. ASSUME At(p, {"refresh_rotate", "refresh_purge"})
          PROVE  Free(p, tx[p].grant)'
      BY <1>1, <1>2, <3>1, <3>2 DEF Own, Free, Locks, At, Inv, TypeOK
    <3>3. ASSUME At(p, {"logout_blacklist"})
          PROVE  Outlasts(tx[p].ttl * TicksPerSecond, tx[p].grant)'
      BY <1>1, <3>1, <3>3 DEF Own, Outlasts, At, tokens
    <3>4. ASSUME At(p, {"logout_find", "logout_delete"})
          PROVE  Outlasts(blacklist[tx[p].grant], tx[p].grant)'
      BY <1>6, <3>1, <3>4 DEF Own, At
    <3> QED
      BY <1>1, <3>1, <3>2, <3>3, <3>4 DEF Own, FindsOwn, At, Given, tokens
  <2> QED
    BY <2>1, <2>2
<1> QED
  BY <1>4, <1>5, <1>7, <1>8 DEF Inv

\* A Redis that does not answer may have set the entry, and that does no harm.
LEMMA LogoutRedisDownInv ==
    ASSUME Inv, NEW q \in Requests, LogoutRedisDown(q)
    PROVE  Inv'
<1>1. /\ At(q, {"logout_blacklist"})
      /\ blacklist' \in {blacklist, Entry(q)}
      /\ tx' = [tx EXCEPT ![q] = Idle]
      /\ UNCHANGED <<users, tokens, phase, history>>
  BY DEF LogoutRedisDown
<1>2. /\ Entry(q) \in [Grants -> Nat]
      /\ \A g \in Given : Outlasts(blacklist[g], g) => Outlasts(Entry(q)[g], g)
  BY <1>1, EntryOutlasts
<1>3. TypeOK'
  BY <1>1, <1>2, OthersKeep DEF Inv, TypeOK, Given, tokens, history
<1>4. Unused' /\ OneUserPerAccount' /\ OneTokenPerLogin' /\ EndedStaysEnded' /\ GivenTokenWorks'
  BY <1>1 DEF Inv, Unused, OneUserPerAccount, OneTokenPerLogin, EndedStaysEnded, GivenTokenWorks,
              Given, tokens, history
<1>5. \A g \in Given : Outlasts(blacklist[g], g) => Outlasts(blacklist[g], g)'
  BY <1>1, <1>2 DEF Outlasts, tokens
<1>6. \A g \in revoked' : Outlasts(blacklist[g], g)'
  BY <1>1, <1>5 DEF Inv, TypeOK, history
<1>7. \A p \in Requests : Own(p)'
  <2>1. refresh' = refresh /\ access' = access
    BY <1>1 DEF tokens
  <2>2. \A g \in Given : g \in Given' /\ access'[g] = access[g]
    BY <2>1 DEF Given
  <2>3. grants' = grants
    BY <1>1 DEF tokens
  <2>4. OldRowsKept
    BY <2>1, <2>3 DEF OldRowsKept
  <2> QED
    BY <1>1, <1>5, <2>1, <2>2, <2>4, OwnKept
<1> QED
  BY <1>3, <1>4, <1>6, <1>7 DEF Inv

\* A second of the token's life and one of its entry's pass together.
LEMMA TickInv ==
    ASSUME Inv, Tick
    PROVE  Inv'
<1>1. /\ phase' = (phase + 1) % TicksPerSecond
      /\ access' = [g \in Grants |->
                       IF g \in Given THEN [access[g] EXCEPT !.left = Less(@)] ELSE NULL]
      /\ blacklist' = [g \in Grants |-> Less(blacklist[g])]
      /\ revoked' \subseteq revoked
      /\ UNCHANGED <<users, grants, refresh, tx, login, spent, ended>>
  BY DEF Tick
<1>2. \A n \in Nat : Less(n) \in Nat /\ Less(n) <= n
  BY DEF Less
<1>3. ASSUME NEW g \in Given
      PROVE  /\ access[g] \in Claims
             /\ access'[g] \in Claims
             /\ access'[g].left = Less(access[g].left)
  <2>1. g \in Grants /\ access[g] \in Claims
    BY DEF Given, Inv, TypeOK
  <2>2. access'[g] = [access[g] EXCEPT !.left = Less(@)]
    BY <1>1, <2>1
  <2>3. Less(access[g].left) \in Nat
    BY <1>2, <2>1 DEF Claims
  <2> QED
    BY <2>1, <2>2, <2>3 DEF Claims
<1>4. Given' = Given
  <2>1. \A g \in Given : access'[g] # NULL
    BY <1>3
  <2>2. \A g \in Grants : g \notin Given => access'[g] = NULL
    BY <1>1
  <2> QED
    BY <2>1, <2>2 DEF Given
<1>5. access' \in [Grants -> Claims \cup {NULL}]
  BY <1>1, <1>3
<1>6. blacklist \in [Grants -> Nat] /\ blacklist' \in [Grants -> Nat]
  BY <1>1, <1>2 DEF Inv, TypeOK
<1>7. phase' \in 0 .. TicksPerSecond - 1
  BY <1>1, NextPhase DEF Inv, TypeOK
<1>8. TypeOK'
  BY <1>1, <1>4, <1>5, <1>6, <1>7 DEF Inv, TypeOK
<1>9. ASSUME NEW g \in Given, NEW n \in Nat, Outlasts(n, g)
      PROVE  /\ access'[g].left < n + TicksPerSecond
             /\ access'[g].left < Less(n) + TicksPerSecond
  BY <1>3, <1>9 DEF Outlasts, Less, Claims
<1>10. ASSUME NEW g \in Given, Outlasts(blacklist[g], g)
       PROVE  Outlasts(blacklist[g], g)'
  <2>1. g \in Grants /\ blacklist[g] \in Nat
    BY <1>6 DEF Given
  <2>2. blacklist'[g] = Less(blacklist[g])
    BY <1>1, <2>1
  <2>3. access'[g].left < Less(blacklist[g]) + TicksPerSecond
    BY <1>9, <1>10, <2>1
  <2> QED
    BY <2>2, <2>3 DEF Outlasts
<1>11. Unused' /\ OneUserPerAccount' /\ OneTokenPerLogin' /\ EndedStaysEnded' /\ GivenTokenWorks'
  BY <1>1, <1>4 DEF Inv, Unused, OneUserPerAccount, OneTokenPerLogin, EndedStaysEnded, GivenTokenWorks
<1>12. \A g \in revoked' : Outlasts(blacklist[g], g)'
  BY <1>1, <1>10 DEF Inv, TypeOK
<1>13. ASSUME NEW p \in Requests
       PROVE  Own(p)'
  <2>1. tx' = tx /\ refresh' = refresh /\ Own(p) /\ tx[p] \in Tx
    BY <1>1 DEF Inv, TypeOK
  <2>2. ASSUME At(p, {"logout_blacklist"})
        PROVE  Outlasts(tx[p].ttl * TicksPerSecond, tx[p].grant)'
    <3>1. tx[p].ttl * TicksPerSecond \in Nat
      BY <2>1, TicksOf DEF Tx
    <3>2. tx[p].grant \in Given /\ Outlasts(tx[p].ttl * TicksPerSecond, tx[p].grant)
      BY <2>1, <2>2 DEF Own, At
    <3>3. \A g \in Given, n \in Nat : Outlasts(n, g) => access'[g].left < n + TicksPerSecond
      BY <1>9
    <3> QED
      BY <2>1, <3>1, <3>2, <3>3 DEF Outlasts
  <2>3. ASSUME At(p, {"logout_find", "logout_delete"})
        PROVE  Outlasts(blacklist[tx[p].grant], tx[p].grant)'
    <3>1. tx[p].grant \in Given /\ Outlasts(blacklist[tx[p].grant], tx[p].grant)
      BY <2>1, <2>3 DEF Own, At
    <3> QED
      BY <1>10, <2>1, <3>1 DEF Outlasts
  <2>4. \A g \in Grants : Free(p, g)' <=> Free(p, g)
    BY <2>1 DEF Free, Locks, At
  <2>5. ASSUME At(p, {"logout_delete"})
        PROVE  FindsOwn(p)'
    BY <1>1, <2>1, <2>5 DEF Own, FindsOwn
  <2> QED
    BY <1>4, <2>1, <2>2, <2>3, <2>4, <2>5 DEF Own, At
<1> QED
  BY <1>8, <1>11, <1>12, <1>13 DEF Inv

\* A token that grows old is still there, and still its owner's.
LEMMA OutliveInv ==
    ASSUME Inv, NEW g \in Grants, Outlive(g)
    PROVE  Inv'
<1>1. /\ refresh[g] # NULL
      /\ refresh' = [refresh EXCEPT ![g].late = TRUE]
      /\ UNCHANGED <<users, grants, access, blacklist, phase, tx, history>>
  BY DEF Outlive
<1>2. refresh[g] \in Row
  BY <1>1 DEF Inv, TypeOK
<1>3. [refresh[g] EXCEPT !.late = TRUE] \in Row
  BY <1>2 DEF Row
<1>4. [refresh[g] EXCEPT !.late = TRUE] # NULL
  BY <1>3
<1>5. refresh' \in [Grants -> Row \cup {NULL}] /\ \A h \in Grants : refresh'[h] = NULL <=> refresh[h] = NULL
  BY <1>1, <1>3, <1>4 DEF Inv, TypeOK
<1>6. TypeOK'
  BY <1>1, <1>5 DEF Inv, TypeOK, Given, history
<1>7. Unused' /\ OneUserPerAccount' /\ OneTokenPerLogin' /\ EndedStaysEnded' /\ GivenTokenWorks'
  BY <1>1, <1>5 DEF Inv, Unused, OneUserPerAccount, OneTokenPerLogin, EndedStaysEnded,
                    GivenTokenWorks, Given, history
<1>8. \A h \in revoked' : Outlasts(blacklist[h], h)'
  BY <1>1 DEF Inv, Outlasts, history
<1>9. ASSUME NEW p \in Requests, At(p, {"logout_delete"})
      PROVE  FindsOwn(p)'
  <2>1. FindsOwn(p) /\ tx' = tx /\ grants' = grants /\ tx[p].found \subseteq Grants
    BY <1>1, <1>9 DEF Inv, Own, TypeOK, Tx
  <2>2. refresh'[g].user = refresh[g].user
    BY <1>1, <1>2 DEF Row, Inv, TypeOK
  <2>3. \A h \in Grants : refresh'[h] # NULL => refresh[h] # NULL /\ refresh'[h].user = refresh[h].user
    BY <1>1, <1>5, <2>2 DEF Inv, TypeOK
  <2> QED
    BY <2>1, <2>3 DEF FindsOwn
<1>10. \A p \in Requests : Own(p)'
  BY <1>1, <1>5, <1>9 DEF Inv, Own, At, Outlasts, Given, Free, Locks
<1> QED
  BY <1>6, <1>7, <1>8, <1>10 DEF Inv

-----------------------------------------------------------------------------
(* Theorems *)

\* An empty database, an empty Redis and no request satisfy the invariant.
LEMMA InitInv == Init => Inv
<1> SUFFICES ASSUME Init PROVE Inv
  OBVIOUS
<1>1. TypeOK
  BY IdleInTx DEF Init, TypeOK, Given, Grants
<1>2. Unused /\ OneUserPerAccount /\ OneTokenPerLogin /\ EndedStaysEnded /\ GivenTokenWorks
  BY DEF Init, Unused, OneUserPerAccount, OneTokenPerLogin, EndedStaysEnded, GivenTokenWorks, Given, Grants
<1>3. \A q \in Requests : Own(q)
  BY DEF Init, Own, At, Idle
<1> QED
  BY <1>1, <1>2, <1>3 DEF Init, Inv

\* Every step of every request, and of time, keeps it.
LEMMA StepInv == Inv /\ [Next]_vars => Inv'
<1> SUFFICES ASSUME Inv, [Next]_vars PROVE Inv'
  OBVIOUS
<1>1. CASE UNCHANGED vars
  BY <1>1 DEF vars, tokens, history, Inv, TypeOK, Given, Unused, OneUserPerAccount, OneTokenPerLogin,
              EndedStaysEnded, GivenTokenWorks, Outlasts, Own, FindsOwn, At, Free, Locks
<1>2. ASSUME NEW q \in Requests, Arrive(q)
      PROVE  Inv'
  BY <1>2, LoginGetInv, RefreshGetInv, LogoutDecodeInv, AuthDecodeInv DEF Arrive
<1>3. ASSUME NEW q \in Requests, Step(q)
      PROVE  Inv'
  BY <1>3, LoginCreateInv, LoginTokenInv, RefreshRotateInv, RefreshPurgeInv, LogoutBlacklistInv,
     LogoutRedisDownInv, LogoutFindInv, LogoutDeleteInv, AuthPassInv, AuthRefuseInv, ReturnInv
     DEF Step
<1> QED
  BY <1>1, <1>2, <1>3, ReturnInv, OutliveInv, TickInv DEF Next

\* Whatever requests overlap, are lost or meet a Redis that is down, the invariant
\* of auth.py's tables, tokens and blacklist holds.
THEOREM Invariance == Spec => []Inv
BY InitInv, StepInv, PTL DEF Spec

\* The tables and the requests stay well typed; what revoked refers to was given.
THEOREM TypeCorrect == Spec => []TypeOK
<1>1. Inv => TypeOK
  BY DEF Inv
<1> QED
  BY <1>1, Invariance, PTL

\* However many first logins of an account overlap, they end with one user.
THEOREM FirstLoginsAgree == Spec => []OneUserPerAccount
<1>1. Inv => OneUserPerAccount
  BY DEF Inv
<1> QED
  BY <1>1, Invariance, PTL

\* A login never has two refresh tokens that work, for any number of overlapping
\* refreshes: the row lock of the SELECT makes the second one find no row.
THEOREM RotationIsExclusive == Spec => []OneTokenPerLogin
<1>1. Inv => OneTokenPerLogin
  BY DEF Inv
<1> QED
  BY <1>1, Invariance, PTL

\* A login whose row a logout's DELETE has removed has no working token again.
THEOREM LogoutIsFinal == Spec => []EndedStaysEnded
<1>1. Inv => EndedStaysEnded
  BY DEF Inv
<1> QED
  BY <1>1, Invariance, PTL

\* Only its own use, and a logout of its own user, take a given token away, for
\* any number of overlapping requests.
THEOREM TokensLast == Spec => []GivenTokenWorks
<1>1. Inv => GivenTokenWorks
  BY DEF Inv
<1> QED
  BY <1>1, Invariance, PTL

\* A step of one request leaves the records of the others alone.
LEMMA OthersRecords ==
    ASSUME Inv, NEW r \in Requests, NEW q \in Requests, q # r, Arrive(r) \/ Step(r) \/ Abort(r)
    PROVE  tx'[q] = tx[q]
<1>1. CASE Arrive(r)
  BY <1>1 DEF Arrive, LoginGet, RefreshGet, LogoutDecode, AuthDecode, Inv, TypeOK
<1>2. CASE LoginCreate(r) \/ LoginRefused(r) \/ LoginToken(r) \/ RefreshRotate(r) \/ RefreshPurge(r)
  BY <1>2 DEF LoginCreate, LoginRefused, LoginToken, RefreshRotate, RefreshPurge, Inv, TypeOK
<1>3. CASE LogoutBlacklist(r) \/ LogoutRedisDown(r) \/ LogoutFind(r) \/ LogoutDelete(r)
  BY <1>3 DEF LogoutBlacklist, LogoutRedisDown, LogoutFind, LogoutDelete, Inv, TypeOK
<1>4. CASE AuthPass(r) \/ AuthRefuse(r) \/ Served(r) \/ Abort(r)
  BY <1>4 DEF AuthPass, AuthRefuse, Served, Abort, Inv, TypeOK
<1> QED
  BY <1>1, <1>2, <1>3, <1>4 DEF Step

\* A request whose token has been decoded is served for a user by AuthPass alone.
LEMMA ServedByAuthPass ==
    ASSUME Inv, Next, NEW q \in Requests,
           At(q, {"auth_check"}), tx'[q].pc = "served", tx'[q].user # NULL
    PROVE  AuthPass(q)
<1>1. tx[q].pc = "auth_check" /\ tx'[q] # tx[q]
  BY DEF At
<1>2. Arrive(q) \/ Step(q) \/ Abort(q)
  BY <1>1, OthersRecords DEF Next, Outlive, Tick
<1>3. ~Arrive(q)
  BY <1>1 DEF Arrive, LoginGet, RefreshGet, LogoutDecode, AuthDecode, At
<1>4. AuthPass(q) \/ AuthRefuse(q) \/ Abort(q)
  BY <1>1, <1>2, <1>3
     DEF Step, LoginCreate, LoginRefused, LoginToken, RefreshRotate, RefreshPurge, LogoutBlacklist,
         LogoutRedisDown, LogoutFind, LogoutDelete, Served, At
<1>5. ASSUME tx' = [tx EXCEPT ![q] = Idle]
      PROVE  FALSE
  BY <1>5 DEF Idle, Inv, TypeOK
<1>6. ASSUME tx' = [tx EXCEPT ![q] = [Idle EXCEPT !.pc = "served"]]
      PROVE  FALSE
  BY <1>6 DEF Idle, Inv, TypeOK
<1> QED
  BY <1>4, <1>5, <1>6 DEF AuthRefuse, Abort

\* After an answered logout its access token is served to nobody, except in the
\* last second of its life, for any lifetime and any fineness of time.
THEOREM LogoutRevokes == Spec => LoggedOutIsRefused
<1> DEFINE Refused ==
      \A q \in Requests :
         /\ At(q, {"auth_check"}) /\ tx[q].grant \in revoked
         /\ tx'[q].pc = "served" /\ tx'[q].user # NULL
         => access[tx[q].grant].left < TicksPerSecond
<1>1. ASSUME Inv, [Next]_vars
      PROVE  [Refused]_vars
  <2> SUFFICES ASSUME Next, NEW q \in Requests,
                      At(q, {"auth_check"}), tx[q].grant \in revoked,
                      tx'[q].pc = "served", tx'[q].user # NULL
               PROVE  access[tx[q].grant].left < TicksPerSecond
    BY <1>1
  <2>1. ~Blacklisted(tx[q].grant)
    BY <1>1, ServedByAuthPass DEF AuthPass
  <2>2. blacklist[tx[q].grant] \in Nat /\ Outlasts(blacklist[tx[q].grant], tx[q].grant)
    BY <1>1 DEF Inv, TypeOK, Given
  <2> QED
    BY <2>1, <2>2 DEF Blacklisted, Outlasts
<1> QED
  BY <1>1, Invariance, PTL DEF Spec, LoggedOutIsRefused
=============================================================================
