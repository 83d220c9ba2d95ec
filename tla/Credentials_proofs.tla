-------------------------- MODULE Credentials_proofs --------------------------
(***************************************************************************)
(* Theorems about Credentials, for every set of requests, users, sessions  *)
(* and grants, both databases and all mishaps.                             *)
(***************************************************************************)
EXTENDS Credentials, TLAPS

(***************************************************************************)
(* The types, and what they need to be inductive: a request that has       *)
(* started is AuthHandler's or has an account and its user, it has a token *)
(* at hand from the moment it fetched or exchanged one, and only a token   *)
(* expires.                                                                *)
(***************************************************************************)
Holding == {"store", "decrypt", "decryptExpired", "refresh", "storeRefreshed",
            "revoke"}

CredsOK ==
    /\ creds \in [Users -> Token]
    /\ \A u \in Users : creds[u].grant = None => creds[u] = NoToken

TypeInv ==
    /\ TypeOK
    /\ CredsOK
    /\ \A r \in Requests : pc[r] # "idle" /\ handler[r] # "AuthHandler" =>
          account[r] \in Accounts /\ user[r] = Username[account[r]]
    /\ \A r \in Requests : handler[r] = "AuthHandler" => pc[r] \in {"createSession", "done"}
    /\ \A r \in Requests : pc[r] \in Holding => tk[r] \in Grants

(* Storing a token, deleting one and letting one expire keep the table of   *)
(* credentials well formed.                                                *)
LEMMA StoreKeepsCreds ==
    ASSUME CredsOK, NEW r \in Requests, tk[r] \in Grants, StoreBuildAPICredentials(r)
    PROVE  CredsOK'
<1>1. [grant |-> tk[r], expired |-> FALSE] \in Token
  BY DEF Token
<1>2. creds' \in [Users -> Token]
  BY <1>1 DEF CredsOK, StoreBuildAPICredentials
<1>3. \A u \in Users : creds'[u] = creds[u] \/ creds'[u].grant = tk[r]
  BY DEF CredsOK, StoreBuildAPICredentials
<1>4. QED
  BY <1>2, <1>3, CredentialsAssumption DEF CredsOK, CredentialsAssumption

LEMMA DeleteKeepsCreds ==
    ASSUME CredsOK, NEW r \in Requests, creds' = [creds EXCEPT ![user[r]] = NoToken]
    PROVE  CredsOK'
<1>1. NoToken \in Token
  BY DEF Token, NoToken
<1>2. QED
  BY <1>1 DEF CredsOK

LEMMA ExpiryKeepsCreds ==
    ASSUME CredsOK, NEW u \in Users, TokenExpires(u)
    PROVE  CredsOK'
<1>1. creds[u].grant \in Grants
  BY DEF CredsOK, TokenExpires, Token
<1>2. creds' = [creds EXCEPT ![u] = [grant |-> creds[u].grant, expired |-> TRUE]]
  BY DEF TokenExpires
<1>3. [grant |-> creds[u].grant, expired |-> TRUE] \in Token
  BY <1>1 DEF Token
<1>4. creds' \in [Users -> Token]
  BY <1>2, <1>3 DEF CredsOK
<1>5. creds'[u].grant # None
  BY <1>1, <1>2, CredentialsAssumption DEF CredsOK, CredentialsAssumption
<1>6. QED
  BY <1>2, <1>4, <1>5 DEF CredsOK

LEMMA UnusedGrant == \A g \in Grants : Unused(g) => owner[g] = None
BY DEF Unused

LEMMA AcceptedKept ==
    ASSUME accepted \in [Requests -> BOOLEAN], NEW r \in Requests, CheckState(r)
    PROVE  accepted' \in [Requests -> BOOLEAN]
<1>1. accepted' = accepted \/ accepted' = [accepted EXCEPT ![r] = TRUE]
  BY DEF CheckState
<1>2. QED
  BY <1>1

LEMMA TypeInvInductive ==
    ASSUME TypeInv, [Next]_vars
    PROVE  TypeInv'
<1>0. service' = service
  BY DEF Next, vars
<1> USE <1>0
<1> USE CredentialsAssumption
    DEF CredentialsAssumption, TypeInv, TypeOK, Holding, Calls, Replies, Notes,
        requestVars, sessionVars, Go, Reply, Note
<1>1. ASSUME NEW r \in Requests, Start(r) PROVE TypeInv'
  BY <1>1 DEF Start, UserFromRequest, FirstCall, Handlers, CredsOK
<1>2. ASSUME NEW r \in Requests, SetOrUpdateSession(r) PROVE TypeInv'
  BY <1>2 DEF SetOrUpdateSession, CreateOrUpdateSession, CredsOK
<1>3. ASSUME NEW r \in Requests, CheckState(r) PROVE TypeInv'
  <2>1. UNCHANGED <<requestVars, tk, notes, sessionVars, creds, owner, revoked>>
    BY <1>3 DEF CheckState
  <2>2. accepted' \in [Requests -> BOOLEAN]
    BY <1>3, AcceptedKept
  <2>3. reply' \in [Requests -> Replies]
    BY <1>3 DEF CheckState
  <2>4. \E to \in {"deleteSession", "fetch", "done"} : Go(r, to)
    BY <1>3 DEF CheckState
  <2>5. pc[r] = "checkState" /\ handler[r] # "AuthHandler"
    BY <1>3 DEF CheckState
  <2>6. QED
    BY <2>1, <2>2, <2>3, <2>4, <2>5 DEF CredsOK
<1>4. ASSUME NEW r \in Requests, DeleteSession(r) \/ ClearSession(r) PROVE TypeInv'
  BY <1>4 DEF DeleteSession, ClearSession, AfterDelete, CredsOK
<1>5. ASSUME NEW r \in Requests, Exchange(r) PROVE TypeInv'
  BY <1>5, UnusedGrant DEF Exchange, CredsOK
<1>6. ASSUME NEW r \in Requests, StoreExchanged(r) PROVE TypeInv'
  <2>1. CredsOK'
    BY <1>6, StoreKeepsCreds DEF StoreExchanged, CredsOK
  <2>2. QED
    BY <1>6, <2>1 DEF StoreExchanged, CredsOK
<1>7. ASSUME NEW r \in Requests, Fetch(r) PROVE TypeInv'
  <2>1. creds[user[r]] # NoToken => creds[user[r]].grant \in Grants
    BY <1>7 DEF Fetch, CredsOK, Token
  <2>2. QED
    BY <1>7, <2>1 DEF Fetch, Conclude, CredsOK
<1>8. ASSUME NEW r \in Requests, Decrypt(r) PROVE TypeInv'
  BY <1>8 DEF Decrypt, Obtained, Conclude, CredsOK
<1>9. ASSUME NEW r \in Requests, Refresh(r) PROVE TypeInv'
  BY <1>9 DEF Refresh, Conclude, CredsOK
<1>10. ASSUME NEW r \in Requests, StoreRefreshed(r) PROVE TypeInv'
  <2>1. CredsOK'
    BY <1>10, StoreKeepsCreds DEF StoreRefreshed, CredsOK
  <2>2. QED
    BY <1>10, <2>1 DEF StoreRefreshed, Obtained, Conclude, CredsOK
<1>11. ASSUME NEW r \in Requests, Revoke(r) PROVE TypeInv'
  BY <1>11 DEF Revoke, CredsOK
<1>12. ASSUME NEW r \in Requests, DeleteBuildAPICredentials(r) PROVE TypeInv'
  <2>1. CredsOK'
    BY <1>12, DeleteKeepsCreds DEF DeleteBuildAPICredentials, CredsOK
  <2>2. QED
    BY <1>12, <2>1 DEF DeleteBuildAPICredentials, CredsOK
<1>13. ASSUME NEW u \in Users, TokenExpires(u) PROVE TypeInv'
  <2>1. CredsOK'
    BY <1>13, ExpiryKeepsCreds
  <2>2. QED
    BY <1>13, <2>1 DEF TokenExpires, CredsOK
<1>14. CASE DeleteExpiredSession
  BY <1>14 DEF DeleteExpiredSession, CredsOK
<1>15. CASE UNCHANGED vars
  BY <1>15 DEF vars, CredsOK
<1>16. QED
  BY <1>1, <1>2, <1>3, <1>4, <1>5, <1>6, <1>7, <1>8, <1>9, <1>10, <1>11, <1>12,
     <1>13, <1>14, <1>15 DEF Next, Step

LEMMA TypeInvInvariant == Spec => []TypeInv
<1>1. Init => TypeInv
  BY CredentialsAssumption
  DEF CredentialsAssumption, Init, TypeInv, TypeOK, CredsOK, Token, NoToken, Calls, Replies,
      Notes, Holding, Handlers, None
<1>2. TypeInv /\ [Next]_vars => TypeInv'
  BY TypeInvInductive
<1>3. QED
  BY <1>1, <1>2, PTL DEF Spec

(* Type correctness: in every reachable state each variable has the type   *)
(* TypeOK gives it.                                                        *)
THEOREM Typing == Spec => []TypeOK
<1>1. TypeInv => TypeOK
  BY DEF TypeInv
<1>2. QED
  BY <1>1, TypeInvInvariant, PTL

-----------------------------------------------------------------------------
(***************************************************************************)
(* OwnTokens rests on the token a request has at hand: it comes from an    *)
(* exchange whose account was compared with the user, or from what is      *)
(* stored for the user, and the owner of a grant never changes.            *)
(***************************************************************************)
StoredOwn == \A u \in Users : creds[u] # NoToken => OfUser(creds[u].grant, u)
HeldOwn   == \A r \in Requests : tk[r] # None => OfUser(tk[r], user[r])
FreshOwn  ==
    \A r \in Requests : pc[r] = "store" \/ reply[r] = "authorized" =>
        owner[tk[r]] = account[r]
HeldSince ==
    \A r \in Requests :
        /\ pc[r] = "idle" => tk[r] = None
        /\ reply[r] \in {"injected", "authorized"} => tk[r] # None /\ pc[r] = "done"

OwnInv == StoredOwn /\ HeldOwn /\ FreshOwn /\ HeldSince

(* Every user of a request that is not AuthHandler's is one. *)
LEMMA UserOK ==
    ASSUME TypeInv, NEW r \in Requests, pc[r] # "idle", handler[r] # "AuthHandler"
    PROVE  user[r] \in Users
BY CredentialsAssumption DEF CredentialsAssumption, TypeInv

LEMMA HeldSinceInductive ==
    ASSUME TypeInv, HeldSince, [Next]_vars
    PROVE  HeldSince'
<1> USE CredentialsAssumption DEF CredentialsAssumption, TypeInv, TypeOK,
        CredsOK, HeldSince, Token, NoToken, Holding, requestVars, sessionVars, Go, Reply, Note
<1>1. ASSUME NEW r \in Requests, Start(r) PROVE HeldSince'
  BY <1>1 DEF Start, FirstCall
<1>2. ASSUME NEW r \in Requests, SetOrUpdateSession(r) PROVE HeldSince'
  BY <1>2 DEF SetOrUpdateSession
<1>3. ASSUME NEW r \in Requests, CheckState(r) PROVE HeldSince'
  BY <1>3 DEF CheckState
<1>4. ASSUME NEW r \in Requests, DeleteSession(r) \/ ClearSession(r) PROVE HeldSince'
  BY <1>4 DEF DeleteSession, ClearSession, AfterDelete
<1>5. ASSUME NEW r \in Requests, Exchange(r) PROVE HeldSince'
  BY <1>5, UnusedGrant DEF Exchange
<1>6. ASSUME NEW r \in Requests, StoreExchanged(r) PROVE HeldSince'
  BY <1>6 DEF StoreExchanged
<1>7. ASSUME NEW r \in Requests, Fetch(r) PROVE HeldSince'
  BY <1>7 DEF Fetch, Conclude
<1>8. ASSUME NEW r \in Requests, Decrypt(r) PROVE HeldSince'
  BY <1>8 DEF Decrypt, Obtained, Conclude
<1>9. ASSUME NEW r \in Requests, Refresh(r) PROVE HeldSince'
  BY <1>9 DEF Refresh, Conclude
<1>10. ASSUME NEW r \in Requests, StoreRefreshed(r) PROVE HeldSince'
  BY <1>10 DEF StoreRefreshed, Obtained, Conclude
<1>11. ASSUME NEW r \in Requests, Revoke(r) PROVE HeldSince'
  BY <1>11 DEF Revoke
<1>12. ASSUME NEW r \in Requests, DeleteBuildAPICredentials(r) PROVE HeldSince'
  BY <1>12 DEF DeleteBuildAPICredentials
<1>13. ASSUME NEW u \in Users, TokenExpires(u) PROVE HeldSince'
  BY <1>13 DEF TokenExpires
<1>14. CASE DeleteExpiredSession
  BY <1>14 DEF DeleteExpiredSession
<1>15. CASE UNCHANGED vars
  BY <1>15 DEF vars
<1>16. QED
  BY <1>1, <1>2, <1>3, <1>4, <1>5, <1>6, <1>7, <1>8, <1>9, <1>10, <1>11, <1>12,
     <1>13, <1>14, <1>15 DEF Next, Step

(* The owner of a grant never changes. *)
LEMMA OwnersKept ==
    ASSUME TypeInv, [Next]_vars, NEW g, owner[g] # None, g \in Grants
    PROVE  owner'[g] = owner[g]
<1> USE DEF TypeInv, TypeOK
<1>1. ASSUME NEW r \in Requests, Exchange(r) PROVE owner'[g] = owner[g]
  BY <1>1, UnusedGrant DEF Exchange
<1>2. ASSUME NEW r \in Requests, Step(r), ~Exchange(r) PROVE owner' = owner
  BY <1>2 DEF Step, Start, SetOrUpdateSession, CheckState, DeleteSession, ClearSession,
              StoreExchanged, Fetch, Decrypt, Refresh, StoreRefreshed, Revoke,
              DeleteBuildAPICredentials
<1>3. QED
  BY <1>1, <1>2 DEF Next, vars, TokenExpires, DeleteExpiredSession

LEMMA OfUserKept ==
    ASSUME TypeInv, [Next]_vars, NEW g \in Grants, NEW u, OfUser(g, u)
    PROVE  OfUser(g, u)'
BY OwnersKept DEF OfUser

(* A request keeps its account, user and handler once it has started. *)
LEMMA RequestKept ==
    ASSUME TypeInv, [Next]_vars, NEW q \in Requests, pc[q] # "idle"
    PROVE  UNCHANGED <<account[q], user[q], handler[q]>>
<1> USE DEF TypeInv, TypeOK, requestVars
<1>1. ASSUME NEW r \in Requests, Start(r)
      PROVE  UNCHANGED <<account[q], user[q], handler[q]>>
  BY <1>1 DEF Start
<1>2. ASSUME NEW r \in Requests, Step(r), ~Start(r) PROVE UNCHANGED requestVars
  BY <1>2 DEF Step, SetOrUpdateSession, CheckState, DeleteSession, ClearSession,
              AfterDelete, Exchange, StoreExchanged, Fetch, Decrypt, Refresh,
              StoreRefreshed, Revoke, DeleteBuildAPICredentials
<1>3. QED
  BY <1>1, <1>2 DEF Next, vars, TokenExpires, DeleteExpiredSession

(* A user's credentials change hands by a store or a deletion only. *)
LEMMA CredsChange ==
    ASSUME TypeInv, [Next]_vars, NEW u \in Users, creds'[u].grant # creds[u].grant
    PROVE  \E q \in Requests :
              /\ user[q] = u /\ tk'[q] = tk[q]
              /\ \/ pc[q] = "store" /\ pc'[q] = "done" /\ creds'[u].grant = tk[q]
                 \/ pc[q] = "storeRefreshed" /\ creds'[u].grant = tk[q]
                 \/ pc[q] = "deleteCredentials" /\ creds'[u].grant = None
<1> USE CredentialsAssumption DEF CredentialsAssumption, TypeInv, TypeOK, CredsOK,
        NoToken, requestVars, sessionVars
<1>1. ASSUME NEW q \in Requests, StoreExchanged(q)
      PROVE  user[q] = u /\ tk'[q] = tk[q] /\ pc[q] = "store"
             /\ pc'[q] = "done" /\ creds'[u].grant = tk[q]
  BY <1>1 DEF StoreExchanged, StoreBuildAPICredentials, Go
<1>2. ASSUME NEW q \in Requests, StoreRefreshed(q)
      PROVE  /\ user[q] = u /\ tk'[q] = tk[q]
             /\ pc[q] = "storeRefreshed" /\ creds'[u].grant = tk[q]
  BY <1>2 DEF StoreRefreshed, StoreBuildAPICredentials
<1>3. ASSUME NEW q \in Requests, DeleteBuildAPICredentials(q)
      PROVE  /\ user[q] = u /\ tk'[q] = tk[q]
             /\ pc[q] = "deleteCredentials" /\ creds'[u].grant = None
  BY <1>3 DEF DeleteBuildAPICredentials
<1>4. ASSUME NEW v \in Users, TokenExpires(v) PROVE FALSE
  BY <1>4 DEF TokenExpires
<1>5. CASE UNCHANGED creds
  BY <1>5
<1>6. ASSUME NEW q \in Requests, Step(q)
      PROVE  \/ StoreExchanged(q) \/ StoreRefreshed(q) \/ DeleteBuildAPICredentials(q)
             \/ UNCHANGED creds
  BY <1>6 DEF Step, Start, SetOrUpdateSession, CheckState, DeleteSession, ClearSession,
              AfterDelete, Exchange, Fetch, Decrypt, Refresh, Revoke
<1>7. QED
  BY <1>1, <1>2, <1>3, <1>4, <1>5, <1>6 DEF Next, vars, DeleteExpiredSession

(* A request gets a token at hand by an exchange or a fetch only. *)
LEMMA TokenChange ==
    ASSUME TypeInv, [Next]_vars, NEW q \in Requests, tk'[q] # tk[q]
    PROVE  /\ UNCHANGED creds
           /\ tk'[q] \in Grants
           /\ \/ pc[q] = "fetch" /\ tk'[q] = creds[user[q]].grant /\ pc'[q] # "store"
              \/ pc[q] = "exchange" /\ owner[tk'[q]] = None
<1> USE CredentialsAssumption DEF CredentialsAssumption, TypeInv, TypeOK, CredsOK, Token,
        NoToken, requestVars, sessionVars, Go
<1>1. ASSUME NEW r \in Requests, Exchange(r)
      PROVE  r = q /\ UNCHANGED creds /\ tk'[q] \in Grants /\ pc[q] = "exchange"
             /\ owner[tk'[q]] = None
  BY <1>1, UnusedGrant DEF Exchange
<1>2. ASSUME NEW r \in Requests, Fetch(r)
      PROVE  r = q /\ UNCHANGED creds /\ tk'[q] \in Grants /\ pc[q] = "fetch"
             /\ tk'[q] = creds[user[q]].grant /\ pc'[q] # "store"
  <2>1. pc'[r] # "store"
    BY <1>2 DEF Fetch, Conclude
  <2>2. /\ r = q /\ UNCHANGED creds /\ pc[q] = "fetch"
        /\ tk' = [tk EXCEPT ![r] = creds[user[r]].grant] /\ creds[user[r]] # NoToken
    BY <1>2 DEF Fetch
  <2>3. user[q] \in Users /\ creds[user[q]].grant # None
    BY <2>2, UserOK
  <2>4. creds[user[q]].grant \in Grants /\ tk'[q] = creds[user[q]].grant
    BY <2>2, <2>3
  <2>5. QED
    BY <2>1, <2>2, <2>4
<1>3. ASSUME NEW r \in Requests, Step(r)
      PROVE  Exchange(r) \/ Fetch(r)
  BY <1>3 DEF Step, Start, SetOrUpdateSession, CheckState, DeleteSession, ClearSession,
              AfterDelete, StoreExchanged, Decrypt, Refresh, StoreRefreshed, Revoke,
              DeleteBuildAPICredentials
<1>4. PICK r \in Requests : Step(r)
  BY DEF Next, vars, TokenExpires, DeleteExpiredSession
<1>5. QED
  BY <1>1, <1>2, <1>3, <1>4

(* Who is about to store a fresh grant has just exchanged it. *)
LEMMA StoreReached ==
    ASSUME TypeInv, [Next]_vars, NEW q \in Requests, pc'[q] = "store"
    PROVE  \/ pc[q] = "store" /\ tk'[q] = tk[q]
           \/ pc[q] = "exchange" /\ tk'[q] \in Grants /\ owner[tk'[q]] = None
              /\ UNCHANGED creds /\ \A r \in Requests \ {q} : tk'[r] = tk[r]
<1> USE CredentialsAssumption DEF CredentialsAssumption, TypeInv, TypeOK,
        requestVars, sessionVars, Go
<1>1. ASSUME NEW r \in Requests, Exchange(r), pc[q] # "store"
      PROVE  r = q /\ pc[q] = "exchange" /\ tk'[q] \in Grants /\ owner[tk'[q]] = None
             /\ UNCHANGED creds /\ \A p \in Requests \ {q} : tk'[p] = tk[p]
  BY <1>1, UnusedGrant DEF Exchange
<1>2. ASSUME NEW r \in Requests, Step(r), pc[q] # "store"
      PROVE  Exchange(r)
  BY <1>2 DEF Step, Start, FirstCall, Handlers, SetOrUpdateSession, CheckState,
              DeleteSession, ClearSession, AfterDelete, StoreExchanged, Fetch, Decrypt,
              Refresh, StoreRefreshed, Obtained, Conclude, Revoke, DeleteBuildAPICredentials
<1>3. CASE pc[q] = "store"
  BY <1>3, TokenChange
<1>4. CASE pc[q] # "store"
  <2>1. PICK r \in Requests : Step(r)
    BY <1>4 DEF Next, vars, TokenExpires, DeleteExpiredSession
  <2>2. QED
    BY <1>1, <1>2, <1>4, <2>1
<1>5. QED
  BY <1>3, <1>4

(* A token just exchanged was authorized by the account of the request. *)
LEMMA ExchangedOwn ==
    ASSUME TypeInv, [Next]_vars, NEW q \in Requests, pc[q] = "exchange", tk'[q] # tk[q]
    PROVE  /\ owner'[tk'[q]] = account'[q] /\ account'[q] \in Accounts
           /\ account'[q] # None /\ user'[q] = Username[account'[q]]
<1>1. /\ account[q] \in Accounts /\ account[q] # None
      /\ user[q] = Username[account[q]]
  BY CredentialsAssumption DEF CredentialsAssumption, TypeInv
<1>2. UNCHANGED <<account[q], user[q]>>
  BY RequestKept
<1>3. ASSUME NEW r \in Requests, Exchange(r) PROVE owner'[tk'[q]] = account[q]
  BY <1>3, UnusedGrant DEF Exchange, TypeInv, TypeOK
<1>4. ASSUME NEW r \in Requests, Step(r), ~Exchange(r) PROVE FALSE
  BY <1>4 DEF Step, Start, SetOrUpdateSession, CheckState, DeleteSession, ClearSession,
              StoreExchanged, Fetch, Decrypt, Refresh, StoreRefreshed, Revoke,
              DeleteBuildAPICredentials, TypeInv, TypeOK
<1>5. QED
  BY <1>1, <1>2, <1>3, <1>4 DEF Next, vars, TokenExpires, DeleteExpiredSession

LEMMA AuthorizedReached ==
    ASSUME TypeInv, [Next]_vars, NEW q \in Requests, reply'[q] = "authorized"
    PROVE  reply[q] = "authorized" \/ (pc[q] = "store" /\ tk'[q] = tk[q])
<1> USE DEF TypeInv, TypeOK, Reply
<1>1. ASSUME NEW r \in Requests, Step(r), ~StoreExchanged(r) PROVE reply[q] = "authorized"
  BY <1>1 DEF Step, Start, SetOrUpdateSession, CheckState, DeleteSession, ClearSession,
              Exchange, Fetch, Decrypt, Refresh, StoreRefreshed, Obtained, Conclude, Revoke,
              DeleteBuildAPICredentials
<1>2. ASSUME NEW r \in Requests, StoreExchanged(r)
      PROVE  reply[q] = "authorized" \/ (pc[q] = "store" /\ tk'[q] = tk[q])
  BY <1>2 DEF StoreExchanged
<1>3. CASE UNCHANGED reply
  BY <1>3
<1>4. QED
  BY <1>1, <1>2, <1>3 DEF Next, vars, TokenExpires, DeleteExpiredSession

LEMMA OwnInvInductive ==
    ASSUME TypeInv, OwnInv, [Next]_vars
    PROVE  OwnInv'
<1>1. HeldSince'
  BY HeldSinceInductive DEF OwnInv
<1>2. ASSUME NEW q \in Requests, tk'[q] # None PROVE OfUser(tk[q], user[q])'
  <2>1. CASE tk'[q] = tk[q]
    <3>1. pc[q] # "idle" /\ OfUser(tk[q], user[q]) /\ tk[q] \in Grants
      BY <1>2, <2>1 DEF OwnInv, HeldOwn, HeldSince, TypeInv, TypeOK
    <3>2. user'[q] = user[q]
      BY <3>1, RequestKept
    <3>3. QED
      BY <2>1, <3>1, <3>2, OfUserKept DEF OfUser
  <2>2. CASE tk'[q] # tk[q] /\ pc[q] = "fetch" /\ tk'[q] = creds[user[q]].grant
    <3>1. user[q] \in Users /\ user'[q] = user[q] /\ tk'[q] \in Grants
      BY <2>2, UserOK, RequestKept, TokenChange DEF TypeInv
    <3>2. OfUser(creds[user[q]].grant, user[q])
      BY <1>2, <2>2, <3>1 DEF OwnInv, StoredOwn, NoToken
    <3>3. QED
      BY <2>2, <3>1, <3>2, OfUserKept DEF OfUser
  <2>3. CASE tk'[q] # tk[q] /\ pc[q] = "exchange"
    BY <2>3, ExchangedOwn DEF OfUser
  <2>4. QED
    BY <2>1, <2>2, <2>3, TokenChange
<1>3. ASSUME NEW u \in Users, creds'[u] # NoToken PROVE OfUser(creds[u].grant, u)'
  <2>1. CredsOK /\ CredsOK'
    BY TypeInvInductive DEF TypeInv
  <2>2. creds'[u].grant # None /\ creds'[u].grant \in Grants \cup {None}
    BY <1>3, <2>1 DEF CredsOK, Token
  <2>3. CASE creds'[u].grant = creds[u].grant
    <3>1. OfUser(creds[u].grant, u)
      BY <2>2, <2>3 DEF OwnInv, StoredOwn, NoToken
    <3>2. QED
      BY <2>2, <2>3, <3>1, OfUserKept DEF OfUser
  <2>4. CASE creds'[u].grant # creds[u].grant
    <3>1. PICK q \in Requests : user[q] = u /\ creds'[u].grant = tk[q]
      BY <2>2, <2>4, CredsChange
    <3>2. OfUser(tk[q], u)
      BY <2>2, <3>1 DEF OwnInv, HeldOwn
    <3>3. QED
      BY <2>2, <3>1, <3>2, OfUserKept DEF OfUser
  <2>5. QED
    BY <2>3, <2>4
<1>4. ASSUME NEW q \in Requests, pc'[q] = "store" \/ reply'[q] = "authorized"
      PROVE  owner'[tk'[q]] = account'[q]
  <2>1. CASE (pc[q] = "store" \/ reply[q] = "authorized") /\ tk'[q] = tk[q]
    <3>1. owner[tk[q]] = account[q] /\ pc[q] # "idle" /\ tk[q] # None
      BY <2>1, CredentialsAssumption
      DEF CredentialsAssumption, OwnInv, FreshOwn, HeldSince, TypeInv, Holding
    <3>2. owner[tk[q]] # None /\ tk[q] \in Grants
      BY <3>1 DEF OwnInv, HeldOwn, OfUser, TypeInv, TypeOK
    <3>3. QED
      BY <2>1, <3>1, <3>2, OwnersKept, RequestKept
  <2>2. CASE pc[q] = "exchange" /\ tk'[q] # tk[q]
    BY <2>2, ExchangedOwn
  <2>3. CASE pc'[q] = "store"
    BY <2>1, <2>2, <2>3, StoreReached, CredentialsAssumption
    DEF CredentialsAssumption, OwnInv, HeldOwn, OfUser
  <2>4. CASE reply'[q] = "authorized"
    BY <2>1, <2>4, AuthorizedReached, TokenChange DEF OwnInv, HeldSince
  <2>5. QED
    BY <1>4, <2>3, <2>4
<1>5. QED
  BY <1>1, <1>2, <1>3, <1>4 DEF OwnInv, StoredOwn, HeldOwn, FreshOwn

LEMMA OwnInvInvariant == Spec => []OwnInv
<1>1. Init => OwnInv
  BY DEF Init, OwnInv, StoredOwn, HeldOwn, FreshOwn, HeldSince, NoToken, None
<1>2. TypeInv /\ OwnInv /\ [Next]_vars => OwnInv'
  BY OwnInvInductive
<1>3. QED
  BY <1>1, <1>2, TypeInvInvariant, PTL DEF Spec

(* Whoever logs in or refreshes concurrently, the credentials stored for a  *)
(* username and handed to its hosts were authorized by an account of that   *)
(* username, and a login succeeds only with what its own account gave.      *)
THEOREM TokensAreOwn == Spec => []OwnTokens
<1>1. OwnInv => OwnTokens
  BY DEF OwnInv, StoredOwn, HeldOwn, FreshOwn, HeldSince, OwnTokens
<1>2. QED
  BY <1>1, OwnInvInvariant, PTL

-----------------------------------------------------------------------------
(***************************************************************************)
(* Sessions: which handler is at which call, who was accepted, and that a  *)
(* session deleted by its request never comes back, keys being fresh.      *)
(***************************************************************************)
FetchCalls == {"fetch", "decrypt", "decryptExpired", "refresh", "storeRefreshed",
               "revoke", "deleteCredentials"}

ControlInv ==
    \A r \in Requests :
        /\ reply[r] = "injected" => handler[r] = "ForwardToHost" /\ pc[r] = "done"
        /\ pc[r] = "createSession" => handler[r] \in {"AuthHandler", "DeAuthHandler"}
        /\ pc[r] \in {"exchange", "store"} => handler[r] = "OAuth2Callback"
        /\ pc[r] \in FetchCalls =>
              handler[r] \in {"DeAuthHandler", "RescindAuthorizationHandler",
                              "ForwardToHost"}
        /\ pc[r] \in {"deleteSession", "clearSession"} => accepted[r]
        /\ pc[r] \in FetchCalls /\ handler[r] = "RescindAuthorizationHandler" =>
              accepted[r]
        /\ accepted[r] =>
              /\ pc[r] \notin {"idle", "checkState"}
              /\ handler[r] \in {"OAuth2Callback", "RescindAuthorizationHandler"}
        /\ handler[r] = "RescindAuthorizationHandler"
              /\ pc[r] \in {"deleteCredentials", "deleteSession", "clearSession"} =>
            reply[r] # None

(* The in-memory slot holds latest or nothing, and a request that is about *)
(* to clear it found its own session there: latest itself, or one that     *)
(* latest replaced since.                                                  *)
Gone ==
    \/ \E r \in Requests : accepted[r] /\ cookie[r] = latest
    \/ \E r \in raced : pc[r] # "clearSession"

SlotInv ==
    /\ service = "InMemory" => sessions \subseteq {latest}
    /\ latest = None => sessions = {}
    /\ \A r \in Requests : pc[r] = "clearSession" =>
          service = "InMemory" /\ (latest # None => r \in raced \/ Gone)
    /\ \A r \in raced : pc[r] \in {"clearSession", "exchange", "store", "done"}

SessionInv ==
    /\ ControlInv
    /\ SlotInv
    /\ sessions \subseteq issued
    /\ \A r \in Requests : accepted[r] => cookie[r] \in issued \cup {None}
    /\ \A r \in Requests :
          /\ accepted[r]
          /\ pc[r] \in {"exchange", "store", "done"}
          /\ "DeleteSession" \notin notes[r]
          => cookie[r] \notin sessions
    /\ SessionsKept

LEMMA OutcomesTook ==
    ASSUME NEW call \in Outcomes \cup StoreOutcomes, call.ok
    PROVE  call.took
<1>1. CASE call = [ok |-> TRUE, took |-> TRUE]
  BY <1>1
<1>2. CASE call \in [ok : {FALSE}, took : BOOLEAN]
  BY <1>2
<1>3. CASE call = [ok |-> FALSE, took |-> FALSE]
  BY <1>3
<1>4. QED
  BY <1>1, <1>2, <1>3 DEF Outcomes, StoreOutcomes

LEMMA ControlInvInductive ==
    ASSUME TypeInv, ControlInv, [Next]_vars
    PROVE  ControlInv'
<1> USE CredentialsAssumption DEF CredentialsAssumption, TypeInv, TypeOK,
        ControlInv, FetchCalls, None, requestVars, sessionVars,
        Go, Reply, Note
<1>1. ASSUME NEW r \in Requests, Start(r) PROVE ControlInv'
  BY <1>1 DEF Start, FirstCall, Handlers
<1>2. ASSUME NEW r \in Requests, SetOrUpdateSession(r) PROVE ControlInv'
  BY <1>2 DEF SetOrUpdateSession, CreateOrUpdateSession
<1>3. ASSUME NEW r \in Requests, CheckState(r) PROVE ControlInv'
  BY <1>3 DEF CheckState
<1>4. ASSUME NEW r \in Requests, DeleteSession(r) \/ ClearSession(r) PROVE ControlInv'
  BY <1>4 DEF DeleteSession, ClearSession, AfterDelete
<1>5. ASSUME NEW r \in Requests, Exchange(r) PROVE ControlInv'
  BY <1>5, UnusedGrant DEF Exchange
<1>6. ASSUME NEW r \in Requests, StoreExchanged(r) PROVE ControlInv'
  BY <1>6 DEF StoreExchanged, StoreBuildAPICredentials
<1>7. ASSUME NEW r \in Requests, Fetch(r) PROVE ControlInv'
  BY <1>7 DEF Fetch, Conclude
<1>8. ASSUME NEW r \in Requests, Decrypt(r) PROVE ControlInv'
  BY <1>8 DEF Decrypt, Obtained, Conclude
<1>9. ASSUME NEW r \in Requests, Refresh(r) PROVE ControlInv'
  BY <1>9 DEF Refresh, Conclude
<1>10. ASSUME NEW r \in Requests, StoreRefreshed(r) PROVE ControlInv'
  BY <1>10 DEF StoreRefreshed, StoreBuildAPICredentials, Obtained, Conclude
<1>11. ASSUME NEW r \in Requests, Revoke(r) PROVE ControlInv'
  BY <1>11 DEF Revoke
<1>12. ASSUME NEW r \in Requests, DeleteBuildAPICredentials(r) PROVE ControlInv'
  BY <1>12 DEF DeleteBuildAPICredentials
<1>13. ASSUME NEW u \in Users, TokenExpires(u) PROVE ControlInv'
  BY <1>13 DEF TokenExpires
<1>14. CASE DeleteExpiredSession
  BY <1>14 DEF DeleteExpiredSession
<1>15. CASE UNCHANGED vars
  BY <1>15 DEF vars
<1>16. QED
  BY <1>1, <1>2, <1>3, <1>4, <1>5, <1>6, <1>7, <1>8, <1>9, <1>10, <1>11, <1>12,
     <1>13, <1>14, <1>15 DEF Next, Step

LEMMA SessionInvInductive ==
    ASSUME TypeInv, SessionInv, ControlInv', [Next]_vars
    PROVE  SessionInv'
<1>0. service' = service
  BY DEF Next, vars
<1> USE <1>0
<1> USE CredentialsAssumption DEF CredentialsAssumption, TypeInv, TypeOK,
        SessionInv, ControlInv, FetchCalls, SessionsKept, Redeemable, SlotInv, Gone,
        requestVars, sessionVars, Go, Reply, Note
<1>1. ASSUME NEW r \in Requests, Start(r) PROVE SessionInv'
  BY <1>1 DEF Start, FirstCall
<1>2. ASSUME NEW r \in Requests, SetOrUpdateSession(r) PROVE SessionInv'
  BY <1>2 DEF SetOrUpdateSession, CreateOrUpdateSession
<1>3. ASSUME NEW r \in Requests, CheckState(r) PROVE SessionInv'
  <2>1. CASE HasSession(cookie[r]) /\ accepted' = [accepted EXCEPT ![r] = TRUE]
    <3>1. pc[r] = "checkState" /\ pc'[r] \in {"deleteSession", "fetch"}
      BY <1>3, <2>1 DEF CheckState
    <3>2. cookie[r] \in issued \cup {None}
      BY <2>1 DEF HasSession
    <3>3. QED
      BY <1>3, <2>1, <3>1, <3>2 DEF CheckState
  <2>2. CASE UNCHANGED accepted
    BY <1>3, <2>2 DEF CheckState
  <2>3. QED
    BY <1>3, <2>1, <2>2 DEF CheckState
<1>4. ASSUME NEW r \in Requests, DeleteSession(r), service = "Spanner" PROVE SessionInv'
  BY <1>4, OutcomesTook DEF DeleteSession, AfterDelete
<1>17. ASSUME NEW r \in Requests, DeleteSession(r), service = "InMemory" PROVE SessionInv'
  BY <1>17 DEF DeleteSession, AfterDelete, HasSession
<1>18. ASSUME NEW r \in Requests, ClearSession(r) PROVE SessionInv'
  BY <1>18 DEF ClearSession, AfterDelete
<1>5. ASSUME NEW r \in Requests, Exchange(r) PROVE SessionInv'
  BY <1>5, UnusedGrant DEF Exchange
<1>6. ASSUME NEW r \in Requests, StoreExchanged(r) PROVE SessionInv'
  BY <1>6 DEF StoreExchanged, StoreBuildAPICredentials
<1>7. ASSUME NEW r \in Requests, Fetch(r) PROVE SessionInv'
  BY <1>7 DEF Fetch, Conclude
<1>8. ASSUME NEW r \in Requests, Decrypt(r) PROVE SessionInv'
  BY <1>8 DEF Decrypt, Obtained, Conclude
<1>9. ASSUME NEW r \in Requests, Refresh(r) PROVE SessionInv'
  BY <1>9 DEF Refresh, Conclude
<1>10. ASSUME NEW r \in Requests, StoreRefreshed(r) PROVE SessionInv'
  BY <1>10 DEF StoreRefreshed, StoreBuildAPICredentials, Obtained, Conclude
<1>11. ASSUME NEW r \in Requests, Revoke(r) PROVE SessionInv'
  BY <1>11 DEF Revoke
<1>12. ASSUME NEW r \in Requests, DeleteBuildAPICredentials(r) PROVE SessionInv'
  BY <1>12 DEF DeleteBuildAPICredentials
<1>13. ASSUME NEW u \in Users, TokenExpires(u) PROVE SessionInv'
  BY <1>13 DEF TokenExpires
<1>14. CASE DeleteExpiredSession
  BY <1>14 DEF DeleteExpiredSession
<1>15. CASE UNCHANGED vars
  BY <1>15 DEF vars
<1>16. QED
  BY <1>1, <1>2, <1>3, <1>4, <1>5, <1>6, <1>7, <1>8, <1>9, <1>10, <1>11, <1>12,
     <1>13, <1>14, <1>15, <1>17, <1>18 DEF Next, Step, DeleteSession

LEMMA SessionInvInvariant == Spec => []SessionInv
<1>1. Init => SessionInv
  BY DEF Init, SessionInv, ControlInv, FetchCalls, SessionsKept, SlotInv, None
<1>2. TypeInv /\ SessionInv /\ [Next]_vars => SessionInv'
  BY ControlInvInductive, SessionInvInductive DEF SessionInv
<1>3. QED
  BY <1>1, <1>2, TypeInvInvariant, PTL DEF Spec

(* A session is gone for good once the request accepted with it is done,   *)
(* unless the deletion failed.  No session is lost in Spanner to the end of *)
(* a request accepted with another; nor is the latest one in memory, unless *)
(* a request was between comparing its key and clearing the slot when the   *)
(* session was created, which the code does not prevent.                   *)
THEOREM SessionsAreRedeemed == Spec => []SessionsRedeemed
<1>1. SessionInv => SessionConsumed
  BY DEF SessionInv, SessionConsumed
<1>2. SessionInv => SessionsKept
  BY DEF SessionInv
<1>3. QED
  BY <1>1, <1>2, SessionInvInvariant, PTL DEF SessionsRedeemed

(* Where no two accounts share a username, what ForwardToHost adds to a     *)
(* request was authorized by the very account the request was made with.   *)
THEOREM TokensAreOfTheAccount ==
    ASSUME \A a, b \in Accounts : Username[a] = Username[b] => a = b
    PROVE  Spec => [](\A r \in Requests : reply[r] = "injected" => owner[tk[r]] = account[r])
<1>1. TypeInv /\ OwnInv /\ ControlInv =>
          \A r \in Requests : reply[r] = "injected" => owner[tk[r]] = account[r]
  <2> SUFFICES ASSUME TypeInv, OwnInv, ControlInv, NEW r \in Requests,
                      reply[r] = "injected"
               PROVE  owner[tk[r]] = account[r]
    OBVIOUS
  <2>1. OfUser(tk[r], user[r]) /\ tk[r] \in Grants
    BY DEF OwnInv, HeldOwn, HeldSince, TypeInv, TypeOK
  <2>2. owner[tk[r]] \in Accounts /\ Username[owner[tk[r]]] = user[r]
    BY <2>1 DEF OfUser, TypeInv, TypeOK
  <2>3. account[r] \in Accounts /\ user[r] = Username[account[r]]
    BY DEF ControlInv, TypeInv
  <2>4. QED
    BY <2>2, <2>3
<1>2. QED
  BY <1>1, TypeInvInvariant, OwnInvInvariant, SessionInvInvariant, PTL DEF SessionInv

-----------------------------------------------------------------------------
(***************************************************************************)
(* Rescission and authorization: who holds a grant that is about to be     *)
(* stored, which requests have refreshed one, and on whose account         *)
(* credentials are deleted.                                                *)
(***************************************************************************)
Refreshed == {"storeRefreshed", "createSession", "revoke", "deleteCredentials",
              "deleteSession", "clearSession", "done"}

NotesInv ==
    \A r \in Requests :
        /\ pc[r] = "idle" => notes[r] = {}
        /\ "Refresh" \in notes[r] => pc[r] \in Refreshed
        /\ "Refresh" \in notes[r] => handler[r] # "OAuth2Callback"
        /\ pc[r] = "storeRefreshed" => "Refresh" \in notes[r]
        /\ pc[r] = "revoke" => handler[r] = "RescindAuthorizationHandler"
        /\ pc[r] = "deleteCredentials" =>
              \/ handler[r] = "RescindAuthorizationHandler" /\ tk[r] # None
              \/ "Decrypt" \in notes[r]
        /\ reply[r] = "authorized" => pc[r] = "done" /\ handler[r] = "OAuth2Callback"
        /\ reply[r] = "rescinded" =>
              /\ pc[r] \in {"deleteCredentials", "deleteSession", "clearSession", "done"}
              /\ handler[r] = "RescindAuthorizationHandler"
              /\ tk[r] # None

(* A grant fresh from its exchange is known to one request only. *)
FreshInv ==
    \A r \in Requests : pc[r] = "store" =>
        /\ \A q \in Requests \ {r} : tk[q] # tk[r]
        /\ \A u \in Users : creds[u].grant # tk[r]

Rescinded(r) ==
    \/ creds[user[r]].grant # tk[r]
    \/ "DeleteCredentials" \in notes[r]
    \/ \E q \in Requests \ {r} : tk[q] = tk[r] /\ "Refresh" \in notes[q]

RescindInv ==
    \A r \in Requests :
        reply[r] = "rescinded" /\ pc[r] \in {"deleteSession", "clearSession", "done"} =>
            Rescinded(r)

GrantInv == NotesInv /\ FreshInv /\ RescindInv /\ AuthorizationKept

LEMMA NotesInvInductive ==
    ASSUME TypeInv, OwnInv, ControlInv, NotesInv, [Next]_vars
    PROVE  NotesInv'
<1> USE CredentialsAssumption DEF CredentialsAssumption, TypeInv, TypeOK, OwnInv,
        HeldSince, ControlInv, FetchCalls, NotesInv, Refreshed, Holding, requestVars,
        sessionVars, Go, Reply, Note
<1>1. ASSUME NEW r \in Requests, Start(r) PROVE NotesInv'
  BY <1>1 DEF Start, FirstCall, Handlers
<1>2. ASSUME NEW r \in Requests, SetOrUpdateSession(r) PROVE NotesInv'
  BY <1>2 DEF SetOrUpdateSession, CreateOrUpdateSession
<1>3. ASSUME NEW r \in Requests, CheckState(r) PROVE NotesInv'
  BY <1>3 DEF CheckState
<1>4. ASSUME NEW r \in Requests, DeleteSession(r) \/ ClearSession(r) PROVE NotesInv'
  BY <1>4 DEF DeleteSession, ClearSession, AfterDelete
<1>5. ASSUME NEW r \in Requests, Exchange(r) PROVE NotesInv'
  BY <1>5 DEF Exchange
<1>6. ASSUME NEW r \in Requests, StoreExchanged(r) PROVE NotesInv'
  BY <1>6 DEF StoreExchanged
<1>7. ASSUME NEW r \in Requests, Fetch(r) PROVE NotesInv'
  BY <1>7 DEF Fetch, Conclude
<1>8. ASSUME NEW r \in Requests, Decrypt(r) PROVE NotesInv'
  BY <1>8 DEF Decrypt, Obtained, Conclude
<1>9. ASSUME NEW r \in Requests, Refresh(r) PROVE NotesInv'
  BY <1>9 DEF Refresh, Conclude
<1>10. ASSUME NEW r \in Requests, StoreRefreshed(r) PROVE NotesInv'
  BY <1>10 DEF StoreRefreshed, Obtained, Conclude
<1>11. ASSUME NEW r \in Requests, Revoke(r) PROVE NotesInv'
  BY <1>11 DEF Revoke
<1>12. ASSUME NEW r \in Requests, DeleteBuildAPICredentials(r) PROVE NotesInv'
  BY <1>12 DEF DeleteBuildAPICredentials
<1>13. ASSUME NEW u \in Users, TokenExpires(u) PROVE NotesInv'
  BY <1>13 DEF TokenExpires
<1>14. CASE DeleteExpiredSession
  BY <1>14 DEF DeleteExpiredSession
<1>15. CASE UNCHANGED vars
  BY <1>15 DEF vars
<1>16. QED
  BY <1>1, <1>2, <1>3, <1>4, <1>5, <1>6, <1>7, <1>8, <1>9, <1>10, <1>11, <1>12,
     <1>13, <1>14, <1>15 DEF Next, Step

LEMMA FreshInvInductive ==
    ASSUME TypeInv, OwnInv, ControlInv, NotesInv, FreshInv, [Next]_vars
    PROVE  FreshInv'
<1> SUFFICES ASSUME NEW q \in Requests, pc'[q] = "store"
             PROVE  /\ \A r \in Requests \ {q} : tk'[r] # tk'[q]
                    /\ \A u \in Users : creds'[u].grant # tk'[q]
  BY DEF FreshInv
<1>1. CASE pc[q] = "store" /\ tk'[q] = tk[q]
  <2>1. ASSUME NEW r \in Requests \ {q} PROVE tk'[r] # tk'[q]
    <3>1. tk[q] \in Grants /\ owner[tk[q]] # None /\ user[r] \in Users \cup {None}
      BY <1>1, CredentialsAssumption
      DEF CredentialsAssumption, TypeInv, TypeOK, Holding, OwnInv, HeldOwn, OfUser
    <3>2. pc[r] = "fetch" => user[r] \in Users
      BY UserOK DEF TypeInv
    <3>3. QED
      BY <1>1, <3>1, <3>2, TokenChange DEF FreshInv
  <2>2. ASSUME NEW u \in Users PROVE creds'[u].grant # tk'[q]
    <3>1. tk[q] \in Grants /\ tk[q] # None
      BY <1>1, CredentialsAssumption DEF CredentialsAssumption, TypeInv, Holding
    <3>2. CASE creds'[u].grant = creds[u].grant
      BY <1>1, <3>2 DEF FreshInv
    <3>3. CASE creds'[u].grant # creds[u].grant
      <4>1. PICK p \in Requests :
               /\ user[p] = u /\ tk'[p] = tk[p]
               /\ \/ pc[p] = "store" /\ pc'[p] = "done" /\ creds'[u].grant = tk[p]
                  \/ pc[p] = "storeRefreshed" /\ creds'[u].grant = tk[p]
                  \/ pc[p] = "deleteCredentials" /\ creds'[u].grant = None
        BY <3>3, CredsChange
      <4>2. p # q
        BY <1>1, <3>1, <4>1
      <4>3. QED
        BY <1>1, <3>1, <4>1, <4>2 DEF FreshInv
    <3>4. QED
      BY <3>2, <3>3
  <2>3. QED
    BY <2>1, <2>2
<1>2. CASE /\ tk'[q] \in Grants /\ owner[tk'[q]] = None
           /\ UNCHANGED creds /\ \A r \in Requests \ {q} : tk'[r] = tk[r]
  BY <1>2, CredentialsAssumption
  DEF CredentialsAssumption, OwnInv, StoredOwn, HeldOwn, OfUser, TypeInv, TypeOK, CredsOK,
      NoToken
<1>3. QED
  BY <1>1, <1>2, StoreReached

(* Notes are only added. *)
LEMMA NotesGrow ==
    ASSUME TypeInv, [Next]_vars, NEW q \in Requests
    PROVE  notes[q] \subseteq notes'[q]
<1> USE DEF TypeInv, TypeOK, Note
<1>1. ASSUME NEW r \in Requests, Step(r) PROVE notes[q] \subseteq notes'[q]
  BY <1>1 DEF Step, Start, SetOrUpdateSession, CheckState, DeleteSession, ClearSession,
              AfterDelete, Exchange, StoreExchanged, Fetch, Decrypt, Refresh,
              StoreRefreshed, Revoke, DeleteBuildAPICredentials
<1>2. QED
  BY <1>1 DEF Next, vars, TokenExpires, DeleteExpiredSession

(* How a request comes to the end of a rescission. *)
LEMMA RescindReached ==
    ASSUME TypeInv, ControlInv, NotesInv, NotesInv', [Next]_vars, NEW r \in Requests,
           reply'[r] = "rescinded", pc'[r] \in {"deleteSession", "clearSession", "done"}
    PROVE  /\ reply[r] = "rescinded"
           /\ \/ pc[r] \in {"deleteSession", "clearSession", "done"}
              \/ creds'[user[r]] = NoToken
              \/ "DeleteCredentials" \in notes'[r]
<1> USE DEF TypeInv, TypeOK, requestVars, Go, Reply, Note
<1>1. ASSUME NEW q \in Requests, Step(q), ~DeleteBuildAPICredentials(q)
      PROVE  reply[r] = "rescinded" /\ pc[r] \in {"deleteSession", "clearSession", "done"}
  BY <1>1 DEF Step, Start, FirstCall, SetOrUpdateSession, CheckState, DeleteSession,
              ClearSession, AfterDelete, Exchange, StoreExchanged, Fetch, Decrypt, Refresh,
              StoreRefreshed, Obtained, Conclude, Revoke, NotesInv, ControlInv, FetchCalls
<1>2. ASSUME NEW q \in Requests, DeleteBuildAPICredentials(q), q # r
      PROVE  reply[r] = "rescinded" /\ pc[r] \in {"deleteSession", "clearSession", "done"}
  BY <1>2 DEF DeleteBuildAPICredentials
<1>3. ASSUME DeleteBuildAPICredentials(r)
      PROVE  /\ reply[r] = "rescinded"
             /\ creds'[user[r]] = NoToken \/ "DeleteCredentials" \in notes'[r]
  <2>1. user[r] \in Users
    BY <1>3, UserOK DEF DeleteBuildAPICredentials, TypeInv
  <2>2. QED
    BY <1>3, <2>1, OutcomesTook DEF DeleteBuildAPICredentials
<1>4. QED
  BY <1>1, <1>2, <1>3 DEF Next, vars, TokenExpires, DeleteExpiredSession

LEMMA RescindInvInductive ==
    ASSUME TypeInv, OwnInv, ControlInv, NotesInv, NotesInv', FreshInv, RescindInv,
           [Next]_vars
    PROVE  RescindInv'
<1> SUFFICES ASSUME NEW r \in Requests, reply'[r] = "rescinded",
                    pc'[r] \in {"deleteSession", "clearSession", "done"}
             PROVE  Rescinded(r)'
  BY DEF RescindInv
<1>1. /\ reply[r] = "rescinded" /\ pc[r] \notin {"idle", "fetch", "exchange"}
      /\ tk[r] # None /\ user[r] \in Users
  BY RescindReached, UserOK DEF NotesInv
<1>2. user'[r] = user[r] /\ tk'[r] = tk[r]
  BY <1>1, RequestKept, TokenChange
<1>3. ASSUME NEW q \in Requests \ {r}, tk[q] = tk[r], "Refresh" \in notes'[q],
             pc[q] \notin {"fetch", "exchange"}
      PROVE  Rescinded(r)'
  BY <1>2, <1>3, TokenChange DEF Rescinded
<1>4. CASE Rescinded(r) /\ creds'[user[r]].grant = creds[user[r]].grant
  <2>1. CASE creds[user[r]].grant # tk[r]
    BY <1>2, <1>4, <2>1 DEF Rescinded
  <2>2. CASE "DeleteCredentials" \in notes[r]
    BY <2>2, NotesGrow DEF Rescinded
  <2>3. CASE \E q \in Requests \ {r} : tk[q] = tk[r] /\ "Refresh" \in notes[q]
    BY <1>3, <2>3, NotesGrow DEF NotesInv, Refreshed
  <2>4. QED
    BY <1>4, <2>1, <2>2, <2>3 DEF Rescinded
<1>5. CASE creds'[user[r]].grant # creds[user[r]].grant
  <2>1. PICK q \in Requests :
           /\ user[q] = user[r] /\ tk'[q] = tk[q]
           /\ \/ pc[q] = "store" /\ pc'[q] = "done" /\ creds'[user[r]].grant = tk[q]
              \/ pc[q] = "storeRefreshed" /\ creds'[user[r]].grant = tk[q]
              \/ pc[q] = "deleteCredentials" /\ creds'[user[r]].grant = None
    BY <1>1, <1>5, CredsChange
  <2>2. CASE creds'[user[r]].grant # tk[r]
    BY <1>2, <2>2 DEF Rescinded
  <2>3. CASE creds'[user[r]].grant = tk[r]
    <3>1. tk[q] = tk[r] /\ q # r
      BY <1>1, <2>1, <2>3 DEF NotesInv
    <3>2. pc[q] = "storeRefreshed" /\ "Refresh" \in notes'[q]
      BY <1>1, <2>1, <2>3, <3>1, NotesGrow DEF FreshInv, NotesInv
    <3>3. QED
      BY <1>3, <3>1, <3>2
  <2>4. QED
    BY <2>2, <2>3
<1>6. CASE creds'[user[r]] = NoToken \/ "DeleteCredentials" \in notes'[r]
  BY <1>1, <1>2, <1>6 DEF Rescinded, NoToken
<1>7. QED
  BY <1>4, <1>5, <1>6, RescindReached DEF RescindInv

(* A request that may cost its user the authorization. *)
Lapsed(q) ==
    \/ handler[q] = "RescindAuthorizationHandler" /\ tk[q] # None
    \/ "Decrypt" \in notes[q]

LEMMA LapseKept ==
    ASSUME TypeInv, OwnInv, NotesInv, [Next]_vars, NEW q \in Requests, Lapsed(q)
    PROVE  Lapsed(q)' /\ user'[q] = user[q]
<1>1. pc[q] # "idle"
  BY DEF Lapsed, OwnInv, HeldSince, NotesInv
<1>2. user'[q] = user[q] /\ handler'[q] = handler[q]
  BY <1>1, RequestKept
<1>3. tk[q] # None => tk'[q] # None
  BY TokenChange, CredentialsAssumption DEF CredentialsAssumption
<1>4. QED
  BY <1>2, <1>3, NotesGrow DEF Lapsed

LEMMA KeptInductive ==
    ASSUME TypeInv, OwnInv, ControlInv, NotesInv, NotesInv', AuthorizationKept,
           [Next]_vars
    PROVE  AuthorizationKept'
<1> SUFFICES ASSUME NEW r \in Requests, reply'[r] = "authorized"
             PROVE  \/ creds'[user'[r]] # NoToken
                    \/ \E q \in Requests : /\ user'[q] = user'[r]
                                           /\ Lapsed(q)'
  BY DEF AuthorizationKept, Lapsed
<1>1. CASE reply[r] = "authorized"
  <2>1. pc[r] # "idle" /\ user[r] \in Users
    BY <1>1, UserOK DEF NotesInv
  <2>2. user'[r] = user[r]
    BY <2>1, RequestKept
  <2>3. ASSUME NEW q \in Requests, user[q] = user[r], Lapsed(q)
        PROVE  user'[q] = user'[r] /\ Lapsed(q)'
    BY <2>2, <2>3, LapseKept
  <2>4. CASE creds[user[r]] # NoToken /\ creds'[user[r]].grant = creds[user[r]].grant
    <3>1. creds[user[r]].grant # None
      BY <2>1, <2>4 DEF TypeInv, CredsOK
    <3>2. creds'[user[r]] # NoToken
      BY <2>4, <3>1 DEF NoToken
    <3>3. QED
      BY <2>2, <3>2
  <2>5. CASE creds[user[r]] # NoToken /\ creds'[user[r]].grant # creds[user[r]].grant
    <3>1. PICK q \in Requests :
             /\ user[q] = user[r] /\ tk'[q] = tk[q]
             /\ \/ pc[q] = "store" /\ pc'[q] = "done" /\ creds'[user[r]].grant = tk[q]
                \/ pc[q] = "storeRefreshed" /\ creds'[user[r]].grant = tk[q]
                \/ pc[q] = "deleteCredentials" /\ creds'[user[r]].grant = None
      BY <2>1, <2>5, CredsChange
    <3>2. CASE pc[q] \in {"store", "storeRefreshed"}
      BY <2>2, <3>1, <3>2, CredentialsAssumption
      DEF CredentialsAssumption, TypeInv, Holding, NoToken
    <3>3. CASE pc[q] = "deleteCredentials"
      BY <2>2, <3>1, <3>3, LapseKept DEF NotesInv, Lapsed
    <3>4. QED
      BY <3>1, <3>2, <3>3
  <2>6. QED
    BY <1>1, <2>3, <2>4, <2>5 DEF AuthorizationKept, Lapsed
<1>2. CASE reply[r] # "authorized"
  <2>1. ASSUME NEW q \in Requests, Step(q), ~StoreExchanged(q) PROVE FALSE
    BY <1>2, <2>1 DEF Step, Start, SetOrUpdateSession, CheckState, DeleteSession,
              ClearSession, AfterDelete, Exchange, Fetch, Decrypt, Refresh, StoreRefreshed,
              Obtained, Conclude, Revoke, DeleteBuildAPICredentials, Reply, TypeInv, TypeOK
  <2>2. PICK q \in Requests : StoreExchanged(q)
    BY <1>2, <2>1 DEF Next, vars, TokenExpires, DeleteExpiredSession
  <2>3. q = r /\ UNCHANGED user
    BY <1>2, <2>2 DEF StoreExchanged, Reply, TypeInv, TypeOK, requestVars
  <2>4. PICK call \in StoreOutcomes :
           /\ IF call.took THEN StoreBuildAPICredentials(r) ELSE UNCHANGED creds
           /\ Reply(r, IF call.ok THEN "authorized" ELSE "error")
    BY <2>2, <2>3 DEF StoreExchanged
  <2>5. StoreBuildAPICredentials(r)
    BY <2>4, OutcomesTook DEF Reply, TypeInv, TypeOK
  <2>6. tk[r] \in Grants /\ user[r] \in Users
    BY <2>2, <2>3, UserOK DEF StoreExchanged, TypeInv, Holding
  <2>7. creds'[user[r]].grant = tk[r]
    BY <2>5, <2>6 DEF StoreBuildAPICredentials, TypeInv, CredsOK
  <2>8. QED
    BY <2>3, <2>6, <2>7, CredentialsAssumption DEF CredentialsAssumption, NoToken
<1>3. QED
  BY <1>1, <1>2

LEMMA GrantInvInvariant == Spec => []GrantInv
<1>1. Init => GrantInv
  BY DEF Init, GrantInv, NotesInv, FreshInv, RescindInv, AuthorizationKept, None
<1>2. /\ TypeInv /\ OwnInv /\ SessionInv /\ GrantInv /\ [Next]_vars => GrantInv'
  BY NotesInvInductive, FreshInvInductive, RescindInvInductive, KeptInductive
  DEF SessionInv, GrantInv
<1>3. QED
  BY <1>1, <1>2, TypeInvInvariant, OwnInvInvariant, SessionInvInvariant, PTL DEF Spec

(* Once the user was told the authorization is rescinded the grant is not  *)
(* stored, but for a failed deletion or a refresh under way.               *)
THEOREM RescissionSticks == Spec => []RescindSticks
<1>1. GrantInv => RescindSticks
  BY DEF GrantInv, RescindInv, Rescinded, RescindSticks
<1>2. QED
  BY <1>1, GrantInvInvariant, PTL

(* Credentials a user was told are authorized are lost only to a rescission *)
(* or a failed decryption in a request of the same username.                *)
THEOREM AuthorizationIsKept == Spec => []AuthorizationKept
<1>1. GrantInv => AuthorizationKept
  BY DEF GrantInv
<1>2. QED
  BY <1>1, GrantInvInvariant, PTL

=============================================================================
