----------------------------- MODULE Credentials -----------------------------
(***************************************************************************)
(* Sessions and build API credentials in the cloud orchestrator.           *)
(*                                                                         *)
(* Every HTTP request runs one handler of pkg/app/app.go in a goroutine of *)
(* its own.  The handlers share the database (pkg/app/database), the       *)
(* encryption service and the OAuth2 provider, and hold no lock: each call *)
(* to one of them is a step here, and what a handler read may be stale     *)
(* when it acts on it.                                                     *)
(*                                                                         *)
(* A session's key and OAuth2State are both fresh random strings, so one   *)
(* identifier stands for the pair; a request that presents a state other   *)
(* than its session's is among those the state check turns down.  A grant  *)
(* is what the provider gave out in one exchange; refreshing a token keeps *)
(* its grant.                                                              *)
(*                                                                         *)
(* Accounts are what the provider and the proxy before the server know, by *)
(* their emails; the database knows usernames, the part of the email       *)
(* before the @, which several accounts may share.                         *)
(***************************************************************************)
EXTENDS Naturals

CONSTANTS
    Requests,   \* bound: the requests of a behaviour
    Accounts,   \* by their emails
    Users,      \* the usernames
    Username,   \* the username of each account: userFromEmail
    Sessions,   \* bound: the sessions that can be created
    Grants,     \* bound: the exchanges that can succeed
    Services,   \* the database services the server may be configured with
    Mishaps     \* what may go wrong

AllMishaps ==
    {"db",             \* a call to Spanner returns an error
     "kms",            \* encrypting, decrypting or deserializing fails
     "provider",       \* exchange, refresh or revocation fails
     "tokenExpiry",    \* stored access tokens expire
     "sessionExpiry"}  \* deleteExpiredSessions finds an old session

None == "none"

ASSUME CredentialsAssumption ==
    /\ Services \subseteq {"InMemory", "Spanner"} /\ Services # {}
    /\ Mishaps \subseteq AllMishaps
    /\ Username \in [Accounts -> Users]
    /\ None \notin Accounts \cup Users \cup Sessions \cup Grants

Handlers == {"AuthHandler", "OAuth2Callback", "DeAuthHandler",
             "RescindAuthorizationHandler", "ForwardToHost"}

VARIABLES
    service,    \* the database service the server was started with
    pc,         \* the call a request makes next
    handler,    \* the handler it runs
    account,    \* the account it was made with
    user,       \* the user UserFromRequest finds in it
    cookie,     \* the session its cookie names, None for an empty cookie
    accepted,   \* the request passed the state check
    tk,         \* the grant of the token it has at hand
    reply,      \* the outcome of the handler
    notes,      \* the deletions and decryptions of a request that failed, and
                \* whether it had the provider refresh a token
    sessions,   \* the sessions in the database
    issued,     \* the sessions ever created
    latest,     \* the one created last
    expired,    \* history: the sessions found too old and deleted
    raced,      \* history: the requests that were about to clear the slot of
                \* the in-memory database when latest was put there
    creds,      \* the credentials in the database: per user a token or NoToken
    owner,      \* the account that authorized a grant, None for an unused one
    revoked     \* the grants the provider considers revoked

requestVars == <<handler, account, user, cookie>>
sessionVars == <<sessions, issued, latest, expired, raced>>
vars == <<service, pc, requestVars, accepted, tk, reply, notes, sessionVars, creds,
          owner, revoked>>

(* A stored token, and the absence of one. *)
Token == [grant : Grants \cup {None}, expired : BOOLEAN]
NoToken == [grant |-> None, expired |-> FALSE]

(* How a call to the database can end: it succeeds, or it returns an error *)
(* and may still have taken effect.  The in-memory database returns none.  *)
DBFails == "db" \in Mishaps /\ service = "Spanner"

Outcomes ==
    {[ok |-> TRUE, took |-> TRUE]} \cup
    (IF DBFails THEN [ok : {FALSE}, took : BOOLEAN] ELSE {})

(* Keys and grants are fresh; which fresh one it is makes no difference. *)
Fresh(identifiers) == CHOOSE any \in identifiers : TRUE

Go(r, to) == pc' = [pc EXCEPT ![r] = to]
Reply(r, what) == reply' = [reply EXCEPT ![r] = what]
Note(r, what) == notes' = [notes EXCEPT ![r] = @ \cup {what}]

-----------------------------------------------------------------------------
(* pkg/app/database: sessions *)

(* The in-memory service has one slot, which is empty at first and after a *)
(* deletion, and an empty key names the empty slot; Spanner has a row per  *)
(* key.                                                                    *)
HasSession(s) ==
    IF s = None THEN service = "InMemory" /\ sessions = {} ELSE s \in sessions

(* CreateOrUpdateSession with a fresh key. *)
CreateOrUpdateSession(s) ==
    /\ s \in Sessions \ issued /\ s = Fresh(Sessions \ issued)
    /\ issued' = issued \cup {s}
    /\ latest' = s
    /\ raced' = {r \in Requests : pc[r] = "clearSession"}
    /\ UNCHANGED expired
    /\ sessions' = (IF service = "InMemory" THEN {s} ELSE sessions \cup {s})

(* deleteExpiredSessions, which Spanner's CreateOrUpdateSession starts in  *)
(* the background.                                                         *)
DeleteExpiredSession ==
    /\ "sessionExpiry" \in Mishaps
    /\ service = "Spanner"
    /\ \E s \in sessions :
        /\ sessions' = sessions \ {s}
        /\ expired' = expired \cup {s}
    /\ UNCHANGED <<pc, requestVars, accepted, tk, reply, notes, issued,
                   latest, raced, creds, owner, revoked>>

-----------------------------------------------------------------------------
(* The first step of a request *)

FirstCall ==
    [AuthHandler |-> "createSession", OAuth2Callback |-> "checkState",
     DeAuthHandler |-> "fetch", RescindAuthorizationHandler |-> "checkState",
     ForwardToHost |-> "fetch"]

(* The username of the account a request is made with. *)
UserFromRequest(a) == IF a = None THEN None ELSE Username[a]

(* Authenticate passes the request on with the user of its account (only   *)
(* AuthHandler asks for none); the browser presents the cookie of a session *)
(* it was given, or an empty one.                                          *)
Start(r) ==
    /\ pc[r] = "idle"
    /\ \E h \in Handlers, a \in Accounts \cup {None}, s \in issued \cup {None} :
        /\ a = None <=> h = "AuthHandler"
        /\ s # None => FirstCall[h] = "checkState"
        /\ handler' = [handler EXCEPT ![r] = h]
        /\ account' = [account EXCEPT ![r] = a]
        /\ user' = [user EXCEPT ![r] = UserFromRequest(a)]
        /\ cookie' = [cookie EXCEPT ![r] = s]
        /\ Go(r, FirstCall[h])
    /\ UNCHANGED <<accepted, tk, reply, notes, sessionVars, creds, owner,
                   revoked>>

-----------------------------------------------------------------------------
(* Steps of the handlers on sessions *)

(* AuthHandler, and the end of DeAuthHandler: setOrUpdateSession. *)
SetOrUpdateSession(r) ==
    /\ pc[r] = "createSession"
    /\ Go(r, "done")
    /\ \E call \in Outcomes :
        /\ IF call.took
           THEN \E s \in Sessions : CreateOrUpdateSession(s)
           ELSE UNCHANGED sessionVars
        /\ Reply(r, IF call.ok THEN "page" ELSE "error")
    /\ UNCHANGED <<requestVars, accepted, tk, notes, creds, owner, revoked>>

(* parseAuthorizationResponse and the start of RescindAuthorizationHandler: *)
(* the session is fetched and its state compared.  The in-memory           *)
(* FetchSession reads the slot twice, for the key and for the session it   *)
(* returns; as keys and states are fresh a request is accepted only if its *)
(* session is there the second time, which is this step.  The callback may *)
(* find no code in the response, which it notices after the check.         *)
CheckState(r) ==
    /\ pc[r] = "checkState"
    /\ \/ /\ HasSession(cookie[r])
          /\ accepted' = [accepted EXCEPT ![r] = TRUE]
          /\ \/ /\ handler[r] = "OAuth2Callback"
                /\ Go(r, "deleteSession")
                /\ Reply(r, "error") \/ UNCHANGED reply
             \/ /\ handler[r] = "RescindAuthorizationHandler"
                /\ Go(r, "fetch")
                /\ UNCHANGED reply
       \/ /\ Go(r, "done")
          /\ Reply(r, "error")
          /\ UNCHANGED accepted
    /\ UNCHANGED <<requestVars, tk, notes, sessionVars, creds, owner, revoked>>

(* Where a handler continues after the deferred DeleteSession. *)
AfterDelete(r) == IF reply[r] = None THEN "exchange" ELSE "done"

(* Mutant of DeleteSession: the key is not compared. *)
DeleteAnySession(r) ==
    /\ pc[r] = "deleteSession"
    /\ \/ /\ service = "Spanner"
          /\ Go(r, AfterDelete(r))
          /\ \E call \in Outcomes :
              /\ IF call.took THEN sessions' = {} ELSE UNCHANGED sessions
              /\ IF call.ok THEN UNCHANGED notes ELSE Note(r, "DeleteSession")
       \/ /\ service = "InMemory"
          /\ Go(r, "clearSession")
          /\ UNCHANGED <<sessions, notes>>
    /\ UNCHANGED <<requestVars, accepted, tk, reply, issued, latest, expired, raced,
                   creds, owner, revoked>>

(* DeleteSession, whose error is dropped.  Spanner deletes the row of the  *)
(* key; the in-memory service compares the key, and if it is that of the   *)
(* slot's session, clears the slot next, whatever it holds by then.        *)
DeleteSession(r) ==
    /\ pc[r] = "deleteSession"
    /\ \/ /\ service = "Spanner"
          /\ Go(r, AfterDelete(r))
          /\ \E call \in Outcomes :
              /\ sessions' = (IF call.took THEN sessions \ {cookie[r]} ELSE sessions)
              /\ IF call.ok THEN UNCHANGED notes ELSE Note(r, "DeleteSession")
       \/ /\ service = "InMemory"
          /\ Go(r, IF HasSession(cookie[r]) THEN "clearSession" ELSE AfterDelete(r))
          /\ UNCHANGED <<sessions, notes>>
    /\ UNCHANGED <<requestVars, accepted, tk, reply, issued, latest, expired, raced,
                   creds, owner, revoked>>

ClearSession(r) ==
    /\ pc[r] = "clearSession"
    /\ sessions' = {}
    /\ Go(r, AfterDelete(r))
    /\ UNCHANGED <<requestVars, accepted, tk, reply, notes, issued, latest, expired,
                   raced, creds, owner, revoked>>

-----------------------------------------------------------------------------
(* The rest of OAuth2Callback *)

Unused(g) == owner[g] = None /\ g = Fresh({x \in Grants : owner[x] = None})

(* Mutant of Exchange: the two accounts are not compared. *)
ExchangeUnchecked(r) ==
    /\ pc[r] = "exchange"
    /\ \E g \in Grants, a \in Accounts :
        /\ Unused(g)
        /\ owner' = [owner EXCEPT ![g] = a]
        /\ tk' = [tk EXCEPT ![r] = g]
        /\ Go(r, "store")
    /\ UNCHANGED <<requestVars, accepted, reply, notes, sessionVars, creds,
                   revoked>>

(* Exchange, then OnOAuth2Exchange: the account that authorized the grant  *)
(* must be the one logged in; their emails are compared.                   *)
Exchange(r) ==
    /\ pc[r] = "exchange"
    /\ \/ \E g \in Grants, a \in Accounts :
            /\ Unused(g)
            /\ owner' = [owner EXCEPT ![g] = a]
            /\ IF a = account[r]
               THEN /\ tk' = [tk EXCEPT ![r] = g]
                    /\ Go(r, "store")
                    /\ UNCHANGED reply
               ELSE /\ Go(r, "done")
                    /\ Reply(r, "error")
                    /\ UNCHANGED tk
       \/ /\ "provider" \in Mishaps
          /\ Go(r, "done")
          /\ Reply(r, "error")
          /\ UNCHANGED <<owner, tk>>
    /\ UNCHANGED <<requestVars, accepted, notes, sessionVars, creds, revoked>>

(* storeUserCredentials: encrypt and write, under the username. *)
StoreOutcomes ==
    Outcomes \cup (IF "kms" \in Mishaps THEN {[ok |-> FALSE, took |-> FALSE]} ELSE {})

StoreBuildAPICredentials(r) ==
    creds' = [creds EXCEPT ![user[r]] = [grant |-> tk[r], expired |-> FALSE]]

StoreExchanged(r) ==
    /\ pc[r] = "store"
    /\ Go(r, "done")
    /\ \E call \in StoreOutcomes :
        /\ IF call.took THEN StoreBuildAPICredentials(r) ELSE UNCHANGED creds
        /\ Reply(r, IF call.ok THEN "authorized" ELSE "error")
    /\ UNCHANGED <<requestVars, accepted, tk, notes, sessionVars, owner,
                   revoked>>

-----------------------------------------------------------------------------
(* fetchUserCredentials, and where its callers continue *)

(* The handler ends with an outcome, after the deferred calls it set up. *)
Conclude(r, what) ==
    /\ Reply(r, what)
    /\ Go(r, IF handler[r] = "RescindAuthorizationHandler"
             THEN "deleteSession" ELSE "done")

(* The caller goes on with the token it asked for. *)
Obtained(r) ==
    \/ /\ handler[r] = "ForwardToHost"
       /\ Conclude(r, "injected")
    \/ /\ handler[r] = "DeAuthHandler"
       /\ Go(r, "createSession")
       /\ UNCHANGED reply
    \/ /\ handler[r] = "RescindAuthorizationHandler"
       /\ Go(r, "revoke")
       /\ UNCHANGED reply

(* Mutant of Fetch: absent credentials are decrypted like any others. *)
FetchUnchecked(r) ==
    /\ pc[r] = "fetch"
    /\ tk' = [tk EXCEPT ![r] = creds[user[r]].grant]
    /\ Go(r, IF creds[user[r]].expired THEN "decryptExpired" ELSE "decrypt")
    /\ UNCHANGED <<requestVars, accepted, reply, notes, sessionVars, creds,
                   owner, revoked>>

(* FetchBuildAPICredentials returns what is stored now; it is worked on    *)
(* in the following steps, whatever happens to the database meanwhile.     *)
Fetch(r) ==
    /\ pc[r] = "fetch"
    /\ \/ /\ creds[user[r]] = NoToken
          /\ Conclude(r, "noCredentials")
          /\ UNCHANGED tk
       \/ /\ creds[user[r]] # NoToken
          /\ tk' = [tk EXCEPT ![r] = creds[user[r]].grant]
          /\ Go(r, IF creds[user[r]].expired THEN "decryptExpired" ELSE "decrypt")
          /\ UNCHANGED reply
       \/ /\ DBFails
          /\ Conclude(r, "error")
          /\ UNCHANGED tk
    /\ UNCHANGED <<requestVars, accepted, notes, sessionVars, creds, owner,
                   revoked>>

(* Decrypt and Unmarshal.  When they fail the credentials are deleted.     *)
Decrypt(r) ==
    /\ pc[r] \in {"decrypt", "decryptExpired"}
    /\ \/ /\ pc[r] = "decrypt"
          /\ Obtained(r)
          /\ UNCHANGED notes
       \/ /\ pc[r] = "decryptExpired"
          /\ Go(r, "refresh")
          /\ UNCHANGED <<reply, notes>>
       \/ /\ "kms" \in Mishaps
          /\ Note(r, "Decrypt")
          /\ Reply(r, "error")
          /\ Go(r, "deleteCredentials")
    /\ UNCHANGED <<requestVars, accepted, tk, sessionVars, creds, owner, revoked>>

(* Mutant of Refresh: a refresh that fails deletes the credentials, as a    *)
(* decryption that fails does.                                             *)
RefreshOrDelete(r) ==
    /\ pc[r] = "refresh"
    /\ \/ /\ tk[r] \notin revoked
          /\ Go(r, "storeRefreshed")
          /\ Note(r, "Refresh")
          /\ UNCHANGED reply
       \/ /\ tk[r] \in revoked \/ "provider" \in Mishaps
          /\ Reply(r, "error")
          /\ Go(r, "deleteCredentials")
          /\ UNCHANGED notes
    /\ UNCHANGED <<requestVars, accepted, tk, sessionVars, creds, owner, revoked>>

(* The token source trades an expired token for a new one of its grant. *)
Refresh(r) ==
    /\ pc[r] = "refresh"
    /\ \/ /\ tk[r] \notin revoked
          /\ Go(r, "storeRefreshed")
          /\ Note(r, "Refresh")
          /\ UNCHANGED reply
       \/ /\ tk[r] \in revoked \/ "provider" \in Mishaps
          /\ Conclude(r, "error")
          /\ UNCHANGED notes
    /\ UNCHANGED <<requestVars, accepted, tk, sessionVars, creds, owner, revoked>>

(* The refreshed token is stored; a failure is logged and ignored. *)
StoreRefreshed(r) ==
    /\ pc[r] = "storeRefreshed"
    /\ Obtained(r)
    /\ \E call \in StoreOutcomes :
        IF call.took THEN StoreBuildAPICredentials(r) ELSE UNCHANGED creds
    /\ UNCHANGED <<requestVars, accepted, tk, notes, sessionVars, owner,
                   revoked>>

-----------------------------------------------------------------------------
(* The rest of RescindAuthorizationHandler *)

(* Mutant of Revoke: a revoked grant is left in the database. *)
RevokeAndKeep(r) ==
    /\ pc[r] = "revoke"
    /\ Go(r, "deleteSession")
    /\ \/ Reply(r, "rescinded") /\ revoked' = revoked \cup {tk[r]}
       \/ "provider" \in Mishaps /\ Reply(r, "error") /\ UNCHANGED revoked
    /\ UNCHANGED <<requestVars, accepted, tk, notes, sessionVars, creds, owner>>

(* Revoke looks at no status code: the provider may not have revoked the   *)
(* grant although no error is returned.  The deferred deletions follow     *)
(* either way.                                                             *)
Revoke(r) ==
    /\ pc[r] = "revoke"
    /\ Go(r, "deleteCredentials")
    /\ \/ Reply(r, "rescinded") /\ revoked' = revoked \cup {tk[r]}
       \/ /\ "provider" \in Mishaps
          /\ Reply(r, "error") \/ Reply(r, "rescinded")
          /\ revoked' \in {revoked, revoked \cup {tk[r]}}
    /\ UNCHANGED <<requestVars, accepted, tk, notes, sessionVars, creds, owner>>

(* DeleteBuildAPICredentials, deferred by the rescission or after a failed *)
(* decryption: whatever is stored for the user by now is deleted.  A       *)
(* failure is logged and ignored.                                          *)
DeleteBuildAPICredentials(r) ==
    /\ pc[r] = "deleteCredentials"
    /\ Go(r, IF handler[r] = "RescindAuthorizationHandler"
             THEN "deleteSession" ELSE "done")
    /\ \E call \in Outcomes :
        /\ IF call.took
           THEN creds' = [creds EXCEPT ![user[r]] = NoToken]
           ELSE UNCHANGED creds
        /\ IF call.ok THEN UNCHANGED notes ELSE Note(r, "DeleteCredentials")
    /\ UNCHANGED <<requestVars, accepted, tk, reply, sessionVars, owner, revoked>>

(* Time passes: the access token in the database expires. *)
TokenExpires(u) ==
    /\ "tokenExpiry" \in Mishaps
    /\ creds[u] # NoToken
    /\ creds' = [creds EXCEPT ![u] = [grant |-> @.grant, expired |-> TRUE]]
    /\ UNCHANGED <<pc, requestVars, accepted, tk, reply, notes, sessionVars,
                   owner, revoked>>

-----------------------------------------------------------------------------
Init ==
    /\ service \in Services
    /\ pc = [r \in Requests |-> "idle"]
    /\ handler = [r \in Requests |-> None]
    /\ account = [r \in Requests |-> None]
    /\ user = [r \in Requests |-> None]
    /\ cookie = [r \in Requests |-> None]
    /\ accepted = [r \in Requests |-> FALSE]
    /\ tk = [r \in Requests |-> None]
    /\ reply = [r \in Requests |-> None]
    /\ notes = [r \in Requests |-> {}]
    /\ sessions = {}
    /\ issued = {}
    /\ latest = None
    /\ expired = {}
    /\ raced = {}
    /\ creds = [u \in Users |-> NoToken]
    /\ owner = [g \in Grants |-> None]
    /\ revoked = {}

Step(r) ==
    \/ Start(r) \/ SetOrUpdateSession(r) \/ CheckState(r) \/ DeleteSession(r)
    \/ ClearSession(r) \/ Exchange(r) \/ StoreExchanged(r)
    \/ Fetch(r) \/ Decrypt(r) \/ Refresh(r) \/ StoreRefreshed(r)
    \/ Revoke(r) \/ DeleteBuildAPICredentials(r)

Next ==
    /\ UNCHANGED service
    /\ \/ \E r \in Requests : Step(r)
       \/ \E u \in Users : TokenExpires(u)
       \/ DeleteExpiredSession

Spec == Init /\ [][Next]_vars

-----------------------------------------------------------------------------
(* Properties *)

Calls == {"idle", "createSession", "checkState", "deleteSession", "clearSession",
          "exchange", "store", "fetch", "decrypt", "decryptExpired", "refresh",
          "storeRefreshed", "revoke", "deleteCredentials", "done"}
Replies == {None, "error", "page", "authorized", "noCredentials", "injected",
            "rescinded"}
Notes == {"DeleteSession", "DeleteCredentials", "Decrypt", "Refresh"}

(* Every variable has its type: the type invariant of the module. *)
TypeOK ==
    /\ service \in Services
    /\ pc \in [Requests -> Calls]
    /\ handler \in [Requests -> Handlers \cup {None}]
    /\ account \in [Requests -> Accounts \cup {None}]
    /\ user \in [Requests -> Users \cup {None}]
    /\ cookie \in [Requests -> Sessions \cup {None}]
    /\ accepted \in [Requests -> BOOLEAN]
    /\ tk \in [Requests -> Grants \cup {None}]
    /\ reply \in [Requests -> Replies]
    /\ notes \in [Requests -> SUBSET Notes]
    /\ sessions \subseteq Sessions /\ issued \subseteq Sessions
    /\ latest \in Sessions \cup {None}
    /\ expired \subseteq Sessions /\ raced \subseteq Requests
    /\ creds \in [Users -> Token]
    /\ owner \in [Grants -> Accounts \cup {None}]
    /\ revoked \subseteq Grants

(* What is stored for a user, and what ForwardToHost adds to a user's       *)
(* request, was authorized by an account of that username, whoever else is  *)
(* logging in; and a request that was told its authorization succeeded      *)
(* stored what its own account authorized.  Accounts that share a username  *)
(* share the credentials: emails are compared, usernames are the key.       *)
OfUser(g, u) == owner[g] # None /\ Username[owner[g]] = u

OwnTokens ==
    /\ \A u \in Users : creds[u] # NoToken => OfUser(creds[u].grant, u)
    /\ \A r \in Requests : reply[r] = "injected" => OfUser(tk[r], user[r])
    /\ \A r \in Requests : reply[r] = "authorized" => owner[tk[r]] = account[r]

(* Sessions are redeemed once and not lost.  One a finished request was     *)
(* accepted with is gone for good, unless deleting it failed, so no later   *)
(* request is accepted with it.  And deleting a session deletes no other:   *)
(* whatever was created in Spanner can be redeemed until it expired or some *)
(* request was accepted with it.  The in-memory database keeps one session, *)
(* and that one as well, unless a request that had compared its own key     *)
(* before the session was created cleared the slot after.                   *)
SessionConsumed ==
    \A r \in Requests :
        accepted[r] /\ pc[r] = "done" /\ "DeleteSession" \notin notes[r] =>
            cookie[r] \notin sessions

Redeemable(s) ==
    s \in sessions \/ \E r \in Requests : accepted[r] /\ cookie[r] = s

SessionsKept ==
    /\ service = "Spanner" => \A s \in issued : Redeemable(s) \/ s \in expired
    /\ service = "InMemory" /\ latest # None =>
          Redeemable(latest) \/ \E r \in raced : pc[r] # "clearSession"

SessionsRedeemed == SessionConsumed /\ SessionsKept

(* Credentials a user was told are authorized are lost only to a rescission *)
(* or a failed decryption in a request of the same username, of whichever   *)
(* account, never to the failure of another request or of a refresh.        *)
AuthorizationKept ==
    \A r \in Requests : reply[r] = "authorized" =>
        \/ creds[user[r]] # NoToken
        \/ \E q \in Requests :
              /\ user[q] = user[r]
              /\ \/ handler[q] = "RescindAuthorizationHandler" /\ tk[q] # None
                 \/ "Decrypt" \in notes[q]

(* The page of DeAuthHandler: the action removes the authorization until    *)
(* the user authorizes again.  Once a request has answered "Authorization   *)
(* rescinded" the grant is not stored, unless deleting it failed, or        *)
(* another request read the grant before, had it refreshed, and stored it   *)
(* again: fetchUserCredentials does not look whether what it read is still  *)
(* there.                                                                   *)
RescindSticks ==
    \A r \in Requests : reply[r] = "rescinded" /\ pc[r] = "done" =>
        \/ creds[user[r]].grant # tk[r]
        \/ "DeleteCredentials" \in notes[r]
        \/ \E q \in Requests \ {r} : tk[q] = tk[r] /\ "Refresh" \in notes[q]

=============================================================================
