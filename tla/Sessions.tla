------------------------------ MODULE Sessions ------------------------------
(***************************************************************************)
(* Accounts and sessions (src/src/auth, src/src/session, src/src/otp,      *)
(* src/src/admin): sign-up and e-mail verification, login, refresh-token   *)
(* rotation, logout, password reset, suspension, deletion and restoration, *)
(* and the guard of every authenticated request, for one account with      *)
(* several requests in flight.                                             *)
(*                                                                         *)
(* The users and sessions tables are the truth; Redis holds a cache of     *)
(* sessions by refresh token, a cache of the account's token version and   *)
(* the one-time codes.  Every statement or transaction on Postgres and     *)
(* every operation on Redis is a step of its own.                          *)
(***************************************************************************)
EXTENDS Naturals, FiniteSets

CONSTANTS
    Procs,         \* requests in flight
    None,
    MaxActive,     \* AUTH.maxActiveSessions
    MaxSessions,   \* bound on the sessions created
    MaxRequests    \* bound on the requests served

ASSUME SessionConstants ==
    /\ MaxActive \in Nat \ {0}
    /\ {MaxSessions, MaxRequests} \subseteq Nat
    /\ None \notin Procs \cup Nat

VARIABLES
    account,       \* the users row
    sessions,      \* the sessions rows, in the order of created_at
    issued,        \* refresh tokens generated so far
    access,        \* the token versions of the access tokens signed
    sessionCache,  \* session:refresh:<token>
    versionCache,  \* auth:user-token-version:<user>
    codes,         \* the one-time codes that are stored
    lock,          \* lock:session:user:<user>
    lockLost,      \* the lock's TTL has run out under its holder
    req,           \* the locals of each request
    served

tables == <<account, sessions>>
redis == <<sessionCache, versionCache, codes>>
guard == <<lock, lockLost>>
vars == <<tables, issued, access, redis, guard, req, served>>

Ids == 1..MaxSessions
Tokens == Nat
Versions == Nat

Account == [exists : BOOLEAN, password : BOOLEAN, verified : BOOLEAN,
            suspended : BOOLEAN, deleted : BOOLEAN, version : Versions]
Session == [state : {"unused", "active", "revoked", "expired"},
            token : Tokens \cup {None}]
PCs == {"idle", "createUser", "sendCode", "verify", "deleteCode",
        "oauth", "acquire", "count", "select", "insert", "evict", "store", "sign",
        "readUser", "acquireRotate", "rotate", "dropOld", "reset", "settle",
        "suspend", "activate", "restore", "guardUser", "guardUncached", "refused",
        "accepted", "served"}
Tasks == {"session", "version", "code"}

(* What a request carries: the refresh token it was sent, the session it   *)
(* works on, the session's new token, the token version it read, whether   *)
(* it answers with an access token, the session it replaces, the cached    *)
(* tokens it has still to delete, and what else is left of a Promise.all.  *)
Locals == [pc : PCs, token : Tokens \cup {None}, id : Ids \cup {None},
           next : Tokens \cup {None}, version : Versions \cup {None},
           signs : BOOLEAN, revoke : Ids \cup {None}, drop : SUBSET Tokens,
           left : SUBSET Tasks]

Idle == [pc |-> "idle", token |-> None, id |-> None, next |-> None,
         version |-> None, signs |-> FALSE, revoke |-> None, drop |-> {},
         left |-> {}]

TypeOK ==
    /\ account \in Account
    /\ sessions \in [Ids -> Session]
    /\ issued \in Tokens
    /\ access \subseteq Versions
    /\ sessionCache \subseteq [token : Tokens, id : Ids]
    /\ versionCache \in Versions \cup {None}
    /\ codes \subseteq {"verify", "reset"}
    /\ lock \in Procs \cup {None}
    /\ lockLost \in BOOLEAN
    /\ req \in [Procs -> Locals]
    /\ served \in 0..MaxRequests

Init ==
    /\ account = [exists |-> FALSE, password |-> FALSE, verified |-> FALSE,
                  suspended |-> FALSE, deleted |-> FALSE, version |-> 0]
    /\ sessions = [s \in Ids |-> [state |-> "unused", token |-> None]]
    /\ issued = 0
    /\ access = {}
    /\ sessionCache = {}
    /\ versionCache = None
    /\ codes = {}
    /\ lock = None
    /\ lockLost = FALSE
    /\ req = [p \in Procs |-> Idle]
    /\ served = 0

---------------------------------------------------------------------------
At(p, where) == req[p].pc = where
Goto(p, where) == req' = [req EXCEPT ![p].pc = where]
Become(p, l) == req' = [req EXCEPT ![p] = l]
End(p) == Become(p, Idle)

(* The operations of a Promise.all end in any order; the request goes on   *)
(* from its locals l when none is left.                                    *)
Settle(p, l) ==
    Become(p, IF l.left # {} \/ l.drop # {} THEN l
              ELSE IF l.signs THEN [l EXCEPT !.pc = "sign"] ELSE Idle)

Arrive(p) ==
    /\ At(p, "idle")
    /\ served < MaxRequests
    /\ served' = served + 1

(* The conditions of login, refresh, OAuth login and the guard.            *)
Usable == account.exists /\ account.verified /\ ~account.suspended /\ ~account.deleted

(* countActiveSessions, findActiveSessionByRefreshTokenHash *)
ActiveSessions == {s \in Ids : sessions[s].state = "active"}

(* The sessions rows once those in S are revoked.                          *)
Revoke(S) == [s \in Ids |-> IF s \in S THEN [sessions[s] EXCEPT !.state = "revoked"]
                            ELSE sessions[s]]

(* revokeUserSessions revokes every row that is not, expired ones too.     *)
Unrevoked == {s \in Ids : sessions[s].state \in {"active", "expired"}}

(* The Redis lock of withUserSessionLock: SET NX with a TTL of ten         *)
(* seconds, deleted only by its holder.                                    *)
Acquire(p) == lock = None /\ lock' = p
Release(p) == lock' = IF lock = p THEN None ELSE lock

InLock == {"count", "select", "insert", "rotate"}

(* The lock expires, whether or not its holder is done.                    *)
LockExpires ==
    /\ lock # None
    /\ lock' = None
    /\ lockLost' = (lockLost \/ req[lock].pc \in InLock)
    /\ UNCHANGED <<tables, issued, access, redis, req, served>>

---------------------------------------------------------------------------
(* Sign-up and verification *)

(* signup reads the e-mail: an unverified account with a password gets a   *)
(* new code, any other existing one is a conflict.                         *)
Signup(p) ==
    /\ Arrive(p)
    /\ account.exists => account.password /\ ~account.verified
    /\ Goto(p, IF account.exists THEN "sendCode" ELSE "createUser")
    /\ UNCHANGED <<tables, issued, access, redis, guard>>

(* createUser; the loser of two sign-ups violates the unique index.        *)
CreateUser(p) ==
    /\ At(p, "createUser")
    /\ IF account.exists
       THEN End(p) /\ UNCHANGED account
       ELSE /\ account' = [account EXCEPT !.exists = TRUE, !.password = TRUE]
            /\ Goto(p, "sendCode")
    /\ UNCHANGED <<sessions, issued, access, redis, guard, served>>

(* sendEmailVerificationOtp stores the code over any earlier one.          *)
SendCode(p) ==
    /\ At(p, "sendCode")
    /\ codes' = codes \cup {"verify"}
    /\ End(p)
    /\ UNCHANGED <<tables, issued, access, sessionCache, versionCache, guard, served>>

(* resendEmailVerification, and a login before the verification.           *)
ResendVerification(p) ==
    /\ Arrive(p)
    /\ account.exists /\ ~account.verified
    /\ Goto(p, "sendCode")
    /\ UNCHANGED <<tables, issued, access, redis, guard>>

VerifyEmail(p) ==
    /\ Arrive(p)
    /\ account.exists /\ ~account.verified
    /\ "verify" \in codes
    /\ Goto(p, "verify")
    /\ UNCHANGED <<tables, issued, access, redis, guard>>

MarkVerified(p) ==
    /\ At(p, "verify")
    /\ account' = [account EXCEPT !.verified = TRUE]
    /\ Goto(p, "deleteCode")
    /\ UNCHANGED <<sessions, issued, access, redis, guard, served>>

DeleteCode(p) ==
    /\ At(p, "deleteCode")
    /\ codes' = codes \ {"verify"}
    /\ End(p)
    /\ UNCHANGED <<tables, issued, access, sessionCache, versionCache, guard, served>>

---------------------------------------------------------------------------
(* Logging in *)

(* login: the account as the request read it, its token version included.  *)
Login(p) ==
    /\ Arrive(p)
    /\ Usable /\ account.password
    /\ Become(p, [Idle EXCEPT !.pc = "acquire", !.version = account.version,
                              !.signs = TRUE])
    /\ UNCHANGED <<tables, issued, access, redis, guard>>

(* loginOrCreateOAuthUser reads the account by provider or by e-mail.      *)
OAuthLogin(p) ==
    /\ Arrive(p)
    /\ ~account.suspended /\ ~account.deleted
    /\ Become(p, [Idle EXCEPT !.pc = "oauth",
                              !.version = IF account.exists THEN account.version ELSE None])
    /\ UNCHANGED <<tables, issued, access, redis, guard>>

(* The transaction links the provider and marks the e-mail verified, or    *)
(* creates a verified account without a password; a creation that finds    *)
(* the account there violates the unique index.                            *)
LinkOAuthUser(p) ==
    /\ At(p, "oauth")
    /\ \/ /\ req[p].version # None
          /\ account' = [account EXCEPT !.verified = TRUE]
          /\ Goto(p, "acquire")
       \/ /\ req[p].version = None /\ ~account.exists
          /\ account' = [account EXCEPT !.exists = TRUE, !.verified = TRUE]
          /\ Become(p, [req[p] EXCEPT !.pc = "acquire", !.version = account.version])
       \/ /\ req[p].version = None /\ account.exists
          /\ End(p)
          /\ UNCHANGED account
    /\ UNCHANGED <<sessions, issued, access, redis, guard, served>>

(* Mutant: the session is created without the lock.                        *)
LockSessionsFree(p) ==
    /\ At(p, "acquire")
    /\ Goto(p, "count")
    /\ UNCHANGED <<tables, issued, access, redis, guard, served>>

(* createSessionForUser takes the session lock of the account.             *)
LockSessions(p) ==
    /\ At(p, "acquire")
    /\ Acquire(p)
    /\ Goto(p, "count")
    /\ UNCHANGED <<tables, issued, access, redis, lockLost, served>>

(* countActiveSessions decides whether a session has to go.                *)
CountSessions(p) ==
    /\ At(p, "count")
    /\ Goto(p, IF Cardinality(ActiveSessions) >= MaxActive THEN "select" ELSE "insert")
    /\ UNCHANGED <<tables, issued, access, redis, guard, served>>

(* revokeOldestActiveSession chooses by created_at.                        *)
Oldest(s) == s \in ActiveSessions /\ \A t \in ActiveSessions : s <= t

(* It selects the row, and with it the token whose cached entry is to be   *)
(* deleted; since the count every session may have ended.                  *)
SelectOldest(p) ==
    /\ At(p, "select")
    /\ \/ ActiveSessions = {} /\ Goto(p, "insert")
       \/ \E s \in Ids :
            /\ Oldest(s)
            /\ Become(p, [req[p] EXCEPT !.pc = "insert", !.revoke = s,
                                        !.drop = {sessions[s].token}])
    /\ UNCHANGED <<tables, issued, access, redis, guard, served>>

NextId(s) == /\ sessions[s].state = "unused"
             /\ \A t \in Ids : t < s => sessions[t].state # "unused"

(* The transaction revokes that session, inserts the new one, commits and  *)
(* releases the lock.                                                      *)
InsertSession(p) ==
    /\ At(p, "insert")
    /\ issued' = issued + 1
    /\ \E s \in Ids :
         /\ NextId(s)
         /\ sessions' = [Revoke({req[p].revoke} \cap Ids)
                            EXCEPT ![s] = [state |-> "active", token |-> issued + 1]]
         /\ Become(p, [req[p] EXCEPT !.pc = IF req[p].revoke = None THEN "store" ELSE "evict",
                                     !.id = s, !.next = issued + 1,
                                     !.left = {"session", "version"}])
    /\ Release(p)
    /\ UNCHANGED <<account, access, redis, lockLost, served>>

EvictRevoked(p) ==
    /\ At(p, "evict")
    /\ sessionCache' = {e \in sessionCache : e.token \notin req[p].drop}
    /\ Become(p, [req[p] EXCEPT !.pc = "store", !.drop = {}])
    /\ UNCHANGED <<tables, issued, access, versionCache, codes, guard, served>>

(* storeSession and the token version as the request read it, together; an *)
(* OAuth callback ends here, with a refresh token only.                    *)
StoreSession(p) ==
    /\ At(p, "store") /\ "session" \in req[p].left
    /\ sessionCache' = sessionCache \cup {[token |-> req[p].next, id |-> req[p].id]}
    /\ Settle(p, [req[p] EXCEPT !.left = @ \ {"session"}])
    /\ UNCHANGED <<tables, issued, access, versionCache, codes, guard, served>>

(* A refresh awaits storeSession first.                                    *)
SetTokenVersion(p) ==
    /\ req[p].pc \in {"store", "settle"} /\ "version" \in req[p].left
    /\ req[p].token # None => "session" \notin req[p].left
    /\ versionCache' = req[p].version
    /\ Settle(p, [req[p] EXCEPT !.left = @ \ {"version"}])
    /\ UNCHANGED <<tables, issued, access, sessionCache, codes, guard, served>>

(* signAsync: the access token carries the version the request read.       *)
SignAccessToken(p) ==
    /\ At(p, "sign")
    /\ access' = access \cup {req[p].version}
    /\ End(p)
    /\ UNCHANGED <<tables, issued, redis, guard, served>>

---------------------------------------------------------------------------
(* Refreshing and logging out *)

(* refresh finds the session in the cache, or else an active row.          *)
Refresh(p, t) ==
    /\ Arrive(p)
    /\ t <= issued
    /\ \E s \in Ids :
         /\ \/ [token |-> t, id |-> s] \in sessionCache
            \/ /\ \A e \in sessionCache : e.token # t
               /\ s \in ActiveSessions /\ sessions[s].token = t
         /\ Become(p, [Idle EXCEPT !.pc = "readUser", !.token = t, !.id = s,
                                   !.signs = TRUE])
    /\ UNCHANGED <<tables, issued, access, redis, guard>>

(* Mutant: the version read with the user is not kept.                     *)
ReadUserForgetsVersion(p) ==
    /\ At(p, "readUser")
    /\ IF Usable THEN Goto(p, "acquireRotate") ELSE End(p)
    /\ UNCHANGED <<tables, issued, access, redis, guard, served>>

ReadUser(p) ==
    /\ At(p, "readUser")
    /\ IF Usable
       THEN Become(p, [req[p] EXCEPT !.pc = "acquireRotate", !.version = account.version])
       ELSE End(p)
    /\ UNCHANGED <<tables, issued, access, redis, guard, served>>

LockForRotation(p) ==
    /\ At(p, "acquireRotate")
    /\ Acquire(p)
    /\ Goto(p, "rotate")
    /\ UNCHANGED <<tables, issued, access, redis, lockLost, served>>

(* Mutants: the update is by the session's id alone, or by its token alone.*)
RotatableById(p) == sessions[req[p].id].state = "active"
RotatableByToken(p) == sessions[req[p].id].token = req[p].token

(* The conditions of rotateSessionRefreshToken's update.                   *)
Rotatable(p) ==
    /\ sessions[req[p].id].token = req[p].token
    /\ sessions[req[p].id].state = "active"

RotateSession(p) ==
    /\ At(p, "rotate")
    /\ Release(p)
    /\ \/ /\ Rotatable(p)
          /\ issued' = issued + 1
          /\ sessions' = [sessions EXCEPT ![req[p].id].token = issued + 1]
          /\ Become(p, [req[p] EXCEPT !.pc = "dropOld", !.next = issued + 1,
                                     !.left = {"session", "version"}])
       \/ /\ ~Rotatable(p)
          /\ End(p)
          /\ UNCHANGED <<sessions, issued>>
    /\ UNCHANGED <<account, access, redis, lockLost, served>>

DropRotated(p) ==
    /\ At(p, "dropOld")
    /\ sessionCache' = {e \in sessionCache : e.token # req[p].token}
    /\ Goto(p, "store")
    /\ UNCHANGED <<tables, issued, access, versionCache, codes, guard, served>>

(* logout: revokeSession by token, then the cached entry.                  *)
Logout(p, t) ==
    /\ Arrive(p)
    /\ t <= issued
    /\ sessions' = Revoke({s \in Unrevoked : sessions[s].token = t})
    /\ Become(p, [Idle EXCEPT !.pc = "settle", !.drop = {t}])
    /\ UNCHANGED <<account, issued, access, redis, guard>>

(* The cached entries of revoked sessions are deleted in any order.        *)
DropCached(p) ==
    /\ At(p, "settle")
    /\ \E t \in req[p].drop :
         /\ sessionCache' = {e \in sessionCache : e.token # t}
         /\ Settle(p, [req[p] EXCEPT !.drop = @ \ {t}])
    /\ UNCHANGED <<tables, issued, access, versionCache, codes, guard, served>>

---------------------------------------------------------------------------
(* Operations that revoke every session of the account *)

Dropped(p, S) ==
    IF S = {} THEN End(p)
    ELSE Become(p, [Idle EXCEPT !.pc = "settle", !.drop = {sessions[s].token : s \in S}])

ForgotPassword(p) ==
    /\ Arrive(p)
    /\ account.exists
    /\ codes' = codes \cup {"reset"}
    /\ UNCHANGED <<tables, issued, access, sessionCache, versionCache, guard, req>>

ResetPassword(p) ==
    /\ Arrive(p)
    /\ "reset" \in codes
    /\ Goto(p, "reset")
    /\ UNCHANGED <<tables, issued, access, redis, guard>>

(* updatePassword and revokeUserSessions commit together.                  *)
UpdatePassword(p) ==
    /\ At(p, "reset")
    /\ account' = [account EXCEPT !.password = TRUE, !.version = @ + 1]
    /\ sessions' = Revoke(Unrevoked)
    /\ Become(p, [Idle EXCEPT !.pc = "settle", !.version = account.version + 1,
                              !.left = {"code", "version"},
                              !.drop = {sessions[s].token : s \in Unrevoked}])
    /\ UNCHANGED <<issued, access, redis, guard, served>>

(* Its Promise.all: the code, the cached version and the cached sessions.  *)
DeleteResetCode(p) ==
    /\ At(p, "settle") /\ "code" \in req[p].left
    /\ codes' = codes \ {"reset"}
    /\ Settle(p, [req[p] EXCEPT !.left = @ \ {"code"}])
    /\ UNCHANGED <<tables, issued, access, sessionCache, versionCache, guard, served>>

(* The administrator's transactions look the user up first ...             *)
Listed == account.exists /\ ~account.deleted

FindUserByUsername(p, suspend) ==
    /\ Arrive(p)
    /\ Listed
    /\ Goto(p, IF suspend THEN "suspend" ELSE "activate")
    /\ UNCHANGED <<tables, issued, access, redis, guard>>

(* ... and the update asks again: of a user deleted in between the         *)
(* sessions are revoked, and the request is refused before it deletes      *)
(* their cached entries.                                                   *)
UpdateUserStatus(p) ==
    /\ req[p].pc \in {"suspend", "activate"}
    /\ LET S == IF At(p, "suspend") THEN Unrevoked ELSE {} IN
         /\ sessions' = Revoke(S)
         /\ \/ /\ Listed
               /\ account' = [account EXCEPT !.suspended = At(p, "suspend"), !.version = @ + 1]
               /\ Dropped(p, S)
            \/ ~Listed /\ End(p) /\ UNCHANGED account
    /\ UNCHANGED <<issued, access, redis, guard, served>>

FindDeletedUser(p) ==
    /\ Arrive(p)
    /\ account.deleted
    /\ Goto(p, "restore")
    /\ UNCHANGED <<tables, issued, access, redis, guard>>

RestoreDeletedUser(p) ==
    /\ At(p, "restore")
    /\ \/ /\ account.deleted
          /\ account' = [account EXCEPT !.deleted = FALSE, !.suspended = FALSE,
                                        !.version = @ + 1]
       \/ ~account.deleted /\ UNCHANGED account
    /\ End(p)
    /\ UNCHANGED <<sessions, issued, access, redis, guard, served>>

---------------------------------------------------------------------------
(* The guard of an authenticated request *)

(* canActivate: a cached version other than the token's refuses it.        *)
CanActivate(p) ==
    /\ Arrive(p)
    /\ \E v \in access :
         /\ versionCache \in {v, None}
         /\ Become(p, [Idle EXCEPT !.version = v,
                        !.pc = IF versionCache = None THEN "guardUncached" ELSE "guardUser"])
    /\ UNCHANGED <<tables, issued, access, redis, guard>>

(* The row decides; its version goes to the cache when the token's is      *)
(* another, or when the cache had none.                                    *)
GuardReadsUser(p) ==
    /\ req[p].pc \in {"guardUser", "guardUncached"}
    /\ \/ /\ account.version # req[p].version
          /\ Become(p, [req[p] EXCEPT !.pc = "refused", !.version = account.version])
       \/ /\ account.version = req[p].version /\ ~Usable
          /\ End(p)
       \/ /\ account.version = req[p].version /\ Usable
          /\ Goto(p, IF At(p, "guardUser") THEN "served" ELSE "accepted")
    /\ UNCHANGED <<tables, issued, access, redis, guard, served>>

GuardSetsVersion(p) ==
    /\ req[p].pc \in {"refused", "accepted"}
    /\ versionCache' = req[p].version
    /\ IF At(p, "refused") THEN End(p) ELSE Goto(p, "served")
    /\ UNCHANGED <<tables, issued, access, sessionCache, codes, guard, served>>

(* Mutant: the deletion revokes the sessions and keeps the token version.  *)
DeleteMeKeepsVersion(p) ==
    /\ At(p, "served")
    /\ IF account.deleted
       THEN End(p) /\ UNCHANGED tables
       ELSE /\ account' = [account EXCEPT !.deleted = TRUE]
            /\ sessions' = Revoke(Unrevoked)
            /\ Dropped(p, Unrevoked)
    /\ UNCHANGED <<issued, access, redis, guard, served>>

(* deleteMe of an authenticated request; any other handler leaves the      *)
(* account and its sessions alone.                                         *)
DeleteMe(p) ==
    /\ At(p, "served")
    /\ IF account.deleted
       THEN End(p) /\ UNCHANGED tables
       ELSE /\ account' = [account EXCEPT !.deleted = TRUE, !.version = @ + 1]
            /\ sessions' = Revoke(Unrevoked)
            /\ Dropped(p, Unrevoked)
    /\ UNCHANGED <<issued, access, redis, guard, served>>

OtherHandler(p) ==
    /\ At(p, "served")
    /\ End(p)
    /\ UNCHANGED <<tables, issued, access, redis, guard, served>>

---------------------------------------------------------------------------
(* Time and faults *)

SessionExpires(s) ==
    /\ s \in ActiveSessions
    /\ sessions' = [sessions EXCEPT ![s].state = "expired"]
    /\ UNCHANGED <<account, issued, access, redis, guard, req, served>>

(* A key of Redis runs out of its TTL.                                     *)
KeyExpires ==
    /\ \/ \E e \in sessionCache : sessionCache' = sessionCache \ {e} /\ UNCHANGED <<versionCache, codes>>
       \/ versionCache # None /\ versionCache' = None /\ UNCHANGED <<sessionCache, codes>>
       \/ \E c \in codes : codes' = codes \ {c} /\ UNCHANGED <<sessionCache, versionCache>>
    /\ UNCHANGED <<tables, issued, access, guard, req, served>>

(* A request fails where it is: a wait for the lock that times out, an     *)
(* error, which releases the lock, or a crash, which leaves it to its TTL. *)
Abort(p) ==
    /\ ~At(p, "idle")
    /\ lock' \in {lock, IF lock = p THEN None ELSE lock}
    /\ End(p)
    /\ UNCHANGED <<tables, issued, access, redis, lockLost, served>>

---------------------------------------------------------------------------
Request(p) ==
    \/ Signup(p) \/ ResendVerification(p) \/ VerifyEmail(p)
    \/ Login(p) \/ OAuthLogin(p)
    \/ \E t \in 1..issued : Refresh(p, t) \/ Logout(p, t)
    \/ ForgotPassword(p) \/ ResetPassword(p)
    \/ \E suspend \in BOOLEAN : FindUserByUsername(p, suspend)
    \/ FindDeletedUser(p)
    \/ CanActivate(p)

Step(p) ==
    \/ CreateUser(p) \/ SendCode(p) \/ MarkVerified(p) \/ DeleteCode(p)
    \/ LinkOAuthUser(p) \/ LockSessions(p) \/ CountSessions(p) \/ SelectOldest(p)
    \/ InsertSession(p)
    \/ EvictRevoked(p) \/ StoreSession(p) \/ SetTokenVersion(p) \/ SignAccessToken(p)
    \/ ReadUser(p) \/ LockForRotation(p) \/ RotateSession(p) \/ DropRotated(p)
    \/ DropCached(p) \/ UpdatePassword(p) \/ DeleteResetCode(p)
    \/ UpdateUserStatus(p) \/ RestoreDeletedUser(p)
    \/ GuardReadsUser(p) \/ GuardSetsVersion(p) \/ DeleteMe(p) \/ OtherHandler(p)

Next ==
    \/ \E p \in Procs : Request(p) \/ Step(p) \/ Abort(p)
    \/ LockExpires
    \/ KeyExpires
    \/ \E s \in Ids : SessionExpires(s)

Spec == Init /\ [][Next]_vars

---------------------------------------------------------------------------
(* Concurrent logins never leave an account more sessions than the limit,  *)
(* as long as no request outlives its hold on the session lock: the count  *)
(* and the insert are separate statements and only the lock orders them.   *)
SessionLimit == lockLost \/ Cardinality(ActiveSessions) <= MaxActive

Rotated == {"dropOld", "store", "sign"}

(* Of two refreshes of one token, both let in by the cache, at most one    *)
(* gets a new token, whatever became of the lock in between.               *)
TokenSpentOnce ==
    \A p, q \in Procs :
        /\ p # q
        /\ req[p].pc \in Rotated /\ req[q].pc \in Rotated
        /\ req[p].token # None
        => req[p].token # req[q].token

(* A session that was revoked or has expired never comes back and never    *)
(* gets another token, although its cached entry may outlive it and a      *)
(* refresh that read it may still be in flight.                            *)
RevokedStaysRevoked ==
    [][\A s \in Ids : sessions[s].state \in {"revoked", "expired"} =>
            /\ sessions'[s].state # "active"
            /\ sessions'[s].token = sessions[s].token]_sessions

Minting == {"acquire", "count", "select", "insert", "evict", "store", "sign",
            "acquireRotate", "rotate", "dropOld"}

(* While the account is suspended, deleted or unverified, no access token  *)
(* carries its current version, and no login or refresh in flight is about *)
(* to sign one that does: suspension, deletion and restoration take every  *)
(* earlier token with them.                                                *)
TokensDieWithAccount ==
    /\ account.version \in access => Usable
    /\ \A p \in Procs :
         req[p].pc \in Minting /\ req[p].version = account.version => Usable
============================================================================
