--------------------------- MODULE Sessions_proofs ---------------------------
(***************************************************************************)
(* Proofs of the safety properties of Sessions, for every set of requests  *)
(* and every value of the bounds.                                          *)
(***************************************************************************)
EXTENDS Sessions, FiniteSetTheorems, TLAPS

---------------------------------------------------------------------------
(* Type correctness *)

(* What a request carries by the time it needs it: the token and the       *)
(* session a refresh works on, the token it stores, the version it signs.  *)
(* A login is sent no token, and replaces a session that exists, chosen    *)
(* after the count; who only revokes sessions signs nothing.               *)
Carries(l) ==
    /\ l.pc \in {"readUser", "acquireRotate", "rotate", "dropOld"} =>
          l.token \in Tokens /\ l.id \in Ids
    /\ l.pc \in {"evict", "store", "dropOld"} => l.next \in Tokens /\ l.id \in Ids
    /\ l.pc \in Minting => l.version \in Versions
    /\ l.pc \in {"oauth", "acquire", "count", "select", "insert", "evict"} => l.token = None
    /\ l.pc = "insert" /\ l.revoke \in Ids => sessions[l.revoke].token \in Tokens
    /\ l.pc \in {"oauth", "acquire", "count", "select"} => l.revoke = None
    /\ l.pc = "settle" => ~l.signs

(* Where a request carries nothing it will need.                           *)
Plain == {"createUser", "sendCode", "verify", "deleteCode", "reset", "suspend",
          "activate", "restore", "served", "accepted"}

(* A row that was ever inserted has a token, and requests carry what they  *)
(* will need: without that the caches would not stay well typed.           *)
Typed ==
    /\ TypeOK
    /\ \A p \in Procs : Carries(req[p])
    /\ \A s \in Ids : sessions[s].state # "unused" => sessions[s].token \in Tokens

LEMMA IdleType == Idle \in Locals /\ Carries(Idle)
BY DEF Idle, Locals, Carries, PCs, Minting

LEMMA InitTyped == Init => Typed
<1> SUFFICES ASSUME Init PROVE Typed
  OBVIOUS
<1>1. req \in [Procs -> Locals] /\ \A p \in Procs : Carries(req[p])
  BY IdleType DEF Init
<1>2. account \in Account
  BY DEF Init, Account, Versions
<1>3. sessions \in [Ids -> Session] /\ \A s \in Ids : sessions[s].state = "unused"
  BY DEF Init, Session
<1>4. served \in 0..MaxRequests /\ issued \in Tokens
  BY SessionConstants DEF Init, Tokens
<1>5. TypeOK
  BY <1>1, <1>2, <1>3, <1>4 DEF Init, TypeOK
<1> QED BY <1>1, <1>3, <1>5 DEF Typed

(* What a step of request p does to the locals.                            *)
LEMMA BecomeFacts ==
    ASSUME req \in [Procs -> Locals], NEW p \in Procs, NEW l \in Locals, Become(p, l)
    PROVE  /\ req' \in [Procs -> Locals]
           /\ req'[p] = l
           /\ \A q \in Procs \ {p} : req'[q] = req[q]
BY DEF Become

LEMMA GotoType ==
    ASSUME NEW l \in Locals, NEW where \in PCs
    PROVE  /\ [l EXCEPT !.pc = where] \in Locals
           /\ [l EXCEPT !.pc = where].pc = where
           /\ [l EXCEPT !.pc = where].token = l.token
           /\ [l EXCEPT !.pc = where].id = l.id
           /\ [l EXCEPT !.pc = where].next = l.next
           /\ [l EXCEPT !.pc = where].version = l.version
           /\ [l EXCEPT !.pc = where].revoke = l.revoke
BY DEF Locals

(* The tokens of rows that were inserted.                                  *)
LEMMA UnrevokedTokens ==
    ASSUME Typed
    PROVE  {sessions[s].token : s \in Unrevoked} \in SUBSET Tokens
BY DEF Typed, Unrevoked

(* A Promise.all that ends leaves the request where it is, or about to     *)
(* sign, or done.                                                          *)
Settles(p) == StoreSession(p) \/ SetTokenVersion(p) \/ DropCached(p) \/ DeleteResetCode(p)

LEMMA SettlesLocals ==
    ASSUME Typed, NEW p \in Procs, Settles(p)
    PROVE  /\ req[p].pc \in {"store", "settle"}
           /\ \E k \in Locals :
                /\ Become(p, k) /\ Carries(k)
                /\ \/ k = Idle
                   \/ /\ k.token = req[p].token /\ k.version = req[p].version
                      /\ k.pc = req[p].pc \/ (req[p].pc = "store" /\ k.pc = "sign")
<1>1. req[p] \in Locals /\ Carries(req[p])
  BY DEF Typed, TypeOK
<1>2. req[p].pc \in {"store", "settle"}
  BY DEF Settles, StoreSession, SetTokenVersion, DropCached, DeleteResetCode, At
<1>3. PICK t, d : \/ Settle(p, [req[p] EXCEPT !.left = req[p].left \ {t}])
                  \/ Settle(p, [req[p] EXCEPT !.drop = req[p].drop \ {d}])
  BY DEF Settles, StoreSession, SetTokenVersion, DropCached, DeleteResetCode
<1>4. PICK l \in Locals : /\ Settle(p, l)
                          /\ l.pc = req[p].pc /\ l.token = req[p].token /\ l.id = req[p].id
                          /\ l.next = req[p].next /\ l.version = req[p].version
                          /\ l.signs = req[p].signs
  <2>1. CASE Settle(p, [req[p] EXCEPT !.left = req[p].left \ {t}])
    BY <1>1, <2>1 DEF Locals
  <2>2. CASE Settle(p, [req[p] EXCEPT !.drop = req[p].drop \ {d}])
    BY <1>1, <2>2 DEF Locals
  <2> QED BY <1>3, <2>1, <2>2
<1>5. Carries(l)
  BY <1>1, <1>2, <1>4 DEF Carries, Minting
<1>6. CASE Become(p, l)
  BY <1>2, <1>4, <1>5, <1>6
<1>7. CASE l.signs /\ Become(p, [l EXCEPT !.pc = "sign"])
  <2> DEFINE k == [l EXCEPT !.pc = "sign"]
  <2>1. k \in Locals /\ k.pc = "sign" /\ k.token = l.token /\ k.version = l.version
    BY <1>4 DEF Locals, PCs
  <2>2. req[p].pc = "store"
    BY <1>1, <1>2, <1>4, <1>7 DEF Carries
  <2>3. Carries(k)
    BY <1>5, <1>4, <2>1, <2>2 DEF Carries, Minting
  <2> QED BY <1>2, <1>4, <1>7, <2>1, <2>2, <2>3
<1>8. CASE Become(p, Idle)
  BY <1>2, <1>8, IdleType
<1> QED BY <1>4, <1>6, <1>7, <1>8 DEF Settle

(* Every step of a request leaves it locals that are well typed and        *)
(* complete.                                                               *)
LEMMA StepLocals ==
    ASSUME Typed, NEW p \in Procs, Step(p) \/ Abort(p)
    PROVE  \E l \in Locals : Become(p, l) /\ Carries(l)
<1> DEFINE Good == \E l \in Locals : Become(p, l) /\ Carries(l)
<1> SUFFICES Good
  OBVIOUS
<1>1. req[p] \in Locals /\ Carries(req[p])
  BY DEF Typed, TypeOK
<1>26. None \notin Ids
  BY SessionConstants DEF Ids
<1>2. ASSUME End(p) PROVE Good
  BY <1>2, IdleType DEF End
<1>3. ASSUME NEW where \in PCs, Goto(p, where), Carries([req[p] EXCEPT !.pc = where])
      PROVE  Good
  BY <1>1, <1>3, GotoType DEF Goto, Become
<1>4. ASSUME NEW where \in Plain, Goto(p, where) PROVE Good
  <2> DEFINE l == [req[p] EXCEPT !.pc = where]
  <2>1. where \in PCs /\ l.pc = where
    BY <1>1, GotoType DEF Plain, PCs
  <2>2. Carries(l)
    <3> HIDE DEF l
    <3> QED BY <2>1 DEF Carries, Minting, Plain
  <2> QED BY <2>1, <2>2, <1>3, <1>4
<1>5. account.version \in Versions /\ account.version + 1 \in Versions
      /\ issued + 1 \in Tokens /\ issued \in Tokens
  BY DEF Typed, TypeOK, Account, Versions, Tokens
<1> HIDE DEF Good
<1>6. CASE CreateUser(p)
  BY <1>6, <1>2, <1>4 DEF CreateUser, Plain
<1>7. CASE SendCode(p) \/ DeleteCode(p) \/ SignAccessToken(p) \/ OtherHandler(p) \/ Abort(p)
  BY <1>7, <1>2 DEF SendCode, DeleteCode, SignAccessToken, OtherHandler, Abort
<1>8. CASE MarkVerified(p)
  BY <1>8, <1>4 DEF MarkVerified, Plain
<1>9. CASE LinkOAuthUser(p)
  <2>1. CASE req[p].version # None /\ Goto(p, "acquire")
    <3>1. Carries([req[p] EXCEPT !.pc = "acquire"])
      BY <1>1, <1>9, <2>1, GotoType DEF Carries, LinkOAuthUser, At, Locals, PCs, Minting
    <3> QED BY <3>1, <2>1, <1>3 DEF PCs
  <2>2. CASE Become(p, [req[p] EXCEPT !.pc = "acquire", !.version = account.version])
    <3> DEFINE l == [req[p] EXCEPT !.pc = "acquire", !.version = account.version]
    <3>1. l \in Locals /\ l.pc = "acquire" /\ l.version = account.version /\ l.token = None
          /\ l.revoke = None
      BY <1>1, <1>5, <1>9 DEF LinkOAuthUser, At, Locals, PCs, Carries
    <3>2. Carries(l)
      BY <3>1, <1>5 DEF Carries
    <3> QED BY <2>2, <3>1, <3>2 DEF Good
  <2> QED BY <1>9, <2>1, <2>2, <1>2 DEF LinkOAuthUser
<1>10. CASE LockSessions(p)
  <2>1. Carries([req[p] EXCEPT !.pc = "count"])
    BY <1>1, <1>10, GotoType DEF Carries, LockSessions, At, PCs, Minting
  <2> QED BY <2>1, <1>10, <1>3 DEF LockSessions, PCs
<1>11. CASE CountSessions(p)
  <2>1. ASSUME NEW where \in {"select", "insert"}, Goto(p, where) PROVE Good
    <3>1. Carries([req[p] EXCEPT !.pc = where])
      BY <1>1, <1>11, <1>26, GotoType DEF Carries, CountSessions, At, PCs, Minting
    <3> QED BY <2>1, <3>1, <1>3 DEF PCs
  <2> QED BY <1>11, <2>1 DEF CountSessions
<1>25. CASE SelectOldest(p)
  <2>1. ASSUME Goto(p, "insert") PROVE Good
    <3> DEFINE l == [req[p] EXCEPT !.pc = "insert"]
    <3>1. /\ l \in Locals /\ l.pc = "insert" /\ l.version = req[p].version /\ l.token = req[p].token
          /\ l.revoke = req[p].revoke
      BY <1>1 DEF Locals, PCs
    <3>2. Carries(l)
      <4> HIDE DEF l
      <4> QED BY <3>1, <1>1, <1>25, <1>26 DEF Carries, SelectOldest, At, Minting
    <3> QED BY <2>1, <3>2, <1>3 DEF PCs
  <2>2. ASSUME NEW s \in Ids, Oldest(s),
               Become(p, [req[p] EXCEPT !.pc = "insert", !.revoke = s, !.drop = {sessions[s].token}])
        PROVE  Good
    <3> DEFINE l == [req[p] EXCEPT !.pc = "insert", !.revoke = s, !.drop = {sessions[s].token}]
    <3>1. sessions[s].token \in Tokens
      BY <2>2 DEF Oldest, ActiveSessions, Typed
    <3>2. l \in Locals /\ l.pc = "insert" /\ l.version = req[p].version /\ l.token = req[p].token
          /\ l.revoke = s
      BY <1>1, <3>1 DEF Locals, PCs
    <3>3. Carries(l)
      BY <3>1, <3>2, <1>1, <1>25 DEF Carries, SelectOldest, At, Minting
    <3> QED BY <2>2, <3>2, <3>3 DEF Good
  <2> QED BY <1>25, <2>1, <2>2 DEF SelectOldest
<1>12. CASE InsertSession(p)
  <2>1. PICK s \in Ids, where \in {"store", "evict"} :
            Become(p, [req[p] EXCEPT !.pc = where, !.id = s, !.next = issued + 1,
                                     !.left = {"session", "version"}])
    BY <1>12 DEF InsertSession
  <2> DEFINE l == [req[p] EXCEPT !.pc = where, !.id = s, !.next = issued + 1,
                                 !.left = {"session", "version"}]
  <2>2. l \in Locals /\ l.pc = where /\ l.version = req[p].version /\ l.token = req[p].token
        /\ l.id = s /\ l.next = issued + 1
    BY <1>1, <1>5 DEF Locals, PCs, Tasks
  <2>3. Carries(l)
    BY <2>2, <1>1, <1>5, <1>12 DEF Carries, InsertSession, At, Minting
  <2> QED BY <2>1, <2>2, <2>3 DEF Good
<1>13. CASE DropRotated(p)
  <2>1. Carries([req[p] EXCEPT !.pc = "store"])
    BY <1>1, <1>13, GotoType DEF Carries, DropRotated, At, PCs, Minting
  <2> QED BY <2>1, <1>13, <1>3 DEF DropRotated, PCs
<1>14. CASE EvictRevoked(p)
  <2> DEFINE l == [req[p] EXCEPT !.pc = "store", !.drop = {}]
  <2>1. l \in Locals /\ l.pc = "store" /\ l.version = req[p].version /\ l.id = req[p].id
        /\ l.next = req[p].next
    BY <1>1 DEF Locals, PCs
  <2>2. Carries(l)
    BY <2>1, <1>1, <1>14 DEF Carries, EvictRevoked, At, Minting
  <2> QED BY <2>1, <2>2, <1>14 DEF EvictRevoked, Good
<1>15. CASE Settles(p)
  BY <1>15, SettlesLocals DEF Good
<1>16. CASE ReadUser(p)
  <2> DEFINE l == [req[p] EXCEPT !.pc = "acquireRotate", !.version = account.version]
  <2>1. l \in Locals /\ l.pc = "acquireRotate" /\ l.version = account.version
        /\ l.token = req[p].token /\ l.id = req[p].id
    BY <1>1, <1>5 DEF Locals, PCs
  <2>2. Carries(l)
    BY <2>1, <1>1, <1>5, <1>16 DEF Carries, ReadUser, At
  <2> QED BY <2>1, <2>2, <1>2, <1>16 DEF ReadUser, Good
<1>17. CASE LockForRotation(p)
  <2>1. Carries([req[p] EXCEPT !.pc = "rotate"])
    BY <1>1, <1>17, GotoType DEF Carries, LockForRotation, At, PCs, Minting
  <2> QED BY <2>1, <1>17, <1>3 DEF LockForRotation, PCs
<1>18. CASE RotateSession(p)
  <2> DEFINE l == [req[p] EXCEPT !.pc = "dropOld", !.next = issued + 1,
                                 !.left = {"session", "version"}]
  <2>1. l \in Locals /\ l.pc = "dropOld" /\ l.version = req[p].version
        /\ l.token = req[p].token /\ l.id = req[p].id /\ l.next = issued + 1
    BY <1>1, <1>5 DEF Locals, PCs, Tasks
  <2>2. Carries(l)
    BY <2>1, <1>1, <1>5, <1>18 DEF Carries, RotateSession, At, Minting
  <2> QED BY <2>1, <2>2, <1>2, <1>18 DEF RotateSession, Good
<1>20. CASE UpdatePassword(p)
  <2> DEFINE l == [Idle EXCEPT !.pc = "settle", !.version = account.version + 1,
                               !.left = {"code", "version"},
                               !.drop = {sessions[s].token : s \in Unrevoked}]
  <2>1. l \in Locals /\ l.pc = "settle" /\ ~l.signs
    BY IdleType, UnrevokedTokens, <1>5 DEF Locals, PCs, Tasks, Idle
  <2>2. Carries(l)
    BY <2>1 DEF Carries, Minting
  <2> QED BY <1>20, <2>1, <2>2 DEF UpdatePassword, Good
<1>19. ASSUME NEW S \in SUBSET Unrevoked, Dropped(p, S) PROVE Good
  <2> DEFINE l == [Idle EXCEPT !.pc = "settle", !.drop = {sessions[s].token : s \in S}]
  <2>1. {sessions[s].token : s \in S} \in SUBSET Tokens
    BY UnrevokedTokens
  <2>2. l \in Locals /\ l.pc = "settle" /\ ~l.signs
    BY IdleType, <2>1 DEF Locals, PCs, Idle
  <2>3. Carries(l)
    BY <2>2 DEF Carries, Minting
  <2> QED BY <1>19, <2>2, <2>3, <1>2 DEF Dropped, Good
<1>21. CASE UpdateUserStatus(p) \/ RestoreDeletedUser(p)
  BY <1>21, <1>19, <1>2 DEF UpdateUserStatus, RestoreDeletedUser
<1>22. CASE GuardReadsUser(p)
  <2> DEFINE l == [req[p] EXCEPT !.pc = "refused", !.version = account.version]
  <2>1. l \in Locals /\ l.pc = "refused"
    BY <1>1, <1>5 DEF Locals, PCs
  <2>2. Carries(l)
    BY <2>1 DEF Carries, Minting
  <2>3. CASE Become(p, l)
    BY <2>1, <2>2, <2>3 DEF Good
  <2> QED BY <1>22, <2>3, <1>2, <1>4 DEF GuardReadsUser, Plain
<1>23. CASE GuardSetsVersion(p)
  BY <1>23, <1>2, <1>4 DEF GuardSetsVersion, Plain
<1>24. CASE DeleteMe(p)
  BY <1>24, <1>19, <1>2 DEF DeleteMe
<1> QED BY <1>6, <1>7, <1>8, <1>9, <1>10, <1>11, <1>12, <1>13, <1>14, <1>15, <1>16, <1>17,
           <1>18, <1>20, <1>21, <1>22, <1>23, <1>24, <1>25 DEF Step, Settles

(* So does the arrival of a request.                                       *)
LEMMA RequestLocals ==
    ASSUME Typed, NEW p \in Procs, Request(p)
    PROVE  UNCHANGED req \/ \E l \in Locals : Become(p, l) /\ Carries(l)
<1> DEFINE Good == UNCHANGED req \/ \E l \in Locals : Become(p, l) /\ Carries(l)
<1> SUFFICES Good
  OBVIOUS
<1>1. req[p] \in Locals /\ account.version \in Versions
  BY DEF Typed, TypeOK, Account
<1>2. ASSUME End(p) PROVE Good
  BY <1>2, IdleType DEF End
<1>3. ASSUME NEW where \in Plain, Goto(p, where) PROVE Good
  <2> DEFINE l == [req[p] EXCEPT !.pc = where]
  <2>4. where \in PCs
    BY DEF Plain, PCs
  <2>1. l \in Locals /\ l.pc = where
    BY <1>1, <2>4, GotoType
  <2>3. Become(p, l)
    BY <1>3 DEF Goto, Become
  <2>2. Carries(l)
    <3> HIDE DEF l
    <3> QED BY <2>1 DEF Carries, Minting, Plain
  <2> QED BY <2>1, <2>2, <2>3
<1>4. ASSUME NEW l \in Locals, Become(p, l), Carries(l) PROVE Good
  BY <1>4
<1> HIDE DEF Good
<1>5. CASE Signup(p) \/ ResendVerification(p) \/ VerifyEmail(p) \/ ResetPassword(p)
           \/ FindDeletedUser(p)
  BY <1>5, <1>3 DEF Signup, ResendVerification, VerifyEmail, ResetPassword, FindDeletedUser, Plain
<1>6. CASE Login(p)
  <2> DEFINE l == [Idle EXCEPT !.pc = "acquire", !.version = account.version, !.signs = TRUE]
  <2>1. l \in Locals /\ l.pc = "acquire" /\ l.version = account.version /\ l.token = None
        /\ l.revoke = None
    BY IdleType, <1>1 DEF Locals, PCs, Idle
  <2>2. Carries(l)
    BY <2>1, <1>1 DEF Carries
  <2> QED BY <1>6, <2>1, <2>2, <1>4 DEF Login
<1>7. CASE OAuthLogin(p)
  <2>1. PICK v \in Versions \cup {None} : Become(p, [Idle EXCEPT !.pc = "oauth", !.version = v])
    BY <1>7, <1>1 DEF OAuthLogin
  <2> DEFINE l == [Idle EXCEPT !.pc = "oauth", !.version = v]
  <2>2. l \in Locals /\ l.pc = "oauth" /\ l.token = None /\ l.revoke = None
    BY IdleType DEF Locals, PCs, Idle
  <2>3. Carries(l)
    BY <2>2 DEF Carries, Minting
  <2> QED BY <2>1, <2>2, <2>3, <1>4
<1>8. ASSUME NEW t \in 1..issued, Refresh(p, t) PROVE Good
  <2>1. PICK s \in Ids : Become(p, [Idle EXCEPT !.pc = "readUser", !.token = t, !.id = s,
                                                 !.signs = TRUE])
    BY <1>8 DEF Refresh
  <2> DEFINE l == [Idle EXCEPT !.pc = "readUser", !.token = t, !.id = s, !.signs = TRUE]
  <2>4. t \in Tokens
    BY DEF Tokens, Typed, TypeOK
  <2>2. l \in Locals /\ l.pc = "readUser" /\ l.token = t /\ l.id = s
    BY IdleType, <2>4 DEF Locals, PCs, Idle
  <2>3. Carries(l)
    BY <2>2, <2>4 DEF Carries, Minting
  <2> QED BY <2>1, <2>2, <2>3, <1>4
<1>10. ASSUME NEW t \in 1..issued, Logout(p, t) PROVE Good
  <2> DEFINE l == [Idle EXCEPT !.pc = "settle", !.drop = {t}]
  <2>1. {t} \in SUBSET Tokens
    BY DEF Tokens, Typed, TypeOK
  <2>2. l \in Locals /\ l.pc = "settle" /\ ~l.signs
    BY IdleType, <2>1 DEF Locals, PCs, Idle
  <2>3. Carries(l)
    BY <2>2 DEF Carries, Minting
  <2> QED BY <1>10, <2>2, <2>3, <1>4 DEF Logout
<1>11. CASE ForgotPassword(p)
  BY <1>11 DEF ForgotPassword, Good
<1>12. ASSUME NEW b \in BOOLEAN, FindUserByUsername(p, b) PROVE Good
  BY <1>12, <1>3 DEF FindUserByUsername, Plain
<1>13. CASE CanActivate(p)
  <2>1. PICK v \in access, where \in {"guardUncached", "guardUser"} :
            Become(p, [Idle EXCEPT !.version = v, !.pc = where])
    BY <1>13 DEF CanActivate
  <2> DEFINE l == [Idle EXCEPT !.version = v, !.pc = where]
  <2>2. l \in Locals /\ l.pc = where
    BY IdleType DEF Locals, PCs, Idle, Typed, TypeOK
  <2>3. Carries(l)
    BY <2>2 DEF Carries, Minting
  <2> QED BY <2>1, <2>2, <2>3, <1>4
<1> QED BY <1>5, <1>6, <1>7, <1>8, <1>10, <1>11, <1>12, <1>13 DEF Request

---------------------------------------------------------------------------
(* What a step of one request may do to the shared state *)

Act(p) == Request(p) \/ Step(p) \/ Abort(p)

(* The rows change in three ways only: some are revoked, one is inserted,  *)
(* or one gets another token.                                              *)
LEMMA SessionsStep ==
    ASSUME NEW p \in Procs, Act(p)
    PROVE  \/ UNCHANGED <<sessions, issued>>
           \/ UNCHANGED issued /\ \E S \in SUBSET Unrevoked : sessions' = Revoke(S)
           \/ InsertSession(p)
           \/ RotateSession(p)
<1> DEFINE Good == \/ UNCHANGED <<sessions, issued>>
                   \/ UNCHANGED issued /\ \E S \in SUBSET Unrevoked : sessions' = Revoke(S)
<1>1. CASE Signup(p) \/ ResendVerification(p) \/ VerifyEmail(p) \/ Login(p) \/ OAuthLogin(p)
           \/ ForgotPassword(p) \/ ResetPassword(p) \/ FindDeletedUser(p) \/ CanActivate(p)
  BY <1>1 DEF Signup, ResendVerification, VerifyEmail, Login, OAuthLogin, ForgotPassword,
              ResetPassword, FindDeletedUser, CanActivate, tables
<1>2. CASE (\E t \in 1..issued : Refresh(p, t)) \/ \E b \in BOOLEAN : FindUserByUsername(p, b)
  BY <1>2 DEF Refresh, FindUserByUsername, tables
<1>3. ASSUME NEW t \in 1..issued, Logout(p, t) PROVE Good
  <2>1. {s \in Unrevoked : sessions[s].token = t} \in SUBSET Unrevoked
    OBVIOUS
  <2> QED BY <1>3, <2>1 DEF Logout
<1>4. CASE UpdateUserStatus(p)
  BY <1>4 DEF UpdateUserStatus
<1>5. CASE UpdatePassword(p)
  BY <1>5 DEF UpdatePassword
<1>6. CASE DeleteMe(p)
  BY <1>6 DEF DeleteMe, tables
<1>7. CASE CreateUser(p) \/ SendCode(p) \/ MarkVerified(p) \/ DeleteCode(p) \/ LinkOAuthUser(p)
           \/ LockSessions(p) \/ CountSessions(p) \/ SelectOldest(p) \/ EvictRevoked(p) \/ Settles(p)
  BY <1>7 DEF CreateUser, SendCode, MarkVerified, DeleteCode, LinkOAuthUser, LockSessions,
              CountSessions, SelectOldest, EvictRevoked, Settles, StoreSession, SetTokenVersion,
              DropCached, DeleteResetCode, tables
<1>8. CASE SignAccessToken(p) \/ ReadUser(p) \/ LockForRotation(p) \/ DropRotated(p)
           \/ RestoreDeletedUser(p) \/ GuardReadsUser(p) \/ GuardSetsVersion(p) \/ OtherHandler(p)
           \/ Abort(p)
  BY <1>8 DEF SignAccessToken, ReadUser, LockForRotation, DropRotated, RestoreDeletedUser,
              GuardReadsUser, GuardSetsVersion, OtherHandler, Abort, tables
<1> QED BY <1>1, <1>2, <1>3, <1>4, <1>5, <1>6, <1>7, <1>8 DEF Act, Request, Step, Settles

(* Revoking touches neither tokens nor the rows that are not meant.        *)
LEMMA RevokeFacts ==
    ASSUME sessions \in [Ids -> Session], NEW S \in SUBSET Unrevoked
    PROVE  /\ Revoke(S) \in [Ids -> Session]
           /\ \A s \in Ids : /\ Revoke(S)[s].token = sessions[s].token
                             /\ Revoke(S)[s].state = IF s \in S THEN "revoked" ELSE sessions[s].state
BY DEF Revoke, Session, Unrevoked

(* Every row keeps its type, and its token once it has one.                *)
LEMMA SessionTypes ==
    ASSUME Typed, NEW p \in Procs, Act(p)
    PROVE  /\ sessions' \in [Ids -> Session]
           /\ issued' \in Tokens
           /\ \A s \in Ids : sessions'[s].state # "unused" => sessions'[s].token \in Tokens
<1>1. /\ sessions \in [Ids -> Session] /\ issued \in Tokens /\ issued + 1 \in Tokens
      /\ \A s \in Ids : sessions[s].state # "unused" => sessions[s].token \in Tokens
  BY DEF Typed, TypeOK, Tokens
<1>2. CASE UNCHANGED <<sessions, issued>>
  BY <1>1, <1>2
<1>3. CASE UNCHANGED issued /\ \E S \in SUBSET Unrevoked : sessions' = Revoke(S)
  <2>1. PICK S \in SUBSET Unrevoked : sessions' = Revoke(S)
    BY <1>3
  <2>2. \A s \in S : sessions[s].state # "unused"
    BY DEF Unrevoked
  <2> QED BY <1>1, <1>3, <2>1, <2>2, RevokeFacts
<1>4. CASE InsertSession(p)
  <2> DEFINE R == {req[p].revoke} \cap Ids
  <2>1. PICK s \in Ids : sessions' = [Revoke(R) EXCEPT ![s] = [state |-> "active", token |-> issued + 1]]
    BY <1>4 DEF InsertSession
  <2>2. Revoke(R) \in [Ids -> [state : {"unused", "active", "revoked", "expired"}, token : Tokens \cup {None}]]
    BY <1>1 DEF Revoke, Session
  <2>3. \A t \in Ids : Revoke(R)[t].token = sessions[t].token
    BY <1>1 DEF Revoke, Session
  <2>4. \A t \in Ids : t # s /\ sessions'[t].state # "unused" => sessions'[t].token \in Tokens
    <3>1. ASSUME NEW t \in Ids, t # s, sessions'[t].state # "unused" PROVE sessions[t].token \in Tokens
      <4>1. t = req[p].revoke \/ sessions[t].state # "unused"
        BY <2>1, <3>1, <1>1 DEF Revoke
      <4>2. Carries(req[p]) /\ req[p].pc = "insert"
        BY <1>4 DEF InsertSession, At, Typed
      <4> QED BY <4>1, <4>2, <1>1 DEF Carries
    <3>2. \A t \in Ids : t # s => sessions'[t] = Revoke(R)[t]
      BY <2>1, <2>2
    <3> QED BY <3>1, <3>2, <2>3
  <2>5. sessions' \in [Ids -> Session] /\ sessions'[s].token = issued + 1
    BY <2>1, <2>2, <1>1 DEF Session
  <2>6. issued' = issued + 1
    BY <1>4 DEF InsertSession
  <2> QED BY <2>4, <2>5, <2>6, <1>1
<1>5. CASE RotateSession(p)
  BY <1>1, <1>5 DEF RotateSession, Session
<1> QED BY <1>2, <1>3, <1>4, <1>5, SessionsStep

(* The account changes in three ways only: a creation, a verification or   *)
(* a link of the provider, none of which touches the version; or anything  *)
(* else, which goes with a new version.                                    *)
AccountOpens(p) == CreateUser(p) \/ MarkVerified(p) \/ LinkOAuthUser(p)

LEMMA AccountStep ==
    ASSUME account \in Account, NEW p \in Procs, Act(p)
    PROVE  /\ account' \in Account
           /\ \/ UNCHANGED account
              \/ /\ AccountOpens(p)
                 /\ account'.version = account.version
                 /\ account'.suspended = account.suspended
                 /\ account'.deleted = account.deleted
                 /\ account.exists => account'.exists
                 /\ account.verified => account'.verified
              \/ /\ account'.version = account.version + 1
                 /\ account'.exists = account.exists
                 /\ \/ account'.suspended = account.suspended /\ account'.deleted = account.deleted
                    \/ ~account'.suspended /\ ~account'.deleted
                    \/ account.exists
                    \/ DeleteMe(p)
<1> USE DEF Account, Versions
<1> DEFINE v == account.version + 1
<1>v. v \in Nat
  OBVIOUS
<1> HIDE DEF v
<1>1. CASE Signup(p) \/ ResendVerification(p) \/ VerifyEmail(p) \/ Login(p) \/ OAuthLogin(p)
           \/ ForgotPassword(p) \/ ResetPassword(p) \/ FindDeletedUser(p) \/ CanActivate(p)
           \/ (\E t \in 1..issued : Refresh(p, t) \/ Logout(p, t))
           \/ \E b \in BOOLEAN : FindUserByUsername(p, b)
  BY <1>1 DEF Signup, ResendVerification, VerifyEmail, Login, OAuthLogin, ForgotPassword,
              ResetPassword, FindDeletedUser, CanActivate, Refresh, Logout, FindUserByUsername, tables
<1>2. CASE UpdateUserStatus(p) /\ account' # account
  <2>1. PICK b \in BOOLEAN : b = At(p, "suspend")
    BY DEF At
  <2>2. account.exists /\ account' = [account EXCEPT !.suspended = b, !.version = v]
    BY <1>2, <2>1 DEF UpdateUserStatus, Listed, v
  <2>3. account'.exists = account.exists /\ account' \in Account /\ account'.version = v
    BY <2>2, <1>v
  <2> QED BY <2>2, <2>3 DEF v
<1>3. CASE RestoreDeletedUser(p) /\ account' # account
  <2>1. account' = [account EXCEPT !.deleted = FALSE, !.suspended = FALSE, !.version = v]
    BY <1>3 DEF RestoreDeletedUser, v
  <2>2. /\ account'.exists = account.exists /\ account' \in Account /\ account'.version = v
        /\ ~account'.suspended /\ ~account'.deleted
    BY <2>1, <1>v
  <2> QED BY <2>2 DEF v
<1>4. CASE CreateUser(p)
  BY <1>4 DEF CreateUser, AccountOpens
<1>5. CASE MarkVerified(p)
  BY <1>5 DEF MarkVerified, AccountOpens
<1>6. CASE LinkOAuthUser(p)
  BY <1>6 DEF LinkOAuthUser, AccountOpens
<1>7. CASE UpdatePassword(p)
  <2>1. account' = [account EXCEPT !.password = TRUE, !.version = v]
    BY <1>7 DEF UpdatePassword, v
  <2>2. /\ account'.exists = account.exists /\ account' \in Account /\ account'.version = v
        /\ account'.suspended = account.suspended /\ account'.deleted = account.deleted
    BY <2>1, <1>v
  <2> QED BY <2>2 DEF v
<1>8. CASE DeleteMe(p)
  <2>1. UNCHANGED account \/ account' = [account EXCEPT !.deleted = TRUE, !.version = v]
    BY <1>8 DEF DeleteMe, tables, v
  <2>2. \/ UNCHANGED account
        \/ account'.exists = account.exists /\ account' \in Account /\ account'.version = v
    BY <2>1, <1>v
  <2> QED BY <2>2, <1>8 DEF v
<1>9. CASE SendCode(p) \/ DeleteCode(p) \/ LockSessions(p) \/ CountSessions(p) \/ SelectOldest(p)
           \/ InsertSession(p) \/ EvictRevoked(p) \/ Settles(p) \/ SignAccessToken(p)
  BY <1>9 DEF SendCode, DeleteCode, LockSessions, CountSessions, SelectOldest, InsertSession,
              EvictRevoked, Settles, StoreSession, SetTokenVersion, DropCached, DeleteResetCode,
              SignAccessToken, tables
<1>10. CASE ReadUser(p) \/ LockForRotation(p) \/ RotateSession(p) \/ DropRotated(p)
           \/ GuardReadsUser(p) \/ GuardSetsVersion(p) \/ OtherHandler(p) \/ Abort(p)
  BY <1>10 DEF ReadUser, LockForRotation, RotateSession, DropRotated, GuardReadsUser,
               GuardSetsVersion, OtherHandler, Abort, tables
<1> QED BY <1>1, <1>2, <1>3, <1>4, <1>5, <1>6, <1>7, <1>8, <1>9, <1>10
        DEF Act, Request, Step, Settles

(* The caches, the codes and the lock keep their types.                    *)
LEMMA RedisTypes ==
    ASSUME Typed, NEW p \in Procs, Act(p)
    PROVE  /\ access' \subseteq Versions
           /\ sessionCache' \subseteq [token : Tokens, id : Ids]
           /\ versionCache' \in Versions \cup {None}
           /\ codes' \subseteq {"verify", "reset"}
           /\ lock' \in Procs \cup {None}
           /\ lockLost' \in BOOLEAN
           /\ served' \in 0..MaxRequests
<1> DEFINE Goal == /\ access' \subseteq Versions
                   /\ sessionCache' \subseteq [token : Tokens, id : Ids]
                   /\ versionCache' \in Versions \cup {None}
                   /\ codes' \subseteq {"verify", "reset"}
                   /\ lock' \in Procs \cup {None}
                   /\ lockLost' \in BOOLEAN
                   /\ served' \in 0..MaxRequests
<1>1. /\ access \subseteq Versions
      /\ sessionCache \subseteq [token : Tokens, id : Ids]
      /\ versionCache \in Versions \cup {None}
      /\ codes \subseteq {"verify", "reset"}
      /\ lock \in Procs \cup {None}
      /\ lockLost \in BOOLEAN
      /\ served \in 0..MaxRequests
  BY DEF Typed, TypeOK
<1>2. req[p] \in Locals /\ Carries(req[p])
  BY DEF Typed, TypeOK
<1>3. req[p].version \in Versions \cup {None}
  BY <1>2 DEF Locals
<1>4. ASSUME Arrive(p) PROVE served' \in 0..MaxRequests
  BY <1>1, <1>4, SessionConstants DEF Arrive
<1>5. CASE Request(p)
  <2>1. access' = access /\ sessionCache' = sessionCache /\ versionCache' = versionCache
        /\ lock' = lock /\ lockLost' = lockLost /\ codes' \subseteq codes \cup {"reset"} /\ Arrive(p)
    BY <1>5 DEF Request, Signup, ResendVerification, VerifyEmail, Login, OAuthLogin, Refresh, Logout,
                ForgotPassword, ResetPassword, FindUserByUsername, FindDeletedUser, CanActivate,
                redis, guard
  <2> QED BY <2>1, <1>1, <1>4
<1>6. CASE StoreSession(p)
  <2>1. [token |-> req[p].next, id |-> req[p].id] \in [token : Tokens, id : Ids]
    BY <1>2, <1>6 DEF Carries, StoreSession, At
  <2> QED BY <2>1, <1>1, <1>6 DEF StoreSession, guard
<1>7. CASE SignAccessToken(p)
  <2>1. req[p].version \in Versions
    BY <1>2, <1>7 DEF Carries, SignAccessToken, At, Minting
  <2> QED BY <2>1, <1>1, <1>7 DEF SignAccessToken, redis, guard
<1>8. CASE SendCode(p) \/ DeleteCode(p) \/ EvictRevoked(p) \/ DropRotated(p) \/ DropCached(p)
  BY <1>8, <1>1 DEF SendCode, DeleteCode, EvictRevoked, DropRotated, DropCached, guard
<1>9. CASE SetTokenVersion(p) \/ DeleteResetCode(p) \/ GuardSetsVersion(p)
  BY <1>9, <1>1, <1>3 DEF SetTokenVersion, DeleteResetCode, GuardSetsVersion, guard
<1>10. CASE LockSessions(p) \/ LockForRotation(p) \/ InsertSession(p) \/ RotateSession(p) \/ Abort(p)
  BY <1>10, <1>1 DEF LockSessions, LockForRotation, InsertSession, RotateSession, Abort,
                     Acquire, Release, redis
<1>11. CASE CreateUser(p) \/ MarkVerified(p) \/ LinkOAuthUser(p) \/ CountSessions(p) \/ SelectOldest(p)
            \/ ReadUser(p) \/ UpdatePassword(p) \/ UpdateUserStatus(p) \/ RestoreDeletedUser(p)
            \/ GuardReadsUser(p) \/ DeleteMe(p) \/ OtherHandler(p)
  BY <1>11, <1>1 DEF CreateUser, MarkVerified, LinkOAuthUser, CountSessions, SelectOldest, ReadUser,
                     UpdatePassword, UpdateUserStatus, RestoreDeletedUser, GuardReadsUser, DeleteMe,
                     OtherHandler, redis, guard
<1> QED BY <1>5, <1>6, <1>7, <1>8, <1>9, <1>10, <1>11 DEF Act, Step

(* The steps that are nobody's.                                            *)
Env == LockExpires \/ KeyExpires \/ \E s \in Ids : SessionExpires(s)

(* A row with a token never loses it, so that what a request carries stays *)
(* true whatever the others do.                                            *)
LEMMA TokensStay ==
    ASSUME Typed, NEW p \in Procs, Act(p)
    PROVE  \A s \in Ids : sessions[s].token \in Tokens => sessions'[s].token \in Tokens
<1>1. sessions \in [Ids -> Session] /\ issued \in Nat
  BY DEF Typed, TypeOK, Tokens
<1>2. CASE UNCHANGED issued /\ \E S \in SUBSET Unrevoked : sessions' = Revoke(S)
  BY <1>1, <1>2, RevokeFacts
<1>3. CASE InsertSession(p)
  <2>1. PICK s \in Ids : sessions' = [Revoke({req[p].revoke} \cap Ids)
                                         EXCEPT ![s] = [state |-> "active", token |-> issued + 1]]
    BY <1>3 DEF InsertSession
  <2>2. \A t \in Ids : Revoke({req[p].revoke} \cap Ids)[t].token = sessions[t].token
    BY <1>1 DEF Revoke, Session
  <2>3. DOMAIN Revoke({req[p].revoke} \cap Ids) = Ids
    BY DEF Revoke
  <2>4. sessions'[s].token = issued + 1 /\ issued + 1 \in Tokens
    BY <1>1, <2>1, <2>3 DEF Tokens
  <2>5. \A t \in Ids : t # s => sessions'[t].token = sessions[t].token
    BY <2>1, <2>2, <2>3
  <2> QED BY <2>4, <2>5
<1>4. CASE RotateSession(p)
  BY <1>1, <1>4 DEF RotateSession, Session, Tokens
<1> QED BY <1>2, <1>3, <1>4, SessionsStep

LEMMA NextTyped == Typed /\ [Next]_vars => Typed'
<1> SUFFICES ASSUME Typed, [Next]_vars PROVE Typed'
  OBVIOUS
<1>1. ASSUME NEW p \in Procs, Act(p) PROVE Typed'
  <2>1. UNCHANGED req \/ \E l \in Locals : Become(p, l) /\ Carries(l)
    BY <1>1, StepLocals, RequestLocals DEF Act
  <2>2. req \in [Procs -> Locals] /\ \A q \in Procs : Carries(req[q])
    BY DEF Typed, TypeOK
  <2>3. req' \in [Procs -> Locals] /\ \A q \in Procs : req'[q] \in Locals /\ Carries(req'[q])
    <3>1. CASE UNCHANGED req
      BY <2>2, <3>1
    <3>2. ASSUME NEW l \in Locals, Become(p, l), Carries(l)
          PROVE  req' \in [Procs -> Locals] /\ \A q \in Procs : req'[q] \in Locals /\ Carries(req'[q])
      BY <2>2, <3>2, BecomeFacts
    <3> QED BY <2>1, <3>1, <3>2
  <2>4. \A q \in Procs : Carries(req[q])'
    <3> SUFFICES ASSUME NEW q \in Procs PROVE Carries(req[q])'
      OBVIOUS
    <3> DEFINE l == req'[q]
    <3>1. l \in Locals /\ Carries(l)
      BY <2>3
    <3> QED BY <1>1, <3>1, TokensStay DEF Carries
  <2>5. account \in Account
    BY DEF Typed, TypeOK
  <2> QED BY <1>1, <2>3, <2>4, <2>5, SessionTypes, AccountStep, RedisTypes DEF Typed, TypeOK
<1>2. CASE LockExpires
  BY <1>2 DEF LockExpires, Typed, TypeOK, Carries, tables, redis
<1>3. CASE KeyExpires
  BY <1>3 DEF KeyExpires, Typed, TypeOK, Carries, tables, guard
<1>4. ASSUME NEW s \in Ids, SessionExpires(s) PROVE Typed'
  <2>1. sessions \in [Ids -> Session]
    BY DEF Typed, TypeOK
  <2>2. /\ sessions' \in [Ids -> Session]
        /\ \A t \in Ids : /\ sessions'[t].token = sessions[t].token
                          /\ sessions'[t].state = "unused" <=> sessions[t].state = "unused"
    BY <1>4, <2>1 DEF SessionExpires, ActiveSessions, Session
  <2> QED BY <1>4, <2>2 DEF SessionExpires, Typed, TypeOK, Carries, redis, guard
<1>5. CASE UNCHANGED vars
  BY <1>5 DEF vars, Typed, TypeOK, Carries, tables, redis, guard
<1> QED BY <1>1, <1>2, <1>3, <1>4, <1>5 DEF Next, Act

(* Requests, rows, caches and codes keep their types (src/src/auth,        *)
(* src/src/session, src/src/otp).                                          *)
THEOREM TypeCorrect == Spec => []TypeOK
<1>1. Typed => TypeOK
  BY DEF Typed
<1> QED BY <1>1, InitTyped, NextTyped, PTL DEF Spec

(* A revoked or expired session is neither revived nor given another       *)
(* token by rotateSessionRefreshToken or anything else.                    *)
THEOREM RevokedForGood == Spec => RevokedStaysRevoked
<1> DEFINE Final(s) == sessions[s].state \in {"revoked", "expired"} =>
                          /\ sessions'[s].state # "active"
                          /\ sessions'[s].token = sessions[s].token
<1>1. ASSUME Typed, Next PROVE \A s \in Ids : Final(s)
  <2> SUFFICES ASSUME NEW s \in Ids PROVE Final(s)
    OBVIOUS
  <2>1. sessions \in [Ids -> Session]
    BY <1>1 DEF Typed, TypeOK
  <2>2. ASSUME NEW p \in Procs, Act(p) PROVE Final(s)
    <3>1. CASE UNCHANGED <<sessions, issued>>
      BY <3>1
    <3>2. CASE \E S \in SUBSET Unrevoked : sessions' = Revoke(S)
      BY <2>1, <3>2, RevokeFacts
    <3>3. CASE InsertSession(p)
      <4>1. PICK t \in Ids : /\ NextId(t)
                             /\ sessions' = [Revoke({req[p].revoke} \cap Ids)
                                         EXCEPT ![t] = [state |-> "active", token |-> issued + 1]]
        BY <3>3 DEF InsertSession
      <4> DEFINE R == Revoke({req[p].revoke} \cap Ids)
      <4>2. R[s].token = sessions[s].token /\ R[s].state \in {"revoked", sessions[s].state}
        BY <2>1 DEF Revoke, Session
      <4>3. DOMAIN R = Ids
        BY DEF Revoke
      <4> HIDE DEF R
      <4> QED BY <4>1, <4>2, <4>3 DEF NextId, R
    <3>4. CASE RotateSession(p)
      BY <2>1, <3>4 DEF RotateSession, Rotatable, Session
    <3> QED BY <2>2, <3>1, <3>2, <3>3, <3>4, SessionsStep
  <2>3. CASE Env
    BY <2>1, <2>3 DEF Env, LockExpires, KeyExpires, SessionExpires, ActiveSessions, Session, tables
  <2> QED BY <1>1, <2>2, <2>3 DEF Next, Act, Env
<1>2. Typed /\ [Next]_vars => [\A s \in Ids : Final(s)]_sessions
  BY <1>1 DEF vars, tables
<1> QED BY <1>2, InitTyped, NextTyped, PTL DEF Spec, RevokedStaysRevoked

---------------------------------------------------------------------------
(* A refresh token is spent once *)

Presenting == {"readUser", "acquireRotate", "rotate"}

(* The tokens of the rows were issued and differ; so the token a request   *)
(* presents was issued too, and one that has been rotated is in no row.    *)
TokensIssued ==
    /\ \A s \in Ids : sessions[s].token # None => sessions[s].token <= issued
    /\ \A s, t \in Ids : s # t /\ sessions[s].token # None =>
                            sessions[s].token # sessions[t].token

Presented(l) ==
    l.pc \in Presenting \cup Rotated /\ l.token # None => l.token <= issued

Spent(l) ==
    l.pc \in Rotated /\ l.token # None => \A s \in Ids : sessions[s].token # l.token

TokenInv ==
    /\ TokensIssued
    /\ \A p \in Procs : Presented(req[p]) /\ Spent(req[p])
    /\ TokenSpentOnce

(* Steps that leave the refresh tokens of the rows alone take a request    *)
(* into Rotated only from there, and with the same token.                  *)
LEMMA TokenLocals ==
    ASSUME Typed, NEW p \in Procs, Act(p), ~InsertSession(p), ~RotateSession(p)
    PROVE  /\ \A q \in Procs \ {p} : req'[q] = req[q]
           /\ \/ req'[p].pc \notin Presenting \cup Rotated
              \/ req'[p].token = None
              \/ req'[p].pc = "readUser" /\ req'[p].token <= issued
              \/ /\ req'[p].token = req[p].token
                 /\ req[p].pc \in Presenting \cup Rotated
                 /\ req'[p].pc \in Rotated => req[p].pc \in Rotated
<1> DEFINE Good == \/ req'[p].pc \notin Presenting \cup Rotated
                   \/ req'[p].token = None
                   \/ req'[p].pc = "readUser" /\ req'[p].token <= issued
                   \/ /\ req'[p].token = req[p].token
                      /\ req[p].pc \in Presenting \cup Rotated
                      /\ req'[p].pc \in Rotated => req[p].pc \in Rotated
<1>1. req \in [Procs -> Locals] /\ req[p] \in Locals /\ Carries(req[p])
  BY DEF Typed, TypeOK
<1>2. \A q \in Procs \ {p} : req'[q] = req[q]
  BY <1>1, StepLocals, RequestLocals, BecomeFacts DEF Act
<1> SUFFICES Good
  BY <1>2
<1>3. ASSUME End(p) PROVE Good
  BY <1>1, <1>3 DEF End, Become, Idle
<1>4. ASSUME NEW where, Goto(p, where)
      PROVE  req'[p].pc = where /\ req'[p].token = req[p].token
  BY <1>1, <1>4 DEF Goto, Locals
<1>5. ASSUME NEW l, Become(p, l) PROVE req'[p] = l
  BY <1>1, <1>5 DEF Become
<1>6. CASE Signup(p) \/ ResendVerification(p) \/ VerifyEmail(p) \/ ResetPassword(p)
           \/ FindDeletedUser(p)
  BY <1>6, <1>4 DEF Signup, ResendVerification, VerifyEmail, ResetPassword, FindDeletedUser,
                    Presenting, Rotated
<1>7. CASE Login(p)
  BY <1>7, <1>5 DEF Login, Idle, Presenting, Rotated
<1>8. CASE OAuthLogin(p)
  BY <1>8, <1>5 DEF OAuthLogin, Idle, Presenting, Rotated
<1>9. ASSUME NEW t \in 1..issued, Refresh(p, t) PROVE Good
  <2>1. PICK s \in Ids : Become(p, [Idle EXCEPT !.pc = "readUser", !.token = t, !.id = s,
                                                 !.signs = TRUE])
    BY <1>9 DEF Refresh
  <2>2. req'[p].pc = "readUser" /\ req'[p].token = t
    BY <2>1, <1>5 DEF Idle
  <2>3. t <= issued
    BY <1>9 DEF Refresh
  <2> QED BY <2>2, <2>3
<1>10. ASSUME NEW t \in 1..issued, Logout(p, t) PROVE Good
  BY <1>10, <1>5 DEF Logout, Idle, Presenting, Rotated
<1>11. CASE ForgotPassword(p)
  BY <1>11 DEF ForgotPassword, Arrive, At, Presenting, Rotated
<1>25. ASSUME NEW b \in BOOLEAN, FindUserByUsername(p, b) PROVE Good
  BY <1>25, <1>4 DEF FindUserByUsername, Presenting, Rotated
<1>12. ASSUME NEW S, Dropped(p, S) PROVE Good
  <2>1. ASSUME NEW D, Become(p, [Idle EXCEPT !.pc = "settle", !.drop = D]) PROVE Good
    BY <2>1, <1>5 DEF Idle, Presenting, Rotated
  <2> QED BY <1>12, <2>1, <1>3 DEF Dropped
<1>21. CASE UpdateUserStatus(p) \/ RestoreDeletedUser(p) \/ DeleteMe(p)
  BY <1>21, <1>12, <1>3 DEF UpdateUserStatus, RestoreDeletedUser, DeleteMe
<1>13. CASE CanActivate(p)
  BY <1>13, <1>5 DEF CanActivate, Idle, Presenting, Rotated
<1>14. CASE CreateUser(p) \/ MarkVerified(p) \/ LockSessions(p) \/ CountSessions(p)
            \/ GuardSetsVersion(p)
  BY <1>14, <1>3, <1>4 DEF CreateUser, MarkVerified, LockSessions, CountSessions, GuardSetsVersion,
                           Presenting, Rotated
<1>15. CASE SendCode(p) \/ DeleteCode(p) \/ SignAccessToken(p) \/ OtherHandler(p) \/ Abort(p)
  BY <1>15, <1>3 DEF SendCode, DeleteCode, SignAccessToken, OtherHandler, Abort
<1>16. CASE LinkOAuthUser(p)
  <2>1. req[p].token = None
    BY <1>16, <1>1 DEF LinkOAuthUser, At, Carries
  <2>2. ASSUME Become(p, [req[p] EXCEPT !.pc = "acquire", !.version = account.version]) PROVE Good
    BY <2>2, <1>1, <1>5 DEF Locals, Presenting, Rotated
  <2> QED BY <1>16, <2>1, <2>2, <1>3, <1>4 DEF LinkOAuthUser
<1>17. CASE SelectOldest(p)
  <2>1. ASSUME NEW s, NEW D,
               Become(p, [req[p] EXCEPT !.pc = "insert", !.revoke = s, !.drop = D])
        PROVE  req'[p].pc = "insert"
    BY <2>1, <1>1, <1>5 DEF Locals
  <2>2. req'[p].pc = "insert"
    BY <1>17, <2>1, <1>4 DEF SelectOldest
  <2> QED BY <2>2 DEF Presenting, Rotated
<1>18. CASE EvictRevoked(p)
  <2>1. req[p].token = None
    BY <1>18, <1>1 DEF EvictRevoked, At, Carries
  <2>2. ASSUME Become(p, [req[p] EXCEPT !.pc = "store", !.drop = {}]) PROVE req'[p].token = None
    BY <2>1, <2>2, <1>1, <1>5 DEF Locals
  <2> QED BY <2>2, <1>18 DEF EvictRevoked
<1>19. CASE DropRotated(p) \/ LockForRotation(p)
  BY <1>19, <1>3, <1>4 DEF DropRotated, LockForRotation, At, Presenting, Rotated
<1>22. CASE Settles(p)
  <2>1. PICK k \in Locals :
          /\ Become(p, k)
          /\ \/ k = Idle
             \/ /\ k.token = req[p].token
                /\ k.pc = req[p].pc \/ (req[p].pc = "store" /\ k.pc = "sign")
    BY <1>22, SettlesLocals
  <2>2. req[p].pc \in {"store", "settle"} /\ req'[p] = k
    BY <1>22, <2>1, <1>5, SettlesLocals
  <2> QED BY <2>1, <2>2, <1>3 DEF End, Presenting, Rotated
<1>20. CASE ReadUser(p)
  <2> DEFINE l == [req[p] EXCEPT !.pc = "acquireRotate", !.version = account.version]
  <2>1. l.pc = "acquireRotate" /\ l.token = req[p].token /\ req[p].pc = "readUser"
    BY <1>1, <1>20 DEF Locals, ReadUser, At
  <2>2. ASSUME Become(p, l) PROVE Good
    BY <2>1, <2>2, <1>5 DEF Presenting, Rotated
  <2> QED BY <1>20, <2>2, <1>3 DEF ReadUser
<1>24. CASE UpdatePassword(p)
  BY <1>24, <1>5 DEF UpdatePassword, Idle, Presenting, Rotated
<1>23. CASE GuardReadsUser(p)
  <2>1. ASSUME Become(p, [req[p] EXCEPT !.pc = "refused", !.version = account.version]) PROVE Good
    BY <2>1, <1>1, <1>5 DEF Locals, Presenting, Rotated
  <2> QED BY <1>23, <2>1, <1>3, <1>4 DEF GuardReadsUser, Presenting, Rotated
<1> HIDE DEF Good
<1> QED
  BY <1>6, <1>7, <1>8, <1>9, <1>10, <1>11, <1>12, <1>13, <1>14, <1>15, <1>16, <1>17, <1>18, <1>19,
     <1>20, <1>21, <1>22, <1>23, <1>24, <1>25 DEF Act, Request, Step, Settles

LEMMA NextToken == Typed /\ TokenInv /\ [Next]_vars => TokenInv'
<1> SUFFICES ASSUME Typed, TokenInv, [Next]_vars PROVE TokenInv'
  OBVIOUS
<1>1. /\ sessions \in [Ids -> Session] /\ issued \in Nat /\ None \notin Nat
      /\ req \in [Procs -> Locals]
      /\ \A s \in Ids : sessions[s].token \in Nat \cup {None}
      /\ \A q \in Procs : req[q].token \in Nat \cup {None}
  BY SessionConstants DEF Typed, TypeOK, Tokens, Session, Locals
<1>2. ASSUME UNCHANGED <<issued, req>>, \A s \in Ids : sessions'[s].token = sessions[s].token
      PROVE  TokenInv'
  BY <1>2 DEF TokenInv, TokensIssued, Presented, Spent, TokenSpentOnce
<1>3. ASSUME NEW p \in Procs, Act(p), ~InsertSession(p), ~RotateSession(p) PROVE TokenInv'
  <2>1. UNCHANGED issued /\ \A s \in Ids : sessions'[s].token = sessions[s].token
    BY <1>1, <1>3, SessionsStep, RevokeFacts
  <2>2. TokensIssued'
    BY <2>1 DEF TokenInv, TokensIssued
  <2>3. \A q \in Procs \ {p} : req'[q] = req[q]
    BY <1>3, TokenLocals
  <2>4. \/ req'[p].pc \notin Presenting \cup Rotated
        \/ req'[p].token = None
        \/ req'[p].pc = "readUser" /\ req'[p].token <= issued
        \/ /\ req'[p].token = req[p].token
           /\ req[p].pc \in Presenting \cup Rotated
           /\ req'[p].pc \in Rotated => req[p].pc \in Rotated
    BY <1>3, TokenLocals
  <2>5. ASSUME NEW q \in Procs PROVE Presented(req[q])' /\ Spent(req[q])'
    <3>1. Presented(req[q]) /\ Spent(req[q]) /\ Presented(req[p]) /\ Spent(req[p])
      BY DEF TokenInv
    <3>2. CASE q # p
      BY <2>1, <2>3, <3>1, <3>2 DEF Presented, Spent
    <3>3. CASE q = p
      BY <2>1, <2>4, <3>1, <3>3 DEF Presented, Spent, Rotated
    <3> QED BY <3>2, <3>3
  <2>6. TokenSpentOnce'
    BY <2>3, <2>4 DEF TokenInv, TokenSpentOnce, Rotated
  <2> QED BY <2>2, <2>5, <2>6 DEF TokenInv
<1>4. ASSUME NEW p \in Procs, InsertSession(p) PROVE TokenInv'
  <2>1. PICK s \in Ids, where \in {"store", "evict"} :
          /\ sessions' = [Revoke({req[p].revoke} \cap Ids)
                             EXCEPT ![s] = [state |-> "active", token |-> issued + 1]]
          /\ Become(p, [req[p] EXCEPT !.pc = where, !.id = s, !.next = issued + 1,
                                       !.left = {"session", "version"}])
    BY <1>4 DEF InsertSession
  <2>2. \A t \in Ids : Revoke({req[p].revoke} \cap Ids)[t].token = sessions[t].token
    BY <1>1 DEF Revoke, Session
  <2>3. DOMAIN Revoke({req[p].revoke} \cap Ids) = Ids
    BY DEF Revoke
  <2>4. /\ sessions'[s].token = issued + 1
        /\ \A t \in Ids : t # s => sessions'[t].token = sessions[t].token
    BY <2>1, <2>2, <2>3
  <2>5. issued' = issued + 1
    BY <1>4 DEF InsertSession
  <2>6. TokensIssued'
    BY <1>1, <2>4, <2>5 DEF TokenInv, TokensIssued
  <2>7. /\ \A q \in Procs \ {p} : req'[q] = req[q]
        /\ req'[p].token = req[p].token
    BY <1>1, <2>1 DEF Become, Locals
  <2>8. req[p].token = None
    BY <1>4 DEF InsertSession, At, Typed, Carries
  <2>9. ASSUME NEW q \in Procs PROVE Presented(req[q])' /\ Spent(req[q])'
    <3>1. Presented(req[q]) /\ Spent(req[q])
      BY DEF TokenInv
    <3> QED BY <1>1, <2>4, <2>5, <2>7, <2>8, <3>1 DEF Presented, Spent
  <2>10. TokenSpentOnce'
    BY <2>7, <2>8 DEF TokenInv, TokenSpentOnce
  <2> QED BY <2>6, <2>9, <2>10 DEF TokenInv
<1>5. ASSUME NEW p \in Procs, RotateSession(p) PROVE TokenInv'
  <2>1. CASE ~Rotatable(p)
    <3>1. UNCHANGED <<sessions, issued>> /\ End(p)
      BY <1>5, <2>1 DEF RotateSession
    <3>2. req'[p].token = None /\ \A q \in Procs \ {p} : req'[q] = req[q]
      BY <1>1, <3>1 DEF End, Become, Idle
    <3>3. TokenSpentOnce'
      BY <3>2 DEF TokenInv, TokenSpentOnce
    <3>4. \A q \in Procs : Presented(req[q])' /\ Spent(req[q])'
      BY <3>1, <3>2 DEF TokenInv, Presented, Spent
    <3> QED BY <3>1, <3>3, <3>4 DEF TokenInv, TokensIssued
  <2>2. CASE Rotatable(p)
    <3> DEFINE x == req[p].id
    <3>1. /\ issued' = issued + 1
          /\ sessions' = [sessions EXCEPT ![x].token = issued + 1]
          /\ Become(p, [req[p] EXCEPT !.pc = "dropOld", !.next = issued + 1,
                                       !.left = {"session", "version"}])
          /\ req[p].pc = "rotate"
      BY <1>5, <2>2 DEF RotateSession, At
    <3>2. x \in Ids /\ req[p].token \in Nat /\ sessions[x].token = req[p].token
      BY <3>1, <2>2 DEF Typed, Carries, Rotatable, Tokens
    <3>3. /\ sessions'[x].token = issued + 1
          /\ \A t \in Ids : t # x => sessions'[t].token = sessions[t].token
      BY <1>1, <3>1, <3>2 DEF Session
    <3>4. /\ \A q \in Procs \ {p} : req'[q] = req[q]
          /\ req'[p].token = req[p].token /\ req'[p].pc = "dropOld"
      BY <1>1, <3>1 DEF Become, Locals
    <3>5. TokensIssued'
      BY <1>1, <3>1, <3>2, <3>3 DEF TokenInv, TokensIssued
    <3>6. req[p].token <= issued /\ \A t \in Ids : sessions'[t].token # req[p].token
      BY <1>1, <3>2, <3>3 DEF TokenInv, TokensIssued
    <3>7. ASSUME NEW q \in Procs PROVE Presented(req[q])' /\ Spent(req[q])'
      <4>1. Presented(req[q]) /\ Spent(req[q])
        BY DEF TokenInv
      <4>2. CASE q = p
        BY <1>1, <3>1, <3>4, <3>6, <4>2 DEF Presented, Spent
      <4>3. CASE q # p
        BY <1>1, <3>1, <3>3, <3>4, <4>1, <4>3 DEF Presented, Spent
      <4> QED BY <4>2, <4>3
    <3>8. \A q \in Procs \ {p} : req[q].pc \in Rotated /\ req[q].token # None => req[q].token # req[p].token
      BY <3>2 DEF TokenInv, Spent
    <3>9. TokenSpentOnce'
      BY <1>1, <3>2, <3>4, <3>8 DEF TokenInv, TokenSpentOnce
    <3> QED BY <3>5, <3>7, <3>9 DEF TokenInv
  <2> QED BY <2>1, <2>2
<1>6. CASE Env
  <2>1. UNCHANGED <<issued, req>> /\ \A s \in Ids : sessions'[s].token = sessions[s].token
    BY <1>1, <1>6 DEF Env, LockExpires, KeyExpires, SessionExpires, tables, Session
  <2> QED BY <2>1, <1>2
<1>7. CASE UNCHANGED vars
  BY <1>7, <1>2 DEF vars, tables
<1> QED BY <1>3, <1>4, <1>5, <1>6, <1>7 DEF Next, Act, Env

(* Of two refreshes of one token at most one gets a new one: the update of *)
(* rotateSessionRefreshToken compares the token, with or without the lock. *)
THEOREM RefreshSpendsOnce == Spec => []TokenSpentOnce
<1>1. Init => TokenInv
  <2> SUFFICES ASSUME Init PROVE TokenInv
    OBVIOUS
  <2>1. \A p \in Procs : req[p].pc = "idle"
    BY DEF Init, Idle
  <2>2. \A s \in Ids : sessions[s].token = None
    BY DEF Init
  <2> QED BY <2>1, <2>2 DEF TokenInv, TokensIssued, Presented, Spent, TokenSpentOnce, Presenting, Rotated
<1>2. TokenInv => TokenSpentOnce
  BY DEF TokenInv
<1> QED BY <1>1, <1>2, InitTyped, NextTyped, NextToken, PTL DEF Spec

---------------------------------------------------------------------------
(* Access tokens die with the account *)

Live == account.exists /\ ~account.suspended /\ ~account.deleted

(* No version beyond the account's is in any hand; a request that holds    *)
(* the current one read it when the account was in order, and it still is. *)
VersionInv ==
    /\ \A v \in access : v <= account.version
    /\ account.version \in access => Usable
    /\ ~account.exists => ~account.suspended /\ ~account.deleted
    /\ \A p \in Procs :
         /\ req[p].pc \in Minting \cup {"oauth"} /\ req[p].version # None =>
               req[p].version <= account.version
         /\ req[p].pc \in Minting /\ req[p].version = account.version => Usable
         /\ req[p].pc = "oauth" /\ req[p].version = account.version => Live
         /\ req[p].pc \in {"served", "accepted"} => account.exists

(* A request comes by a version only by reading the account.               *)
LEMMA VersionLocals ==
    ASSUME Typed, NEW p \in Procs, Act(p)
    PROVE  /\ \A q \in Procs \ {p} : req'[q] = req[q]
           /\ \/ req'[p].pc \notin Minting \cup {"oauth", "served", "accepted"}
              \/ /\ req'[p].pc \in Minting /\ req[p].pc \in Minting
                 /\ req'[p].version = req[p].version
              \/ /\ req'[p].pc \in Minting /\ req'[p].version = account.version
                 /\ Usable /\ UNCHANGED account
              \/ /\ req'[p].pc = "oauth" /\ UNCHANGED account
                 /\ req'[p].version = IF account.exists THEN account.version ELSE None
                 /\ ~account.suspended /\ ~account.deleted
              \/ LinkOAuthUser(p)
              \/ /\ req'[p].pc \in {"served", "accepted"} /\ UNCHANGED account
                 /\ Usable \/ req[p].pc \in {"served", "accepted"}
<1> DEFINE Good == \/ req'[p].pc \notin Minting \cup {"oauth", "served", "accepted"}
                   \/ /\ req'[p].pc \in Minting /\ req[p].pc \in Minting
                      /\ req'[p].version = req[p].version
                   \/ /\ req'[p].pc \in Minting /\ req'[p].version = account.version
                      /\ Usable /\ UNCHANGED account
                   \/ /\ req'[p].pc = "oauth" /\ UNCHANGED account
                      /\ req'[p].version = IF account.exists THEN account.version ELSE None
                      /\ ~account.suspended /\ ~account.deleted
                   \/ LinkOAuthUser(p)
                   \/ /\ req'[p].pc \in {"served", "accepted"} /\ UNCHANGED account
                      /\ Usable \/ req[p].pc \in {"served", "accepted"}
           Quiet == PCs \ (Minting \cup {"oauth", "served", "accepted"})
<1>1. req \in [Procs -> Locals] /\ req[p] \in Locals
  BY DEF Typed, TypeOK
<1>2. \A q \in Procs \ {p} : req'[q] = req[q]
  BY <1>1, StepLocals, RequestLocals, BecomeFacts DEF Act
<1> SUFFICES Good
  BY <1>2
<1>3. ASSUME End(p) PROVE Good
  BY <1>1, <1>3 DEF End, Become, Idle, Minting
<1>4. ASSUME NEW where, Goto(p, where)
      PROVE  req'[p].pc = where /\ req'[p].version = req[p].version
  BY <1>1, <1>4 DEF Goto, Locals
<1>5. ASSUME NEW l, Become(p, l) PROVE req'[p] = l
  BY <1>1, <1>5 DEF Become
<1>6. CASE Signup(p) \/ ResendVerification(p) \/ VerifyEmail(p) \/ ResetPassword(p)
           \/ FindDeletedUser(p)
  BY <1>6, <1>4 DEF Signup, ResendVerification, VerifyEmail, ResetPassword, FindDeletedUser, Minting
<1>7. CASE Login(p)
  <2> DEFINE l == [Idle EXCEPT !.pc = "acquire", !.version = account.version, !.signs = TRUE]
  <2>1. l.pc = "acquire" /\ l.version = account.version
    BY DEF Idle
  <2>2. req'[p] = l
    BY <1>7, <1>5 DEF Login
  <2>3. req'[p].pc = "acquire" /\ req'[p].version = account.version
    BY <2>1, <2>2
  <2> QED BY <2>3, <1>7 DEF Login, Minting, tables
<1>8. CASE OAuthLogin(p)
  <2> DEFINE v == IF account.exists THEN account.version ELSE None
  <2>1. Become(p, [Idle EXCEPT !.pc = "oauth", !.version = v])
    BY <1>8 DEF OAuthLogin
  <2> HIDE DEF v
  <2>2. req'[p].pc = "oauth" /\ req'[p].version = v
    BY <2>1, <1>5 DEF Idle
  <2> QED BY <2>2, <1>8 DEF OAuthLogin, tables, v
<1>12. ASSUME NEW D, Become(p, [Idle EXCEPT !.pc = "settle", !.drop = D]) PROVE Good
  BY <1>12, <1>5 DEF Idle, Minting
<1>9. ASSUME NEW t \in 1..issued, Refresh(p, t) PROVE Good
  <2>1. PICK s \in Ids : Become(p, [Idle EXCEPT !.pc = "readUser", !.token = t, !.id = s,
                                                 !.signs = TRUE])
    BY <1>9 DEF Refresh
  <2>2. req'[p].pc = "readUser"
    BY <2>1, <1>5 DEF Idle
  <2> QED BY <2>2 DEF Minting
<1>10. ASSUME NEW t \in 1..issued, Logout(p, t) PROVE Good
  BY <1>10, <1>12 DEF Logout
<1>11. CASE ForgotPassword(p)
  BY <1>11 DEF ForgotPassword, Arrive, At, Minting
<1>22. ASSUME NEW b \in BOOLEAN, FindUserByUsername(p, b) PROVE Good
  BY <1>22, <1>4 DEF FindUserByUsername, Minting
<1>13. CASE UpdateUserStatus(p) \/ RestoreDeletedUser(p)
  BY <1>13, <1>3, <1>12 DEF UpdateUserStatus, RestoreDeletedUser, Dropped
<1>14. CASE CanActivate(p)
  BY <1>14, <1>5 DEF CanActivate, Idle, Minting
<1>15. CASE CreateUser(p) \/ MarkVerified(p)
  BY <1>15, <1>3, <1>4 DEF CreateUser, MarkVerified, Minting
<1>16. CASE SendCode(p) \/ DeleteCode(p) \/ SignAccessToken(p) \/ OtherHandler(p) \/ Abort(p)
  BY <1>16, <1>3 DEF SendCode, DeleteCode, SignAccessToken, OtherHandler, Abort
<1>17. CASE LockSessions(p) \/ CountSessions(p) \/ LockForRotation(p) \/ DropRotated(p)
  BY <1>17, <1>3, <1>4 DEF LockSessions, CountSessions, LockForRotation, DropRotated, At, Minting
<1>28. CASE EvictRevoked(p)
  <2>1. ASSUME Become(p, [req[p] EXCEPT !.pc = "store", !.drop = {}])
        PROVE  req'[p].pc = "store" /\ req'[p].version = req[p].version
    BY <2>1, <1>1, <1>5 DEF Locals
  <2> QED BY <2>1, <1>28 DEF EvictRevoked, At, Minting
<1>29. CASE Settles(p)
  <2>1. PICK k \in Locals :
          /\ Become(p, k)
          /\ \/ k = Idle
             \/ /\ k.version = req[p].version
                /\ k.pc = req[p].pc \/ (req[p].pc = "store" /\ k.pc = "sign")
    BY <1>29, SettlesLocals
  <2>2. req[p].pc \in {"store", "settle"} /\ req'[p] = k
    BY <1>29, <2>1, <1>5, SettlesLocals
  <2> QED BY <2>1, <2>2, <1>3 DEF End, Minting
<1>18. CASE SelectOldest(p)
  <2>1. ASSUME NEW s, NEW D,
               Become(p, [req[p] EXCEPT !.pc = "insert", !.revoke = s, !.drop = D])
        PROVE  req'[p].pc = "insert" /\ req'[p].version = req[p].version
    BY <2>1, <1>1, <1>5 DEF Locals
  <2>2. req'[p].pc = "insert" /\ req'[p].version = req[p].version
    BY <1>18, <2>1, <1>4 DEF SelectOldest
  <2> QED BY <2>2, <1>18 DEF SelectOldest, At, Minting
<1>19. CASE InsertSession(p)
  <2>1. PICK s \in Ids, where \in {"store", "evict"} :
            Become(p, [req[p] EXCEPT !.pc = where, !.id = s, !.next = issued + 1,
                                     !.left = {"session", "version"}])
    BY <1>19 DEF InsertSession
  <2>2. req'[p].pc = where /\ req'[p].version = req[p].version
    BY <2>1, <1>1, <1>5 DEF Locals
  <2> QED BY <2>2, <1>19 DEF InsertSession, At, Minting
<1>20. CASE ReadUser(p)
  <2> DEFINE l == [req[p] EXCEPT !.pc = "acquireRotate", !.version = account.version]
  <2>1. l.pc = "acquireRotate" /\ l.version = account.version
    BY <1>1 DEF Locals
  <2>2. ASSUME Become(p, l), Usable, UNCHANGED account PROVE Good
    BY <2>1, <2>2, <1>5 DEF Minting
  <2> QED BY <1>20, <2>2, <1>3 DEF ReadUser, tables
<1>21. CASE RotateSession(p)
  <2> DEFINE l == [req[p] EXCEPT !.pc = "dropOld", !.next = issued + 1,
                                 !.left = {"session", "version"}]
  <2>1. l.pc = "dropOld" /\ l.version = req[p].version /\ req[p].pc = "rotate"
    BY <1>1, <1>21 DEF Locals, RotateSession, At
  <2>2. ASSUME Become(p, l) PROVE Good
    BY <2>1, <2>2, <1>5 DEF Minting
  <2> QED BY <1>21, <2>2, <1>3 DEF RotateSession
<1>23. CASE UpdatePassword(p)
  <2> DEFINE l == [Idle EXCEPT !.pc = "settle", !.version = account.version + 1,
                               !.left = {"code", "version"},
                               !.drop = {sessions[s].token : s \in Unrevoked}]
  <2>1. Become(p, l) /\ l.pc = "settle"
    BY <1>23 DEF UpdatePassword, Idle
  <2>2. req'[p].pc = "settle"
    BY <2>1, <1>5
  <2> QED BY <2>2 DEF Minting
<1>24. CASE GuardReadsUser(p)
  <2>1. ASSUME Become(p, [req[p] EXCEPT !.pc = "refused", !.version = account.version]) PROVE Good
    BY <2>1, <1>1, <1>5 DEF Locals, Minting
  <2> QED BY <1>24, <2>1, <1>3, <1>4 DEF GuardReadsUser, Minting, tables
<1>25. CASE GuardSetsVersion(p)
  BY <1>25, <1>3, <1>4 DEF GuardSetsVersion, At, Minting, tables
<1>26. CASE DeleteMe(p)
  BY <1>26, <1>12, <1>3 DEF DeleteMe, Dropped
<1>27. CASE LinkOAuthUser(p)
  BY <1>27
<1> HIDE DEF Good
<1> QED
  BY <1>6, <1>7, <1>8, <1>9, <1>10, <1>11, <1>13, <1>14, <1>15, <1>16, <1>17, <1>18, <1>19, <1>20,
     <1>21, <1>22, <1>23, <1>24, <1>25, <1>26, <1>27, <1>28, <1>29 DEF Act, Request, Step, Settles

LEMMA NextVersion == Typed /\ VersionInv /\ [Next]_vars => VersionInv'
<1> SUFFICES ASSUME Typed, VersionInv, [Next]_vars PROVE VersionInv'
  OBVIOUS
<1>1. /\ account \in Account /\ account.version \in Nat /\ access \subseteq Nat
      /\ None \notin Nat /\ req \in [Procs -> Locals]
      /\ \A q \in Procs : req[q].version \in Nat \cup {None}
      /\ \A q \in Procs : req[q].pc \in Minting => req[q].version \in Nat
  BY SessionConstants DEF Typed, TypeOK, Account, Versions, Locals, Carries
<1>2. ASSUME UNCHANGED <<account, access, req>> PROVE VersionInv'
  BY <1>2 DEF VersionInv, Usable, Live
<1>3. ASSUME NEW p \in Procs, Act(p) PROVE VersionInv'
  <2> DEFINE Own(q) ==
        /\ req[q].pc \in Minting \cup {"oauth"} /\ req[q].version # None =>
              req[q].version <= account.version
        /\ req[q].pc \in Minting /\ req[q].version = account.version => Usable
        /\ req[q].pc = "oauth" /\ req[q].version = account.version => Live
        /\ req[q].pc \in {"served", "accepted"} => account.exists
  <2>1. /\ account' \in Account
        /\ \/ UNCHANGED account
           \/ /\ AccountOpens(p)
              /\ account'.version = account.version
              /\ account'.suspended = account.suspended
              /\ account'.deleted = account.deleted
              /\ account.exists => account'.exists
              /\ account.verified => account'.verified
           \/ /\ account'.version = account.version + 1
              /\ account'.exists = account.exists
              /\ \/ account'.suspended = account.suspended /\ account'.deleted = account.deleted
                 \/ ~account'.suspended /\ ~account'.deleted
                 \/ account.exists
                 \/ DeleteMe(p)
    BY <1>1, <1>3, AccountStep
  <2>2. /\ account'.version \in Nat /\ account'.version >= account.version
        /\ account.exists => account'.exists
        /\ account'.version = account.version /\ Usable => Usable'
        /\ account'.version = account.version /\ Live => Live'
    BY <1>1, <2>1 DEF Account, Versions, Usable, Live
  <2>3. ~account'.exists => ~account'.suspended /\ ~account'.deleted
    <3>1. ASSUME DeleteMe(p) PROVE account.exists
      BY <3>1 DEF VersionInv, DeleteMe, At
    <3> QED BY <2>1, <3>1 DEF VersionInv
  <2>4. access' = access \/ (SignAccessToken(p) /\ access' = access \cup {req[p].version})
    <3>1. CASE Request(p)
      BY <3>1 DEF Request, Signup, ResendVerification, VerifyEmail, Login, OAuthLogin, Refresh, Logout,
                  ForgotPassword, ResetPassword, FindUserByUsername, FindDeletedUser, CanActivate
    <3>2. CASE CreateUser(p) \/ SendCode(p) \/ MarkVerified(p) \/ DeleteCode(p) \/ LinkOAuthUser(p)
               \/ LockSessions(p) \/ CountSessions(p) \/ SelectOldest(p) \/ InsertSession(p)
               \/ EvictRevoked(p) \/ Settles(p)
      BY <3>2 DEF CreateUser, SendCode, MarkVerified, DeleteCode, LinkOAuthUser, LockSessions,
                  CountSessions, SelectOldest, InsertSession, EvictRevoked, Settles, StoreSession,
                  SetTokenVersion, DropCached, DeleteResetCode
    <3>3. CASE SignAccessToken(p)
      BY <3>3 DEF SignAccessToken
    <3>4. CASE ReadUser(p) \/ LockForRotation(p) \/ RotateSession(p) \/ DropRotated(p)
               \/ UpdatePassword(p) \/ UpdateUserStatus(p) \/ RestoreDeletedUser(p)
               \/ GuardReadsUser(p) \/ GuardSetsVersion(p) \/ DeleteMe(p) \/ OtherHandler(p)
               \/ Abort(p)
      BY <3>4 DEF ReadUser, LockForRotation, RotateSession, DropRotated, UpdatePassword,
                  UpdateUserStatus, RestoreDeletedUser, GuardReadsUser, GuardSetsVersion, DeleteMe,
                  OtherHandler, Abort
    <3> QED BY <1>3, <3>1, <3>2, <3>3, <3>4 DEF Act, Step, Settles
  <2>5. Own(p)
    BY DEF VersionInv
  <2>6. /\ \A v \in access' : v \in Nat /\ v <= account.version
        /\ account.version \in access' => Usable
    <3>1. CASE access' = access
      BY <1>1, <3>1 DEF VersionInv
    <3>2. CASE SignAccessToken(p) /\ access' = access \cup {req[p].version}
      <4>1. req[p].pc = "sign"
        BY <3>2 DEF SignAccessToken, At
      <4>2. /\ req[p].version \in Nat /\ req[p].version <= account.version
            /\ req[p].version = account.version => Usable
        BY <1>1, <2>5, <4>1 DEF Minting
      <4> QED BY <1>1, <3>2, <4>2 DEF VersionInv
    <3> QED BY <2>4, <3>1, <3>2
  <2>7. /\ \A v \in access' : v <= account'.version
        /\ account'.version \in access' => Usable'
    <3>1. \A v \in access' : v <= account'.version
      BY <1>1, <2>2, <2>6
    <3>2. account'.version \in access' => account'.version = account.version
      BY <1>1, <2>2, <2>6
    <3> QED BY <2>2, <2>6, <3>1, <3>2
  <2>8. ASSUME NEW q \in Procs, q # p PROVE Own(q)'
    <3>1. req'[q] = req[q]
      BY <1>3, <2>8, VersionLocals
    <3>2. Own(q) /\ req[q].version \in Nat \cup {None}
      BY <1>1 DEF VersionInv
    <3>3. req[q].version \in Nat /\ req[q].version <= account.version /\ req[q].version = account'.version
            => account'.version = account.version
      BY <1>1, <2>2
    <3>4. req[q].version # None /\ req[q].version <= account.version => req[q].version <= account'.version
      BY <1>1, <2>2, <3>2
    <3> QED BY <1>1, <2>2, <3>1, <3>2, <3>3, <3>4
  <2>9. Own(p)'
    <3>1. CASE LinkOAuthUser(p)
      <4>1. req[p].pc = "oauth"
        BY <3>1 DEF LinkOAuthUser, At
      <4>2. CASE req[p].version # None
        <5>1. /\ account' = [account EXCEPT !.verified = TRUE] /\ req'[p].pc = "acquire"
              /\ req'[p].version = req[p].version
          BY <1>1, <3>1, <4>2 DEF LinkOAuthUser, Goto, Locals
        <5>2. /\ account'.version = account.version /\ account'.verified /\ account'.exists = account.exists
              /\ account'.suspended = account.suspended /\ account'.deleted = account.deleted
          BY <1>1, <5>1 DEF Account
        <5>3. req[p].version <= account.version
          BY <2>5, <4>1, <4>2
        <5>4. req[p].version = account.version => Usable'
          BY <2>5, <4>1, <5>2 DEF Usable, Live
        <5> QED BY <5>1, <5>2, <5>3, <5>4
      <4>3. CASE req[p].version = None /\ ~account.exists
        <5>1. /\ account' = [account EXCEPT !.exists = TRUE, !.verified = TRUE]
              /\ Become(p, [req[p] EXCEPT !.pc = "acquire", !.version = account.version])
          BY <3>1, <4>3 DEF LinkOAuthUser
        <5>2. req'[p].pc = "acquire" /\ req'[p].version = account.version
          BY <1>1, <5>1 DEF Become, Locals
        <5>3. /\ account'.version = account.version /\ account'.verified /\ account'.exists
              /\ account'.suspended = account.suspended /\ account'.deleted = account.deleted
          BY <1>1, <5>1 DEF Account
        <5>4. Usable'
          BY <4>3, <5>3 DEF VersionInv, Usable
        <5> QED BY <1>1, <5>2, <5>3, <5>4
      <4>4. CASE req[p].version = None /\ account.exists
        <5>1. End(p)
          BY <3>1, <4>4 DEF LinkOAuthUser
        <5>2. req'[p].pc = "idle"
          BY <1>1, <5>1 DEF End, Become, Idle
        <5> QED BY <5>2 DEF Minting
      <4> QED BY <4>2, <4>3, <4>4
    <3>2. CASE req'[p].pc \notin Minting \cup {"oauth", "served", "accepted"}
      BY <3>2
    <3>3. CASE /\ req'[p].pc \in Minting /\ req[p].pc \in Minting
               /\ req'[p].version = req[p].version
      <4>1. req[p].version \in Nat /\ req[p].version <= account.version
        BY <1>1, <2>5, <3>3
      <4>2. req[p].version <= account'.version
        BY <1>1, <2>2, <4>1
      <4>3. req[p].version = account'.version => account'.version = account.version
        BY <1>1, <2>2, <4>1
      <4> QED BY <2>2, <2>5, <3>3, <4>1, <4>2, <4>3 DEF Minting
    <3>4. CASE /\ req'[p].pc \in Minting /\ req'[p].version = account.version
               /\ Usable /\ UNCHANGED account
      BY <1>1, <3>4 DEF Minting, Usable
    <3>5. CASE /\ req'[p].pc = "oauth" /\ UNCHANGED account
               /\ req'[p].version = IF account.exists THEN account.version ELSE None
               /\ ~account.suspended /\ ~account.deleted
      BY <1>1, <3>5 DEF Minting, Live
    <3>6. CASE /\ req'[p].pc \in {"served", "accepted"} /\ UNCHANGED account
               /\ Usable \/ req[p].pc \in {"served", "accepted"}
      BY <2>5, <3>6 DEF Minting, Usable
    <3> QED BY <1>3, <3>1, <3>2, <3>3, <3>4, <3>5, <3>6, VersionLocals
  <2> HIDE DEF Own
  <2>10. \A q \in Procs : Own(q)'
    BY <2>8, <2>9
  <2> QED BY <2>3, <2>7, <2>10 DEF VersionInv, Own
<1>4. CASE Env
  <2>1. UNCHANGED <<account, access, req>>
    BY <1>4 DEF Env, LockExpires, KeyExpires, SessionExpires, tables
  <2> QED BY <2>1, <1>2
<1>5. CASE UNCHANGED vars
  BY <1>5, <1>2 DEF vars, tables
<1> QED BY <1>3, <1>4, <1>5 DEF Next, Act, Env

(* Suspension, deletion, restoration and a password reset leave no access  *)
(* token, signed or about to be, that the guard would take for current     *)
(* (updateUserStatus, deleteMe, restoreDeletedUser, resetPassword).        *)
THEOREM TokensDie == Spec => []TokensDieWithAccount
<1>1. Init => VersionInv
  <2> SUFFICES ASSUME Init PROVE VersionInv
    OBVIOUS
  <2>1. \A p \in Procs : req[p].pc = "idle"
    BY DEF Init, Idle
  <2> QED BY <2>1 DEF Init, VersionInv, Minting
<1>2. VersionInv => TokensDieWithAccount
  BY DEF VersionInv, TokensDieWithAccount
<1> QED BY <1>1, <1>2, InitTyped, NextTyped, NextVersion, PTL DEF Spec

---------------------------------------------------------------------------
(* The limit on active sessions *)

(* As long as no lock was lost under its holder: whoever is between lock   *)
(* and commit holds it, and the insert of a login that has counted keeps   *)
(* the limit.                                                              *)
Limited ==
    /\ \A p \in Procs : req[p].pc \in InLock => lock = p
    /\ \A p \in Procs : req[p].pc = "insert" =>
          Cardinality(ActiveSessions \ {req[p].revoke}) < MaxActive
    /\ Cardinality(ActiveSessions) <= MaxActive

LimitInv == ~lockLost => Limited

(* The section between lock and commit is entered with the lock only.      *)
LEMMA LockLocals ==
    ASSUME Typed, NEW p \in Procs, Act(p)
    PROVE  /\ \A q \in Procs \ {p} : req'[q] = req[q]
           /\ UNCHANGED lockLost
           /\ \/ req'[p].pc \notin InLock /\ lock' \in {lock, IF lock = p THEN None ELSE lock}
              \/ req'[p].pc \in {"count", "rotate"} /\ lock = None /\ lock' = p
              \/ CountSessions(p) \/ SelectOldest(p)
<1> DEFINE Out == req'[p].pc \notin InLock
           Kept == lockLost' = lockLost /\ lock' \in {lock, IF lock = p THEN None ELSE lock}
<1>1. req \in [Procs -> Locals] /\ req[p] \in Locals
  BY DEF Typed, TypeOK
<1>2. \A q \in Procs \ {p} : req'[q] = req[q]
  BY <1>1, StepLocals, RequestLocals, BecomeFacts DEF Act
<1>3. ASSUME End(p) PROVE Out
  BY <1>1, <1>3 DEF End, Become, Idle, InLock
<1>4. ASSUME NEW where, Goto(p, where) PROVE req'[p].pc = where
  BY <1>1, <1>4 DEF Goto, Locals
<1>5. ASSUME NEW l, Become(p, l) PROVE req'[p] = l
  BY <1>1, <1>5 DEF Become
<1>6. CASE Signup(p) \/ ResendVerification(p) \/ VerifyEmail(p) \/ ResetPassword(p)
           \/ FindDeletedUser(p)
  <2>1. Out /\ Kept
    BY <1>6, <1>4 DEF Signup, ResendVerification, VerifyEmail, ResetPassword, FindDeletedUser,
                      InLock, guard
  <2> QED BY <1>2, <2>1
<1>7. CASE Login(p) \/ OAuthLogin(p) \/ CanActivate(p)
  <2>1. ASSUME Login(p) PROVE Out
    <3> DEFINE l == [Idle EXCEPT !.pc = "acquire", !.version = account.version, !.signs = TRUE]
    <3>1. l.pc = "acquire" /\ req'[p] = l
      BY <2>1, <1>5 DEF Login, Idle
    <3> QED BY <3>1 DEF InLock
  <2>2. ASSUME OAuthLogin(p) PROVE Out
    BY <2>2, <1>5 DEF OAuthLogin, Idle, InLock
  <2>4. ASSUME CanActivate(p) PROVE Out
    BY <2>4, <1>5 DEF CanActivate, Idle, InLock
  <2>3. Kept
    BY <1>7 DEF Login, OAuthLogin, CanActivate, guard
  <2>5. Out
    BY <1>7, <2>1, <2>2, <2>4
  <2> QED BY <1>2, <2>3, <2>5
<1>8. ASSUME NEW t \in 1..issued, Refresh(p, t) PROVE Out /\ Kept
  <2>1. PICK s \in Ids : Become(p, [Idle EXCEPT !.pc = "readUser", !.token = t, !.id = s,
                                                 !.signs = TRUE])
    BY <1>8 DEF Refresh
  <2>2. req'[p].pc = "readUser"
    BY <2>1, <1>5 DEF Idle
  <2> QED BY <2>2, <1>8 DEF Refresh, InLock, guard
<1>9. ASSUME NEW D, Become(p, [Idle EXCEPT !.pc = "settle", !.drop = D]) PROVE Out
  BY <1>9, <1>5 DEF Idle, InLock
<1>10. ASSUME NEW t \in 1..issued, Logout(p, t) PROVE Out /\ Kept
  BY <1>10, <1>9 DEF Logout, guard
<1>11. CASE ForgotPassword(p)
  <2>1. Out /\ Kept
    BY <1>11 DEF ForgotPassword, Arrive, At, InLock, guard
  <2> QED BY <1>2, <2>1
<1>26. ASSUME NEW b \in BOOLEAN, FindUserByUsername(p, b) PROVE Out /\ Kept
  BY <1>26, <1>4 DEF FindUserByUsername, InLock, guard
<1>12. CASE UpdateUserStatus(p) \/ RestoreDeletedUser(p) \/ DeleteMe(p)
  <2>1. Out
    BY <1>12, <1>3, <1>9 DEF Dropped, UpdateUserStatus, RestoreDeletedUser, DeleteMe
  <2> QED BY <1>2, <2>1, <1>12 DEF UpdateUserStatus, RestoreDeletedUser, DeleteMe, guard
<1>27. CASE EvictRevoked(p) \/ Settles(p)
  <2>1. CASE EvictRevoked(p)
    <3>1. req'[p].pc = "store"
      BY <2>1, <1>1, <1>5 DEF EvictRevoked, Locals
    <3> QED BY <1>2, <2>1, <3>1 DEF EvictRevoked, InLock, guard
  <2>2. CASE Settles(p)
    <3>1. PICK k \in Locals : /\ Become(p, k)
                              /\ \/ k = Idle
                                 \/ k.pc = req[p].pc
                                 \/ k.pc = "sign"
      BY <2>2, SettlesLocals
    <3>2. req[p].pc \in {"store", "settle"} /\ req'[p] = k
      BY <2>2, <3>1, <1>5, SettlesLocals
    <3>3. Out
      BY <3>1, <3>2, <1>3 DEF End, InLock
    <3> QED BY <1>2, <2>2, <3>3 DEF Settles, StoreSession, SetTokenVersion, DropCached,
                                    DeleteResetCode, guard
  <2> QED BY <1>27, <2>1, <2>2
<1>13. CASE CreateUser(p) \/ MarkVerified(p) \/ GuardSetsVersion(p) \/ DropRotated(p)
  <2>1. Out
    BY <1>13, <1>3, <1>4 DEF CreateUser, MarkVerified, GuardSetsVersion, DropRotated, InLock
  <2>2. Kept
    BY <1>13 DEF CreateUser, MarkVerified, GuardSetsVersion, DropRotated, guard
  <2> QED BY <1>2, <2>1, <2>2
<1>14. CASE SendCode(p) \/ DeleteCode(p) \/ SignAccessToken(p) \/ OtherHandler(p) \/ Abort(p)
  <2>1. Out /\ Kept
    BY <1>14, <1>3 DEF SendCode, DeleteCode, SignAccessToken, OtherHandler, Abort, guard
  <2> QED BY <1>2, <2>1
<1>15. CASE LinkOAuthUser(p)
  <2>1. ASSUME Become(p, [req[p] EXCEPT !.pc = "acquire", !.version = account.version]) PROVE Out
    BY <2>1, <1>1, <1>5 DEF Locals, InLock
  <2>2. Out
    BY <1>15, <2>1, <1>3, <1>4 DEF LinkOAuthUser, InLock
  <2> QED BY <1>2, <2>2, <1>15 DEF LinkOAuthUser, guard
<1>16. CASE LockSessions(p)
  BY <1>16, <1>2, <1>4 DEF LockSessions, Acquire
<1>17. CASE LockForRotation(p)
  BY <1>17, <1>2, <1>4 DEF LockForRotation, Acquire
<1>18. CASE CountSessions(p) \/ SelectOldest(p)
  BY <1>18, <1>2 DEF CountSessions, SelectOldest, guard
<1>19. CASE InsertSession(p)
  <2>1. PICK s \in Ids, where \in {"store", "evict"} :
            Become(p, [req[p] EXCEPT !.pc = where, !.id = s, !.next = issued + 1,
                                     !.left = {"session", "version"}])
    BY <1>19 DEF InsertSession
  <2>2. req'[p].pc = where
    BY <2>1, <1>1, <1>5 DEF Locals
  <2> QED BY <2>2, <1>2, <1>19 DEF InsertSession, Release, InLock
<1>20. CASE ReadUser(p)
  <2>1. ASSUME Become(p, [req[p] EXCEPT !.pc = "acquireRotate", !.version = account.version]) PROVE Out
    BY <2>1, <1>1, <1>5 DEF Locals, InLock
  <2> QED BY <1>20, <1>2, <2>1, <1>3 DEF ReadUser, guard
<1>21. CASE RotateSession(p)
  <2>1. ASSUME Become(p, [req[p] EXCEPT !.pc = "dropOld", !.next = issued + 1,
                                        !.left = {"session", "version"}])
        PROVE  Out
    BY <2>1, <1>1, <1>5 DEF Locals, InLock
  <2>2. Out
    BY <1>21, <2>1, <1>3 DEF RotateSession
  <2> QED BY <1>21, <1>2, <2>2 DEF RotateSession, Release
<1>23. CASE UpdatePassword(p)
  <2>1. Out
    BY <1>23, <1>5 DEF UpdatePassword, Idle, InLock
  <2> QED BY <1>23, <1>2, <2>1 DEF UpdatePassword, guard
<1>24. CASE GuardReadsUser(p)
  <2>1. ASSUME Become(p, [req[p] EXCEPT !.pc = "refused", !.version = account.version]) PROVE Out
    BY <2>1, <1>1, <1>5 DEF Locals, InLock
  <2>2. Out
    BY <1>24, <2>1, <1>3, <1>4 DEF GuardReadsUser, InLock
  <2> QED BY <1>24, <1>2, <2>2 DEF GuardReadsUser, guard
<1> QED
  BY <1>2, <1>6, <1>7, <1>8, <1>10, <1>11, <1>12, <1>13, <1>14, <1>15, <1>16, <1>17, <1>18, <1>19,
     <1>20, <1>21, <1>23, <1>24, <1>26, <1>27 DEF Act, Request, Step, Settles

(* Sets of sessions are finite.                                            *)
LEMMA SessionSets ==
    ASSUME NEW S \in SUBSET Ids
    PROVE  IsFiniteSet(S) /\ Cardinality(S) \in Nat
<1>1. IsFiniteSet(Ids)
  BY FS_Interval, SessionConstants DEF Ids
<1> QED BY <1>1, FS_Subset, FS_CardinalityType

LEMMA FewerSessions ==
    ASSUME NEW S \in SUBSET Ids, NEW T \in SUBSET S
    PROVE  Cardinality(T) <= Cardinality(S)
BY SessionSets, FS_Subset

LEMMA NextLimit == Typed /\ LimitInv /\ [Next]_vars => LimitInv'
<1> SUFFICES ASSUME Typed, LimitInv, [Next]_vars, ~lockLost' PROVE Limited'
  BY DEF LimitInv
<1>1. /\ sessions \in [Ids -> Session] /\ req \in [Procs -> Locals] /\ lock \in Procs \cup {None}
      /\ None \notin Procs /\ MaxActive \in Nat \ {0}
  BY SessionConstants DEF Typed, TypeOK
<1>2. ActiveSessions \in SUBSET Ids /\ ActiveSessions' \in SUBSET Ids
  BY DEF ActiveSessions
<1>3. ASSUME ActiveSessions' \subseteq ActiveSessions, Limited
      PROVE  /\ Cardinality(ActiveSessions') <= MaxActive
             /\ \A x : Cardinality(ActiveSessions \ {x}) < MaxActive =>
                       Cardinality(ActiveSessions' \ {x}) < MaxActive
  <2>1. Cardinality(ActiveSessions') <= Cardinality(ActiveSessions)
    BY <1>2, <1>3, FewerSessions
  <2>2. ASSUME NEW x, Cardinality(ActiveSessions \ {x}) < MaxActive
        PROVE  Cardinality(ActiveSessions' \ {x}) < MaxActive
    <3>1. Cardinality(ActiveSessions' \ {x}) <= Cardinality(ActiveSessions \ {x})
      BY <1>2, <1>3, FewerSessions
    <3> QED BY <1>1, <1>2, <2>2, <3>1, SessionSets
  <2>3. /\ Cardinality(ActiveSessions') \in Nat /\ Cardinality(ActiveSessions) \in Nat
        /\ Cardinality(ActiveSessions) <= MaxActive
    BY <1>2, <1>3, SessionSets DEF Limited
  <2>4. Cardinality(ActiveSessions') <= MaxActive
    BY <1>1, <2>1, <2>3
  <2> QED BY <2>2, <2>4
<1>4. ASSUME NEW p \in Procs, Act(p) PROVE Limited'
  <2>1. /\ Limited
        /\ \A q \in Procs \ {p} : req'[q] = req[q]
        /\ \/ req'[p].pc \notin InLock /\ lock' \in {lock, IF lock = p THEN None ELSE lock}
           \/ req'[p].pc \in {"count", "rotate"} /\ lock = None /\ lock' = p
           \/ CountSessions(p) \/ SelectOldest(p)
    BY <1>4, LockLocals DEF LimitInv
  <2>2. \A q \in Procs : req'[q].pc \in InLock => lock' = q
    <3>1. ASSUME CountSessions(p) \/ SelectOldest(p) PROVE lock = p /\ lock' = lock
      BY <2>1, <3>1 DEF Limited, CountSessions, SelectOldest, At, InLock, guard
    <3> QED BY <1>1, <2>1, <3>1 DEF Limited
  <2>3. CASE CountSessions(p) \/ SelectOldest(p)
    <3>1. ActiveSessions' = ActiveSessions
      BY <2>3 DEF CountSessions, SelectOldest, tables, ActiveSessions
    <3>2. req'[p].pc = "insert" => Cardinality(ActiveSessions \ {req'[p].revoke}) < MaxActive
      <4>1. \A x : Cardinality(ActiveSessions \ {x}) <= Cardinality(ActiveSessions)
        BY <1>2, FewerSessions
      <4>2. /\ Cardinality(ActiveSessions) \in Nat
            /\ \A x : Cardinality(ActiveSessions \ {x}) \in Nat
        BY <1>2, SessionSets
      <4>6. ASSUME NEW x, Cardinality(ActiveSessions) < MaxActive
            PROVE  Cardinality(ActiveSessions \ {x}) < MaxActive
        <5> DEFINE a == Cardinality(ActiveSessions)
                   b == Cardinality(ActiveSessions \ {x})
        <5>1. a \in Nat /\ b \in Nat /\ b <= a /\ a < MaxActive
          BY <4>1, <4>2, <4>6
        <5> HIDE DEF a, b
        <5>2. b < MaxActive
          BY <1>1, <5>1
        <5> QED BY <5>2 DEF b
      <4>3. CASE CountSessions(p)
        <5>1. req'[p].pc = "insert" => Cardinality(ActiveSessions) < MaxActive
          BY <1>1, <4>2, <4>3 DEF CountSessions, Goto, Locals
        <5> QED BY <4>6, <5>1
      <4>4. CASE SelectOldest(p) /\ ActiveSessions = {}
        <5>1. Cardinality(ActiveSessions) < MaxActive
          BY <1>1, <4>4, FS_EmptySet
        <5> QED BY <4>6, <5>1
      <4>5. CASE SelectOldest(p) /\ ActiveSessions # {}
        <5>1. PICK x \in ActiveSessions :
                Become(p, [req[p] EXCEPT !.pc = "insert", !.revoke = x, !.drop = {sessions[x].token}])
          BY <4>5 DEF SelectOldest, Oldest
        <5>2. req'[p].revoke = x
          BY <1>1, <5>1 DEF Become, Locals
        <5>3. Cardinality(ActiveSessions \ {x}) = Cardinality(ActiveSessions) - 1
          BY <1>2, <5>1, SessionSets, FS_RemoveElement
        <5> QED BY <1>1, <4>2, <2>1, <5>2, <5>3 DEF Limited
      <4> QED BY <2>3, <4>3, <4>4, <4>5
    <3>3. \A q \in Procs : req'[q].pc = "insert" => Cardinality(ActiveSessions' \ {req'[q].revoke}) < MaxActive
      BY <2>1, <3>1, <3>2 DEF Limited
    <3> QED BY <2>1, <2>2, <3>1, <3>3 DEF Limited
  <2>4. CASE InsertSession(p)
    <3> DEFINE x == req[p].revoke
               R == Revoke({x} \cap Ids)
    <3>1. PICK s \in Ids : sessions' = [R EXCEPT ![s] = [state |-> "active", token |-> issued + 1]]
      BY <2>4 DEF InsertSession
    <3>2. R \in [Ids -> Session] /\ \A t \in Ids : R[t].state = "active" => t \in ActiveSessions \ {x}
      BY <1>1 DEF Revoke, Session, ActiveSessions
    <3>3. ActiveSessions' \subseteq (ActiveSessions \ {x}) \cup {s}
      BY <3>1, <3>2 DEF ActiveSessions
    <3>4. Cardinality((ActiveSessions \ {x}) \cup {s}) <= Cardinality(ActiveSessions \ {x}) + 1
      <4> DEFINE A == ActiveSessions \ {x}
      <4>1. A \in SUBSET Ids
        BY <1>2
      <4>2. IsFiniteSet(A) /\ Cardinality(A) \in Nat
        BY <4>1, SessionSets
      <4> HIDE DEF A
      <4>3. Cardinality(A \cup {s}) = IF s \in A THEN Cardinality(A) ELSE Cardinality(A) + 1
        BY <4>2, FS_AddElement
      <4>4. Cardinality(A \cup {s}) <= Cardinality(A) + 1
        BY <4>2, <4>3
      <4> QED BY <4>4 DEF A
    <3>5. Cardinality(ActiveSessions') <= Cardinality((ActiveSessions \ {x}) \cup {s})
      BY <1>2, <3>3, FewerSessions
    <3>6. req[p].pc = "insert"
      BY <2>4 DEF InsertSession, At
    <3>7. Cardinality(ActiveSessions \ {x}) < MaxActive
      BY <2>1, <3>6 DEF Limited
    <3>8. Cardinality(ActiveSessions') <= MaxActive
      <4>1. /\ Cardinality(ActiveSessions \ {x}) \in Nat
            /\ Cardinality((ActiveSessions \ {x}) \cup {s}) \in Nat
            /\ Cardinality(ActiveSessions') \in Nat
        BY <1>2, SessionSets
      <4> QED BY <1>1, <4>1, <3>4, <3>5, <3>7
    <3>9. \A q \in Procs : req'[q].pc # "insert"
      <4>1. req'[p].pc # "insert"
        BY <1>1, <2>4 DEF InsertSession, Become, Locals
      <4>2. \A q \in Procs \ {p} : req[q].pc # "insert"
        BY <2>1, <3>6 DEF Limited, InLock
      <4> QED BY <2>1, <4>1, <4>2
    <3> QED BY <2>2, <3>8, <3>9 DEF Limited
  <2>5. CASE ~CountSessions(p) /\ ~SelectOldest(p) /\ ~InsertSession(p)
    <3>1. ActiveSessions' \subseteq ActiveSessions
      <4>1. CASE UNCHANGED <<sessions, issued>>
        BY <4>1 DEF ActiveSessions
      <4>2. CASE \E S \in SUBSET Unrevoked : sessions' = Revoke(S)
        BY <1>1, <4>2, RevokeFacts DEF ActiveSessions
      <4>3. CASE RotateSession(p)
        BY <1>1, <4>3 DEF RotateSession, ActiveSessions, Session
      <4> QED BY <1>4, <2>5, <4>1, <4>2, <4>3, SessionsStep
    <3>2. req'[p].pc # "insert"
      BY <2>1, <2>5 DEF InLock
    <3> QED BY <1>3, <2>1, <2>2, <3>1, <3>2 DEF Limited
  <2> QED BY <2>3, <2>4, <2>5
<1>5. CASE LockExpires
  <2>1. ~lockLost /\ req[lock].pc \notin InLock /\ UNCHANGED <<sessions, req>>
    BY <1>5 DEF LockExpires, tables
  <2>2. Limited /\ \A q \in Procs : req[q].pc \notin InLock
    BY <2>1 DEF LimitInv, Limited
  <2> QED BY <2>1, <2>2 DEF Limited, ActiveSessions, InLock
<1>6. CASE KeyExpires \/ UNCHANGED vars
  BY <1>6 DEF KeyExpires, vars, tables, guard, LimitInv, Limited, ActiveSessions
<1>7. ASSUME NEW s \in Ids, SessionExpires(s) PROVE Limited'
  <2>1. UNCHANGED <<req, lock, lockLost>> /\ ActiveSessions' \subseteq ActiveSessions
    BY <1>1, <1>7 DEF SessionExpires, guard, ActiveSessions, Session
  <2>2. Limited
    BY <2>1 DEF LimitInv
  <2> QED BY <1>3, <2>1, <2>2 DEF Limited
<1> QED BY <1>4, <1>5, <1>6, <1>7 DEF Next, Act

(* An account never has more active sessions than the limit, however many  *)
(* logins run at once, unless a login outlived its lock                    *)
(* (createSessionForUser, withUserSessionLock).                            *)
THEOREM LimitKept == Spec => []SessionLimit
<1>1. Init => LimitInv
  <2> SUFFICES ASSUME Init PROVE Limited
    BY DEF LimitInv
  <2>1. \A p \in Procs : req[p].pc = "idle"
    BY DEF Init, Idle
  <2>2. ActiveSessions = {}
    BY DEF Init, ActiveSessions
  <2>3. Cardinality(ActiveSessions) <= MaxActive
    BY <2>2, FS_EmptySet, SessionConstants
  <2> QED BY <2>1, <2>3 DEF Limited, InLock
<1>2. LimitInv => SessionLimit
  BY DEF LimitInv, Limited, SessionLimit
<1> QED BY <1>1, <1>2, InitTyped, NextTyped, NextLimit, PTL DEF Spec
============================================================================
