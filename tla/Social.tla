------------------------------- MODULE Social -------------------------------
(***************************************************************************)
(* Friends, room invites and leaderboard notifications on top of the       *)
(* outbox (src/src/friends, inviteToRoom of src/src/rooms,                 *)
(* src/src/leaderboards), with the first page of a friend list cached in   *)
(* Redis under a version number that every change increments.              *)
(*                                                                         *)
(* A friendship row stands for its pair; deleted users, paging and the     *)
(* conditions an invite puts on the room (RoomLobby) are left out.         *)
(***************************************************************************)
EXTENDS Outbox

CONSTANTS
    Procs,        \* requests in flight
    Offered,      \* the operations an instance explores
    MaxRequests   \* bound on the requests served

ASSUME SocialConstants == MaxRequests \in Nat /\ None \notin Users

VARIABLES
    friendships,  \* the friendships rows
    created,      \* friendships created so far: their ids
    version,      \* friends:<user>:version, 0 when the key is missing
    pages,        \* friends:<user>:list:v<version>:first
    missed,       \* users whose invalidation was lost with its request
    req,
    served

friendVars == <<friendships, created>>
cacheVars == <<version, pages, missed>>
vars == <<outboxVars, friendVars, cacheVars, req, served>>

Operations == {"send", "accept", "reject", "cancel", "remove", "invite", "list", "leaderboard"}
Friendship == [id : Nat, from : Users, to : Users, status : {"pending", "accepted"}]
Page == [user : Users, version : Nat, rows : SUBSET Users]

(* What a request carries: the two users, the users whose lists it has     *)
(* changed, the event to enqueue, the list version and the rows it read.   *)
Locals == [pc : {"idle", "insert", "invalidate", "enqueue", "invite",
                 "lookup", "load", "storePage", "find", "note", "event"},
           from : Users \cup {None}, to : Users \cup {None},
           stale : SUBSET Users, event : Ids \cup {None},
           version : Nat, rows : SUBSET Users]

Idle == [pc |-> "idle", from |-> None, to |-> None, stale |-> {}, event |-> None,
         version |-> 0, rows |-> {}]

TypeOK ==
    /\ OutboxTypeOK
    /\ friendships \subseteq Friendship
    /\ created \in Nat
    /\ version \in [Users -> Nat]
    /\ pages \subseteq Page
    /\ missed \subseteq Users
    /\ req \in [Procs -> Locals]
    /\ served \in 0..MaxRequests

(* The pair are strangers, or have a request pending after earlier changes *)
(* that gave their lists a version; its notification may be on the way.    *)
Init ==
    /\ \/ /\ OutboxInit
          /\ friendships = {} /\ created = 0
          /\ version = [u \in Users |-> 0]
       \/ \E u, v \in Users :
            /\ u # v
            /\ \/ OutboxInit
               \/ OutboxRetrying([user |-> v, kind |-> "friend_request", about |-> 1])
            /\ friendships = {[id |-> 1, from |-> u, to |-> v, status |-> "pending"]}
            /\ created = 1
            /\ version = [x \in Users |-> 2]
    /\ pages = {}
    /\ missed = {}
    /\ req = [p \in Procs |-> Idle]
    /\ served = 0

---------------------------------------------------------------------------
At(p, where) == req[p].pc = where
Goto(p, where) == req' = [req EXCEPT ![p].pc = where]
Become(p, l) == req' = [req EXCEPT ![p] = l]
End(p) == Become(p, Idle)

(* Requests are interchangeable: a new one takes any one idle slot.        *)
Slot == CHOOSE p \in Procs : At(p, "idle")

Arrive(p, op) ==
    /\ op \in Offered
    /\ At(p, "idle") /\ p = Slot
    /\ served < MaxRequests
    /\ served' = served + 1

Between(u, v) == {f \in friendships : {f.from, f.to} = {u, v}}

(* The friends of u, as listFriends returns them.                          *)
FriendsOf(u) ==
    {v \in Users : \E f \in Between(u, v) : f.status = "accepted" /\ u # v}

(* Mutant: the id of the last notification before the change is kept.      *)
ChangedEarlier(p, f, e) ==
    Become(p, [Idle EXCEPT !.pc = "invalidate", !.stale = {f.from, f.to},
                           !.event = IF e = None THEN None ELSE e - 1])

(* A change is committed: both lists are stale until they are invalidated. *)
Changed(p, f, e) ==
    Become(p, [Idle EXCEPT !.pc = "invalidate", !.stale = {f.from, f.to}, !.event = e])

---------------------------------------------------------------------------
(* Friend requests *)

(* sendRequest looks for a friendship in either direction ...              *)
SendRequest(p, u, v) ==
    /\ Arrive(p, "send")
    /\ u # v
    /\ Between(u, v) = {}
    /\ Become(p, [Idle EXCEPT !.pc = "insert", !.from = u, !.to = v])
    /\ UNCHANGED <<outboxVars, friendVars, cacheVars>>

(* Mutant: the unique index is on (requester_id, addressee_id).            *)
TakenSameWay(u, v) == \E f \in friendships : f.from = u /\ f.to = v

(* friendships_user_pair_unique_idx                                        *)
Taken(u, v) == Between(u, v) # {}

(* ... and its transaction inserts the row, the notification and the       *)
(* event; the loser of two such requests violates the unique index.        *)
CreateFriendRequest(p) ==
    /\ At(p, "insert")
    /\ LET u == req[p].from
           v == req[p].to
           f == [id |-> created + 1, from |-> u, to |-> v, status |-> "pending"] IN
       \/ /\ Taken(u, v)
          /\ End(p)
          /\ UNCHANGED <<notes, events, friendVars>>
       \/ /\ ~Taken(u, v)
          /\ friendships' = friendships \cup {f}
          /\ created' = created + 1
          /\ CreateNotification([user |-> v, kind |-> "friend_request", about |-> f.id])
          /\ Changed(p, f, Len(notes) + 1)
    /\ UNCHANGED <<jobs, worker, faults, cacheVars, served>>

(* Mutant: the update does not ask for a pending row.                      *)
AcceptableAny(f, u) == f.to = u

(* The condition of acceptFriendRequest's update.                          *)
Acceptable(f, u) == f.to = u /\ f.status = "pending"

(* acceptRequest: the update, the notification and the event in one        *)
(* transaction.                                                            *)
AcceptRequest(p, f, u) ==
    /\ Arrive(p, "accept")
    /\ Acceptable(f, u)
    /\ friendships' = (friendships \ {f}) \cup {[f EXCEPT !.status = "accepted"]}
    /\ CreateNotification([user |-> f.from, kind |-> "friend_accepted", about |-> f.id])
    /\ Changed(p, f, Len(notes) + 1)
    /\ UNCHANGED <<jobs, worker, faults, created, cacheVars>>

(* rejectRequest by the addressee, cancelRequest by the requester,         *)
(* removeFriend by either: one delete each.                                *)
DeleteFriendship(p, f, op) ==
    /\ Arrive(p, op)
    /\ f.status = IF op = "remove" THEN "accepted" ELSE "pending"
    /\ friendships' = friendships \ {f}
    /\ Changed(p, f, None)
    /\ UNCHANGED <<outboxVars, created, cacheVars>>

(* Mutant: only the requester's list is invalidated.                       *)
InvalidateFriendListCacheHalf(p) ==
    /\ At(p, "invalidate")
    /\ \E u \in req[p].stale :
         version' = [version EXCEPT ![u] = @ + 1]
    /\ IF req[p].event = None THEN End(p)
       ELSE Become(p, [req[p] EXCEPT !.stale = {}, !.pc = "enqueue"])
    /\ missed' = missed
    /\ UNCHANGED <<outboxVars, friendVars, pages, served>>

(* invalidateFriendListCache: an INCR for each user.                       *)
InvalidateFriendListCache(p) ==
    /\ At(p, "invalidate")
    /\ \E u \in req[p].stale :
         /\ version' = [version EXCEPT ![u] = @ + 1]
         /\ missed' = missed \ {u}
         /\ IF req[p].stale # {u}
            THEN Become(p, [req[p] EXCEPT !.stale = @ \ {u}])
            ELSE IF req[p].event = None THEN End(p)
            ELSE Become(p, [req[p] EXCEPT !.stale = {}, !.pc = "enqueue"])
    /\ UNCHANGED <<outboxVars, friendVars, pages, served>>

EnqueuePublishEvent(p) ==
    /\ At(p, "enqueue")
    /\ jobs' = Enqueued(req[p].event)
    /\ End(p)
    /\ UNCHANGED <<notes, events, worker, faults, friendVars, cacheVars, served>>

---------------------------------------------------------------------------
(* Invites and leaderboards *)

(* inviteToRoom reads an accepted friendship, among other things ...       *)
InviteToRoom(p, u, v) ==
    /\ Arrive(p, "invite")
    /\ v \in FriendsOf(u)
    /\ Become(p, [Idle EXCEPT !.pc = "invite", !.from = u, !.to = v])
    /\ UNCHANGED <<outboxVars, friendVars, cacheVars>>

(* ... and creates the notification and its event in a transaction.        *)
CreateRoomInvite(p) ==
    /\ At(p, "invite")
    /\ CreateNotification([user |-> req[p].to, kind |-> "room_invite", about |-> None])
    /\ Become(p, [req[p] EXCEPT !.pc = "enqueue", !.event = Len(notes) + 1])
    /\ UNCHANGED <<jobs, worker, faults, friendVars, cacheVars, served>>

(* notifyLeaderboardEntries handles the entries of a snapshot concurrently;*)
(* a request stands for one entry of the current bucket.                   *)
RefreshEntry(p, u) ==
    /\ Arrive(p, "leaderboard")
    /\ Become(p, [Idle EXCEPT !.pc = "find", !.to = u])
    /\ UNCHANGED <<outboxVars, friendVars, cacheVars>>

FindLeaderboardNotification(p) ==
    /\ At(p, "find")
    /\ IF \E n \in DOMAIN notes : notes[n].user = req[p].to /\ notes[n].kind = "leaderboard"
       THEN End(p)
       ELSE Goto(p, "note")
    /\ UNCHANGED <<outboxVars, friendVars, cacheVars, served>>

(* createLeaderboardNotification has no transaction: the row first ...     *)
CreateLeaderboardNotification(p) ==
    /\ At(p, "note")
    /\ Len(notes) < MaxNotes
    /\ notes' = Append(notes, [user |-> req[p].to, kind |-> "leaderboard", about |-> None])
    /\ Become(p, [req[p] EXCEPT !.pc = "event", !.event = Len(notes) + 1])
    /\ UNCHANGED <<events, jobs, worker, faults, friendVars, cacheVars, served>>

(* ... and then the event.                                                 *)
CreateLeaderboardEvent(p) ==
    /\ At(p, "event")
    /\ events' = [events EXCEPT ![req[p].event] = QueuedEvent]
    /\ Goto(p, "enqueue")
    /\ UNCHANGED <<notes, jobs, worker, faults, friendVars, cacheVars, served>>

---------------------------------------------------------------------------
(* The friend list *)

(* getFriendListCacheVersion takes a missing key for 1.                    *)
CacheVersion(u) == IF version[u] = 0 THEN 1 ELSE version[u]

ListFriends(p, u) ==
    /\ Arrive(p, "list")
    /\ Become(p, [Idle EXCEPT !.pc = "lookup", !.from = u, !.version = CacheVersion(u)])
    /\ UNCHANGED <<outboxVars, friendVars, cacheVars>>

Cached(p) == {g \in pages : g.user = req[p].from /\ g.version = req[p].version}

(* getOrSet: a cached page is the answer, else the rows are loaded ...     *)
(* The look-up is the one the load repeats under the lock of the key.  The *)
(* lock orders nothing here: it ends with its ttl of 10 s, so a load that  *)
(* takes longer runs beside the next one, and a request that joins a load  *)
(* in flight answers what a look-up after its store answers.               *)
LookUpPage(p) ==
    /\ At(p, "lookup")
    /\ IF Cached(p) # {} THEN End(p) ELSE Goto(p, "load")
    /\ UNCHANGED <<outboxVars, friendVars, cacheVars, served>>

LoadFriends(p) ==
    /\ At(p, "load")
    /\ Become(p, [req[p] EXCEPT !.pc = "storePage", !.rows = FriendsOf(req[p].from)])
    /\ UNCHANGED <<outboxVars, friendVars, cacheVars, served>>

(* ... and cached under the version that was read.                         *)
StorePage(p) ==
    /\ At(p, "storePage")
    /\ pages' = (pages \ Cached(p)) \cup
                  {[user |-> req[p].from, version |-> req[p].version, rows |-> req[p].rows]}
    /\ End(p)
    /\ UNCHANGED <<outboxVars, friendVars, version, missed, served>>

PageExpires ==
    /\ \E g \in pages : pages' = pages \ {g}
    /\ UNCHANGED <<outboxVars, friendVars, version, missed, req, served>>

---------------------------------------------------------------------------
(* A request stops where it is; what it had committed stays.               *)
Abort(p) ==
    /\ ~At(p, "idle")
    /\ faults < MaxFaults
    /\ faults' = faults + 1
    /\ missed' = missed \cup req[p].stale
    /\ End(p)
    /\ UNCHANGED <<notes, events, jobs, worker, friendVars, version, pages, served>>

Request(p) ==
    \/ \E u, v \in Users : SendRequest(p, u, v) \/ InviteToRoom(p, u, v)
    \/ \E f \in friendships :
         \/ \E u \in Users : AcceptRequest(p, f, u)
         \/ \E op \in {"reject", "cancel", "remove"} : DeleteFriendship(p, f, op)
    \/ \E u \in Users : RefreshEntry(p, u) \/ ListFriends(p, u)

Step(p) ==
    \/ CreateFriendRequest(p) \/ InvalidateFriendListCache(p) \/ EnqueuePublishEvent(p)
    \/ CreateRoomInvite(p)
    \/ FindLeaderboardNotification(p) \/ CreateLeaderboardNotification(p)
    \/ CreateLeaderboardEvent(p)
    \/ LookUpPage(p) \/ LoadFriends(p) \/ StorePage(p)

Next ==
    \/ \E p \in Procs : Request(p) \/ Step(p) \/ Abort(p)
    \/ PageExpires
    \/ OutboxNext /\ UNCHANGED <<friendVars, cacheVars, req, served>>

Spec == Init /\ [][Next]_vars
FairSpec == Spec /\ OutboxFairness

---------------------------------------------------------------------------
(* Two users who ask each other at the same time, both after finding no    *)
(* friendship, end up with one row, whoever was first.                     *)
OneFriendshipPerPair ==
    \A u, v \in Users : Cardinality(Between(u, v)) <= 1

Announcements(id) ==
    {n \in DOMAIN notes : notes[n].kind = "friend_accepted" /\ notes[n].about = id}

(* An accepted friendship was announced to its requester exactly once,     *)
(* and no friendship twice, however accepts, rejects, cancellations and    *)
(* new requests of the pair meet.                                          *)
AcceptedAnnouncedOnce ==
    /\ \A f \in friendships :
         f.status = "accepted" => Cardinality(Announcements(f.id)) = 1
    /\ \A id \in 1..created : Cardinality(Announcements(id)) <= 1

(* The page that the next reader of a list would get from the cache holds  *)
(* the friends of the moment, unless a change has not invalidated it yet   *)
(* or stopped before it could.  The first invalidation of a user is the    *)
(* exception: INCR takes the missing key to 1, which readers had assumed.  *)
PageCurrent ==
    \A g \in pages :
        \/ g.version # CacheVersion(g.user)
        \/ version[g.user] = 1
        \/ g.rows = FriendsOf(g.user)
        \/ g.user \in missed
        \/ \E p \in Procs : g.user \in req[p].stale
============================================================================
