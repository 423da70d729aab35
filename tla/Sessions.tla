-------------------------------- MODULE Sessions --------------------------------
(***************************************************************************)
(* AuthService and UsersService.withdraw over Redis: a refresh token is a  *)
(* key rt:<hash> naming its user, and the set user_rts:<user> lists a      *)
(* user's hashes for bulk revocation.  The two are written by separate     *)
(* commands, one request per step, and any number of requests interleave.  *)
(* An access token is checked against the users table when a request       *)
(* starts (JwtStrategy.validate) and never again.                          *)
(***************************************************************************)
EXTENDS FiniteSets

CONSTANTS
    Members, Admins,
    Tokens,    \* the refresh tokens randomBytes will ever produce
    Devices,   \* FCM device tokens
    Requests,  \* names for the requests open at one time
    None       \* null

Users == Members \cup Admins

ASSUME SessionsAssumption ==
    /\ Members \cap Admins = {}
    /\ None \notin Users \cup Tokens \cup Devices
    /\ Tokens \cap Devices = {}

VARIABLES
    account,  \* DB users: "active", "withdrawn" or "deleted" (no row)
    devices,  \* DB device_tokens: the user each token is registered for
    owner,    \* Redis rt:<hash>: the user, None without such a key
    tracked,  \* Redis user_rts:<user>
    issued,   \* whom each token was made for, None while it was not made
    handed,   \* the tokens some client has been sent
    voided,   \* the tokens some answer declared void
    erased,   \* members whose withdrawal no request of theirs overlapped
    req       \* the open requests

redisVars == <<owner, tracked>>
toldVars  == <<handed, voided, erased>>
vars      == <<account, devices, redisVars, issued, toldVars, req>>

(* op is the handler, at the call it is about to make, token what it was   *)
(* sent, fresh the token it made, listed what SMEMBERS returned.  Not in   *)
(* the code, and kept for withdrawals only: before, the tokens clients     *)
(* held when it began, and alone, that no request of the user overlaps it. *)
Ops    == {"login", "refresh", "logout", "withdraw", "delete", "register"}
Places == {"set", "add", "answer", "del", "srem", "register", "update",
           "devices", "find", "list", "keys", "purge", "row"}
Request(op, place, u, token) ==
    [op |-> op, at |-> place, user |-> u, token |-> token, fresh |-> None,
     listed |-> {}, before |-> IF op = "withdraw" THEN handed ELSE {}, alone |-> TRUE]
RequestType ==
    [op : Ops, at : Places, user : Users, token : Tokens \cup Devices \cup {None},
     fresh : Tokens \cup {None}, listed : SUBSET Tokens, before : SUBSET Tokens,
     alone : BOOLEAN]

ASSUME NoneIsNoRequest == None \notin RequestType

Live(t) == owner[t] # None
At(r, place) == req[r] # None /\ req[r].at = place

(* A request starts: it and the open ones of the same user overlap. *)
Open(r, new) ==
    /\ req[r] = None
    /\ LET others == {q \in Requests : req[q] # None /\ req[q].user = new.user}
       IN  req' = [q \in Requests |->
                      CASE q = r        -> [new EXCEPT !.alone = @ /\ (new.op = "withdraw" => others = {})]
                        [] q \in others -> [req[q] EXCEPT !.alone = @ /\ req[q].op # "withdraw"]
                        [] OTHER        -> req[q]]

Go(r, place) == req' = [req EXCEPT ![r].at = place]
End(r)       == req' = [req EXCEPT ![r] = None]

Init ==
    /\ account = [u \in Users |-> "active"]
    /\ devices = [d \in Devices |-> None]
    /\ owner = [t \in Tokens |-> None]
    /\ tracked = [u \in Users |-> {}]
    /\ issued = [t \in Tokens |-> None]
    /\ handed = {} /\ voided = {} /\ erased = {}
    /\ req = [r \in Requests |-> None]

-------------------------------------------------------------------------------
(* finishOAuthLogin / adminLogin once the user is known: withdrawn and     *)
(* deleted users are not found by their social account or email.           *)
Login(r, u) ==
    /\ account[u] = "active"
    /\ Open(r, Request("login", "set", u, None))
    /\ UNCHANGED <<account, devices, redisVars, issued, toldVars>>

(* refreshTokens: GET.  A token without a key gets 401 and changes nothing *)
Refresh(r, t) ==
    /\ t \in handed /\ Live(t)
    /\ Open(r, Request("refresh", "del", owner[t], t))
    /\ UNCHANGED <<account, devices, redisVars, issued, toldVars>>

Logout(r, t) ==
    /\ t \in handed /\ Live(t)
    /\ Open(r, Request("logout", "del", owner[t], t))
    /\ UNCHANGED <<account, devices, redisVars, issued, toldVars>>

(* Mutant: the key is left to expire. *)
KeepKey(r) ==
    /\ At(r, "del")
    /\ Go(r, "srem")
    /\ UNCHANGED <<account, devices, redisVars, issued, toldVars>>

DelKey(r) ==
    /\ At(r, "del")
    /\ owner' = [owner EXCEPT ![req[r].token] = None]
    /\ Go(r, "srem")
    /\ UNCHANGED <<account, devices, tracked, issued, toldVars>>

Srem(r) ==
    /\ At(r, "srem")
    /\ tracked' = [tracked EXCEPT ![req[r].user] = @ \ {req[r].token}]
    /\ Go(r, IF req[r].op = "refresh" THEN "set" ELSE "answer")
    /\ UNCHANGED <<account, devices, owner, issued, toldVars>>

(* buildTokenPair *)
SetKey(r, t) ==
    /\ At(r, "set") /\ issued[t] = None
    /\ issued' = [issued EXCEPT ![t] = req[r].user]
    /\ owner' = [owner EXCEPT ![t] = req[r].user]
    /\ req' = [req EXCEPT ![r].fresh = t, ![r].at = "add"]
    /\ UNCHANGED <<account, devices, tracked, toldVars>>

(* Mutants: SADD is forgotten, or adds the hash of the old token. *)
SkipSadd(r) ==
    /\ At(r, "add")
    /\ Go(r, "answer")
    /\ UNCHANGED <<account, devices, redisVars, issued, toldVars>>

SaddOld(r) ==
    /\ At(r, "add")
    /\ tracked' = [tracked EXCEPT ![req[r].user] = @ \cup {req[r].token}]
    /\ Go(r, "answer")
    /\ UNCHANGED <<account, devices, owner, issued, toldVars>>

Sadd(r) ==
    /\ At(r, "add")
    /\ tracked' = [tracked EXCEPT ![req[r].user] = @ \cup {req[r].fresh}]
    /\ Go(r, "answer")
    /\ UNCHANGED <<account, devices, owner, issued, toldVars>>

(* The client learns the new token, and that the one it sent is void. *)
Answer(r) ==
    /\ At(r, "answer")
    /\ handed' = handed \cup ({req[r].fresh} \ {None})
    /\ voided' = voided \cup ({req[r].token} \ {None})
    /\ End(r)
    /\ UNCHANGED <<account, devices, redisVars, issued, erased>>

-------------------------------------------------------------------------------
(* registerDeviceToken, after its guard; removeDeviceToken. *)
RegisterDevice(r, u, d) ==
    /\ account[u] = "active"
    /\ Open(r, Request("register", "register", u, d))
    /\ UNCHANGED <<account, devices, redisVars, issued, toldVars>>

(* The user is a foreign key. *)
SaveDevice(r) ==
    /\ At(r, "register") /\ account[req[r].user] # "deleted"
    /\ devices' = [devices EXCEPT ![req[r].token] = req[r].user]
    /\ End(r)
    /\ UNCHANGED <<account, redisVars, issued, toldVars>>

RemoveDevice(d) ==
    /\ devices' = [devices EXCEPT ![d] = None]
    /\ UNCHANGED <<account, redisVars, issued, toldVars, req>>

-------------------------------------------------------------------------------
(* withdraw: the row, the devices, SMEMBERS, DEL of the keys, DEL of the   *)
(* set.                                                                    *)
Withdraw(r, u) ==
    /\ account[u] = "active"
    /\ Open(r, Request("withdraw", "update", u, None))
    /\ UNCHANGED <<account, devices, redisVars, issued, toldVars>>

Anonymise(r) ==
    /\ At(r, "update")
    /\ account' = [account EXCEPT ![req[r].user] = IF @ = "deleted" THEN @ ELSE "withdrawn"]
    /\ Go(r, "devices")
    /\ UNCHANGED <<devices, redisVars, issued, toldVars>>

DevicesOf(u) == {d \in Devices : devices[d] = u}

(* Mutant: the devices stay subscribed. *)
KeepDevices(r) ==
    /\ At(r, "devices")
    /\ Go(r, "list")
    /\ UNCHANGED <<account, devices, redisVars, issued, toldVars>>

DropDevices(r) ==
    /\ At(r, "devices")
    /\ devices' = [d \in Devices |-> IF d \in DevicesOf(req[r].user) THEN None ELSE devices[d]]
    /\ Go(r, "list")
    /\ UNCHANGED <<account, redisVars, issued, toldVars>>

(* deleteAdminUser: callerId # targetId, then findAdminById. *)
DeleteAdmin(r, caller, target) ==
    /\ caller # target
    /\ account[caller] = "active"
    /\ Open(r, Request("delete", "find", target, None))
    /\ UNCHANGED <<account, devices, redisVars, issued, toldVars>>

FindAdmin(r) ==
    /\ At(r, "find")
    /\ IF account[req[r].user] = "deleted" THEN End(r) ELSE Go(r, "list")
    /\ UNCHANGED <<account, devices, redisVars, issued, toldVars>>

List(r) ==
    /\ At(r, "list")
    /\ req' = [req EXCEPT ![r].listed = tracked[req[r].user],
                          ![r].at = IF req[r].op = "withdraw" THEN "keys" ELSE "purge"]
    /\ UNCHANGED <<account, devices, redisVars, issued, toldVars>>

WithoutListed(r) == [t \in Tokens |-> IF t \in req[r].listed THEN None ELSE owner[t]]

(* Mutant: only the set is deleted. *)
KeepKeys(r) ==
    /\ At(r, "keys")
    /\ Go(r, "purge")
    /\ UNCHANGED <<account, devices, redisVars, issued, toldVars>>

DelKeys(r) ==
    /\ At(r, "keys")
    /\ owner' = WithoutListed(r)
    /\ Go(r, "purge")
    /\ UNCHANGED <<account, devices, tracked, issued, toldVars>>

(* withdraw deletes the set by a command of its own, and answers; what it  *)
(* answers to a member is that the tokens held before are void.            *)
PurgeMember(r) ==
    /\ At(r, "purge") /\ req[r].op = "withdraw"
    /\ tracked' = [tracked EXCEPT ![req[r].user] = {}]
    /\ IF req[r].user \in Members
       THEN /\ voided' = voided \cup {t \in req[r].before : issued[t] = req[r].user}
            /\ erased' = erased \cup (IF req[r].alone THEN {req[r].user} ELSE {})
       ELSE UNCHANGED <<voided, erased>>
    /\ End(r)
    /\ UNCHANGED <<account, devices, owner, issued, handed>>

(* deleteAdminUser deletes it together with the keys. *)
PurgeAdmin(r) ==
    /\ At(r, "purge") /\ req[r].op = "delete"
    /\ owner' = WithoutListed(r)
    /\ tracked' = [tracked EXCEPT ![req[r].user] = {}]
    /\ Go(r, "row")
    /\ UNCHANGED <<account, devices, issued, toldVars>>

(* The row goes, and by ON DELETE CASCADE its devices. *)
DeleteRow(r) ==
    /\ At(r, "row")
    /\ account' = [account EXCEPT ![req[r].user] = "deleted"]
    /\ devices' = [d \in Devices |-> IF d \in DevicesOf(req[r].user) THEN None ELSE devices[d]]
    /\ End(r)
    /\ UNCHANGED <<redisVars, issued, toldVars>>

-------------------------------------------------------------------------------
(* Any awaited call rejects, or the process dies: the request is over,     *)
(* what it wrote stays.                                                    *)
Fail(r) ==
    /\ req[r] # None
    /\ End(r)
    /\ UNCHANGED <<account, devices, redisVars, issued, toldVars>>

(* The key's 180 days are over; the set keeps the hash. *)
Expire(t) ==
    /\ Live(t)
    /\ owner' = [owner EXCEPT ![t] = None]
    /\ UNCHANGED <<account, devices, tracked, issued, toldVars, req>>

Step(r) ==
    \/ DelKey(r) \/ Srem(r) \/ Sadd(r) \/ Answer(r) \/ SaveDevice(r)
    \/ \E t \in Tokens : SetKey(r, t)
    \/ Anonymise(r) \/ DropDevices(r) \/ FindAdmin(r) \/ List(r)
    \/ DelKeys(r) \/ PurgeMember(r) \/ PurgeAdmin(r) \/ DeleteRow(r)
    \/ Fail(r)

Start(r) ==
    \/ \E u \in Users : Login(r, u) \/ Withdraw(r, u)
    \/ \E u \in Users, d \in Devices : RegisterDevice(r, u, d)
    \/ \E t \in Tokens : Refresh(r, t) \/ Logout(r, t)
    \/ \E caller, target \in Admins : DeleteAdmin(r, caller, target)

Next ==
    \/ \E r \in Requests : Start(r) \/ Step(r)
    \/ \E t \in Tokens : Expire(t)
    \/ \E d \in Devices : RemoveDevice(d)

Spec == Init /\ [][Next]_vars

-------------------------------------------------------------------------------
TypeOK ==
    /\ account \in [Users -> {"active", "withdrawn", "deleted"}]
    /\ devices \in [Devices -> Users \cup {None}]
    /\ owner \in [Tokens -> Users \cup {None}]
    /\ tracked \in [Users -> SUBSET Tokens]
    /\ issued \in [Tokens -> Users \cup {None}]
    /\ handed \subseteq Tokens /\ voided \subseteq Tokens
    /\ erased \subseteq Users
    /\ req \in [Requests -> RequestType \cup {None}]

(* Redis implements the abstract life of tokens: whatever overlaps, fails  *)
(* or expires, a rotated or logged-out token, and every token a member     *)
(* held when the withdrawal that was answered began, is dead for good      *)
(* (the comment on refreshTokens; docs/api/02-users.md:177).               *)
Life == [t \in Tokens |-> IF issued[t] = None THEN "unused"
                          ELSE IF Live(t) THEN "live" ELSE "dead"]
Abstract == INSTANCE TokenLife WITH life <- Life, voided <- voided
TokenLifeSpec == Abstract!Spec
VoidIsDead == Abstract!VoidIsDead

(* Every session a client of a member holds can be revoked: its token is   *)
(* in the set that a withdrawal lists, unless the member has withdrawn.    *)
SessionsRevocable ==
    \A t \in handed : Live(t) /\ owner[t] \in Members /\ account[owner[t]] = "active"
                          => t \in tracked[owner[t]]

(* A withdrawal that no other request of the member overlapped leaves      *)
(* nothing behind: no set, no device to push to, no token in the hands of  *)
(* a client (docs/api/02-users.md:174-177); nor does a deleted row leave a *)
(* device.                                                                 *)
ErasedForGood ==
    /\ \A u \in erased :
          /\ account[u] # "active"
          /\ tracked[u] = {} /\ DevicesOf(u) = {}
          /\ \A t \in handed : owner[t] # u
    /\ \A u \in Users : account[u] = "deleted" => DevicesOf(u) = {}

===============================================================================
