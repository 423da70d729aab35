----------------------------- MODULE SessionsProofs -----------------------------
(***************************************************************************)
(* What holds of Sessions for any number of users, tokens and overlapping  *)
(* requests.                                                               *)
(***************************************************************************)
EXTENDS Sessions, TLAPS

(* Where a request may be, and what it knows there: the token a refresh or *)
(* logout was sent is its user's, and dead once its key was deleted; a new *)
(* token is in the set before it is handed out; a withdrawal is past its   *)
(* first step only with the account gone.                                  *)
Stages(op) == {place \in Places :
    \/ op = "login"    /\ place \in {"set", "add", "answer"}
    \/ op = "refresh"  /\ place \in {"del", "srem", "set", "add", "answer"}
    \/ op = "logout"   /\ place \in {"del", "srem", "answer"}
    \/ op = "withdraw" /\ place \in {"update", "devices", "list", "keys", "purge"}
    \/ op = "delete"   /\ place \in {"find", "list", "purge", "row"}
    \/ op = "register" /\ place = "register"}

InPlace(q) ==
    /\ q.at \in Stages(q.op)
    /\ q.op = "delete" => q.user \in Admins
    /\ q.op \in {"login", "withdraw", "delete"} => q.token = None
    /\ q.op \in {"refresh", "logout"} => q.token \in Tokens
    /\ q.fresh # None => q.at \in {"add", "answer"} /\ q.op \in {"login", "refresh"}
    /\ q.at = "add" => q.fresh # None

Knows(q) ==
    /\ q.op \in {"refresh", "logout"} =>
          issued[q.token] = q.user /\ (q.at # "del" => owner[q.token] = None)
    /\ q.fresh # None => issued[q.fresh] = q.user
    /\ q.fresh # None /\ q.at = "answer" =>
          \/ owner[q.fresh] = None \/ q.user \notin Members
          \/ account[q.user] # "active" \/ q.fresh \in tracked[q.user]
    /\ q.op = "withdraw" /\ q.at # "update" => account[q.user] # "active"
    /\ q.before \subseteq handed

(* A token is its user's or dead, and only tokens once made are handed out.*)
Owned ==
    /\ \A t \in Tokens : owner[t] = None \/ owner[t] = issued[t]
    /\ \A t \in handed : issued[t] # None

(* What the members held when a withdrawal began is still listed by every  *)
(* withdrawal of the same member on its way, and then dead.                *)
Caught(w, v) ==
    \A t \in v.before : owner[t] = v.user =>
        /\ w.at \in {"update", "devices", "list"} => t \in tracked[v.user]
        /\ w.at = "keys" => t \in w.listed
        /\ w.at # "purge"

Withdrawing(q, u) == q # None /\ q.op = "withdraw" /\ q.user = u

-------------------------------------------------------------------------------
USE SessionsAssumption, NoneIsNoRequest

(* The open requests are records of the code's making.                     *)
Placed == {q \in RequestType : InPlace(q)}
TypeInv == TypeOK /\ req \in [Requests -> Placed \cup {None}]

LEMMA NoneUnplaced == None \notin Placed
BY DEF Placed

(* A request that opens is in its first place, and opening it only tells   *)
(* the other requests of its user that they are not alone.                 *)
LEMMA NewPlaced ==
    ASSUME TypeInv, NEW op \in Ops, NEW place \in Stages(op), NEW u \in Users,
           NEW token \in Tokens \cup Devices \cup {None},
           place \notin {"add", "answer"},
           op = "delete" => u \in Admins,
           op \in {"login", "withdraw", "delete"} => token = None,
           op \in {"refresh", "logout"} => token \in Tokens
    PROVE  Request(op, place, u, token) \in Placed
<1>1. place \in Places
  BY DEF Stages, Places, Ops
<1>2. Request(op, place, u, token) \in RequestType
  BY <1>1 DEF TypeInv, TypeOK, Request, RequestType
<1>3. InPlace(Request(op, place, u, token))
  BY DEF Request, InPlace
<1> QED
  BY <1>2, <1>3 DEF Placed

LEMMA OpenPlaced ==
    ASSUME TypeInv, NEW r \in Requests, NEW new \in Placed, Open(r, new)
    PROVE  /\ req' \in [Requests -> Placed \cup {None}]
           /\ \A q \in Requests \ {r} :
                 IF req[q] = None THEN req'[q] = None
                 ELSE \E b \in BOOLEAN : req'[q] = [req[q] EXCEPT !.alone = b]
           /\ \E b \in BOOLEAN : req'[r] = [new EXCEPT !.alone = b]
<1>1. ASSUME NEW q \in Placed, NEW b \in BOOLEAN PROVE [q EXCEPT !.alone = b] \in Placed
  <2>1. [q EXCEPT !.alone = b] \in RequestType
    BY DEF Placed, RequestType
  <2> QED
    BY <2>1 DEF Placed, RequestType, InPlace
<1>2. req \in [Requests -> Placed \cup {None}]
  BY DEF TypeInv
<1>3. \A q \in Placed : q # None /\ q.alone \in BOOLEAN
  BY NoneUnplaced DEF Placed, RequestType
<1>4. \E b \in BOOLEAN : req'[r] = [new EXCEPT !.alone = b]
  BY <1>2, <1>3 DEF Open
<1>5. ASSUME NEW q \in Requests \ {r}
      PROVE  IF req[q] = None THEN req'[q] = None
             ELSE \E b \in BOOLEAN : req'[q] = [req[q] EXCEPT !.alone = b]
  <2>1. CASE req[q] = None
    BY <2>1 DEF Open
  <2>2. CASE req[q] # None
    <3>1. req[q] \in Placed /\ req[q].alone \in BOOLEAN
      BY <1>2, <1>3, <2>2
    <3>2. req[q] = [req[q] EXCEPT !.alone = req[q].alone]
      BY <3>1 DEF Placed, RequestType
    <3> QED
      BY <2>2, <3>1, <3>2 DEF Open
  <2> QED
    BY <2>1, <2>2
<1>6. DOMAIN req' = Requests /\ req' = [q \in Requests |-> req'[q]]
  BY DEF Open
<1>7. ASSUME NEW q \in Requests PROVE req'[q] \in Placed \cup {None}
  <2>1. CASE q = r
    BY <1>1, <1>4, <2>1
  <2>2. CASE q # r /\ req[q] = None
    BY <1>5, <2>2
  <2>3. CASE q # r /\ req[q] # None
    <3>1. req[q] \in Placed
      BY <1>2, <2>3
    <3>2. \E b \in BOOLEAN : req'[q] = [req[q] EXCEPT !.alone = b]
      BY <1>5, <2>3
    <3> QED
      BY <1>1, <3>1, <3>2
  <2> QED
    BY <2>1, <2>2, <2>3
<1> QED
  BY <1>4, <1>5, <1>6, <1>7

LEMMA PlacedAt ==
    ASSUME TypeInv, NEW r \in Requests, req[r] # None
    PROVE  /\ req[r] \in Placed
           /\ req[r].op \in Ops /\ req[r].user \in Users
           /\ req[r].token \in Tokens \cup Devices \cup {None}
           /\ req[r].fresh \in Tokens \cup {None}
           /\ req[r].listed \in SUBSET Tokens /\ req[r].before \in SUBSET Tokens
           /\ req[r].alone \in BOOLEAN
           /\ InPlace(req[r])
BY DEF TypeInv, Placed, RequestType

LEMMA GoPlaced ==
    ASSUME TypeInv, NEW r \in Requests, NEW place, At(r, place),
           NEW next \in Stages(req[r].op), Go(r, next),
           next # "add", next # "answer" => place \notin {"add", "answer"}
    PROVE  req' \in [Requests -> Placed \cup {None}]
<1>1. req[r] \in Placed /\ InPlace(req[r]) /\ req[r].at = place
  BY PlacedAt DEF At
<1>2. next \in Places
  BY DEF Stages
<1>3. [req[r] EXCEPT !.at = next] \in RequestType
  BY <1>1, <1>2 DEF Placed, RequestType
<1>4. InPlace([req[r] EXCEPT !.at = next])
  BY <1>1, <1>3 DEF Placed, RequestType, InPlace, Stages
<1> QED
  BY <1>3, <1>4 DEF Placed, Go, TypeInv

LEMMA EndPlaced ==
    ASSUME TypeInv, NEW r \in Requests, End(r)
    PROVE  req' \in [Requests -> Placed \cup {None}]
BY DEF TypeInv, End

(* Every operation keeps the types, a request in its place.                *)
LEMMA TypesKept == TypeInv /\ [Next]_vars => TypeInv'
<1> SUFFICES ASSUME TypeInv, [Next]_vars PROVE TypeInv'
  OBVIOUS
<1> USE DEF TypeInv, TypeOK, vars, redisVars, toldVars
<1>0. /\ account \in [Users -> {"active", "withdrawn", "deleted"}]
      /\ devices \in [Devices -> Users \cup {None}]
      /\ owner \in [Tokens -> Users \cup {None}]
      /\ tracked \in [Users -> SUBSET Tokens]
      /\ issued \in [Tokens -> Users \cup {None}]
      /\ handed \subseteq Tokens /\ voided \subseteq Tokens
      /\ erased \subseteq Users
      /\ req \in [Requests -> Placed \cup {None}]
  OBVIOUS
<1>p. Placed \subseteq RequestType
  BY DEF Placed
<1>1. ASSUME NEW r \in Requests, NEW u \in Users, Login(r, u) PROVE TypeInv'
  <2>1. Request("login", "set", u, None) \in Placed
    BY NewPlaced DEF Ops, Stages, Places
  <2> QED
    BY <1>1, <1>p, <2>1, OpenPlaced DEF Login
<1>2. ASSUME NEW r \in Requests, NEW u \in Users, Withdraw(r, u) PROVE TypeInv'
  <2>1. Request("withdraw", "update", u, None) \in Placed
    BY NewPlaced DEF Ops, Stages, Places
  <2> QED
    BY <1>2, <1>p, <2>1, OpenPlaced DEF Withdraw
<1>3. ASSUME NEW r \in Requests, NEW u \in Users, NEW d \in Devices, RegisterDevice(r, u, d)
      PROVE  TypeInv'
  <2>1. Request("register", "register", u, d) \in Placed
    BY NewPlaced DEF Ops, Stages, Places
  <2> QED
    BY <1>3, <1>p, <2>1, OpenPlaced DEF RegisterDevice
<1>4. ASSUME NEW r \in Requests, NEW t \in Tokens, Refresh(r, t) PROVE TypeInv'
  <2>1. Request("refresh", "del", owner[t], t) \in Placed
    BY <1>4, NewPlaced DEF Ops, Stages, Places, Refresh, Live
  <2> QED
    BY <1>4, <1>p, <2>1, OpenPlaced DEF Refresh
<1>5. ASSUME NEW r \in Requests, NEW t \in Tokens, Logout(r, t) PROVE TypeInv'
  <2>1. Request("logout", "del", owner[t], t) \in Placed
    BY <1>5, NewPlaced DEF Ops, Stages, Places, Logout, Live
  <2> QED
    BY <1>5, <1>p, <2>1, OpenPlaced DEF Logout
<1>6. ASSUME NEW r \in Requests, NEW caller \in Admins, NEW target \in Admins,
             DeleteAdmin(r, caller, target)
      PROVE  TypeInv'
  <2>1. Request("delete", "find", target, None) \in Placed
    BY NewPlaced DEF Ops, Stages, Places, Users
  <2> QED
    BY <1>6, <1>p, <2>1, OpenPlaced DEF DeleteAdmin
<1>7. ASSUME NEW r \in Requests, DelKey(r) PROVE TypeInv'
  <2>1. "srem" \in Stages(req[r].op)
    BY <1>7, PlacedAt DEF DelKey, At, InPlace, Stages, Places
  <2>2. req' \in [Requests -> Placed \cup {None}]
    BY <1>7, <2>1, GoPlaced DEF DelKey
  <2> QED
    BY <1>7, <1>p, <2>2 DEF DelKey
<1>8. ASSUME NEW r \in Requests, Srem(r) PROVE TypeInv'
  <2> DEFINE next == IF req[r].op = "refresh" THEN "set" ELSE "answer"
  <2>1. next \in Stages(req[r].op)
    BY <1>8, PlacedAt DEF Srem, At, InPlace, Stages, Places
  <2>2. req' \in [Requests -> Placed \cup {None}]
    BY <1>8, <2>1, GoPlaced DEF Srem
  <2>3. tracked' \in [Users -> SUBSET Tokens]
    BY <1>8 DEF Srem
  <2> QED
    BY <1>8, <1>p, <2>2, <2>3 DEF Srem
<1>9. ASSUME NEW r \in Requests, NEW t \in Tokens, SetKey(r, t) PROVE TypeInv'
  <2>1. req[r] # None /\ InPlace(req[r]) /\ req[r] \in Placed /\ req[r].user \in Users
    BY <1>9, PlacedAt DEF SetKey, At
  <2>2. [req[r] EXCEPT !.fresh = t, !.at = "add"] \in RequestType
    BY <2>1 DEF Placed, RequestType, Places
  <2>3. InPlace([req[r] EXCEPT !.fresh = t, !.at = "add"])
    BY <1>9, <2>1 DEF SetKey, At, Placed, RequestType, InPlace, Stages, Places
  <2>4. req' \in [Requests -> Placed \cup {None}]
    BY <1>9, <2>2, <2>3 DEF SetKey, Placed
  <2> QED
    BY <1>9, <1>p, <2>1, <2>4 DEF SetKey
<1>10. ASSUME NEW r \in Requests, Sadd(r) PROVE TypeInv'
  <2>1. "answer" \in Stages(req[r].op) /\ req[r].fresh \in Tokens
    BY <1>10, PlacedAt DEF Sadd, At, InPlace, Stages, Places
  <2>2. req' \in [Requests -> Placed \cup {None}]
    BY <1>10, <2>1, GoPlaced DEF Sadd
  <2>3. tracked' \in [Users -> SUBSET Tokens]
    BY <1>10, <2>1 DEF Sadd
  <2> QED
    BY <1>10, <1>p, <2>2, <2>3 DEF Sadd
<1>11. ASSUME NEW r \in Requests, Answer(r) PROVE TypeInv'
  <2>1. req[r].token \in Tokens \cup {None} /\ req[r].fresh \in Tokens \cup {None}
    BY <1>11, PlacedAt DEF Answer, At, InPlace, Stages, Places
  <2> QED
    BY <1>11, <1>p, <2>1, EndPlaced DEF Answer
<1>12. ASSUME NEW r \in Requests, SaveDevice(r) PROVE TypeInv'
  BY <1>12, <1>p, EndPlaced, PlacedAt DEF SaveDevice, At
<1>13. ASSUME NEW r \in Requests, Anonymise(r) PROVE TypeInv'
  <2>1. "devices" \in Stages(req[r].op)
    BY <1>13, PlacedAt DEF Anonymise, At, InPlace, Stages, Places
  <2>2. req' \in [Requests -> Placed \cup {None}]
    BY <1>13, <2>1, GoPlaced DEF Anonymise
  <2>3. account' \in [Users -> {"active", "withdrawn", "deleted"}]
    BY <1>13 DEF Anonymise
  <2> QED
    BY <1>13, <1>p, <2>2, <2>3 DEF Anonymise
<1>14. ASSUME NEW r \in Requests, DropDevices(r) PROVE TypeInv'
  <2>1. "list" \in Stages(req[r].op)
    BY <1>14, PlacedAt DEF DropDevices, At, InPlace, Stages, Places
  <2>2. req' \in [Requests -> Placed \cup {None}]
    BY <1>14, <2>1, GoPlaced DEF DropDevices
  <2>3. devices' \in [Devices -> Users \cup {None}]
    BY <1>14 DEF DropDevices
  <2> QED
    BY <1>14, <1>p, <2>2, <2>3 DEF DropDevices
<1>15. ASSUME NEW r \in Requests, FindAdmin(r) PROVE TypeInv'
  <2>1. "list" \in Stages(req[r].op)
    BY <1>15, PlacedAt DEF FindAdmin, At, InPlace, Stages, Places
  <2>2. req' \in [Requests -> Placed \cup {None}]
    BY <1>15, <2>1, GoPlaced, EndPlaced DEF FindAdmin
  <2> QED
    BY <1>15, <1>p, <2>2 DEF FindAdmin
<1>16. ASSUME NEW r \in Requests, List(r) PROVE TypeInv'
  <2> DEFINE next == IF req[r].op = "withdraw" THEN "keys" ELSE "purge"
             new  == [req[r] EXCEPT !.listed = tracked[req[r].user], !.at = next]
  <2>1. req[r] # None /\ InPlace(req[r]) /\ req[r] \in Placed /\ req[r].user \in Users
    BY <1>16, PlacedAt DEF List, At
  <2> next \in Places /\ tracked[req[r].user] \in SUBSET Tokens
    BY <2>1 DEF Places
  <2>2. new \in RequestType
    BY <2>1 DEF Placed, RequestType
  <2>3. InPlace(new)
    BY <1>16, <2>1 DEF List, At, Placed, RequestType, InPlace, Stages, Places
  <2>4. req' \in [Requests -> Placed \cup {None}]
    BY <1>16, <2>2, <2>3 DEF List, Placed
  <2> QED
    BY <1>16, <1>p, <2>4 DEF List
<1>17. ASSUME NEW r \in Requests, DelKeys(r) PROVE TypeInv'
  <2>1. "purge" \in Stages(req[r].op)
    BY <1>17, PlacedAt DEF DelKeys, At, InPlace, Stages, Places
  <2>2. req' \in [Requests -> Placed \cup {None}]
    BY <1>17, <2>1, GoPlaced DEF DelKeys
  <2> QED
    BY <1>17, <1>p, <2>2 DEF DelKeys, WithoutListed
<1>18. ASSUME NEW r \in Requests, PurgeMember(r) PROVE TypeInv'
  <2>1. req[r].user \in Users /\ req[r].before \subseteq Tokens
    BY <1>18, PlacedAt DEF PurgeMember, At
  <2>2. voided' \subseteq Tokens /\ erased' \subseteq Users
    BY <1>18, <2>1 DEF PurgeMember
  <2>3. tracked' \in [Users -> SUBSET Tokens]
    BY <1>18 DEF PurgeMember
  <2> QED
    BY <1>18, <1>p, <2>2, <2>3, EndPlaced DEF PurgeMember
<1>19. ASSUME NEW r \in Requests, PurgeAdmin(r) PROVE TypeInv'
  <2>1. "row" \in Stages(req[r].op)
    BY <1>19, PlacedAt DEF PurgeAdmin, At, InPlace, Stages, Places
  <2>2. req' \in [Requests -> Placed \cup {None}]
    BY <1>19, <2>1, GoPlaced DEF PurgeAdmin
  <2> QED
    BY <1>19, <1>p, <2>2 DEF PurgeAdmin, WithoutListed
<1>20. ASSUME NEW r \in Requests, DeleteRow(r) PROVE TypeInv'
  BY <1>20, <1>p, EndPlaced DEF DeleteRow
<1>21. ASSUME NEW r \in Requests, Fail(r) PROVE TypeInv'
  BY <1>21, <1>p, EndPlaced DEF Fail
<1>22. ASSUME NEW t \in Tokens, Expire(t) PROVE TypeInv'
  BY <1>22 DEF Expire
<1>23. ASSUME NEW d \in Devices, RemoveDevice(d) PROVE TypeInv'
  BY <1>23 DEF RemoveDevice
<1>24. CASE UNCHANGED vars
  BY <1>24
<1> QED
  BY <1>1, <1>2, <1>3, <1>4, <1>5, <1>6, <1>7, <1>8, <1>9, <1>10, <1>11, <1>12, <1>13,
     <1>14, <1>15, <1>16, <1>17, <1>18, <1>19, <1>20, <1>21, <1>22, <1>23, <1>24
     DEF Next, Start, Step

(* Whatever overlaps, fails or expires, users, tokens, devices and requests*)
(* keep their types.                                                       *)
THEOREM SessionTypes == Spec => []TypeOK
<1>1. Init => TypeInv
  BY DEF Init, TypeInv, TypeOK, Users
<1>2. TypeInv => TypeOK
  BY DEF TypeInv
<1> QED
  BY <1>1, <1>2, TypesKept, PTL DEF Spec

-------------------------------------------------------------------------------
AllKnow   == \A r \in Requests : req[r] # None => Knows(req[r])
AllCaught == \A u \in Members : \A r, s \in Requests :
                Withdrawing(req[r], u) /\ Withdrawing(req[s], u) => Caught(req[r], req[s])

IInv == TypeInv /\ Owned /\ VoidIsDead /\ SessionsRevocable /\ AllKnow /\ AllCaught

(* What no step can undo: an account that is gone stays gone, a token made *)
(* keeps its user, a dead one stays dead, and a set loses a token only     *)
(* when it is dead or a withdrawal of its user deletes the set.            *)
Onward ==
    /\ \A u \in Users : account[u] # "active" => account'[u] # "active"
    /\ \A t \in Tokens : issued[t] # None => issued'[t] = issued[t]
    /\ \A t \in Tokens : issued[t] # None => owner'[t] \in {owner[t], None}
    /\ \A t \in Tokens : issued[t] = None => owner'[t] \in {None, issued'[t]}
    /\ handed \subseteq handed'
    /\ \A u \in Members : \A t \in tracked[u] \ tracked'[u] :
          \/ owner[t] # u
          \/ \E r \in Requests : Withdrawing(req[r], u) /\ req[r].at = "purge"

LEMMA StepsOnward == IInv /\ [Next]_vars => Onward
<1> SUFFICES ASSUME IInv, [Next]_vars PROVE Onward
  OBVIOUS
<1> USE DEF Onward
<1>0. /\ account \in [Users -> {"active", "withdrawn", "deleted"}]
      /\ owner \in [Tokens -> Users \cup {None}]
      /\ tracked \in [Users -> SUBSET Tokens]
      /\ issued \in [Tokens -> Users \cup {None}]
      /\ \A t \in Tokens : owner[t] = None \/ owner[t] = issued[t]
      /\ Members \subseteq Users /\ None \notin Users
  BY DEF IInv, TypeInv, TypeOK, Owned, Users
<1>1. ASSUME UNCHANGED <<account, redisVars, issued, handed>> PROVE Onward
  BY <1>0, <1>1 DEF redisVars
<1>2. ASSUME NEW r \in Requests, Srem(r) PROVE Onward
  <2>1. req[r] # None /\ req[r].user \in Users /\ InPlace(req[r]) /\ Knows(req[r])
    BY <1>2, PlacedAt DEF IInv, AllKnow, Srem, At
  <2>2. owner[req[r].token] = None
    BY <1>2, <2>1 DEF InPlace, Knows, Srem, At, Stages
  <2>3. \A u \in Users : tracked[u] \ tracked'[u] \subseteq {req[r].token}
    BY <1>0, <1>2, <2>1 DEF Srem
  <2> QED
    BY <1>0, <1>2, <2>2, <2>3 DEF Srem, toldVars
<1>3. ASSUME NEW r \in Requests, NEW t \in Tokens, SetKey(r, t) PROVE Onward
  BY <1>0, <1>3 DEF SetKey, toldVars
<1>4. ASSUME NEW r \in Requests, Sadd(r) PROVE Onward
  BY <1>0, <1>4 DEF Sadd, toldVars
<1>5. ASSUME NEW r \in Requests, DelKey(r) \/ DelKeys(r) PROVE Onward
  BY <1>0, <1>5 DEF DelKey, DelKeys, WithoutListed, toldVars
<1>6. ASSUME NEW r \in Requests, Answer(r) PROVE Onward
  BY <1>0, <1>6 DEF Answer, redisVars
<1>7. ASSUME NEW r \in Requests, Anonymise(r) PROVE Onward
  BY <1>0, <1>7 DEF Anonymise, redisVars, toldVars
<1>8. ASSUME NEW r \in Requests, PurgeMember(r) PROVE Onward
  BY <1>0, <1>8 DEF PurgeMember, At, Withdrawing
<1>9. ASSUME NEW r \in Requests, PurgeAdmin(r) PROVE Onward
  <2>1. req[r].user \in Admins /\ req[r].user \notin Members
    BY <1>9, PlacedAt DEF IInv, PurgeAdmin, At, InPlace
  <2> QED
    BY <1>0, <1>9, <2>1 DEF PurgeAdmin, WithoutListed, toldVars
<1>10. ASSUME NEW r \in Requests, DeleteRow(r) PROVE Onward
  BY <1>0, <1>10 DEF DeleteRow, redisVars, toldVars
<1>11. ASSUME NEW t \in Tokens, Expire(t) PROVE Onward
  BY <1>0, <1>11 DEF Expire, toldVars
<1>12. ASSUME NEW r \in Requests,
              \/ Start(r) \/ SaveDevice(r) \/ DropDevices(r) \/ FindAdmin(r) \/ List(r) \/ Fail(r)
       PROVE  Onward
  BY <1>1, <1>12 DEF Start, Login, Withdraw, RegisterDevice, Refresh, Logout, DeleteAdmin,
     SaveDevice, DropDevices, FindAdmin, List, Fail, redisVars, toldVars
<1>13. ASSUME NEW d \in Devices, RemoveDevice(d) PROVE Onward
  BY <1>1, <1>13 DEF RemoveDevice, toldVars
<1>14. CASE UNCHANGED vars
  BY <1>1, <1>14 DEF vars, toldVars
<1> QED
  BY <1>2, <1>3, <1>4, <1>5, <1>6, <1>7, <1>8, <1>9, <1>10, <1>11, <1>12, <1>13, <1>14
     DEF Next, Step

(* A step moves its own request only; to the others it can at most tell    *)
(* that they are not alone.                                                *)
Still(q) ==
    req'[q] # None => req[q] # None /\ \E b \in BOOLEAN : req'[q] = [req[q] EXCEPT !.alone = b]

LEMMA OneMoves ==
    ASSUME TypeInv, NEW r \in Requests, Start(r) \/ Step(r), NEW q \in Requests \ {r}
    PROVE  Still(q)
<1>1. ASSUME req'[q] = req[q] PROVE Still(q)
  <2>1. CASE req[q] = None
    BY <1>1, <2>1 DEF Still
  <2>2. CASE req[q] # None
    <3>1. req[q] = [req[q] EXCEPT !.alone = req[q].alone] /\ req[q].alone \in BOOLEAN
      BY <2>2, PlacedAt DEF Placed, RequestType
    <3> QED
      BY <1>1, <2>2, <3>1 DEF Still
  <2> QED
    BY <2>1, <2>2
<1>2. req'[q] = req[q] \/ \E new : Open(r, new) /\ req'[q] # req[q]
  BY DEF TypeInv, TypeOK, Start, Login, Withdraw, RegisterDevice, Refresh, Logout, DeleteAdmin,
     Step, DelKey, Srem, Sadd, Answer, SaveDevice, SetKey, Anonymise, DropDevices, FindAdmin,
     List, DelKeys, PurgeMember, PurgeAdmin, DeleteRow, Fail, Go, End
<1>3. ASSUME NEW new, Open(r, new), req'[q] # req[q] PROVE Still(q)
  <2>1. req[q] # None /\ req'[q] = [req[q] EXCEPT !.alone = @ /\ req[q].op # "withdraw"]
    BY <1>3 DEF Open
  <2>2. req[q].alone \in BOOLEAN
    BY <2>1, PlacedAt
  <2> QED
    BY <2>1, <2>2 DEF Still
<1> QED
  BY <1>1, <1>2, <1>3

-------------------------------------------------------------------------------
(* What is handed out or voided by a step: only Answer and PurgeMember.    *)
Telling(r) == Answer(r) \/ PurgeMember(r)

LEMMA OnlyTelling ==
    ASSUME [Next]_vars, \A r \in Requests : ~Telling(r)
    PROVE  UNCHANGED <<handed, voided>>
BY DEF Telling, Next, Start, Login, Withdraw, RegisterDevice, Refresh, Logout, DeleteAdmin,
   Step, DelKey, Srem, Sadd, SaveDevice, SetKey, Anonymise, DropDevices, FindAdmin,
   List, DelKeys, PurgeAdmin, DeleteRow, Fail, Expire, RemoveDevice, vars, toldVars

LEMMA OwnedKept == IInv /\ [Next]_vars => Owned'
<1> SUFFICES ASSUME IInv, [Next]_vars PROVE Owned'
  OBVIOUS
<1>1. Onward
  BY StepsOnward
<1>2. \A t \in Tokens : owner'[t] = None \/ owner'[t] = issued'[t]
  BY <1>1 DEF Onward, IInv, Owned
<1>3. \A t \in handed : t \in Tokens /\ issued'[t] # None
  BY <1>1 DEF Onward, IInv, Owned, TypeInv, TypeOK
<1>4. ASSUME NEW r \in Requests, Answer(r) PROVE \A t \in handed' \ handed : issued'[t] # None
  <2>1. req[r].fresh # None => issued[req[r].fresh] = req[r].user
    BY <1>4 DEF IInv, AllKnow, Knows, Answer, At
  <2>2. req[r].user \in Users
    BY <1>4, PlacedAt DEF IInv, Answer, At
  <2> QED
    BY <1>4, <2>1, <2>2 DEF Answer, Users
<1>5. ASSUME NEW r \in Requests, PurgeMember(r) PROVE handed' = handed
  BY <1>5 DEF PurgeMember
<1> QED
  BY <1>2, <1>3, <1>4, <1>5, OnlyTelling DEF Telling, Owned

LEMMA VoidKept == IInv /\ [Next]_vars => VoidIsDead'
<1> SUFFICES ASSUME IInv, [Next]_vars, NEW t \in voided'
             PROVE  t \in Tokens /\ issued'[t] # None /\ owner'[t] = None
  BY DEF VoidIsDead, Abstract!VoidIsDead, Life, Live
<1>1. Onward
  BY StepsOnward
<1>2. \A s \in Tokens : issued[s] # None /\ owner[s] = None
                          => issued'[s] # None /\ owner'[s] = None
  BY <1>1 DEF Onward
<1>3. CASE t \in voided
  <2>1. t \in Tokens /\ issued[t] # None /\ owner[t] = None
    BY <1>3 DEF IInv, VoidIsDead, Abstract!VoidIsDead, Life, Live
  <2> QED
    BY <1>2, <2>1
<1>4. ASSUME NEW r \in Requests, Answer(r), t \notin voided
      PROVE  t \in Tokens /\ issued[t] # None /\ owner[t] = None
  <2>1. t = req[r].token /\ t # None
    BY <1>4 DEF Answer
  <2>2. InPlace(req[r]) /\ Knows(req[r]) /\ req[r].at = "answer" /\ req[r].user \in Users
    BY <1>4, PlacedAt DEF IInv, AllKnow, Answer, At
  <2>3. req[r].op \in {"refresh", "logout"} /\ t \in Tokens
    BY <2>1, <2>2 DEF InPlace, Stages
  <2> QED
    BY <2>1, <2>2, <2>3 DEF Knows, Users
<1>5. ASSUME NEW r \in Requests, PurgeMember(r), t \notin voided
      PROVE  t \in Tokens /\ issued[t] # None /\ owner[t] = None
  <2>1. /\ req[r].user \in Members /\ Withdrawing(req[r], req[r].user) /\ req[r].at = "purge"
        /\ t \in req[r].before /\ issued[t] = req[r].user
    BY <1>5 DEF PurgeMember, Withdrawing, At
  <2>2. t \in Tokens /\ req[r].user \in Users
    BY <1>5, <2>1, PlacedAt DEF IInv, PurgeMember, At
  <2>3. owner[t] # req[r].user
    BY <2>1 DEF IInv, AllCaught, Caught
  <2> QED
    BY <2>1, <2>2, <2>3 DEF IInv, Owned, Users
<1> QED
  BY <1>2, <1>3, <1>4, <1>5, OnlyTelling DEF Telling

LEMMA RevocableKept == IInv /\ [Next]_vars => SessionsRevocable'
<1> SUFFICES ASSUME IInv, [Next]_vars, NEW t \in handed', owner'[t] # None,
                    owner'[t] \in Members, account'[owner'[t]] = "active"
             PROVE  t \in tracked'[owner'[t]]
  BY DEF SessionsRevocable, Live
<1> DEFINE u == owner'[t]
<1>1. Onward /\ TypeInv' /\ Owned'
  BY StepsOnward, TypesKept, OwnedKept DEF IInv
<1>2. t \in Tokens /\ u \in Users
  BY <1>1 DEF TypeInv, TypeOK, Users
<1>3. account[u] = "active"
  BY <1>1, <1>2 DEF Onward
<1>4. \A r \in Requests : ~(Withdrawing(req[r], u) /\ req[r].at = "purge")
  BY <1>3 DEF Withdrawing, IInv, AllKnow, Knows
<1>5. CASE t \in handed
  <2>1. owner[t] = u
    BY <1>1, <1>2, <1>5 DEF Onward, IInv, Owned
  <2>2. t \in tracked[u]
    BY <1>3, <1>5, <2>1 DEF IInv, SessionsRevocable, Live
  <2> QED
    BY <1>1, <1>2, <1>4, <2>1, <2>2 DEF Onward
<1>6. CASE t \notin handed
  <2>1. PICK r \in Requests : Answer(r)
    BY <1>6, OnlyTelling DEF Telling, PurgeMember
  <2>2. /\ t = req[r].fresh /\ t # None /\ req[r].at = "answer" /\ req[r] # None
        /\ UNCHANGED <<owner, tracked, account, issued>>
    BY <1>6, <2>1 DEF Answer, At, redisVars
  <2>3. Knows(req[r])
    BY <2>2 DEF IInv, AllKnow
  <2>4. issued[t] = req[r].user /\ owner[t] = u /\ u = issued[t]
    BY <1>1, <1>2, <2>2, <2>3 DEF Knows, IInv, Owned
  <2> QED
    BY <1>3, <2>2, <2>3, <2>4 DEF Knows
<1> QED
  BY <1>5, <1>6

-------------------------------------------------------------------------------
(* What a request knows stays true while the others move: what it says of  *)
(* accounts and tokens cannot be undone.                                   *)
LEMMA KnowledgeStays ==
    ASSUME IInv, [Next]_vars, NEW q \in Requests, req[q] # None, req'[q] # None,
           req'[q].op = req[q].op, req'[q].user = req[q].user, req'[q].token = req[q].token,
           req'[q].before = req[q].before,
           req'[q].fresh = req[q].fresh,
           (req[q].op \in {"refresh", "logout"} /\ req'[q].at # "del")
              => owner'[req[q].token] = None \/ req[q].at # "del",
           req[q].fresh # None /\ req'[q].at = "answer"
              => req[q].at = "answer" \/ req[q].fresh \in tracked'[req[q].user],
           req[q].op = "withdraw" /\ req'[q].at # "update"
              => account'[req[q].user] # "active" \/ req[q].at # "update"
    PROVE  Knows(req[q])'
<1>1. Onward
  BY StepsOnward
<1>2. /\ Knows(req[q]) /\ InPlace(req[q]) /\ req[q].user \in Users
      /\ req[q].fresh \in Tokens \cup {None}
  BY PlacedAt DEF IInv, AllKnow
<1>3. Members \subseteq Users /\ None \notin Users
  BY DEF Users
<1>4. req[q].op \in {"refresh", "logout"} =>
         issued'[req[q].token] = req[q].user /\ (req'[q].at # "del" => owner'[req[q].token] = None)
  BY <1>1, <1>2, <1>3 DEF Onward, Knows, InPlace
<1>5. req[q].fresh # None => issued'[req[q].fresh] = req[q].user
  BY <1>1, <1>2, <1>3 DEF Onward, Knows
<1>6. ASSUME req[q].fresh # None, req'[q].at = "answer", req[q].at = "answer"
      PROVE  \/ owner'[req[q].fresh] = None \/ req[q].user \notin Members
             \/ account'[req[q].user] # "active" \/ req[q].fresh \in tracked'[req[q].user]
  <2> DEFINE t == req[q].fresh
             u == req[q].user
  <2>1. t \in Tokens /\ issued[t] = u
    BY <1>2, <1>6 DEF Knows
  <2>2. CASE owner[t] = None
    BY <1>1, <1>3, <1>2, <2>1, <2>2 DEF Onward
  <2>3. CASE u \notin Members \/ account[u] # "active"
    BY <1>1, <1>2, <2>3 DEF Onward
  <2>4. CASE u \in Members /\ account[u] = "active" /\ owner[t] # None
    <3>1. t \in tracked[u]
      BY <1>2, <1>6, <2>4 DEF Knows
    <3>2. owner[t] = u
      BY <2>1, <2>4 DEF IInv, Owned
    <3>3. \A r \in Requests : ~(Withdrawing(req[r], u) /\ req[r].at = "purge")
      BY <2>4 DEF Withdrawing, IInv, AllKnow, Knows
    <3> QED
      BY <1>1, <2>4, <3>1, <3>2, <3>3 DEF Onward
  <2> QED
    BY <2>2, <2>3, <2>4
<1>7. req[q].op = "withdraw" /\ req'[q].at # "update" => account'[req[q].user] # "active"
  BY <1>1, <1>2 DEF Onward, Knows
<1>8. req[q].before \subseteq handed'
  BY <1>1, <1>2 DEF Onward, Knows
<1> QED
  BY <1>4, <1>5, <1>6, <1>7, <1>8 DEF Knows

LEMMA StillKnows ==
    ASSUME IInv, [Next]_vars, NEW q \in Requests, Still(q), req'[q] # None
    PROVE  Knows(req[q])'
<1>1. req[q] # None /\ req[q] \in RequestType
  BY PlacedAt DEF Still, IInv, Placed
<1>2. /\ req'[q].op = req[q].op /\ req'[q].user = req[q].user /\ req'[q].token = req[q].token
      /\ req'[q].before = req[q].before /\ req'[q].fresh = req[q].fresh /\ req'[q].at = req[q].at
  BY <1>1 DEF Still, RequestType
<1> QED
  BY <1>1, <1>2, KnowledgeStays

(* A request that opens knows little: that the key it read was there.      *)
LEMMA OpenKnows ==
    ASSUME IInv, [Next]_vars, NEW r \in Requests, NEW op \in Ops, NEW place, NEW u, NEW token,
           UNCHANGED <<owner, issued, handed, account>>,
           Open(r, Request(op, place, u, token)),
           op \in {"refresh", "logout"} => issued[token] = u /\ place = "del",
           op = "withdraw" => place = "update"
    PROVE  Knows(req[r])'
<1>1. /\ req'[r].op = op /\ req'[r].at = place /\ req'[r].user = u /\ req'[r].token = token
      /\ req'[r].fresh = None /\ req'[r].before \subseteq handed
  BY DEF Open, Request, IInv, TypeInv, TypeOK
<1> QED
  BY <1>1 DEF Knows

LEMMA StartKnows ==
    ASSUME IInv, [Next]_vars, NEW r \in Requests, Start(r)
    PROVE  Knows(req[r])'
<1>1. \A t \in handed : t \in Tokens /\ (Live(t) => issued[t] = owner[t])
  BY DEF IInv, Owned, TypeInv, TypeOK, Live
<1>2. ASSUME NEW u \in Users, Login(r, u) \/ Withdraw(r, u) PROVE Knows(req[r])'
  BY <1>2, OpenKnows DEF Login, Withdraw, Ops, redisVars, toldVars
<1>3. ASSUME NEW u \in Users, NEW d \in Devices, RegisterDevice(r, u, d) PROVE Knows(req[r])'
  BY <1>3, OpenKnows DEF RegisterDevice, Ops, redisVars, toldVars
<1>4. ASSUME NEW t \in Tokens, Refresh(r, t) \/ Logout(r, t) PROVE Knows(req[r])'
  BY <1>1, <1>4, OpenKnows DEF Refresh, Logout, Ops, redisVars, toldVars
<1>5. ASSUME NEW caller \in Admins, NEW target \in Admins, DeleteAdmin(r, caller, target)
      PROVE  Knows(req[r])'
  BY <1>5, OpenKnows DEF DeleteAdmin, Ops, redisVars, toldVars
<1> QED
  BY <1>2, <1>3, <1>4, <1>5 DEF Start

LEMMA StepKnows ==
    ASSUME IInv, [Next]_vars, NEW r \in Requests, Step(r), req'[r] # None
    PROVE  Knows(req[r])'
<1>0. /\ TypeInv /\ req[r] # None /\ req[r] \in RequestType /\ InPlace(req[r]) /\ Knows(req[r])
      /\ req[r].user \in Users /\ Onward
  <2>1. req[r] # None
    BY DEF IInv, TypeInv, Step, DelKey, Srem, Sadd, Answer, SaveDevice, SetKey, Anonymise,
       DropDevices, FindAdmin, List, DelKeys, PurgeMember, PurgeAdmin, DeleteRow, Fail, At
  <2> QED
    BY <2>1, PlacedAt, StepsOnward DEF IInv, AllKnow, Placed
<1>1. ASSUME NEW place, Go(r, place)
      PROVE  /\ req'[r].op = req[r].op /\ req'[r].user = req[r].user /\ req'[r].at = place
             /\ req'[r].token = req[r].token /\ req'[r].before = req[r].before
             /\ req'[r].fresh = req[r].fresh
  BY <1>0, <1>1 DEF Go, TypeInv, RequestType
<1>2. ~End(r)
  BY <1>0 DEF End, TypeInv
<1>3. CASE DelKey(r)
  <2>1. req[r].token \in Tokens
    BY <1>0, <1>3 DEF DelKey, At, InPlace, Stages
  <2>2. owner'[req[r].token] = None
    BY <1>0, <1>3, <2>1 DEF DelKey, TypeInv, TypeOK
  <2> QED
    BY <1>0, <1>1, <1>3, <2>2, KnowledgeStays DEF DelKey, At, InPlace, Stages
<1>4. CASE Srem(r)
  BY <1>0, <1>1, <1>4, KnowledgeStays DEF Srem, At, InPlace, Stages
<1>5. ASSUME NEW t \in Tokens, SetKey(r, t) PROVE Knows(req[r])'
  <2>1. /\ req'[r].op = req[r].op /\ req'[r].user = req[r].user /\ req'[r].at = "add"
        /\ req'[r].token = req[r].token /\ req'[r].before = req[r].before
        /\ req'[r].fresh = t
    BY <1>0, <1>5 DEF SetKey, TypeInv, RequestType
  <2>2. req[r].at = "set" /\ req[r].op \in {"login", "refresh"} /\ issued'[t] = req[r].user
    BY <1>0, <1>5 DEF SetKey, At, InPlace, Stages, TypeInv, TypeOK
  <2>3. req[r].op = "refresh" =>
           issued'[req[r].token] = req[r].user /\ owner'[req[r].token] = None
    BY <1>0, <2>2 DEF Knows, InPlace, Onward, Users
  <2> QED
    BY <1>0, <1>5, <2>1, <2>2, <2>3 DEF Knows, SetKey, toldVars
<1>6. CASE Sadd(r)
  <2>1. req[r].fresh \in tracked'[req[r].user]
    BY <1>0, <1>6 DEF Sadd, TypeInv, TypeOK
  <2> QED
    BY <1>0, <1>1, <1>6, <2>1, KnowledgeStays DEF Sadd, At, InPlace, Stages
<1>7. CASE Anonymise(r)
  <2>1. account'[req[r].user] # "active"
    BY <1>0, <1>7 DEF Anonymise, TypeInv, TypeOK
  <2> QED
    BY <1>0, <1>1, <1>7, <2>1, KnowledgeStays DEF Anonymise, At, InPlace, Stages
<1>8. CASE DropDevices(r) \/ DelKeys(r) \/ PurgeAdmin(r) \/ FindAdmin(r)
  BY <1>0, <1>1, <1>2, <1>8, KnowledgeStays
     DEF DropDevices, DelKeys, PurgeAdmin, FindAdmin, At, InPlace, Stages
<1>9. CASE List(r)
  <2> DEFINE place == IF req[r].op = "withdraw" THEN "keys" ELSE "purge"
  <2>1. /\ req'[r].op = req[r].op /\ req'[r].user = req[r].user /\ req'[r].at = place
        /\ req'[r].token = req[r].token /\ req'[r].before = req[r].before
        /\ req'[r].fresh = req[r].fresh
    BY <1>0, <1>9 DEF List, TypeInv, RequestType
  <2> QED
    BY <1>0, <1>9, <2>1, KnowledgeStays DEF List, At, InPlace, Stages
<1>10. ~(Answer(r) \/ SaveDevice(r) \/ PurgeMember(r) \/ DeleteRow(r) \/ Fail(r))
  BY <1>2 DEF Answer, SaveDevice, PurgeMember, DeleteRow, Fail
<1> QED
  BY <1>3, <1>4, <1>5, <1>6, <1>7, <1>8, <1>9, <1>10 DEF Step

LEMMA KnowKept == IInv /\ [Next]_vars => AllKnow'
<1> SUFFICES ASSUME IInv, [Next]_vars, NEW q \in Requests, req'[q] # None
             PROVE  Knows(req[q])'
  BY DEF AllKnow
<1>1. ASSUME NEW r \in Requests, Start(r) \/ Step(r) PROVE Knows(req[q])'
  <2>1. CASE q = r
    BY <1>1, <2>1, StartKnows, StepKnows
  <2>2. CASE q # r
    BY <1>1, <2>2, OneMoves, StillKnows DEF IInv
  <2> QED
    BY <2>1, <2>2
<1>2. ASSUME UNCHANGED req PROVE Knows(req[q])'
  BY <1>2, KnowledgeStays
<1> QED
  BY <1>1, <1>2 DEF Next, Expire, RemoveDevice, vars

-------------------------------------------------------------------------------
(* A withdrawal on its way: where a step leaves it, and what it then has   *)
(* listed or killed.                                                       *)
Onwards(r, u) ==
    /\ Withdrawing(req[r], u) /\ req'[r].before = req[r].before
    /\ \/ req'[r].at = req[r].at /\ req'[r].listed = req[r].listed
       \/ req[r].at \in {"update", "devices"} /\ req'[r].at \in {"devices", "list"}
       \/ req[r].at = "list" /\ req'[r].at = "keys" /\ req'[r].listed = tracked[u]
       \/ req[r].at = "keys" /\ req'[r].at = "purge" /\ \A t \in req[r].listed : owner'[t] = None

Begins(r, u) ==
    /\ account[u] = "active" /\ UNCHANGED <<owner, tracked>>
    /\ req'[r].at = "update" /\ req'[r].before = handed

LEMMA Withdrawals ==
    ASSUME IInv, [Next]_vars, NEW u \in Members, NEW q \in Requests, Withdrawing(req[q], u)'
    PROVE  Onwards(q, u) \/ Begins(q, u)
<1>1. ASSUME Still(q) PROVE Onwards(q, u)
  <2>1. req[q] # None /\ req[q] \in RequestType /\ req'[q] # None
    BY <1>1, PlacedAt DEF Still, IInv, Placed, Withdrawing
  <2> QED
    BY <1>1, <2>1 DEF Still, RequestType, Withdrawing, Onwards
<1>2. ASSUME UNCHANGED req PROVE Onwards(q, u)
  BY <1>2 DEF Onwards, Withdrawing
<1>3. ASSUME Start(q) PROVE Begins(q, u)
  <2>1. ASSUME NEW op, NEW place, NEW v, NEW token, Open(q, Request(op, place, v, token))
        PROVE  /\ op = "withdraw" /\ v = u /\ req'[q].at = place
               /\ req'[q].before = handed
    BY <2>1 DEF Open, Request, Withdrawing
  <2>2. PICK v \in Users : Withdraw(q, v)
    BY <1>3, <2>1 DEF Start, Login, RegisterDevice, Refresh, Logout, DeleteAdmin
  <2> QED
    BY <2>1, <2>2 DEF Withdraw, Begins, redisVars
<1>4. ASSUME Step(q) PROVE Onwards(q, u)
  <2>0. req[q] # None /\ req[q] \in RequestType /\ TypeInv /\ InPlace(req[q])
    <3>1. req[q] # None
      BY <1>4 DEF Step, DelKey, Srem, Sadd, Answer, SaveDevice, SetKey, Anonymise,
         DropDevices, FindAdmin, List, DelKeys, PurgeMember, PurgeAdmin, DeleteRow, Fail, At
    <3> QED
      BY <3>1, PlacedAt DEF IInv, Placed
  <2>1. ~End(q)
    BY DEF End, IInv, TypeInv, Withdrawing
  <2>2. ASSUME NEW place, Go(q, place)
        PROVE  /\ Withdrawing(req[q], u) /\ req'[q].at = place /\ req[q].op = "withdraw"
               /\ req'[q].listed = req[q].listed /\ req'[q].before = req[q].before
    BY <2>0, <2>2 DEF Go, TypeInv, RequestType, Withdrawing
  <2>3. ASSUME NEW t \in Tokens, SetKey(q, t) PROVE FALSE
    <3>1. req[q].op = req'[q].op
      BY <2>0, <2>3 DEF SetKey, TypeInv, RequestType
    <3> QED
      BY <2>0, <2>3, <3>1 DEF SetKey, At, InPlace, Stages, Withdrawing
  <2>4. CASE Anonymise(q) \/ DropDevices(q)
    BY <2>2, <2>4 DEF Anonymise, DropDevices, At, Onwards
  <2>5. CASE DelKeys(q)
    <3>1. \A t \in req[q].listed : owner'[t] = None
      BY <2>0, <2>5 DEF DelKeys, WithoutListed, RequestType
    <3> QED
      BY <2>2, <2>5, <3>1 DEF DelKeys, At, Onwards
  <2>6. CASE List(q)
    BY <2>0, <2>6 DEF List, At, Onwards, TypeInv, RequestType, Withdrawing
  <2>7. CASE DelKey(q) \/ Srem(q) \/ Sadd(q) \/ FindAdmin(q) \/ PurgeAdmin(q)
    BY <2>0, <2>1, <2>2, <2>7 DEF DelKey, Srem, Sadd, FindAdmin, PurgeAdmin, At, InPlace, Stages
  <2>8. ~(Answer(q) \/ SaveDevice(q) \/ PurgeMember(q) \/ DeleteRow(q) \/ Fail(q))
    BY <2>1 DEF Answer, SaveDevice, PurgeMember, DeleteRow, Fail
  <2> QED
    BY <1>4, <2>3, <2>4, <2>5, <2>6, <2>7, <2>8 DEF Step
<1>5. ASSUME NEW r \in Requests, Start(r) \/ Step(r), r # q PROVE Still(q)
  BY <1>5, OneMoves DEF IInv
<1> QED
  BY <1>1, <1>2, <1>3, <1>4, <1>5 DEF Next, Expire, RemoveDevice, vars

(* Withdrawals of one member that overlap share what they must kill: while *)
(* the account is active none has listed anything, and afterwards no token *)
(* the member held enters or leaves the set alive.                         *)
LEMMA CaughtKept == IInv /\ [Next]_vars => AllCaught'
<1> SUFFICES ASSUME IInv, [Next]_vars, NEW u \in Members, NEW r \in Requests, NEW s \in Requests,
                    Withdrawing(req[r], u)', Withdrawing(req[s], u)',
                    NEW t \in req'[s].before, owner'[t] = u
             PROVE  /\ req'[r].at \in {"update", "devices", "list"} => t \in tracked'[u]
                    /\ req'[r].at = "keys" => t \in req'[r].listed
                    /\ req'[r].at # "purge"
  BY DEF AllCaught, Caught, Withdrawing
<1>0. Onward /\ Members \subseteq Users /\ None \notin Users
  BY StepsOnward DEF Users
<1>1. Onwards(r, u) \/ Begins(r, u)
  BY Withdrawals
<1>2. Onwards(s, u) \/ Begins(s, u)
  BY Withdrawals
<1>3. ASSUME account[u] = "active", NEW q \in Requests, Withdrawing(req[q], u)
      PROVE  req[q].at = "update"
  BY <1>3 DEF IInv, AllKnow, Knows, Withdrawing
<1>4. \A q \in Requests : Withdrawing(req[q], u) => req[q].before \subseteq handed
  BY DEF IInv, AllKnow, Knows, Withdrawing
<1>5. \A h \in handed : h \in Tokens /\ issued[h] # None
  BY DEF IInv, Owned, TypeInv, TypeOK
<1>6. CASE Onwards(r, u) /\ Onwards(s, u)
  <2>1. t \in Tokens /\ t \in req[s].before /\ owner[t] = u
    BY <1>0, <1>4, <1>5, <1>6 DEF Onwards, Onward
  <2>2. \A q \in Requests : Withdrawing(req[q], u) => Caught(req[q], req[s])
    BY <1>6 DEF IInv, AllCaught, Onwards
  <2>3. \A q \in Requests : Withdrawing(req[q], u) => req[q].at # "purge"
    BY <2>1, <2>2, <1>6 DEF Caught, Onwards, Withdrawing
  <2>4. t \in tracked[u] => t \in tracked'[u]
    BY <1>0, <2>1, <2>3 DEF Onward
  <2>5. /\ req[r].at \in {"update", "devices", "list"} => t \in tracked[u]
        /\ req[r].at = "keys" => t \in req[r].listed
        /\ req[r].at # "purge"
    BY <2>1, <2>2, <1>6 DEF Caught, Onwards, Withdrawing
  <2> QED
    BY <1>0, <1>6, <2>4, <2>5 DEF Onwards
<1>7. CASE Begins(s, u)
  <2>1. t \in handed /\ owner[t] = u /\ account[u] = "active"
    BY <1>7 DEF Begins
  <2>2. t \in tracked'[u]
    BY <1>0, <1>7, <2>1 DEF Begins, IInv, SessionsRevocable, Live
  <2> QED
    BY <1>1, <1>3, <2>1, <2>2 DEF Begins, Onwards
<1>8. CASE Begins(r, u) /\ Onwards(s, u)
  <2>1. account[u] = "active" /\ t \in req[s].before /\ owner[t] = u
    BY <1>8 DEF Begins, Onwards
  <2>2. Caught(req[s], req[s]) /\ req[s].at = "update" /\ req[s].user = u
    BY <1>3, <1>8, <2>1 DEF IInv, AllCaught, Onwards, Withdrawing
  <2> QED
    BY <1>8, <2>1, <2>2 DEF Caught, Begins
<1> QED
  BY <1>1, <1>2, <1>6, <1>7, <1>8

LEMMA SessionsInductive == IInv /\ [Next]_vars => IInv'
BY TypesKept, OwnedKept, VoidKept, RevocableKept, KnowKept, CaughtKept DEF IInv

LEMMA SessionsInit == Init => IInv
<1> SUFFICES ASSUME Init PROVE IInv
  OBVIOUS
<1>1. TypeInv
  BY DEF Init, TypeInv, TypeOK, Users
<1>2. Owned /\ VoidIsDead /\ SessionsRevocable
  BY DEF Init, Owned, VoidIsDead, Abstract!VoidIsDead, SessionsRevocable
<1>3. AllKnow /\ AllCaught
  BY DEF Init, AllKnow, AllCaught, Withdrawing
<1> QED
  BY <1>1, <1>2, <1>3 DEF IInv

(* No client of an active member holds a live token that a withdrawal      *)
(* would miss, however logins, refreshes, logouts and failures interleave. *)
THEOREM AlwaysRevocable == Spec => []SessionsRevocable
<1>1. IInv => SessionsRevocable
  BY DEF IInv
<1> QED
  BY <1>1, SessionsInit, SessionsInductive, PTL DEF Spec

(* A token a client was told is void is dead.                              *)
THEOREM AlwaysDead == Spec => []VoidIsDead
<1>1. IInv => VoidIsDead
  BY DEF IInv
<1> QED
  BY <1>1, SessionsInit, SessionsInductive, PTL DEF Spec

-------------------------------------------------------------------------------
(* Redis implements the life of tokens: SetKey issues one, an answer voids *)
(* the dead, and every other step kills or leaves alone.                   *)
LEMMA StepsImplement == IInv /\ [Next]_vars => [Abstract!Next]_<<Life, voided>>
<1> SUFFICES ASSUME IInv, [Next]_vars PROVE [Abstract!Next]_<<Life, voided>>
  OBVIOUS
<1>1. Onward /\ VoidIsDead'
  BY StepsOnward, VoidKept
<1>2. /\ owner \in [Tokens -> Users \cup {None}] /\ issued \in [Tokens -> Users \cup {None}]
      /\ None \notin Users /\ voided \subseteq Tokens
  BY DEF IInv, TypeInv, TypeOK, Users
<1>3. ASSUME NEW r \in Requests, NEW t \in Tokens, SetKey(r, t) PROVE Abstract!Next
  <2>1. req[r].user \in Users
    BY <1>3, PlacedAt DEF IInv, SetKey, At
  <2>2. Life[t] = "unused" /\ Life' = [Life EXCEPT ![t] = "live"]
    BY <1>2, <1>3, <2>1 DEF SetKey, Life, Live
  <2> QED
    BY <1>3, <2>2 DEF SetKey, toldVars, Abstract!Next, Abstract!Issue
<1>4. ASSUME NEW r \in Requests, Telling(r) PROVE Abstract!Next
  <2>1. UNCHANGED <<owner, issued>> /\ Life' = Life /\ voided \subseteq voided'
    BY <1>4 DEF Telling, Answer, PurgeMember, redisVars, Life, Live
  <2>2. \A t \in voided' : t \in Tokens /\ Life[t] = "dead"
    BY <1>1, <2>1 DEF VoidIsDead, Abstract!VoidIsDead
  <2>3. voided' \in SUBSET Tokens /\ Abstract!Void(voided')
    BY <2>1, <2>2 DEF Abstract!Void
  <2> QED
    BY <2>3 DEF Abstract!Next
<1>5. ASSUME UNCHANGED <<issued, voided>> PROVE Abstract!Next
  <2> DEFINE T == {t \in Tokens : issued[t] # None /\ owner'[t] = None}
  <2>1. \A t \in Tokens : issued[t] # None /\ owner'[t] # None => owner'[t] = owner[t]
    BY <1>1 DEF Onward
  <2>2. Life' = [t \in Tokens |-> IF t \in T THEN "dead" ELSE Life[t]]
    BY <1>5, <2>1 DEF Life, Live
  <2>3. \A t \in T : Life[t] # "unused"
    BY DEF Life
  <2> QED
    BY <1>5, <2>2, <2>3 DEF Abstract!Next, Abstract!Kill
<1>6. ASSUME \A r \in Requests : ~Telling(r) /\ \A t \in Tokens : ~SetKey(r, t)
      PROVE  UNCHANGED <<issued, voided>>
  BY <1>6 DEF Telling, Next, Start, Login, Withdraw, RegisterDevice, Refresh, Logout, DeleteAdmin,
     Step, DelKey, Srem, Sadd, SaveDevice, Anonymise, DropDevices, FindAdmin,
     List, DelKeys, PurgeAdmin, DeleteRow, Fail, Expire, RemoveDevice, vars, toldVars
<1> QED
  BY <1>3, <1>4, <1>5, <1>6

THEOREM RedisImplementsTokenLife == Spec => TokenLifeSpec
<1>1. Init => Abstract!Init
  BY DEF Init, Abstract!Init, Life
<1> QED
  BY <1>1, SessionsInit, SessionsInductive, StepsImplement, PTL DEF Spec, TokenLifeSpec, Abstract!Spec

(* A dead token stays dead, so what was true when an answer was given      *)
(* stays true: the abstract life of tokens keeps its own promise.          *)
THEOREM VoidStaysDead == Abstract!Spec => []Abstract!VoidIsDead
<1> DEFINE LifeInv == Life \in [Tokens -> {"unused", "live", "dead"}] /\ Abstract!VoidIsDead
<1>1. Abstract!Init => LifeInv
  BY DEF Abstract!Init, Abstract!VoidIsDead
<1>2. LifeInv /\ [Abstract!Next]_<<Life, voided>> => LifeInv'
  BY DEF Abstract!Next, Abstract!Issue, Abstract!Kill, Abstract!Void, Abstract!VoidIsDead
<1> QED
  BY <1>1, <1>2, PTL DEF Abstract!Spec

-------------------------------------------------------------------------------
(* A withdrawal that no other request of its user overlaps: that it is     *)
(* alone, that the user got no token since it began, and no device since   *)
(* it dropped them; and once it has answered, that no request of the user  *)
(* is left to undo it.                                                     *)
Alone(q) == q # None /\ q.op = "withdraw" /\ q.alone

NobodyElse ==
    \A r, q \in Requests : Alone(req[r]) /\ q # r /\ req[q] # None => req[q].user # req[r].user

CleanSweep ==
    \A r \in Requests : Alone(req[r]) =>
        /\ \A t \in handed : issued[t] = req[r].user => t \in req[r].before
        /\ req[r].at \in {"list", "keys", "purge"} => DevicesOf(req[r].user) = {}

GoneQuiet ==
    \A u \in erased : u \in Members /\ \A q \in Requests : req[q] # None => req[q].user # u

(* The requests that start: what they read, and that they write nothing.   *)
Starting(r, op, u, token) ==
    /\ \E place : /\ Request(op, place, u, token) \in Placed
                  /\ Open(r, Request(op, place, u, token))
                  /\ op = "withdraw" => place = "update"
    /\ op \in {"login", "register", "withdraw"} => account[u] = "active"
    /\ op \in {"refresh", "logout"} => token \in handed /\ owner[token] = u
    /\ op = "delete" => u \in Admins
    /\ UNCHANGED <<account, devices, redisVars, issued, toldVars>>

LEMMA Starts ==
    ASSUME TypeInv, NEW r \in Requests, Start(r)
    PROVE  \E op \in Ops : \E u, token : Starting(r, op, u, token)
<1>1. ASSUME NEW u \in Users, Login(r, u) PROVE Starting(r, "login", u, None)
  <2>1. Request("login", "set", u, None) \in Placed
    BY NewPlaced DEF Ops, Stages, Places
  <2> QED
    BY <1>1, <2>1 DEF Login, Starting
<1>2. ASSUME NEW u \in Users, Withdraw(r, u) PROVE Starting(r, "withdraw", u, None)
  <2>1. Request("withdraw", "update", u, None) \in Placed
    BY NewPlaced DEF Ops, Stages, Places
  <2> QED
    BY <1>2, <2>1 DEF Withdraw, Starting
<1>3. ASSUME NEW u \in Users, NEW d \in Devices, RegisterDevice(r, u, d)
      PROVE  Starting(r, "register", u, d)
  <2>1. Request("register", "register", u, d) \in Placed
    BY NewPlaced DEF Ops, Stages, Places
  <2> QED
    BY <1>3, <2>1 DEF RegisterDevice, Starting
<1>4. ASSUME NEW t \in Tokens, Refresh(r, t) PROVE Starting(r, "refresh", owner[t], t)
  <2>1. owner[t] \in Users
    BY <1>4 DEF Refresh, Live, TypeInv, TypeOK
  <2>2. Request("refresh", "del", owner[t], t) \in Placed
    BY <2>1, NewPlaced DEF Ops, Stages, Places
  <2> QED
    BY <1>4, <2>2 DEF Refresh, Starting
<1>5. ASSUME NEW t \in Tokens, Logout(r, t) PROVE Starting(r, "logout", owner[t], t)
  <2>1. owner[t] \in Users
    BY <1>5 DEF Logout, Live, TypeInv, TypeOK
  <2>2. Request("logout", "del", owner[t], t) \in Placed
    BY <2>1, NewPlaced DEF Ops, Stages, Places
  <2> QED
    BY <1>5, <2>2 DEF Logout, Starting
<1>6. ASSUME NEW caller \in Admins, NEW target \in Admins, DeleteAdmin(r, caller, target)
      PROVE  Starting(r, "delete", target, None)
  <2>1. Request("delete", "find", target, None) \in Placed
    BY NewPlaced DEF Ops, Stages, Places, Users
  <2> QED
    BY <1>6, <2>1 DEF DeleteAdmin, Starting
<1> QED
  BY <1>1, <1>2, <1>3, <1>4, <1>5, <1>6 DEF Start, Ops

(* Of two requests of one user, the later tells a withdrawal that it is    *)
(* not alone, and a withdrawal that finds another is not alone itself.     *)
LEMMA Opening ==
    ASSUME TypeInv, NEW r \in Requests, NEW op, NEW u, NEW token, Starting(r, op, u, token)
    PROVE  /\ req[r] = None /\ req'[r] # None
           /\ req'[r].op = op /\ req'[r].user = u
           /\ op = "withdraw" => req'[r].at = "update" /\ req'[r].before = handed
           /\ Alone(req'[r]) => \A q \in Requests : req[q] # None => req[q].user # u
           /\ \A q \in Requests \ {r} :
                 /\ req'[q] # None <=> req[q] # None
                 /\ req[q] # None /\ req[q].user = u => ~Alone(req'[q])
                 /\ req[q] # None /\ req[q].user # u => req'[q] = req[q]
<1>1. PICK place : /\ Request(op, place, u, token) \in Placed
                   /\ Open(r, Request(op, place, u, token))
                   /\ op = "withdraw" => place = "update"
  BY DEF Starting
<1> DEFINE new    == Request(op, place, u, token)
           others == {q \in Requests : req[q] # None /\ req[q].user = u}
           only   == op = "withdraw" => others = {}
<1>2. /\ new.op = op /\ new.at = place /\ new.user = u /\ new.alone = TRUE
      /\ op = "withdraw" => new.before = handed
  BY DEF Request
<1>3. new \in RequestType
  BY <1>1 DEF Placed
<1>4. Open(r, new)
  BY <1>1
<1> HIDE DEF new
<1>5. /\ req[r] = None
      /\ req' = [q \in Requests |->
                    CASE q = r        -> [new EXCEPT !.alone = @ /\ only]
                      [] q \in others -> [req[q] EXCEPT !.alone = @ /\ req[q].op # "withdraw"]
                      [] OTHER        -> req[q]]
  BY <1>2, <1>4 DEF Open
<1>6. req'[r] = [new EXCEPT !.alone = new.alone /\ only]
  BY <1>5
<1>7. /\ req'[r] \in RequestType
      /\ req'[r].op = op /\ req'[r].user = u /\ req'[r].at = place /\ req'[r].before = new.before
      /\ req'[r].alone = only
  BY <1>2, <1>3, <1>6 DEF RequestType
<1>8. Alone(req'[r]) => \A q \in Requests : req[q] # None => req[q].user # u
  BY <1>7 DEF Alone
<1>9. ASSUME NEW q \in Requests \ {r}
      PROVE  /\ req'[q] # None <=> req[q] # None
             /\ req[q] # None /\ req[q].user = u => ~Alone(req'[q])
             /\ req[q] # None /\ req[q].user # u => req'[q] = req[q]
  <2>1. CASE q \in others
    <3>1. req'[q] = [req[q] EXCEPT !.alone = req[q].alone /\ req[q].op # "withdraw"]
      BY <1>5, <2>1
    <3>2. req[q] \in RequestType /\ req[q].alone \in BOOLEAN
      BY <2>1, PlacedAt DEF Placed
    <3>3. /\ req'[q] \in RequestType /\ req'[q].op = req[q].op
          /\ req'[q].alone = (req[q].alone /\ req[q].op # "withdraw")
      BY <3>1, <3>2 DEF RequestType
    <3> QED
      BY <2>1, <3>3 DEF Alone
  <2>2. CASE q \notin others
    <3>1. req'[q] = req[q]
      BY <1>5, <2>2
    <3> QED
      BY <2>2, <3>1
  <2> QED
    BY <2>1, <2>2
<1> HIDE DEF only, others
<1> QED
  BY <1>1, <1>2, <1>5, <1>7, <1>8, <1>9

LEMMA Stepping ==
    ASSUME TypeInv, NEW r \in Requests, Step(r)
    PROVE  /\ req[r] # None
           /\ \A q \in Requests \ {r} : req'[q] = req[q]
           /\ req'[r] # None => /\ req'[r].op = req[r].op /\ req'[r].user = req[r].user
                                /\ req'[r].before = req[r].before /\ req'[r].alone = req[r].alone
<1>1. req[r] # None
  BY DEF Step, DelKey, Srem, Sadd, Answer, SaveDevice, SetKey, Anonymise, DropDevices, FindAdmin,
     List, DelKeys, PurgeMember, PurgeAdmin, DeleteRow, Fail, At
<1>2. req[r] \in RequestType
  BY <1>1, PlacedAt DEF Placed
<1>3. \/ \E new : req' = [req EXCEPT ![r] = new]
      \/ \E place : Go(r, place)
      \/ \E t \in Tokens : SetKey(r, t)
      \/ List(r)
  BY DEF Step, DelKey, Srem, Sadd, Answer, SaveDevice, Anonymise, DropDevices, FindAdmin,
     DelKeys, PurgeMember, PurgeAdmin, DeleteRow, Fail, End
<1>4. \A q \in Requests \ {r} : req'[q] = req[q]
  BY <1>3 DEF Go, SetKey, List, TypeInv
<1>5. End(r) \/ (\E place : Go(r, place)) \/ (\E t \in Tokens : SetKey(r, t)) \/ List(r)
  BY DEF Step, DelKey, Srem, Sadd, Answer, SaveDevice, Anonymise, DropDevices, FindAdmin,
     DelKeys, PurgeMember, PurgeAdmin, DeleteRow, Fail
<1>6. CASE End(r)
  BY <1>1, <1>4, <1>6 DEF End, TypeInv
<1>7. ASSUME NEW place, Go(r, place)
      PROVE  /\ req'[r].op = req[r].op /\ req'[r].user = req[r].user
             /\ req'[r].before = req[r].before /\ req'[r].alone = req[r].alone
  BY <1>2, <1>7 DEF Go, TypeInv, RequestType
<1>8. ASSUME NEW t \in Tokens, SetKey(r, t)
      PROVE  /\ req'[r].op = req[r].op /\ req'[r].user = req[r].user
             /\ req'[r].before = req[r].before /\ req'[r].alone = req[r].alone
  BY <1>2, <1>8 DEF SetKey, TypeInv, RequestType
<1>9. CASE List(r)
  BY <1>1, <1>2, <1>4, <1>9 DEF List, TypeInv, RequestType
<1> QED
  BY <1>1, <1>4, <1>5, <1>6, <1>7, <1>8, <1>9

LEMMA SameRequest ==
    ASSUME TypeInv, [Next]_vars, NEW q \in Requests, req[q] # None, req'[q] # None
    PROVE  /\ req'[q].op = req[q].op /\ req'[q].user = req[q].user
           /\ req'[q].before = req[q].before
           /\ Alone(req'[q]) => Alone(req[q])
<1>1. ASSUME NEW r \in Requests, Step(r)
      PROVE  /\ req'[q].op = req[q].op /\ req'[q].user = req[q].user
             /\ req'[q].before = req[q].before
             /\ Alone(req'[q]) => Alone(req[q])
  <2>1. CASE q = r
    BY <1>1, <2>1, Stepping DEF Alone
  <2>2. CASE q # r
    BY <1>1, <2>2, Stepping
  <2> QED
    BY <2>1, <2>2
<1>2. ASSUME NEW r \in Requests, Start(r)
      PROVE  /\ req'[q].op = req[q].op /\ req'[q].user = req[q].user
             /\ req'[q].before = req[q].before
             /\ Alone(req'[q]) => Alone(req[q])
  <2>1. PICK op \in Ops : \E u, token : Starting(r, op, u, token)
    BY <1>2, Starts
  <2>2. PICK u, token : Starting(r, op, u, token)
    BY <2>1
  <2>3. req[r] = None /\ q # r
    BY <2>2, Opening
  <2>4. (req[q].user = u => ~Alone(req'[q])) /\ (req[q].user # u => req'[q] = req[q])
    BY <2>2, <2>3, Opening
  <2>5. req[q] \in RequestType
    BY PlacedAt DEF Placed
  <2>6. PICK b \in BOOLEAN : req'[q] = [req[q] EXCEPT !.alone = b]
    BY <1>2, <2>3, OneMoves DEF Still
  <2>7. req'[q].op = req[q].op /\ req'[q].user = req[q].user /\ req'[q].before = req[q].before
    BY <2>5, <2>6 DEF RequestType
  <2> QED
    BY <2>4, <2>7
<1>3. CASE req' = req
  BY <1>3
<1> QED
  BY <1>1, <1>2, <1>3 DEF Next, Expire, RemoveDevice, vars

(* Only a request of the user gives the user a token, a device or an entry *)
(* of the set.                                                             *)
Untouched(u) ==
    /\ account'[u] = account[u] /\ tracked'[u] = tracked[u]
    /\ \A d \in Devices : devices'[d] = u => devices[d] = u
    /\ \A t \in Tokens : owner'[t] = u => owner[t] = u
    /\ \A t \in handed' \ handed : t \in Tokens /\ issued[t] \notin {u, None}

LEMMA OthersLeave ==
    ASSUME IInv, [Next]_vars, NEW u \in Users,
           \A r \in Requests : Step(r) => req[r].user # u
    PROVE  Untouched(u)
<1>1. /\ account \in [Users -> {"active", "withdrawn", "deleted"}]
      /\ devices \in [Devices -> Users \cup {None}]
      /\ owner \in [Tokens -> Users \cup {None}] /\ tracked \in [Users -> SUBSET Tokens]
      /\ u # None
  BY DEF IInv, TypeInv, TypeOK, Users
<1>2. ASSUME NEW r \in Requests, Step(r)
      PROVE  /\ req[r].user \in Users /\ req[r].user # u
             /\ req[r].fresh # None => req[r].fresh \in Tokens /\ issued[req[r].fresh] = req[r].user
  BY <1>2, Stepping, PlacedAt DEF IInv, AllKnow, Knows
<1> USE DEF Untouched, redisVars, toldVars
<1>3. CASE \E r \in Requests : Start(r)
  BY <1>3 DEF Start, Login, Withdraw, RegisterDevice, Refresh, Logout, DeleteAdmin
<1>4. ASSUME NEW r \in Requests, Step(r),
             DelKey(r) \/ DelKeys(r) \/ FindAdmin(r) \/ List(r) \/ Fail(r) \/ DropDevices(r)
      PROVE  Untouched(u)
  BY <1>1, <1>4 DEF DelKey, DelKeys, WithoutListed, FindAdmin, List, Fail, DropDevices
<1>5. ASSUME NEW r \in Requests, Step(r), Srem(r) \/ Sadd(r) PROVE Untouched(u)
  BY <1>1, <1>2, <1>5 DEF Srem, Sadd
<1>6. ASSUME NEW r \in Requests, Step(r), Answer(r) PROVE Untouched(u)
  BY <1>1, <1>2, <1>6 DEF Answer
<1>7. ASSUME NEW r \in Requests, Step(r), SaveDevice(r) PROVE Untouched(u)
  BY <1>1, <1>2, <1>7 DEF SaveDevice
<1>8. ASSUME NEW r \in Requests, Step(r), NEW t \in Tokens, SetKey(r, t) PROVE Untouched(u)
  BY <1>1, <1>2, <1>8 DEF SetKey
<1>9. ASSUME NEW r \in Requests, Step(r), Anonymise(r) PROVE Untouched(u)
  BY <1>1, <1>2, <1>9 DEF Anonymise
<1>10. ASSUME NEW r \in Requests, Step(r), PurgeMember(r) \/ PurgeAdmin(r) PROVE Untouched(u)
  BY <1>1, <1>2, <1>10 DEF PurgeMember, PurgeAdmin, WithoutListed
<1>11. ASSUME NEW r \in Requests, Step(r), DeleteRow(r) PROVE Untouched(u)
  BY <1>1, <1>2, <1>11 DEF DeleteRow
<1>12. CASE \E t \in Tokens : Expire(t)
  BY <1>1, <1>12 DEF Expire
<1>13. CASE \E d \in Devices : RemoveDevice(d)
  BY <1>1, <1>13 DEF RemoveDevice
<1>14. CASE UNCHANGED vars
  BY <1>14 DEF vars
<1> QED
  BY <1>3, <1>4, <1>5, <1>6, <1>7, <1>8, <1>9, <1>10, <1>11, <1>12, <1>13, <1>14 DEF Next, Step

LEMMA Started ==
    ASSUME TypeInv, [Next]_vars, NEW q \in Requests, req[q] = None, req'[q] # None
    PROVE  Start(q)
<1>1. ASSUME NEW r \in Requests, Start(r) \/ Step(r), r # q PROVE FALSE
  <2>1. Still(q)
    BY <1>1, OneMoves
  <2> QED
    BY <2>1 DEF Still
<1>2. ~Step(q)
  BY Stepping
<1> QED
  BY <1>1, <1>2 DEF Next, Expire, RemoveDevice, vars

LEMMA NobodyElseKept ==
    ASSUME TypeInv, NobodyElse, [Next]_vars
    PROVE  NobodyElse'
<1> SUFFICES ASSUME NEW r \in Requests, NEW q \in Requests, Alone(req'[r]), q # r, req'[q] # None
             PROVE  req'[q].user # req'[r].user
  BY DEF NobodyElse
<1>0. req'[r] # None
  BY DEF Alone
<1>1. CASE req[r] # None /\ req[q] # None
  BY <1>0, <1>1, SameRequest DEF NobodyElse
<1>2. CASE req[r] = None
  <2>1. Start(r)
    BY <1>0, <1>2, Started
  <2>2. PICK op \in Ops : \E u, token : Starting(r, op, u, token)
    BY <2>1, Starts
  <2>3. PICK u, token : Starting(r, op, u, token)
    BY <2>2
  <2>4. req[q] # None /\ req'[r].user = u /\ req[q].user # u
    BY <2>3, Opening
  <2> QED
    BY <2>4, SameRequest
<1>3. CASE req[r] # None /\ req[q] = None
  <2>1. Start(q)
    BY <1>3, Started
  <2>2. PICK op \in Ops : \E u, token : Starting(q, op, u, token)
    BY <2>1, Starts
  <2>3. PICK u, token : Starting(q, op, u, token)
    BY <2>2
  <2>4. req'[q].user = u /\ req[r].user # u
    BY <1>3, <2>3, Opening
  <2> QED
    BY <1>0, <1>3, <2>4, SameRequest
<1> QED
  BY <1>1, <1>2, <1>3

(* The sweep of a withdrawal: its own steps hand nothing out and drop the  *)
(* devices before it lists; the others' steps are not the user's.          *)
LEMMA SweepStep ==
    ASSUME IInv, CleanSweep, NEW r \in Requests, Step(r), Alone(req[r]), req'[r] # None
    PROVE  /\ UNCHANGED <<handed, issued>>
           /\ req'[r].at \in {"list", "keys", "purge"} => \A d \in Devices : devices'[d] # req[r].user
<1>1. /\ req[r] # None /\ req[r].op = "withdraw" /\ req[r] \in RequestType /\ InPlace(req[r])
      /\ req[r].user \in Users /\ TypeInv
  BY PlacedAt DEF Alone, IInv, Placed
<1>2. req[r].at \in {"update", "devices", "list", "keys", "purge"}
  BY <1>1 DEF InPlace, Stages
<1>3. ~End(r)
  BY <1>1 DEF End, TypeInv
<1>4. ASSUME NEW place, Go(r, place) PROVE req'[r].at = place
  BY <1>1, <1>4 DEF Go, TypeInv, RequestType
<1>5. req[r].at \in {"list", "keys", "purge"} => \A d \in Devices : devices[d] # req[r].user
  BY DEF CleanSweep, DevicesOf
<1>6. CASE Anonymise(r)
  BY <1>4, <1>6 DEF Anonymise, toldVars
<1>7. CASE DropDevices(r)
  <2>1. \A d \in Devices : devices'[d] # req[r].user
    BY <1>1, <1>7 DEF DropDevices, DevicesOf, Users
  <2> QED
    BY <1>7, <2>1 DEF DropDevices, toldVars
<1>8. CASE List(r)
  BY <1>5, <1>8 DEF List, At, toldVars
<1>9. CASE DelKeys(r)
  BY <1>5, <1>9 DEF DelKeys, At, toldVars
<1>10. ~\E t \in Tokens : SetKey(r, t)
  BY <1>2 DEF SetKey, At
<1>11. ~(DelKey(r) \/ Srem(r) \/ Sadd(r) \/ FindAdmin(r))
  BY <1>2 DEF DelKey, Srem, Sadd, FindAdmin, At
<1>12. ~(Answer(r) \/ SaveDevice(r) \/ PurgeMember(r) \/ DeleteRow(r) \/ Fail(r))
  BY <1>3 DEF Answer, SaveDevice, PurgeMember, DeleteRow, Fail
<1>13. ~PurgeAdmin(r)
  BY <1>1 DEF PurgeAdmin
<1> QED
  BY <1>6, <1>7, <1>8, <1>9, <1>10, <1>11, <1>12, <1>13 DEF Step

LEMMA CleanSweepKept ==
    ASSUME IInv, NobodyElse, CleanSweep, [Next]_vars
    PROVE  CleanSweep'
<1> SUFFICES ASSUME NEW r \in Requests, Alone(req'[r])
             PROVE  /\ \A t \in handed' : issued'[t] = req'[r].user => t \in req'[r].before
                    /\ req'[r].at \in {"list", "keys", "purge"} =>
                          \A d \in Devices : devices'[d] # req'[r].user
  BY DEF CleanSweep, DevicesOf
<1>0. req'[r] # None /\ TypeInv
  BY DEF Alone, IInv
<1>1. CASE req[r] = None
  <2>1. Start(r)
    BY <1>0, <1>1, Started
  <2>2. PICK op \in Ops : \E u, token : Starting(r, op, u, token)
    BY <1>0, <2>1, Starts
  <2>3. PICK u, token : Starting(r, op, u, token)
    BY <2>2
  <2>4. op = "withdraw"
    BY <1>0, <2>3, Opening DEF Alone
  <2>5. req'[r].at = "update" /\ req'[r].before = handed
    BY <1>0, <2>3, <2>4, Opening
  <2>6. handed' = handed
    BY <2>3 DEF Starting, toldVars
  <2> QED
    BY <2>5, <2>6
<1>2. CASE req[r] # None
  <2> DEFINE u == req[r].user
  <2>1. Alone(req[r]) /\ req'[r].user = u /\ req'[r].before = req[r].before
    BY <1>0, <1>2, SameRequest
  <2>2. u \in Users
    BY <1>0, <1>2, PlacedAt
  <2>3. /\ \A t \in handed : issued[t] = u => t \in req[r].before
        /\ req[r].at \in {"list", "keys", "purge"} => \A d \in Devices : devices[d] # u
    BY <2>1 DEF CleanSweep, DevicesOf
  <2>4. CASE Step(r)
    BY <1>0, <2>1, <2>3, <2>4, SweepStep
  <2>5. CASE ~Step(r)
    <3>1. \A q \in Requests : Step(q) => req[q].user # u
      BY <1>0, <2>1, <2>5, Stepping DEF NobodyElse
    <3>2. Untouched(u)
      BY <2>2, <3>1, OthersLeave
    <3>3. Onward
      BY StepsOnward
    <3>4. ASSUME NEW t \in handed', issued'[t] = u PROVE t \in req[r].before
      <4>1. CASE t \in handed
        <5>1. t \in Tokens /\ issued[t] # None
          BY <4>1 DEF IInv, Owned, TypeInv, TypeOK
        <5> QED
          BY <2>3, <3>3, <3>4, <4>1, <5>1 DEF Onward
      <4>2. CASE t \notin handed
        <5>1. t \in Tokens /\ issued[t] # None /\ issued[t] # u
          BY <3>2, <4>2 DEF Untouched
        <5> QED
          BY <3>3, <3>4, <5>1 DEF Onward
      <4> QED
        BY <4>1, <4>2
    <3>5. req'[r].at = req[r].at
      <4>1. ~Start(r)
        BY <1>0, <1>2 DEF Start, Login, Withdraw, RegisterDevice, Refresh, Logout, DeleteAdmin, Open
      <4>2. Still(r) \/ UNCHANGED req
        BY <1>0, <2>5, <4>1, OneMoves DEF Next, Expire, RemoveDevice, vars
      <4>3. req[r] \in RequestType
        BY <1>0, <1>2, PlacedAt DEF Placed
      <4> QED
        BY <1>0, <4>2, <4>3 DEF Still, RequestType
    <3>6. \A d \in Devices : devices'[d] = u => devices[d] = u
      BY <3>2 DEF Untouched
    <3> QED
      BY <2>1, <2>3, <3>4, <3>5, <3>6
  <2> QED
    BY <2>4, <2>5
<1> QED
  BY <1>1, <1>2

(* Who is erased: the user of a withdrawal that was alone, when it answers.*)
LEMMA Erasing ==
    ASSUME [Next]_vars, NEW u \in erased' \ erased
    PROVE  \E r \in Requests : /\ PurgeMember(r) /\ Alone(req[r]) /\ req[r].user = u
                               /\ u \in Members
<1>1. PICK r \in Requests : PurgeMember(r)
  BY DEF Next, Start, Login, Withdraw, RegisterDevice, Refresh, Logout, DeleteAdmin,
     Step, DelKey, Srem, Sadd, Answer, SaveDevice, SetKey, Anonymise, DropDevices, FindAdmin,
     List, DelKeys, PurgeAdmin, DeleteRow, Fail, Expire, RemoveDevice, vars, toldVars
<1>2. req[r] # None /\ req[r].op = "withdraw"
  BY <1>1 DEF PurgeMember, At
<1>3. req[r].user \in Members /\ req[r].alone /\ req[r].user = u
  BY <1>1 DEF PurgeMember
<1> QED
  BY <1>1, <1>2, <1>3 DEF Alone

LEMMA GoneQuietKept ==
    ASSUME TypeInv, NobodyElse, GoneQuiet, ErasedForGood, [Next]_vars
    PROVE  GoneQuiet'
<1> SUFFICES ASSUME NEW u \in erased'
             PROVE  u \in Members /\ \A q \in Requests : req'[q] # None => req'[q].user # u
  BY DEF GoneQuiet
<1>1. CASE u \in erased
  <2>1. u \in Members /\ u \notin Admins /\ account[u] # "active" /\ \A t \in handed : owner[t] # u
    BY <1>1 DEF GoneQuiet, ErasedForGood
  <2>2. ASSUME NEW q \in Requests, req'[q] # None PROVE req'[q].user # u
    <3>1. CASE req[q] # None
      BY <1>1, <2>2, <3>1, SameRequest DEF GoneQuiet
    <3>2. CASE req[q] = None
      <4>1. Start(q)
        BY <2>2, <3>2, Started
      <4>2. PICK op \in Ops : \E v, token : Starting(q, op, v, token)
        BY <4>1, Starts
      <4>3. PICK v, token : Starting(q, op, v, token)
        BY <4>2
      <4>4. v # u
        BY <2>1, <4>3 DEF Starting, Ops
      <4> QED
        BY <4>3, <4>4, Opening
    <3> QED
      BY <3>1, <3>2
  <2> QED
    BY <2>1, <2>2
<1>2. CASE u \notin erased
  <2>1. PICK r \in Requests : /\ PurgeMember(r) /\ Alone(req[r]) /\ req[r].user = u
                              /\ u \in Members
    BY <1>2, Erasing
  <2>2. req'[r] = None /\ Step(r)
    BY <2>1 DEF PurgeMember, End, TypeInv, Step
  <2>3. \A q \in Requests \ {r} : req'[q] = req[q]
    BY <2>2, Stepping
  <2> QED
    BY <2>1, <2>2, <2>3 DEF NobodyElse
<1> QED
  BY <1>1, <1>2

(* A deleted row has no devices: it takes them along, and the foreign key  *)
(* admits no more.                                                         *)
LEMMA DeletedKept ==
    ASSUME IInv, ErasedForGood, [Next]_vars, NEW u \in Users, account'[u] = "deleted",
           NEW d \in Devices
    PROVE  devices'[d] # u
<1>0. /\ account \in [Users -> {"active", "withdrawn", "deleted"}]
      /\ devices \in [Devices -> Users \cup {None}]
      /\ u # None
  BY DEF IInv, TypeInv, TypeOK, Users
<1>1. account[u] = "deleted" => devices[d] # u
  BY DEF ErasedForGood, DevicesOf
<1>2. CASE UNCHANGED <<account, devices>>
  BY <1>1, <1>2
<1>3. ASSUME NEW r \in Requests, SaveDevice(r) PROVE devices'[d] # u
  BY <1>0, <1>1, <1>3 DEF SaveDevice
<1>4. ASSUME NEW e \in Devices, RemoveDevice(e) PROVE devices'[d] # u
  BY <1>0, <1>1, <1>4 DEF RemoveDevice
<1>5. ASSUME NEW r \in Requests, Anonymise(r) PROVE devices'[d] # u
  BY <1>0, <1>1, <1>5 DEF Anonymise
<1>6. ASSUME NEW r \in Requests, DropDevices(r) PROVE devices'[d] # u
  BY <1>0, <1>1, <1>6 DEF DropDevices
<1>7. ASSUME NEW r \in Requests, DeleteRow(r) PROVE devices'[d] # u
  BY <1>0, <1>1, <1>7 DEF DeleteRow, DevicesOf
<1> QED
  BY <1>2, <1>3, <1>4, <1>5, <1>6, <1>7
     DEF Next, Start, Login, Withdraw, RegisterDevice, Refresh, Logout, DeleteAdmin,
     Step, DelKey, Srem, Sadd, Answer, SetKey, FindAdmin, List, DelKeys, PurgeMember, PurgeAdmin,
     Fail, Expire, vars

(* When a withdrawal that was alone answers, everything the member held    *)
(* was listed and killed; afterwards nothing gives the member any of it.   *)
LEMMA ErasedKept ==
    ASSUME IInv, NobodyElse, CleanSweep, GoneQuiet, ErasedForGood, [Next]_vars
    PROVE  ErasedForGood'
<1>1. Onward
  BY StepsOnward
<1>2. \A t \in Tokens : owner[t] = None \/ owner[t] = issued[t]
  BY DEF IInv, Owned
<1>3. Members \subseteq Users /\ None \notin Users /\ TypeInv
  BY DEF Users, IInv
<1>4. ASSUME NEW u \in erased
      PROVE  /\ account'[u] # "active" /\ tracked'[u] = {}
             /\ \A d \in Devices : devices'[d] # u
             /\ \A t \in handed' : owner'[t] # u
  <2>1. /\ account[u] # "active" /\ tracked[u] = {} /\ u \in Users /\ u # None
        /\ \A d \in Devices : devices[d] # u
        /\ \A t \in handed : owner[t] # u
    BY <1>3, <1>4 DEF ErasedForGood, DevicesOf, GoneQuiet
  <2>2. \A r \in Requests : Step(r) => req[r].user # u
    BY <1>3, <1>4, Stepping DEF GoneQuiet
  <2>3. Untouched(u)
    BY <2>1, <2>2, OthersLeave
  <2>4. handed \subseteq Tokens
    BY <1>3 DEF TypeInv, TypeOK
  <2> QED
    BY <1>2, <2>1, <2>3, <2>4 DEF Untouched
<1>5. ASSUME NEW u \in erased' \ erased
      PROVE  /\ account'[u] # "active" /\ tracked'[u] = {}
             /\ \A d \in Devices : devices'[d] # u
             /\ \A t \in handed' : owner'[t] # u
  <2>1. PICK r \in Requests : /\ PurgeMember(r) /\ Alone(req[r]) /\ req[r].user = u
                              /\ u \in Members
    BY <1>5, Erasing
  <2>2. /\ req[r] # None /\ req[r].at = "purge" /\ Withdrawing(req[r], u)
        /\ UNCHANGED <<account, devices, owner, issued, handed>>
    BY <2>1 DEF PurgeMember, At, Withdrawing
  <2>3. account[u] # "active"
    BY <2>2 DEF IInv, AllKnow, Knows, Withdrawing
  <2>4. tracked'[u] = {}
    BY <1>3, <2>1 DEF PurgeMember, TypeInv, TypeOK
  <2>5. /\ \A d \in Devices : devices[d] # u
        /\ \A t \in handed : issued[t] = u => t \in req[r].before
    BY <2>1, <2>2 DEF CleanSweep, DevicesOf
  <2>6. ASSUME NEW t \in handed, owner[t] = u PROVE FALSE
    <3>1. t \in req[r].before
      BY <1>2, <1>3, <2>1, <2>5, <2>6 DEF TypeInv, TypeOK
    <3>2. Caught(req[r], req[r])
      BY <2>1, <2>2 DEF IInv, AllCaught
    <3> QED
      BY <2>1, <2>2, <2>6, <3>1, <3>2 DEF Caught
  <2> QED
    BY <2>2, <2>3, <2>4, <2>5, <2>6
<1>6. \A u \in Users : account'[u] = "deleted" => \A d \in Devices : devices'[d] # u
  BY DeletedKept
<1> QED
  BY <1>4, <1>5, <1>6 DEF ErasedForGood, DevicesOf

(* A withdrawal that no other request of the member overlapped leaves      *)
(* nothing behind, ever: no entry in the set, no device to push to, no     *)
(* live token in a client's hands; and a deleted row leaves no device.     *)
THEOREM WithdrawnForGood == Spec => []ErasedForGood
<1> DEFINE SweepInv == IInv /\ NobodyElse /\ CleanSweep /\ GoneQuiet /\ ErasedForGood
<1>1. Init => SweepInv
  <2> SUFFICES ASSUME Init PROVE SweepInv
    OBVIOUS
  <2>1. \A r \in Requests : ~Alone(req[r])
    BY DEF Init, Alone
  <2>2. ErasedForGood
    BY DEF Init, ErasedForGood
  <2> QED
    BY <2>1, <2>2, SessionsInit DEF Init, NobodyElse, CleanSweep, GoneQuiet
<1>2. SweepInv /\ [Next]_vars => SweepInv'
  <2> SUFFICES ASSUME SweepInv, [Next]_vars PROVE SweepInv'
    OBVIOUS
  <2>1. TypeInv /\ IInv'
    BY SessionsInductive DEF IInv
  <2>2. NobodyElse' /\ GoneQuiet'
    BY <2>1, NobodyElseKept, GoneQuietKept
  <2>3. CleanSweep' /\ ErasedForGood'
    BY CleanSweepKept, ErasedKept
  <2> QED
    BY <2>1, <2>2, <2>3
<1> QED
  BY <1>1, <1>2, PTL DEF Spec

===============================================================================
