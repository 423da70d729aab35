------------------------------- MODULE Nicknames -------------------------------
(***************************************************************************)
(* NicknamesService and NicknameSequenceService: recommending a nickname   *)
(* (POST nicknames/issue) walks over the pairs of an adjective and a noun, *)
(* claiming one (POST nicknames/register, PATCH users/me) writes it to the *)
(* user's row; a number is appended where the name is taken.  A name is a  *)
(* sequence: two words and the numbers appended to them (a suffix of one   *)
(* digit: "a b2" with 2 appended is not told from "a b" with 22).          *)
(***************************************************************************)
EXTENDS Naturals, Sequences, FiniteSets

CONSTANTS
    Users, Requests,
    Pools,          \* the possible numbers of active adjectives and nouns
    Typed,          \* the names members type
    MaxLength,      \* the longest name (30 characters)
    MaxRequests,    \* bound on the requests ever made
    None            \* null

Name == Seq(Nat)

ASSUME NicknamesAssumption ==
    /\ Pools \subseteq (Nat \ {0}) \X (Nat \ {0})
    /\ Typed \subseteq Name
    /\ None \notin Users \cup Name
    /\ MaxLength \in Nat /\ MaxRequests \in Nat

VARIABLES
    pool,        \* DB nickname_adjectives, nickname_nouns: how many are active
    comboSeq,    \* DB sequence nickname_combo_seq
    nextSuffix,  \* DB nickname_bases: the bases with a row and their next_suffix
    nickname,    \* DB users.nickname
    active,      \* the users who have not withdrawn
    req,         \* the open requests
    opened,      \* how many were ever made
    issued,      \* what was recommended, with its number in the sequence
    answers      \* what claims returned, with the nickname then held

dbVars == <<pool, comboSeq, nextSuffix, nickname, active>>
vars   == <<dbVars, req, opened, issued, answers>>

(* user is None where a nickname is recommended, seq 0 where one is claimed*)
RequestType ==
    [at : {"look", "suffix", "check", "write"}, user : Users \cup {None},
     base : Name, name : Name, seq : Nat]

ASSUME NoneIsNoRequest == None \notin RequestType

At(r, place) == req[r] # None /\ req[r].at = place
Taken(name)  == \E u \in Users : nickname[u] = name
TakenByOther(name, u) == \E v \in Users \ {u} : nickname[v] = name

-------------------------------------------------------------------------------
(* The walk.  gcd is Euclid's loop; the step is the first number from      *)
(* 97 % total upwards, and round to 1, that is coprime to total.           *)
Divides(d, a) == a % d = 0
Gcd(a, b) ==
    CHOOSE d \in 1 .. b : /\ Divides(d, a) /\ Divides(d, b)
                          /\ \A c \in d + 1 .. b : ~(Divides(c, a) /\ Divides(c, b))

(* Mutant: the first step tried is kept. *)
PickFirstStep(total) == IF 97 % total = 0 THEN 1 ELSE 97 % total

PickCoprimeStep(total) ==
    LET start == IF 97 % total = 0 THEN 1 ELSE 97 % total
        nth(k) == IF start + k < total THEN start + k ELSE start + k - total + 1
        k0 == CHOOSE k \in 0 .. total :
                 /\ Gcd(nth(k), total) = 1
                 /\ \A j \in 0 .. k - 1 : Gcd(nth(j), total) # 1
    IN  nth(k0)

(* Mutant: the remainder is that of the number of adjectives. *)
MapByAdjectives(index, size) == <<index \div size[2], index % size[1]>>

MapIndexToPair(index, size) == <<index \div size[2], index % size[2]>>

(* The pairs in the order of the walk, for each pool. *)
Walk == [size \in Pools |->
            LET total == size[1] * size[2]
                step == PickCoprimeStep(total)
            IN  [n \in 0 .. total - 1 |-> MapIndexToPair((17 + n * step) % total, size)]]

GenerateBaseNickname(seq) == Walk[pool][seq % (pool[1] * pool[2])]

Init ==
    /\ pool \in Pools
    /\ comboSeq = 0
    /\ nextSuffix = [b \in {} |-> 0]
    /\ nickname = [u \in Users |-> None]
    /\ active = Users
    /\ req = [r \in Requests |-> None] /\ opened = 0
    /\ issued = {} /\ answers = {}

-------------------------------------------------------------------------------
Open(r, new) ==
    /\ req[r] = None /\ opened < MaxRequests
    /\ req' = [req EXCEPT ![r] = new]
    /\ opened' = opened + 1

Go(r, place) == req' = [req EXCEPT ![r].at = place] /\ UNCHANGED opened
End(r)       == req' = [req EXCEPT ![r] = None] /\ UNCHANGED opened

(* issueNickname. *)
Issue(r) ==
    LET base == GenerateBaseNickname(comboSeq + 1)
    IN  /\ comboSeq' = comboSeq + 1
        /\ Open(r, [at |-> "look", user |-> None, base |-> base, name |-> base, seq |-> comboSeq + 1])
        /\ UNCHANGED <<pool, nextSuffix, nickname, active, issued, answers>>

Look(r) ==
    /\ At(r, "look")
    /\ IF Taken(req[r].name)
       THEN Go(r, "suffix") /\ UNCHANGED issued
       ELSE End(r) /\ issued' = issued \cup {[seq |-> req[r].seq, name |-> req[r].name]}
    /\ UNCHANGED <<dbVars, answers>>

(* allocateSuffix, one upsert; then the new name is checked for its length. *)
SuffixOf(base) == IF base \in DOMAIN nextSuffix THEN nextSuffix[base] ELSE 2

Allocate(r, kept) ==
    LET base == req[r].base
        suffix == SuffixOf(base)
        name == Append(base, suffix)
    IN  /\ At(r, "suffix")
        /\ nextSuffix' = [b \in DOMAIN nextSuffix \cup {base} |->
                             IF b = base THEN kept ELSE nextSuffix[b]]
        /\ IF Len(name) > MaxLength THEN req' = [req EXCEPT ![r] = None]
           ELSE req' = [req EXCEPT ![r].name = name,
                                   ![r].at = IF req[r].user = None THEN "look" ELSE "check"]
        /\ UNCHANGED <<pool, comboSeq, nickname, active, opened, issued, answers>>

(* Mutant: on conflict the counter stays. *)
AllocateSame(r) ==
    /\ At(r, "suffix")
    /\ LET base == req[r].base
       IN  Allocate(r, IF base \in DOMAIN nextSuffix THEN nextSuffix[base] ELSE 3)

(* Mutant: the row is inserted with the number just given out.             *)
AllocateFirstTwice(r) ==
    /\ At(r, "suffix")
    /\ LET base == req[r].base
       IN  Allocate(r, IF base \in DOMAIN nextSuffix THEN nextSuffix[base] + 1 ELSE 2)

AllocateSuffix(r) == At(r, "suffix") /\ Allocate(r, SuffixOf(req[r].base) + 1)

(* claimNicknameWithSuffix; withdrawn users are not let in. *)
Claim(r, u, name) ==
    /\ u \in active
    /\ Open(r, [at |-> "check", user |-> u, base |-> name, name |-> name, seq |-> 0])
    /\ UNCHANGED <<dbVars, issued, answers>>

(* What a claim answers is the name it tried, whoever holds it.            *)
Answer(r, held) == answers' = answers \cup {[name |-> req[r].name, held |-> held]}

(* claimNicknameForUser: the NOT EXISTS of the UPDATE sees a snapshot.  If *)
(* the name is taken no row is updated, and query() returns the pair of    *)
(* rows and count that TypeORM makes of an UPDATE, whose length is 2: the  *)
(* claim counts as made.                                                   *)
Check(r) ==
    /\ At(r, "check")
    /\ IF TakenByOther(req[r].name, req[r].user)
       THEN End(r) /\ Answer(r, nickname[req[r].user])
       ELSE Go(r, "write") /\ UNCHANGED answers
    /\ UNCHANGED <<dbVars, issued>>

(* The unique index decides; its error 23505 means false. *)
Write(r) ==
    /\ At(r, "write")
    /\ IF TakenByOther(req[r].name, req[r].user)
       THEN Go(r, "suffix") /\ UNCHANGED <<nickname, answers>>
       ELSE /\ End(r) /\ Answer(r, req[r].name)
            /\ nickname' = [nickname EXCEPT ![req[r].user] = req[r].name]
    /\ UNCHANGED <<pool, comboSeq, nextSuffix, active, issued>>

(* UsersService.withdraw. *)
Withdraw(u) ==
    /\ u \in active
    /\ active' = active \ {u}
    /\ nickname' = [nickname EXCEPT ![u] = None]
    /\ UNCHANGED <<pool, comboSeq, nextSuffix, req, opened, issued, answers>>

Fail(r) ==
    /\ req[r] # None
    /\ End(r)
    /\ UNCHANGED <<dbVars, issued, answers>>

Step(r) == Look(r) \/ AllocateSuffix(r) \/ Check(r) \/ Write(r)

Next ==
    \/ \E r \in Requests :
          \/ Issue(r) \/ Step(r) \/ Fail(r)
          \/ \E u \in Users, name \in Typed : Claim(r, u, name)
    \/ \E u \in Users : Withdraw(u)

Spec == Init /\ [][Next]_vars

(* The event loop resumes every handler. *)
FairSpec == Spec /\ \A r \in Requests : WF_vars(Step(r))

-------------------------------------------------------------------------------
TypeOK ==
    /\ pool \in Pools
    /\ comboSeq \in Nat /\ opened \in 0 .. MaxRequests
    /\ \A b \in DOMAIN nextSuffix : b \in Name /\ nextSuffix[b] \in Nat \ {0, 1}
    /\ nickname \in [Users -> Name \cup {None}]
    /\ active \subseteq Users
    /\ req \in [Requests -> RequestType \cup {None}]
    /\ issued \subseteq [seq : Nat, name : Name]
    /\ answers \subseteq [name : Name, held : Name \cup {None}]

(* The walk visits every pair of words before it comes back to the first,  *)
(* whatever the sizes of the two pools (pickCoprimeStep,                   *)
(* nicknames.service.ts:80).                                               *)
WalkCoversPool ==
    {Walk[pool][n] : n \in DOMAIN Walk[pool]} = (0 .. pool[1] - 1) \X (0 .. pool[2] - 1)

(* A recommendation is not repeated before the walk has come round,        *)
(* whatever claims and other requests do to its suffixes meanwhile         *)
(* (issueNickname, nicknames.service.ts:45).                               *)
IssuedDiffer ==
    \A x, y \in issued :
        x.seq < y.seq /\ y.seq < x.seq + pool[1] * pool[2] => x.name # y.name

(* Two requests never try one suffix of one base (docs/db-spec.md:393).    *)
(* The state is well typed.                                                *)
Suffixed(r) == req[r] # None /\ req[r].at # "suffix" /\ req[r].name # req[r].base

SuffixesDiffer ==
    /\ TypeOK
    /\ \A q, r \in Requests :
          q # r /\ Suffixed(q) /\ Suffixed(r) /\ req[q].base = req[r].base
              => req[q].name # req[r].name

(* No loop over suffixes goes on for ever. *)
RequestsEnd == \A r \in Requests : req[r] # None ~> req[r] = None

(* register and PATCH users/me give the user a name, with a number where   *)
(* the one asked for is taken (docs/api/03-nicknames.md:109): what a claim *)
(* answers is the nickname the user then has.                              *)
ClaimsHold == \A a \in answers : a.held = a.name

===============================================================================
