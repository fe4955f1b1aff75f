------------------------------- MODULE Access -------------------------------
(***************************************************************************)
(* Who may use the API (internal/auth, internal/api, internal/ratelimit):  *)
(* users and sessions, API keys, and the counters in front of a login.     *)
(***************************************************************************)
EXTENDS Integers, FiniteSets, Sequences

-----------------------------------------------------------------------------
(***************************************************************************)
(* Users, their login sessions and the file both are kept in.  Every       *)
(* operation holds the store's lock and saves the whole store; a save that *)
(* fails is reported, but the change stays in memory.                      *)
(***************************************************************************)
CONSTANTS UserNames, Tokens,
          OtherRoles,      \* roles that may not manage users
          SessionTerm,     \* how long a session is valid
          UsTimeBound, UsCreations  \* bounds: the clock, users created

ASSUME UserTerm == SessionTerm \in Nat

VARIABLES users,     \* user name -> [role, made]; made numbers the creations
          sessions,  \* token -> [user, made, ends]
          authFile,  \* the users and sessions of auth.json
          usClock, created

userVars == <<users, sessions, authFile, usClock, created>>

Roles == {"admin"} \cup OtherRoles
NoneOf == [x \in {} |-> 0]

UserInit ==
    /\ users = NoneOf /\ sessions = NoneOf /\ usClock = 0 /\ created = 0
    /\ authFile = [users |-> NoneOf, sessions |-> NoneOf]

\* saveLocked: written aside and renamed, so the file is old or new.
SaveLocked(us, ss) == authFile' \in {[users |-> us, sessions |-> ss], authFile}

Admins == {u \in DOMAIN users : users[u].role = "admin"}
Without(f, S) == [x \in DOMAIN f \ S |-> f[x]]
With(f, x, v) == [y \in DOMAIN f \cup {x} |-> IF y = x THEN v ELSE f[y]]
NewUser(u, r) == With(users, u, [role |-> r, made |-> created + 1])

\* A token that no session has (32 random bytes).
FreshToken == CHOOSE t \in Tokens : t \notin DOMAIN sessions
HasToken == \E t \in Tokens : t \notin DOMAIN sessions
SessionOf(u) == [user |-> u, made |-> users[u].made, ends |-> usClock + SessionTerm]

\* handleCreateAdmin: only while there are no users.
CreateAdmin(u) ==
    /\ DOMAIN users = {} /\ created < UsCreations
    /\ users' = NewUser(u, "admin") /\ created' = created + 1
    /\ SaveLocked(users', sessions)
    /\ UNCHANGED <<sessions, usClock>>

CreateUser(u, r) ==
    /\ DOMAIN users # {} /\ u \notin DOMAIN users /\ created < UsCreations
    /\ users' = NewUser(u, r) /\ created' = created + 1
    /\ SaveLocked(users', sessions)
    /\ UNCHANGED <<sessions, usClock>>

\* Authenticate with the right password.
Authenticate(u) ==
    /\ u \in DOMAIN users /\ HasToken
    /\ sessions' = With(sessions, FreshToken, SessionOf(u))
    /\ SaveLocked(users, sessions')
    /\ UNCHANGED <<users, usClock, created>>

Logout(t) ==
    /\ t \in DOMAIN sessions
    /\ sessions' = Without(sessions, {t}) /\ SaveLocked(users, sessions')
    /\ UNCHANGED <<users, usClock, created>>

\* UpdateRole: the last admin is not demoted.
LastAdmin_Miscounts(u) == users[u].role = "admin" /\ Cardinality(Admins) < 1
LastAdmin(u) == users[u].role = "admin" /\ Cardinality(Admins) <= 1

UpdateRole(u, r) ==
    /\ u \in DOMAIN users /\ (r # "admin" => ~LastAdmin(u))
    /\ users' = [users EXCEPT ![u].role = r] /\ SaveLocked(users', sessions)
    /\ UNCHANGED <<sessions, usClock, created>>

\* DeleteUser takes the user's sessions along; the handler refuses the name
\* "admin".
SessionsLeft_All(u) == sessions
SessionsLeft(u) == Without(sessions, {t \in DOMAIN sessions : sessions[t].user = u})

DeleteUser(u) ==
    /\ u \in DOMAIN users /\ u # "admin" /\ ~LastAdmin(u)
    /\ users' = Without(users, {u}) /\ sessions' = SessionsLeft(u)
    /\ SaveLocked(users', sessions')
    /\ UNCHANGED <<usClock, created>>

\* The API server starts again: load, without the sessions that ended.
UsRestart ==
    /\ users' = authFile.users
    /\ sessions' = Without(authFile.sessions,
                     {t \in DOMAIN authFile.sessions : authFile.sessions[t].ends < usClock})
    /\ UNCHANGED <<authFile, usClock, created>>

UsTick == /\ usClock < UsTimeBound /\ usClock' = usClock + 1
          /\ UNCHANGED <<users, sessions, authFile, created>>

UserNext ==
    \/ \E u \in UserNames : CreateAdmin(u) \/ Authenticate(u) \/ DeleteUser(u)
    \/ \E u \in UserNames, r \in Roles : CreateUser(u, r) \/ UpdateRole(u, r)
    \/ \E t \in Tokens : Logout(t)
    \/ UsRestart \/ UsTick

-----------------------------------------------------------------------------
\* ValidateSession: the user a token stands for now.
ValidSession(t) ==
    /\ t \in DOMAIN sessions /\ sessions[t].ends >= usClock
    /\ sessions[t].user \in DOMAIN users

\* Once there are users one of them is an administrator, however roles are
\* changed, users deleted, saves fail and the server restarts: with none left
\* nobody could manage users, and setup is open only while there are no users.
AdminRemains == DOMAIN users # {} => Admins # {}

\* A session is never valid for another user than the one who logged in: when
\* a user was deleted and the name was given to somebody new, the old sessions
\* are gone, after a restart from an older file too.
SessionKeepsUser ==
    \A t \in Tokens : ValidSession(t) => sessions[t].made = users[sessions[t].user].made

-----------------------------------------------------------------------------
(***************************************************************************)
(* API keys in the state store: a row per key and an index entry per hash, *)
(* written one after the other.  The API server validates keys and counts  *)
(* their use in a read-modify-write; the command line creates and revokes  *)
(* them in another process, which may die between two writes.              *)
(***************************************************************************)
CONSTANTS ApiKeyIds, KeyRequests   \* the keys; requests that carry one

VARIABLES keyRows,   \* the ids in bucket api_keys
          keyIndex,  \* the ids that bucket api_keys_hash leads to
          keyReq,    \* each request: [pc, key, late], late = begun after the revocation
          keyCli,    \* the command line: [pc, key]
          revoked    \* keys whose Delete has finished (and that were not made again)

keyVars == <<keyRows, keyIndex, keyReq, keyCli, revoked>>

KeyIdle == [pc |-> "idle", key |-> CHOOSE k \in ApiKeyIds : TRUE, late |-> FALSE]
CliIdle == [pc |-> "idle", key |-> CHOOSE k \in ApiKeyIds : TRUE]

KeyInit ==
    /\ keyRows = {} /\ keyIndex = {} /\ revoked = {}
    /\ keyReq = [r \in KeyRequests |-> KeyIdle] /\ keyCli = CliIdle

Req(r, pc) == keyReq' = [keyReq EXCEPT ![r].pc = pc]

\* ValidateKey: GetByHash reads the index, then the row.
LookUp(r, k) ==
    /\ keyReq[r].pc = "idle"
    /\ keyReq' = [keyReq EXCEPT ![r] = [pc |-> IF k \in keyIndex THEN "indexed" ELSE "refused",
                                        key |-> k, late |-> k \in revoked]]
    /\ UNCHANGED <<keyRows, keyIndex, keyCli, revoked>>

\* The row may say that the key is disabled or has expired.
ReadRow(r) ==
    /\ keyReq[r].pc = "indexed"
    /\ \E pc \in {"valid", "refused"} :
         /\ keyReq[r].key \notin keyRows => pc = "refused"
         /\ Req(r, pc)
    /\ UNCHANGED <<keyRows, keyIndex, keyCli, revoked>>

\* UpdateLastUsed: it reads the row again and writes all of it back.
ReadUse(r) ==
    /\ keyReq[r].pc = "valid"
    /\ Req(r, IF keyReq[r].key \in keyRows THEN "counting" ELSE "accepted")
    /\ UNCHANGED <<keyRows, keyIndex, keyCli, revoked>>

WriteUse(r) ==
    /\ keyReq[r].pc = "counting" /\ keyRows' = keyRows \cup {keyReq[r].key}
    /\ Req(r, "accepted")
    /\ UNCHANGED <<keyIndex, keyCli, revoked>>

Answer(r) ==
    /\ keyReq[r].pc \in {"accepted", "refused"} /\ keyReq' = [keyReq EXCEPT ![r] = KeyIdle]
    /\ UNCHANGED <<keyRows, keyIndex, keyCli, revoked>>

\* Create: the row and then the index entry, unless either exists.
CreateRow(k) ==
    /\ keyCli.pc = "idle" /\ k \notin keyRows /\ k \notin keyIndex
    /\ keyRows' = keyRows \cup {k} /\ keyCli' = [pc |-> "create", key |-> k]
    /\ UNCHANGED <<keyIndex, keyReq, revoked>>

CreateIndex ==
    /\ keyCli.pc = "create" /\ keyIndex' = keyIndex \cup {keyCli.key}
    /\ revoked' = revoked \ {keyCli.key} /\ keyCli' = CliIdle
    /\ UNCHANGED <<keyRows, keyReq>>

\* The index write failed: the row is taken back.
CreateUndone ==
    /\ keyCli.pc = "create" /\ keyRows' = keyRows \ {keyCli.key} /\ keyCli' = CliIdle
    /\ UNCHANGED <<keyIndex, keyReq, revoked>>

\* Delete: the index entry first, then the row.
IndexAfterDelete_Kept(k) == keyIndex
IndexAfterDelete(k) == keyIndex \ {k}

DeleteIndex(k) ==
    /\ keyCli.pc = "idle" /\ k \in keyRows
    /\ keyIndex' = IndexAfterDelete(k) /\ keyCli' = [pc |-> "delete", key |-> k]
    /\ UNCHANGED <<keyRows, keyReq, revoked>>

DeleteRow ==
    /\ keyCli.pc = "delete" /\ keyRows' = keyRows \ {keyCli.key}
    /\ revoked' = revoked \cup {keyCli.key} /\ keyCli' = CliIdle
    /\ UNCHANGED <<keyIndex, keyReq>>

CliDies ==
    /\ keyCli.pc # "idle" /\ keyCli' = CliIdle
    /\ UNCHANGED <<keyRows, keyIndex, keyReq, revoked>>

KeyNext ==
    \/ \E r \in KeyRequests : ReadRow(r) \/ ReadUse(r) \/ WriteUse(r) \/ Answer(r)
    \/ \E r \in KeyRequests, k \in ApiKeyIds : LookUp(r, k)
    \/ \E k \in ApiKeyIds : CreateRow(k) \/ DeleteIndex(k)
    \/ CreateIndex \/ CreateUndone \/ DeleteRow \/ CliDies

-----------------------------------------------------------------------------
\* A key that was revoked is refused from then on.  A request that was counting
\* its use meanwhile writes the row back, but nothing leads to it any more.
RevokedStays ==
    \A r \in KeyRequests : keyReq[r].late => keyReq[r].pc # "accepted"

-----------------------------------------------------------------------------
(***************************************************************************)
(* Two counters in front of a login: the limiter's bucket for an address   *)
(* and the SecurityManager's list of failures.  Requests run concurrently; *)
(* Allow finds the bucket under one lock and takes a token under another;  *)
(* RecordFailedAttempt reads the clock before it has the lock, and an      *)
(* address is blocked with the lock released.                              *)
(***************************************************************************)
CONSTANTS Logins,       \* concurrent login requests from one address
          RlLimit, RlInterval,   \* requests per interval
          RlThreshold, RlWindow, \* failures within the window that block
          RlMaxAge,     \* buckets older than this are cleaned up
          RlTimeBound, RlRequests   \* bounds: clock, requests in a behaviour

\* A bucket that is cleaned up was not filled for some intervals.
ASSUME RlAssumption ==
    /\ IsFiniteSet(Logins) /\ {RlLimit, RlInterval} \subseteq Nat \ {0}
    /\ {RlMaxAge, RlWindow, RlThreshold} \subseteq Nat /\ RlMaxAge >= 2 * (RlInterval - 1)

VARIABLES rlClock,
          buckets,   \* every bucket ever made: [tokens, fill]
          bucketOf,  \* the one the map holds for the address, 0 for none
          login,     \* each request: [pc, bucket, no, at]; at is the time it failed
          grants,    \* when the requests that passed took their token
          fails,     \* tracker.attempts: [no, at], the request and its time
          inSet,     \* the address is in the set blocked_ips
          rlCount

rlVars == <<rlClock, buckets, bucketOf, login, grants, fails, inSet, rlCount>>

NoLogin == [pc |-> "idle", bucket |-> 0, no |-> 0, at |-> 0]
LoginEnds(q) == login' = [login EXCEPT ![q] = NoLogin]

RlInit ==
    /\ rlClock = 0 /\ buckets = << >> /\ bucketOf = 0 /\ grants = << >>
    /\ login = [q \in Logins |-> NoLogin]
    /\ fails = {} /\ inSet = FALSE /\ rlCount = 0

\* Allow: find or make the bucket.
FindBucket(q) ==
    /\ login[q].pc = "idle" /\ rlCount < RlRequests /\ rlCount' = rlCount + 1
    /\ IF bucketOf = 0
       THEN /\ buckets' = Append(buckets, [tokens |-> RlLimit, fill |-> rlClock])
            /\ bucketOf' = Len(buckets) + 1
       ELSE UNCHANGED <<buckets, bucketOf>>
    /\ login' = [login EXCEPT ![q] = [pc |-> "take", bucket |-> bucketOf', no |-> rlCount', at |-> 0]]
    /\ UNCHANGED <<rlClock, grants, fails, inSet>>

\* take: a full bucket again once the interval has passed.
Filled_Always(b) == [tokens |-> RlLimit, fill |-> rlClock]
Filled(b) == IF rlClock - b.fill >= RlInterval THEN [tokens |-> RlLimit, fill |-> rlClock] ELSE b

TakeToken(q) ==
    /\ login[q].pc = "take"
    /\ LET b == Filled(buckets[login[q].bucket])
       IN  IF b.tokens <= 0
           THEN /\ buckets' = [buckets EXCEPT ![login[q].bucket] = b]
                /\ LoginEnds(q) /\ UNCHANGED grants
           ELSE /\ buckets' = [buckets EXCEPT ![login[q].bucket] = [b EXCEPT !.tokens = @ - 1]]
                /\ login' = [login EXCEPT ![q].pc = "check"]
                /\ grants' = Append(grants, rlClock)
    /\ UNCHANGED <<rlClock, bucketOf, fails, inSet, rlCount>>

\* The password is right: Reset forgets the address.
LoginOk(q) ==
    /\ login[q].pc = "check" /\ LoginEnds(q)
    /\ bucketOf' = 0 /\ grants' = << >>
    /\ UNCHANGED <<rlClock, buckets, fails, inSet, rlCount>>

\* RecordFailedAttempt: now, and then the lock.
LoginFails(q) ==
    /\ login[q].pc = "check"
    /\ login' = [login EXCEPT ![q].pc = "failed", ![q].at = rlClock]
    /\ UNCHANGED <<rlClock, buckets, bucketOf, grants, fails, inSet, rlCount>>

\* This failure is added and what is too old for it falls out; at the threshold
\* the lock is released for the call to the control plane.
Recent(all, now) == {f \in all : now - f.at <= RlWindow}

RecordFailure(q) ==
    /\ login[q].pc = "failed"
    /\ fails' = Recent(fails \cup {[no |-> login[q].no, at |-> login[q].at]}, login[q].at)
    /\ IF Cardinality(fails') >= RlThreshold THEN login' = [login EXCEPT ![q].pc = "block"]
                                            ELSE LoginEnds(q)
    /\ UNCHANGED <<rlClock, buckets, bucketOf, grants, inSet, rlCount>>

\* blockIPLocked: the call that puts the address in the set; an error of the
\* call leaves the tracker.
AfterCall_Dropped(ok) == "blocked"
AfterCall(ok) == IF ok THEN "blocked" ELSE "idle"

Block(q) ==
    /\ login[q].pc = "block"
    /\ \E ok \in BOOLEAN :
         /\ inSet' = (inSet \/ ok)
         /\ IF AfterCall(ok) = "idle" THEN LoginEnds(q)
            ELSE login' = [login EXCEPT ![q].pc = AfterCall(ok)]
    /\ UNCHANGED <<rlClock, buckets, bucketOf, grants, fails, rlCount>>

\* Then the tracker goes, with what was added to it meanwhile.
DropTracker(q) ==
    /\ login[q].pc = "blocked" /\ fails' = {} /\ LoginEnds(q)
    /\ UNCHANGED <<rlClock, buckets, bucketOf, grants, inSet, rlCount>>

\* CleanupExpired.
CleanBucket ==
    /\ bucketOf # 0 /\ rlClock - buckets[bucketOf].fill > RlMaxAge /\ bucketOf' = 0
    /\ UNCHANGED <<rlClock, buckets, login, grants, fails, inSet, rlCount>>

RlTick ==
    /\ rlClock < RlTimeBound /\ rlClock' = rlClock + 1
    /\ UNCHANGED <<buckets, bucketOf, login, grants, fails, inSet, rlCount>>

RlNext ==
    \/ \E q \in Logins : FindBucket(q) \/ TakeToken(q) \/ LoginOk(q)
    \/ \E q \in Logins : LoginFails(q) \/ RecordFailure(q) \/ Block(q) \/ DropTracker(q)
    \/ CleanBucket \/ RlTick

-----------------------------------------------------------------------------
\* However requests overlap with a cleanup or with another's successful login,
\* which drops the bucket others are about to take from, an address passes
\* within one interval at most twice the limit (the end of one filling and the
\* start of the next) and the requests that were under way.
PassesBounded ==
    \A t \in 0..rlClock :
        Cardinality({i \in DOMAIN grants : grants[i] \in t..t + RlInterval - 1})
            <= 2 * RlLimit + Cardinality(Logins) - 1

\* Failures are forgotten only when the address was really put in the set, or
\* when they are older than the window: a failed call leaves them, so that the
\* next failure blocks.
FailuresCount ==
    [][\A f \in fails : (rlClock - f.at <= RlWindow /\ ~inSet') => f \in fails']_rlVars

\* An administrator remains, sessions and keys that ended stay ended, and no
\* more attempts pass than the limits allow, nor is a failure forgotten.
AccessSound == [](AdminRemains /\ SessionKeepsUser /\ RevokedStays /\ PassesBounded) /\ FailuresCount
=============================================================================
