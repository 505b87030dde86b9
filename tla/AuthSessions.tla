---------------------------- MODULE AuthSessions ----------------------------
(***************************************************************************)
(* AuthService and DeviceApprovalService: sessions, the rotation of their  *)
(* refresh tokens, reuse, revocation and the approval of devices.  Every   *)
(* session belongs to one browser, whose tabs share the cookie: a request  *)
(* carries the cookie of the moment it was sent, and the answers to two    *)
(* requests may arrive in any order, or not at all.  A handler is one      *)
(* action for each call it awaits.                                         *)
(*                                                                         *)
(* The refresh tokens of a session are numbered in the order the database  *)
(* accepted them.  v1:auth:rt:<session> is written but decides nothing and *)
(* is left out, as are lastUsedAt and the security events.                 *)
(***************************************************************************)
EXTENDS TokenState, FiniteSets

CONSTANTS
    OwnerOf,    \* OwnerOf[s]: UserSession.userId
    Devices,    \* what user agent and fingerprint tell apart
    MaxWork     \* bound: rotations, bumps and requests of a session

ASSUME AuthAssumption ==
    /\ OwnerOf \in [Sessions -> Users]
    /\ Devices # {}
    /\ MaxWork \in Nat

VARIABLES
    session,    \* UserSession, with expiresAt and prevExpiresAt against now
    links,      \* UserToken rows of type DEVICE_APPROVAL, unused and not expired
    rotations,  \* history: the rotations the database accepted
    pending,    \* v1:auth:rt:pending:<session>:<old> and the token it holds
    rotlock,    \* v1:auth:rotlock:<session>:<old>; its value names nobody
    locked,     \* v1:auth:lock:user:<user>
    req,        \* the requests in the handlers
    jar         \* the cookie rt of each browser, 0 without one

redisVars == <<pending, rotlock, locked>>
authVars == <<tokenVars, session, links, rotations, redisVars, req, jar>>

Token == Nat
Rotation == [of : Sessions, old : Token, new : Token]
Link == [of : Sessions, device : Devices, at : Nat]
Session == [status : {"none", "live", "revoked"}, expired : BOOLEAN, approved : BOOLEAN,
            device : Devices, current : Token, prev : Token, grace : BOOLEAN]
Pc == {"idle", "read", "suspect", "bumpSv", "issue", "lock", "wait", "rotate", "publish",
       "lost", "unlock", "peek", "clear", "av", "sv", "answer", "revoke", "bumpAv", "lockUser",
       "revokeFound", "approve"}

(* old: the hash to rotate.  prev: the token was the previous one, within  *)
(* grace.  out: the token to answer with, 0 for none.                      *)
Request == [pc : Pc, of : Sessions \cup {"null"}, device : Devices \cup {"null"}, token : Token,
            old : Nat, prev : BOOLEAN, out : Token, found : SUBSET Sessions]
Free == [pc |-> "idle", of |-> "null", device |-> "null", token |-> 0, old |-> 0,
         prev |-> FALSE, out |-> 0, found |-> {}]

AuthInit ==
    /\ TokenInit
    /\ session = [s \in Sessions |-> [status |-> "none", expired |-> FALSE, approved |-> TRUE,
                     device |-> CHOOSE d \in Devices : TRUE, current |-> 0, prev |-> 0,
                     grace |-> FALSE]]
    /\ links = {}
    /\ rotations = {}
    /\ pending = {}
    /\ rotlock = {}
    /\ locked = {}
    /\ req = [w \in Callers |-> Free]
    /\ jar = [s \in Sessions |-> 0]

-----------------------------------------------------------------------------
(* Steps of a request.                                                     *)

Is(w, pc) == req[w].pc = pc

Go(w, pc) == req' = [req EXCEPT ![w].pc = pc]

Reject(w) == req' = [req EXCEPT ![w] = Free]

Of(w) == session[req[w].of]

Entry(s, old) == {p \in pending : p.of = s /\ p.old = old}

Work(s) == version[s] + Cardinality({r \in rotations : r.of = s})
             + Cardinality({w \in Callers : req[w].of = s})

-----------------------------------------------------------------------------
(* login and register: createSessionAndRefreshToken, then the access token *)
(* is signed.  The password and its failures are those of LoginLockout.    *)

Login(w, s, d) ==
    /\ Is(w, "idle")
    /\ session[s].status = "none"
    /\ OwnerOf[s] \notin locked
    /\ session' = [session EXCEPT ![s].status = "live", ![s].current = 1, ![s].device = d]
    /\ req' = [req EXCEPT ![w] = [Free EXCEPT !.pc = "av", !.of = s, !.out = 1]]
    /\ UNCHANGED <<tokenVars, links, rotations, redisVars, jar>>

-----------------------------------------------------------------------------
(* refresh.                                                                *)

Send(w, s, d) ==
    /\ Is(w, "idle")
    /\ jar[s] # 0
    /\ Work(s) < MaxWork
    /\ req' = [req EXCEPT ![w] = [Free EXCEPT !.pc = "read", !.of = s, !.device = d,
                                              !.token = jar[s]]]
    /\ UNCHANGED <<tokenVars, session, links, rotations, redisVars, jar>>

Refuses(w) == Of(w).status # "live" \/ Of(w).expired \/ ~Of(w).approved

(* The session is read and the request refused, by the row or by the rate  *)
(* limiter, or sent on its way.                                            *)
Refuse(w) ==
    /\ Is(w, "read")
    /\ Refuses(w) \/ req[w].token = Of(w).current
    /\ Reject(w)
    /\ UNCHANGED <<tokenVars, session, links, rotations, redisVars, jar>>

Read(w) ==
    /\ Is(w, "read")
    /\ ~Refuses(w)
    /\ req' = [req EXCEPT ![w] =
          IF @.device # Of(w).device THEN [@ EXCEPT !.pc = "suspect"]
          ELSE IF @.token = Of(w).current
               THEN [@ EXCEPT !.pc = "lock", !.old = Of(w).current]
          ELSE IF @.token = Of(w).prev /\ Of(w).grace
               THEN [@ EXCEPT !.pc = "peek", !.old = Of(w).current, !.prev = TRUE]
          ELSE [@ EXCEPT !.pc = "revoke"]]
    /\ UNCHANGED <<tokenVars, session, links, rotations, redisVars, jar>>

(* Another device: the session waits for an approval.                      *)
Suspect(w) ==
    /\ Is(w, "suspect")
    /\ session' = [session EXCEPT ![req[w].of].approved = FALSE]
    /\ Go(w, "bumpSv")
    /\ UNCHANGED <<tokenVars, links, rotations, redisVars, jar>>

BumpSession(w) ==
    /\ Is(w, "bumpSv")
    /\ \/ Bump(w, req[w].of) /\ UNCHANGED req
       \/ /\ SetVersion(w)
          /\ req' = [req EXCEPT ![w].pc = "issue", ![w].old = call[w].seen]
    /\ UNCHANGED <<session, links, rotations, redisVars, jar>>

(* DeviceApprovalService.issue, whose errors refresh swallows.             *)
Issue(w) ==
    /\ Is(w, "issue")
    /\ links' \in {links, links \cup {[of |-> req[w].of, device |-> req[w].device,
                                       at |-> req[w].old]}}
    /\ Reject(w)
    /\ UNCHANGED <<tokenVars, session, rotations, redisVars, jar>>

(* withRtRotateSingleflight, around rotateRefreshTokenCAS.                 *)
Lock(w) ==
    /\ Is(w, "lock")
    /\ IF <<req[w].of, req[w].old>> \in rotlock
       THEN Go(w, "wait") /\ UNCHANGED rotlock
       ELSE Go(w, "rotate") /\ rotlock' = rotlock \cup {<<req[w].of, req[w].old>>}
    /\ UNCHANGED <<tokenVars, session, links, rotations, pending, locked, jar>>

Then(w) == IF req[w].prev THEN "clear" ELSE "av"

Overhear(w) ==
    /\ Is(w, "wait")
    /\ \E p \in Entry(req[w].of, req[w].old) :
          req' = [req EXCEPT ![w].out = p.new, ![w].pc = Then(w)]
    /\ UNCHANGED <<tokenVars, session, links, rotations, redisVars, jar>>

GiveUpFault(w) ==
    /\ Is(w, "wait")
    /\ <<req[w].of, req[w].old>> \notin rotlock
    /\ Go(w, "lock")
    /\ UNCHANGED <<tokenVars, session, links, rotations, redisVars, jar>>

(* The deadline passes: the waiter rotates, and will delete the lock.      *)
GiveUp(w) ==
    /\ Is(w, "wait")
    /\ Go(w, "rotate")
    /\ UNCHANGED <<tokenVars, session, links, rotations, redisVars, jar>>

NewToken(s) == 2 + Cardinality({r \in rotations : r.of = s})

Rotated(s, old) ==
    /\ session' = [session EXCEPT ![s].prev = old, ![s].grace = TRUE,
                                  ![s].current = NewToken(s), ![s].expired = FALSE]
    /\ rotations' = rotations \cup {[of |-> s, old |-> old, new |-> NewToken(s)]}

MatchesFault(w) == Of(w).status = "live"

MatchesRevokedFault(w) == Of(w).current = req[w].old

(* The WHERE of the UPDATE: the hash that was read, on a live session.     *)
Matches(w) == Of(w).status = "live" /\ Of(w).current = req[w].old

Rotate(w) ==
    /\ Is(w, "rotate")
    /\ IF Matches(w)
       THEN /\ Rotated(req[w].of, req[w].old)
            /\ req' = [req EXCEPT ![w].pc = "publish", ![w].out = NewToken(req[w].of)]
       ELSE Go(w, "lost") /\ UNCHANGED <<session, rotations>>
    /\ UNCHANGED <<tokenVars, links, redisVars, jar>>

(* The map for the others, best effort.                                    *)
Publish(w) ==
    /\ Is(w, "publish")
    /\ pending' \in {pending, pending \cup {[of |-> req[w].of, old |-> req[w].old,
                                             new |-> req[w].out]}}
    /\ Go(w, "unlock")
    /\ UNCHANGED <<tokenVars, session, links, rotations, rotlock, locked, jar>>

LostTokenFault(w) ==
    /\ Is(w, "lost")
    /\ req' = [req EXCEPT ![w].pc = "unlock", ![w].out = MaxWork + 1]
    /\ UNCHANGED <<tokenVars, session, links, rotations, redisVars, jar>>

(* The UPDATE matched nothing: the winner's token, or a conflict.          *)
Lost(w) ==
    /\ Is(w, "lost")
    /\ req' = [req EXCEPT ![w].pc = "unlock", ![w].out =
                  IF Entry(req[w].of, req[w].old) = {} THEN 0
                  ELSE (CHOOSE p \in Entry(req[w].of, req[w].old) : TRUE).new]
    /\ UNCHANGED <<tokenVars, session, links, rotations, redisVars, jar>>

Unlock(w) ==
    /\ Is(w, "unlock")
    /\ rotlock' = rotlock \ {<<req[w].of, req[w].old>>}
    /\ IF req[w].out = 0 THEN Reject(w) ELSE Go(w, Then(w))
    /\ UNCHANGED <<tokenVars, session, links, rotations, pending, locked, jar>>

(* The previous token, within grace: the map first, else the current hash  *)
(* is rotated.                                                             *)
Peek(w) ==
    /\ Is(w, "peek")
    /\ LET entry == Entry(req[w].of, req[w].token)
       IN  req' = [req EXCEPT ![w] =
              IF entry = {} THEN [@ EXCEPT !.pc = "lock"]
              ELSE [@ EXCEPT !.pc = "clear", !.out = (CHOOSE p \in entry : TRUE).new]]
    /\ UNCHANGED <<tokenVars, session, links, rotations, redisVars, jar>>

Clear(w) ==
    /\ Is(w, "clear")
    /\ session' = [session EXCEPT ![req[w].of].prev = 0, ![req[w].of].grace = FALSE]
    /\ Go(w, "av")
    /\ UNCHANGED <<tokenVars, links, rotations, redisVars, jar>>

Gone(k) == k \in {s \in Sessions : session[s].status = "revoked"}

(* signAccessToken reads both versions.  A revoked session that is not     *)
(* cached throws.                                                          *)
Sign(w, pc, k, next) ==
    /\ Is(w, pc)
    /\ \/ At(w, "idle") /\ cache[k] # 0 /\ Go(w, next) /\ UNCHANGED tokenVars
       \/ Miss(w, k) /\ UNCHANGED req
       \/ ~Gone(k) /\ ReadVersion(w) /\ UNCHANGED req
       \/ Gone(k) /\ At(w, "read") /\ Done(w) /\ Reject(w) /\ UNCHANGED <<version, cache, torn>>
       \/ Fill(w) /\ Go(w, next)
    /\ UNCHANGED <<session, links, rotations, redisVars, jar>>

SignAccess(w) == Sign(w, "av", OwnerOf[req[w].of], "sv") \/ Sign(w, "sv", req[w].of, "answer")

(* The answer reaches the browser or is lost on the way.                   *)
Return(w) ==
    /\ Is(w, "answer")
    /\ jar' \in {jar, [jar EXCEPT ![req[w].of] = req[w].out]}
    /\ Reject(w)
    /\ UNCHANGED <<tokenVars, session, links, rotations, redisVars>>

-----------------------------------------------------------------------------
(* Revocation.                                                             *)

Revoked(gone) ==
    session' = [s \in Sessions |->
        IF s \in gone /\ session[s].status = "live"
        THEN [session[s] EXCEPT !.status = "revoked"] ELSE session[s]]

(* reusePenalty, for a token that is neither current nor in grace.         *)
Penalty(w) ==
    \/ /\ Is(w, "revoke")
       /\ Revoked({req[w].of})
       /\ Go(w, "bumpAv")
       /\ UNCHANGED <<tokenVars, links, rotations, redisVars, jar>>
    \/ /\ Is(w, "bumpAv")
       /\ \/ Bump(w, OwnerOf[req[w].of]) /\ UNCHANGED req
          \/ SetVersion(w) /\ Go(w, "lockUser")
       /\ UNCHANGED <<session, links, rotations, redisVars, jar>>
    \/ /\ Is(w, "lockUser")
       /\ locked' = locked \cup {OwnerOf[req[w].of]}
       /\ Reject(w)
       /\ UNCHANGED <<tokenVars, session, links, rotations, pending, rotlock, jar>>

(* logout: whatever token the cookie holds.                                *)
Logout(s) ==
    /\ jar[s] # 0
    /\ Revoked({s})
    /\ jar' \in {jar, [jar EXCEPT ![s] = 0]}
    /\ UNCHANGED <<tokenVars, links, rotations, redisVars, req>>

(* logout-all and logout-others read user.sub, which the strategy does not *)
(* set: the query is by no user, so it finds the sessions of all of them,  *)
(* and the bump after it is refused for want of a user.                    *)
FindSessions(w, keep) ==
    /\ Is(w, "idle")
    /\ req' = [req EXCEPT ![w] = [Free EXCEPT !.pc = "revokeFound",
                  !.found = {s \in Sessions \ keep : session[s].status = "live"}]]
    /\ UNCHANGED <<tokenVars, session, links, rotations, redisVars, jar>>

RevokeFound(w) ==
    /\ Is(w, "revokeFound")
    /\ Revoked(req[w].found)
    /\ Reject(w)
    /\ UNCHANGED <<tokenVars, links, rotations, redisVars, jar>>

-----------------------------------------------------------------------------
(* DeviceApprovalService.approve.                                          *)

OpenLink(w, link) ==
    /\ Is(w, "idle")
    /\ req' = [req EXCEPT ![w] = [Free EXCEPT !.pc = "approve", !.of = link.of,
                                  !.device = link.device, !.old = link.at]]
    /\ UNCHANGED <<tokenVars, session, links, rotations, redisVars, jar>>

Approvable(w) == Of(w).status = "live" /\ ~Of(w).expired

Approve(w) ==
    /\ Is(w, "approve")
    /\ IF Approvable(w)
       THEN /\ session' = [session EXCEPT ![req[w].of].approved = TRUE,
                                        ![req[w].of].device = req[w].device]
            /\ links' = links \ {[of |-> req[w].of, device |-> req[w].device, at |-> req[w].old]}
       ELSE UNCHANGED <<session, links>>
    /\ Reject(w)
    /\ UNCHANGED <<tokenVars, rotations, redisVars, jar>>

-----------------------------------------------------------------------------
(* The clock.  An entry of the map outlives the grace period of its token. *)

GraceEnds(s) ==
    /\ session[s].grace
    /\ session' = [session EXCEPT ![s].grace = FALSE]
    /\ UNCHANGED <<tokenVars, links, rotations, redisVars, req, jar>>

SessionExpires(s) ==
    /\ session[s].status = "live" /\ ~session[s].expired
    /\ session' = [session EXCEPT ![s].expired = TRUE, ![s].grace = FALSE]
    /\ UNCHANGED <<tokenVars, links, rotations, redisVars, req, jar>>

KeyExpires ==
    /\ \/ /\ \E p \in pending : /\ ~(session[p.of].prev = p.old /\ session[p.of].grace)
                                /\ pending' = pending \ {p}
          /\ UNCHANGED <<rotlock, locked>>
       \/ \E l \in rotlock : rotlock' = rotlock \ {l} /\ UNCHANGED <<pending, locked>>
       \/ \E u \in locked : locked' = locked \ {u} /\ UNCHANGED <<pending, rotlock>>
    /\ UNCHANGED <<tokenVars, session, links, rotations, req, jar>>

LinkExpires(link) ==
    /\ links' = links \ {link}
    /\ UNCHANGED <<tokenVars, session, rotations, redisVars, req, jar>>

-----------------------------------------------------------------------------

Refresh(w) ==
    \/ Refuse(w) \/ Read(w) \/ Suspect(w) \/ BumpSession(w) \/ Issue(w)
    \/ Lock(w) \/ Overhear(w) \/ GiveUp(w) \/ Rotate(w) \/ Publish(w) \/ Lost(w) \/ Unlock(w)
    \/ Peek(w) \/ Clear(w) \/ SignAccess(w) \/ Return(w) \/ Penalty(w)
    \/ RevokeFound(w) \/ Approve(w)

Arrive(w) ==
    \/ \E s \in Sessions, d \in Devices : Login(w, s, d) \/ Send(w, s, d)
    \/ \E keep \in {{}} \cup {{s} : s \in Sessions} : FindSessions(w, keep)
    \/ \E link \in links : OpenLink(w, link)

(* The process of a request ends between two of its calls.                 *)
Crash(w) ==
    /\ ~Is(w, "idle")
    /\ Reject(w)
    /\ IF At(w, "idle") THEN UNCHANGED tokenVars ELSE Abandon(w)
    /\ UNCHANGED <<session, links, rotations, redisVars, jar>>

Clock ==
    \/ \E s \in Sessions : GraceEnds(s) \/ SessionExpires(s)
    \/ KeyExpires
    \/ \E link \in links : LinkExpires(link)

AuthNext ==
    \/ \E w \in Callers : Arrive(w) \/ Refresh(w) \/ Crash(w)
    \/ \E s \in Sessions : Logout(s)
    \/ Clock

AuthSpec == AuthInit /\ [][AuthNext]_authVars

(* A handler that runs takes its next step; its calls return or time out.  *)
AuthFairness == \A w \in Callers : WF_authVars(Refresh(w))

AuthLiveSpec == AuthSpec /\ AuthFairness

-----------------------------------------------------------------------------

AuthTypeOK ==
    /\ TokenTypeOK
    /\ session \in [Sessions -> Session]
    /\ links \subseteq Link
    /\ rotations \subseteq Rotation
    /\ pending \subseteq Rotation
    /\ rotlock \subseteq Sessions \X Token
    /\ locked \subseteq Users
    /\ jar \in [Sessions -> Token]
    /\ req \in [Callers -> Request]

Follows(s, old, new) == [of |-> s, old |-> old, new |-> new] \in rotations

(* A token is rotated once, whatever becomes of the lock in Redis: expired *)
(* under its holder, deleted by a waiter that gave up, lost in a crash.    *)
(* A refresh is answered with the successor of the token it presented, or, *)
(* when it was the previous one, with the successor's: a session never     *)
(* splits into two that are both alive.                                    *)
AnswersFollowTheChain ==
    /\ \A r, q \in rotations : r.of = q.of /\ r.old = q.old => r = q
    /\ \A w \in Callers : Is(w, "answer") /\ req[w].token # 0 =>
          \/ Follows(req[w].of, req[w].token, req[w].out)
          \/ \E r \in rotations : /\ r.of = req[w].of /\ r.old = req[w].token
                                  /\ Follows(r.of, r.new, req[w].out)

(* Once a session is revoked, by a logout, a logout-all or the penalty for *)
(* reuse, no refresh that read it before and no approval link brings it    *)
(* back or rotates its token (doc/auth_module.md:241).                     *)
RevokedIsFinal ==
    [][\A s \in Sessions : session[s].status = "revoked" =>
          /\ session'[s].status = "revoked"
          /\ session'[s].current = session[s].current]_authVars

(* Every request is answered or refused, also the one that waits for a     *)
(* holder of the rotation lock that died or lost the race.                 *)
EveryRequestEnds == \A w \in Callers : ~Is(w, "idle") ~> Is(w, "idle")

-----------------------------------------------------------------------------
(* What the documentation says of the code and the code does not do.       *)

(* doc/auth_module.md:168, "find every session of the user": a logout-all  *)
(* revokes the sessions of one user.                                       *)
LogoutAllIsOwn ==
    \A w \in Callers : \A s, t \in req[w].found : OwnerOf[s] = OwnerOf[t]
=============================================================================
