-------------------------- MODULE AuthSessionsProofs --------------------------
(***************************************************************************)
(* Proofs about the versions of TokenState and the sessions of             *)
(* AuthSessions, for any number of users, sessions, tabs and requests.     *)
(*                                                                         *)
(* The versions: what a call has read, or is to set, is the row's, or the  *)
(* key is torn.  The sessions run the same steps, so they inherit it.      *)
(*                                                                         *)
(* The tokens: the rotations of a session form one chain that ends in its  *)
(* current token, and every handler stands on the chain: what it read, is  *)
(* to publish or to answer with are links of it.  The lock in Redis plays  *)
(* no part in the argument; the WHERE of the UPDATE does.                  *)
(***************************************************************************)
EXTENDS AuthSessions, FiniteSetTheorems, TLAPS

-----------------------------------------------------------------------------
(* What a call has read, or is to set, is the row's version, or the key is *)
(* torn: with it CurrentUnlessTorn is inductive.                           *)
SeenUnlessTorn ==
    \A c \in Callers :
        call[c].at \in {"fill", "set"} =>
            call[c].seen = version[call[c].key] \/ torn[call[c].key]

TokenInv == TokenTypeOK /\ CurrentUnlessTorn /\ SeenUnlessTorn /\ NeverAhead

LEMMA CallAway ==
    ASSUME TokenTypeOK, NEW c \in Callers
    PROVE  IF At(c, "idle") THEN call[c] = NoCall
           ELSE /\ call[c] \in [at : {"read", "fill", "set"}, key : Subjects, seen : 0..MaxVersion]
                /\ call[c].key \in Subjects
                /\ call[c].seen \in 0..MaxVersion
BY DEF TokenTypeOK, Call, At, NoCall

LEMMA TokenInitInv == TokenInit => TokenInv
BY TokenStateAssumption
DEF TokenInit, TokenInv, TokenTypeOK, CurrentUnlessTorn, SeenUnlessTorn, NeverAhead, NoCall, Call

LEMMA TokenStepInv == TokenInv /\ [TokenNext]_tokenVars => TokenInv'
<1> SUFFICES ASSUME TokenInv, [TokenNext]_tokenVars PROVE TokenInv'
    OBVIOUS
<1> USE TokenStateAssumption
<1>1. ASSUME NEW c \in Callers, NEW k \in Subjects, Miss(c, k) PROVE TokenInv'
    BY <1>1, CallAway
    DEF TokenInv, TokenTypeOK, CurrentUnlessTorn, SeenUnlessTorn, NeverAhead, Miss, Turn, At, Call
<1>2. ASSUME NEW c \in Callers, NEW k \in Subjects, Bump(c, k) PROVE TokenInv'
    <2>1. /\ call[c] = NoCall /\ call[c].at = "idle" /\ version[k] \in 1..MaxVersion
          /\ version[k] + 1 \in 1..MaxVersion
        BY <1>2, CallAway DEF TokenInv, TokenTypeOK, Bump, At, NoCall
    <2>2. /\ version' = [version EXCEPT ![k] = version[k] + 1]
          /\ torn' = [torn EXCEPT ![k] = torn[k] \/ Pending(c, k)]
          /\ call' = [call EXCEPT ![c] = [at |-> "set", key |-> k, seen |-> version[k] + 1]]
          /\ cache' = cache
        BY <1>2 DEF Bump, Turn
    <2>3. \A d \in Callers \ {c} : call'[d] = call[d]
        BY <2>2 DEF TokenInv, TokenTypeOK
    <2>4. call'[c] = [at |-> "set", key |-> k, seen |-> version[k] + 1]
        BY <2>2 DEF TokenInv, TokenTypeOK
    <2>5. TokenTypeOK'
        <3>1. (torn[k] \/ Pending(c, k)) \in BOOLEAN
            BY DEF TokenInv, TokenTypeOK, Pending
        <3>2. torn' \in [Subjects -> BOOLEAN]
            BY <2>2, <3>1, Zenon DEF TokenInv, TokenTypeOK
        <3>3. version' \in [Subjects -> 1..MaxVersion] /\ cache' \in [Subjects -> 0..MaxVersion]
            BY <2>1, <2>2 DEF TokenInv, TokenTypeOK
        <3>4. [at |-> "set", key |-> k, seen |-> version[k] + 1] \in Call
            BY <2>1 DEF Call
        <3>5. call' \in [Callers -> Call]
            BY <2>2, <3>4 DEF TokenInv, TokenTypeOK
        <3>6. QED
            BY <3>2, <3>3, <3>5 DEF TokenTypeOK
    <2>6. CurrentUnlessTorn'
        <3> SUFFICES ASSUME NEW j \in Subjects
                     PROVE  \/ cache'[j] \in {0, version'[j]} \/ torn'[j]
                            \/ \E d \in Callers : call'[d].at = "set" /\ call'[d].key = j
            BY DEF CurrentUnlessTorn, At
        <3>1. CASE j = k
            BY <3>1, <2>4
        <3>2. CASE j # k
            <4>1. version'[j] = version[j] /\ torn'[j] = torn[j] /\ cache'[j] = cache[j]
                BY <3>2, <2>2 DEF TokenInv, TokenTypeOK
            <4>2. ASSUME NEW d \in Callers, call[d].at = "set", call[d].key = j
                  PROVE  call'[d].at = "set" /\ call'[d].key = j
                BY <4>2, <2>1, <2>3
            <4>3. QED
                BY <4>1, <4>2 DEF TokenInv, CurrentUnlessTorn, At
        <3>3. QED
            BY <3>1, <3>2
    <2>7. SeenUnlessTorn'
        <3> SUFFICES ASSUME NEW d \in Callers, call'[d].at \in {"fill", "set"}
                     PROVE  call'[d].seen = version'[call'[d].key] \/ torn'[call'[d].key]
            BY DEF SeenUnlessTorn
        <3>1. CASE d = c
            BY <3>1, <2>2, <2>4 DEF TokenInv, TokenTypeOK
        <3>2. CASE d # c
            <4>1. call'[d] = call[d] /\ call[d].key \in Subjects
                BY <3>2, <2>3, CallAway DEF TokenInv, At
            <4>2. CASE call[d].key = k
                <5>1. Pending(c, k)
                    BY <3>2, <4>1, <4>2 DEF Pending
                <5>2. torn'[k]
                    BY <2>2, <5>1, Zenon DEF TokenInv, TokenTypeOK
                <5>3. QED
                    BY <4>1, <4>2, <5>2
            <4>3. CASE call[d].key # k
                <5>1. version'[call[d].key] = version[call[d].key] /\ torn'[call[d].key] = torn[call[d].key]
                    BY <4>1, <4>3, <2>2 DEF TokenInv, TokenTypeOK
                <5>2. QED
                    BY <4>1, <5>1 DEF TokenInv, SeenUnlessTorn
            <4>4. QED
                BY <4>2, <4>3
        <3>3. QED
            BY <3>1, <3>2
    <2>8. NeverAhead'
        <3>1. \A j \in Subjects : version[j] \in Nat /\ version'[j] \in Nat /\ version[j] <= version'[j]
            BY <2>1, <2>2 DEF TokenInv, TokenTypeOK
        <3>2. \A j \in Subjects : cache[j] \in Nat /\ cache'[j] <= version'[j]
            BY <3>1, <2>2 DEF TokenInv, TokenTypeOK, NeverAhead
        <3>3. ASSUME NEW d \in Callers
              PROVE  call'[d].seen = 0 \/ call'[d].seen <= version'[call'[d].key]
            <4>1. CASE d = c
                BY <4>1, <2>1, <2>2, <2>4 DEF TokenInv, TokenTypeOK
            <4>2. CASE d # c /\ call[d].at = "idle"
                BY <4>2, <2>3, CallAway DEF TokenInv, At, NoCall
            <4>3. CASE d # c /\ call[d].at # "idle"
                <5>1. call[d].key \in Subjects /\ call[d].seen \in 0..MaxVersion
                    BY <4>3, CallAway DEF TokenInv, At
                <5>2. call[d].seen = 0 \/ call[d].seen <= version[call[d].key]
                    BY DEF TokenInv, NeverAhead
                <5>3. QED
                    BY <4>3, <5>1, <5>2, <3>1, <2>3
            <4>4. QED
                BY <4>1, <4>2, <4>3
        <3>4. QED
            BY <3>2, <3>3 DEF NeverAhead
    <2>9. QED
        BY <2>5, <2>6, <2>7, <2>8 DEF TokenInv
<1>3. ASSUME NEW c \in Callers, ReadVersion(c) PROVE TokenInv'
    BY <1>3, CallAway
    DEF TokenInv, TokenTypeOK, CurrentUnlessTorn, SeenUnlessTorn, NeverAhead, ReadVersion,
        Turn, At, Call
<1>4. ASSUME NEW c \in Callers, Fill(c) PROVE TokenInv'
    BY <1>4, CallAway
    DEF TokenInv, TokenTypeOK, CurrentUnlessTorn, SeenUnlessTorn, NeverAhead, Fill, Done, At,
        Call, NoCall
<1>5. ASSUME NEW c \in Callers, SetVersion(c) PROVE TokenInv'
    BY <1>5, CallAway
    DEF TokenInv, TokenTypeOK, CurrentUnlessTorn, SeenUnlessTorn, NeverAhead, SetVersion, Done,
        At, Call, NoCall
<1>6. ASSUME NEW c \in Callers, Abandon(c) PROVE TokenInv'
    BY ZenonT(60), <1>6, CallAway
    DEF TokenInv, TokenTypeOK, CurrentUnlessTorn, SeenUnlessTorn, NeverAhead, Abandon, Done, At,
        Call, NoCall
<1>7. ASSUME NEW k \in Subjects, Forget(k) PROVE TokenInv'
    BY <1>7 DEF TokenInv, TokenTypeOK, CurrentUnlessTorn, SeenUnlessTorn, NeverAhead, Forget, At
<1>8. CASE UNCHANGED tokenVars
    BY <1>8 DEF TokenInv, TokenTypeOK, CurrentUnlessTorn, SeenUnlessTorn, NeverAhead, tokenVars, At
<1>9. QED
    BY <1>1, <1>2, <1>3, <1>4, <1>5, <1>6, <1>7, <1>8 DEF TokenNext

(* The versions, the cached ones and the calls stay in their sets.         *)
THEOREM TokenTyped == TokenSpec => []TokenTypeOK
<1>1. TokenInv => TokenTypeOK
    BY DEF TokenInv
<1>2. QED
    BY <1>1, TokenInitInv, TokenStepInv, PTL DEF TokenSpec

(* For any number of users, sessions and requests: only a key that was     *)
(* torn, or waits for its bump, differs from the row.                      *)
THEOREM VersionsCurrent == TokenSpec => []CurrentUnlessTorn
<1>1. TokenInv => CurrentUnlessTorn
    BY DEF TokenInv
<1>2. QED
    BY <1>1, TokenInitInv, TokenStepInv, PTL DEF TokenSpec

(* No cached version is ahead of the row.                                  *)
THEOREM VersionsNeverAhead == TokenSpec => []NeverAhead
<1>1. TokenInv => NeverAhead
    BY DEF TokenInv
<1>2. QED
    BY <1>1, TokenInitInv, TokenStepInv, PTL DEF TokenSpec

-----------------------------------------------------------------------------
(* The sessions run TokenState's steps.                                    *)

Live == {"read", "suspect", "bumpSv", "issue", "lock", "wait", "rotate", "publish", "lost",
         "unlock", "peek", "clear", "av", "sv", "answer", "revoke", "bumpAv", "lockUser", "approve"}

(* A handler past its first step knows its session, and the device it was  *)
(* sent from where it uses one.                                            *)
Addressed(r) ==
    /\ r.pc \in Live => r.of \in Sessions
    /\ r.pc \in {"read", "suspect", "bumpSv", "issue", "approve"} => r.device \in Devices

(* The answer is the successor of the token presented, or the successor's. *)
Succeeds(r) ==
    \/ Follows(r.of, r.token, r.out)
    \/ \E q \in rotations : q.of = r.of /\ q.old = r.token /\ Follows(r.of, q.new, r.out)

(* What a handler holds are links of the chain.                            *)
OnChain(r) ==
    /\ r.pc = "read" => r.token # 0 /\ ~r.prev
    /\ r.pc \in {"lock", "wait", "rotate", "publish", "lost", "unlock"} =>
          /\ r.token # 0
          /\ IF r.prev THEN Follows(r.of, r.token, r.old) ELSE r.old = r.token
    /\ r.pc = "peek" => r.prev /\ r.token # 0 /\ Follows(r.of, r.token, r.old)
    /\ r.pc = "publish" => Follows(r.of, r.old, r.out)
    /\ r.pc = "unlock" => r.out = 0 \/ Follows(r.of, r.old, r.out)
    /\ r.pc \in {"clear", "av", "sv", "answer"} /\ r.token # 0 => Succeeds(r)

RotationsOf(s) == {r \in rotations : r.of = s}

(* The rotations of a session lead, one by one, to its current token.      *)
Chain ==
    /\ IsFiniteSet(rotations)
    /\ \A r \in rotations : r.old < r.new /\ r.new <= session[r.of].current
    /\ \A r, q \in rotations : r.of = q.of /\ r.old = q.old => r = q
    /\ \A s \in Sessions : session[s].current = IF session[s].status = "none" THEN 0
                                                ELSE 1 + Cardinality(RotationsOf(s))
    /\ \A s \in Sessions : session[s].prev # 0 => Follows(s, session[s].prev, session[s].current)
    /\ pending \subseteq rotations

HandlersInv == \A w \in Callers : Addressed(req[w]) /\ OnChain(req[w])

SessionInv == AuthTypeOK /\ Chain /\ HandlersInv

AuthInv == TokenInv /\ SessionInv

LEMMA FreeInv == Free \in Request /\ Addressed(Free) /\ OnChain(Free)
BY DEF Free, Request, Addressed, OnChain, Live, Pc, Token

LEMMA AuthInitInv == AuthInit => AuthInv
<1> SUFFICES ASSUME AuthInit PROVE AuthInv
    OBVIOUS
<1>1. TokenInv
    BY TokenInitInv DEF AuthInit
<1>2. (CHOOSE d \in Devices : TRUE) \in Devices
    BY AuthAssumption
<1>3. AuthTypeOK
    BY <1>1, <1>2, FreeInv DEF AuthInit, AuthTypeOK, TokenInv, Session, Token
<1>4. Chain
    BY FS_EmptySet DEF AuthInit, Chain
<1>5. HandlersInv
    BY FreeInv DEF AuthInit, HandlersInv
<1>6. QED
    BY <1>1, <1>3, <1>4, <1>5 DEF AuthInv, SessionInv

(* One handler moves, and no rotation is undone: the others stay on the    *)
(* chain.                                                                  *)
LEMMA HandlerMoves ==
    ASSUME AuthTypeOK, HandlersInv, NEW w \in Callers, NEW r \in Request,
           req' = [req EXCEPT ![w] = r], rotations \subseteq rotations',
           Addressed(r), OnChain(r)'
    PROVE  HandlersInv' /\ req' \in [Callers -> Request]
<1>1. \A v \in Callers : req'[v] = IF v = w THEN r ELSE req[v]
    BY DEF AuthTypeOK
<1>2. \A s, old, new : Follows(s, old, new) => Follows(s, old, new)'
    BY DEF Follows
<1>3. ASSUME NEW q, OnChain(q) PROVE OnChain(q)'
    <2>1. Succeeds(q) => Succeeds(q)'
        BY <1>2 DEF Succeeds
    <2>2. QED
        BY <1>2, <1>3, <2>1 DEF OnChain
<1>4. ASSUME NEW v \in Callers PROVE (Addressed(req[v]) /\ OnChain(req[v]))'
    <2>1. CASE v = w
        BY <1>1, <2>1 DEF Addressed, OnChain, Succeeds
    <2>2. CASE v # w
        <3>1. PICK q : q = req[v] /\ Addressed(q) /\ OnChain(q)
            BY DEF HandlersInv
        <3>2. req'[v] = q /\ OnChain(q)'
            BY <1>1, <1>3, <2>2, <3>1
        <3>3. QED
            BY <3>1, <3>2 DEF Addressed, OnChain, Succeeds
    <2>3. QED
        BY <2>1, <2>2
<1>5. req' \in [Callers -> Request]
    BY DEF AuthTypeOK
<1>6. QED
    BY <1>4, <1>5 DEF HandlersInv

LEMMA HandlersStay ==
    ASSUME HandlersInv, req' = req, rotations' = rotations
    PROVE  HandlersInv'
BY DEF HandlersInv, Addressed, OnChain, Succeeds, Follows

(* A step that rotates nothing keeps the chain, if it keeps current        *)
(* tokens, and forgets or keeps previous ones.                             *)
LEMMA ChainStays ==
    ASSUME AuthTypeOK, Chain, rotations' = rotations, pending' \subseteq pending,
           \A s \in Sessions : /\ session'[s].current = session[s].current
                               /\ session'[s].status = "none" <=> session[s].status = "none"
                               /\ session'[s].prev \in {session[s].prev, 0}
    PROVE  Chain'
<1>1. \A s \in Sessions : RotationsOf(s)' = RotationsOf(s)
    BY DEF RotationsOf
<1>2. \A r \in rotations : r.of \in Sessions
    BY DEF AuthTypeOK, Rotation
<1>3. /\ IsFiniteSet(rotations')
      /\ \A r \in rotations' : r.old < r.new /\ r.new <= session'[r.of].current
      /\ \A r, q \in rotations' : r.of = q.of /\ r.old = q.old => r = q
      /\ pending' \subseteq rotations'
    BY <1>2 DEF Chain
<1>4. ASSUME NEW s \in Sessions
      PROVE  session'[s].current = IF session'[s].status = "none" THEN 0
                                   ELSE 1 + Cardinality(RotationsOf(s)')
    BY <1>1 DEF Chain
<1>5. ASSUME NEW s \in Sessions, session'[s].prev # 0
      PROVE  Follows(s, session'[s].prev, session'[s].current)
    BY <1>5 DEF Chain
<1>6. QED
    BY <1>3, <1>4, <1>5 DEF Chain, Follows

(* A step of one handler that writes to no table and no key but versions.  *)
LEMMA QuietMove ==
    ASSUME SessionInv, TokenTypeOK', NEW w \in Callers, NEW r \in Request,
           req' = [req EXCEPT ![w] = r], UNCHANGED <<session, links, rotations, redisVars, jar>>,
           Addressed(r), OnChain(r)
    PROVE  SessionInv'
<1>1. OnChain(r)'
    BY DEF OnChain, Succeeds, Follows
<1>2. HandlersInv' /\ req' \in [Callers -> Request]
    BY <1>1, HandlerMoves DEF SessionInv
<1>3. Chain'
    BY ChainStays DEF SessionInv, redisVars
<1>4. AuthTypeOK'
    BY <1>2 DEF SessionInv, AuthTypeOK, redisVars
<1>5. QED
    BY <1>2, <1>3, <1>4 DEF SessionInv

(* What a handler holds, by its place.                                     *)
LEMMA Held ==
    ASSUME SessionInv, NEW w \in Callers
    PROVE  /\ req[w] \in Request /\ Addressed(req[w]) /\ OnChain(req[w])
           /\ req[w].pc \in Live => req[w].of \in Sessions /\ Of(w) \in Session
           /\ req[w] = [pc |-> req[w].pc, of |-> req[w].of, device |-> req[w].device,
                        token |-> req[w].token, old |-> req[w].old, prev |-> req[w].prev,
                        out |-> req[w].out, found |-> req[w].found]
<1>1. req[w] \in Request /\ Addressed(req[w]) /\ OnChain(req[w])
    BY DEF SessionInv, AuthTypeOK, HandlersInv
<1>2. req[w].pc \in Live => req[w].of \in Sessions /\ Of(w) \in Session
    BY <1>1 DEF SessionInv, AuthTypeOK, Addressed, Of
<1>3. QED
    BY <1>1, <1>2 DEF Request

(* What a step may do to the rows and keys without rotating a token.       *)
Harmless ==
    /\ TokenTypeOK'
    /\ session' \in [Sessions -> Session]
    /\ links' \subseteq Link
    /\ rotlock' \subseteq Sessions \X Token
    /\ locked' \subseteq Users
    /\ jar' \in [Sessions -> Token]
    /\ rotations' = rotations /\ pending' \subseteq pending
    /\ \A s \in Sessions : /\ session'[s].current = session[s].current
                           /\ session'[s].status = "none" <=> session[s].status = "none"
                           /\ session'[s].prev \in {session[s].prev, 0}

LEMMA HarmlessKeeps ==
    ASSUME SessionInv, Harmless
    PROVE  /\ Chain'
           /\ req' \in [Callers -> Request] => AuthTypeOK'
<1>1. Chain'
    BY ChainStays DEF SessionInv, Harmless
<1>2. req' \in [Callers -> Request] => AuthTypeOK'
    BY DEF Harmless, SessionInv, AuthTypeOK
<1>3. QED
    BY <1>1, <1>2

LEMMA HarmlessMove ==
    ASSUME SessionInv, Harmless, NEW w \in Callers, NEW r \in Request,
           req' = [req EXCEPT ![w] = r], Addressed(r), OnChain(r)
    PROVE  SessionInv'
<1>1. OnChain(r)'
    BY DEF Harmless, OnChain, Succeeds, Follows
<1>2. HandlersInv' /\ req' \in [Callers -> Request]
    BY <1>1, HandlerMoves DEF SessionInv, Harmless
<1>3. QED
    BY <1>2, HarmlessKeeps DEF SessionInv

LEMMA HarmlessStill ==
    ASSUME SessionInv, Harmless, req' = req
    PROVE  SessionInv'
<1>1. HandlersInv'
    BY HandlersStay DEF SessionInv, Harmless
<1>2. QED
    BY <1>1, HarmlessKeeps DEF SessionInv, AuthTypeOK

LEMMA TablesKept ==
    ASSUME SessionInv, TokenTypeOK', UNCHANGED <<session, links, rotations, redisVars, jar>>
    PROVE  Harmless
BY DEF SessionInv, AuthTypeOK, Harmless, redisVars

-----------------------------------------------------------------------------
(* The steps, one lemma for each that needs an argument.                   *)

LEMMA ArriveKeeps ==
    ASSUME SessionInv, TokenTypeOK', NEW w \in Callers, Arrive(w)
    PROVE  SessionInv'
<1>1. ASSUME NEW s \in Sessions, NEW d \in Devices, Login(w, s, d) PROVE SessionInv'
    <2>1. PICK r : r = [Free EXCEPT !.pc = "av", !.of = s, !.out = 1]
        OBVIOUS
    <2>2. /\ r \in Request /\ Addressed(r) /\ OnChain(r)'
          /\ req' = [req EXCEPT ![w] = r]
        BY <1>1, <2>1 DEF Login, Free, Request, Pc, Token, Addressed, Live, OnChain
    <2>3. /\ session[s] \in Session /\ session[s].status = "none"
          /\ session'[s] \in Session /\ session'[s].status = "live" /\ session'[s].current = 1
          /\ session'[s].prev = session[s].prev
          /\ \A t \in Sessions : t # s => session'[t] = session[t]
          /\ session' \in [Sessions -> Session]
          /\ session[s].current = 0
        BY <1>1 DEF Login, SessionInv, AuthTypeOK, Chain, Session, Token
    <2>4. RotationsOf(s) = {}
        BY <2>3 DEF SessionInv, AuthTypeOK, Chain, RotationsOf, Rotation, Token
    <2>5. \A t \in Sessions : RotationsOf(t)' = RotationsOf(t)
        BY <1>1 DEF Login, RotationsOf
    <2>6. Chain'
        <3>1. /\ IsFiniteSet(rotations')
              /\ \A p, q \in rotations' : p.of = q.of /\ p.old = q.old => p = q
              /\ pending' \subseteq rotations'
            BY <1>1 DEF Login, redisVars, SessionInv, Chain
        <3>2. \A q \in rotations' : q.old < q.new /\ q.new <= session'[q.of].current
            <4>1. \A q \in rotations : q.of \in Sessions /\ q.of # s
                BY <2>4 DEF RotationsOf, SessionInv, AuthTypeOK, Rotation
            <4>2. QED
                BY <1>1, <2>3, <4>1 DEF Login, SessionInv, Chain
        <3>3. ASSUME NEW t \in Sessions
              PROVE  session'[t].current = IF session'[t].status = "none" THEN 0
                                           ELSE 1 + Cardinality(RotationsOf(t)')
            <4>1. CASE t = s
                BY <4>1, <2>3, <2>4, <2>5, FS_EmptySet
            <4>2. CASE t # s
                BY <4>2, <2>3, <2>5 DEF SessionInv, Chain
            <4>3. QED
                BY <4>1, <4>2
        <3>4. ASSUME NEW t \in Sessions, session'[t].prev # 0
              PROVE  Follows(t, session[t].prev, session[t].current)'
            <4>1. CASE t = s
                <5>1. Follows(s, session[s].prev, session[s].current)
                    BY <4>1, <2>3, <3>4 DEF SessionInv, Chain
                <5>2. QED
                    BY <5>1, <2>4 DEF RotationsOf, Follows
            <4>2. CASE t # s
                BY <1>1, <4>2, <2>3, <3>4 DEF Login, SessionInv, Chain, Follows
            <4>3. QED
                BY <4>1, <4>2
        <3>5. QED
            BY <3>1, <3>2, <3>3, <3>4 DEF Chain
    <2>7. HandlersInv' /\ req' \in [Callers -> Request]
        BY <1>1, <2>2, HandlerMoves DEF Login, SessionInv
    <2>8. AuthTypeOK'
        BY <1>1, <2>3, <2>7 DEF Login, SessionInv, AuthTypeOK, redisVars
    <2>9. QED
        BY <2>6, <2>7, <2>8 DEF SessionInv
<1>2. ASSUME NEW s \in Sessions, NEW d \in Devices, Send(w, s, d) PROVE SessionInv'
    <2>1. PICK r : r = [Free EXCEPT !.pc = "read", !.of = s, !.device = d, !.token = jar[s]]
        OBVIOUS
    <2>2. r \in Request /\ Addressed(r) /\ OnChain(r)
        BY <1>2, <2>1 DEF Send, SessionInv, AuthTypeOK, Free, Request, Pc, Token, Addressed, Live, OnChain
    <2>3. QED
        BY <1>2, <2>1, <2>2, TablesKept, HarmlessMove DEF Send
<1>3. ASSUME NEW keep, FindSessions(w, keep) PROVE SessionInv'
    <2>1. PICK r : r = [Free EXCEPT !.pc = "revokeFound",
                           !.found = {s \in Sessions \ keep : session[s].status = "live"}]
        OBVIOUS
    <2>2. r \in Request /\ Addressed(r) /\ OnChain(r)
        BY <2>1 DEF Free, Request, Pc, Token, Addressed, Live, OnChain
    <2>3. QED
        BY <1>3, <2>1, <2>2, TablesKept, HarmlessMove DEF FindSessions
<1>4. ASSUME NEW link \in links, OpenLink(w, link) PROVE SessionInv'
    <2>1. PICK r : r = [Free EXCEPT !.pc = "approve", !.of = link.of, !.device = link.device,
                                    !.old = link.at]
        OBVIOUS
    <2>2. link \in Link
        BY DEF SessionInv, AuthTypeOK
    <2>3. r \in Request /\ Addressed(r) /\ OnChain(r)
        BY <2>1, <2>2 DEF Link, Free, Request, Pc, Token, Addressed, Live, OnChain
    <2>4. QED
        BY <1>4, <2>1, <2>3, TablesKept, HarmlessMove DEF OpenLink
<1>5. QED
    BY <1>1, <1>2, <1>3, <1>4 DEF Arrive

LEMMA RejectKeeps ==
    ASSUME SessionInv, Harmless, NEW w \in Callers, Reject(w)
    PROVE  SessionInv'
BY HarmlessMove, FreeInv DEF Reject

(* A handler goes on with what it holds.                                   *)
LEMMA GoKeeps ==
    ASSUME SessionInv, Harmless, NEW w \in Callers, NEW pc \in Pc, NEW r,
           r = [req[w] EXCEPT !.pc = pc], req' = [req EXCEPT ![w].pc = pc],
           Addressed(r), OnChain(r)
    PROVE  SessionInv'
<1>1. r \in Request /\ req' = [req EXCEPT ![w] = r]
    BY DEF SessionInv, AuthTypeOK, Request
<1>2. QED
    BY <1>1, HarmlessMove

(* The UPDATE extends the chain by one: it matches the current token only. *)
LEMMA RotateKeeps ==
    ASSUME SessionInv, TokenTypeOK', NEW w \in Callers, Rotate(w)
    PROVE  SessionInv'
<1>1. /\ req[w] \in Request /\ Addressed(req[w]) /\ OnChain(req[w]) /\ req[w].pc = "rotate"
      /\ req[w].of \in Sessions
    BY Held DEF Rotate, Is, Live
<1>2. CASE ~Matches(w)
    <2>1. PICK r : r = [req[w] EXCEPT !.pc = "lost"]
        OBVIOUS
    <2>2. Addressed(r) /\ OnChain(r)
        BY <1>1, <2>1 DEF Request, Addressed, OnChain, Live
    <2>3. req' = [req EXCEPT ![w].pc = "lost"] /\ "lost" \in Pc
        BY <1>2 DEF Rotate, Go, Pc
    <2>4. Harmless
        BY <1>2, TablesKept DEF Rotate
    <2>5. QED
        BY <2>1, <2>2, <2>3, <2>4, GoKeeps
<1>3. CASE Matches(w)
    <2>1. PICK s, old, new : s = req[w].of /\ old = req[w].old /\ new = NewToken(s)
        OBVIOUS
    <2>2. PICK r : r = [req[w] EXCEPT !.pc = "publish", !.out = new]
        OBVIOUS
    <2>3. PICK x : x = [of |-> s, old |-> old, new |-> new]
        OBVIOUS
    <2>4. /\ s \in Sessions /\ session[s] \in Session
          /\ session[s].status = "live" /\ session[s].current = old /\ old \in Nat
          /\ rotations' = rotations \cup {x}
          /\ session' = [session EXCEPT ![s].prev = old, ![s].grace = TRUE,
                                        ![s].current = new, ![s].expired = FALSE]
          /\ req' = [req EXCEPT ![w] = r]
          /\ UNCHANGED <<tokenVars, links, redisVars, jar>>
        <3>1. Rotated(req[w].of, req[w].old) /\ s \in Sessions
              /\ req' = [req EXCEPT ![w].pc = "publish", ![w].out = NewToken(req[w].of)]
              /\ UNCHANGED <<tokenVars, links, redisVars, jar>>
            BY <1>1, <1>3, <2>1 DEF Rotate
        <3>2. session[s] \in Session /\ session[s].status = "live" /\ session[s].current = old
            BY <1>3, <2>1, <3>1 DEF Matches, Of, SessionInv, AuthTypeOK
        <3>3. old \in Nat
            BY <3>2 DEF Session, Token
        <3>4. req' = [req EXCEPT ![w] = r]
            BY <2>1, <2>2, <3>1
        <3>5. QED
            BY <2>1, <2>3, <3>1, <3>2, <3>3, <3>4 DEF Rotated
    <2>5. /\ IsFiniteSet(RotationsOf(s)) /\ Cardinality(RotationsOf(s)) \in Nat
          /\ old = 1 + Cardinality(RotationsOf(s)) /\ new = old + 1 /\ new \in Nat
        <3>1. IsFiniteSet(RotationsOf(s))
            BY FS_Subset DEF SessionInv, Chain, RotationsOf
        <3>2. Cardinality(RotationsOf(s)) \in Nat
            BY <3>1, FS_CardinalityType
        <3>3. old = 1 + Cardinality(RotationsOf(s))
            BY <2>4 DEF SessionInv, Chain
        <3>4. new = 2 + Cardinality(RotationsOf(s))
            BY <2>1 DEF NewToken, RotationsOf
        <3>5. QED
            BY <3>1, <3>2, <3>3, <3>4
    <2>6. /\ \A t \in Sessions \ {s} : session'[t] = session[t]
          /\ session'[s] = [session[s] EXCEPT !.prev = old, !.grace = TRUE, !.current = new,
                                              !.expired = FALSE]
          /\ session' \in [Sessions -> Session]
        <3>1. [session[s] EXCEPT !.prev = old, !.grace = TRUE, !.current = new, !.expired = FALSE]
                  \in Session
            <4>1. session[s] \in Session /\ old \in Nat /\ new \in Nat
                BY <2>4, <2>5
            <4>2. QED
                BY <4>1 DEF Session, Token
        <3>2. session \in [Sessions -> Session]
            BY DEF SessionInv, AuthTypeOK
        <3>3. session' = [session EXCEPT ![s] = [session[s] EXCEPT !.prev = old, !.grace = TRUE,
                                                   !.current = new, !.expired = FALSE]]
            BY <2>4, <3>2
        <3>4. QED
            BY <2>4, <3>1, <3>2, <3>3
    <2>7. x \in Rotation /\ x \notin rotations
        <3>1. x \in Rotation
            BY <2>3, <2>4, <2>5 DEF Rotation, Token
        <3>2. ASSUME x \in rotations PROVE FALSE
            BY <3>2, <2>3, <2>4, <2>5 DEF SessionInv, Chain
        <3>3. QED
            BY <3>1, <3>2
    <2>8. \A q \in rotations : /\ q \in Rotation
                               /\ q.of = s => q.new <= old /\ q.old < old
        BY <2>4 DEF SessionInv, Chain, AuthTypeOK, Rotation, Token
    <2>9. Chain'
        <3>1. IsFiniteSet(rotations')
            BY <2>4, FS_AddElement DEF SessionInv, Chain
        <3>2. ASSUME NEW q \in rotations' PROVE q.old < q.new /\ q.new <= session'[q.of].current
            <4>1. CASE q = x
                BY <4>1, <2>3, <2>4, <2>5, <2>6 DEF Session
            <4>2. CASE q \in rotations /\ q.of = s
                BY <4>2, <2>4, <2>5, <2>6, <2>8 DEF SessionInv, Chain, Session, Rotation, Token
            <4>3. CASE q \in rotations /\ q.of # s
                BY <4>3, <2>6, <2>8 DEF SessionInv, Chain, Rotation
            <4>4. QED
                BY <4>1, <4>2, <4>3, <2>4
        <3>3. \A p, q \in rotations' : p.of = q.of /\ p.old = q.old => p = q
            <4>1. \A q \in rotations : ~(q.of = x.of /\ q.old = x.old)
                BY <2>3, <2>4, <2>8 DEF Rotation, Token
            <4>2. QED
                BY <2>4, <4>1 DEF SessionInv, Chain
        <3>4. ASSUME NEW t \in Sessions
              PROVE  session'[t].current = IF session'[t].status = "none" THEN 0
                                           ELSE 1 + Cardinality(RotationsOf(t)')
            <4>1. CASE t = s
                <5>1. RotationsOf(s)' = RotationsOf(s) \cup {x} /\ x \notin RotationsOf(s)
                    BY <2>3, <2>4, <2>7 DEF RotationsOf
                <5>2. Cardinality(RotationsOf(s)') = 1 + Cardinality(RotationsOf(s))
                    BY <5>1, <2>5, FS_AddElement
                <5>3. session'[s].current = new /\ session'[s].status = "live"
                    BY <2>4, <2>6 DEF Session
                <5>4. QED
                    BY <4>1, <5>2, <5>3, <2>5
            <4>2. CASE t # s
                <5>1. RotationsOf(t)' = RotationsOf(t)
                    BY <4>2, <2>3, <2>4 DEF RotationsOf
                <5>2. QED
                    BY <4>2, <5>1, <2>6 DEF SessionInv, Chain
            <4>3. QED
                BY <4>1, <4>2
        <3>5. ASSUME NEW t \in Sessions, session'[t].prev # 0
              PROVE  [of |-> t, old |-> session'[t].prev, new |-> session'[t].current] \in rotations'
            <4>1. CASE t = s
                BY <4>1, <2>3, <2>4, <2>6 DEF Session
            <4>2. CASE t # s
                BY <4>2, <2>4, <2>6, <3>5 DEF SessionInv, Chain, Follows
            <4>3. QED
                BY <4>1, <4>2
        <3>6. pending' \subseteq rotations'
            BY <2>4 DEF SessionInv, Chain, redisVars
        <3>7. QED
            BY <3>1, <3>2, <3>3, <3>4, <3>5, <3>6 DEF Chain, Follows
    <2>10. r \in Request /\ Addressed(r) /\ OnChain(r)'
        <3>1. r \in Request
            <4>1. req[w] \in Request /\ new \in Nat
                BY <1>1, <2>5
            <4>2. QED
                BY <2>2, <4>1 DEF Request, Pc, Token
        <3>2. /\ r.pc = "publish" /\ r.of = s /\ r.old = old /\ r.out = new
              /\ r.token = req[w].token /\ r.prev = req[w].prev
            BY <1>1, <2>1, <2>2 DEF Request
        <3>3. Follows(s, old, new)'
            BY <2>3, <2>4 DEF Follows
        <3>4. r.token # 0 /\ IF r.prev THEN Follows(s, r.token, old)' ELSE old = r.token
            <4>1. r.token # 0 /\ IF r.prev THEN Follows(s, r.token, old) ELSE old = r.token
                BY <1>1, <2>1, <3>2 DEF OnChain
            <4>2. QED
                BY <4>1, <2>4 DEF Follows
        <3>5. Addressed(r)
            BY <3>2, <2>4 DEF Addressed
        <3>6. OnChain(r)'
            BY <3>2, <3>3, <3>4 DEF OnChain
        <3>7. QED
            BY <3>1, <3>5, <3>6
    <2>11. HandlersInv' /\ req' \in [Callers -> Request]
        BY <2>4, <2>10, HandlerMoves DEF SessionInv
    <2>12. AuthTypeOK'
        BY <2>4, <2>6, <2>7, <2>11 DEF SessionInv, AuthTypeOK, redisVars
    <2>13. QED
        BY <2>9, <2>11, <2>12 DEF SessionInv
<1>4. QED
    BY <1>2, <1>3

LEMMA ReadKeeps ==
    ASSUME SessionInv, TokenTypeOK', NEW w \in Callers, Read(w)
    PROVE  SessionInv'
<1>1. /\ req[w] \in Request /\ Addressed(req[w]) /\ OnChain(req[w]) /\ req[w].pc = "read"
      /\ req[w].of \in Sessions /\ Of(w) \in Session
    BY Held DEF Read, Is, Live
<1>2. Harmless
    BY TablesKept DEF Read
<1>3. PICK r : /\ req' = [req EXCEPT ![w] = r]
               /\ \/ r = [req[w] EXCEPT !.pc = "suspect"]
                  \/ /\ req[w].token = Of(w).current
                     /\ r = [req[w] EXCEPT !.pc = "lock", !.old = Of(w).current]
                  \/ /\ req[w].token = Of(w).prev
                     /\ r = [req[w] EXCEPT !.pc = "peek", !.old = Of(w).current, !.prev = TRUE]
                  \/ r = [req[w] EXCEPT !.pc = "revoke"]
    BY DEF Read
<1>4. r \in Request
    <2>1. req[w] \in Request /\ Of(w).current \in Nat
        BY <1>1 DEF Session, Token
    <2>2. {"suspect", "lock", "peek", "revoke"} \subseteq Pc
        BY DEF Pc
    <2>3. QED
        BY <1>3, <2>1, <2>2 DEF Request
<1>5. Addressed(r)
    BY <1>1, <1>3 DEF Request, Addressed, Live
<1>6. req[w].token = Of(w).prev => Follows(req[w].of, req[w].token, Of(w).current)
    BY <1>1 DEF OnChain, SessionInv, Chain, Of
<1>7. OnChain(r)
    <2>1. CASE r = [req[w] EXCEPT !.pc = "suspect"] \/ r = [req[w] EXCEPT !.pc = "revoke"]
        BY <1>1, <2>1 DEF Request, OnChain
    <2>2. CASE /\ req[w].token = Of(w).current
               /\ r = [req[w] EXCEPT !.pc = "lock", !.old = Of(w).current]
        <3>1. r.pc = "lock" /\ r.token = r.old /\ r.prev = req[w].prev /\ r.token = req[w].token
            BY <1>1, <2>2 DEF Request
        <3>2. QED
            BY <1>1, <3>1 DEF OnChain
    <2>3. CASE /\ req[w].token = Of(w).prev
               /\ r = [req[w] EXCEPT !.pc = "peek", !.old = Of(w).current, !.prev = TRUE]
        BY <1>1, <1>6, <2>3 DEF Request, OnChain
    <2>4. QED
        BY <1>3, <2>1, <2>2, <2>3
<1>8. QED
    BY <1>2, <1>3, <1>4, <1>5, <1>7, HarmlessMove

(* Suspect, BumpSession and Issue: the session waits for an approval.      *)
LEMMA SuspectKeeps ==
    ASSUME SessionInv, TokenTypeOK, TokenTypeOK', NEW w \in Callers,
           Suspect(w) \/ BumpSession(w) \/ Issue(w)
    PROVE  SessionInv'
<1>1. CASE Suspect(w)
    <2>1. req[w] \in Request /\ Addressed(req[w]) /\ req[w].pc = "suspect" /\ req[w].of \in Sessions
        BY <1>1, Held DEF Suspect, Is, Live
    <2>2. PICK r : r = [req[w] EXCEPT !.pc = "bumpSv"]
        OBVIOUS
    <2>3. Addressed(r) /\ OnChain(r) /\ "bumpSv" \in Pc
        BY <2>1, <2>2 DEF Request, Addressed, Live, OnChain, Pc
    <2>4. Harmless
        BY ZenonT(60), <1>1, <2>1 DEF Suspect, Harmless, SessionInv, AuthTypeOK, Session, redisVars
    <2>5. QED
        BY <1>1, <2>2, <2>3, <2>4, GoKeeps DEF Suspect, Go
<1>2. CASE BumpSession(w)
    <2>1. /\ req[w] \in Request /\ Addressed(req[w]) /\ OnChain(req[w]) /\ req[w].pc = "bumpSv"
          /\ req[w].of \in Sessions
        BY <1>2, Held DEF BumpSession, Is, Live
    <2>2. Harmless
        BY <1>2, TablesKept DEF BumpSession
    <2>3. CASE UNCHANGED req
        BY <2>2, <2>3, HarmlessStill
    <2>4. CASE /\ SetVersion(w)
               /\ req' = [req EXCEPT ![w].pc = "issue", ![w].old = call[w].seen]
        <3>1. PICK r : r = [req[w] EXCEPT !.pc = "issue", !.old = call[w].seen]
            OBVIOUS
        <3>2. call[w].seen \in Nat
            BY <2>4, CallAway DEF SetVersion, At
        <3>3. r \in Request
            BY <2>1, <3>1, <3>2 DEF Request, Pc
        <3>4. Addressed(r) /\ OnChain(r)
            BY <2>1, <3>1 DEF Request, Addressed, Live, OnChain
        <3>5. req' = [req EXCEPT ![w] = r]
            BY <2>4, <3>1 DEF SessionInv, AuthTypeOK
        <3>6. QED
            BY <2>2, <3>3, <3>4, <3>5, HarmlessMove
    <2>5. QED
        BY <1>2, <2>3, <2>4 DEF BumpSession
<1>3. CASE Issue(w)
    <2>1. /\ req[w].of \in Sessions /\ req[w].device \in Devices /\ req[w].old \in Nat
        BY <1>3, Held DEF Issue, Is, Live, Addressed, Request
    <2>2. [of |-> req[w].of, device |-> req[w].device, at |-> req[w].old] \in Link
        BY <2>1 DEF Link
    <2>3. links' \subseteq Link
        BY <1>3, <2>2 DEF Issue, SessionInv, AuthTypeOK
    <2>4. Harmless
        BY <1>3, <2>3 DEF Issue, Harmless, SessionInv, AuthTypeOK, redisVars
    <2>5. QED
        BY <1>3, <2>4, RejectKeeps DEF Issue
<1>4. QED
    BY <1>1, <1>2, <1>3

(* Lock, Overhear, GiveUp, Publish, Lost, Unlock: around the UPDATE.       *)
LEMMA SingleflightKeeps ==
    ASSUME SessionInv, TokenTypeOK', NEW w \in Callers,
           Lock(w) \/ Overhear(w) \/ GiveUp(w) \/ Publish(w) \/ Lost(w) \/ Unlock(w)
    PROVE  SessionInv'
<1>0. PICK q : q = req[w]
    OBVIOUS
<1>1. /\ q \in Request /\ Addressed(q) /\ OnChain(q)
      /\ q.pc \in {"lock", "wait", "publish", "lost", "unlock"} /\ q.of \in Sessions
    BY <1>0, Held DEF Lock, Overhear, GiveUp, Publish, Lost, Unlock, Is, Live
<1>2. \A p \in Entry(q.of, q.old) : p \in Rotation /\ Follows(q.of, q.old, p.new)
    BY DEF Entry, SessionInv, Chain, AuthTypeOK, Rotation, Follows
<1>3. ASSUME NEW r \in Request, r.of = q.of, r.token = q.token, r.old = q.old, r.prev = q.prev,
             r.pc \in {"clear", "av"}, Follows(q.of, q.old, r.out)
      PROVE  Addressed(r) /\ OnChain(r)
    <2>1. Succeeds(r)
        <3>1. CASE q.prev
            <4>1. Follows(q.of, q.token, q.old)
                BY <1>1, <3>1 DEF OnChain
            <4>2. QED
                BY <1>3, <4>1 DEF Succeeds, Follows
        <3>2. CASE ~q.prev
            <4>1. q.token = q.old
                BY <1>1, <3>2 DEF OnChain
            <4>2. QED
                BY <1>3, <4>1 DEF Succeeds
        <3>3. QED
            BY <3>1, <3>2
    <2>2. Addressed(r)
        BY <1>1, <1>3 DEF Addressed
    <2>3. QED
        BY <1>3, <2>1, <2>2 DEF OnChain
<1>4. ASSUME NEW pc \in {"wait", "rotate", "lock"}, NEW r, r = [q EXCEPT !.pc = pc],
             q.pc \in {"lock", "wait"}
      PROVE  Addressed(r) /\ OnChain(r) /\ pc \in Pc
    <2>1. r.pc = pc /\ r.of = q.of /\ r.token = q.token /\ r.old = q.old /\ r.prev = q.prev
        BY <1>1, <1>4 DEF Request
    <2>2. QED
        BY <1>1, <1>4, <2>1 DEF Addressed, Live, OnChain, Pc
<1>5. CASE Lock(w)
    <2>1. Harmless
        BY <1>0, <1>1, <1>5 DEF Lock, Harmless, SessionInv, AuthTypeOK, redisVars, Request, Token
    <2>2. PICK pc \in {"wait", "rotate"} : Go(w, pc)
        BY <1>5 DEF Lock
    <2>3. PICK r : r = [q EXCEPT !.pc = pc]
        OBVIOUS
    <2>4. q.pc = "lock"
        BY <1>0, <1>5 DEF Lock, Is
    <2>5. Addressed(r) /\ OnChain(r) /\ pc \in Pc
        BY <1>4, <2>3, <2>4
    <2>6. QED
        BY <1>0, <2>1, <2>2, <2>3, <2>5, GoKeeps DEF Go
<1>6. CASE Overhear(w)
    <2>1. PICK p \in Entry(q.of, q.old) :
              req' = [req EXCEPT ![w].out = p.new, ![w].pc = Then(w)]
        BY <1>0, <1>6 DEF Overhear
    <2>2. PICK r : r = [q EXCEPT !.out = p.new, !.pc = Then(w)]
        OBVIOUS
    <2>3. r \in Request /\ r.pc \in {"clear", "av"} /\ r.out = p.new /\ r.of = q.of
          /\ r.token = q.token /\ r.old = q.old /\ r.prev = q.prev
        BY <1>1, <1>2, <2>2 DEF Then, Request, Rotation, Pc, Token
    <2>4. Addressed(r) /\ OnChain(r)
        BY <1>2, <1>3, <2>3
    <2>5. req' = [req EXCEPT ![w] = r]
        BY <1>0, <2>1, <2>2 DEF SessionInv, AuthTypeOK
    <2>6. QED
        BY <1>6, <2>3, <2>4, <2>5, TablesKept, HarmlessMove DEF Overhear
<1>7. CASE GiveUp(w)
    <2>1. PICK r : r = [q EXCEPT !.pc = "rotate"]
        OBVIOUS
    <2>2. q.pc = "wait"
        BY <1>0, <1>7 DEF GiveUp, Is
    <2>3. Addressed(r) /\ OnChain(r) /\ "rotate" \in Pc
        BY <1>4, <2>1, <2>2
    <2>4. QED
        BY <1>0, <1>7, <2>1, <2>3, TablesKept, GoKeeps DEF GiveUp, Go
<1>8. CASE Publish(w)
    <2>1. q.pc = "publish" /\ Follows(q.of, q.old, q.out)
        BY <1>0, <1>1, <1>8 DEF Publish, Is, OnChain
    <2>2. pending' \subseteq rotations /\ pending' \subseteq Rotation
        BY <1>0, <1>8, <2>1 DEF Publish, SessionInv, AuthTypeOK, Chain, Follows
    <2>3. PICK r : r = [q EXCEPT !.pc = "unlock"]
        OBVIOUS
    <2>4. r \in Request /\ r.pc = "unlock" /\ r.of = q.of /\ r.token = q.token /\ r.old = q.old
          /\ r.prev = q.prev /\ r.out = q.out
        BY <1>1, <2>3 DEF Request, Pc
    <2>5. Addressed(r) /\ OnChain(r)
        BY <1>1, <2>1, <2>4 DEF Addressed, Live, OnChain
    <2>6. req' = [req EXCEPT ![w] = r] /\ UNCHANGED <<tokenVars, session, links, rotations, rotlock, locked, jar>>
        BY <1>0, <1>8, <2>3 DEF Publish, Go, SessionInv, AuthTypeOK
    <2>7. OnChain(r)'
        BY <2>5, <2>6 DEF OnChain, Succeeds, Follows
    <2>8. HandlersInv' /\ req' \in [Callers -> Request]
        BY <2>4, <2>5, <2>6, <2>7, HandlerMoves DEF SessionInv
    <2>9. Chain'
        <3>1. \A s \in Sessions : RotationsOf(s)' = RotationsOf(s)
            BY <2>6 DEF RotationsOf
        <3>2. QED
            BY <2>2, <2>6, <3>1 DEF SessionInv, Chain, Follows
    <2>10. AuthTypeOK'
        BY <2>2, <2>6, <2>8 DEF SessionInv, AuthTypeOK
    <2>11. QED
        BY <2>8, <2>9, <2>10 DEF SessionInv
<1>9. CASE Lost(w)
    <2>1. PICK out : /\ out = IF Entry(q.of, q.old) = {} THEN 0
                              ELSE (CHOOSE p \in Entry(q.of, q.old) : TRUE).new
                     /\ req' = [req EXCEPT ![w].pc = "unlock", ![w].out = out]
        BY <1>0, <1>9 DEF Lost
    <2>2. out \in Nat /\ (out = 0 \/ Follows(q.of, q.old, out))
        <3>1. CASE Entry(q.of, q.old) = {}
            BY <2>1, <3>1
        <3>2. CASE Entry(q.of, q.old) # {}
            <4>1. PICK p \in Entry(q.of, q.old) : out = p.new
                BY <2>1, <3>2
            <4>2. QED
                BY <1>2, <4>1 DEF Rotation, Token
        <3>3. QED
            BY <3>1, <3>2
    <2>3. PICK r : r = [q EXCEPT !.pc = "unlock", !.out = out]
        OBVIOUS
    <2>4. r \in Request /\ r.pc = "unlock" /\ r.of = q.of /\ r.token = q.token /\ r.old = q.old
          /\ r.prev = q.prev /\ r.out = out
        BY <1>1, <2>2, <2>3 DEF Request, Pc, Token
    <2>5. q.pc = "lost"
        BY <1>0, <1>9 DEF Lost, Is
    <2>6. Addressed(r) /\ OnChain(r)
        BY <1>1, <2>2, <2>4, <2>5 DEF Addressed, Live, OnChain
    <2>7. req' = [req EXCEPT ![w] = r]
        BY <1>0, <2>1, <2>3 DEF SessionInv, AuthTypeOK
    <2>8. QED
        BY <1>9, <2>4, <2>6, <2>7, TablesKept, HarmlessMove DEF Lost
<1>10. CASE Unlock(w)
    <2>1. Harmless
        BY <1>10 DEF Unlock, Harmless, SessionInv, AuthTypeOK, redisVars
    <2>2. CASE req[w].out = 0
        BY <1>10, <2>1, <2>2, RejectKeeps DEF Unlock
    <2>3. CASE req[w].out # 0
        <3>1. PICK pc \in {"clear", "av"} : Go(w, pc)
            BY <1>10, <2>3 DEF Unlock, Then
        <3>2. PICK r : r = [q EXCEPT !.pc = pc]
            OBVIOUS
        <3>3. r \in Request /\ r.pc = pc /\ r.of = q.of /\ r.token = q.token /\ r.old = q.old
              /\ r.prev = q.prev /\ r.out = q.out
            BY <1>1, <3>2 DEF Request, Pc
        <3>4. Follows(q.of, q.old, q.out)
            BY <1>0, <1>1, <1>10, <2>3 DEF Unlock, Is, OnChain
        <3>5. Addressed(r) /\ OnChain(r) /\ pc \in Pc
            BY <1>3, <3>3, <3>4 DEF Pc
        <3>6. QED
            BY <1>0, <2>1, <3>1, <3>2, <3>5, GoKeeps DEF Go
    <2>4. QED
        BY <2>2, <2>3
<1>11. QED
    BY <1>5, <1>6, <1>7, <1>8, <1>9, <1>10

(* Peek, Clear, SignAccess and Return: the answer.                         *)
LEMMA AnswerKeeps ==
    ASSUME SessionInv, TokenTypeOK', NEW w \in Callers,
           Peek(w) \/ Clear(w) \/ SignAccess(w) \/ Return(w)
    PROVE  SessionInv'
<1>0. PICK q : q = req[w]
    OBVIOUS
<1>1. /\ q \in Request /\ Addressed(q) /\ OnChain(q)
      /\ q.pc \in {"peek", "clear", "av", "sv", "answer"} /\ q.of \in Sessions
    BY <1>0, Held DEF Peek, Clear, SignAccess, Sign, Return, Is, Live
<1>2. ASSUME NEW pc \in {"av", "sv", "answer"}, NEW r, r = [q EXCEPT !.pc = pc],
             q.pc \in {"clear", "av", "sv"}
      PROVE  Addressed(r) /\ OnChain(r) /\ pc \in Pc
    <2>1. r.pc = pc /\ r.of = q.of /\ r.token = q.token /\ r.out = q.out
        BY <1>1, <1>2 DEF Request
    <2>2. r.token # 0 => Succeeds(r)
        BY <1>1, <1>2, <2>1 DEF OnChain, Succeeds
    <2>3. QED
        BY <1>1, <2>1, <2>2 DEF Addressed, Live, OnChain, Pc
<1>3. CASE Peek(w)
    <2>1. q.pc = "peek"
        BY <1>0, <1>3 DEF Peek, Is
    <2>2. CASE Entry(q.of, q.token) = {}
        <3>1. PICK r : r = [q EXCEPT !.pc = "lock"]
            OBVIOUS
        <3>2. r.pc = "lock" /\ r.of = q.of /\ r.token = q.token /\ r.old = q.old /\ r.prev = q.prev
              /\ r \in Request
            BY <1>1, <3>1 DEF Request, Pc
        <3>3. Addressed(r) /\ OnChain(r)
            BY <1>1, <2>1, <3>2 DEF Addressed, Live, OnChain
        <3>4. req' = [req EXCEPT ![w] = r]
            BY <1>0, <1>3, <2>2, <3>1 DEF Peek
        <3>5. QED
            BY <1>3, <3>2, <3>3, <3>4, TablesKept, HarmlessMove DEF Peek
    <2>3. CASE Entry(q.of, q.token) # {}
        <3>1. PICK p \in Entry(q.of, q.token) :
                  req' = [req EXCEPT ![w] = [q EXCEPT !.pc = "clear", !.out = p.new]]
            BY <1>0, <1>3, <2>3 DEF Peek
        <3>2. p \in Rotation /\ Follows(q.of, q.token, p.new)
            BY DEF Entry, SessionInv, Chain, AuthTypeOK, Rotation, Follows
        <3>3. PICK r : r = [q EXCEPT !.pc = "clear", !.out = p.new]
            OBVIOUS
        <3>4. r \in Request /\ r.pc = "clear" /\ r.of = q.of /\ r.token = q.token /\ r.out = p.new
            BY <1>1, <3>2, <3>3 DEF Request, Rotation, Pc, Token
        <3>5. Addressed(r) /\ OnChain(r)
            BY <1>1, <3>2, <3>4 DEF Addressed, Live, OnChain, Succeeds
        <3>6. QED
            BY <1>3, <3>1, <3>3, <3>4, <3>5, TablesKept, HarmlessMove DEF Peek
    <2>4. QED
        BY <2>2, <2>3
<1>4. CASE Clear(w)
    <2>1. Harmless
        BY <1>0, <1>1, <1>4 DEF Clear, Harmless, SessionInv, AuthTypeOK, Session, Token, redisVars
    <2>2. PICK r : r = [q EXCEPT !.pc = "av"]
        OBVIOUS
    <2>3. q.pc = "clear"
        BY <1>0, <1>4 DEF Clear, Is
    <2>4. Addressed(r) /\ OnChain(r) /\ "av" \in Pc
        BY <1>2, <2>2, <2>3
    <2>5. QED
        BY <1>0, <1>4, <2>1, <2>2, <2>4, GoKeeps DEF Clear, Go
<1>5. ASSUME NEW pc \in {"av", "sv"}, NEW k, NEW next \in {"sv", "answer"}, Sign(w, pc, k, next)
      PROVE  SessionInv'
    <2>1. Harmless
        BY <1>5, TablesKept DEF Sign
    <2>2. q.pc = pc
        BY <1>0, <1>5 DEF Sign, Is
    <2>3. CASE UNCHANGED req
        BY <2>1, <2>3, HarmlessStill
    <2>4. CASE Reject(w)
        BY <2>1, <2>4, RejectKeeps
    <2>5. CASE Go(w, next)
        <3>1. PICK r : r = [q EXCEPT !.pc = next]
            OBVIOUS
        <3>2. Addressed(r) /\ OnChain(r) /\ next \in Pc
            BY <1>2, <1>5, <2>2, <3>1
        <3>3. QED
            BY <1>0, <2>1, <2>5, <3>1, <3>2, GoKeeps DEF Go
    <2>6. QED
        BY <1>5, <2>3, <2>4, <2>5 DEF Sign
<1>6. CASE Return(w)
    <2>1. q.pc = "answer" /\ jar' \in {jar, [jar EXCEPT ![q.of] = q.out]} /\ q.out \in Nat
        BY <1>0, <1>1, <1>6 DEF Return, Is, Request, Token
    <2>2. Harmless
        BY <1>1, <1>6, <2>1 DEF Return, Harmless, SessionInv, AuthTypeOK, Token, redisVars
    <2>3. QED
        BY <1>6, <2>2, RejectKeeps DEF Return
<1>7. QED
    BY <1>3, <1>4, <1>5, <1>6 DEF SignAccess

(* A row is changed, but not its tokens.                                   *)
LEMMA RowHarmless ==
    ASSUME SessionInv, TokenTypeOK', NEW s \in Sessions, NEW row \in Session,
           row.current = session[s].current, row.prev = session[s].prev,
           row.status = session[s].status,
           session' = [session EXCEPT ![s] = row],
           links' \subseteq links, UNCHANGED <<rotations, redisVars, jar>>
    PROVE  Harmless
<1>1. session \in [Sessions -> Session]
    BY DEF SessionInv, AuthTypeOK
<1>2. \A t \in Sessions : session'[t] = IF t = s THEN row ELSE session[t]
    BY <1>1
<1>3. session' \in [Sessions -> Session]
    BY <1>1
<1>4. QED
    BY <1>2, <1>3 DEF Harmless, SessionInv, AuthTypeOK, redisVars

LEMMA RevokedHarmless ==
    ASSUME SessionInv, TokenTypeOK', NEW gone, Revoked(gone), jar' \in [Sessions -> Token],
           locked' \subseteq Users, UNCHANGED <<links, rotations, pending, rotlock>>
    PROVE  Harmless
BY DEF Harmless, Revoked, SessionInv, AuthTypeOK, Session

(* Penalty, RevokeFound, Approve and the steps that only end a request.    *)
LEMMA RevocationKeeps ==
    ASSUME SessionInv, TokenTypeOK', NEW w \in Callers,
           Refuse(w) \/ Penalty(w) \/ RevokeFound(w) \/ Approve(w) \/ Crash(w)
    PROVE  SessionInv'
<1>1. ASSUME req[w].pc \in {"revoke", "bumpAv"}, NEW pc \in {"bumpAv", "lockUser"}, Go(w, pc), Harmless
      PROVE  SessionInv'
    <2>1. req[w] \in Request /\ Addressed(req[w]) /\ req[w].of \in Sessions
        BY <1>1, Held DEF Live
    <2>2. PICK r : r = [req[w] EXCEPT !.pc = pc]
        OBVIOUS
    <2>3. Addressed(r) /\ OnChain(r) /\ pc \in Pc
        BY <2>1, <2>2 DEF Request, Addressed, Live, OnChain, Pc
    <2>4. QED
        BY <1>1, <2>2, <2>3, GoKeeps DEF Go
<1>2. CASE Refuse(w)
    BY <1>2, TablesKept, RejectKeeps DEF Refuse
<1>3. CASE Penalty(w)
    <2>1. CASE Is(w, "revoke") /\ Revoked({req[w].of}) /\ Go(w, "bumpAv")
               /\ UNCHANGED <<tokenVars, links, rotations, redisVars, jar>>
        <3>1. Harmless
            BY <2>1, RevokedHarmless DEF SessionInv, AuthTypeOK, redisVars
        <3>2. QED
            BY <1>1, <2>1, <3>1 DEF Is
    <2>2. CASE /\ Is(w, "bumpAv")
               /\ UNCHANGED req \/ Go(w, "lockUser")
               /\ UNCHANGED <<session, links, rotations, redisVars, jar>>
        <3>1. Harmless
            BY <2>2, TablesKept
        <3>2. QED
            BY <1>1, <2>2, <3>1, HarmlessStill DEF Is
    <2>3. CASE /\ Is(w, "lockUser")
               /\ locked' = locked \cup {OwnerOf[req[w].of]}
               /\ Reject(w)
               /\ UNCHANGED <<tokenVars, session, links, rotations, pending, rotlock, jar>>
        <3>1. OwnerOf[req[w].of] \in Users
            BY <2>3, Held, AuthAssumption DEF Is, Live
        <3>2. Harmless
            BY <2>3, <3>1 DEF Harmless, SessionInv, AuthTypeOK
        <3>3. QED
            BY <2>3, <3>2, RejectKeeps
    <2>4. QED
        BY <1>3, <2>1, <2>2, <2>3 DEF Penalty
<1>4. CASE RevokeFound(w)
    <2>1. Harmless
        BY <1>4, RevokedHarmless DEF RevokeFound, SessionInv, AuthTypeOK, redisVars
    <2>2. QED
        BY <1>4, <2>1, RejectKeeps DEF RevokeFound
<1>5. CASE Approve(w)
    <2>1. req[w].of \in Sessions /\ req[w].device \in Devices
        BY <1>5, Held DEF Approve, Is, Live, Addressed
    <2>2. Harmless
        <3>1. CASE Approvable(w)
            <4>1. PICK row : row = [session[req[w].of] EXCEPT !.approved = TRUE,
                                                              !.device = req[w].device]
                OBVIOUS
            <4>2. /\ row \in Session /\ row.current = session[req[w].of].current
                  /\ row.prev = session[req[w].of].prev /\ row.status = session[req[w].of].status
                BY ZenonT(60), <2>1, <4>1 DEF SessionInv, AuthTypeOK, Session
            <4>3. session' = [session EXCEPT ![req[w].of] = row]
                BY <1>5, <2>1, <3>1, <4>1 DEF Approve, SessionInv, AuthTypeOK
            <4>4. links' \subseteq links /\ UNCHANGED <<rotations, redisVars, jar>>
                BY <1>5, <3>1 DEF Approve
            <4>5. QED
                BY <2>1, <4>2, <4>3, <4>4, RowHarmless
        <3>2. CASE ~Approvable(w)
            BY <1>5, <3>2, TablesKept DEF Approve
        <3>3. QED
            BY <3>1, <3>2
    <2>3. QED
        BY <1>5, <2>2, RejectKeeps DEF Approve
<1>6. CASE Crash(w)
    BY <1>6, TablesKept, RejectKeeps DEF Crash
<1>7. QED
    BY <1>2, <1>3, <1>4, <1>5, <1>6

LEMMA WorldKeeps ==
    ASSUME SessionInv, TokenTypeOK', (\E s \in Sessions : Logout(s)) \/ Clock
    PROVE  SessionInv'
<1>1. ASSUME NEW s \in Sessions, Logout(s) PROVE SessionInv'
    <2>1. jar' \in [Sessions -> Token]
        BY <1>1 DEF Logout, SessionInv, AuthTypeOK, Token
    <2>2. Harmless
        BY <1>1, <2>1, RevokedHarmless DEF Logout, SessionInv, AuthTypeOK, redisVars
    <2>3. QED
        BY <1>1, <2>2, HarmlessStill DEF Logout
<1>2. ASSUME NEW s \in Sessions, GraceEnds(s) \/ SessionExpires(s) PROVE SessionInv'
    <2>1. Harmless
        <3>1. PICK row : row = IF GraceEnds(s) THEN [session[s] EXCEPT !.grace = FALSE]
                               ELSE [session[s] EXCEPT !.expired = TRUE, !.grace = FALSE]
            OBVIOUS
        <3>2. /\ row \in Session /\ row.current = session[s].current
              /\ row.prev = session[s].prev /\ row.status = session[s].status
            BY <3>1 DEF SessionInv, AuthTypeOK, Session
        <3>3. session' = [session EXCEPT ![s] = row]
            BY <1>2, <3>1 DEF GraceEnds, SessionExpires, SessionInv, AuthTypeOK
        <3>4. links' \subseteq links /\ UNCHANGED <<rotations, redisVars, jar>>
            BY <1>2 DEF GraceEnds, SessionExpires
        <3>5. QED
            BY <3>2, <3>3, <3>4, RowHarmless
    <2>2. QED
        BY <1>2, <2>1, HarmlessStill DEF GraceEnds, SessionExpires
<1>3. CASE KeyExpires
    <2>1. Harmless
        BY <1>3 DEF KeyExpires, Harmless, SessionInv, AuthTypeOK
    <2>2. QED
        BY <1>3, <2>1, HarmlessStill DEF KeyExpires
<1>4. ASSUME NEW link \in links, LinkExpires(link) PROVE SessionInv'
    <2>1. Harmless
        BY <1>4 DEF LinkExpires, Harmless, SessionInv, AuthTypeOK, redisVars
    <2>2. QED
        BY <1>4, <2>1, HarmlessStill DEF LinkExpires
<1>5. QED
    BY <1>1, <1>2, <1>3, <1>4 DEF Clock

-----------------------------------------------------------------------------

(* What the handlers do to the versions are TokenState's steps.            *)
LEMMA StepsAreTokenSteps ==
    ASSUME TokenTypeOK, SessionInv, [AuthNext]_authVars
    PROVE  [TokenNext]_tokenVars
<1>1. \A w \in Callers : req[w].pc \in Live => req[w].of \in Subjects /\ OwnerOf[req[w].of] \in Subjects
    BY Held, AuthAssumption DEF Subjects
<1>2. ASSUME NEW w \in Callers, NEW pc \in Live, NEW k \in Subjects, NEW next, Sign(w, pc, k, next)
      PROVE  [TokenNext]_tokenVars
    <2>1. CASE At(w, "read") /\ Done(w) /\ UNCHANGED <<version, cache, torn>>
        <3>1. call[w].key \in Subjects /\ ~At(w, "set") /\ ~At(w, "idle")
            BY <2>1, CallAway DEF At
        <3>2. torn' = [torn EXCEPT ![call[w].key] = @ \/ At(w, "set")]
            BY <2>1, <3>1, Zenon DEF TokenTypeOK
        <3>3. Abandon(w)
            BY <2>1, <3>1, <3>2 DEF Abandon
        <3>4. QED
            BY <3>3 DEF TokenNext
    <2>2. QED
        BY <1>2, <2>1 DEF Sign, TokenNext
<1>3. ASSUME NEW w \in Callers, SignAccess(w) PROVE [TokenNext]_tokenVars
    <2>1. CASE Sign(w, "av", OwnerOf[req[w].of], "sv")
        <3>1. OwnerOf[req[w].of] \in Subjects
            BY <1>1, <2>1 DEF Sign, Is, Live
        <3>2. QED
            BY <1>2, <2>1, <3>1 DEF Live
    <2>2. CASE Sign(w, "sv", req[w].of, "answer")
        <3>1. req[w].of \in Subjects
            BY <1>1, <2>2 DEF Sign, Is, Live
        <3>2. QED
            BY <1>2, <2>2, <3>1 DEF Live
    <2>3. QED
        BY <1>3, <2>1, <2>2 DEF SignAccess
<1>4. ASSUME NEW w \in Callers, BumpSession(w) \/ Penalty(w) PROVE [TokenNext]_tokenVars
    <2>1. CASE BumpSession(w)
        BY <1>1, <2>1 DEF BumpSession, Is, Live, TokenNext
    <2>2. CASE Penalty(w)
        BY <1>1, <2>2 DEF Penalty, Is, Live, TokenNext
    <2>3. QED
        BY <1>4, <2>1, <2>2
<1>5. ASSUME NEW w \in Callers, Crash(w) PROVE [TokenNext]_tokenVars
    BY <1>5 DEF Crash, TokenNext
<1>6. ASSUME NEW w \in Callers, Arrive(w) PROVE UNCHANGED tokenVars
    BY <1>6 DEF Arrive, Login, Send, FindSessions, OpenLink
<1>7. ASSUME NEW w \in Callers,
             \/ Refuse(w) \/ Read(w) \/ Suspect(w) \/ Issue(w) \/ Lock(w) \/ Overhear(w)
             \/ GiveUp(w) \/ Rotate(w) \/ Publish(w) \/ Lost(w) \/ Unlock(w) \/ Peek(w)
             \/ Clear(w) \/ Return(w) \/ RevokeFound(w) \/ Approve(w)
      PROVE  UNCHANGED tokenVars
    BY <1>7 DEF Refuse, Read, Suspect, Issue, Lock, Overhear, GiveUp, Rotate, Publish, Lost,
                Unlock, Peek, Clear, Return, RevokeFound, Approve
<1>8. ASSUME (\E s \in Sessions : Logout(s)) \/ Clock PROVE UNCHANGED tokenVars
    BY <1>8 DEF Logout, Clock, GraceEnds, SessionExpires, KeyExpires, LinkExpires
<1>9. QED
    BY <1>3, <1>4, <1>5, <1>6, <1>7, <1>8 DEF AuthNext, Refresh, authVars

LEMMA AuthStepInv == AuthInv /\ [AuthNext]_authVars => AuthInv'
<1> SUFFICES ASSUME AuthInv, [AuthNext]_authVars PROVE AuthInv'
    OBVIOUS
<1>1. TokenInv' /\ TokenTypeOK /\ TokenTypeOK'
    BY StepsAreTokenSteps, TokenStepInv DEF AuthInv, TokenInv
<1>2. ASSUME NEW w \in Callers, Arrive(w) PROVE SessionInv'
    BY <1>1, <1>2, ArriveKeeps DEF AuthInv
<1>3. ASSUME NEW w \in Callers, Refresh(w) PROVE SessionInv'
    BY <1>1, <1>3, ReadKeeps, SuspectKeeps, SingleflightKeeps, RotateKeeps, AnswerKeeps,
       RevocationKeeps DEF AuthInv, Refresh
<1>4. ASSUME NEW w \in Callers, Crash(w) PROVE SessionInv'
    BY <1>1, <1>4, RevocationKeeps DEF AuthInv
<1>5. CASE (\E s \in Sessions : Logout(s)) \/ Clock
    BY <1>1, <1>5, WorldKeeps DEF AuthInv
<1>6. CASE UNCHANGED authVars
    <2>1. UNCHANGED <<session, links, rotations, redisVars, jar>> /\ req' = req
        BY <1>6 DEF authVars
    <2>2. QED
        BY <1>1, <2>1, TablesKept, HarmlessStill DEF AuthInv
<1>7. QED
    BY <1>1, <1>2, <1>3, <1>4, <1>5, <1>6 DEF AuthNext, AuthInv

(* The rows, the keys and the handlers stay in their sets.                 *)
THEOREM AuthTyped == AuthSpec => []AuthTypeOK
<1>1. AuthInv => AuthTypeOK
    BY DEF AuthInv, SessionInv
<1>2. QED
    BY <1>1, AuthInitInv, AuthStepInv, PTL DEF AuthSpec

(* For any number of sessions, tabs and requests, and whatever becomes of  *)
(* the lock and the map in Redis: a token is rotated once, and a refresh   *)
(* is answered with the successor of what it presented.                    *)
THEOREM RefreshFollows == AuthSpec => []AnswersFollowTheChain
<1>1. AuthInv => AnswersFollowTheChain
    <2> SUFFICES ASSUME AuthInv PROVE AnswersFollowTheChain
        OBVIOUS
    <2>1. \A r, q \in rotations : r.of = q.of /\ r.old = q.old => r = q
        BY DEF AuthInv, SessionInv, Chain
    <2>2. ASSUME NEW w \in Callers, Is(w, "answer"), req[w].token # 0
          PROVE  \/ Follows(req[w].of, req[w].token, req[w].out)
                 \/ \E r \in rotations : /\ r.of = req[w].of /\ r.old = req[w].token
                                         /\ Follows(r.of, r.new, req[w].out)
        <3>1. Succeeds(req[w])
            BY <2>2, Held DEF AuthInv, OnChain, Is
        <3>2. QED
            BY <3>1 DEF Succeeds
    <2>3. QED
        BY <2>1, <2>2 DEF AnswersFollowTheChain
<1>2. QED
    BY <1>1, AuthInitInv, AuthStepInv, PTL DEF AuthSpec

(* The versions that sign and check access tokens stay current as the      *)
(* sessions use them: every bump and every read of a handler, and every    *)
(* crash between two of them, is one that TokenState allows.               *)
THEOREM SessionsKeepVersions == AuthSpec => [](CurrentUnlessTorn /\ NeverAhead)
<1>1. AuthInv => CurrentUnlessTorn /\ NeverAhead
    BY DEF AuthInv, TokenInv
<1>2. QED
    BY <1>1, AuthInitInv, AuthStepInv, PTL DEF AuthSpec

(* AuthSessions implements TokenState.                                     *)
THEOREM SessionsImplementTokens == AuthSpec => TokenSpec
<1>1. AuthInit => TokenInit
    BY DEF AuthInit
<1>2. AuthInv /\ [AuthNext]_authVars => [TokenNext]_tokenVars
    BY StepsAreTokenSteps DEF AuthInv, TokenInv
<1>3. QED
    BY <1>1, <1>2, AuthInitInv, AuthStepInv, PTL DEF AuthSpec, TokenSpec

(* A revoked session stays revoked, and its token the last one.            *)
LEMMA RevokedStays ==
    ASSUME AuthInv, [AuthNext]_authVars, NEW s \in Sessions, session[s].status = "revoked"
    PROVE  session'[s].status = "revoked" /\ session'[s].current = session[s].current
<1>1. session \in [Sessions -> Session]
    BY DEF AuthInv, SessionInv, AuthTypeOK
<1>2. ASSUME NEW w \in Callers, NEW t \in Sessions, NEW d \in Devices, Login(w, t, d)
      PROVE  session'[s] = session[s]
    BY <1>1, <1>2 DEF Login
<1>3. ASSUME NEW w \in Callers, Rotate(w) PROVE session'[s] = session[s]
    <2>1. CASE Matches(w)
        BY <1>1, <1>3, <2>1 DEF Rotate, Rotated, Matches, Of
    <2>2. CASE ~Matches(w)
        BY <1>3, <2>2 DEF Rotate
    <2>3. QED
        BY <2>1, <2>2
<1>4. ASSUME NEW w \in Callers, Suspect(w) \/ Clear(w) \/ Approve(w)
      PROVE  session'[s].status = session[s].status /\ session'[s].current = session[s].current
    BY <1>1, <1>4 DEF Suspect, Clear, Approve, Session
<1>5. ASSUME NEW gone, Revoked(gone) PROVE session'[s] = session[s]
    BY <1>1, <1>5 DEF Revoked
<1>6. ASSUME NEW t \in Sessions, GraceEnds(t) \/ SessionExpires(t)
      PROVE  session'[s].status = session[s].status /\ session'[s].current = session[s].current
    BY <1>1, <1>6 DEF GraceEnds, SessionExpires, Session
<1>7. ASSUME NEW w \in Callers,
             \/ Refuse(w) \/ Read(w) \/ BumpSession(w) \/ Issue(w) \/ Lock(w) \/ Overhear(w)
             \/ GiveUp(w) \/ Publish(w) \/ Lost(w) \/ Unlock(w) \/ Peek(w)
             \/ SignAccess(w) \/ Return(w) \/ Crash(w)
      PROVE  session' = session
    BY <1>7 DEF Refuse, Read, BumpSession, Issue, Lock, Overhear, GiveUp, Publish, Lost,
                Unlock, Peek, SignAccess, Sign, Return, Crash
<1>8. ASSUME NEW w \in Callers, NEW t, NEW d, NEW keep, NEW link,
             Send(w, t, d) \/ FindSessions(w, keep) \/ OpenLink(w, link)
      PROVE  session' = session
    BY <1>8 DEF Send, FindSessions, OpenLink
<1>9. ASSUME NEW w \in Callers, Penalty(w) \/ RevokeFound(w) PROVE session'[s] = session[s]
    BY <1>5, <1>9 DEF Penalty, RevokeFound
<1>10. ASSUME NEW t \in Sessions, Logout(t) PROVE session'[s] = session[s]
    BY <1>5, <1>10 DEF Logout
<1>11. ASSUME NEW link, KeyExpires \/ LinkExpires(link) PROVE session' = session
    BY <1>11 DEF KeyExpires, LinkExpires
<1>12. CASE UNCHANGED authVars
    BY <1>12 DEF authVars
<1>13. QED
    BY <1>2, <1>3, <1>4, <1>6, <1>7, <1>8, <1>9, <1>10, <1>11, <1>12
    DEF AuthNext, Arrive, Refresh, Clock

(* For any number of requests in flight: no refresh that read a session    *)
(* before it was revoked, and no approval link, brings it back or rotates  *)
(* its token.                                                              *)
THEOREM RevocationHolds == AuthSpec => RevokedIsFinal
<1>1. AuthInv /\ [AuthNext]_authVars =>
          [\A s \in Sessions : session[s].status = "revoked" =>
              /\ session'[s].status = "revoked"
              /\ session'[s].current = session[s].current]_authVars
    BY RevokedStays
<1>2. QED
    BY <1>1, AuthInitInv, AuthStepInv, PTL DEF AuthSpec, RevokedIsFinal
=============================================================================
