--------------------------- MODULE AccessControl ----------------------------
(***************************************************************************)
(* RbacService, RbacCacheService and RbacAdminService: the permissions one *)
(* user has through the roles the user holds.  The rules for a resource    *)
(* and the owner's rights are read again for every request.                *)
(*                                                                         *)
(* Permissions are cached in Redis under a stamp: the version of the user  *)
(* and of every role held.  A change of the tables is followed by an INCR  *)
(* of the version, so that the next request asks for another entry.  A     *)
(* version without a key is taken for 1 and written, without NX.           *)
(***************************************************************************)
EXTENDS FiniteSets, Integers

CONSTANTS
    User,       \* the user
    Roles,      \* roles the user may hold
    Perms,      \* permissions, of one subject
    Checks,     \* requests that may be under way
    MaxBumps,   \* bound: bumps of one version
    MaxLosses   \* bound: keys Redis loses and bumps that break off

ASSUME PermissionAssumption == MaxBumps \in Nat /\ MaxLosses \in Nat /\ User \notin Roles

VARIABLES
    held,      \* UserRole rows
    granted,   \* RolePermission rows
    stampVer,  \* rbac:ver:user, rbac:ver:role; 0 without a key
    entry,     \* rbac:perm:user:<stamp>: sets of permissions, by stamp
    check,     \* each request
    unbumped,  \* versions whose INCR follows
    losses,    \* losses so far
    bumps,     \* bumps so far
    rewound    \* history: versions that went back, or were not bumped

permVars == <<held, granted, stampVer, entry, check, unbumped, losses, bumps, rewound>>

Versioned == {User} \cup Roles
None == <<>>
NoCheck == [at |-> "idle", roles |-> {}, stamp |-> None, perms |-> {}]

PermissionInit ==
    /\ held = Roles
    /\ granted = [r \in Roles |-> Perms]
    /\ stampVer = [k \in Versioned |-> 0]
    /\ entry = None
    /\ check = [c \in Checks |-> NoCheck]
    /\ unbumped = {} /\ rewound = {}
    /\ losses = 0 /\ bumps = 0

-----------------------------------------------------------------------------

(* f with v for k.                                                         *)
Extended(f, k, v) == [j \in {k} \cup DOMAIN f |-> IF j = k THEN v ELSE f[j]]

Answering(c, at) == check[c].at = at

(* checkPermissions, expandUserPermissions: the roles in force.            *)
AskPermission(c) ==
    /\ Answering(c, "idle")
    /\ check' = [check EXCEPT ![c] = [NoCheck EXCEPT !.at = "stamp", !.roles = held]]
    /\ UNCHANGED <<held, granted, stampVer, entry, unbumped, losses, bumps, rewound>>

(* getVersion, getRoleVersion: the GET, the user's before the roles'.      *)
ReadStamp(c, k) ==
    /\ Answering(c, "stamp")
    /\ k \in ({User} \cup check[c].roles) \ DOMAIN check[c].stamp
    /\ k # User => User \in DOMAIN check[c].stamp
    /\ check' = [check EXCEPT ![c].stamp = Extended(@, k, stampVer[k])]
    /\ UNCHANGED <<held, granted, stampVer, entry, unbumped, losses, bumps, rewound>>

SetsFirst(k) == stampVer' = [stampVer EXCEPT ![k] = 1]

(* Its SET when there was no key, whatever the key holds by now.           *)
WriteStamp(c, k) ==
    /\ Answering(c, "stamp")
    /\ k \in DOMAIN check[c].stamp
    /\ check[c].stamp[k] = 0
    /\ SetsFirst(k)
    /\ rewound' = IF stampVer[k] > 1 THEN rewound \cup {k} ELSE rewound
    /\ check' = [check EXCEPT ![c].stamp[k] = 1]
    /\ UNCHANGED <<held, granted, entry, unbumped, losses, bumps>>

Stamped(c) ==
    /\ DOMAIN check[c].stamp = {User} \cup check[c].roles
    /\ 0 \notin {check[c].stamp[k] : k \in DOMAIN check[c].stamp}

(* getPerms: a hit answers; without a role the empty set is cached.        *)
LookUp(c) ==
    LET stamp == check[c].stamp IN
    /\ Answering(c, "stamp")
    /\ Stamped(c)
    /\ check' = [check EXCEPT ![c] =
          IF stamp \in DOMAIN entry \/ check[c].roles = {} THEN NoCheck ELSE [@ EXCEPT !.at = "load"]]
    /\ entry' = IF check[c].roles = {} THEN Extended(entry, stamp, {}) ELSE entry
    /\ UNCHANGED <<held, granted, stampVer, unbumped, losses, bumps, rewound>>

GrantedTo(roles) == UNION {granted[r] : r \in roles}

LoadPerms(c) ==
    /\ Answering(c, "load")
    /\ check' = [check EXCEPT ![c].at = "save", ![c].perms = GrantedTo(check[c].roles)]
    /\ UNCHANGED <<held, granted, stampVer, entry, unbumped, losses, bumps, rewound>>

SavePerms(c) ==
    /\ Answering(c, "save")
    /\ entry' = Extended(entry, check[c].stamp, check[c].perms)
    /\ check' = [check EXCEPT ![c] = NoCheck]
    /\ UNCHANGED <<held, granted, stampVer, unbumped, losses, bumps, rewound>>

-----------------------------------------------------------------------------

MayBump(k) == bumps < MaxBumps /\ k \notin unbumped

(* addRoleToUser, removeRoleFromUser; grantAcl and revokeAcl bump as well. *)
ChangeRoles(r) ==
    /\ MayBump(User)
    /\ held' = IF r \in held THEN held \ {r} ELSE held \cup {r}
    /\ unbumped' = unbumped \cup {User}
    /\ UNCHANGED <<granted, stampVer, entry, check, losses, bumps, rewound>>

(* addPermissionToRole, removePermissionFromRole.                          *)
ChangePerms(r, p) ==
    /\ MayBump(r)
    /\ granted' = [granted EXCEPT ![r] = IF p \in @ THEN @ \ {p} ELSE @ \cup {p}]
    /\ unbumped' = unbumped \cup {r}
    /\ UNCHANGED <<held, stampVer, entry, check, losses, bumps, rewound>>

BumpPermFault(k) ==
    /\ k \in unbumped
    /\ stampVer' = [stampVer EXCEPT ![k] = 1]
    /\ bumps' = bumps + 1
    /\ unbumped' = unbumped \ {k}
    /\ UNCHANGED <<held, granted, entry, check, losses, rewound>>

(* bumpUser, bumpRole: INCR, which begins at 1 without a key.              *)
BumpPerm(k) ==
    /\ k \in unbumped
    /\ stampVer' = [stampVer EXCEPT ![k] = @ + 1]
    /\ bumps' = bumps + 1
    /\ unbumped' = unbumped \ {k}
    /\ UNCHANGED <<held, granted, entry, check, losses, rewound>>

(* The process ends before the INCR, or Redis evicts a version.            *)
LoseVersion(k) ==
    /\ losses < MaxLosses
    /\ losses' = losses + 1
    /\ \/ k \in unbumped /\ unbumped' = unbumped \ {k} /\ UNCHANGED stampVer
       \/ stampVer[k] > 0 /\ stampVer' = [stampVer EXCEPT ![k] = 0] /\ UNCHANGED unbumped
    /\ rewound' = rewound \cup {k}
    /\ UNCHANGED <<held, granted, entry, check, bumps>>

(* setRaw's time to live.                                                  *)
EntryExpires(stamp) ==
    /\ stamp \in DOMAIN entry
    /\ entry' = [s \in DOMAIN entry \ {stamp} |-> entry[s]]
    /\ UNCHANGED <<held, granted, stampVer, check, unbumped, losses, bumps, rewound>>

PermissionNext ==
    \/ \E c \in Checks :
          \/ AskPermission(c)
          \/ \E k \in Versioned : ReadStamp(c, k) \/ WriteStamp(c, k)
          \/ LookUp(c) \/ LoadPerms(c) \/ SavePerms(c)
    \/ \E r \in Roles : ChangeRoles(r) \/ \E p \in Perms : ChangePerms(r, p)
    \/ \E k \in Versioned : BumpPerm(k) \/ LoseVersion(k)
    \/ \E stamp \in DOMAIN entry : EntryExpires(stamp)

PermissionSpec == PermissionInit /\ [][PermissionNext]_permVars

-----------------------------------------------------------------------------

PermissionTypeOK ==
    /\ held \subseteq Roles
    /\ granted \in [Roles -> SUBSET Perms]
    /\ stampVer \in [Versioned -> 0..MaxBumps + 1]
    /\ \A s \in DOMAIN entry : DOMAIN s \subseteq Versioned /\ entry[s] \subseteq Perms

(* The entry that the next request will find, whichever roles the user     *)
(* holds by then, has the permissions those roles have now: unless the     *)
(* INCR of a change is still to come, was lost, or a version went back     *)
(* over a SET that another request had decided on.                         *)
CacheFollowsGrants ==
    \A roles \in SUBSET Roles :
        LET keys == {User} \cup roles  stamp == [k \in keys |-> stampVer[k]] IN
        stamp \in DOMAIN entry /\ entry[stamp] # GrantedTo(roles)
            => keys \cap (unbumped \cup rewound) # {}

-----------------------------------------------------------------------------

(***************************************************************************)
(* RbacService.checkPermissions, as PermissionsGuard and debugPerms call   *)
(* it, for one user and one property: a request takes the permissions of   *)
(* the user's roles, then reads who hosts the property, then the rules for *)
(* this one resource, and decides.  Roles, host and rules may change       *)
(* between the reads.  Where the permissions of the roles come from is     *)
(* modelled above.                                                         *)
(*                                                                         *)
(* Rules are stored under "property" and looked for as the caller spells   *)
(* the type: a Resource decorator says "Property", and finds none.         *)
(***************************************************************************)
CONSTANTS
    Needs,      \* sets of permissions that routes require
    Pool,       \* permissions that roles may grant
    MaxEdits    \* bound on changes

(* A permission is a pair of subject and action.                           *)
ASSUME AccessAssumption ==
    /\ \A need \in Needs : \A p \in need : p \in STRING \X STRING
    /\ Pool \subseteq STRING \X STRING

VARIABLES
    pool,      \* what the user's roles grant
    hosted,    \* whether the user hosts the property
    acl,       \* ResourceACL rows of the user for the property, by action
    ask,       \* the request
    edits,     \* changes so far
    grounds,   \* history: permissions the user had at some time of the request
    barred     \* history: actions denied all the time of the request

accessVars == <<pool, hosted, acl, ask, edits, grounds, barred>>

Acts == {p[2] : p \in UNION Needs}
NoAsk == [at |-> "idle", lower |-> FALSE, need |-> {}, rest |-> {}, owned |-> {}, denies |-> {},
          allowed |-> FALSE]

AccessInit ==
    /\ pool = {} /\ hosted = FALSE
    /\ acl = [a \in Acts |-> "none"]
    /\ ask = NoAsk
    /\ edits = 0
    /\ grounds = {} /\ barred = {}

-----------------------------------------------------------------------------

(* applyAcl: ALLOW rows add a permission, DENY rows are kept apart.        *)
Allows(rows) == {<<"property", a>> : a \in {b \in Acts : rows[b] = "ALLOW"}}
Denies(rows) == {<<"property", a>> : a \in {b \in Acts : rows[b] = "DENY"}}

(* applyOwnershipBoost.                                                    *)
Boost(isHost) == IF isHost THEN {<<"property", "manage">>} ELSE {}

(* match: the permission, manage on its subject, the action on all, all.   *)
Matches(p, owned) ==
    {p, <<p[1], "manage">>, <<"*", p[2]>>, <<"manage", "*">>} \cap owned # {}

(* checkPermissions' loop.                                                 *)
FailedFault(need, owned, denies) == {p \in need : p \in denies /\ ~Matches(p, owned)}

Failed(need, owned, denies) == {p \in need : p \in denies \/ ~Matches(p, owned)}

Grounds(roles, isHost, rows) == roles \cup Boost(isHost) \cup Allows(rows)

(* What the request could have seen, should pool, host or rules change.    *)
Witnessed ==
    IF ask.at \in {"idle", "decided"} THEN UNCHANGED <<grounds, barred>>
    ELSE /\ grounds' = grounds \cup Grounds(pool', hosted', acl')
         /\ barred' = barred \cap Denies(acl')

(* The guard: the permissions of a route are checked together, or one      *)
(* after the other until one is allowed; debugPerms checks them together,  *)
(* with the type that the admin gives.                                     *)
AskAccess(need) ==
    /\ ask.at = "idle"
    /\ \/ \E lower \in BOOLEAN :
             ask' = [NoAsk EXCEPT !.at = "expand", !.need = need, !.lower = lower]
       \/ \E p \in need : ask' = [NoAsk EXCEPT !.at = "expand", !.need = {p}, !.rest = need \ {p}]
    /\ grounds' = Grounds(pool, hosted, acl)
    /\ barred' = Denies(acl)
    /\ UNCHANGED <<pool, hosted, acl, edits>>

Expand ==
    /\ ask.at = "expand"
    /\ ask' = [ask EXCEPT !.at = "host", !.owned = pool]
    /\ UNCHANGED <<pool, hosted, acl, edits, grounds, barred>>

ReadHost ==
    /\ ask.at = "host"
    /\ ask' = [ask EXCEPT !.at = "acl", !.owned = @ \cup Boost(hosted)]
    /\ UNCHANGED <<pool, hosted, acl, edits, grounds, barred>>

ReadAcl ==
    /\ ask.at = "acl"
    /\ ask' = IF ask.lower
              THEN [ask EXCEPT !.at = "decide", !.owned = @ \cup Allows(acl), !.denies = Denies(acl)]
              ELSE [ask EXCEPT !.at = "decide"]
    /\ UNCHANGED <<pool, hosted, acl, edits, grounds, barred>>

Decide ==
    /\ ask.at = "decide"
    /\ LET allowed == Failed(ask.need, ask.owned, ask.denies) = {} IN
       IF allowed \/ ask.rest = {}
       THEN ask' = [ask EXCEPT !.at = "decided", !.allowed = allowed]
       ELSE \E p \in ask.rest :
               ask' = [NoAsk EXCEPT !.at = "expand", !.need = {p}, !.rest = ask.rest \ {p}]
    /\ UNCHANGED <<pool, hosted, acl, edits, grounds, barred>>

Answered ==
    /\ ask.at = "decided"
    /\ ask' = NoAsk
    /\ UNCHANGED <<pool, hosted, acl, edits, grounds, barred>>

-----------------------------------------------------------------------------

Edits == edits < MaxEdits /\ edits' = edits + 1

ChangePool(p) ==
    /\ Edits
    /\ pool' = IF p \in pool THEN pool \ {p} ELSE pool \cup {p}
    /\ UNCHANGED <<hosted, acl, ask>>
    /\ Witnessed

ChangeHost ==
    /\ Edits
    /\ hosted' = ~hosted
    /\ UNCHANGED <<pool, acl, ask>>
    /\ Witnessed

(* grantAcl: an upsert of the effect.                                      *)
GrantAcl(a, effect) ==
    /\ Edits
    /\ acl' = [acl EXCEPT ![a] = effect]
    /\ UNCHANGED <<pool, hosted, ask>>
    /\ Witnessed

RevokeAcl(a) ==
    /\ Edits
    /\ acl' = [acl EXCEPT ![a] = "none"]
    /\ UNCHANGED <<pool, hosted, ask>>
    /\ Witnessed

AccessNext ==
    \/ \E need \in Needs : AskAccess(need)
    \/ Expand \/ ReadHost \/ ReadAcl \/ Decide \/ Answered
    \/ \E p \in Pool : ChangePool(p)
    \/ ChangeHost
    \/ \E a \in Acts : RevokeAcl(a) \/ \E effect \in {"ALLOW", "DENY"} : GrantAcl(a, effect)

AccessSpec == AccessInit /\ [][AccessNext]_accessVars

-----------------------------------------------------------------------------

AccessTypeOK ==
    /\ pool \subseteq Pool /\ hosted \in BOOLEAN
    /\ acl \in [Acts -> {"none", "ALLOW", "DENY"}]
    /\ ask.at \in {"idle", "expand", "host", "acl", "decide", "decided"}

(* A rule that denies an action holds against roles, ownership and other   *)
(* rules, for a caller that spells the type as rules are stored: while it  *)
(* stands, no request that requires the action is let in.                  *)
DenyStands == ask.allowed /\ ask.lower => ask.need \cap barred = {}

(* Who is let in had, for each permission, some ground at some time of the *)
(* request, though perhaps never all at once.                              *)
AllowedOnGrounds == ask.allowed => \A p \in ask.need : Matches(p, grounds)
=============================================================================
