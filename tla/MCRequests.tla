----------------------------- MODULE MCRequests -----------------------------
(***************************************************************************)
(* Components that serve requests, or show their answers, and share no     *)
(* state with each other: part says which of them a behaviour is about,    *)
(* and the others stand still.                                             *)
(***************************************************************************)
EXTENDS HostCalendar, LoginLockout, MfaVerification, PropertyPhotos, Messaging, ReviewAggregates,
        AccessControl, TokenBucket, RequestPipeline, BookingPages, PropertyPage, CsrfTokens,
        RiskRules, BookingTerms

VARIABLE part

Parts == {"host", "lockout", "mfa", "photo", "chat", "inbox", "review", "permission", "access",
          "bucket", "pipeline", "pages", "form", "panel", "csrf", "risk", "terms"}

RequestsInit ==
    /\ part \in Parts
    /\ HostInit /\ LockoutInit /\ MfaInit /\ PhotoInit /\ ChatInit /\ InboxInit /\ ReviewInit
    /\ PermissionInit /\ AccessInit /\ BucketInit /\ PipeInit
    /\ PagesInit /\ FormInit /\ CalendarInit /\ CsrfInit /\ RiskInit /\ TermsInit
    /\ part # "panel" => range = CHOOSE r \in Ranges : TRUE
    /\ part # "risk" => ~guest.young
    /\ part # "terms" =>
          policy = (CHOOSE p \in Policies : TRUE) /\ offer = CHOOSE o \in Creatable : TRUE

Rests(p) ==
    CASE p = "host" -> UNCHANGED <<vars, hostVars>>
      [] p = "lockout" -> UNCHANGED lockoutVars
      [] p = "mfa" -> UNCHANGED mfaVars
      [] p = "photo" -> UNCHANGED photoVars
      [] p = "chat" -> UNCHANGED chatVars
      [] p = "inbox" -> UNCHANGED inboxVars
      [] p = "review" -> UNCHANGED reviewVars
      [] p = "permission" -> UNCHANGED permVars
      [] p = "access" -> UNCHANGED accessVars
      [] p = "bucket" -> UNCHANGED bucketVars
      [] p = "pipeline" -> UNCHANGED pipeVars
      [] p = "pages" -> UNCHANGED pageVars
      [] p = "form" -> UNCHANGED formVars
      [] p = "panel" -> UNCHANGED calendarVars
      [] p = "csrf" -> UNCHANGED csrfVars
      [] p = "risk" -> UNCHANGED riskVars
      [] p = "terms" -> UNCHANGED termVars

RequestsNext ==
    /\ UNCHANGED part
    /\ \A p \in Parts \ {part} : Rests(p)
    /\ \/ part = "host" /\ HostNext
       \/ part = "lockout" /\ LockoutNext
       \/ part = "mfa" /\ MfaNext
       \/ part = "photo" /\ PhotoNext
       \/ part = "chat" /\ ChatNext
       \/ part = "inbox" /\ InboxNext
       \/ part = "review" /\ ReviewNext
       \/ part = "permission" /\ PermissionNext
       \/ part = "access" /\ AccessNext
       \/ part = "bucket" /\ BucketNext
       \/ part = "pipeline" /\ PipeNext
       \/ part = "pages" /\ PagesNext
       \/ part = "form" /\ FormNext
       \/ part = "panel" /\ CalendarNext
       \/ part = "csrf" /\ CsrfNext
       \/ part = "risk" /\ RiskNext
       \/ part = "terms" /\ TermsNext

RequestsSpec ==
    RequestsInit /\ [][RequestsNext]_<<part, vars, hostVars, lockoutVars, mfaVars, photoVars,
        chatVars, inboxVars, reviewVars, permVars, accessVars, bucketVars, pipeVars, pageVars,
        formVars, calendarVars, csrfVars, riskVars, termVars>>

-----------------------------------------------------------------------------

(* Two nights of one room, the second without a row at first: guests want  *)
(* the first, the host writes both.                                        *)
MCDays == 1 .. 2
MCStays == {{1}}
MCCapacity == [d \in MCDays |-> IF d = 1 THEN 1 ELSE 0]
MCRooms == [d \in MCDays |-> 1]

(* One server's clock runs ahead of the other's.                           *)
MCSkew == [s \in {"s1", "s2"} |-> IF s = "s1" THEN 0 ELSE 1]

(* What routes require of a role, and what roles may grant.                *)
MCNeeds == {{<<"property", "update">>}, {<<"property", "update">>, <<"property", "manage">>}}
MCPool == {<<"property", "update">>, <<"property", "manage">>, <<"*", "update">>, <<"manage", "*">>}

(* Nothing back, half until the day and all from two days before, listed   *)
(* the wrong way round, or a third until the day before.                   *)
MCPolicies ==
    {<<>>, <<[beforeDays |-> 1, refundPercent |-> 33]>>,
     <<[beforeDays |-> 0, refundPercent |-> 50], [beforeDays |-> 2, refundPercent |-> 100]>>}
MCOffered == {-50, 15, 150}

(* Sign-in: at most MAX_FAILS guesses and MAX_VERIFY_ATTEMPTS codes may be *)
(* wrong for each request that races them, a code counts once, and a       *)
(* second factor that is asked for has been proven.                        *)
SignInSafe ==
    /\ part = "lockout" => LockoutTypeOK /\ GuessesBounded
    /\ part = "mfa" => MfaTypeOK /\ CodeOnce /\ EnabledWasProven /\ WrongBounded

(* The guards before every handler and the filter after it: a permission   *)
(* is answered from roles as they are, an access from grounds that existed *)
(* and never over a denial, no caller gets more than the bucket's rate,    *)
(* and an answer tells what the handler did.                               *)
GuardsSafe ==
    /\ part = "permission" => PermissionTypeOK /\ CacheFollowsGrants
    /\ part = "access" => AccessTypeOK /\ DenyStands /\ AllowedOnGrounds
    /\ part = "bucket" => BucketTypeOK /\ AdmitsWithinRate
    /\ part = "pipeline" =>
          PipeTypeOK /\ AnswerTellsEffect /\ OneEffectPerSubmit /\ CommittedWasChecked

(* The host's calendar: rooms that are not taken are offered.              *)
HostSafe == part = "host" => HostTypeOK /\ RoomsKept

(* What guests see of a property and are offered: its cover and the files  *)
(* it links stay, its rating is that of its reviews, races apart, a code   *)
(* and a cancellation are worth what the preview said, and a guest is      *)
(* looked at for more than one reason.                                     *)
ListingSafe ==
    /\ part = "photo" => PhotoTypeOK /\ CoverKept /\ UsedFileStays
    /\ part = "review" => ReviewTypeOK /\ RatingUnlessRaced
    /\ part = "risk" => RiskTypeOK /\ LevelWeighs /\ QuietBounded
    /\ part = "terms" => TermsTypeOK /\ DiscountCapped /\ KeptWord /\ BestRuleCounts

(* A blocked member writes nothing, a reader is told of every message, and *)
(* a walk through the inbox meets every conversation that stands still.    *)
ChatSafe ==
    /\ part = "chat" => ChatTypeOK /\ BlockHolds /\ NoneMissed
    /\ part = "inbox" => InboxTypeOK /\ ListedOnce

(* The pages say of a booking or of the calendar what the server has said, *)
(* and what they send is refused only for a cause they can know.           *)
PagesHonest ==
    /\ part = "pages" => PagesTypeOK /\ PanelHonest /\ ListHonest
    /\ part = "panel" => ShowsTheRange
    /\ part = "csrf" => CsrfTypeOK /\ RefusedForCause
=============================================================================
