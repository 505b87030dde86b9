--------------------------- MODULE RequestPipeline ---------------------------
(***************************************************************************)
(* The way of a request of the web client through the server: the CSRF     *)
(* middleware, the guards, the validation pipe, the handler, and for what  *)
(* any of them throws the GlobalExceptionFilter, whose status decides      *)
(* whether the client sends the request once more.                         *)
(*                                                                         *)
(* PermissionsGuard is global (RbacModule), JwtAuthGuard belongs to the    *)
(* controllers: Nest runs the first before the second has set req.user.    *)
(* No route carries @RateLimit, so that RateLimitGuard lets all through.   *)
(***************************************************************************)
EXTENDS Naturals

CONSTANTS
    Calls,      \* requests of one page
    MaxSubmits  \* bound on the submits of a page

ASSUME PipeAssumption == MaxSubmits \in Nat

VARIABLES
    submit,   \* each request
    submits   \* submits so far

pipeVars == <<submit, submits>>

(* Without a guard or @Public, under JwtAuthGuard, and under               *)
(* RequirePermissions as well.  Of the public ones login and refresh, and  *)
(* of the members' the verification of a code, write down what they refuse.*)
Routes == {"public", "login", "refresh", "member", "code", "admin"}

MarkingRoutes == {"login", "refresh", "code"}

(* The codes of an answer.                                                 *)
Codes ==
    {"none", "BAD_REQUEST", "UNAUTHORIZED", "FORBIDDEN", "NOT_FOUND", "CONFLICT", "UNPROCESSABLE_ENTITY",
     "TOO_MANY_REQUESTS", "INTERNAL_SERVER_ERROR", "HTTP_ERROR", "VALIDATION_ERROR", "TOKEN_EXPIRED",
     "DUPLICATE_ENTRY", "INVALID_RELATION", "REQUIRED_RELATION_MISSING", "VALUE_TOO_LONG",
     "RECORD_NOT_FOUND", "DATABASE_ERROR", "INTERNAL_ERROR", "UNKNOWN_ERROR"}

Answer(status, code) == [status |-> status, code |-> code]
Unanswered == Answer(0, "none")

NoSubmit == [at |-> "idle", route |-> "public", safe |-> TRUE, csrf |-> TRUE, token |-> "none",
             valid |-> TRUE, effects |-> 0, marks |-> 0, retried |-> FALSE, answer |-> Unanswered]

PipeInit ==
    /\ submit = [c \in Calls |-> NoSubmit]
    /\ submits = 0

-----------------------------------------------------------------------------

(* What is thrown: the class of the exception, the status and the code it  *)
(* carries; a Prisma error carries its own code, the others none.          *)
Thrown(class, status, code) == [class |-> class, status |-> status, code |-> code]

CodeOfStatus ==
    [s \in {400, 401, 403, 404, 409, 422, 429, 500} |->
        CASE s = 400 -> "BAD_REQUEST" [] s = 401 -> "UNAUTHORIZED" [] s = 403 -> "FORBIDDEN"
          [] s = 404 -> "NOT_FOUND" [] s = 409 -> "CONFLICT" [] s = 422 -> "UNPROCESSABLE_ENTITY"
          [] s = 429 -> "TOO_MANY_REQUESTS" [] s = 500 -> "INTERNAL_SERVER_ERROR"]

(* handleAppException.                                                     *)
AppAnswer(e) == Answer(e.status, e.code)

(* handleHttpException: Nest's own exceptions carry no code.               *)
HttpAnswer(e) ==
    Answer(e.status, IF e.status \in DOMAIN CodeOfStatus THEN CodeOfStatus[e.status] ELSE "HTTP_ERROR")

PrismaAnswers ==
    [P2002 |-> Answer(409, "DUPLICATE_ENTRY"),   P2025 |-> Answer(404, "NOT_FOUND"),
     P2003 |-> Answer(400, "INVALID_RELATION"),  P2014 |-> Answer(400, "REQUIRED_RELATION_MISSING"),
     P2000 |-> Answer(400, "VALUE_TOO_LONG"),    P2001 |-> Answer(404, "RECORD_NOT_FOUND")]

(* handlePrismaError: a serialization conflict, a time-out and a lost      *)
(* connection are none of these.                                           *)
PrismaAnswerFault(e) ==
    IF e.code \in DOMAIN PrismaAnswers THEN PrismaAnswers[e.code] ELSE Answer(400, "DATABASE_ERROR")

PrismaAnswer(e) ==
    IF e.code \in DOMAIN PrismaAnswers THEN PrismaAnswers[e.code] ELSE Answer(500, "DATABASE_ERROR")

JwtAnswer(e) == Answer(401, e.code)

(* handleGenericError.                                                     *)
GenericAnswer(e) == Answer(500, "INTERNAL_ERROR")

(* handleUnknownError: what is thrown is no Error.                         *)
UnknownAnswer(e) == Answer(500, "UNKNOWN_ERROR")

(* GlobalExceptionFilter.catch and buildErrorResponse.                     *)
AnswerTo(e) ==
    CASE e.class = "app"    -> AppAnswer(e)
      [] e.class = "http"   -> HttpAnswer(e)
      [] e.class = "prisma" -> PrismaAnswer(e)
      [] e.class = "jwt"    -> JwtAnswer(e)
      [] e.class = "error"  -> GenericAnswer(e)
      [] e.class = "other"  -> UnknownAnswer(e)

ValidationException == Thrown("app", 422, "VALIDATION_ERROR")
Forbidden == Thrown("http", 403, "none")
Unauthorized == Thrown("http", 401, "none")

(* What a handler throws that then rolls its transaction back: its own     *)
(* refusals, the database's, and a token in the body that has expired.     *)
Refusals ==
    {Thrown("http", s, "none") : s \in {400, 401, 403, 404, 409, 429}}
        \cup {Thrown("app", 409, "CONFLICT"), Thrown("jwt", 0, "TOKEN_EXPIRED")}
        \cup {Thrown("prisma", 0, c) : c \in {"P2002", "P2003", "P2034"}}

(* What is thrown after the commit, by completeOK or the answer's making.  *)
LateErrors == {Thrown("error", 0, "none"), Thrown("other", 0, "none"), Thrown("prisma", 0, "P1001")}

-----------------------------------------------------------------------------

At(c, at) == submit[c].at = at

Step(c, at) == submit' = [submit EXCEPT ![c].at = at]

Fail(c, e) == submit' = [submit EXCEPT ![c].at = "answered", ![c].answer = AnswerTo(e)]

(* A page submits a request, of any route and in any condition.            *)
SubmitCall(c) ==
    /\ At(c, "idle")
    /\ submits < MaxSubmits
    /\ submits' = submits + 1
    /\ \E route \in Routes, safe, csrf, valid \in BOOLEAN, token \in {"none", "bad", "good"} :
          submit' = [submit EXCEPT ![c] =
              [NoSubmit EXCEPT !.at = "csrf", !.route = route, !.safe = safe, !.csrf = csrf,
                               !.valid = valid, !.token = token]]

(* csurf's error goes to the handler of main.ts if Express asks it, which  *)
(* is registered before the middleware, and else to the filter.            *)
CheckCsrf(c) ==
    /\ At(c, "csrf")
    /\ IF submit[c].safe \/ submit[c].csrf
       THEN Step(c, "permissions")
       ELSE \/ submit' = [submit EXCEPT ![c].at = "answered", ![c].answer = Answer(403, "FORBIDDEN")]
            \/ Fail(c, Thrown("error", 0, "none"))
    /\ UNCHANGED submits

(* PermissionsGuard: a route that requires permissions has no user yet.    *)
CheckPermissions(c) ==
    /\ At(c, "permissions")
    /\ IF submit[c].route = "admin" THEN Fail(c, Forbidden) ELSE Step(c, "token")
    /\ UNCHANGED submits

(* JwtAuthGuard.                                                           *)
CheckToken(c) ==
    /\ At(c, "token")
    /\ IF submit[c].route \notin {"member", "code"} \/ submit[c].token = "good"
       THEN Step(c, "pipe") ELSE Fail(c, Unauthorized)
    /\ UNCHANGED submits

(* ValidationPipe with its exceptionFactory.                               *)
Validate(c) ==
    /\ At(c, "pipe")
    /\ IF submit[c].valid THEN Step(c, "handler") ELSE Fail(c, ValidationException)
    /\ UNCHANGED submits

(* A refusal that is written down in statements of its own: a wrong        *)
(* password or code is counted, a session from another device put on hold, *)
(* one whose old token came again revoked and its user locked.             *)
RefuseAndMark(c) ==
    /\ At(c, "handler")
    /\ submit[c].route \in MarkingRoutes
    /\ \E e \in {Unauthorized} \cup LateErrors :
          submit' = [submit EXCEPT ![c].at = "answered", ![c].answer = AnswerTo(e), ![c].marks = @ + 1]
    /\ UNCHANGED submits

(* The handler commits, or throws and rolls back.  It is one transaction;  *)
(* what it counts on the way (buckets, keys) belongs to other modules.     *)
Handle(c) ==
    /\ At(c, "handler")
    /\ \/ submit' = [submit EXCEPT ![c].at = "committed", ![c].effects = @ + 1]
       \/ \E e \in Refusals : Fail(c, e)
    /\ UNCHANGED submits

(* The interceptors pass a result or an error of the handler on.           *)
Reply(c) ==
    /\ At(c, "committed")
    /\ \/ submit' = [submit EXCEPT ![c].at = "answered", ![c].answer = Answer(200, "none")]
       \/ \E e \in LateErrors : Fail(c, e)
    /\ UNCHANGED submits

(* The client's own refresh, sent by its interceptor, waits for itself     *)
(* after a 401 (WebClient): it is neither sent once more nor answered.     *)
Hangs(c) == submit[c].route = "refresh" /\ submit[c].answer.status = 401

ReplayableFault(c) == submit[c].answer.status >= 401 /\ ~submit[c].retried /\ ~Hangs(c)

Replayable(c) == submit[c].answer.status = 401 /\ ~submit[c].retried /\ ~Hangs(c)

(* The client's interceptor: a 401 is answered by a refresh and, if that   *)
(* gives a token, by the same request once more.                           *)
Replay(c) ==
    /\ At(c, "answered")
    /\ Replayable(c)
    /\ submit' = [submit EXCEPT ![c].at = "csrf", ![c].retried = TRUE, ![c].token = "good",
                                ![c].answer = Unanswered]
    /\ UNCHANGED submits

(* The page shows the answer.                                              *)
ShowAnswer(c) ==
    /\ At(c, "answered") /\ ~Hangs(c)
    /\ submit' = [submit EXCEPT ![c] = NoSubmit]
    /\ UNCHANGED submits

PipeNext ==
    \E c \in Calls :
        \/ SubmitCall(c) \/ CheckCsrf(c) \/ CheckPermissions(c) \/ CheckToken(c) \/ Validate(c)
        \/ RefuseAndMark(c) \/ Handle(c) \/ Reply(c) \/ Replay(c) \/ ShowAnswer(c)

PipeSpec == PipeInit /\ [][PipeNext]_pipeVars

-----------------------------------------------------------------------------

PipeTypeOK ==
    /\ submit \in [Calls ->
          [at : {"idle", "csrf", "permissions", "token", "pipe", "handler", "committed", "answered"},
           route : Routes, safe : BOOLEAN, csrf : BOOLEAN, token : {"none", "bad", "good"},
           valid : BOOLEAN, effects : Nat, marks : Nat, retried : BOOLEAN,
           answer : [status : {0} \cup 200..500, code : Codes]]]
    /\ submits \in 0..MaxSubmits

(* What the client is told is what happened: a success was committed, a    *)
(* 4xx did nothing of what was asked for, so that it may be sent again or  *)
(* corrected, and only a 5xx leaves open what was done.  What a refusal    *)
(* writes down of itself is counted apart, as marks.                       *)
AnswerTellsEffect ==
    \A c \in Calls : At(c, "answered") =>
        LET s == submit[c] IN
        /\ s.answer.status < 400 => s.effects > 0
        /\ s.answer.status \in 400..499 => s.effects = 0

(* One submit has one effect, although the client sends it once more after *)
(* a 401.  Only where the page is asked for a password or a code may one   *)
(* submit be held against the user twice, and where none is asked, never.  *)
OneEffectPerSubmit ==
    \A c \in Calls :
        LET s == submit[c] IN
        /\ s.effects <= 1
        /\ s.marks <= IF s.retried /\ s.route \in {"login", "code"} THEN 2 ELSE 1
        /\ s.route \notin MarkingRoutes => s.marks = 0

(* What is committed passed every check, also on the second way.           *)
CommittedWasChecked ==
    \A c \in Calls : submit[c].effects > 0 =>
        LET s == submit[c] IN
        /\ s.safe \/ s.csrf
        /\ s.valid
        /\ s.route \in {"member", "code"} => s.token = "good"
        /\ s.route # "admin"
=============================================================================
