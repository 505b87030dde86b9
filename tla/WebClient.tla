----------------------------- MODULE WebClient -----------------------------
(***************************************************************************)
(* The web client's HTTP layer, lib/api.ts with lib/auth-store.ts and the  *)
(* AuthContext, in one browser tab: every request carries the access token *)
(* of the moment, a 401 makes the client refresh the token once for all    *)
(* requests that wait, and each of them is sent a second time.             *)
(*                                                                         *)
(* The refresh goes through the same interceptor as every other request.   *)
(* A 401 for the refresh itself therefore waits for refreshPromise, which  *)
(* is the promise of that very request.                                    *)
(***************************************************************************)
EXTENDS Integers

CONSTANTS
    Tasks,     \* requests the pages may have under way
    MaxTrouble \* bound: tokens that end, sessions that end, answers lost

ASSUME WebAssumption == MaxTrouble \in Nat

VARIABLES
    token,     \* accessToken of auth-store: "none", "good", "bad"
    cookie,    \* the refresh cookie is that of a living session
    refresh,   \* refreshPromise: none, its request on the way, its answer, or "stuck"
    task,      \* each request; a logout is served until a login follows
    trouble,   \* trouble so far
    signedOut, \* history: a logout settled and no login was served since
    excuse     \* history: a refresh or a login was under way then, or the logout never arrived

webVars == <<token, cookie, refresh, task, trouble, signedOut, excuse>>

NoTask == [at |-> "idle", kind |-> "call", token |-> "none", retried |-> FALSE, served |-> FALSE]

WebInit ==
    /\ cookie \in BOOLEAN
    /\ token \in {"none", "bad"} \cup (IF cookie THEN {"good"} ELSE {})
    /\ refresh = "none"
    /\ task = [t \in Tasks |-> NoTask]
    /\ trouble = 0
    /\ signedOut = FALSE /\ excuse = FALSE

-----------------------------------------------------------------------------
(* The browser                                                             *)

(* The request interceptor.  Pages that call, and the logout, are behind   *)
(* ProtectedRoute, the login is behind PublicOnlyRoute and its button is   *)
(* disabled while it runs.                                                 *)
SendTask(t, kind) ==
    /\ task[t].at = "idle"
    /\ (kind = "login") = (token = "none")
    /\ kind = "login" => \A o \in Tasks : task[o].at = "idle" \/ task[o].kind # "login"
    /\ task' = [task EXCEPT ![t] = [NoTask EXCEPT !.at = "sent", !.kind = kind, !.token = token]]
    /\ UNCHANGED <<token, cookie, refresh, trouble, signedOut, excuse>>

(* login stores the token it received; logout drops the token whatever     *)
(* became of the request.                                                  *)
Settle(t, ok) ==
    LET kind == task[t].kind IN
    /\ task' = [task EXCEPT ![t] = NoTask]
    /\ token' = CASE kind = "login" /\ ok -> task[t].token
                  [] kind = "logout" -> "none"
                  [] OTHER -> token
    /\ signedOut' = IF kind = "login" /\ ok THEN FALSE ELSE signedOut \/ kind = "logout"
    /\ excuse' = CASE kind = "login" /\ ok -> FALSE
                   [] kind = "logout" -> \/ refresh # "none" \/ ~task[t].served
                                         \/ \E o \in Tasks : task[o].at # "idle" /\ task[o].kind = "login"
                   [] OTHER -> excuse

ReceiveOk(t) ==
    /\ task[t].at = "ok"
    /\ Settle(t, TRUE)
    /\ UNCHANGED <<cookie, refresh, trouble>>

(* A 401 for the second attempt, or any other failure, goes to the page.   *)
ReceiveFailure(t) ==
    /\ task[t].at = "failed" \/ (task[t].at = "401" /\ task[t].retried)
    /\ Settle(t, FALSE)
    /\ UNCHANGED <<cookie, refresh, trouble>>

(* refreshAccessToken: a refresh under way is joined.                      *)
Joins == refresh # "none"

Receive401(t) ==
    /\ task[t].at = "401" /\ ~task[t].retried
    /\ task' = [task EXCEPT ![t].at = "waiting", ![t].retried = TRUE]
    /\ refresh' = IF Joins THEN refresh ELSE "sent"
    /\ UNCHANGED <<token, cookie, trouble, signedOut, excuse>>

ResolveFault(next) ==
    /\ token' = next
    /\ refresh' = "none"
    /\ task' = [t \in Tasks |->
          IF task[t].at # "waiting" \/ next = "none" THEN task[t]
          ELSE [task[t] EXCEPT !.at = "sent", !.token = next]]

(* refreshPromise resolves: the token is stored, and everyone who waits    *)
(* sends its request again, or gives its 401 to the page.                  *)
Resolve(next) ==
    /\ token' = next
    /\ refresh' = "none"
    /\ task' = [t \in Tasks |->
          IF task[t].at # "waiting" THEN task[t]
          ELSE [task[t] EXCEPT !.at = IF next = "none" THEN "failed" ELSE "sent", !.token = next]]

ReceiveRefresh ==
    /\ refresh \in {"good", "bad", "lost"}
    /\ Resolve(IF refresh = "lost" THEN "none" ELSE refresh)
    /\ UNCHANGED <<cookie, trouble, signedOut, excuse>>

(* The 401 of the refresh: its interceptor awaits refreshPromise.          *)
ReceiveRefused ==
    /\ refresh = "401"
    /\ refresh' = "stuck"
    /\ UNCHANGED <<token, cookie, task, trouble, signedOut, excuse>>

-----------------------------------------------------------------------------
(* The server                                                              *)

Dies(tok) == IF tok = "good" THEN "bad" ELSE tok

(* The tokens that are out: in the store, on requests and in an answer.    *)
TokensDie ==
    /\ token' = Dies(token)
    /\ refresh' = Dies(refresh)
    /\ task' = [t \in Tasks |-> [task[t] EXCEPT !.token = Dies(@)]]

ServeCall(t) ==
    /\ task[t].at = "sent" /\ task[t].kind = "call"
    /\ task' = [task EXCEPT ![t].at = IF task[t].token = "good" THEN "ok" ELSE "401"]
    /\ UNCHANGED <<token, cookie, refresh, trouble, signedOut, excuse>>

(* A password is right or wrong.                                           *)
ServeLogin(t) ==
    /\ task[t].at = "sent" /\ task[t].kind = "login"
    /\ \/ /\ task' = [o \in Tasks |-> IF o = t THEN [task[t] EXCEPT !.at = "ok", !.token = "good"]
                                       ELSE [task[o] EXCEPT !.served = FALSE]]
          /\ cookie' = TRUE /\ signedOut' = FALSE
       \/ /\ task' = [task EXCEPT ![t].at = "401"]
          /\ UNCHANGED <<cookie, signedOut>>
    /\ UNCHANGED <<token, refresh, trouble, excuse>>

ServeLogoutFault(t) ==
    /\ task[t].at = "sent" /\ task[t].kind = "logout"
    /\ task' = [task EXCEPT ![t].at = "ok", ![t].served = TRUE]
    /\ UNCHANGED <<token, cookie, refresh, trouble, signedOut, excuse>>

(* logout revokes the session, and the tokens die with it.                 *)
ServeLogout(t) ==
    /\ task[t].at = "sent" /\ task[t].kind = "logout"
    /\ IF task[t].token = "good"
       THEN /\ cookie' = FALSE
            /\ token' = Dies(token)
            /\ refresh' = Dies(refresh)
            /\ task' = [o \in Tasks |-> IF o = t THEN [task[t] EXCEPT !.at = "ok", !.served = TRUE]
                                        ELSE [task[o] EXCEPT !.token = Dies(@)]]
       ELSE /\ task' = [task EXCEPT ![t].at = "401"]
            /\ UNCHANGED <<token, cookie, refresh>>
    /\ UNCHANGED <<trouble, signedOut, excuse>>

ServeRefresh ==
    /\ refresh = "sent"
    /\ refresh' = IF cookie THEN "good" ELSE "401"
    /\ UNCHANGED <<token, cookie, task, trouble, signedOut, excuse>>

(* The access tokens expire or a version is bumped; the session ends.      *)
SessionTrouble ==
    /\ trouble < MaxTrouble
    /\ trouble' = trouble + 1
    /\ TokensDie
    /\ cookie' \in {cookie, FALSE}
    /\ UNCHANGED <<signedOut, excuse>>

(* No answer, or one that is neither success nor 401.                      *)
AnswerFails(t) ==
    /\ trouble < MaxTrouble
    /\ trouble' = trouble + 1
    /\ \/ /\ task[t].at \in {"sent", "ok", "401"}
          /\ task' = [task EXCEPT ![t].at = "failed"]
          /\ UNCHANGED refresh
       \/ /\ refresh \in {"sent", "good", "bad", "401"}
          /\ refresh' = "lost"
          /\ UNCHANGED task
    /\ UNCHANGED <<token, cookie, signedOut, excuse>>

-----------------------------------------------------------------------------

Progress(t) ==
    ReceiveOk(t) \/ ReceiveFailure(t) \/ Receive401(t) \/ ServeCall(t) \/ ServeLogin(t) \/ ServeLogout(t)

Refreshing == ReceiveRefresh \/ ReceiveRefused \/ ServeRefresh

WebNext ==
    \/ \E t \in Tasks : \/ \E kind \in {"call", "login", "logout"} : SendTask(t, kind)
                        \/ Progress(t) \/ AnswerFails(t)
    \/ Refreshing \/ SessionTrouble

WebSpec == WebInit /\ [][WebNext]_webVars

(* The server answers, and the browser runs what waits for the answer.     *)
WebFairness == WF_webVars(Refreshing) /\ \A t \in Tasks : WF_webVars(Progress(t))
WebLiveSpec == WebSpec /\ WebFairness

-----------------------------------------------------------------------------

WebTypeOK ==
    /\ token \in {"none", "good", "bad"} /\ cookie \in BOOLEAN
    /\ refresh \in {"none", "sent", "good", "bad", "401", "lost", "stuck"}
    /\ task \in [Tasks -> [at : {"idle", "sent", "ok", "401", "failed", "waiting"},
                           kind : {"call", "login", "logout"}, token : {"none", "good", "bad"},
                           retried : BOOLEAN, served : BOOLEAN]]

(* Every request of a page settles, also one whose first answer was a 401  *)
(* while others refreshed, unless the refresh was refused.                 *)
RequestsSettle == \A t \in Tasks : task[t].at # "idle" ~> task[t].at = "idle" \/ refresh = "stuck"

(* A user who signed out stays signed out, whatever answers arrive late:   *)
(* but for a refresh or a login under way when the logout settled, and for *)
(* a logout that the server did not serve last.                            *)
SignedOutStays == signedOut /\ ~excuse => token = "none"

(* doc/bump.md:51, a client whose session was revoked "has to log in       *)
(* again": a refused refresh drops the token, which leads to the login.    *)
RefusedSignsIn == refresh = "401" ~> token = "none" /\ refresh = "none"
=============================================================================
