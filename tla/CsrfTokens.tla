------------------------------ MODULE CsrfTokens ------------------------------
(***************************************************************************)
(* The CSRF token of the web client, lib/api.ts with the server's          *)
(* CsrfMiddleware and CsrfController, in the tabs of one browser.          *)
(*                                                                         *)
(* The secret is a cookie, a token is made for one secret.  The server     *)
(* keeps nothing: a request without the cookie is given a new secret,      *)
(* whichever request it is, and the answer that arrives last overwrites    *)
(* what the tabs' tokens were made for.  Serving is part of sending.  The  *)
(* browser keeps the cookie, as it does over HTTPS.                        *)
(***************************************************************************)
EXTENDS Naturals, FiniteSets

CONSTANTS
    PageTabs,   \* tabs of the browser
    MaxMinted,  \* bound on secrets
    MaxPosts,   \* bound on clicks that post
    MaxLost     \* bound on answers to /csrf/token that are lost

ASSUME CsrfAssumption == MaxMinted \in Nat

VARIABLES
    jar,        \* the cookie: a secret, 0 for none
    minted,     \* secrets so far
    csrfToken,  \* each tab's token, by its secret; 0 for null
    asking,     \* each tab's csrfPromise
    post,       \* each tab's post
    reading,    \* each tab's other request, a GET
    posted,     \* posts so far
    lostTokens, \* answers lost
    overwrites, \* history: times a cookie was replaced by another
    refusals,   \* history: posts of each tab that were refused
    unaware     \* history: tabs whose refusal was not a 403

csrfVars == <<jar, minted, csrfToken, asking, post, reading, posted, lostTokens, overwrites, refusals, unaware>>

NoRequest == [at |-> "idle", secret |-> 0, brought |-> FALSE, passes |-> FALSE]

CsrfInit ==
    /\ jar = 0 /\ minted = 0
    /\ csrfToken = [t \in PageTabs |-> 0]
    /\ asking = [t \in PageTabs |-> NoRequest]
    /\ post = [t \in PageTabs |-> NoRequest]
    /\ reading = [t \in PageTabs |-> NoRequest]
    /\ posted = 0 /\ lostTokens = 0 /\ overwrites = 0
    /\ refusals = [t \in PageTabs |-> 0]
    /\ unaware = {}

-----------------------------------------------------------------------------

(* csurf: the secret of a request, a new one if it came without.           *)
SecretOf == IF jar = 0 THEN minted + 1 ELSE jar

Mints ==
    /\ SecretOf <= MaxMinted
    /\ minted' = IF jar = 0 THEN minted + 1 ELSE minted

(* An answer arrives: its Set-Cookie, if it has one, replaces the cookie.  *)
(* One that carried the cookie leaves it alone.                            *)
Arrives(r) ==
    IF r.brought THEN UNCHANGED <<jar, overwrites>>
    ELSE /\ jar' = r.secret
         /\ overwrites' = IF jar = 0 THEN overwrites ELSE overwrites + 1

(* A request on its way: the secret it is served with, whether it brought  *)
(* that, and whether its token is one for it.                              *)
OnItsWay(t) == [at |-> "sent", secret |-> SecretOf, brought |-> jar # 0,
            passes |-> jar # 0 /\ csrfToken[t] = jar]

(* ensureCsrfToken starts a fetch, or joins the one under way.             *)
Ensure(t) ==
    IF asking[t].at = "idle"
    THEN Mints /\ asking' = [asking EXCEPT ![t] = OnItsWay(t)]
    ELSE UNCHANGED <<minted, asking>>

(* A click that posts: without a token the interceptor waits for one.      *)
Click(t) ==
    /\ post[t].at = "idle"
    /\ posted < MaxPosts
    /\ posted' = posted + 1
    /\ IF csrfToken[t] = 0
       THEN Ensure(t) /\ post' = [post EXCEPT ![t] = [NoRequest EXCEPT !.at = "waiting"]]
       ELSE Mints /\ post' = [post EXCEPT ![t] = OnItsWay(t)] /\ UNCHANGED asking
    /\ UNCHANGED <<jar, csrfToken, reading, lostTokens, overwrites, refusals, unaware>>

(* AuthProvider asks for a token when the page loads.                      *)
LoadPage(t) ==
    /\ csrfToken[t] = 0 /\ asking[t].at = "idle"
    /\ Ensure(t)
    /\ UNCHANGED <<jar, csrfToken, post, reading, posted, lostTokens, overwrites, refusals, unaware>>

(* A query of the page; it needs no token.                                 *)
Query(t) ==
    /\ reading[t].at = "idle"
    /\ Mints
    /\ reading' = [reading EXCEPT ![t] = OnItsWay(t)]
    /\ UNCHANGED <<jar, csrfToken, asking, post, posted, lostTokens, overwrites, refusals, unaware>>

QueryAnswered(t) ==
    /\ reading[t].at = "sent"
    /\ Arrives(reading[t])
    /\ reading' = [reading EXCEPT ![t] = NoRequest]
    /\ UNCHANGED <<minted, csrfToken, asking, post, posted, lostTokens, refusals, unaware>>

(* fetchCsrfToken ends: with a token, or with null when the answer is lost.*)
(* A post that waited for it may go, one that was refused is rejected.     *)
TokenAnswered(t) ==
    /\ asking[t].at = "sent"
    /\ \/ /\ Arrives(asking[t])
          /\ csrfToken' = [csrfToken EXCEPT ![t] = asking[t].secret]
          /\ UNCHANGED lostTokens
       \/ /\ lostTokens < MaxLost
          /\ lostTokens' = lostTokens + 1
          /\ csrfToken' = [csrfToken EXCEPT ![t] = 0]
          /\ UNCHANGED <<jar, overwrites>>
    /\ asking' = [asking EXCEPT ![t] = NoRequest]
    /\ post' = [post EXCEPT ![t].at = CASE @ = "waiting" -> "ready" [] @ = "refused" -> "idle" [] OTHER -> @]
    /\ UNCHANGED <<minted, reading, posted, refusals, unaware>>

SendPost(t) ==
    /\ post[t].at = "ready"
    /\ Mints
    /\ post' = [post EXCEPT ![t] = OnItsWay(t)]
    /\ UNCHANGED <<jar, csrfToken, asking, reading, posted, lostTokens, overwrites, refusals, unaware>>

(* The next Ensure forces a fetch, without looking at the token.           *)
PostAnswered(t) ==
    /\ post[t].at = "sent"
    /\ Arrives(post[t])
    /\ IF post[t].passes
       THEN /\ post' = [post EXCEPT ![t] = NoRequest]
            /\ refusals' = [refusals EXCEPT ![t] = 0]
            /\ UNCHANGED unaware
       ELSE /\ refusals' = [refusals EXCEPT ![t] = @ + 1]
            /\ \/ post' = [post EXCEPT ![t] = [NoRequest EXCEPT !.at = "renew"]] /\ UNCHANGED unaware
               \/ post' = [post EXCEPT ![t] = NoRequest] /\ unaware' = unaware \cup {t}
    /\ UNCHANGED <<minted, csrfToken, asking, reading, posted, lostTokens>>

RenewFault(t) ==
    /\ post[t].at = "renew"
    /\ post' = [post EXCEPT ![t] = NoRequest]
    /\ UNCHANGED <<jar, minted, csrfToken, asking, reading, posted, lostTokens, overwrites, refusals, unaware>>

(* A 403: ensureCsrfToken(true), and the page is told when it has ended.   *)
Renew(t) ==
    /\ post[t].at = "renew"
    /\ Ensure(t)
    /\ post' = [post EXCEPT ![t].at = "refused"]
    /\ UNCHANGED <<jar, csrfToken, reading, posted, lostTokens, overwrites, refusals, unaware>>

CsrfNext ==
    \E t \in PageTabs :
        \/ LoadPage(t) \/ Click(t) \/ SendPost(t) \/ PostAnswered(t) \/ Renew(t)
        \/ TokenAnswered(t) \/ Query(t) \/ QueryAnswered(t)

CsrfSpec == CsrfInit /\ [][CsrfNext]_csrfVars

-----------------------------------------------------------------------------

CsrfTypeOK ==
    /\ jar \in 0..minted /\ minted \in 0..MaxMinted
    /\ csrfToken \in [PageTabs -> 0..MaxMinted]
    /\ \A t \in PageTabs : post[t].at \in {"idle", "waiting", "ready", "sent", "renew", "refused"}
    /\ \A t \in PageTabs : asking[t].at \in {"idle", "sent"} /\ reading[t].at \in {"idle", "sent"}

(* However the tabs' first requests race for the cookie, a page is refused *)
(* once for each time an answer overwrote it, or a token was lost on its   *)
(* way, and never without a cause: a refused page that clicks again, after *)
(* the 403 has made the client fetch another token, gets through.          *)
RefusedForCause ==
    \A t \in PageTabs \ unaware : refusals[t] <= overwrites + lostTokens
=============================================================================
