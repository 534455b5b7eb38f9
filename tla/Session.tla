-------------------------------- MODULE Session --------------------------------
(***************************************************************************)
(* Who the browser takes the user for: the query ["me"] behind every page  *)
(* (hooks/use-me.ts), the guards of the routes (components/auth-guard.tsx, *)
(* admin-only.tsx, protected-layout.tsx, main.tsx), logging in and out     *)
(* (pages/login.tsx, hooks/use-logout.ts) and registering                  *)
(* (pages/register.tsx), against the session the server keeps.             *)
(***************************************************************************)
EXTENDS Naturals

CONSTANTS Users,        \* those who use this browser
          Nobody,
          Admins,       \* those with some permission of administration
          TwoFactor,    \* those who are asked for a second factor
          MaxLogins,    \* bounds: logins and registrations,
          MaxTrouble    \* lost answers, timeouts, expiries

ASSUME PeopleAssumption ==
    /\ Nobody \notin Users /\ Admins \subseteq Users /\ TwoFactor \subseteq Users
    /\ MaxLogins \in Nat /\ MaxTrouble \in Nat

VARIABLES cookie,      \* whose session the server sees
          me,          \* the cached query: [user, error]; error is none, timeout or other
          asking,      \* its request: none, asked, or whom the server named in its answer
          route,       \* the page shown
          cached,      \* whose mails, settings and so on the browser's cache holds
          login,       \* the login or registration under way: [at, user]
          leaving,     \* the logout under way: none, asked, or done by the server
          challenge,   \* for whom the server expects a second factor
          overlaid,    \* the model's own: a form took effect while another user had a session, or the
                       \* browser was still to hear of it
          logins, trouble
session == <<cookie, me, asking, route, cached, login, leaving, challenge, overlaid, logins, trouble>>

Guarded == {"/", "/profile", "/admin"}
Public  == {"/login", "/register"}
SomebodyOrNot == Users \cup {Nobody}
NobodyKnown == [user |-> Nobody, error |-> "none"]
NoLogin == [at |-> "idle", user |-> Nobody]
Trouble == trouble < MaxTrouble /\ trouble' = trouble + 1

SessionTypeOK ==
    /\ cookie \in SomebodyOrNot
    /\ me \in [user : SomebodyOrNot, error : {"none", "timeout", "other"}]
    /\ asking \in [at : {"none", "asked", "answered"}, user : SomebodyOrNot]
    /\ route \in Guarded \cup Public
    /\ cached \subseteq Users
    /\ login \in [at : {"idle", "login", "code", "register", "in", "registered", "challenged", "entering"},
                  user : SomebodyOrNot]
    /\ leaving \in {"none", "asked", "done"}
    /\ challenge \in SomebodyOrNot
    /\ overlaid \in BOOLEAN /\ logins \in 0..MaxLogins /\ trouble \in 0..MaxTrouble

NotAsking == [at |-> "none", user |-> Nobody]
AskMe     == [at |-> "asked", user |-> Nobody]

\* The page is loaded: with an empty cache, with or without a session.
SessionStart(c, r) ==
    /\ cookie = c /\ route = r
    /\ me = NobodyKnown /\ asking = AskMe
    /\ cached = {} /\ login = NoLogin /\ leaving = "none" /\ challenge = Nobody
    /\ overlaid = FALSE /\ logins = 0 /\ trouble = 0
SessionInit == \E c \in SomebodyOrNot, r \in Guarded \cup Public : SessionStart(c, r)

\* me.isLoading: no answer yet, and one is awaited.
Loading == me = NobodyKnown /\ asking.at # "none"

------------------------------------------------------------------------------
\* The query.

\* requireAuth looks the session up; without one the answer is an error.
ServeMe ==
    /\ asking.at = "asked"
    /\ asking' = [at |-> "answered", user |-> cookie]
    /\ UNCHANGED <<cookie, me, route, cached, login, leaving, challenge, logins, trouble, overlaid>>

\* An error leaves the user that was known.
AnswerMe ==
    /\ asking.at = "answered" /\ asking' = NotAsking
    /\ me' = IF asking.user = Nobody THEN [me EXCEPT !.error = "other"]
             ELSE [user |-> asking.user, error |-> "none"]
    /\ overlaid' = (overlaid \/ (login.at # "idle" /\ asking.user \notin {Nobody, login.user}))
    /\ UNCHANGED <<cookie, route, cached, login, leaving, challenge, logins, trouble>>

FailMe ==
    /\ asking.at # "none" /\ Trouble
    /\ asking' = NotAsking
    /\ \E e \in {"timeout", "other"} : me' = [me EXCEPT !.error = e]
    /\ UNCHANGED <<cookie, route, cached, login, leaving, challenge, logins, overlaid>>

\* A page that opens asks again for what is missing or older than ten seconds.
AsksAgain == asking' \in IF asking.at # "none" THEN {asking}
                         ELSE IF me.user = Nobody THEN {AskMe} ELSE {NotAsking, AskMe}
\* Without data an error is forgotten when the query is asked again.
OnAsking == me' = IF me.user = Nobody THEN NobodyKnown ELSE me

GoTo(r) == route' = r /\ AsksAgain /\ OnAsking

------------------------------------------------------------------------------
\* Routes.

\* As if AuthGuard did not tell a timeout from a refusal.
GuardSendsAwayAll == route \in Guarded /\ ~Loading /\ (me.error # "none" \/ me.user = Nobody)

\* AuthGuard: a timeout shows an error with a button, any other error leads to the login.
GuardSendsAway ==
    /\ route \in Guarded /\ ~Loading /\ me.error # "timeout"
    /\ me.error # "none" \/ me.user = Nobody
GuardWaits == Loading \/ me.error = "timeout"

RedirectToLogin ==
    /\ GuardSendsAway /\ GoTo("/login")
    /\ UNCHANGED <<cookie, cached, login, leaving, challenge, logins, trouble, overlaid>>

\* LoginPage and RegisterPage: who is known is led inside.
LeadsInside == route \in Public /\ me.user # Nobody
RedirectInside ==
    /\ LeadsInside /\ GoTo("/")
    /\ UNCHANGED <<cookie, cached, login, leaving, challenge, logins, trouble, overlaid>>

\* AdminOnly.
NotForAdmins == route = "/admin" /\ ~GuardSendsAway /\ ~GuardWaits /\ me.user \notin Admins
RedirectFromAdmin ==
    /\ NotForAdmins /\ GoTo("/")
    /\ UNCHANGED <<cookie, cached, login, leaving, challenge, logins, trouble, overlaid>>

Redirecting == GuardSendsAway \/ LeadsInside \/ NotForAdmins

\* Links between the pages; the guard is mounted anew only between the two groups.
Navigate ==
    /\ ~Redirecting
    /\ \/ route \in Guarded /\ ~GuardWaits /\ \E r \in Guarded \ {route} : GoTo(r)
       \/ route \in Public /\ \E r \in Public \ {route} : GoTo(r)
    /\ challenge' = IF route = "/login" THEN Nobody ELSE challenge
    /\ UNCHANGED <<cookie, cached, login, leaving, logins, trouble, overlaid>>

Retry ==
    /\ route \in Guarded /\ me.error = "timeout" /\ asking.at = "none"
    /\ asking' = AskMe /\ OnAsking
    /\ UNCHANGED <<cookie, route, cached, login, leaving, challenge, logins, trouble, overlaid>>

\* A page shows what the server answers under the session, and keeps it in the cache.
ShowPage ==
    /\ route \in Guarded /\ ~Redirecting /\ ~GuardWaits
    /\ cookie # Nobody /\ cached' = cached \cup {cookie}
    /\ UNCHANGED <<cookie, me, asking, route, login, leaving, challenge, logins, trouble, overlaid>>

------------------------------------------------------------------------------
\* Coming and going.

SubmitLogin(u) ==
    /\ route = "/login" /\ ~Redirecting /\ login.at = "idle"
    /\ \/ challenge = Nobody /\ login' = [at |-> "login", user |-> u]
       \/ challenge = u /\ login' = [at |-> "code", user |-> u]
    /\ logins < MaxLogins /\ logins' = logins + 1
    /\ UNCHANGED <<cookie, me, asking, route, cached, leaving, challenge, trouble, overlaid>>

SubmitRegistration(u) ==
    /\ route = "/register" /\ ~Redirecting /\ login.at = "idle"
    /\ login' = [at |-> "register", user |-> u]
    /\ logins < MaxLogins /\ logins' = logins + 1
    /\ UNCHANGED <<cookie, me, asking, route, cached, leaving, challenge, trouble, overlaid>>

\* handleLogin and handleRegister; a wrong password or code is an answer that changes nothing.
ServeLogin ==
    LET twoFactor == login.at = "login" /\ login.user \in TwoFactor
        enters    == IF login.at = "register" THEN "registered" ELSE "in" IN
    /\ login.at \in {"login", "code", "register"}
    /\ \/ ~twoFactor /\ cookie' = login.user /\ login' = [login EXCEPT !.at = enters]
       \/ twoFactor /\ login' = [login EXCEPT !.at = "challenged"] /\ UNCHANGED cookie
       \/ login' = NoLogin /\ UNCHANGED cookie
    /\ overlaid' = (overlaid \/ (cookie' # cookie /\ ~({cookie, asking.user} \subseteq {Nobody, cookie'})))
    /\ UNCHANGED <<me, asking, route, cached, leaving, challenge, logins, trouble>>

LoseLogin ==
    /\ login.at \notin {"idle", "entering"} /\ Trouble /\ login' = NoLogin
    /\ UNCHANGED <<cookie, me, asking, route, cached, leaving, challenge, logins, overlaid>>

\* onSuccess: a second factor is asked for, or ["me"] is asked anew.
AnswerLogin ==
    /\ login.at \in {"in", "challenged", "registered"}
    /\ login' = IF login.at = "registered" THEN [login EXCEPT !.at = "entering"] ELSE NoLogin
    /\ IF login.at = "challenged"
       THEN challenge' = login.user /\ UNCHANGED <<asking, me>>
       ELSE asking' = AskMe /\ OnAsking /\ UNCHANGED challenge
    /\ UNCHANGED <<cookie, route, cached, leaving, logins, trouble, overlaid>>

\* After a registration the page waits for that request to end, answered or not, and goes to the
\* profile.
EnterProfile ==
    /\ login.at = "entering" /\ asking.at = "none" /\ login' = NoLogin
    /\ GoTo("/profile")
    /\ UNCHANGED <<cookie, cached, leaving, challenge, logins, trouble, overlaid>>

BackToLogin ==
    /\ challenge # Nobody /\ route = "/login" /\ challenge' = Nobody
    /\ UNCHANGED <<cookie, me, asking, route, cached, login, leaving, logins, trouble, overlaid>>

\* As if a logout forgot the user and nothing else.
ForgetMe   == me' = NobodyKnown /\ UNCHANGED cached
ClearCache == me' = NobodyKnown /\ cached' = {}

\* useLogout: the cache is cleared when the request has ended, and its failure is ignored: the
\* session then lives on.
PressLogout ==
    /\ route \in Guarded /\ ~Redirecting /\ ~GuardWaits
    /\ leaving = "none" /\ leaving' = "asked"
    /\ UNCHANGED <<cookie, me, asking, route, cached, login, challenge, logins, trouble, overlaid>>
ServeLogout ==
    /\ leaving = "asked" /\ leaving' = "done" /\ cookie' = Nobody
    /\ UNCHANGED <<me, asking, route, cached, login, challenge, logins, trouble, overlaid>>
Logout ==
    /\ leaving # "none" /\ leaving' = "none"
    /\ IF leaving = "done" THEN UNCHANGED trouble ELSE Trouble
    /\ ClearCache
    /\ asking' = AskMe /\ route' = "/login"
    /\ UNCHANGED <<cookie, login, challenge, logins, overlaid>>

\* The session ends on the server: it has expired, or an administrator ended it.
Expire ==
    /\ cookie # Nobody /\ cookie' = Nobody /\ Trouble
    /\ UNCHANGED <<me, asking, route, cached, login, leaving, challenge, logins, overlaid>>

SessionNext ==
    \/ ServeMe \/ AnswerMe \/ FailMe \/ RedirectToLogin \/ RedirectInside \/ RedirectFromAdmin
    \/ Navigate \/ Retry \/ ShowPage
    \/ \E u \in Users : SubmitLogin(u) \/ SubmitRegistration(u)
    \/ ServeLogin \/ LoseLogin \/ AnswerLogin \/ EnterProfile \/ BackToLogin
    \/ PressLogout \/ ServeLogout \/ Logout \/ Expire
Redirects == RedirectToLogin \/ RedirectInside \/ RedirectFromAdmin

------------------------------------------------------------------------------
\* The user is known, but the last answer was a refusal or no answer at all: the guard leads to
\* the login, and the login back inside, until an answer comes that is neither.
KnownButRefused == me.user # Nobody /\ me.error = "other"

(***************************************************************************)
(* Redirects come to an end: the guards of the pages and the login do not  *)
(* send the user to and fro, except as long as a user is known whose last  *)
(* check failed.                                                           *)
(***************************************************************************)
RedirectsEnd == []<>(~Redirecting \/ KnownButRefused)

(***************************************************************************)
(* The browser never holds the mails of two users, although one may log in *)
(* after the other and requests of the first may still be under way;       *)
(* unless somebody logs in before the browser has found out about a        *)
(* session.                                                                *)
(***************************************************************************)
OneUsersData == ~overlaid => \A u, v \in cached : u = v
=============================================================================
