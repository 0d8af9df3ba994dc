----------------------------- MODULE WebSession -----------------------------
(***************************************************************************)
(* The signed-in session of the web client: one tab of a browser in full,  *)
(* and the other tabs by what they do to the cookie all of them share.     *)
(*                                                                         *)
(* The tab keeps three things that must agree with the cookie: the cached  *)
(* session query (who is signed in), the CSRF token of the HTTP adapter,   *)
(* and the cached queries of that person.  They are set by answers that    *)
(* arrive late, in any order or never, and tabs tell each other only that  *)
(* something changed.                                                      *)
(*                                                                         *)
(* The server decides on a request when it is sent; the answer, with the   *)
(* cookie it sets, reaches the browser in a later step.  Sessions are      *)
(* numbered in the order they are issued, and a session's number is also   *)
(* its CSRF token.                                                         *)
(*                                                                         *)
(* The tab files an answer under the person it shows; the server answers   *)
(* with the data of the person whose cookie came with the request.  The    *)
(* two differ while the tab has not noticed that the cookie has changed.   *)
(***************************************************************************)
EXTENDS Naturals, Sequences

CONSTANTS
    Users,        \* the people who sign in in it
    MaxSessions,  \* bound: sessions the server issues in a behaviour
    Nobody,       \* no user, no session: a 401, a cleared cookie, a signed-out tab
    Loading       \* the session query before its first answer; also "nothing under way"

ASSUME SessionAssumption ==
    /\ MaxSessions \in Nat
    /\ Nobody # Loading /\ {Nobody, Loading} \cap (Users \cup Nat) = {}

VARIABLES
    cookie,    \* the session in the cookie jar, or Nobody
    issued,    \* for each session the server issued, whose it is
    revoked,   \* the sessions a password change has made invalid
    tab,       \* what the tab holds, see TabType
    other,     \* the request another tab has under way
    strayed    \* HISTORY: since the tab began to show its person, the cookie has been
               \* someone else's

sessionVars == <<cookie, issued, revoked, tab, other>>
sessionHistory == <<sessionVars, strayed>>

Session == 1..MaxSessions
Answer  == Session \cup {Nobody}

\* The requests of a tab other than its queries: one at a time, with what the
\* server answered.
\* "adopt" is a change of sign-in method that is answered and still has to have
\* the person's queries fetched again before it sets the session.
CallType == [kind : {"write", "logout", "password", "method", "adopt", "login"},
             got : Answer]

TabType == [
    shown : Users \cup {Nobody, Loading},              \* the session query's data
    csrf  : Answer,                                    \* the adapter's csrfToken
    live  : Answer \cup {Loading},                     \* the answer on its way to the session query
    late  : Answer \cup {Loading},                     \* the answer of a fetch it has given up
    data  : SUBSET [key : Users, of : Users],          \* queries ['u', key] with the data of whom
    read  : [key : Users, of : Users \cup {Nobody}]    \* a user query being fetched; of: whose
              \cup {Loading},                          \* data is the answer, Nobody for a 401
    call  : CallType \cup {Loading},
    news  : BOOLEAN,                                   \* a broadcast not yet handled
    mixed : BOOLEAN]                                   \* csrf was last set by an answer the shown
                                                       \* user does not come from

SessionTypeOK ==
    /\ cookie \in Answer
    /\ issued \in Seq(Users) /\ Len(issued) <= MaxSessions
    /\ revoked \subseteq 1..Len(issued)
    /\ tab \in TabType
    /\ other \in [kind : {"password", "login"}, got : Session] \cup {Loading}
    /\ strayed \in BOOLEAN

-----------------------------------------------------------------------------
\* The server.

\* The session a request sent now is made in, Nobody when it is answered 401.
Current == IF cookie \in revoked THEN Nobody ELSE cookie
UserOf(s) == IF s = Nobody THEN Nobody ELSE issued[s]

\* Mutant: any token will do.
AuthorizedAnyToken(token) == Current # Nobody

\* A request that changes something needs the CSRF token of its own session.
Authorized(token) == Current # Nobody /\ token = Current

\* Issuing a session for u; a password change first revokes all of u's.
CanIssue == Len(issued) < MaxSessions
Issue(u) == issued' = Append(issued, u)
NewSession == Len(issued) + 1
SessionsOf(u) == {s \in 1..Len(issued) : issued[s] = u}

-----------------------------------------------------------------------------
\* What the tab does with its own state.

\* Mutant: what is cached stays.
DropOthersNot(s) == s

\* The effect on the signed-in user's id: drop the queries of everyone else.
DropOthers(s) ==
    [s EXCEPT !.data = {d \in @ : d.key = s.shown},
              !.read = IF @ # Loading /\ @.key = s.shown THEN @ ELSE Loading]

DropAll(s) == [s EXCEPT !.data = {}, !.read = Loading]

\* New data for the session query.
Show(s, u) ==
    LET next == [s EXCEPT !.shown = u]
    IN  IF s.shown = u \/ {s.shown, u} = {Loading, Nobody} THEN next ELSE DropOthers(next)

\* invalidateQueries(['session']): refetch.  A query that has data gives up the
\* fetch under way, though the request goes on; one without data waits for it.
\* (Of several fetches given up, only the last is still answered here.)
Revalidate(s, now) ==
    IF s.live = Loading THEN [s EXCEPT !.live = now]
    ELSE IF s.shown = Loading THEN s
    ELSE [s EXCEPT !.late = s.live, !.live = now]

\* setSession after a sign-in or a changed sign-in method.
SetSession(s, u) == [DropAll(s) EXCEPT !.shown = u]

-----------------------------------------------------------------------------
NewTab == [shown |-> Loading, csrf |-> Nobody, live |-> Loading, late |-> Loading,
           data |-> {}, read |-> Loading, call |-> Loading,
           news |-> FALSE, mixed |-> FALSE]

SessionInit ==
    /\ issued = <<>>
    /\ cookie = Nobody
    /\ revoked = {}
    /\ tab = NewTab
    /\ other = Loading
    /\ strayed = FALSE

\* The tab starts, or comes back into view: session() is fetched again, unless
\* a fetch is already under way.
Focus ==
    /\ tab.live = Loading
    /\ tab' = [tab EXCEPT !.live = Current]
    /\ UNCHANGED <<cookie, issued, revoked, other>>

\* Mutant: a 401 leaves the last known session.
SessionArrivesKeeping ==
    /\ tab.live # Loading
    /\ LET got == tab.live
           s   == [tab EXCEPT !.csrf = got, !.live = Loading, !.mixed = FALSE]
       IN  tab' = IF got = Nobody THEN s ELSE Show(s, UserOf(got))
    /\ UNCHANGED <<cookie, issued, revoked, other>>

\* The answer of the current session fetch: 401 is an answer, "signed out".
SessionArrives ==
    /\ tab.live # Loading
    /\ LET got == tab.live
           s   == [tab EXCEPT !.csrf = got, !.live = Loading, !.mixed = FALSE]
       IN  tab' = Show(s, UserOf(got))
    /\ UNCHANGED <<cookie, issued, revoked, other>>

\* No answer, or a server error: the last known session is kept.
SessionFails ==
    /\ tab.live # Loading
    /\ tab' = [tab EXCEPT !.live = Loading]
    /\ UNCHANGED <<cookie, issued, revoked, other>>

\* A fetch the query has given up still runs the adapter's code when answered.
LateSession ==
    /\ tab.late # Loading
    /\ tab' = [tab EXCEPT !.late = Loading, !.csrf = tab.late, !.mixed = TRUE]
    /\ UNCHANGED <<cookie, issued, revoked, other>>

NewsArrives ==
    /\ tab.news
    /\ tab' = [Revalidate(tab, Current) EXCEPT !.news = FALSE]
    /\ UNCHANGED <<cookie, issued, revoked, other>>

\* A user query is fetched, under the key of the user shown, with the cookie.
\* The server answers with the data of the person whose session the cookie is.
Read ==
    /\ tab.shown \in Users /\ tab.read = Loading
    /\ tab' = [tab EXCEPT !.read = [key |-> tab.shown, of |-> UserOf(Current)]]
    /\ UNCHANGED <<cookie, issued, revoked, other>>

\* The answer is cached as it is.  (What it replaces stays in the set: many
\* queries have one key.)
ReadArrives ==
    /\ tab.read # Loading
    /\ LET s == [tab EXCEPT !.read = Loading]
       IN  tab' = IF tab.read.of # Nobody THEN [s EXCEPT !.data = @ \cup {tab.read}]
                  ELSE Revalidate(s, Current)
    /\ UNCHANGED <<cookie, issued, revoked, other>>

ReadFails ==
    /\ tab.read # Loading
    /\ tab' = [tab EXCEPT !.read = Loading]
    /\ UNCHANGED <<cookie, issued, revoked, other>>

-----------------------------------------------------------------------------
\* Requests that change something.  Send: the server decides.

Call(kind, got) ==
    tab' = [tab EXCEPT !.call = [kind |-> kind, got |-> got]]

\* A form of the signed-in pages is submitted.
SendWrite ==
    /\ tab.call = Loading /\ tab.shown \in Users
    /\ Call("write", IF Authorized(tab.csrf) THEN Current ELSE Nobody)
    /\ UNCHANGED <<cookie, issued, revoked, other>>

SendLogout ==
    /\ tab.call = Loading /\ tab.shown \in Users
    /\ Call("logout", IF Authorized(tab.csrf) THEN Current ELSE Nobody)
    /\ UNCHANGED <<cookie, issued, revoked, other>>

\* A change of password, or of the ways to sign in (single sign-on unlinked, a
\* password added or removed): every session of the user ends, a new one is issued.
Renew(kind) ==
    /\ tab.call = Loading /\ tab.shown \in Users
    /\ \/ /\ Authorized(tab.csrf) /\ CanIssue
          /\ Issue(UserOf(Current))
          /\ revoked' = revoked \cup SessionsOf(UserOf(Current))
          /\ Call(kind, NewSession)
       \/ /\ Call(kind, Nobody)  \* the token, or the current password, is wrong
          /\ UNCHANGED <<issued, revoked>>
    /\ UNCHANGED <<cookie, other>>

SendPassword == Renew("password")
SendMethod   == Renew("method")

\* The sign-in and sign-up pages are there only for a signed-out tab.
SendLogin ==
    /\ tab.call = Loading /\ tab.shown = Nobody
    /\ \/ /\ CanIssue
          /\ \E u \in Users : Issue(u)
          /\ Call("login", NewSession)
       \/ /\ Call("login", Nobody)     \* the username or password is wrong
          /\ UNCHANGED issued
    /\ UNCHANGED <<cookie, revoked, other>>

\* Their answers.  A mutation answered 401 re-checks the session.

Idle == [tab EXCEPT !.call = Loading]

Answered(kind) == tab.call # Loading /\ tab.call.kind = kind

WriteArrives ==
    /\ Answered("write")
    /\ tab' = IF tab.call.got = Nobody THEN Revalidate(Idle, Current) ELSE Idle
    /\ UNCHANGED <<cookie, issued, revoked, other>>

\* Signed out, or a 401 that is taken to mean the session had ended already.
SignedOut(s) == [DropAll(s) EXCEPT !.shown = Nobody]

LogoutArrives ==
    /\ Answered("logout")
    /\ IF tab.call.got = Nobody
       THEN /\ tab' = SignedOut(Idle)
            /\ UNCHANGED cookie
       ELSE /\ tab' = [SignedOut(Idle) EXCEPT !.csrf = Nobody, !.mixed = FALSE]
            /\ cookie' = Nobody
    /\ UNCHANGED <<issued, revoked, other>>

\* The new cookie and token; the session query and the other tabs are not told.
PasswordArrives ==
    /\ Answered("password")
    /\ IF tab.call.got = Nobody
       THEN /\ tab' = Revalidate(Idle, Current)
            /\ UNCHANGED cookie
       ELSE /\ cookie' = tab.call.got
            /\ tab' = [Idle EXCEPT !.csrf = tab.call.got,
                                   !.mixed = tab.shown # UserOf(tab.call.got)]
    /\ UNCHANGED <<issued, revoked, other>>

\* The same, and then, when the queries are fetched again, the session is set to
\* the one answered, whatever became of the cookie in the meantime.
MethodArrives ==
    /\ Answered("method")
    /\ IF tab.call.got = Nobody
       THEN /\ tab' = Revalidate(Idle, Current)
            /\ UNCHANGED cookie
       ELSE /\ cookie' = tab.call.got
            /\ tab' = [tab EXCEPT !.call.kind = "adopt", !.csrf = tab.call.got,
                                  !.mixed = tab.shown # UserOf(tab.call.got)]
    /\ UNCHANGED <<issued, revoked, other>>

AdoptSession ==
    /\ Answered("adopt")
    /\ tab' = [SetSession(Idle, UserOf(tab.call.got)) EXCEPT !.mixed = tab.csrf # tab.call.got]
    /\ UNCHANGED <<cookie, issued, revoked, other>>

LoginArrives ==
    /\ Answered("login")
    /\ IF tab.call.got = Nobody
       THEN /\ tab' = Revalidate(Idle, Current)
            /\ UNCHANGED cookie
       ELSE /\ cookie' = tab.call.got
            /\ tab' = [SetSession(Idle, UserOf(tab.call.got))
                          EXCEPT !.csrf = tab.call.got, !.mixed = FALSE]
    /\ UNCHANGED <<issued, revoked, other>>

\* The answer is lost: its cookie is lost with it, and nothing else changes.
CallFails ==
    /\ tab.call # Loading /\ ~Answered("adopt")
    /\ tab' = Idle
    /\ UNCHANGED <<cookie, issued, revoked, other>>

\* The session ends in the browser: its lifetime is over.
Expire ==
    /\ cookie # Nobody
    /\ cookie' = Nobody
    /\ UNCHANGED <<issued, revoked, tab, other>>

-----------------------------------------------------------------------------
\* The other tabs: each acts as this one does, whatever it shows.

OtherSends ==
    /\ other = Loading
    /\ CanIssue
    /\ \/ /\ \E u \in Users : Issue(u)
          /\ other' = [kind |-> "login", got |-> NewSession]
          /\ UNCHANGED revoked
       \/ /\ Current # Nobody
          /\ Issue(UserOf(Current))
          /\ revoked' = revoked \cup SessionsOf(UserOf(Current))
          /\ other' = [kind |-> "password", got |-> NewSession]
    /\ UNCHANGED <<cookie, tab>>

OtherAnswered ==
    /\ other # Loading
    /\ cookie' = other.got
    /\ tab' = [tab EXCEPT !.news = @ \/ other.kind = "login"]
    /\ other' = Loading
    /\ UNCHANGED <<issued, revoked>>

\* Another tab signs out, or takes its 401 for having signed out.
OtherSignsOut ==
    /\ cookie' \in {cookie, Nobody}
    /\ tab' = [tab EXCEPT !.news = TRUE]
    /\ UNCHANGED <<issued, revoked, other>>

OtherFails ==
    /\ other # Loading
    /\ other' = Loading
    /\ UNCHANGED <<cookie, issued, revoked, tab>>

SessionStep ==
    \/ Focus \/ SessionArrives \/ SessionFails \/ LateSession \/ NewsArrives
    \/ Read \/ ReadArrives \/ ReadFails
    \/ SendWrite \/ SendLogout \/ SendPassword \/ SendMethod \/ SendLogin
    \/ WriteArrives \/ LogoutArrives \/ PasswordArrives \/ MethodArrives \/ AdoptSession
    \/ LoginArrives \/ CallFails
    \/ OtherSends \/ OtherAnswered \/ OtherFails \/ OtherSignsOut \/ Expire

Strays ==
    strayed' = \/ strayed /\ tab'.shown = tab.shown
               \/ UserOf(Current)' \notin {tab'.shown, Nobody}

SessionNext == SessionStep /\ Strays

SessionSpec == SessionInit /\ [][SessionNext]_sessionHistory

\* Messages between tabs arrive; a session fetch sent again and again is at
\* some time answered.  Nothing is assumed of the person.
SessionFairness ==
    /\ WF_sessionVars(NewsArrives)
    /\ SF_sessionVars(SessionArrives)

-----------------------------------------------------------------------------
(* Everything the tab has cached or is fetching is under the key of the    *)
(* person it shows, and is their own data unless, since the tab began to   *)
(* show them, the cookie has been another person's: whatever was read for  *)
(* an earlier screen, whoever's data it is, goes with a switch noticed in  *)
(* any way, and none that is under way is put back (session.tsx 62-69 and  *)
(* 71-92, queries.ts 24-32).                                               *)
Foreign(d) == d.of \notin {d.key, Nobody}
ClearedOnSwitch ==
    /\ \A d \in tab.data : d.key = tab.shown
    /\ tab.read # Loading => tab.read.key = tab.shown
    /\ (\E d \in tab.data : Foreign(d)) \/ (tab.read # Loading /\ Foreign(tab.read)) => strayed

(* A form submitted in the name of one person is never applied to another  *)
(* person's data, although the tab learns of a switch of the cookie only   *)
(* later: the token it sends is that of the session it shows, and the      *)
(* server refuses it in any other (httpAdapter.ts 30-37, session.tsx       *)
(* 36-60).  It is so unless an answer no longer expected has set the token *)
(* by itself, or a changed sign-in method the session (mixed).             *)
WritesAsShown ==
    [][SendWrite /\ tab'.call.got # Nobody /\ ~tab.mixed
         => UserOf(tab'.call.got) = tab.shown]_sessionVars

(* A tab that is brought back into view again and again shows, in the end  *)
(* and for good, the person whose session the browser holds, or the        *)
(* sign-in page when there is none (session.tsx 36-60, the comments on     *)
(* refetch and revalidation).                                              *)
ShowsTheCookie == tab.shown = UserOf(Current)
SessionConverges == []<><<Focus>>_sessionVars => <>[]ShowsTheCookie

=============================================================================
