--------------------------- MODULE WebWritesProofs ---------------------------
(***************************************************************************)
(* Proofs about what the web client sends, for any people, accounts,       *)
(* instruments, amounts and files, any bounds, and any other tabs: the     *)
(* session it is sent in, and the forms and sheets it is filled in on.     *)
(*                                                                         *)
(* Hardly a property is inductive by itself.  That a submitted form is     *)
(* applied to the person shown rests on what the tab knows of its token,   *)
(* TokenOfShown; that rests on every session mentioned anywhere, in an     *)
(* answer on its way too, having been issued (Known), since the owner of a *)
(* session is fixed when it is issued and sessions are only appended.      *)
(* Likewise what a sheet sends was right when it was filled in or reviewed,*)
(* and that it still is when the server has it must be said of every       *)
(* request that was sent.  Each section begins with the invariant that     *)
(* says so.                                                                *)
(***************************************************************************)
EXTENDS WebSession, WebWrites, FiniteLemmas

-----------------------------------------------------------------------------
(* The session *)

\* The sessions, and the absence of one, that a request or an answer can carry.
Known(log) == 1..Len(log) \cup {Nobody}

\* The token is that of a session of the person shown, unless something else
\* than the session query has set one of the two.
TokenOfShown(t, log) ==
    ~t.mixed /\ t.shown \in Users => t.csrf = Nobody \/ log[t.csrf] = t.shown

\* What is true of a tab when the server has issued the sessions of log.
TabInv(t, log) ==
    /\ t \in TabType
    /\ t.csrf \in Known(log)
    /\ t.live \in Known(log) \cup {Loading}
    /\ t.late \in Known(log) \cup {Loading}
    /\ t.call # Loading => t.call.got \in Known(log)
    /\ \A d \in t.data : d.key = t.shown
    /\ t.read # Loading => t.read.key = t.shown
    /\ TokenOfShown(t, log)

SessionInv ==
    /\ SessionTypeOK
    /\ cookie \in Known(issued)
    /\ other # Loading => other.got \in 1..Len(issued)
    /\ TabInv(tab, issued)

\* What the tab has of other people it got while the cookie was theirs; it can
\* be theirs only if the tab has noticed no such thing yet.
OwnDataInv ==
    /\ strayed \/ UserOf(Current) \in {tab.shown, Nobody}
    /\ \A d \in tab.data : Foreign(d) => strayed
    /\ tab.read # Loading /\ Foreign(tab.read) => strayed

-----------------------------------------------------------------------------
\* A request is made in a session that was issued, and by a person who exists.
LEMMA CurrentKnown ==
    ASSUME SessionInv
    PROVE  Current \in Known(issued)
  BY DEF SessionInv, Current, Known

LEMMA OwnerKnown ==
    ASSUME NEW log \in Seq(Users), NEW s \in Known(log)
    PROVE  /\ s # Nobody => s \in 1..Len(log) /\ log[s] \in Users
           /\ s # Loading
           /\ Len(log) <= MaxSessions => s \in Answer
  BY SessionAssumption DEF Known, Answer, Session

\* The tab re-checks its session: only what is on its way changes.
LEMMA RevalidateKeeps ==
    ASSUME NEW log \in Seq(Users), Len(log) <= MaxSessions, NEW t, TabInv(t, log),
           NEW now \in Known(log)
    PROVE  TabInv(Revalidate(t, now), log)
  BY OwnerKnown, ZenonT(60) DEF TabInv, TabType, TokenOfShown, Revalidate

\* A request has ended.
LEMMA IdleKeeps ==
    ASSUME NEW log \in Seq(Users), TabInv(tab, log)
    PROVE  TabInv(Idle, log)
  BY DEF TabInv, TabType, TokenOfShown, Idle

\* A request is sent.
LEMMA CallKeeps ==
    ASSUME NEW log \in Seq(Users), Len(log) <= MaxSessions, TabInv(tab, log),
           NEW kind \in {"write", "logout", "password", "method", "adopt", "login"},
           NEW got \in Known(log), Call(kind, got)
    PROVE  TabInv(tab', log)
  BY OwnerKnown, SessionAssumption DEF TabInv, TabType, CallType, TokenOfShown, Call

\* A session is issued: whose the earlier ones are does not change.
LEMMA IssueKeeps ==
    ASSUME SessionInv, CanIssue, NEW u \in Users, Issue(u)
    PROVE  /\ issued' \in Seq(Users) /\ Len(issued') <= MaxSessions
           /\ Len(issued') = Len(issued) + 1
           /\ NewSession \in 1..Len(issued') /\ NewSession \in Known(issued')
           /\ Known(issued) \subseteq Known(issued')
           /\ TabInv(tab, issued')
  <1>1. issued \in Seq(Users) /\ Len(issued) < MaxSessions /\ Len(issued) \in Nat
    BY DEF SessionInv, SessionTypeOK, CanIssue
  <1>2. /\ issued' \in Seq(Users) /\ Len(issued') = Len(issued) + 1
        /\ \A s \in 1..Len(issued) : issued'[s] = issued[s]
    BY <1>1 DEF Issue
  <1>3. Len(issued') <= MaxSessions
    BY <1>1, <1>2, SessionAssumption
  <1>4. /\ NewSession \in 1..Len(issued') /\ NewSession \in Known(issued')
        /\ Known(issued) \subseteq Known(issued')
    BY <1>1, <1>2 DEF NewSession, Known
  <1>5. TokenOfShown(tab, issued')
    BY <1>1, <1>2 DEF SessionInv, TabInv, TokenOfShown, Known
  <1>6. TabInv(tab, issued')
    BY <1>4, <1>5 DEF SessionInv, TabInv
  <1> QED BY <1>2, <1>3, <1>4, <1>6

\* A step of the tab alone keeps the invariant if the tab does.
LEMMA TabAlone ==
    ASSUME SessionInv, strayed' \in BOOLEAN, UNCHANGED <<cookie, issued, revoked, other>>,
           TabInv(tab', issued)
    PROVE  SessionInv'
  BY DEF SessionInv, SessionTypeOK, TabInv, TokenOfShown, Known

\* A step that issues a session keeps it, if what it writes was issued.
LEMMA IssuedAlone ==
    ASSUME SessionInv, strayed' \in BOOLEAN, UNCHANGED cookie,
           issued' \in Seq(Users), Len(issued') <= MaxSessions, Len(issued) <= Len(issued'),
           Known(issued) \subseteq Known(issued'),
           revoked' \subseteq 1..Len(issued'),
           other' \in [kind : {"password", "login"}, got : Session] \cup {Loading},
           other' # Loading => other'.got \in 1..Len(issued'),
           TabInv(tab', issued')
    PROVE  SessionInv'
  BY OwnerKnown DEF SessionInv, SessionTypeOK, TabInv, TokenOfShown

\* Someone is shown: what is cached, or being fetched, is theirs.
LEMMA ShowOf ==
    ASSUME NEW t \in TabType, NEW u \in Users \cup {Nobody},
           \A d \in t.data : d.key = t.shown, t.read # Loading => t.read.key = t.shown
    PROVE  /\ Show(t, u) \in TabType
           /\ Show(t, u).shown = u
           /\ Show(t, u).csrf = t.csrf /\ Show(t, u).mixed = t.mixed
           /\ Show(t, u).live = t.live /\ Show(t, u).late = t.late
           /\ Show(t, u).call = t.call
           /\ IF t.shown = u THEN Show(t, u).data = t.data /\ Show(t, u).read = t.read
                             ELSE Show(t, u).data = {} /\ Show(t, u).read = Loading
  <1> DEFINE next == [t EXCEPT !.shown = u]
  <1>1. /\ next \in TabType /\ next.shown = u /\ next.csrf = t.csrf /\ next.mixed = t.mixed
        /\ next.live = t.live /\ next.late = t.late /\ next.call = t.call
        /\ next.data = t.data /\ next.read = t.read
    BY DEF TabType
  <1>2. CASE t.shown = u \/ {t.shown, u} = {Loading, Nobody}
    <2>1. t.shown # u => t.data = {} /\ t.read = Loading
      BY <1>2, SessionAssumption DEF TabType
    <2>2. Show(t, u) = next
      BY <1>2 DEF Show
    <2> QED BY <1>1, <2>1, <2>2
  <1>3. CASE ~(t.shown = u \/ {t.shown, u} = {Loading, Nobody})
    <2> DEFINE left == {d \in next.data : d.key = u}
               read == IF next.read # Loading /\ next.read.key = u THEN next.read ELSE Loading
               r    == [next EXCEPT !.data = left, !.read = read]
    <2>1. Show(t, u) = r
      BY <1>1, <1>3 DEF Show, DropOthers
    <2>2. read = Loading
      BY <1>1, <1>3
    <2>3. left = {}
      BY <1>1, <1>3
    <2> HIDE DEF next, left, read
    <2>4. /\ r \in TabType /\ r.shown = next.shown /\ r.csrf = next.csrf
          /\ r.mixed = next.mixed /\ r.live = next.live /\ r.late = next.late
          /\ r.call = next.call /\ r.data = left /\ r.read = read
      BY <1>1, <2>2, <2>3 DEF TabType
    <2> HIDE DEF r
    <2> QED BY <1>1, <1>3, <2>1, <2>2, <2>3, <2>4
  <1> QED BY <1>2, <1>3

\* The session query has an answer, and the tab shows whose it is.
LEMMA ShownKeeps ==
    ASSUME SessionInv, NEW got \in Known(issued)
    PROVE  TabInv(Show([tab EXCEPT !.csrf = got, !.live = Loading, !.mixed = FALSE],
                       UserOf(got)), issued)
  <1> DEFINE s == [tab EXCEPT !.csrf = got, !.live = Loading, !.mixed = FALSE]
             u == UserOf(got)
  <1>1. u \in Users \cup {Nobody} /\ issued \in Seq(Users) /\ got \in Answer
    BY OwnerKnown DEF SessionInv, SessionTypeOK, UserOf
  <1>2. /\ s \in TabType /\ s.shown = tab.shown /\ s.data = tab.data /\ s.read = tab.read
        /\ s.csrf = got /\ s.live = Loading /\ s.late = tab.late /\ s.call = tab.call
        /\ s.mixed = FALSE
    BY <1>1 DEF SessionInv, TabInv, TabType
  <1>3. got = Nobody \/ issued[got] = u
    BY DEF UserOf
  <1>4. /\ (\A d \in s.data : d.key = s.shown) /\ (s.read # Loading => s.read.key = s.shown)
        /\ s.late \in Known(issued) \cup {Loading}
        /\ s.call # Loading => s.call.got \in Known(issued)
    BY <1>2 DEF SessionInv, TabInv
  <1> DEFINE r == Show(s, u)
  <1> HIDE DEF s, u
  <1>5. /\ r \in TabType /\ r.shown = u /\ r.csrf = got /\ r.mixed = FALSE /\ r.live = Loading
        /\ r.late = s.late /\ r.call = s.call /\ (\A d \in r.data : d.key = u)
        /\ r.read # Loading => r.read.key = u
    BY <1>1, <1>2, <1>4, ShowOf
  <1> HIDE DEF r
  <1>6. TabInv(r, issued)
    BY <1>3, <1>4, <1>5 DEF TabInv, TokenOfShown
  <1> QED BY <1>6 DEF r, s, u

\* A fetch answered, given up or failed; a message from another tab.
LEMMA FetchSteps ==
    ASSUME SessionInv, strayed' \in BOOLEAN,
           Focus \/ SessionArrives \/ SessionFails \/ LateSession \/ NewsArrives
    PROVE  SessionInv'
  <1> USE SessionAssumption
  <1>0. /\ issued \in Seq(Users) /\ Len(issued) <= MaxSessions
        /\ Current \in Known(issued) /\ Current \in Answer /\ TabInv(tab, issued)
    BY CurrentKnown, OwnerKnown DEF SessionInv, SessionTypeOK
  <1>1. CASE Focus
    BY <1>0, <1>1, TabAlone DEF Focus, TabInv, TabType, TokenOfShown
  <1>2. CASE SessionArrives
    <2>1. tab.live \in Known(issued)
      BY <1>0, <1>2 DEF SessionArrives, TabInv
    <2>2. TabInv(tab', issued)
      BY <1>2, <2>1, ShownKeeps DEF SessionArrives
    <2> QED BY <1>2, <2>2, TabAlone DEF SessionArrives
  <1>3. CASE SessionFails
    BY <1>0, <1>3, TabAlone DEF SessionFails, TabInv, TabType, TokenOfShown
  <1>4. CASE LateSession
    <2>1. tab.late \in Known(issued) /\ tab.late \in Answer
      BY <1>0, <1>4, OwnerKnown DEF LateSession, TabInv
    <2>2. TabInv(tab', issued)
      BY <1>0, <1>4, <2>1 DEF LateSession, TabInv, TabType, TokenOfShown
    <2> QED BY <1>4, <2>2, TabAlone DEF LateSession
  <1>5. CASE NewsArrives
    <2> DEFINE r == Revalidate(tab, Current)
    <2>1. TabInv(r, issued)
      BY <1>0, RevalidateKeeps
    <2> HIDE DEF r
    <2>2. TabInv([r EXCEPT !.news = FALSE], issued)
      BY <2>1 DEF TabInv, TabType, TokenOfShown
    <2> QED BY <1>5, <2>2, TabAlone DEF NewsArrives, r
  <1> QED BY <1>1, <1>2, <1>3, <1>4, <1>5

\* A query of the person shown.
LEMMA ReadSteps ==
    ASSUME SessionInv, strayed' \in BOOLEAN, Read \/ ReadArrives \/ ReadFails
    PROVE  SessionInv'
  <1> USE SessionAssumption
  <1>0. /\ issued \in Seq(Users) /\ Len(issued) <= MaxSessions
        /\ Current \in Known(issued) /\ TabInv(tab, issued)
    BY CurrentKnown DEF SessionInv, SessionTypeOK
  <1>1. CASE Read
    <2>1. [key |-> tab.shown, of |-> UserOf(Current)]
            \in [key : Users, of : Users \cup {Nobody}]
      BY <1>0, <1>1, OwnerKnown DEF Read, UserOf
    <2>2. TabInv(tab', issued)
      BY <1>0, <1>1, <2>1, ZenonT(60) DEF Read, TabInv, TabType, TokenOfShown
    <2> QED BY <1>1, <2>2, TabAlone DEF Read
  <1>2. CASE ReadArrives
    <2> DEFINE s == [tab EXCEPT !.read = Loading]
    <2>1. /\ tab.read \in [key : Users, of : Users \cup {Nobody}]
          /\ tab.read.key = tab.shown
      BY <1>0, <1>2 DEF ReadArrives, TabInv, TabType
    <2>2. TabInv(s, issued)
      BY <1>0 DEF TabInv, TabType, TokenOfShown
    <2>3. s.shown = tab.shown
      BY <1>0 DEF TabInv, TabType
    <2> HIDE DEF s
    <2>4. ASSUME tab.read.of # Nobody
          PROVE  TabInv([s EXCEPT !.data = @ \cup {tab.read}], issued)
      <3>1. tab.read \in [key : Users, of : Users]
        BY <2>1, <2>4
      <3> QED BY <2>1, <2>2, <2>3, <3>1 DEF TabInv, TabType, TokenOfShown
    <2>5. TabInv(Revalidate(s, Current), issued)
      BY <1>0, <2>2, RevalidateKeeps
    <2>6. TabInv(tab', issued)
      BY <1>2, <2>4, <2>5 DEF ReadArrives, s
    <2> QED BY <1>2, <2>6, TabAlone DEF ReadArrives
  <1>3. CASE ReadFails
    BY <1>0, <1>3, TabAlone DEF ReadFails, TabInv, TabType, TokenOfShown
  <1> QED BY <1>1, <1>2, <1>3

\* A request that changes something is decided by the server.
LEMMA SendSteps ==
    ASSUME SessionInv, strayed' \in BOOLEAN,
           SendWrite \/ SendLogout \/ SendPassword \/ SendMethod \/ SendLogin
    PROVE  SessionInv'
  <1>0. /\ issued \in Seq(Users) /\ Len(issued) <= MaxSessions
        /\ Current \in Known(issued) /\ Nobody \in Known(issued) /\ TabInv(tab, issued)
    BY CurrentKnown DEF SessionInv, SessionTypeOK, Known
  <1>1. CASE SendWrite
    BY <1>0, <1>1, CallKeeps, TabAlone DEF SendWrite
  <1>2. CASE SendLogout
    BY <1>0, <1>2, CallKeeps, TabAlone DEF SendLogout
  <1>3. ASSUME NEW kind \in {"password", "method"}, Renew(kind)
        PROVE  SessionInv'
    <2>1. CASE /\ Authorized(tab.csrf) /\ CanIssue
               /\ Issue(UserOf(Current))
               /\ revoked' = revoked \cup SessionsOf(UserOf(Current))
               /\ Call(kind, NewSession)
      <3>1. UserOf(Current) \in Users
        BY <1>0, <2>1, OwnerKnown DEF Authorized, UserOf
      <3>2. /\ issued' \in Seq(Users) /\ Len(issued') <= MaxSessions
            /\ Len(issued') = Len(issued) + 1
            /\ NewSession \in Known(issued')
            /\ Known(issued) \subseteq Known(issued')
            /\ TabInv(tab, issued')
        BY <2>1, <3>1, IssueKeeps
      <3>3. TabInv(tab', issued')
        BY <2>1, <3>2, CallKeeps
      <3>4. Len(issued) \in Nat /\ revoked \subseteq 1..Len(issued)
        BY <1>0 DEF SessionInv, SessionTypeOK
      <3>5. revoked' \subseteq 1..Len(issued')
        <4>1. revoked' = revoked \cup {s \in 1..Len(issued) : issued[s] = UserOf(Current)}
          BY <2>1 DEF SessionsOf
        <4>2. revoked' \subseteq 1..Len(issued)
          BY <3>4, <4>1
        <4> QED BY <3>2, <3>4, <4>2
      <3>6. UNCHANGED <<cookie, other>>
        BY <1>3 DEF Renew
      <3>7. /\ other' \in [kind : {"password", "login"}, got : Session] \cup {Loading}
            /\ other' # Loading => other'.got \in 1..Len(issued')
        BY <3>2, <3>4, <3>6 DEF SessionInv, SessionTypeOK
      <3>8. Len(issued) <= Len(issued')
        BY <3>2, <3>4
      <3> QED BY <3>2, <3>3, <3>5, <3>6, <3>7, <3>8, IssuedAlone
    <2>2. CASE Call(kind, Nobody) /\ UNCHANGED <<issued, revoked>>
      BY <1>0, <1>3, <2>2, CallKeeps, TabAlone DEF Renew
    <2> QED BY <1>3, <2>1, <2>2 DEF Renew
  <1>4. CASE SendLogin
    <2>1. ASSUME NEW u \in Users, CanIssue, Issue(u), Call("login", NewSession)
          PROVE  SessionInv'
      <3>2. /\ issued' \in Seq(Users) /\ Len(issued') <= MaxSessions
            /\ Len(issued') = Len(issued) + 1
            /\ NewSession \in Known(issued')
            /\ Known(issued) \subseteq Known(issued')
            /\ TabInv(tab, issued')
        BY <2>1, IssueKeeps
      <3>3. TabInv(tab', issued')
        BY <2>1, <3>2, CallKeeps
      <3>4. Len(issued) \in Nat /\ revoked \subseteq 1..Len(issued)
        BY <1>0 DEF SessionInv, SessionTypeOK
      <3>5. UNCHANGED <<cookie, revoked, other>>
        BY <1>4 DEF SendLogin
      <3>6. revoked' \subseteq 1..Len(issued')
        BY <3>2, <3>4, <3>5
      <3>7. /\ other' \in [kind : {"password", "login"}, got : Session] \cup {Loading}
            /\ other' # Loading => other'.got \in 1..Len(issued')
        BY <3>2, <3>4, <3>5 DEF SessionInv, SessionTypeOK
      <3>8. Len(issued) <= Len(issued')
        BY <3>2, <3>4
      <3> QED BY <3>2, <3>3, <3>5, <3>6, <3>7, <3>8, IssuedAlone
    <2>2. CASE Call("login", Nobody) /\ UNCHANGED issued
      BY <1>0, <1>4, <2>2, CallKeeps, TabAlone DEF SendLogin
    <2> QED BY <1>4, <2>1, <2>2 DEF SendLogin
  <1> QED BY <1>1, <1>2, <1>3, <1>4 DEF SendPassword, SendMethod

\* The tab is signed out, or signed in: nobody else's queries are left.
LEMMA SignedOutKeeps ==
    ASSUME NEW log \in Seq(Users), NEW t, TabInv(t, log)
    PROVE  TabInv(SignedOut(t), log) /\ TabInv([SignedOut(t) EXCEPT !.csrf = Nobody, !.mixed = FALSE], log)
  BY SessionAssumption, ZenonT(60) DEF TabInv, TabType, TokenOfShown, SignedOut, DropAll, Known, Answer

LEMMA SetSessionOf ==
    ASSUME NEW log \in Seq(Users), NEW t, TabInv(t, log), NEW u \in Users \cup {Nobody}
    PROVE  LET r == SetSession(t, u)
           IN  /\ r \in TabType /\ r.shown = u /\ r.data = {} /\ r.read = Loading
               /\ r.csrf = t.csrf /\ r.live = t.live /\ r.late = t.late /\ r.call = t.call
  BY DEF TabInv, TabType, SetSession, DropAll

\* The answer of such a request arrives, or is lost.
LEMMA AnswerSteps ==
    ASSUME SessionInv, strayed' \in BOOLEAN,
           \/ WriteArrives \/ LogoutArrives \/ PasswordArrives \/ MethodArrives
           \/ AdoptSession \/ LoginArrives \/ CallFails
    PROVE  SessionInv'
  <1> USE SessionAssumption
  <1> DEFINE got == tab.call.got
  <1>0. /\ issued \in Seq(Users) /\ Len(issued) <= MaxSessions
        /\ Current \in Known(issued) /\ TabInv(tab, issued)
        /\ cookie \in Known(issued) /\ Nobody \in Known(issued)
    BY CurrentKnown DEF SessionInv, SessionTypeOK, Known
  <1>1. tab.call # Loading =>
          /\ got \in Known(issued) /\ got \in Answer
          /\ got # Nobody => UserOf(got) \in Users /\ issued[got] = UserOf(got)
    BY <1>0, OwnerKnown DEF TabInv, UserOf
  <1>2. TabInv(Idle, issued) /\ TabInv(Revalidate(Idle, Current), issued)
    BY <1>0, IdleKeeps, RevalidateKeeps
  <1>3. /\ Idle \in TabType /\ Idle.shown = tab.shown /\ Idle.csrf = tab.csrf
        /\ Idle.mixed = tab.mixed
    BY <1>0, <1>2 DEF TabInv, Idle, TabType
  <1>4. CASE WriteArrives
    BY <1>2, <1>4, TabAlone DEF WriteArrives
  <1>5. CASE CallFails
    BY <1>2, <1>5, TabAlone DEF CallFails
  <1>6. ASSUME UNCHANGED <<issued, revoked, other>>, cookie' \in Known(issued),
               TabInv(tab', issued)
        PROVE  SessionInv'
    BY <1>0, <1>6, OwnerKnown DEF SessionInv, SessionTypeOK, TabInv, TokenOfShown, Known
  <1>7. CASE LogoutArrives
    <2>1. TabInv(tab', issued) /\ cookie' \in Known(issued)
      BY <1>0, <1>2, <1>7, SignedOutKeeps DEF LogoutArrives
    <2> QED BY <1>6, <1>7, <2>1 DEF LogoutArrives
  <1>8. CASE PasswordArrives
    <2>1. CASE got = Nobody
      BY <1>0, <1>2, <1>6, <1>8, <2>1 DEF PasswordArrives
    <2>2. CASE got # Nobody
      <3>1. got \in Known(issued) /\ got \in Answer /\ issued[got] = UserOf(got)
        BY <1>1, <1>8, <2>2 DEF PasswordArrives, Answered
      <3>2. TabInv([Idle EXCEPT !.csrf = got, !.mixed = tab.shown # UserOf(got)], issued)
        <4> DEFINE m == tab.shown # UserOf(got)
        <4>1. m \in BOOLEAN /\ (~m => tab.shown = UserOf(got))
          OBVIOUS
        <4> DEFINE r == [Idle EXCEPT !.csrf = got, !.mixed = m]
        <4> HIDE DEF m
        <4>2. /\ r \in TabType /\ r.csrf = got /\ r.mixed = m /\ r.shown = tab.shown
              /\ r.live = Idle.live /\ r.late = Idle.late /\ r.call = Idle.call
              /\ r.data = Idle.data /\ r.read = Idle.read
          BY <1>3, <3>1, <4>1 DEF TabType
        <4> HIDE DEF r
        <4>3. TokenOfShown(r, issued)
          BY <3>1, <4>1, <4>2 DEF TokenOfShown
        <4>4. TabInv(r, issued)
          BY <1>2, <1>3, <3>1, <4>2, <4>3 DEF TabInv
        <4> QED BY <4>4 DEF m, r
      <3> QED BY <1>6, <1>8, <2>2, <3>1, <3>2 DEF PasswordArrives
    <2> QED BY <2>1, <2>2
  <1>9. CASE MethodArrives
    <2>1. CASE got = Nobody
      BY <1>0, <1>2, <1>6, <1>9, <2>1 DEF MethodArrives
    <2>2. CASE got # Nobody
      <3>1. got \in Known(issued) /\ got \in Answer /\ issued[got] = UserOf(got)
            /\ tab.call # Loading
        BY <1>1, <1>9, <2>2 DEF MethodArrives, Answered
      <3>2. tab.call \in CallType
        BY <1>0, <3>1 DEF TabInv, TabType
      <3>3. /\ [tab.call EXCEPT !.kind = "adopt"] \in CallType
            /\ [tab.call EXCEPT !.kind = "adopt"].got = got
        BY <3>2 DEF CallType
      <3>4. TabInv([tab EXCEPT !.call = [tab.call EXCEPT !.kind = "adopt"], !.csrf = got,
                               !.mixed = tab.shown # UserOf(got)], issued)
        BY <1>0, <3>1, <3>3 DEF TabInv, TabType, TokenOfShown
      <3> QED BY <1>6, <1>9, <2>2, <3>1, <3>4 DEF MethodArrives
    <2> QED BY <2>1, <2>2
  <1>10. CASE AdoptSession
    <2> DEFINE r == SetSession(Idle, UserOf(got))
    <2>1. got \in Known(issued) /\ got \in Answer /\ UserOf(got) \in Users \cup {Nobody}
          /\ (got # Nobody => issued[got] = UserOf(got))
      BY <1>1, <1>10 DEF AdoptSession, Answered, UserOf
    <2>2. /\ r \in TabType /\ r.shown = UserOf(got) /\ r.data = {} /\ r.read = Loading
          /\ r.csrf = tab.csrf /\ r.live = Idle.live /\ r.late = Idle.late
          /\ r.call = Idle.call
      BY <1>0, <1>2, <1>3, <2>1, SetSessionOf
    <2> HIDE DEF r
    <2>3. TabInv([r EXCEPT !.mixed = tab.csrf # got], issued)
      <3> DEFINE m == tab.csrf # got
      <3>1. m \in BOOLEAN /\ (~m => tab.csrf = got)
        OBVIOUS
      <3> HIDE DEF m
      <3>2. tab.csrf \in Known(issued)
        BY <1>0 DEF TabInv
      <3>3. TabInv([r EXCEPT !.mixed = m], issued)
        BY <1>2, <2>1, <2>2, <3>1, <3>2 DEF TabInv, TabType, TokenOfShown
      <3> QED BY <3>3 DEF m
    <2> QED BY <1>6, <1>10, <1>0, <2>3 DEF AdoptSession, r
  <1>11. CASE LoginArrives
    <2>1. CASE got = Nobody
      BY <1>0, <1>2, <1>6, <1>11, <2>1 DEF LoginArrives
    <2>2. CASE got # Nobody
      <3> DEFINE r == SetSession(Idle, UserOf(got))
      <3>1. /\ got \in Known(issued) /\ got \in Answer /\ issued[got] = UserOf(got)
            /\ UserOf(got) \in Users
        BY <1>1, <1>11, <2>2 DEF LoginArrives, Answered
      <3>2. /\ r \in TabType /\ r.shown = UserOf(got) /\ r.data = {} /\ r.read = Loading
            /\ r.live = Idle.live /\ r.late = Idle.late /\ r.call = Idle.call
        BY <1>0, <1>2, <3>1, SetSessionOf
      <3> HIDE DEF r
      <3>3. TabInv([r EXCEPT !.csrf = got, !.mixed = FALSE], issued)
        BY <1>2, <3>1, <3>2, ZenonT(60) DEF TabInv, TabType, TokenOfShown
      <3> QED BY <1>6, <1>11, <2>2, <3>1, <3>3 DEF LoginArrives, r
    <2> QED BY <2>1, <2>2
  <1> QED BY <1>4, <1>5, <1>7, <1>8, <1>9, <1>10, <1>11

\* Another tab acts, or the session's lifetime is over.
LEMMA OtherSteps ==
    ASSUME SessionInv, strayed' \in BOOLEAN,
           OtherSends \/ OtherAnswered \/ OtherFails \/ OtherSignsOut \/ Expire
    PROVE  SessionInv'
  <1> USE SessionAssumption
  <1>0. /\ issued \in Seq(Users) /\ Len(issued) <= MaxSessions /\ Len(issued) \in Nat
        /\ revoked \subseteq 1..Len(issued)
        /\ Current \in Known(issued) /\ TabInv(tab, issued)
        /\ cookie \in Known(issued) /\ Nobody \in Known(issued)
    BY CurrentKnown DEF SessionInv, SessionTypeOK, Known
  <1>1. CASE OtherSends
    <2>1. PICK u \in Users, kind \in {"login", "password"} :
              /\ CanIssue /\ Issue(u)
              /\ other' = [kind |-> kind, got |-> NewSession]
              /\ \/ UNCHANGED revoked
                 \/ revoked' = revoked \cup SessionsOf(u)
              /\ UNCHANGED <<cookie, tab>>
      <3>1. CASE /\ \E u \in Users : Issue(u)
                 /\ other' = [kind |-> "login", got |-> NewSession]
                 /\ UNCHANGED revoked
        BY <1>1, <3>1 DEF OtherSends
      <3>2. CASE /\ Current # Nobody
                 /\ Issue(UserOf(Current))
                 /\ revoked' = revoked \cup SessionsOf(UserOf(Current))
                 /\ other' = [kind |-> "password", got |-> NewSession]
        <4>1. UserOf(Current) \in Users
          BY <1>0, <3>2, OwnerKnown DEF UserOf
        <4> QED BY <1>1, <3>2, <4>1 DEF OtherSends
      <3> QED BY <1>1, <3>1, <3>2 DEF OtherSends
    <2>2. /\ issued' \in Seq(Users) /\ Len(issued') <= MaxSessions
          /\ Len(issued') = Len(issued) + 1
          /\ NewSession \in 1..Len(issued')
          /\ Known(issued) \subseteq Known(issued')
          /\ TabInv(tab, issued')
      BY <2>1, IssueKeeps
    <2>3. revoked' \subseteq 1..Len(issued')
      <3>1. SessionsOf(u) \subseteq 1..Len(issued)
        BY DEF SessionsOf
      <3>2. revoked' \subseteq 1..Len(issued)
        BY <1>0, <2>1, <3>1
      <3> QED BY <1>0, <2>2, <3>2
    <2>4. NewSession \in Session
      BY <1>0, <2>2 DEF Session
    <2>5. /\ other' \in [kind : {"password", "login"}, got : Session] \cup {Loading}
          /\ other'.got = NewSession
      BY <2>1, <2>4
    <2>6. TabInv(tab', issued') /\ Len(issued) <= Len(issued')
      BY <1>0, <2>1, <2>2
    <2> QED BY <2>1, <2>2, <2>3, <2>5, <2>6, IssuedAlone
  <1>2. ASSUME NEW news \in BOOLEAN
        PROVE  TabInv([tab EXCEPT !.news = news], issued)
    BY <1>0, <1>2 DEF TabInv, TabType, TokenOfShown
  <1>3. ASSUME UNCHANGED <<issued, revoked>>, cookie' \in Known(issued),
               other' \in {other, Loading}, TabInv(tab', issued)
        PROVE  SessionInv'
    BY <1>0, <1>3, OwnerKnown DEF SessionInv, SessionTypeOK, TabInv, TokenOfShown, Known
  <1>4. CASE OtherAnswered
    <2>1. other.got \in Known(issued)
      BY <1>4 DEF OtherAnswered, SessionInv, Known
    <2> DEFINE news == tab.news \/ other.kind = "login"
    <2>2. tab' = [tab EXCEPT !.news = news] /\ news \in BOOLEAN
      BY <1>4 DEF OtherAnswered
    <2> HIDE DEF news
    <2> QED BY <1>2, <1>3, <1>4, <2>1, <2>2 DEF OtherAnswered
  <1>5. CASE OtherFails
    BY <1>0, <1>3, <1>5 DEF OtherFails
  <1>6. CASE OtherSignsOut
    BY <1>0, <1>2, <1>3, <1>6 DEF OtherSignsOut
  <1>7. CASE Expire
    BY <1>0, <1>3, <1>7 DEF Expire
  <1> QED BY <1>1, <1>4, <1>5, <1>6, <1>7

-----------------------------------------------------------------------------
LEMMA InitInv == SessionInit => SessionInv
  <1> SUFFICES ASSUME SessionInit PROVE SessionInv
    OBVIOUS
  <1>1. issued \in Seq(Users) /\ Len(issued) = 0
    BY DEF SessionInit
  <1>2. TabInv(tab, issued)
    BY SessionAssumption DEF SessionInit, NewTab, TabInv, TabType, TokenOfShown, Known, Answer
  <1>3. /\ cookie = Nobody /\ revoked = {} /\ other = Loading /\ strayed = FALSE
        /\ Len(issued) <= MaxSessions /\ tab \in TabType
    BY <1>1, <1>2, SessionAssumption DEF SessionInit, TabInv
  <1>4. SessionTypeOK
    BY <1>1, <1>3 DEF SessionTypeOK, Answer
  <1> QED BY <1>2, <1>3, <1>4 DEF SessionInv, Known

LEMMA NextInv == SessionInv /\ [SessionNext]_sessionHistory => SessionInv'
  <1> SUFFICES ASSUME SessionInv, [SessionNext]_sessionHistory PROVE SessionInv'
    OBVIOUS
  <1>1. CASE UNCHANGED sessionHistory
    <2>1. UNCHANGED sessionVars /\ UNCHANGED strayed
      BY <1>1 DEF sessionHistory
    <2>2. strayed' \in BOOLEAN /\ TabInv(tab, issued)
      BY <2>1 DEF SessionInv, SessionTypeOK
    <2>3. TabInv(tab', issued) /\ UNCHANGED <<cookie, issued, revoked, other>>
      BY <2>1, <2>2 DEF sessionVars
    <2> QED BY <2>2, <2>3, TabAlone
  <1>2. CASE SessionNext
    <2>1. strayed' \in BOOLEAN
      BY <1>2 DEF SessionNext, Strays
    <2> QED BY <1>2, <2>1, FetchSteps, ReadSteps, SendSteps, AnswerSteps, OtherSteps
            DEF SessionNext, SessionStep
  <1> QED BY <1>1, <1>2

\* What becomes of the queries: they go with the person, or one is answered, or
\* one is sent, which the server answers by the cookie.
LEMMA QueriesStep ==
    ASSUME SessionInv, SessionStep
    PROVE  \/ tab'.data = {} /\ tab'.read = Loading
           \/ /\ tab'.shown = tab.shown
              /\ \A d \in tab'.data : d \in tab.data \/ (tab.read # Loading /\ d = tab.read)
              /\ tab'.read \in {tab.read, Loading, [key |-> tab.shown, of |-> UserOf(Current)]}
  <1> USE SessionAssumption
  <1> DEFINE Gone == tab'.data = {} /\ tab'.read = Loading
             Same == tab'.shown = tab.shown /\ tab'.data = tab.data /\ tab'.read = tab.read
  <1>0. /\ tab \in TabType /\ TabInv(tab, issued) /\ Current \in Known(issued)
        /\ issued \in Seq(Users) /\ Len(issued) <= MaxSessions
    BY CurrentKnown DEF SessionInv, SessionTypeOK
  <1>1. /\ Idle \in TabType /\ Idle.shown = tab.shown /\ Idle.data = tab.data
        /\ Idle.read = tab.read
    BY <1>0 DEF Idle, TabType
  <1>2. ASSUME NEW t \in TabType
        PROVE  LET r == Revalidate(t, Current)
               IN  r.shown = t.shown /\ r.data = t.data /\ r.read = t.read
    BY <1>2 DEF Revalidate, TabType
  <1>3. ASSUME NEW t \in TabType, NEW u
        PROVE  /\ DropAll(t).data = {} /\ DropAll(t).read = Loading
               /\ SignedOut(t).data = {} /\ SignedOut(t).read = Loading
               /\ SetSession(t, u).data = {} /\ SetSession(t, u).read = Loading
    BY <1>3 DEF DropAll, SignedOut, SetSession, TabType
  <1>4. CASE Focus \/ SessionFails \/ LateSession
    BY <1>0, <1>4 DEF Focus, SessionFails, LateSession, TabType
  <1>5. CASE SessionArrives
    <2> DEFINE s == [tab EXCEPT !.csrf = tab.live, !.live = Loading, !.mixed = FALSE]
               u == UserOf(tab.live)
    <2>1. tab.live \in Known(issued)
      BY <1>0, <1>5 DEF SessionArrives, TabInv
    <2>2. u \in Users \cup {Nobody} /\ tab.live \in Answer
      BY <1>0, <2>1, OwnerKnown DEF UserOf
    <2>3. /\ s \in TabType /\ s.shown = tab.shown /\ s.data = tab.data /\ s.read = tab.read
      BY <1>0, <2>2 DEF TabType
    <2>4. (\A d \in s.data : d.key = s.shown) /\ (s.read # Loading => s.read.key = s.shown)
      BY <1>0, <2>3 DEF TabInv
    <2>5. tab' = Show(s, u)
      BY <1>5 DEF SessionArrives
    <2> HIDE DEF s, u
    <2> QED BY <2>2, <2>3, <2>4, <2>5, ShowOf
  <1>6. CASE NewsArrives
    <2> DEFINE r == Revalidate(tab, Current)
    <2>1. r \in TabType /\ r.shown = tab.shown /\ r.data = tab.data /\ r.read = tab.read
      BY <1>0, <1>2, RevalidateKeeps DEF TabInv
    <2> HIDE DEF r
    <2>2. tab' = [r EXCEPT !.news = FALSE]
      BY <1>6 DEF NewsArrives, r
    <2> QED BY <2>1, <2>2 DEF TabType
  <1>7. CASE Read
    BY <1>0, <1>7 DEF Read, TabType
  <1>8. CASE ReadArrives
    <2> DEFINE s == [tab EXCEPT !.read = Loading]
    <2>1. s \in TabType /\ s.shown = tab.shown /\ s.data = tab.data /\ s.read = Loading
      BY <1>0 DEF TabType
    <2>2. tab' = IF tab.read.of # Nobody THEN [s EXCEPT !.data = @ \cup {tab.read}]
                 ELSE Revalidate(s, Current)
      BY <1>8 DEF ReadArrives
    <2> HIDE DEF s
    <2>3. CASE tab.read.of # Nobody
      BY <1>8, <2>1, <2>2, <2>3 DEF ReadArrives, TabType
    <2>4. CASE tab.read.of = Nobody
      BY <1>2, <2>1, <2>2, <2>4
    <2> QED BY <2>3, <2>4
  <1>9. CASE ReadFails
    BY <1>0, <1>9 DEF ReadFails, TabType
  <1>10. CASE SendWrite \/ SendLogout \/ SendPassword \/ SendMethod \/ SendLogin
    BY <1>0, <1>10
       DEF SendWrite, SendLogout, SendPassword, SendMethod, SendLogin, Renew, Call, TabType
  <1>11. CASE WriteArrives
    BY <1>1, <1>2, <1>11 DEF WriteArrives
  <1>12. CASE LogoutArrives
    <2> DEFINE r == SignedOut(Idle)
    <2>1. r.data = {} /\ r.read = Loading
      BY <1>1, <1>3
    <2>2. tab' = r \/ tab' = [r EXCEPT !.csrf = Nobody, !.mixed = FALSE]
      BY <1>12 DEF LogoutArrives
    <2>3. [r EXCEPT !.csrf = Nobody, !.mixed = FALSE].data = r.data
          /\ [r EXCEPT !.csrf = Nobody, !.mixed = FALSE].read = r.read
      BY <1>1 DEF SignedOut, DropAll, TabType
    <2> HIDE DEF r
    <2> QED BY <2>1, <2>2, <2>3
  <1>13. CASE PasswordArrives
    <2>1. CASE tab.call.got = Nobody
      BY <1>1, <1>2, <1>13, <2>1 DEF PasswordArrives
    <2>2. CASE tab.call.got # Nobody
      BY <1>1, <1>13, <2>2 DEF PasswordArrives, TabType
    <2> QED BY <2>1, <2>2
  <1>14. CASE MethodArrives
    <2>1. CASE tab.call.got = Nobody
      BY <1>1, <1>2, <1>14, <2>1 DEF MethodArrives
    <2>2. CASE tab.call.got # Nobody
      BY <1>0, <1>14, <2>2 DEF MethodArrives, TabType
    <2> QED BY <2>1, <2>2
  <1>15. CASE AdoptSession
    BY <1>1, <1>15 DEF AdoptSession, SetSession, DropAll, TabType
  <1>16. CASE LoginArrives
    <2>1. CASE tab.call.got = Nobody
      BY <1>1, <1>2, <1>16, <2>1 DEF LoginArrives
    <2>2. CASE tab.call.got # Nobody
      BY <1>1, <1>16, <2>2 DEF LoginArrives, SetSession, DropAll, TabType
    <2> QED BY <2>1, <2>2
  <1>17. CASE CallFails
    BY <1>1, <1>17 DEF CallFails
  <1>18. CASE OtherSends \/ OtherAnswered \/ OtherFails \/ OtherSignsOut \/ Expire
    BY <1>0, <1>18 DEF OtherSends, OtherAnswered, OtherFails, OtherSignsOut, Expire, TabType
  <1> QED BY <1>4, <1>5, <1>6, <1>7, <1>8, <1>9, <1>10, <1>11, <1>12, <1>13, <1>14, <1>15,
             <1>16, <1>17, <1>18 DEF SessionStep

LEMMA InitOwnData == SessionInit => OwnDataInv
  BY SessionAssumption DEF SessionInit, NewTab, OwnDataInv, UserOf, Current

LEMMA NextOwnData == SessionInv /\ OwnDataInv /\ [SessionNext]_sessionHistory => OwnDataInv'
  <1> SUFFICES ASSUME SessionInv, OwnDataInv, [SessionNext]_sessionHistory PROVE OwnDataInv'
    OBVIOUS
  <1>1. CASE UNCHANGED sessionHistory
    BY <1>1 DEF sessionVars, sessionHistory, OwnDataInv, UserOf, Current
  <1>2. CASE SessionNext
    <2>1. /\ strayed' \/ UserOf(Current)' \in {tab'.shown, Nobody}
          /\ strayed /\ tab'.shown = tab.shown => strayed'
      BY <1>2 DEF SessionNext, Strays
    <2>2. CASE tab'.data = {} /\ tab'.read = Loading
      BY <2>1, <2>2 DEF OwnDataInv
    <2>3. CASE ~(tab'.data = {} /\ tab'.read = Loading)
      <3> DEFINE asked == [key |-> tab.shown, of |-> UserOf(Current)]
      <3>1. /\ tab'.shown = tab.shown
            /\ \A d \in tab'.data : d \in tab.data \/ (tab.read # Loading /\ d = tab.read)
            /\ tab'.read \in {tab.read, Loading, asked}
        BY <1>2, <2>3, QueriesStep DEF SessionNext
      <3>2. Foreign(asked) => strayed
        BY DEF OwnDataInv, Foreign
      <3> HIDE DEF asked
      <3> QED BY <2>1, <3>1, <3>2 DEF OwnDataInv, Foreign
    <2> QED BY <2>2, <2>3
  <1> QED BY <1>1, <1>2

(* The invariant: every session the tab or an answer mentions was issued,  *)
(* what is cached is under the key of the person shown and theirs unless   *)
(* the cookie has been another's meanwhile, and so is the token unless it  *)
(* was set alone.                                                          *)
THEOREM SessionInvariant == SessionSpec => [](SessionInv /\ OwnDataInv)
  <1>1. SessionInit => SessionInv /\ OwnDataInv
    BY InitInv, InitOwnData
  <1>2. SessionInv /\ OwnDataInv /\ [SessionNext]_sessionHistory => (SessionInv /\ OwnDataInv)'
    BY NextInv, NextOwnData
  <1> QED BY <1>1, <1>2, PTL DEF SessionSpec

(* The state of the tab, the cookie and the other tabs keeps its type.     *)
THEOREM SessionTypeCorrect == SessionSpec => []SessionTypeOK
  <1>1. SessionInv => SessionTypeOK
    BY DEF SessionInv
  <1> QED BY <1>1, SessionInvariant, PTL

(* Everything cached or being fetched is under the key of the person shown *)
(* as signed in, whatever the order of the answers, and is their own data  *)
(* unless the cookie has been someone else's since they are shown: nothing *)
(* of another person's outlives a switch the tab notices (session.tsx      *)
(* 62-69 and 71-92, queries.ts 24-32).                                     *)
THEOREM QueriesCleared == SessionSpec => []ClearedOnSwitch
  <1>1. SessionInv /\ OwnDataInv => ClearedOnSwitch
    BY DEF SessionInv, OwnDataInv, TabInv, ClearedOnSwitch
  <1> QED BY <1>1, SessionInvariant, PTL

(* A form submitted in the name of one person is applied to that person's  *)
(* data or to nobody's: the token it carries is of a session of theirs,    *)
(* and the server takes it in that session only (httpAdapter.ts 30-37).    *)
(* Nothing is said of the moments in which a late answer, or a changed     *)
(* sign-in method, has set the token or the person alone (mixed).          *)
THEOREM WritesApplyToShown == SessionSpec => WritesAsShown
  <1>1. ASSUME SessionInv, SendWrite, tab'.call.got # Nobody, ~tab.mixed
        PROVE  UserOf(tab'.call.got) = tab.shown
    <2>1. tab.shown \in Users /\ tab \in TabType
      BY <1>1 DEF SendWrite, SessionInv, TabInv
    <2>2. tab'.call.got = IF Authorized(tab.csrf) THEN Current ELSE Nobody
      BY <1>1, <2>1 DEF SendWrite, Call, TabType
    <2>3. tab.csrf # Nobody /\ tab'.call.got = tab.csrf
      BY <1>1, <2>2 DEF Authorized
    <2> QED BY <1>1, <2>1, <2>3 DEF SessionInv, TabInv, TokenOfShown, UserOf
  <1>2. SessionInv =>
          [SendWrite /\ tab'.call.got # Nobody /\ ~tab.mixed
             => UserOf(tab'.call.got) = tab.shown]_sessionVars
    BY <1>1
  <1> QED BY <1>2, SessionInvariant, PTL DEF WritesAsShown

-----------------------------------------------------------------------------
(* Forms and attempts (WebForms) *)

\* A key is the number of the first submission that has it; all of them say the same.
KeyInv ==
  /\ \A i \in F!Sent : /\ sent[i].key <= i
                       /\ sent[sent[i].key].key = sent[i].key
                       /\ sent[sent[i].key].body = sent[i].body
  /\ memo # 0 => sent[memo].key = memo

\* Submissions are of the openings in their order.
OpeningInv ==
  /\ open => openings >= 1
  /\ \A i \in F!Sent : sent[i].opening <= openings
  /\ \A i, j \in F!Sent : i <= j => sent[i].opening <= sent[j].opening

\* The server has carried out what it says it has, and each key's record once.
BookInv ==
  /\ \A i \in F!Sent : sent[i].told \in {"refetching", "success"} => sent[i].reached = "done"
  /\ \A i \in F!Sent : sent[i].reached = "done" => \E j \in book : sent[j].key = sent[i].key
  /\ form.effect = "create" => \A i, j \in book : sent[i].key = sent[j].key => i = j

\* The key of the attempt is that of the last submission from this opening.
AttemptInv ==
  form.keys = "attempt" /\ form.closes =>
    /\ open /\ F!Sent # {} /\ sent[Len(sent)].opening = openings => memo = sent[Len(sent)].key
    /\ \A i, j \in F!Sent : i <= j /\ F!SameAttempt(i, j) => sent[i].key = sent[j].key

\* The invariant of a form.
FormInv == F!WebTypeOK /\ KeyInv /\ OpeningInv /\ BookInv /\ AttemptInv

LEMMA FormsTyped ==
    ASSUME FormInv
    PROVE  /\ sent \in Seq(F!Submission) /\ Len(sent) \in Nat
           /\ openings \in Nat /\ memo \in Nat /\ memo <= Len(sent) /\ book \subseteq F!Sent
           /\ F!Sent = 1 .. Len(sent)
           /\ \A i \in F!Sent : /\ sent[i] \in F!Submission /\ sent[i].key \in F!Sent
                                /\ sent[i].opening \in Nat
  <1>1. sent \in Seq(F!Submission) /\ Len(sent) \in Nat /\ memo \in 0 .. Len(sent)
        /\ openings \in Nat /\ F!Sent = 1 .. Len(sent) /\ book \subseteq F!Sent
    BY DEF FormInv, F!WebTypeOK, F!Sent
  <1>2. ASSUME NEW i \in F!Sent
        PROVE  sent[i] \in F!Submission /\ sent[i].key \in F!Sent /\ sent[i].opening \in Nat
    <2>1. sent[i] \in F!Submission /\ i \in Nat /\ i <= Len(sent)
      BY <1>1
    <2>2. sent[i].key \in Nat \ {0} /\ sent[i].key <= i /\ sent[i].opening \in Nat
      BY <2>1 DEF FormInv, KeyInv, F!Submission
    <2> QED BY <1>1, <2>1, <2>2
  <1> QED BY <1>1, <1>2

\* What has been submitted stays as it is; only what became of it changes.
LEMMA SubmissionAnswered ==
    ASSUME FormInv, NEW i \in F!Sent, NEW e \in F!Submission,
           e.opening = sent[i].opening, e.body = sent[i].body, e.key = sent[i].key,
           sent' = [sent EXCEPT ![i] = e], form' = form, openings' = openings
    PROVE  /\ sent' \in Seq(F!Submission) /\ Len(sent') = Len(sent) /\ F!Sent' = F!Sent
           /\ sent'[i] = e /\ \A j \in F!Sent : j # i => sent'[j] = sent[j]
           /\ \A j \in F!Sent : /\ sent'[j].key = sent[j].key /\ sent'[j].body = sent[j].body
                                /\ sent'[j].opening = sent[j].opening
           /\ memo' \in {0, memo} => KeyInv'
           /\ (open' => open) => OpeningInv'
           /\ (open' => open /\ memo' = memo) => AttemptInv'
  <1>1. sent \in Seq(F!Submission) /\ F!Sent = 1 .. Len(sent) /\ Len(sent) \in Nat
    BY FormsTyped
  <1>2. sent' \in Seq(F!Submission) /\ Len(sent') = Len(sent)
        /\ \A j \in 1 .. Len(sent) : sent'[j] = IF j = i THEN e ELSE sent[j]
    BY <1>1, Replaced
  <1>3. F!Sent' = F!Sent
    BY <1>1, <1>2 DEF F!Sent
  <1>4. \A j \in F!Sent : /\ sent'[j].key = sent[j].key /\ sent'[j].body = sent[j].body
                          /\ sent'[j].opening = sent[j].opening
    BY <1>1, <1>2
  <1>5. memo' \in {0, memo} => KeyInv'
    BY <1>1, <1>3, <1>4, FormsTyped DEF FormInv, KeyInv
  <1>6. (open' => open) => OpeningInv'
    BY <1>3, <1>4 DEF FormInv, OpeningInv
  <1>7. ASSUME open' => open /\ memo' = memo, form.keys = "attempt", form.closes
        PROVE  AttemptInv'
    <2>1. ASSUME NEW a \in F!Sent, NEW b \in F!Sent, F!SameAttempt(a, b)' PROVE F!SameAttempt(a, b)
      <3>1. \A k \in a .. b : k \in F!Sent
        BY <1>1
      <3> QED BY <1>4, <2>1, <3>1 DEF F!SameAttempt
    <2>2. open' /\ F!Sent' # {} /\ sent'[Len(sent')].opening = openings' => memo' = sent'[Len(sent')].key
      <3>1. F!Sent # {} => Len(sent) \in F!Sent
        BY <1>1
      <3> QED BY <1>2, <1>3, <1>4, <1>7, <3>1 DEF FormInv, AttemptInv
    <2> QED BY <1>3, <1>4, <1>7, <2>1, <2>2 DEF FormInv, AttemptInv
  <1>8. (open' => open /\ memo' = memo) => AttemptInv'
    BY <1>7 DEF AttemptInv
  <1>9. sent'[i] = e /\ \A j \in F!Sent : j # i => sent'[j] = sent[j]
    BY <1>1, <1>2
  <1> QED BY <1>2, <1>3, <1>4, <1>5, <1>6, <1>8, <1>9

LEMMA FormServed ==
    ASSUME F!FormsAssumption, FormInv, NEW i \in F!Sent, F!Serve(i)
    PROVE  FormInv'
  <1>1. PICK r \in {"done", "refused"} : sent' = [sent EXCEPT ![i].reached = r]
    BY DEF F!Serve
  <1> DEFINE e == [sent[i] EXCEPT !.reached = r]
  <1>2. sent[i] \in F!Submission /\ sent[i].reached = "underway" /\ sent \in Seq(F!Submission)
        /\ F!Sent = 1 .. Len(sent)
        /\ UNCHANGED <<form, openings, open, body, memo, busy>>
    BY FormsTyped DEF F!Serve
  <1>3. e \in F!Submission /\ e.opening = sent[i].opening /\ e.body = sent[i].body
        /\ e.key = sent[i].key /\ e.told = sent[i].told /\ e.reached = r
    BY <1>2 DEF F!Submission
  <1>4. sent' = [sent EXCEPT ![i] = e]
    BY <1>1, <1>2
  <1> HIDE DEF e
  <1>5. /\ sent' \in Seq(F!Submission) /\ Len(sent') = Len(sent) /\ F!Sent' = F!Sent
        /\ sent'[i] = e /\ \A j \in F!Sent : j # i => sent'[j] = sent[j]
    BY <1>2, <1>3, <1>4, SubmissionAnswered
  <1>5a. \A j \in F!Sent : sent'[j].key = sent[j].key
    BY <1>2, <1>3, <1>4, SubmissionAnswered
  <1>6. KeyInv' /\ OpeningInv' /\ AttemptInv'
    BY <1>2, <1>3, <1>4, SubmissionAnswered
  <1>7. \/ r = "done" /\ book' = IF F!Known(i) THEN book ELSE book \cup {i}
        \/ r = "refused" /\ book' = book
    <2>1. \/ sent' = [sent EXCEPT ![i].reached = "done"]
             /\ book' = IF F!Known(i) THEN book ELSE book \cup {i}
          \/ sent' = [sent EXCEPT ![i].reached = "refused"] /\ book' = book
      BY DEF F!Serve
    <2>2. ASSUME NEW q \in {"done", "refused"}, sent' = [sent EXCEPT ![i].reached = q] PROVE q = r
      <3> DEFINE f == [sent[i] EXCEPT !.reached = q]
      <3>1. sent' = [sent EXCEPT ![i] = f]
        BY <1>2, <2>2
      <3>2. f.reached = q
        BY <1>2 DEF F!Submission
      <3> HIDE DEF f
      <3>3. sent'[i] = f
        BY <1>2, <3>1
      <3> QED BY <1>3, <1>5, <3>2, <3>3
    <2> QED BY <2>1, <2>2
  <1>8. book' \subseteq F!Sent /\ book \subseteq book'
    BY <1>7, FormsTyped
  <1>9. F!WebTypeOK'
    BY <1>2, <1>5, <1>8 DEF FormInv, F!WebTypeOK, F!Sent
  <1>10. BookInv'
    <2>1. sent[i].told \notin {"refetching", "success"}
      BY <1>2 DEF FormInv, BookInv
    <2>2. \A j \in F!Sent : sent'[j].told \in {"refetching", "success"} => sent'[j].reached = "done"
      BY <1>3, <1>5, <2>1 DEF FormInv, BookInv
    <2>3. ASSUME NEW j \in F!Sent, sent'[j].reached = "done"
          PROVE  \E k \in book' : sent'[k].key = sent'[j].key
      <3>1. CASE j # i
        <4>1. PICK k \in book : sent[k].key = sent[j].key
          BY <1>5, <2>3, <3>1 DEF FormInv, BookInv
        <4> QED BY <1>5a, <1>8, <4>1
      <3>2. CASE j = i
        <4>1. r = "done"
          BY <1>3, <1>5, <2>3, <3>2
        <4>2. CASE F!Known(i)
          <5>1. PICK k \in book : sent[k].key = sent[i].key
            BY <4>2 DEF F!Known
          <5> QED BY <1>5a, <1>8, <3>2, <5>1
        <4>3. CASE ~F!Known(i)
          BY <1>7, <3>2, <4>1, <4>3
        <4> QED BY <4>2, <4>3
      <3> QED BY <3>1, <3>2
    <2>4. ASSUME form.effect = "create", NEW a \in book', NEW b \in book', sent'[a].key = sent'[b].key
          PROVE  a = b
      <3>1. sent[a].key = sent[b].key /\ a \in F!Sent /\ b \in F!Sent
        BY <1>5a, <1>8, <2>4
      <3>2. \A x, y \in book : sent[x].key = sent[y].key => x = y
        BY <2>4 DEF FormInv, BookInv
      <3>3. CASE book' = book
        BY <3>1, <3>2, <3>3
      <3>4. CASE ~F!Known(i) /\ book' = book \cup {i}
        <4>1. \A x \in book : sent[x].key # sent[i].key
          BY <2>4, <3>4 DEF F!Known
        <4> QED BY <3>1, <3>2, <3>4, <4>1
      <3> QED BY <1>7, <3>3, <3>4
    <2> QED BY <1>2, <1>5, <2>2, <2>3, <2>4 DEF BookInv
  <1> QED BY <1>6, <1>9, <1>10 DEF FormInv

\* The person hears of it.
LEMMA FormTold ==
    ASSUME F!FormsAssumption, FormInv, NEW i \in F!Sent, F!Arrive(i) \/ F!Lose(i) \/ F!Succeed(i)
    PROVE  FormInv'
  <1>1. PICK t \in {"refetching", "success", "failure"} :
          /\ sent' = [sent EXCEPT ![i].told = t]
          /\ t \in {"refetching", "success"} => sent[i].reached = "done"
    <2>1. CASE F!Arrive(i)
      BY <2>1 DEF F!Arrive
    <2>2. CASE F!Lose(i)
      BY <2>2 DEF F!Lose
    <2>3. CASE F!Succeed(i)
      BY <2>3 DEF F!Succeed, FormInv, BookInv
    <2> QED BY <2>1, <2>2, <2>3
  <1> DEFINE e == [sent[i] EXCEPT !.told = t]
  <1>2. sent[i] \in F!Submission /\ sent \in Seq(F!Submission) /\ F!Sent = 1 .. Len(sent)
        /\ Len(sent) \in Nat
    BY FormsTyped
  <1>3. UNCHANGED <<form, openings, body, book>> /\ memo' \in {0, memo} /\ busy' \in BOOLEAN
        /\ open' \in BOOLEAN /\ (open' => open)
    <2>1. busy \in BOOLEAN /\ open \in BOOLEAN /\ F!StillBusy(i) \in BOOLEAN
      BY DEF F!StillBusy, FormInv, F!WebTypeOK
    <2>2. CASE F!Arrive(i)
      BY <2>1, <2>2 DEF F!Arrive
    <2>3. CASE F!Lose(i)
      BY <2>1, <2>3 DEF F!Lose
    <2>4. CASE F!Succeed(i)
      <3>1. UNCHANGED <<form, openings, body, book>> /\ memo' \in {0, memo} /\ busy' = F!StillBusy(i)
            /\ open' = (open /\ ~form.closes)
        BY <2>4 DEF F!Succeed
      <3> QED BY <2>1, <3>1
    <2> QED BY <2>2, <2>3, <2>4
  <1>3a. form.keys = "attempt" /\ form.closes /\ open' => memo' = memo
    BY DEF F!Arrive, F!Lose, F!Succeed
  <1>4. e \in F!Submission /\ e.opening = sent[i].opening /\ e.body = sent[i].body
        /\ e.key = sent[i].key /\ e.told = t /\ e.reached = sent[i].reached
    BY <1>2 DEF F!Submission
  <1>5. sent' = [sent EXCEPT ![i] = e]
    BY <1>1, <1>2
  <1> HIDE DEF e
  <1>6. /\ sent' \in Seq(F!Submission) /\ Len(sent') = Len(sent) /\ F!Sent' = F!Sent
        /\ sent'[i] = e /\ \A j \in F!Sent : j # i => sent'[j] = sent[j]
    BY <1>2, <1>3, <1>4, <1>5, SubmissionAnswered
  <1>7. \A j \in F!Sent : sent'[j].key = sent[j].key
    BY <1>2, <1>3, <1>4, <1>5, SubmissionAnswered
  <1>8. KeyInv' /\ OpeningInv'
    BY <1>2, <1>3, <1>4, <1>5, SubmissionAnswered
  <1>9. AttemptInv'
    <2>1. CASE form.keys = "attempt" /\ form.closes
      BY <1>2, <1>3, <1>3a, <1>4, <1>5, <2>1, SubmissionAnswered
    <2> QED BY <1>3, <2>1 DEF AttemptInv
  <1>10. F!WebTypeOK'
    BY <1>2, <1>3, <1>6 DEF FormInv, F!WebTypeOK
  <1>11. BookInv'
    <2>1. \A j \in F!Sent : sent'[j].told \in {"refetching", "success"} => sent'[j].reached = "done"
      BY <1>1, <1>4, <1>6 DEF FormInv, BookInv
    <2>2. \A j \in F!Sent : sent'[j].reached = sent[j].reached
      BY <1>4, <1>6
    <2>3. book \subseteq F!Sent
      BY FormsTyped
    <2> QED BY <1>3, <1>6, <1>7, <2>1, <2>2, <2>3 DEF FormInv, BookInv
  <1> QED BY <1>8, <1>9, <1>10, <1>11 DEF FormInv

\* The key of what is typed now: a new one, or that of the same thing submitted before.
LEMMA KeyChosen ==
    ASSUME FormInv
    PROVE  \/ F!KeyFor = Len(sent) + 1
           \/ /\ F!KeyFor = memo /\ memo \in F!Sent
              /\ sent[memo].body = body /\ sent[memo].key = memo
  BY FormsTyped DEF F!KeyFor, FormInv, KeyInv

LEMMA FormSubmitted ==
    ASSUME F!FormsAssumption, FormInv, F!Submit
    PROVE  FormInv'
  <1> DEFINE n == Len(sent)
             e == [opening |-> openings, body |-> body, key |-> F!KeyFor,
                   reached |-> "underway", told |-> "waiting"]
  <1>1. sent' = Append(sent, e) /\ open /\ n < MaxSubmits
        /\ memo' = (IF form.keys = "attempt" THEN F!KeyFor ELSE 0)
        /\ UNCHANGED <<form, openings, open, body, busy, book>>
    BY DEF F!Submit
  <1>2. sent \in Seq(F!Submission) /\ n \in Nat /\ F!Sent = 1 .. n /\ book \subseteq F!Sent
        /\ memo \in Nat /\ openings \in Nat /\ MaxSubmits \in Nat
    BY FormsTyped DEF F!FormsAssumption
  <1>3. F!KeyFor \in 1 .. (n + 1)
    BY <1>2, KeyChosen
  <1>4. e \in F!Submission /\ e.opening = openings /\ e.body = body /\ e.key = F!KeyFor
        /\ e.told = "waiting" /\ e.reached = "underway"
    <2>1. openings \in 1 .. MaxOpenings /\ body \in Bodies
      BY <1>1 DEF FormInv, F!WebTypeOK, OpeningInv
    <2>2. F!KeyFor \in 1 .. MaxSubmits
      BY <1>1, <1>2, <1>3
    <2> QED BY <2>1, <2>2 DEF F!Submission
  <1> HIDE DEF e
  <1>5. /\ sent' \in Seq(F!Submission) /\ Len(sent') = n + 1 /\ sent'[n + 1] = e
        /\ \A i \in 1 .. n : sent'[i] = sent[i]
    BY <1>1, <1>2, <1>4, Appended
  <1>6. F!Sent' = 1 .. (n + 1)
    BY <1>5 DEF F!Sent
  <1> HIDE DEF n
  <1>6a. \A i \in F!Sent' : i \in F!Sent \/ i = n + 1
    BY <1>2, <1>6
  <1>7. F!WebTypeOK'
    <2>1. book' \subseteq 1 .. (n + 1) /\ memo' \in 0 .. (n + 1)
      BY <1>1, <1>2, <1>3
    <2> QED BY <1>1, <1>2, <1>5, <2>1 DEF FormInv, F!WebTypeOK, n
  <1>8. sent'[F!KeyFor].key = F!KeyFor /\ sent'[F!KeyFor].body = body
    BY <1>2, <1>4, <1>5, KeyChosen DEF n
  <1>9. KeyInv'
    <2>1. ASSUME NEW i \in F!Sent'
          PROVE  /\ sent'[i].key <= i /\ sent'[sent'[i].key].key = sent'[i].key
                 /\ sent'[sent'[i].key].body = sent'[i].body
      <3>1. CASE i \in F!Sent
        <4>1. sent'[i] = sent[i] /\ sent[i].key \in 1 .. n
          BY <1>2, <1>5, <3>1, FormsTyped
        <4>2. sent'[sent[i].key] = sent[sent[i].key]
          BY <1>5, <4>1
        <4> QED BY <3>1, <4>1, <4>2 DEF FormInv, KeyInv
      <3>2. CASE i = n + 1
        BY <1>2, <1>3, <1>4, <1>5, <1>8, <3>2
      <3> QED BY <1>6a, <3>1, <3>2
    <2>2. memo' # 0 => sent'[memo'].key = memo'
      BY <1>1, <1>8
    <2> QED BY <2>1, <2>2 DEF KeyInv
  <1>10. OpeningInv'
    <2>1. \A i \in F!Sent : sent[i].opening <= openings /\ sent'[i] = sent[i] /\ i <= n
      BY <1>2, <1>5 DEF FormInv, OpeningInv
    <2>2. sent'[n + 1].opening = openings
      BY <1>4, <1>5
    <2>3. \A i, j \in F!Sent : i <= j => sent[i].opening <= sent[j].opening
      BY DEF FormInv, OpeningInv
    <2>4. ASSUME NEW i \in F!Sent', NEW j \in F!Sent', i <= j
          PROVE  sent'[i].opening <= sent'[j].opening
      <3>1. CASE j \in F!Sent
        <4>1. i \in F!Sent
          BY <1>2, <1>6a, <2>4, <3>1
        <4> QED BY <2>1, <2>3, <2>4, <3>1, <4>1
      <3>2. CASE j = n + 1
        BY <1>2, <1>6a, <2>1, <2>2, <3>2
      <3> QED BY <1>6a, <3>1, <3>2
    <2>5. \A i \in F!Sent' : sent'[i].opening <= openings
      BY <1>2, <1>6a, <2>1, <2>2
    <2> QED BY <1>1, <2>4, <2>5 DEF FormInv, OpeningInv
  <1>11. BookInv'
    <2>1. \A i \in F!Sent : sent'[i] = sent[i]
      BY <1>2, <1>5
    <2>2. sent'[n + 1].told = "waiting" /\ sent'[n + 1].reached = "underway"
      BY <1>4, <1>5
    <2>3. \A i \in F!Sent : i \in F!Sent'
      BY <1>2, <1>6
    <2>4. \A i \in F!Sent' : sent'[i].told \in {"refetching", "success"} => sent'[i].reached = "done"
      BY <1>6a, <2>1, <2>2 DEF FormInv, BookInv
    <2>5. ASSUME NEW i \in F!Sent', sent'[i].reached = "done"
          PROVE  \E j \in book : sent'[j].key = sent'[i].key
      <3>1. i \in F!Sent
        BY <1>6a, <2>2, <2>5
      <3>2. PICK j \in book : sent[j].key = sent[i].key
        BY <2>1, <2>5, <3>1 DEF FormInv, BookInv
      <3> QED BY <1>2, <2>1, <3>1, <3>2
    <2>6. form.effect = "create" => \A i, j \in book : sent'[i].key = sent'[j].key => i = j
      BY <1>2, <2>1 DEF FormInv, BookInv
    <2> QED BY <1>1, <2>4, <2>5, <2>6 DEF BookInv
  <1>12. ASSUME form.keys = "attempt", form.closes PROVE AttemptInv'
    <2>1. sent'[n + 1].key = F!KeyFor /\ memo' = F!KeyFor /\ sent'[n + 1].body = body
          /\ sent'[n + 1].opening = openings
      BY <1>1, <1>4, <1>5, <1>12
    <2>2. ASSUME NEW i \in F!Sent', NEW j \in F!Sent', i <= j, F!SameAttempt(i, j)'
          PROVE  sent'[i].key = sent'[j].key
      <3>1. sent'[i].opening = sent'[j].opening
            /\ \A k \in i .. j : sent'[k].opening = sent'[i].opening => sent'[k].body = sent'[i].body
        BY <2>2 DEF F!SameAttempt
      <3>2. CASE j \in F!Sent
        <4>1. i \in F!Sent /\ \A k \in i .. j : k \in F!Sent
          BY <1>2, <1>6a, <2>2, <3>2
        <4>2. \A k \in F!Sent : sent'[k] = sent[k]
          BY <1>2, <1>5
        <4>3. F!SameAttempt(i, j)
          BY <3>1, <3>2, <4>1, <4>2 DEF F!SameAttempt
        <4> QED BY <1>12, <2>2, <3>2, <4>1, <4>2, <4>3 DEF FormInv, AttemptInv
      <3>3. CASE i \in F!Sent /\ j = n + 1
        <4>1. n \in F!Sent /\ n \in i .. j /\ i <= n /\ j \in i .. j /\ i \in i .. j
          BY <1>2, <3>3
        <4>2. sent'[i] = sent[i] /\ sent'[n] = sent[n]
          BY <1>2, <1>5, <3>3, <4>1
        <4>3. sent[i].opening = openings
          BY <2>1, <3>1, <3>3, <4>2
        <4>4. sent[n].opening = openings
          <5>1. sent[i].opening <= sent[n].opening /\ sent[n].opening <= openings
            BY <3>3, <4>1 DEF FormInv, OpeningInv
          <5> QED BY <1>2, <3>3, <4>1, <4>3, <5>1, FormsTyped
        <4>5. sent[n].body = sent[i].body /\ body = sent[i].body
          BY <2>1, <3>1, <3>3, <4>1, <4>2, <4>3, <4>4
        <4>6. memo = sent[n].key
          BY <1>1, <1>12, <4>1, <4>4 DEF FormInv, AttemptInv, n
        <4>7. F!SameAttempt(i, n)
          <5>1. \A k \in i .. n : k \in F!Sent /\ k \in i .. j
            BY <1>2, <3>3
          <5>2. \A k \in F!Sent : sent'[k] = sent[k]
            BY <1>2, <1>5
          <5> QED BY <3>1, <4>2, <4>3, <4>4, <5>1, <5>2 DEF F!SameAttempt
        <4>8. sent[i].key = sent[n].key
          BY <1>12, <3>3, <4>1, <4>7 DEF FormInv, AttemptInv
        <4>9. sent[memo].body = body /\ memo # 0
          <5>1. sent[sent[n].key].body = sent[n].body /\ sent[n].key \in 1 .. Len(sent)
            BY <1>2, <4>1, FormsTyped DEF FormInv, KeyInv, n
          <5> QED BY <4>5, <4>6, <5>1
        <4>10. F!KeyFor = memo
          BY <1>12, <4>9 DEF F!KeyFor
        <4> QED BY <2>1, <3>3, <4>2, <4>6, <4>8, <4>10
      <3>4. CASE i = n + 1 /\ j = n + 1
        BY <3>4
      <3>5. CASE i = n + 1 /\ j \in F!Sent
        BY <1>2, <2>2, <3>5
      <3> QED BY <1>6a, <3>2, <3>3, <3>4, <3>5
    <2>3. memo' = sent'[Len(sent')].key
      BY <1>5, <2>1
    <2> QED BY <2>2, <2>3 DEF AttemptInv
  <1>13. AttemptInv'
    BY <1>1, <1>12 DEF AttemptInv
  <1> QED BY <1>7, <1>9, <1>10, <1>11, <1>13 DEF FormInv

\* The rest leaves the submissions alone.
LEMMA FormHandled ==
    ASSUME F!FormsAssumption, FormInv, F!Open \/ F!Type \/ F!Dismiss \/ F!Render \/ UNCHANGED F!formVars
    PROVE  FormInv'
  <1>1. UNCHANGED <<form, sent, book>> /\ memo' \in {0, memo} /\ body' \in Bodies /\ busy' \in BOOLEAN
        /\ open' \in BOOLEAN
    BY DEF F!Open, F!Type, F!Dismiss, F!Render, F!formVars, FormInv, F!WebTypeOK
  <1>2. \/ openings' = openings /\ memo' = memo /\ (open' => open)
        \/ openings' = openings + 1 /\ openings < MaxOpenings
    BY DEF F!Open, F!Type, F!Dismiss, F!Render, F!formVars
  <1>3. openings \in Nat /\ MaxOpenings \in Nat /\ openings' \in Nat
        /\ (openings' = openings \/ openings' > openings)
    BY <1>2, FormsTyped DEF F!FormsAssumption
  <1>4. F!WebTypeOK'
    BY <1>1, <1>2, <1>3 DEF FormInv, F!WebTypeOK
  <1>5. F!Sent' = F!Sent /\ \A i, j \in F!Sent : F!SameAttempt(i, j)' <=> F!SameAttempt(i, j)
    BY <1>1 DEF F!Sent, F!SameAttempt
  <1>6. KeyInv' /\ BookInv'
    BY <1>1, <1>5 DEF FormInv, KeyInv, BookInv
  <1>7. OpeningInv'
    <2>1. \A i \in F!Sent : sent[i].opening \in Nat /\ sent[i].opening <= openings
      BY FormsTyped DEF FormInv, OpeningInv
    <2>2. \A i \in F!Sent : sent[i].opening <= openings'
      BY <1>3, <2>1
    <2>3. open' => openings' >= 1
      BY <1>2, <1>3 DEF FormInv, OpeningInv
    <2> QED BY <1>1, <1>5, <2>2, <2>3 DEF FormInv, OpeningInv
  <1>8. AttemptInv'
    <2>1. CASE openings' = openings /\ memo' = memo /\ (open' => open)
      BY <1>1, <1>5, <2>1 DEF FormInv, AttemptInv
    <2>2. CASE openings' = openings + 1
      <3>1. F!Sent # {} => Len(sent) \in F!Sent
        BY FormsTyped
      <3>2. F!Sent # {} => sent[Len(sent)].opening # openings'
        BY <1>3, <2>2, <3>1, FormsTyped DEF FormInv, OpeningInv
      <3> QED BY <1>1, <1>5, <3>2 DEF FormInv, AttemptInv
    <2> QED BY <1>2, <2>1, <2>2
  <1> QED BY <1>4, <1>6, <1>7, <1>8 DEF FormInv

LEMMA FormFirst ==
    ASSUME F!FormsAssumption, F!FormInit
    PROVE  FormInv
  <1>1. <<>> \in Seq(F!Submission) /\ Len(<<>>) = 0
    OBVIOUS
  <1>2. F!Sent = {}
    BY <1>1 DEF F!Sent, F!FormInit
  <1>3. F!WebTypeOK
    <2>1. form \in Forms /\ openings = 0 /\ open = FALSE /\ busy = FALSE /\ body \in Bodies
          /\ memo = 0 /\ sent = <<>> /\ book = {}
      BY DEF F!FormInit
    <2>2. openings \in 0 .. MaxOpenings /\ Len(sent) <= MaxSubmits /\ memo \in 0 .. Len(sent)
      BY <1>1, <2>1 DEF F!FormsAssumption
    <2> QED BY <1>1, <2>1, <2>2 DEF F!WebTypeOK
  <1>4. KeyInv /\ OpeningInv /\ BookInv
    BY <1>2 DEF F!FormInit, KeyInv, OpeningInv, BookInv
  <1>5. AttemptInv
    BY <1>2 DEF AttemptInv
  <1> QED BY <1>3, <1>4, <1>5 DEF FormInv

LEMMA FormSteps ==
    ASSUME F!FormsAssumption, FormInv, [F!FormNext]_(F!formVars)
    PROVE  FormInv'
  <1>1. CASE F!Open \/ F!Type \/ F!Dismiss \/ F!Render \/ UNCHANGED F!formVars
    BY <1>1, FormHandled
  <1>2. CASE F!Submit
    BY <1>2, FormSubmitted
  <1>3. ASSUME NEW i \in F!Sent, F!Serve(i) \/ F!Arrive(i) \/ F!Lose(i) \/ F!Succeed(i)
        PROVE  FormInv'
    BY <1>3, FormServed, FormTold
  <1> QED BY <1>1, <1>2, <1>3 DEF F!FormNext

LEMMA FormInvariant == ASSUME F!FormsAssumption PROVE F!FormSpec => []FormInv
  <1>1. F!FormInit => FormInv
    BY FormFirst
  <1>2. FormInv /\ [F!FormNext]_(F!formVars) => FormInv'
    BY FormSteps
  <1> QED BY <1>1, <1>2, PTL DEF F!FormSpec

\* A form that keeps a key for the attempt records it once, and whoever is told of a success
\* has what they typed (useAttemptKey, workflow-kit.tsx, and useApiMutation, queries.ts).
LEMMA SubmissionsRecorded == ASSUME F!FormsAssumption PROVE F!FormSpec => []F!FormsRecord
  <1>1. FormInv => F!FormsRecord
    <2> SUFFICES ASSUME FormInv PROVE F!RecordedOnce /\ F!SuccessMeansRecorded
      BY DEF F!FormsRecord
    <2>1. F!RecordedOnce
      <3> SUFFICES ASSUME form.keys = "attempt", form.effect = "create", form.closes,
                          NEW i \in book, NEW j \in book, i < j
                   PROVE  ~F!SameAttempt(i, j)
        BY DEF F!RecordedOnce
      <3>1. i \in F!Sent /\ j \in F!Sent /\ i \in Nat /\ j \in Nat
        BY FormsTyped
      <3>2. sent[i].key # sent[j].key
        BY <3>1 DEF FormInv, BookInv
      <3> QED BY <3>1, <3>2 DEF FormInv, AttemptInv
    <2>2. F!SuccessMeansRecorded
      <3> SUFFICES ASSUME NEW i \in F!Sent, sent[i].told = "success"
                   PROVE  \E j \in book : sent[j].key = sent[i].key /\ sent[j].body = sent[i].body
        BY DEF F!SuccessMeansRecorded
      <3>1. PICK j \in book : sent[j].key = sent[i].key
        BY DEF FormInv, BookInv
      <3>2. j \in F!Sent
        BY FormsTyped
      <3> QED BY <3>1, <3>2 DEF FormInv, KeyInv
    <2> QED BY <2>1, <2>2
  <1> QED BY <1>1, FormInvariant, PTL

LEMMA FormsKeepTypes == ASSUME F!FormsAssumption PROVE F!FormSpec => []F!WebTypeOK
  <1>1. FormInv => F!WebTypeOK
    BY DEF FormInv
  <1> QED BY <1>1, FormInvariant, PTL

-----------------------------------------------------------------------------
(* Amounts (WebAmounts) *)

\* What a request has of a field: nothing for one that is hidden or empty, else the amount.
FieldSent(r, f) ==
  \/ r.shown[f] = Nothing /\ r.amount[f] = Nothing
  \/ r.shown[f] \in M!Texts /\ r.shown[f].kind = "empty" /\ r.amount[f] = Nothing
  \/ /\ r.shown[f] \in M!Texts /\ r.shown[f].kind = "number"
     /\ r.shown[f].value % M!MinorUnit(r.currency[f]) = 0
     /\ r.amount[f] = LET m == r.shown[f].value \div M!MinorUnit(r.currency[f])
                      IN  IF form.sends = "minor" THEN m ELSE M!minorToDecimal(m, r.currency[f])

\* A request as the form made it: every field is sent as it was shown, and the rules that
\* the server insists on were checked.
GoodRequest(r) ==
  /\ r.currency \in [M!Fields -> Currencies]
  /\ \A f \in M!Fields : FieldSent(r, f)
  /\ r.shown["first"] # Nothing
  /\ form.first.checked /\ ~form.first.empty => r.shown["first"].kind = "number"
  /\ form.first.checked /\ ~form.first.empty /\ ~form.first.zero =>
       r.shown["first"].value \div M!MinorUnit(r.currency["first"]) > 0
  /\ form.second = "received" /\ r.shown["second"] # Nothing => r.shown["second"].kind = "number"

\* What is recorded of a field.
FieldRecorded(m, t, c, first) ==
  \/ t = Nothing /\ m = IF form = M!Transfer THEN first ELSE Nothing
  \/ t \in M!Texts /\ t.kind = "empty" /\ m = Nothing
  \/ t \in M!Texts /\ t.kind = "number" /\ t.value % M!MinorUnit(c) = 0 /\ m = t.value \div M!MinorUnit(c)

\* What is recorded is what the request had.
GoodRecord ==
  /\ GoodRequest(recorded.request)
  /\ \A f \in M!Fields : FieldRecorded(recorded.amount[f], recorded.request.shown[f],
                                       recorded.request.currency[f], recorded.amount["first"])

\* The invariant of an amount form.
AmountsInv ==
  /\ form \in M!AmountForms
  /\ currency \in [M!Fields -> Currencies]
  /\ text \in [M!Fields -> M!Texts]
  /\ request # Nothing => GoodRequest(request)
  /\ recorded # Nothing => GoodRecord
  /\ said.what # "refused"
  /\ said.what \in {"amount", "failed though recorded"} => request = Nothing
  /\ M!NoticeIsTrue

\* What the forms have in common.
LEMMA FormFacts ==
    ASSUME NEW f \in M!AmountForms
    PROVE  /\ f.sends \in {"minor", "major"}
           /\ f.second = "received" <=> f = M!Transfer
           /\ f.second = "received" => f.rule.checked /\ ~f.rule.empty
           /\ f \in {M!Transaction, M!Transfer, M!NewGoal, M!EditGoal} =>
                f.first.checked /\ ~f.first.empty /\ ~f.first.zero
           /\ f.toast => f.first.checked /\ ~f.first.empty
  <1> DEFINE Strict(r) == r.checked /\ ~r.empty /\ ~r.zero
  <1>1. LET g == M!Transaction IN g.sends = "minor" /\ g.second = "none" /\ Strict(g.first)
    BY DEF M!Transaction, M!amountRule
  <1>2. LET g == M!Valuation IN g.sends = "minor" /\ g.second = "none" /\ g.first.checked /\ ~g.first.empty
    BY DEF M!Valuation, M!Transaction, M!amountRule
  <1>3. LET g == M!Transfer
        IN  /\ g.sends = "minor" /\ g.second = "received" /\ Strict(g.first)
            /\ g.rule.checked /\ ~g.rule.empty
    BY DEF M!Transfer, M!Transaction, M!amountRule
  <1>4. LET g == M!TradeFee IN g.sends = "major" /\ g.second = "none" /\ ~g.toast
    BY DEF M!TradeFee
  <1>5. LET g == M!NewGoal IN g.sends = "major" /\ g.second = "current" /\ Strict(g.first) /\ ~g.toast
    BY DEF M!NewGoal, M!TradeFee, M!amountRule
  <1>6. LET g == M!EditGoal IN g.sends = "major" /\ g.second = "current" /\ Strict(g.first) /\ ~g.toast
    BY DEF M!EditGoal, M!NewGoal, M!TradeFee, M!amountIssue
  <1>7. \A h \in BOOLEAN : LET g == M!NewAccount(h)
                          IN  g.sends = "minor" /\ g.second = "none" /\ ~g.toast
    BY DEF M!NewAccount, M!Transaction
  <1>8. f \in {M!Transaction, M!Valuation, M!Transfer, M!TradeFee, M!NewGoal, M!EditGoal}
          \/ \E h \in BOOLEAN : f = M!NewAccount(h)
    BY DEF M!AmountForms
  <1>9. f.second = "received" <=> f = M!Transfer
    BY <1>1, <1>2, <1>3, <1>4, <1>5, <1>6, <1>7, <1>8
  <1>10. f.sends \in {"minor", "major"}
    BY <1>1, <1>2, <1>3, <1>4, <1>5, <1>6, <1>7, <1>8
  <1>11. f.toast => f.first.checked /\ ~f.first.empty
    BY <1>1, <1>2, <1>3, <1>4, <1>5, <1>6, <1>7, <1>8
  <1>12. f \in {M!Transaction, M!Transfer, M!NewGoal, M!EditGoal} => Strict(f.first)
    BY <1>1, <1>3, <1>5, <1>6
  <1> QED BY <1>3, <1>9, <1>10, <1>11, <1>12

LEMMA MinorUnits ==
    ASSUME M!AmountsAssumption, NEW c \in Currencies, NEW t \in M!Texts
    PROVE  /\ M!MinorUnit(c) \in {1000, 10, 1} /\ M!minorExponent(c) \in Nat
           /\ t.value \in Nat /\ t.kind \in {"number", "empty", "broken"} /\ t # Nothing
           /\ t.value % M!MinorUnit(c) = 0 =>
                /\ t.value \div M!MinorUnit(c) \in Nat
                /\ (t.value \div M!MinorUnit(c)) * M!MinorUnit(c) = t.value
  <1>1. M!MinorUnit(c) \in {1000, 10, 1} /\ M!minorExponent(c) \in Nat
    BY DEF M!MinorUnit, M!minorExponent, M!AmountsAssumption
  <1>2. t \in [kind : {"number", "empty", "broken"}, value : Nat, places : Nat]
    <2>1. Thousandths \subseteq Nat
      BY DEF M!AmountsAssumption
    <2>2. CASE t \in [kind : {"number"}, value : Thousandths, places : {0, 2, 3}]
      <3>1. t = [kind |-> t.kind, value |-> t.value, places |-> t.places]
            /\ t.kind = "number" /\ t.value \in Thousandths /\ t.places \in {0, 2, 3}
        BY <2>2
      <3> QED BY <2>1, <3>1
    <2>3. CASE t \in [kind : {"empty", "broken"}, value : {0}, places : {0}]
      BY <2>3
    <2> QED BY <2>2, <2>3 DEF M!Texts
  <1>3. t.value \in Nat
    BY <1>2
  <1> DEFINE u == M!MinorUnit(c)
             v == t.value
  <1>4. v % u = 0 => v \div u \in Nat /\ (v \div u) * u = v
    <2> HIDE DEF u, v
    <2>1. v \in Nat /\ u \in {1000, 10, 1}
      BY <1>1, <1>3 DEF u, v
    <2> QED BY <2>1
  <1> QED BY <1>1, <1>2, <1>4 DEF M!AmountsAssumption

\* A request that is made has what the form shows.
LEMMA RequestMade ==
    ASSUME M!AmountsAssumption, AmountsInv, M!Submit, request' # request
    PROVE  GoodRequest(request') /\ said'.what = "nothing"
  <1> DEFINE r == [number |-> submits, amount |-> [f \in M!Fields |-> M!Sent(f)],
                   currency |-> currency,
                   shown |-> [f \in M!Fields |-> IF M!Shown(f) THEN text[f] ELSE Nothing]]
  <1>1. /\ \A f \in M!Fields : M!Shown(f) => M!Passes(text[f], currency[f], M!RuleOf(f))
        /\ ~M!Throws /\ request' = r /\ said'.what = "nothing"
    BY DEF M!Submit, M!Says
  <1>2. /\ \A f \in M!Fields : r.amount[f] = M!Sent(f)
        /\ \A f \in M!Fields : r.shown[f] = IF M!Shown(f) THEN text[f] ELSE Nothing
        /\ r.currency = currency
    OBVIOUS
  <1>3. "first" \in M!Fields /\ "second" \in M!Fields /\ M!Shown("first") /\ form \in M!AmountForms
        /\ text \in [M!Fields -> M!Texts] /\ currency \in [M!Fields -> Currencies]
    BY DEF M!Fields, M!Shown, AmountsInv
  <1> HIDE DEF r
  <1>4. ASSUME NEW f \in M!Fields, M!Shown(f), text[f].kind # "empty"
        PROVE  /\ text[f].kind = "number" /\ text[f].value % M!MinorUnit(currency[f]) = 0
               /\ M!decimalToMinor(text[f], currency[f]) = text[f].value \div M!MinorUnit(currency[f])
    BY <1>1, <1>4 DEF M!Throws, M!decimalToMinor
  <1>5. ASSUME NEW f \in M!Fields PROVE FieldSent(r, f)
    <2>1. CASE ~M!Shown(f)
      BY <1>2, <2>1 DEF FieldSent, M!Sent
    <2>2. CASE M!Shown(f) /\ text[f].kind = "empty"
      BY <1>2, <1>3, <2>2 DEF FieldSent, M!Sent
    <2>3. CASE M!Shown(f) /\ text[f].kind # "empty"
      <3>1. r.shown[f] = text[f] /\ r.currency[f] = currency[f] /\ r.amount[f] = M!Sent(f)
        BY <1>2, <2>3
      <3>2. M!Sent(f) = IF form.sends = "minor" THEN M!decimalToMinor(text[f], currency[f])
                        ELSE M!minorToDecimal(M!decimalToMinor(text[f], currency[f]), currency[f])
        BY <2>3 DEF M!Sent
      <3> QED BY <1>3, <1>4, <2>3, <3>1, <3>2 DEF FieldSent
    <2> QED BY <2>1, <2>2, <2>3
  <1>6. r.shown["first"] = text["first"] /\ r.shown["first"] # Nothing
        /\ r.currency["first"] = currency["first"]
    BY <1>2, <1>3, MinorUnits
  <1>7. ASSUME form.first.checked, ~form.first.empty
        PROVE  /\ text["first"].kind = "number"
               /\ ~form.first.zero => text["first"].value \div M!MinorUnit(currency["first"]) > 0
    <2>1. M!Passes(text["first"], currency["first"], form.first)
      BY <1>1, <1>3 DEF M!RuleOf
    <2>2. M!decimalToMinor(text["first"], currency["first"]) # Nothing
      BY <1>7, <2>1 DEF M!Passes
    <2>3. text["first"].kind = "number"
      BY <2>2 DEF M!decimalToMinor
    <2> QED BY <1>3, <1>4, <1>7, <2>1, <2>3 DEF M!Passes
  <1>8. ASSUME form.second = "received", r.shown["second"] # Nothing
        PROVE  r.shown["second"].kind = "number"
    <2>1. M!Shown("second") /\ r.shown["second"] = text["second"]
      BY <1>2, <1>3, <1>8
    <2>2. form.rule.checked /\ ~form.rule.empty
      BY <1>3, <1>8, FormFacts
    <2>3. M!Passes(text["second"], currency["second"], form.rule)
      BY <1>1, <1>3, <2>1 DEF M!RuleOf
    <2>4. M!decimalToMinor(text["second"], currency["second"]) # Nothing
      BY <2>2, <2>3 DEF M!Passes
    <2> QED BY <2>1, <2>4 DEF M!decimalToMinor
  <1> QED BY <1>1, <1>2, <1>3, <1>5, <1>6, <1>7, <1>8 DEF GoodRequest

\* The server reads from a good request the amounts that were shown, and accepts it.
LEMMA RequestRead ==
    ASSUME M!AmountsAssumption, form \in M!AmountForms, GoodRequest(request)
    PROVE  /\ M!Accepted
           /\ \A f \in M!Fields :
                \/ /\ request.shown[f] = Nothing \/ request.shown[f].kind = "empty"
                   /\ M!Asked[f] = Nothing
                \/ /\ request.shown[f] # Nothing /\ request.shown[f].kind = "number"
                   /\ M!Asked[f] = request.shown[f].value \div M!MinorUnit(request.currency[f])
                   /\ M!Asked[f] \in Nat
  <1>1. "first" \in M!Fields /\ "second" \in M!Fields
        /\ \A f \in M!Fields : request.currency[f] \in Currencies
    BY DEF M!Fields, GoodRequest
  <1>2. ASSUME NEW f \in M!Fields
        PROVE  /\ \/ /\ request.shown[f] = Nothing \/ request.shown[f].kind = "empty"
                     /\ M!Asked[f] = Nothing /\ request.amount[f] = Nothing
                  \/ /\ request.shown[f] # Nothing /\ request.shown[f].kind = "number"
                     /\ M!Asked[f] = request.shown[f].value \div M!MinorUnit(request.currency[f])
                     /\ M!Asked[f] \in Nat
    <2> DEFINE t == request.shown[f]
               c == request.currency[f]
               u == M!MinorUnit(c)
               m == t.value \div u
    <2>1. M!Asked[f] = M!Read(request.amount[f], c)
      BY DEF M!Asked
    <2>2. CASE request.amount[f] = Nothing /\ (t = Nothing \/ t.kind = "empty")
      BY <2>1, <2>2 DEF M!Read
    <2>3. CASE /\ t \in M!Texts /\ t.kind = "number" /\ t.value % u = 0
               /\ request.amount[f] = IF form.sends = "minor" THEN m ELSE M!minorToDecimal(m, c)
      <3>1. c \in Currencies /\ u \in {1000, 10, 1} /\ M!minorExponent(c) \in Nat /\ t # Nothing
            /\ m \in Nat /\ m * u = t.value
        BY <1>1, <2>3, MinorUnits
      <3>2. CASE form.sends = "minor"
        BY <2>1, <2>3, <3>1, <3>2 DEF M!Read
      <3>3. CASE form.sends # "minor"
        <4>1. request.amount[f] = [kind |-> "number", value |-> m * u, places |-> M!minorExponent(c)]
          BY <2>3, <3>3 DEF M!minorToDecimal
        <4>2. m * u \in Nat /\ (m * u) \div u = m
          <5> HIDE DEF u, m
          <5> QED BY <3>1
        <4>3. request.amount[f] # Nothing
          BY <3>1, <4>1, <4>2 DEF M!AmountsAssumption
        <4>4. request.amount[f].places = M!minorExponent(c) /\ request.amount[f].value = m * u
          BY <4>1
        <4>5. ~(M!minorExponent(c) > M!minorExponent(c))
          BY <3>1
        <4>6. M!Asked[f] = (m * u) \div u
          BY <2>1, <3>3, <4>3, <4>4, <4>5 DEF M!Read
        <4> QED BY <2>3, <3>1, <4>2, <4>6
      <3> QED BY <3>2, <3>3
    <2> QED BY <2>2, <2>3 DEF GoodRequest, FieldSent
  <1>3. \A f \in M!Fields : request.amount[f] # Nothing => M!Asked[f] # Nothing
    BY <1>2 DEF M!AmountsAssumption
  <1>4. form \in {M!Transaction, M!Transfer, M!NewGoal, M!EditGoal} =>
          M!Asked["first"] # Nothing /\ M!Asked["first"] > 0
    <2> SUFFICES ASSUME form \in {M!Transaction, M!Transfer, M!NewGoal, M!EditGoal}
                 PROVE  M!Asked["first"] # Nothing /\ M!Asked["first"] > 0
      OBVIOUS
    <2>1. form.first.checked /\ ~form.first.empty /\ ~form.first.zero
      BY FormFacts
    <2>2. request.shown["first"] # Nothing /\ request.shown["first"].kind = "number"
          /\ request.shown["first"].value \div M!MinorUnit(request.currency["first"]) > 0
      BY <2>1 DEF GoodRequest
    <2> QED BY <1>1, <1>2, <2>2 DEF M!AmountsAssumption
  <1> QED BY <1>2, <1>3, <1>4 DEF M!Accepted

LEMMA RequestServed ==
    ASSUME M!AmountsAssumption, AmountsInv, M!Serve
    PROVE  AmountsInv'
  <1>1. form \in M!AmountForms /\ request # Nothing /\ GoodRequest(request)
    BY DEF M!Serve, AmountsInv
  <1>2. M!Accepted
    BY <1>1, RequestRead
  <1> DEFINE twice == form.second = "received" /\ M!Asked["second"] = Nothing
             amount == IF twice THEN [M!Asked EXCEPT !["second"] = M!Asked["first"]] ELSE M!Asked
  <1>3. recorded' = [request |-> request, amount |-> amount]
        /\ UNCHANGED <<form, currency, text, linked, request, said>>
    BY <1>2 DEF M!Serve
  <1>4. recorded'.request = request /\ recorded'.amount = amount
    BY <1>3
  <1>5. amount["first"] = M!Asked["first"]
        /\ amount["second"] = IF twice THEN M!Asked["first"] ELSE M!Asked["second"]
    BY DEF M!Asked, M!Fields
  <1> HIDE DEF amount
  <1>6. GoodRequest(recorded.request)'
    BY <1>1, <1>3, <1>4 DEF GoodRequest, FieldSent
  <1>7. ASSUME NEW f \in M!Fields
        PROVE  FieldRecorded(recorded.amount[f], recorded.request.shown[f],
                             recorded.request.currency[f], recorded.amount["first"])'
    <2> DEFINE t == request.shown[f]
               c == request.currency[f]
    <2>1. FieldSent(request, f)
      BY <1>1 DEF GoodRequest
    <2>2. CASE ~(twice /\ f = "second")
      <3>1. amount[f] = M!Asked[f]
        BY <1>5, <2>2 DEF M!Fields
      <3>2. t = Nothing => amount[f] = Nothing /\ form # M!Transfer
        <4> SUFFICES ASSUME t = Nothing PROVE amount[f] = Nothing /\ form # M!Transfer
          OBVIOUS
        <4>1. f = "second" /\ M!Asked[f] = Nothing
          BY <1>1, RequestRead DEF GoodRequest, M!Fields
        <4> QED BY <1>1, <2>2, <3>1, <4>1, FormFacts
      <3>3. FieldRecorded(amount[f], t, c, amount["first"])
        BY <1>1, <2>1, <3>1, <3>2, RequestRead DEF FieldRecorded, FieldSent
      <3> QED BY <1>3, <1>4, <3>3 DEF FieldRecorded
    <2>3. CASE twice /\ f = "second"
      <3>1. form = M!Transfer /\ amount[f] = amount["first"]
        BY <1>1, <1>5, <2>3, FormFacts
      <3>2. t = Nothing
        <4>1. t # Nothing => t.kind = "number"
          BY <1>1, <2>3 DEF GoodRequest
        <4>2. t # Nothing => M!Asked[f] \in Nat
          BY <1>1, <4>1, RequestRead
        <4> QED BY <2>3, <4>2 DEF M!AmountsAssumption
      <3>3. FieldRecorded(amount[f], t, c, amount["first"])
        BY <3>1, <3>2 DEF FieldRecorded
      <3> QED BY <1>3, <1>4, <3>3 DEF FieldRecorded
    <2> QED BY <2>2, <2>3
  <1>8. GoodRecord'
    BY <1>6, <1>7 DEF GoodRecord, M!Fields
  <1>9. said.what \notin {"amount", "failed though recorded"}
    BY <1>1 DEF AmountsInv
  <1>10. M!NoticeIsTrue'
    BY <1>3, <1>9 DEF M!NoticeIsTrue
  <1>11. GoodRequest(request)'
    BY <1>1, <1>3 DEF GoodRequest, FieldSent
  <1> QED BY <1>3, <1>8, <1>9, <1>10, <1>11 DEF AmountsInv, M!Fields, M!Texts

LEMMA RequestAnswered ==
    ASSUME M!AmountsAssumption, AmountsInv, M!Answer
    PROVE  AmountsInv'
  <1> DEFINE named == M!decimalToMinor(request.shown["first"], currency["first"])
  <1>1. request # Nothing /\ recorded # Nothing /\ recorded.request = request /\ request' = Nothing
        /\ UNCHANGED <<form, currency, linked, text, recorded, submits>>
    BY DEF M!Answer, M!Served
  <1>2. \/ ~form.toast /\ said'.what = "done"
        \/ form.toast /\ named = Nothing /\ said'.what = "failed though recorded"
           /\ said'.currency = currency["first"]
        \/ form.toast /\ named # Nothing /\ said'.what = "amount" /\ said'.minor = named
           /\ said'.currency = currency["first"]
    <2>1. CASE ~form.toast
      <3>1. said' = [what |-> "done", minor |-> 0, currency |-> currency["first"]]
        BY <2>1 DEF M!Answer, M!Says
      <3> QED BY <2>1, <3>1
    <2>2. CASE form.toast /\ named = Nothing
      <3>1. said' = [what |-> "failed though recorded", minor |-> 0, currency |-> currency["first"]]
        BY <2>2 DEF M!Answer, M!Says
      <3> QED BY <2>2, <3>1
    <2>3. CASE form.toast /\ named # Nothing
      <3>1. said' = [what |-> "amount", minor |-> named, currency |-> currency["first"]]
        BY <2>3 DEF M!Answer, M!Says
      <3> HIDE DEF named
      <3> QED BY <2>3, <3>1
    <2> QED BY <2>1, <2>2, <2>3
  <1>3. GoodRequest(request) /\ GoodRecord /\ form \in M!AmountForms
    BY <1>1 DEF AmountsInv
  <1>4. ASSUME form.toast, currency["first"] = request.currency["first"]
        PROVE  named # Nothing /\ named = recorded.amount["first"]
    <2> DEFINE t == request.shown["first"]
               c == request.currency["first"]
    <2>1. t # Nothing /\ t.kind = "number"
      BY <1>3, <1>4, FormFacts DEF GoodRequest
    <2>2. FieldRecorded(recorded.amount["first"], t, c, recorded.amount["first"])
      BY <1>1, <1>3 DEF GoodRecord, M!Fields
    <2>3. t \in M!Texts /\ t.value % M!MinorUnit(c) = 0
          /\ recorded.amount["first"] = t.value \div M!MinorUnit(c)
      BY <2>1, <2>2 DEF FieldRecorded
    <2>4. named = t.value \div M!MinorUnit(c)
      BY <1>4, <2>1, <2>3 DEF M!decimalToMinor
    <2>5. c \in Currencies
      BY <1>3 DEF GoodRequest, M!Fields
    <2>6. t.value \div M!MinorUnit(c) \in Nat
      BY <2>3, <2>5, MinorUnits
    <2> QED BY <2>3, <2>4, <2>6 DEF M!AmountsAssumption
  <1>5. M!NoticeIsTrue'
    BY <1>1, <1>2, <1>4 DEF M!NoticeIsTrue
  <1>6. said'.what # "refused"
    BY <1>2
  <1>7. GoodRecord'
    BY <1>1, <1>3 DEF GoodRecord, GoodRequest, FieldSent, FieldRecorded
  <1> QED BY <1>1, <1>5, <1>6, <1>7 DEF AmountsInv

LEMMA AmountsFirst ==
    ASSUME M!AmountsAssumption, M!AmountsInit
    PROVE  AmountsInv
  <1>1. [kind |-> "empty", value |-> 0, places |-> 0] \in M!Texts
    BY DEF M!Texts
  <1>2. form \in M!AmountForms /\ currency \in [M!Fields -> Currencies]
        /\ text \in [M!Fields -> M!Texts] /\ request = Nothing /\ recorded = Nothing
    BY <1>1 DEF M!AmountsInit
  <1>3. said.what = "nothing"
    BY DEF M!AmountsInit
  <1> QED BY <1>2, <1>3 DEF AmountsInv, M!NoticeIsTrue

LEMMA AmountsSteps ==
    ASSUME M!AmountsAssumption, AmountsInv, [M!AmountsNext]_(M!amountVars)
    PROVE  AmountsInv'
  <1>1. ASSUME UNCHANGED <<form, request, recorded, said>>,
               currency' \in [M!Fields -> Currencies], text' \in [M!Fields -> M!Texts]
        PROVE  AmountsInv'
    <2>1. request # Nothing => GoodRequest(request)'
      BY <1>1 DEF AmountsInv, GoodRequest, FieldSent
    <2>2. recorded # Nothing => GoodRecord'
      BY <1>1 DEF AmountsInv, GoodRecord, GoodRequest, FieldSent, FieldRecorded
    <2>3. M!NoticeIsTrue'
      BY <1>1 DEF AmountsInv, M!NoticeIsTrue
    <2> QED BY <1>1, <2>1, <2>2, <2>3 DEF AmountsInv
  <1>2. currency \in [M!Fields -> Currencies] /\ text \in [M!Fields -> M!Texts]
    BY DEF AmountsInv
  <1>3. CASE UNCHANGED M!amountVars
    BY <1>1, <1>2, <1>3 DEF M!amountVars
  <1>4. ASSUME NEW f \in M!Fields, NEW t \in M!Texts, M!Type(f, t) PROVE AmountsInv'
    BY <1>1, <1>2, <1>4 DEF M!Type
  <1>5. ASSUME NEW f \in M!Fields, NEW c \in Currencies, M!Choose(f, c) PROVE AmountsInv'
    <2>1. currency' \in [M!Fields -> Currencies]
      BY <1>2, <1>5 DEF M!Choose
    <2> QED BY <1>1, <1>2, <1>5, <2>1 DEF M!Choose
  <1>6. CASE M!Link
    BY <1>1, <1>2, <1>6 DEF M!Link
  <1>7. CASE M!Submit
    <2>1. UNCHANGED <<form, currency, linked, text, recorded>> /\ request = Nothing
      BY <1>7 DEF M!Submit
    <2>2. said'.what \in {"nothing", "field", "failed"}
      BY <1>7 DEF M!Submit, M!Says
    <2>3. request' # Nothing => GoodRequest(request')
      BY <1>7, <2>1, RequestMade
    <2>4. GoodRequest(request') => GoodRequest(request)'
      BY <2>1 DEF GoodRequest, FieldSent
    <2>5. recorded # Nothing => GoodRecord'
      BY <2>1 DEF AmountsInv, GoodRecord, GoodRequest, FieldSent, FieldRecorded
    <2>6. M!NoticeIsTrue'
      BY <2>2 DEF M!NoticeIsTrue
    <2> QED BY <1>2, <2>1, <2>2, <2>3, <2>4, <2>5, <2>6 DEF AmountsInv
  <1>8. CASE M!Serve
    BY <1>8, RequestServed
  <1>9. CASE M!Answer
    BY <1>9, RequestAnswered
  <1> QED BY <1>3, <1>4, <1>5, <1>6, <1>7, <1>8, <1>9 DEF M!AmountsNext

\* What is recorded is what the form showed when it was submitted, to the last digit and in
\* its currency, and the notice of success names it (TransactionForm.tsx, lib/money.ts).
LEMMA AmountsRecorded == ASSUME M!AmountsAssumption PROVE M!AmountsSpec => []M!FormsRecord
  <1>1. M!AmountsInit => AmountsInv
    BY AmountsFirst
  <1>2. AmountsInv /\ [M!AmountsNext]_(M!amountVars) => AmountsInv'
    BY AmountsSteps
  <1>3. AmountsInv => M!FormsRecord
    <2> SUFFICES ASSUME AmountsInv PROVE M!AmountsAsShown /\ M!NoticeIsTrue
      BY DEF M!FormsRecord
    <2>1. ASSUME recorded # Nothing, NEW f \in M!Fields
          PROVE  LET t == recorded.request.shown[f]
                     m == recorded.amount[f]
                 IN  CASE t = Nothing ->
                            m = IF form = M!Transfer THEN recorded.amount["first"] ELSE Nothing
                       [] t # Nothing /\ t.kind = "empty" -> m = Nothing
                       [] OTHER -> m # Nothing /\ m * M!MinorUnit(recorded.request.currency[f]) = t.value
      <3> DEFINE t == recorded.request.shown[f]
                 m == recorded.amount[f]
                 c == recorded.request.currency[f]
      <3>1. GoodRecord
        BY <2>1 DEF AmountsInv
      <3>2. FieldRecorded(m, t, c, recorded.amount["first"]) /\ c \in Currencies
        BY <3>1 DEF GoodRecord, GoodRequest
      <3> HIDE DEF t, m, c
      <3>3. t \in M!Texts => t # Nothing
        BY <3>2, MinorUnits
      <3>4. t \in M!Texts /\ t.value % M!MinorUnit(c) = 0 =>
              t.value \div M!MinorUnit(c) \in Nat /\ (t.value \div M!MinorUnit(c)) * M!MinorUnit(c) = t.value
        BY <3>2, MinorUnits
      <3>5. CASE t = Nothing
        <4>1. m = IF form = M!Transfer THEN recorded.amount["first"] ELSE Nothing
          BY <3>2, <3>3, <3>5 DEF FieldRecorded
        <4> QED BY <3>5, <4>1 DEF t, m
      <3>6. CASE t # Nothing /\ t.kind = "empty"
        <4>1. m = Nothing
          BY <3>2, <3>6 DEF FieldRecorded
        <4> QED BY <3>6, <4>1 DEF t, m
      <3>7. CASE t # Nothing /\ t.kind # "empty"
        <4>1. t \in M!Texts /\ t.value % M!MinorUnit(c) = 0 /\ m = t.value \div M!MinorUnit(c)
          BY <3>2, <3>7 DEF FieldRecorded
        <4>2. m # Nothing /\ m * M!MinorUnit(c) = t.value
          BY <3>4, <4>1 DEF M!AmountsAssumption
        <4> QED BY <3>7, <4>2 DEF t, m, c
      <3> QED BY <3>5, <3>6, <3>7
    <2>2. M!AmountsAsShown
      BY <2>1 DEF AmountsInv, M!AmountsAsShown
    <2> QED BY <2>2 DEF AmountsInv
  <1> QED BY <1>1, <1>2, <1>3, PTL DEF M!AmountsSpec

\* What a request has beside the amounts, what is recorded of them, and what the form says.
RequestKept(r) == r.number \in 0 .. MaxTries /\ r.shown \in [M!Fields -> M!Texts \cup {Nothing}]

AmountsSaid ==
  /\ linked \in BOOLEAN /\ submits \in 0 .. MaxTries
  /\ request # Nothing => RequestKept(request)
  /\ recorded # Nothing => /\ RequestKept(recorded.request)
                           /\ recorded.amount \in [M!Fields -> Nat \cup {Nothing}]
  /\ said.what \in {"nothing", "field", "failed", "refused", "done", "amount",
                    "failed though recorded"}

LEMMA AmountsSays ==
    ASSUME M!AmountsAssumption, AmountsInv, AmountsSaid, [M!AmountsNext]_(M!amountVars)
    PROVE  AmountsSaid'
  <1>1. CASE UNCHANGED <<submits, request, recorded, said>> /\ linked' \in BOOLEAN
    BY <1>1 DEF AmountsSaid, RequestKept
  <1>2. CASE M!Submit
    <2>1. UNCHANGED <<linked, recorded>> /\ submits' \in 0 .. MaxTries
      <3>1. UNCHANGED <<linked, recorded>> /\ submits < MaxTries /\ submits' = submits + 1
        BY <1>2, Zenon DEF M!Submit
      <3>2. MaxTries \in Nat /\ submits \in 0 .. MaxTries
        BY DEF AmountsSaid, M!AmountsAssumption
      <3> QED BY <3>1, <3>2
    <2>2. said'.what \in {"nothing", "field", "failed"}
      BY <1>2 DEF M!Submit, M!Says
    <2>3. request' # request => RequestKept(request')
      <3> DEFINE shown == [f \in M!Fields |-> IF M!Shown(f) THEN text[f] ELSE Nothing]
                 amount == [f \in M!Fields |-> M!Sent(f)]
      <3> SUFFICES ASSUME request' # request PROVE RequestKept(request')
        OBVIOUS
      <3>1. request' = [number |-> submits, amount |-> amount, currency |-> currency, shown |-> shown]
        BY <1>2 DEF M!Submit
      <3>2. shown \in [M!Fields -> M!Texts \cup {Nothing}]
        BY DEF AmountsInv
      <3> HIDE DEF shown, amount
      <3>3. submits \in 0 .. MaxTries
        BY DEF AmountsSaid
      <3> QED BY <3>1, <3>2, <3>3 DEF RequestKept
    <2> QED BY <2>1, <2>2, <2>3 DEF AmountsSaid, RequestKept
  <1>3. CASE M!Serve
    <2>1. form \in M!AmountForms /\ request # Nothing /\ GoodRequest(request)
      BY <1>3 DEF M!Serve, AmountsInv
    <2>2. \A f \in M!Fields : M!Asked[f] \in Nat \cup {Nothing}
      BY <2>1, RequestRead
    <2>3. M!Asked \in [M!Fields -> Nat \cup {Nothing}]
      BY <2>2 DEF M!Asked
    <2> DEFINE amount == IF form.second = "received" /\ M!Asked["second"] = Nothing
                         THEN [M!Asked EXCEPT !["second"] = M!Asked["first"]] ELSE M!Asked
    <2>4. amount \in [M!Fields -> Nat \cup {Nothing}]
      BY <2>3 DEF M!Fields
    <2>5. recorded' = [request |-> request, amount |-> amount]
          /\ UNCHANGED <<linked, submits, request, said>>
      BY <1>3, <2>1, RequestRead DEF M!Serve
    <2> HIDE DEF amount
    <2>6. recorded'.request = request /\ recorded'.amount = amount
      BY <2>5
    <2> QED BY <2>1, <2>4, <2>5, <2>6 DEF AmountsSaid, RequestKept
  <1>4. CASE M!Answer
    <2>1. request' = Nothing /\ \E m : \E w \in {"done", "failed though recorded", "amount"} : M!Says(w, m)
      BY <1>4, Zenon DEF M!Answer
    <2>2. PICK m : \E w \in {"done", "failed though recorded", "amount"} : M!Says(w, m)
      BY <2>1
    <2>3. PICK w \in {"done", "failed though recorded", "amount"} : M!Says(w, m)
      BY <2>2
    <2>4. said'.what \in {"done", "failed though recorded", "amount"}
      BY <2>3 DEF M!Says
    <2> QED BY <1>4, <2>1, <2>4 DEF M!Answer, AmountsSaid, RequestKept
  <1>5. CASE (\E f \in M!Fields, t \in M!Texts : M!Type(f, t)) \/ M!Link
             \/ (\E f \in M!Fields, c \in Currencies : M!Choose(f, c))
    <2>1. UNCHANGED <<submits, request, recorded, said>> /\ linked' \in BOOLEAN
      BY <1>5 DEF M!Type, M!Choose, M!Link, AmountsSaid
    <2> QED BY <1>1, <2>1
  <1>6. CASE UNCHANGED M!amountVars
    BY <1>1, <1>6 DEF M!amountVars, AmountsSaid
  <1> QED BY <1>2, <1>3, <1>4, <1>5, <1>6 DEF M!AmountsNext

LEMMA AmountsKeepTypes == ASSUME M!AmountsAssumption PROVE M!AmountsSpec => []M!WebTypeOK
  <1>1. M!AmountsInit => AmountsInv /\ AmountsSaid
    <2> SUFFICES ASSUME M!AmountsInit PROVE AmountsSaid
      BY AmountsFirst
    <2>1. said.what = "nothing" /\ request = Nothing /\ recorded = Nothing /\ submits = 0
          /\ linked \in BOOLEAN
      BY DEF M!AmountsInit
    <2> QED BY <2>1 DEF AmountsSaid, M!AmountsAssumption
  <1>2. AmountsInv /\ AmountsSaid /\ [M!AmountsNext]_(M!amountVars) => (AmountsInv /\ AmountsSaid)'
    BY AmountsSteps, AmountsSays
  <1>3. AmountsInv /\ AmountsSaid => M!WebTypeOK
    BY DEF AmountsInv, AmountsSaid, RequestKept, GoodRequest, GoodRecord, M!WebTypeOK, M!IsRequest
  <1> QED BY <1>1, <1>2, <1>3, PTL DEF M!AmountsSpec

-----------------------------------------------------------------------------
(* The trade sheet (WebTrade) *)

\* A trade with the cash it has moved, and the form with the trade it was opened on.
TradeEvent ==
  [type : Types, currency : T!TradeCurrencies, total : Amounts \cup {0}, fee : Amounts \cup {0},
   feeCurrency : T!TradeCurrencies, cash : Int, rate : Amounts \cup {0}, basis : Amounts \cup {0}]
TradeForm == [values : T!ValuesType, of : TradeEvent \cup {Nothing}, touches : 0 .. MaxTouches]

\* A trade across currencies without a rate has moved the cash it was given, out
\* for a purchase and in for a sale; other events than trades move none.
Settles(e) ==
  /\ T!Priced(e) /\ T!Cross(e) /\ e.rate = 0 => IF e.type = "buy" THEN e.cash < 0 ELSE e.cash > 0
  /\ ~T!Priced(e) => e.cash = 0

\* A form that has not been touched is the trade it was opened on, and sends that.
Untouched(f) == f # Nothing /\ f.touches = 0 /\ f.of # Nothing
AsOpened == Untouched(form) => form.values = T!valuesFromEvent(form.of)
SentAsOpened == Untouched(request) => request.values = T!toRequest(T!valuesFromEvent(request.of))

\* The invariant of the trade sheet.
TradeInv ==
  /\ {event, seen} \subseteq TradeEvent \cup {Nothing} /\ saved \in Rates
  /\ {form, request} \subseteq TradeForm \cup {Nothing}
  /\ event # Nothing => Settles(event)
  /\ AsOpened /\ SentAsOpened
  /\ request # Nothing => ~T!AgainstTheRules(request.values)
  /\ T!RequestsWellFormed

LEMMA TradeOpenedType ==
    ASSUME T!TradeAssumption, NEW e \in TradeEvent
    PROVE  T!valuesFromEvent(e) \in T!ValuesType
  <1>1. T!Abs(e.cash) \in Nat
    BY DEF T!Abs, TradeEvent
  <1> QED BY <1>1 DEF T!valuesFromEvent, T!ValuesType, TradeEvent, T!TradeAssumption

LEMMA TradeSentType ==
    ASSUME T!TradeAssumption, NEW v \in T!ValuesType
    PROVE  T!toRequest(v) \in T!ValuesType
  <1> DEFINE p == T!Priced(v)
             total == IF p \/ v.type = "opening_position" THEN v.total ELSE 0
             fee == IF p THEN v.fee ELSE 0
             feeCurrency == IF fee # 0 THEN v.feeCurrency ELSE v.currency
             cash == IF p THEN v.cash ELSE 0
             rate == IF p /\ T!Cross(v) THEN v.rate ELSE 0
             basis == IF v.type = "opening_position" THEN v.basis ELSE 0
  <1>1. /\ total \in Amounts \cup {0} /\ fee \in Amounts \cup {0} /\ feeCurrency \in T!TradeCurrencies
        /\ cash \in Nat /\ rate \in Amounts \cup {0} /\ basis \in Amounts \cup {0}
    <2> HIDE DEF p
    <2> QED BY DEF T!ValuesType
  <1>2. T!toRequest(v) = [v EXCEPT !.total = total, !.fee = fee, !.feeCurrency = feeCurrency,
                                   !.cash = cash, !.rate = rate, !.basis = basis]
    BY Zenon DEF T!toRequest
  <1> HIDE DEF total, fee, feeCurrency, cash, rate, basis
  <1> QED BY <1>1, <1>2 DEF T!ValuesType

\* What the form sends keeps the rules of the server.
LEMMA TradeSentKeepsRules ==
    ASSUME T!TradeAssumption, NEW v \in T!ValuesType, T!Valid(v)
    PROVE  ~T!AgainstTheRules(T!toRequest(v))
  BY DEF T!toRequest, T!ValuesType, T!Priced, T!Cross, T!Valid, T!AgainstTheRules, T!TradeAssumption

LEMMA TradeCashType ==
    ASSUME T!TradeAssumption, NEW r \in T!ValuesType, saved \in Rates
    PROVE  T!positionCashEffect(r) \in Int
  <1>1. \A c \in T!TradeCurrencies : T!RateFor(r, c) \in Nat
    BY DEF T!RateFor, T!ValuesType, T!TradeAssumption
  <1>2. /\ r.total \in Nat /\ r.fee \in Nat /\ r.cash \in Nat
        /\ r.currency \in T!TradeCurrencies /\ r.feeCurrency \in T!TradeCurrencies
    <2>1. \A n \in Amounts \cup {0} : n \in Nat
      BY DEF T!TradeAssumption
    <2> QED BY <2>1 DEF T!ValuesType
  <1>3. /\ r.total * T!RateFor(r, r.currency) \in Nat
        /\ r.fee * T!RateFor(r, r.feeCurrency) \in Nat
    BY <1>1, <1>2
  <1> QED BY <1>2, <1>3 DEF T!positionCashEffect

\* What is written has settled.
LEMMA TradeWritten ==
    ASSUME T!TradeAssumption, NEW r \in T!ValuesType, saved \in Rates, ~T!Unsettled(r)
    PROVE  T!Written(r) \in TradeEvent /\ Settles(T!Written(r))
  <1> DEFINE cash == T!positionCashEffect(r)
  <1>1. cash \in Int
    BY TradeCashType
  <1>2. T!Priced(r) /\ r.cash # 0 => cash = IF r.type = "buy" THEN -r.cash ELSE r.cash
    BY DEF T!positionCashEffect
  <1>3. ~T!Priced(r) => cash = 0
    BY DEF T!positionCashEffect
  <1>4. r.cash \in Nat
    BY DEF T!ValuesType
  <1>5. T!Written(r) = [r EXCEPT !.cash = cash]
    BY DEF T!Written
  <1> HIDE DEF cash
  <1>6. T!Written(r) \in TradeEvent /\ T!Written(r).cash = cash
    BY <1>1, <1>5 DEF TradeEvent, T!ValuesType
  <1>7. /\ T!Written(r).type = r.type /\ T!Written(r).rate = r.rate
        /\ T!Written(r).currency = r.currency
    BY <1>5 DEF T!ValuesType
  <1> QED BY <1>2, <1>3, <1>4, <1>6, <1>7 DEF Settles, T!Priced, T!Cross, T!Unsettled

\* The cash of a trade that is opened and written again.
LEMMA TradeKeepsCash ==
    ASSUME T!TradeAssumption, NEW e \in TradeEvent, Settles(e), T!Cross(e), e.rate = 0,
           NEW r, r = T!toRequest(T!valuesFromEvent(e))
    PROVE  T!positionCashEffect(r) = e.cash
  <1> DEFINE v == T!valuesFromEvent(e)
  <1>1. v \in T!ValuesType /\ r \in T!ValuesType
    BY TradeOpenedType, TradeSentType
  <1>2. v.type = e.type /\ v.cash = IF e.cash # 0 THEN T!Abs(e.cash) ELSE 0
    BY DEF T!valuesFromEvent, T!explicitCash, TradeEvent
  <1> HIDE DEF v
  <1>3. r.type = v.type /\ r.cash = IF T!Priced(v) THEN v.cash ELSE 0
    BY <1>1 DEF T!toRequest, T!ValuesType, v
  <1>4. CASE T!Priced(e)
    <2>1. e.cash \in Int /\ e.cash # 0 /\ (e.type = "buy" => e.cash < 0) /\ (e.type # "buy" => e.cash > 0)
      BY <1>4 DEF Settles, TradeEvent
    <2>2. T!Priced(v) /\ T!Priced(r) /\ r.cash = T!Abs(e.cash) /\ r.type = e.type
      BY <1>2, <1>3, <1>4, <2>1 DEF T!Priced
    <2>3. r.cash # 0 /\ T!Abs(e.cash) = IF e.type = "buy" THEN -e.cash ELSE e.cash
      BY <2>1, <2>2 DEF T!Abs
    <2>4. T!positionCashEffect(r) = IF r.type = "buy" THEN -r.cash ELSE r.cash
      BY <2>2, <2>3 DEF T!positionCashEffect
    <2> QED BY <2>1, <2>2, <2>3, <2>4
  <1>5. CASE ~T!Priced(e)
    <2>1. ~T!Priced(r) /\ e.cash = 0
      BY <1>2, <1>3, <1>5 DEF T!Priced, Settles
    <2> QED BY <2>1 DEF T!positionCashEffect
  <1> QED BY <1>4, <1>5

\* The cash of a trade at its own rate, when it is opened and written again.
LEMMA TradeKeepsRate ==
    ASSUME T!TradeAssumption, NEW e \in TradeEvent, Settles(e), T!Cross(e), e.rate # 0,
           T!AtItsRate(e), NEW r, r = T!toRequest(T!valuesFromEvent(e))
    PROVE  T!positionCashEffect(r) = e.cash
  <1> DEFINE v == T!valuesFromEvent(e)
             p == [e EXCEPT !.cash = 0]
  <1>1. v \in T!ValuesType /\ r \in T!ValuesType
    BY TradeOpenedType, TradeSentType
  <1>2. v = [e EXCEPT !.cash = 0]
    BY DEF T!valuesFromEvent, T!explicitCash
  <1>3. /\ p \in T!ValuesType /\ p.type = e.type /\ p.cash = 0 /\ p.rate = e.rate
        /\ p.currency = e.currency /\ p.total = e.total /\ p.fee = e.fee
        /\ p.feeCurrency = e.feeCurrency
    BY DEF TradeEvent, T!ValuesType
  <1>4. T!positionCashEffect(p) = e.cash
    BY DEF T!AtItsRate
  <1>5. r = T!toRequest(p)
    BY <1>2
  <1> HIDE DEF v, p
  <1>6. CASE T!Priced(e)
    <2>1. T!Priced(p) /\ T!Cross(p)
      BY <1>3, <1>6 DEF T!Priced, T!Cross
    <2>2. /\ r.type = p.type /\ r.cash = 0 /\ r.rate = p.rate /\ r.currency = p.currency
          /\ r.total = p.total /\ r.fee = p.fee /\ (p.fee # 0 => r.feeCurrency = p.feeCurrency)
      BY <1>3, <1>5, <2>1 DEF T!toRequest, T!ValuesType
    <2>3. T!Priced(r)
      BY <2>1, <2>2 DEF T!Priced
    <2>4. /\ T!RateFor(r, r.currency) = T!RateFor(p, p.currency)
          /\ p.fee # 0 => T!RateFor(r, r.feeCurrency) = T!RateFor(p, p.feeCurrency)
      BY <2>2 DEF T!RateFor
    <2> QED BY <1>3, <1>4, <2>1, <2>2, <2>3, <2>4 DEF T!positionCashEffect
  <1>7. CASE ~T!Priced(e)
    <2>1. r.type = p.type /\ ~T!Priced(p) /\ e.cash = 0
      BY <1>3, <1>5, <1>7 DEF T!toRequest, T!ValuesType, T!Priced, Settles
    <2>2. ~T!Priced(r)
      BY <2>1 DEF T!Priced
    <2> QED BY <2>1, <2>2 DEF T!positionCashEffect
  <1> QED BY <1>6, <1>7

\* Filling in the form.
LEMMA TradeFills ==
    ASSUME T!TradeAssumption, TradeInv, T!Fill
    PROVE  TradeInv'
  <1>1. PICK v : form # Nothing /\ T!Touch(v) /\ v \in T!ValuesType
    <2>1. form # Nothing /\ form \in TradeForm /\ form.values \in T!ValuesType
      BY DEF TradeInv, TradeForm, T!Fill, T!ChangeType, T!ChangeCurrency, T!onInstrumentChange,
        T!Price, T!Basis, T!Cash, T!Rate, T!Fee
    <2> DEFINE w == form.values
    <2>2. \A t \in Types : [w EXCEPT !.type = t] \in T!ValuesType
      BY <2>1 DEF T!ValuesType
    <2>3. \A c \in T!TradeCurrencies : /\ [w EXCEPT !.currency = c] \in T!ValuesType
                                       /\ [w EXCEPT !.currency = c, !.feeCurrency = c] \in T!ValuesType
      BY <2>1 DEF T!ValuesType
    <2>4. \A n \in Amounts \cup {0} : /\ [w EXCEPT !.total = n] \in T!ValuesType
                                      /\ [w EXCEPT !.basis = n] \in T!ValuesType
                                      /\ [w EXCEPT !.rate = n] \in T!ValuesType
      BY <2>1 DEF T!ValuesType
    <2>5. \A n \in Amounts \cup {0} : [w EXCEPT !.cash = n] \in T!ValuesType
      BY <2>1 DEF T!ValuesType, T!TradeAssumption
    <2>6. \A n \in Amounts \cup {0}, c \in T!TradeCurrencies :
            [w EXCEPT !.fee = n, !.feeCurrency = c] \in T!ValuesType
      BY <2>1 DEF T!ValuesType
    <2> HIDE DEF w
    <2> QED
      BY <2>1, <2>2, <2>3, <2>4, <2>5, <2>6 DEF w, T!Fill, T!ChangeType, T!ChangeCurrency, T!onInstrumentChange,
        T!Price, T!Basis, T!Cash, T!Rate, T!Fee
  <1>2. /\ form' = [form EXCEPT !.values = v, !.touches = @ + 1] /\ form.touches < MaxTouches
        /\ UNCHANGED <<event, saved, seen, request, answer, saves>>
    BY <1>1 DEF T!Touch
  <1>3. form' \in TradeForm /\ form'.touches # 0
    <2>1. form \in TradeForm
      BY <1>1 DEF TradeInv
    <2>2. form.touches + 1 \in 0 .. MaxTouches /\ form.touches + 1 # 0
      BY <1>2, <2>1 DEF TradeForm, T!TradeAssumption
    <2> QED BY <1>1, <1>2, <2>1, <2>2 DEF TradeForm
  <1> QED
    BY <1>2, <1>3 DEF TradeInv, AsOpened, SentAsOpened, Untouched, T!RequestsWellFormed

LEMMA TradeSubmits ==
    ASSUME T!TradeAssumption, TradeInv, T!Submit
    PROVE  TradeInv'
  <1> DEFINE r == T!toRequest(form.values)
  <1>1. form # Nothing /\ form \in TradeForm /\ form.values \in T!ValuesType
    BY DEF T!Submit, TradeInv, TradeForm
  <1>2. r \in T!ValuesType /\ ~T!AgainstTheRules(r)
    BY <1>1, TradeSentType, TradeSentKeepsRules DEF T!Submit
  <1>3. request' = [form EXCEPT !.values = r] /\ UNCHANGED <<event, saved, seen, form, answer>>
    BY DEF T!Submit
  <1>4. form.touches = 0 /\ form.of # Nothing => r = T!toRequest(T!valuesFromEvent(form.of))
    BY <1>1 DEF TradeInv, AsOpened, Untouched
  <1> HIDE DEF r
  <1>5. /\ request' \in TradeForm /\ request'.values = r
        /\ request'.touches = form.touches /\ request'.of = form.of
    BY <1>1, <1>2, <1>3 DEF TradeForm
  <1>6. SentAsOpened'
    BY <1>1, <1>4, <1>5 DEF SentAsOpened, Untouched
  <1>7. ~T!AgainstTheRules(request'.values)
    BY <1>2, <1>5
  <1> QED BY <1>3, <1>5, <1>6, <1>7 DEF TradeInv, T!RequestsWellFormed, AsOpened, Untouched

LEMMA TradeServes ==
    ASSUME T!TradeAssumption, TradeInv, T!Serve
    PROVE  TradeInv'
  <1>1. /\ request # Nothing /\ request \in TradeForm /\ request.values \in T!ValuesType
        /\ ~T!AgainstTheRules(request.values)
    BY DEF T!Serve, TradeInv, TradeForm
  <1>2. /\ answer' # "rules"
        /\ answer' = "saved" => ~T!Unsettled(request.values)
        /\ answer' = "saved" => event' = T!Written(request.values)
        /\ answer' # "saved" => event' = event
        /\ form' \in {form, Nothing} /\ request' = Nothing /\ UNCHANGED <<saved, seen, saves>>
    BY <1>1 DEF T!Serve, T!Verdict
  <1>3. answer' = "saved" => event' \in TradeEvent /\ Settles(event')
    BY <1>1, <1>2, TradeWritten DEF TradeInv
  <1>4. event' \in TradeEvent \cup {Nothing} /\ (event' # Nothing => Settles(event'))
    BY <1>2, <1>3 DEF TradeInv
  <1> QED
    BY <1>2, <1>4 DEF TradeInv, T!RequestsWellFormed, AsOpened, SentAsOpened, Untouched

\* Opening and closing the form, and what happens beside it.
LEMMA TradeOthers ==
    ASSUME T!TradeAssumption, TradeInv,
           \/ \E t \in Types, c \in T!TradeCurrencies : T!NewTrade(t, c)
           \/ T!EditTrade \/ T!Close \/ T!ReadEvent \/ T!DeleteTrade
           \/ \E n \in Rates : T!SaveRate(n)
    PROVE  TradeInv'
  <1>1. UNCHANGED <<request, answer>>
    BY DEF T!NewTrade, T!EditTrade, T!Close, T!ReadEvent, T!DeleteTrade, T!SaveRate
  <1>2. /\ saved' \in Rates /\ event' \in {event, Nothing} /\ seen' \in {seen, event, Nothing}
    BY DEF TradeInv, T!NewTrade, T!EditTrade, T!Close, T!ReadEvent, T!DeleteTrade, T!SaveRate
  <1>3. form' \in TradeForm \cup {Nothing} /\ AsOpened'
    <2>1. CASE \E t \in Types, c \in T!TradeCurrencies : T!NewTrade(t, c)
      <3>1. PICK t \in Types, c \in T!TradeCurrencies : form' = T!Opened(T!Blank(t, c), Nothing)
        BY <2>1 DEF T!NewTrade
      <3>2. T!Blank(t, c) \in T!ValuesType
        BY DEF T!Blank, T!ValuesType
      <3>3. form' \in TradeForm /\ form'.of = Nothing
        BY <3>1, <3>2 DEF T!Opened, TradeForm, T!TradeAssumption
      <3> QED BY <3>3 DEF AsOpened, Untouched
    <2>2. CASE T!EditTrade
      <3>1. seen \in TradeEvent /\ form' = T!Opened(T!valuesFromEvent(seen), seen) /\ seen' = seen
        BY <2>2 DEF T!EditTrade, TradeInv
      <3>2. T!valuesFromEvent(seen) \in T!ValuesType
        BY <3>1, TradeOpenedType
      <3>3. form' \in TradeForm /\ form'.of = seen /\ form'.values = T!valuesFromEvent(seen)
        BY <3>1, <3>2 DEF T!Opened, TradeForm, T!TradeAssumption
      <3> QED BY <3>3 DEF AsOpened
    <2>3. CASE form' \in {form, Nothing}
      BY <2>3 DEF TradeInv, AsOpened, Untouched
    <2> QED
      BY <2>1, <2>2, <2>3 DEF T!Close, T!ReadEvent, T!DeleteTrade, T!SaveRate
  <1> QED
    BY <1>1, <1>2, <1>3 DEF TradeInv, SentAsOpened, Untouched, T!RequestsWellFormed

LEMMA TradeFirst == ASSUME T!TradeAssumption PROVE T!TradeInit => TradeInv
  BY DEF T!TradeInit, TradeInv, AsOpened, SentAsOpened, Untouched, T!RequestsWellFormed

LEMMA TradeSteps ==
    ASSUME T!TradeAssumption, TradeInv, [T!TradeNext]_(T!tradeVars)
    PROVE  TradeInv'
  <1>1. CASE UNCHANGED T!tradeVars
    BY <1>1 DEF T!tradeVars, TradeInv, AsOpened, SentAsOpened, Untouched, T!RequestsWellFormed
  <1>2. CASE T!TradeNext
    BY <1>2, TradeFills, TradeSubmits, TradeServes, TradeOthers DEF T!TradeNext
  <1> QED BY <1>1, <1>2

LEMMA TradeInvariant == ASSUME T!TradeAssumption PROVE T!TradeSpec => []TradeInv
  <1>1. T!TradeInit => TradeInv
    BY TradeFirst
  <1>2. TradeInv /\ [T!TradeNext]_(T!tradeVars) => TradeInv'
    BY TradeSteps
  <1> QED BY <1>1, <1>2, PTL DEF T!TradeSpec

\* Only an answer of the server ends a request.
LEMMA TradeEndsWhenServed ==
    ASSUME T!TradeNext, request # Nothing, request' = Nothing
    PROVE  T!Serve
  <1>1. CASE T!Fill
    BY <1>1 DEF T!Fill, T!ChangeType, T!ChangeCurrency, T!onInstrumentChange, T!Price, T!Basis,
      T!Cash, T!Rate, T!Fee, T!Touch
  <1> QED
    BY <1>1 DEF T!TradeNext, T!NewTrade, T!EditTrade, T!Submit, T!Close, T!ReadEvent, T!DeleteTrade,
      T!SaveRate

\* Whatever was filled in and hidden again, no field is sent that the type of the
\* trade excludes (TradeSheet.tsx toRequest).
LEMMA TradesWellFormed == ASSUME T!TradeAssumption PROVE T!TradeSpec => []T!RequestsWellFormed
  <1>1. TradeInv => T!RequestsWellFormed
    BY DEF TradeInv
  <1> QED BY <1>1, TradeInvariant, PTL

\* A trade across currencies moves the same cash after it was opened and saved, whatever
\* it is worth at the exchange rate that is saved by then (valuesFromEvent).
LEMMA SettledTradesKept == ASSUME T!TradeAssumption PROVE T!TradeSpec => T!SettledCashKept
  <1>1. TradeInv /\ [T!TradeNext]_(T!tradeVars) => [T!KeepsSettledCash]_(T!tradeVars)
    <2> SUFFICES ASSUME TradeInv, T!TradeNext, T!SavedUntouched, event # Nothing, T!Cross(event),
                        event.rate = 0 \/ T!AtItsRate(event)
                 PROVE  event'.cash = event.cash
      BY DEF T!KeepsSettledCash
    <2>1. T!Serve /\ request # Nothing /\ request.touches = 0 /\ request.of = event
      BY TradeEndsWhenServed DEF T!SavedUntouched
    <2>2. /\ event \in TradeEvent /\ Settles(event)
          /\ request.values = T!toRequest(T!valuesFromEvent(event)) /\ request.values \in T!ValuesType
      BY <2>1 DEF TradeInv, TradeForm, SentAsOpened, Untouched
    <2>3. CASE answer' = "saved"
      <3>1. event' = T!Written(request.values)
        BY <2>1, <2>3 DEF T!Serve
      <3>2. event'.cash = T!positionCashEffect(request.values)
        BY <2>2, <3>1 DEF T!Written, T!ValuesType
      <3> QED BY <2>2, <3>2, TradeKeepsCash, TradeKeepsRate
    <2>4. CASE answer' # "saved"
      BY <2>1, <2>4 DEF T!Serve
    <2> QED BY <2>3, <2>4
  <1> QED BY <1>1, TradeInvariant, PTL DEF T!TradeSpec, T!SettledCashKept

\* What the server said last and the requests that were sent.
TradeSaid == answer \in {"none", "rules", "unsettled", "no rate", "saved"} /\ saves \in 0 .. MaxSaves

LEMMA TradeTyped == ASSUME T!TradeAssumption, TradeInv, TradeSaid PROVE T!WebTypeOK
  <1>1. \A e \in TradeEvent : T!IsEvent(e)
    <2> SUFFICES ASSUME NEW e \in TradeEvent PROVE T!IsEvent(e)
      OBVIOUS
    <2>1. [e EXCEPT !.cash = 0] \in T!ValuesType
      BY DEF TradeEvent, T!ValuesType
    <2>2. e.cash \in Int
      BY DEF TradeEvent
    <2> QED BY <2>1, <2>2 DEF T!IsEvent
  <1>2. \A f \in TradeForm : T!IsForm(f)
    BY <1>1 DEF TradeForm, T!IsForm
  <1> QED BY <1>1, <1>2 DEF TradeInv, TradeSaid, T!WebTypeOK

LEMMA TradeSays ==
    ASSUME T!TradeAssumption, TradeSaid, [T!TradeNext]_(T!tradeVars)
    PROVE  TradeSaid'
  <1>1. CASE UNCHANGED <<answer, saves>>
    BY <1>1 DEF TradeSaid
  <1>2. CASE T!Submit
    <2>1. saves < MaxSaves /\ saves' = saves + 1 /\ answer' = answer
      BY <1>2 DEF T!Submit
    <2>2. saves \in 0 .. MaxSaves /\ MaxSaves \in Nat
      BY DEF TradeSaid, T!TradeAssumption
    <2>3. saves' \in 0 .. MaxSaves
      BY <2>1, <2>2
    <2> QED BY <2>1, <2>3 DEF TradeSaid
  <1>3. CASE T!Serve
    <2>1. answer' = T!Verdict(request.values) /\ saves' = saves
      BY <1>3 DEF T!Serve
    <2>2. answer' \in {"none", "rules", "unsettled", "no rate", "saved"}
      BY <2>1, Zenon DEF T!Verdict
    <2> QED BY <2>1, <2>2 DEF TradeSaid
  <1>4. CASE T!Fill
    <2>1. UNCHANGED <<answer, saves>>
      BY <1>4 DEF T!Fill, T!ChangeType, T!ChangeCurrency, T!onInstrumentChange, T!Price, T!Basis,
        T!Cash, T!Rate, T!Fee, T!Touch
    <2> QED BY <1>1, <2>1
  <1>5. CASE \/ \E t \in Types, c \in T!TradeCurrencies : T!NewTrade(t, c)
             \/ T!EditTrade \/ T!Close \/ T!ReadEvent \/ T!DeleteTrade
             \/ \E n \in Rates : T!SaveRate(n)
    <2>1. UNCHANGED <<answer, saves>>
      BY <1>5 DEF T!NewTrade, T!EditTrade, T!Close, T!ReadEvent, T!DeleteTrade, T!SaveRate
    <2> QED BY <1>1, <2>1
  <1>6. CASE UNCHANGED T!tradeVars
    BY <1>1, <1>6 DEF T!tradeVars
  <1> QED BY <1>2, <1>3, <1>4, <1>5, <1>6 DEF T!TradeNext

LEMMA TradeKeepsTypes == ASSUME T!TradeAssumption PROVE T!TradeSpec => []T!WebTypeOK
  <1>1. T!TradeInit => TradeSaid
    BY DEF T!TradeInit, TradeSaid, T!TradeAssumption
  <1>2. TradeSaid /\ [T!TradeNext]_(T!tradeVars) => TradeSaid'
    BY TradeSays
  <1>3. TradeInv /\ TradeSaid => T!WebTypeOK
    BY TradeTyped
  <1> QED BY <1>1, <1>2, <1>3, TradeInvariant, PTL DEF T!TradeSpec

-----------------------------------------------------------------------------
(* Corporate actions (WebCorporate) *)

\* What is sent is of two instruments, or of one, and has a rate only across currencies.
Sensible(r) ==
  /\ r.instrument # Nothing
  /\ r.kind \in O!RelatedKinds => r.related \notin {Nothing, r.instrument}
  /\ r.kind = "drip" /\ r.rate => O!Cross(r)

\* The invariant of the sheet of corporate actions.
CorporateInv ==
  /\ O!WebTypeOK
  /\ request # Nothing => Sensible(request)
  /\ O!RequestsWellFormed

\* A kind is chosen, or the form is left.
LEMMA CorporateOpens ==
    ASSUME O!CorporateAssumption, CorporateInv, (\E k \in Kinds : O!Choose(k)) \/ O!Leave
    PROVE  CorporateInv'
  <1>1. UNCHANGED <<held, archived, list, request, answer, sent>>
    BY DEF O!Choose, O!Leave
  <1>2. form' \in O!FormType \cup {Nothing}
    <2>1. CASE O!Leave
      BY <2>1 DEF O!Leave
    <2>2. ASSUME NEW k \in Kinds, O!Choose(k) PROVE form' \in O!FormType
      <3>1. PICK i \in Instruments \cup {Nothing} : form' = O!Blank(k, i)
        BY <2>2 DEF O!Choose, CorporateInv, O!WebTypeOK
      <3>2. O!firstQuote(k, i) \in {"account", "other"}
        <4>1. CASE i \in Instruments
          BY <4>1 DEF O!firstQuote, O!CorporateAssumption
        <4>2. i \in O!active => list # Nothing /\ list \in SUBSET Instruments
          BY DEF O!active, CorporateInv, O!WebTypeOK
        <4>3. i \in O!active => i \in Instruments
          BY <4>2 DEF O!active
        <4> QED BY <4>1, <4>3 DEF O!firstQuote, O!CorporateAssumption
      <3> QED
        BY <3>1, <3>2 DEF O!Blank, O!FormType, O!Ratios, O!Fees, O!CorporateAssumption
    <2> QED BY <2>1, <2>2
  <1> QED BY <1>1, <1>2 DEF CorporateInv, O!WebTypeOK, O!RequestsWellFormed, Sensible, O!Cross

LEMMA CorporateFills ==
    ASSUME O!CorporateAssumption, CorporateInv, O!Fill
    PROVE  CorporateInv'
  <1>1. form # Nothing /\ form \in O!FormType
    BY DEF O!Fill, CorporateInv, O!WebTypeOK
  <1>2. PICK f \in O!FormType : O!Touch(f)
    <2>1. \A i \in Instruments : /\ [form EXCEPT !.instrument = i] \in O!FormType
                                 /\ [form EXCEPT !.related = i] \in O!FormType
                                 /\ [form EXCEPT !.instrument = i, !.currency = Quote[i]] \in O!FormType
      BY <1>1 DEF O!FormType, O!CorporateAssumption
    <2>2. /\ \A n \in O!Ratios : [form EXCEPT !.ratio = n] \in O!FormType
          /\ \A n \in O!Fees : [form EXCEPT !.fee = n] \in O!FormType
          /\ \A c \in {"account", "other"} : [form EXCEPT !.currency = c] \in O!FormType
      BY <1>1 DEF O!FormType
    <2>3. /\ [form EXCEPT !.filled = TRUE] \in O!FormType
          /\ [form EXCEPT !.destination = TRUE] \in O!FormType
          /\ [form EXCEPT !.cash = ~@] \in O!FormType /\ [form EXCEPT !.rate = ~@] \in O!FormType
      BY <1>1 DEF O!FormType
    <2> QED
      BY <2>1, <2>2, <2>3 DEF O!Fill, O!instrumentSelect, O!relatedSelect, O!ratioInputs,
        O!TradeCurrency, O!Fee, O!EnterAmounts, O!Settlement, O!Destination
  <1>3. form' = [f EXCEPT !.touches = form.touches + 1] /\ form.touches < MaxTouches
    BY <1>2 DEF O!Touch
  <1>4. form.touches + 1 \in 0 .. MaxTouches
    BY <1>1, <1>3 DEF O!FormType, O!CorporateAssumption
  <1>5. form' \in O!FormType
    BY <1>2, <1>3, <1>4 DEF O!FormType
  <1>6. UNCHANGED <<held, archived, list, request, answer, sent>>
    BY <1>2 DEF O!Touch
  <1> QED BY <1>5, <1>6 DEF CorporateInv, O!WebTypeOK, O!RequestsWellFormed, Sensible, O!Cross

LEMMA CorporateRecords ==
    ASSUME O!CorporateAssumption, CorporateInv, O!Record
    PROVE  CorporateInv'
  <1>1. form \in O!FormType /\ O!Valid(form)
    BY DEF O!Record, CorporateInv, O!WebTypeOK
  <1>2. request' = O!toRequest(form) /\ sent' = sent + 1 /\ sent < MaxActions
        /\ UNCHANGED <<held, archived, list, form, answer>>
    BY DEF O!Record
  <1>3. request' \in O!FormType /\ Sensible(request')
    <2>1. CASE form.kind # "drip"
      <3>1. request' = form
        BY <1>2, <2>1 DEF O!toRequest
      <3> QED BY <1>1, <2>1, <3>1 DEF Sensible, O!Valid
    <2>2. CASE form.kind = "drip"
      <3>1. request' = [form EXCEPT !.cash = @ /\ O!Cross(form), !.rate = @ /\ O!Cross(form)]
        BY <1>2, <2>2 DEF O!toRequest
      <3>2. request' \in O!FormType
        BY <1>1, <3>1 DEF O!FormType, O!Cross
      <3>3. /\ request'.kind = "drip" /\ request'.instrument = form.instrument
            /\ request'.rate = (form.rate /\ O!Cross(form)) /\ request'.currency = form.currency
        BY <1>1, <2>2, <3>1 DEF O!FormType
      <3> QED BY <1>1, <3>2, <3>3 DEF Sensible, O!Valid, O!RelatedKinds, O!Cross
    <2> QED BY <2>1, <2>2
  <1>4. sent' \in 0 .. MaxActions
    BY <1>2 DEF CorporateInv, O!WebTypeOK, O!CorporateAssumption
  <1> QED BY <1>2, <1>3, <1>4 DEF CorporateInv, O!WebTypeOK, O!RequestsWellFormed

LEMMA CorporateServes ==
    ASSUME O!CorporateAssumption, CorporateInv, O!Serve
    PROVE  CorporateInv'
  <1>1. request \in O!FormType /\ Sensible(request)
    BY DEF O!Serve, CorporateInv, O!WebTypeOK
  <1>2. answer' \in {"holding", "unsettled", "fee", "saved"}
    BY <1>1 DEF O!Serve, O!Verdict, Sensible
  <1>3. held' \subseteq Instruments
    <2>1. \A h \in O!After(request) : h \subseteq Instruments
      BY <1>1 DEF O!After, Sensible, O!RelatedKinds, O!FormType, CorporateInv, O!WebTypeOK
    <2> QED BY <2>1 DEF O!Serve, CorporateInv, O!WebTypeOK
  <1>4. form' \in {form, Nothing} /\ request' = Nothing /\ UNCHANGED <<archived, list, sent>>
    BY DEF O!Serve
  <1> QED BY <1>2, <1>3, <1>4 DEF CorporateInv, O!WebTypeOK, O!RequestsWellFormed

LEMMA CorporateFirst ==
    ASSUME O!CorporateAssumption, O!CorporateInit
    PROVE  CorporateInv
  <1>1. held \subseteq Instruments /\ archived \subseteq Instruments
    BY DEF O!CorporateInit
  <1>2. sent \in 0 .. MaxActions
    BY DEF O!CorporateInit, O!CorporateAssumption
  <1> QED
    BY <1>1, <1>2 DEF O!CorporateInit, CorporateInv, O!WebTypeOK, O!RequestsWellFormed

LEMMA CorporateSteps ==
    ASSUME O!CorporateAssumption, CorporateInv, [O!CorporateNext]_(O!corporateVars)
    PROVE  CorporateInv'
  <1>1. CASE UNCHANGED O!corporateVars
    BY <1>1 DEF O!corporateVars, CorporateInv, O!WebTypeOK, O!RequestsWellFormed, Sensible, O!Cross
  <1>2. CASE O!ReadInstruments \/ \E i \in Instruments : O!Archive(i)
    BY <1>2 DEF O!ReadInstruments, O!Archive, CorporateInv, O!WebTypeOK, O!RequestsWellFormed,
      Sensible, O!Cross
  <1>3. CASE (\E k \in Kinds : O!Choose(k)) \/ O!Fill \/ O!Record \/ O!Serve \/ O!Leave
    BY <1>3, CorporateOpens, CorporateFills, CorporateRecords, CorporateServes
  <1> QED BY <1>1, <1>2, <1>3 DEF O!CorporateNext

LEMMA CorporateInvariant == ASSUME O!CorporateAssumption PROVE O!CorporateSpec => []CorporateInv
  <1>1. O!CorporateInit => CorporateInv
    BY CorporateFirst
  <1>2. CorporateInv /\ [O!CorporateNext]_(O!corporateVars) => CorporateInv'
    BY CorporateSteps
  <1> QED BY <1>1, <1>2, PTL DEF O!CorporateSpec

\* However the form was filled in, with lists that came late, no action is sent of an
\* instrument on itself, nor a rate within one currency (CorporateActionSheet.tsx).
LEMMA ActionsMakeSense == ASSUME O!CorporateAssumption PROVE O!CorporateSpec => []O!RequestsWellFormed
  <1>1. CorporateInv => O!RequestsWellFormed
    BY DEF CorporateInv
  <1> QED BY <1>1, CorporateInvariant, PTL

LEMMA CorporateKeepsTypes == ASSUME O!CorporateAssumption PROVE O!CorporateSpec => []O!WebTypeOK
  <1>1. CorporateInv => O!WebTypeOK
    BY DEF CorporateInv
  <1> QED BY <1>1, CorporateInvariant, PTL

-----------------------------------------------------------------------------
(* A new account (WebNewAccount) *)

\* An account that was opened for a draft has the first of its holdings.
Opened(a, d) ==
  /\ Len(a.holdings) <= Len(d.holdings)
  /\ \A k \in 1 .. Len(a.holdings) : a.holdings[k] = d.holdings[k].instrument

\* The draft suits its mode, and what a step has let pass still holds in the later ones.
DraftInv ==
  /\ draft.mode = "balance" => draft.holdings = <<>>
  /\ draft.mode = "positions" => draft.category \in Holds \cup {Nothing}
  /\ step \in {2, 3} => draft.category # Nothing
  /\ step = 3 => \A k \in 1 .. Len(draft.holdings) : draft.holdings[k].complete

\* What a run has created so far is as its draft says.
RunInv ==
  /\ Len(accounts) <= clicks
  /\ run # Nothing => run.account \in 0 .. Len(accounts)
  /\ run # Nothing /\ run.account = 0 => Len(accounts) < clicks
  /\ run # Nothing /\ run.account # 0 => Opened(accounts[run.account], run.draft)
  /\ step = 4 => /\ run # Nothing /\ run.account # 0
                 /\ Len(accounts[run.account].holdings) >= Len(run.draft.holdings)

\* The invariant of the new account.
NewAccountInv == N!WebTypeOK /\ DraftInv /\ RunInv

\* Holdings are added, changed and removed in the third step, in the mode that has them.
LEMMA HoldingsEdited ==
    ASSUME N!NewAccountAssumption, NewAccountInv, step = 2, draft.mode = "positions",
           NEW hs \in Seq(N!Holding), Len(hs) <= MaxHoldings,
           N!Edit([draft EXCEPT !.holdings = hs])
    PROVE  NewAccountInv'
  <1>1. draft' \in N!Draft /\ draft'.mode = "positions" /\ draft'.category = draft.category
        /\ draft'.holdings = hs
    BY DEF N!Edit, NewAccountInv, N!WebTypeOK, N!Draft
  <1>2. UNCHANGED <<archived, known, step, run, accounts, clicks>>
    BY DEF N!Edit
  <1>3. N!WebTypeOK'
    BY <1>1, <1>2 DEF NewAccountInv, N!WebTypeOK
  <1>4. DraftInv'
    BY <1>1, <1>2 DEF NewAccountInv, DraftInv
  <1>5. RunInv'
    BY <1>2 DEF NewAccountInv, RunInv, Opened
  <1> QED BY <1>3, <1>4, <1>5 DEF NewAccountInv

\* Everything that is entered in the first three steps.
LEMMA DraftFilled ==
    ASSUME N!NewAccountAssumption, NewAccountInv, N!Fill
    PROVE  NewAccountInv'
  <1>1. draft \in N!Draft /\ draft.holdings \in Seq(N!Holding) /\ Len(draft.holdings) <= MaxHoldings
        /\ MaxHoldings \in Nat
    BY DEF NewAccountInv, N!WebTypeOK, N!Draft, N!NewAccountAssumption
  <1>2. ASSUME NEW m \in N!Modes, N!ChooseMode(m) PROVE NewAccountInv'
    <2> DEFINE d == [draft EXCEPT !.mode = m, !.category = Nothing, !.holdings = <<>>]
    <2>0. <<>> \in Seq(N!Holding) /\ Len(<<>>) = 0
      OBVIOUS
    <2>1. draft' \in N!Draft /\ draft'.category = Nothing /\ draft'.holdings = <<>> /\ step = 0
      <3>1. draft' = d /\ step = 0
        BY <1>2 DEF N!ChooseMode, N!Edit
      <3>2. d \in N!Draft /\ d.category = Nothing /\ d.holdings = <<>>
        BY <1>1, <2>0 DEF N!Draft
      <3> QED BY <3>1, <3>2
    <2>2. UNCHANGED <<archived, known, step, run, accounts, clicks>>
      BY <1>2 DEF N!ChooseMode, N!Edit
    <2>3. N!WebTypeOK'
      BY <1>1, <2>0, <2>1, <2>2 DEF NewAccountInv, N!WebTypeOK
    <2>4. DraftInv' /\ RunInv'
      BY <2>1, <2>2 DEF NewAccountInv, DraftInv, RunInv, Opened
    <2> QED BY <2>3, <2>4 DEF NewAccountInv
  <1>3. ASSUME NEW c \in Categories, N!ChooseCategory(c) PROVE NewAccountInv'
    <2>1. draft' \in N!Draft /\ draft'.category = c /\ draft'.mode = draft.mode
          /\ draft'.holdings = draft.holdings /\ step = 1
      BY <1>1, <1>3 DEF N!ChooseCategory, N!Edit, N!Draft
    <2>2. draft.mode = "positions" => c \in Holds
      BY <1>3 DEF N!ChooseCategory, N!usable
    <2>3. UNCHANGED <<archived, known, step, run, accounts, clicks>>
      BY <1>3 DEF N!ChooseCategory, N!Edit
    <2>4. N!WebTypeOK'
      BY <1>1, <2>1, <2>3 DEF NewAccountInv, N!WebTypeOK
    <2>5. DraftInv' /\ RunInv'
      BY <2>1, <2>2, <2>3 DEF NewAccountInv, DraftInv, RunInv, Opened
    <2> QED BY <2>4, <2>5 DEF NewAccountInv
  <1>4. CASE N!Opening
    <2>1. draft' \in N!Draft /\ draft'.category = draft.category /\ draft'.mode = draft.mode
          /\ draft'.holdings = draft.holdings /\ step = 2
      BY <1>1, <1>4 DEF N!Opening, N!Edit, N!Draft
    <2>2. UNCHANGED <<archived, known, step, run, accounts, clicks>>
      BY <1>4 DEF N!Opening, N!Edit
    <2>3. N!WebTypeOK'
      BY <1>1, <2>1, <2>2 DEF NewAccountInv, N!WebTypeOK
    <2>4. DraftInv' /\ RunInv'
      BY <2>1, <2>2 DEF NewAccountInv, DraftInv, RunInv, Opened
    <2> QED BY <2>3, <2>4 DEF NewAccountInv
  <1>5. ASSUME NEW i \in Tradable, N!AddHolding(i) PROVE NewAccountInv'
    <2> DEFINE e == [instrument |-> i, complete |-> FALSE]
    <2>1. e \in N!Holding
      BY DEF N!Holding
    <2>2. Append(draft.holdings, e) \in Seq(N!Holding)
          /\ Len(Append(draft.holdings, e)) = Len(draft.holdings) + 1
      BY <1>1, <2>1, Appended
    <2>3. step = 2 /\ draft.mode = "positions" /\ Len(draft.holdings) < MaxHoldings
          /\ N!Edit([draft EXCEPT !.holdings = Append(draft.holdings, e)])
      BY <1>5 DEF N!AddHolding
    <2>4. Len(Append(draft.holdings, e)) <= MaxHoldings
      BY <1>1, <2>2, <2>3
    <2> QED BY <2>2, <2>3, <2>4, HoldingsEdited
  <1>6. ASSUME NEW k \in 1 .. Len(draft.holdings), N!RemoveHolding(k) PROVE NewAccountInv'
    <2> DEFINE hs == draft.holdings
               rest == [j \in 1 .. (Len(hs) - 1) |-> IF j < k THEN hs[j] ELSE hs[j + 1]]
    <2>1. Len(hs) - 1 \in Nat /\ \A j \in 1 .. Len(hs) : hs[j] \in N!Holding
      BY <1>1
    <2>2. \A j \in 1 .. (Len(hs) - 1) : rest[j] \in N!Holding
      BY <2>1
    <2>3. rest \in Seq(N!Holding) /\ Len(rest) = Len(hs) - 1
      BY <2>1, <2>2
    <2>4. step = 2 /\ draft.mode = "positions" /\ N!Edit([draft EXCEPT !.holdings = rest])
      BY <1>6 DEF N!RemoveHolding
    <2>5. Len(rest) <= MaxHoldings
      BY <1>1, <2>3
    <2> QED BY <2>3, <2>4, <2>5, HoldingsEdited
  <1>7. ASSUME NEW k \in 1 .. Len(draft.holdings), NEW i \in Tradable, NEW c \in BOOLEAN,
               N!UpdateHolding(k, i, c)
        PROVE  NewAccountInv'
    <2> DEFINE e == [instrument |-> i, complete |-> c]
               hs == [draft.holdings EXCEPT ![k] = e]
    <2>1. e \in N!Holding
      BY DEF N!Holding
    <2>2. hs \in Seq(N!Holding) /\ Len(hs) = Len(draft.holdings)
      BY <1>1, <2>1, Replaced
    <2>3. step = 2 /\ draft.mode = "positions" /\ N!Edit([draft EXCEPT !.holdings = hs])
      BY <1>1, <1>7 DEF N!UpdateHolding, N!Draft
    <2> QED BY <1>1, <2>2, <2>3, HoldingsEdited
  <1> QED BY <1>2, <1>3, <1>4, <1>5, <1>6, <1>7 DEF N!Fill

\* Only a valid step is left forwards.
LEMMA StepTaken ==
    ASSUME N!NewAccountAssumption, NewAccountInv, N!Continue \/ N!Back
    PROVE  NewAccountInv'
  <1>1. UNCHANGED <<archived, known, draft, run, accounts, clicks>> /\ step' \in 0 .. 3 /\ step \in 0 .. 4
    BY DEF N!Continue, N!Back, NewAccountInv, N!WebTypeOK
  <1>2. N!WebTypeOK'
    BY <1>1 DEF NewAccountInv, N!WebTypeOK
  <1>3. DraftInv'
    <2>1. CASE N!Back
      BY <1>1, <2>1 DEF N!Back, NewAccountInv, DraftInv
    <2>2. CASE N!Continue
      <3>1. step' = step + 1 /\ step < 3 /\ N!stepValid
        BY <2>2 DEF N!Continue
      <3>2. step = 1 => draft.category # Nothing
        BY <3>1 DEF N!stepValid
      <3>3. step = 2 => \A k \in 1 .. Len(draft.holdings) : draft.holdings[k].complete
        BY <3>1 DEF N!stepValid
      <3> QED BY <1>1, <3>1, <3>2, <3>3 DEF NewAccountInv, DraftInv
    <2> QED BY <2>1, <2>2
  <1>4. RunInv'
    BY <1>1 DEF NewAccountInv, RunInv, Opened
  <1> QED BY <1>2, <1>3, <1>4 DEF NewAccountInv

LEMMA RunStarted ==
    ASSUME N!NewAccountAssumption, NewAccountInv, N!Create
    PROVE  NewAccountInv'
  <1>1. run' = [draft |-> draft, account |-> 0] /\ clicks' = clicks + 1 /\ clicks < MaxClicks /\ step = 3
        /\ UNCHANGED <<archived, known, step, draft, accounts>>
    BY DEF N!Create
  <1>2. clicks \in 0 .. MaxClicks /\ MaxClicks \in Nat /\ draft \in N!Draft
    BY DEF NewAccountInv, N!WebTypeOK, N!NewAccountAssumption
  <1>3. run' \in N!Run /\ run'.account = 0
    BY <1>1, <1>2 DEF N!Run
  <1>4. N!WebTypeOK'
    BY <1>1, <1>2, <1>3 DEF NewAccountInv, N!WebTypeOK
  <1>5. Len(accounts) \in Nat
    BY DEF NewAccountInv, N!WebTypeOK
  <1>6. RunInv'
    BY <1>1, <1>2, <1>3, <1>5 DEF NewAccountInv, RunInv
  <1>7. DraftInv'
    BY <1>1 DEF NewAccountInv, DraftInv
  <1> QED BY <1>4, <1>6, <1>7 DEF NewAccountInv

LEMMA AccountOpens ==
    ASSUME N!NewAccountAssumption, NewAccountInv, N!OpenAccount
    PROVE  NewAccountInv'
  <1> DEFINE a == [mode |-> run.draft.mode, holdings |-> <<>>]
  <1>1. run \in N!Run /\ run # Nothing /\ run.account = 0 /\ step < 4
        /\ accounts' = Append(accounts, a) /\ run' = [run EXCEPT !.account = Len(accounts) + 1]
        /\ UNCHANGED <<archived, known, step, draft, clicks>>
    BY DEF N!OpenAccount, NewAccountInv, N!WebTypeOK
  <1>2. a \in N!Account /\ a.holdings = <<>>
    BY <1>1 DEF N!Run, N!Draft, N!Account
  <1>3. accounts \in Seq(N!Account) /\ Len(accounts) \in Nat
    BY DEF NewAccountInv, N!WebTypeOK
  <1> HIDE DEF a
  <1>4. accounts' \in Seq(N!Account) /\ Len(accounts') = Len(accounts) + 1
        /\ accounts'[Len(accounts) + 1] = a
    BY <1>1, <1>2, <1>3, Appended
  <1>5. Len(accounts) < clicks /\ clicks \in 0 .. MaxClicks /\ MaxClicks \in Nat
    BY <1>1 DEF NewAccountInv, RunInv, N!WebTypeOK, N!NewAccountAssumption
  <1>6. run' \in N!Run /\ run'.account = Len(accounts) + 1 /\ run'.draft = run.draft
    <2>1. Len(accounts) + 1 \in 0 .. MaxClicks
      BY <1>3, <1>5
    <2> QED BY <1>1, <2>1 DEF N!Run
  <1>7. N!WebTypeOK'
    BY <1>1, <1>4, <1>6 DEF NewAccountInv, N!WebTypeOK
  <1>8. Opened(a, run.draft)
    <2>1. run.draft.holdings \in Seq(N!Holding)
      BY <1>1 DEF N!Run, N!Draft
    <2> QED BY <1>2, <2>1 DEF Opened
  <1>9. RunInv'
    BY <1>1, <1>3, <1>4, <1>5, <1>6, <1>8 DEF RunInv
  <1>10. DraftInv'
    BY <1>1 DEF NewAccountInv, DraftInv
  <1> QED BY <1>7, <1>9, <1>10 DEF NewAccountInv

LEMMA HoldingOpens ==
    ASSUME N!NewAccountAssumption, NewAccountInv, N!OpenHolding
    PROVE  NewAccountInv'
  <1> DEFINE n == run.account
             a == accounts[n]
             p == run.draft.holdings
             e == p[Len(a.holdings) + 1].instrument
             b == [a EXCEPT !.holdings = Append(@, e)]
  <1>1. run \in N!Run /\ run # Nothing /\ n # 0 /\ step < 4 /\ Len(a.holdings) < Len(p)
        /\ UNCHANGED <<archived, known, step, draft, run, clicks>>
    BY DEF N!OpenHolding, N!Sent, N!Pending, NewAccountInv, N!WebTypeOK
  <1>2. accounts \in Seq(N!Account) /\ n \in 1 .. Len(accounts) /\ Opened(a, run.draft)
        /\ Len(accounts) \in Nat
    BY <1>1 DEF NewAccountInv, N!WebTypeOK, RunInv
  <1>3. a \in N!Account /\ a.holdings \in Seq(Tradable) /\ p \in Seq(N!Holding)
    <2>1. a \in N!Account
      BY <1>2
    <2>2. run.draft \in N!Draft
      BY <1>1 DEF N!Run
    <2> HIDE DEF a
    <2> QED BY <2>1, <2>2 DEF N!Account, N!Draft
  <1>4. e \in Tradable
    <2> DEFINE k == Len(a.holdings) + 1
    <2>1. Len(a.holdings) \in Nat /\ Len(p) \in Nat
      <3> HIDE DEF a
      <3> QED BY <1>3
    <2>2. k \in 1 .. Len(p)
      <3> DEFINE m == Len(a.holdings)
                 l == Len(p)
      <3>1. m \in Nat /\ l \in Nat /\ m < l
        BY <1>1, <2>1
      <3>2. k = m + 1
        OBVIOUS
      <3> HIDE DEF k, m, l
      <3>3. k \in 1 .. l
        BY <3>1, <3>2
      <3> QED BY <3>3 DEF l
    <2>3. p[k] \in N!Holding
      <3> HIDE DEF k, p
      <3> QED BY <1>3, <2>2
    <2> QED BY <2>3 DEF N!Holding
  <1>5. accounts' = [accounts EXCEPT ![n] = b]
    BY <1>2, <1>3 DEF N!OpenHolding, N!Sent, N!Pending, N!Account
  <1>6. b \in N!Account /\ b.holdings = Append(a.holdings, e)
    <2>1. Append(a.holdings, e) \in Seq(Tradable)
      BY <1>3, <1>4, Appended
    <2> QED BY <1>3, <2>1 DEF N!Account
  <1>7. Len(b.holdings) = Len(a.holdings) + 1 /\ Len(a.holdings) \in Nat /\ Len(p) \in Nat
        /\ b.holdings[Len(a.holdings) + 1] = e
        /\ \A k \in 1 .. Len(a.holdings) : b.holdings[k] = a.holdings[k]
    <2> HIDE DEF a, e, b
    <2> QED BY <1>3, <1>4, <1>6, Appended
  <1>8. Opened(b, run.draft)
    <2>1. Len(b.holdings) <= Len(p)
      <3> HIDE DEF a, b, p
      <3> QED BY <1>1, <1>7
    <2>2. \A k \in 1 .. Len(b.holdings) : b.holdings[k] = p[k].instrument
      <3> HIDE DEF b
      <3> SUFFICES ASSUME NEW k \in 1 .. Len(b.holdings) PROVE b.holdings[k] = p[k].instrument
        OBVIOUS
      <3>1. k \in 1 .. Len(a.holdings) \/ k = Len(a.holdings) + 1
        BY <1>7
      <3>2. CASE k \in 1 .. Len(a.holdings)
        <4>1. b.holdings[k] = a.holdings[k]
          BY <1>7, <3>2
        <4>2. \A j \in 1 .. Len(a.holdings) : a.holdings[j] = p[j].instrument
          BY <1>2 DEF Opened
        <4>3. a.holdings[k] = p[k].instrument
          BY <3>2, <4>2
        <4> QED BY <4>1, <4>3
      <3>3. CASE k = Len(a.holdings) + 1
        BY <1>7, <3>3
      <3> QED BY <3>1, <3>2, <3>3
    <2> QED BY <2>1, <2>2 DEF Opened
  <1> HIDE DEF b
  <1>9. accounts' \in Seq(N!Account) /\ Len(accounts') = Len(accounts) /\ accounts'[n] = b
    BY <1>2, <1>5, <1>6, Replaced
  <1>10. N!WebTypeOK'
    BY <1>1, <1>9 DEF NewAccountInv, N!WebTypeOK
  <1>11. RunInv'
    BY <1>1, <1>2, <1>8, <1>9 DEF NewAccountInv, RunInv, N!WebTypeOK
  <1>12. DraftInv'
    BY <1>1 DEF NewAccountInv, DraftInv
  <1> QED BY <1>10, <1>11, <1>12 DEF NewAccountInv

LEMMA RunEnds ==
    ASSUME N!NewAccountAssumption, NewAccountInv,
           N!Fail \/ N!Done \/ (\E x \in Categories \cup Tradable : N!Archive(x)) \/ N!Refetch
    PROVE  NewAccountInv'
  <1>1. CASE N!Fail
    <2>1. run' = Nothing /\ step < 4 /\ UNCHANGED <<archived, known, step, draft, accounts, clicks>>
      BY <1>1 DEF N!Fail
    <2> QED BY <2>1 DEF NewAccountInv, N!WebTypeOK, DraftInv, RunInv
  <1>2. CASE N!Done
    <2>1. run # Nothing /\ run.account # 0 /\ N!Sent >= Len(N!Pending) /\ step < 4 /\ step' = 4
          /\ UNCHANGED <<archived, known, draft, run, accounts, clicks>>
      BY <1>2 DEF N!Done
    <2>2. N!WebTypeOK'
      BY <2>1 DEF NewAccountInv, N!WebTypeOK
    <2>3. RunInv'
      BY <2>1 DEF NewAccountInv, RunInv, Opened, N!Sent, N!Pending
    <2>4. DraftInv'
      BY <2>1 DEF NewAccountInv, DraftInv
    <2> QED BY <2>2, <2>3, <2>4 DEF NewAccountInv
  <1>3. CASE (\E x \in Categories \cup Tradable : N!Archive(x)) \/ N!Refetch
    <2>1. UNCHANGED <<step, draft, run, accounts, clicks>>
          /\ archived' \subseteq Categories \cup Tradable /\ known' \subseteq archived'
      BY <1>3 DEF N!Archive, N!Refetch, NewAccountInv, N!WebTypeOK
    <2> QED BY <2>1 DEF NewAccountInv, N!WebTypeOK, DraftInv, RunInv, Opened
  <1> QED BY <1>1, <1>2, <1>3

LEMMA NewAccountFirst ==
    ASSUME N!NewAccountAssumption, N!NewAccountInit
    PROVE  NewAccountInv
  <1>1. <<>> \in Seq(N!Holding) /\ Len(<<>>) = 0 /\ <<>> \in Seq(N!Account)
    OBVIOUS
  <1>2. draft \in N!Draft /\ draft.mode = "balance" /\ draft.holdings = <<>>
    BY <1>1 DEF N!NewAccountInit, N!Draft, N!Modes
  <1>3. 0 \in 0 .. MaxClicks /\ Len(draft.holdings) <= MaxHoldings
    BY <1>2 DEF N!NewAccountAssumption
  <1> QED
    BY <1>1, <1>2, <1>3 DEF N!NewAccountInit, NewAccountInv, N!WebTypeOK, DraftInv, RunInv

LEMMA NewAccountSteps ==
    ASSUME N!NewAccountAssumption, NewAccountInv, [N!NewAccountNext]_(N!newAccountVars)
    PROVE  NewAccountInv'
  <1>1. CASE UNCHANGED N!newAccountVars
    BY <1>1 DEF N!newAccountVars, NewAccountInv, N!WebTypeOK, DraftInv, RunInv, Opened
  <1>2. CASE N!NewAccountNext
    BY <1>2, DraftFilled, StepTaken, RunStarted, AccountOpens, HoldingOpens, RunEnds
    DEF N!NewAccountNext
  <1> QED BY <1>1, <1>2

LEMMA NewAccountInvariant == ASSUME N!NewAccountAssumption PROVE N!NewAccountSpec => []NewAccountInv
  <1>1. N!NewAccountInit => NewAccountInv
    BY NewAccountFirst
  <1>2. NewAccountInv /\ [N!NewAccountNext]_(N!newAccountVars) => NewAccountInv'
    BY NewAccountSteps
  <1> QED BY <1>1, <1>2, PTL DEF N!NewAccountSpec

\* The account the page moves to has exactly the holdings that were reviewed, and what is
\* reviewed is complete and suits the way it is tracked, whatever is edited, archived or
\* fails in between (NewAccountPage.tsx).
LEMMA AccountsOpenedAsReviewed ==
    ASSUME N!NewAccountAssumption PROVE N!NewAccountSpec => []N!OpenedAsReviewed
  <1>1. NewAccountInv => N!OpenedAsReviewed
    <2> SUFFICES ASSUME NewAccountInv PROVE N!ReviewedIsWhole /\ N!AccountAsReviewed
      BY DEF N!OpenedAsReviewed
    <2>1. N!ReviewedIsWhole
      BY DEF NewAccountInv, DraftInv, N!ReviewedIsWhole
    <2>2. N!AccountAsReviewed
      <3> SUFFICES ASSUME step = 4 PROVE N!AccountAsReviewed
        BY DEF N!AccountAsReviewed
      <3> DEFINE a == accounts[run.account]
      <3>1. run \in N!Run /\ a \in N!Account /\ Opened(a, run.draft)
            /\ Len(a.holdings) >= Len(run.draft.holdings)
        BY DEF NewAccountInv, RunInv, N!WebTypeOK
      <3>2. Len(a.holdings) \in Nat /\ Len(run.draft.holdings) \in Nat
        BY <3>1 DEF N!Run, N!Draft, N!Account
      <3> QED BY <3>1, <3>2 DEF N!AccountAsReviewed, Opened
    <2> QED BY <2>1, <2>2
  <1> QED BY <1>1, NewAccountInvariant, PTL

LEMMA NewAccountKeepsTypes == ASSUME N!NewAccountAssumption PROVE N!NewAccountSpec => []N!WebTypeOK
  <1>1. NewAccountInv => N!WebTypeOK
    BY DEF NewAccountInv
  <1> QED BY <1>1, NewAccountInvariant, PTL

-----------------------------------------------------------------------------
(* The import of trades (WebImport) *)

\* The invariant of the import needs nothing beside the types.
ImportInv == I!WebTypeOK /\ I!ImportsWhole

LEMMA ImportPages ==
    ASSUME I!ImportAssumption, ImportInv, UNCHANGED <<form, history>>,
           \/ \E f \in I!Files : I!Pick(f) \/ I!ReadFile(f)
           \/ I!PreviewAgain \/ I!Reset \/ I!Import
    PROVE  ImportInv'
  <1> USE DEF ImportInv
  <1>1. /\ file' \in I!Files \cup {NoFile} /\ picked' \subseteq I!Files
        /\ preview' \in {0, preview, Len(requests) + 1} /\ commit' \in {0, commit, Len(requests) + 1}
        /\ \/ /\ requests' = requests
              /\ preview' \in {0, preview} /\ commit' \in {0, commit}
           \/ \E kind \in {"preview", "import"}, f \in I!Files : I!Ask(kind, f)
    BY DEF I!Pick, I!ReadFile, I!PreviewAgain, I!Reset, I!Import, I!WebTypeOK, I!Reviewing, I!Ask
  <1>2. CASE requests' = requests /\ preview' \in {0, preview} /\ commit' \in {0, commit}
    BY <1>1, <1>2 DEF I!WebTypeOK, I!ImportsWhole, I!AddedOnce, I!AllOrNone, I!Sound, I!Requests
  <1>3. ASSUME NEW kind \in {"preview", "import"}, NEW f \in I!Files, I!Ask(kind, f)
        PROVE  ImportInv'
    <2> DEFINE r == [kind |-> kind, file |-> f, state |-> "sent", ready |-> {}, problems |-> {}]
    <2>1. r \in I!RequestType /\ r.problems = {}
      BY DEF I!RequestType
    <2> HIDE DEF r
    <2>2. requests' = Append(requests, r) /\ Len(requests) < MaxRequests
      BY <1>3 DEF I!Ask, r
    <2>3. I!WebTypeOK'
      BY <1>1, <2>1, <2>2, Appended DEF I!WebTypeOK, I!ImportAssumption
    <2>4. I!ImportsWhole'
      BY <2>1, <2>2, Appended DEF I!WebTypeOK, I!ImportsWhole, I!AddedOnce, I!AllOrNone, I!Sound, I!Requests
    <2> QED BY <2>3, <2>4
  <1> QED BY <1>1, <1>2, <1>3

LEMMA ImportAnswered ==
    ASSUME I!ImportAssumption, ImportInv, UNCHANGED form,
           NEW i \in I!Requests, I!Serve(i) \/ I!Answer(i) \/ I!Lose(i)
    PROVE  ImportInv'
  <1> USE DEF ImportInv
  <1> DEFINE f == requests[i].file
             r == requests'[i]
  <1>1. /\ requests[i] \in I!RequestType /\ requests \in Seq(I!RequestType) /\ i \in 1 .. Len(requests)
        /\ \A j \in 1 .. Len(requests) : requests[j] \in I!RequestType
    BY DEF I!Requests, I!WebTypeOK
  <1>2. PICK e \in I!RequestType :
          /\ requests' = [requests EXCEPT ![i] = e]
          /\ form = "trades" /\ e.kind = "import" /\ e.state \in {"held", "success"} => e.problems = {}
    <2>1. CASE I!Serve(i)
      <3>1. I!Fresh(f) \subseteq I!Rows /\ I!Problems(f) \subseteq I!Rows
        BY <1>1 DEF I!Fresh, I!Problems, I!Duplicates, I!Rows, I!RequestType
      <3>2. CASE requests' = [requests EXCEPT ![i].state = "refusal"]
        <4> DEFINE e == [requests[i] EXCEPT !.state = "refusal"]
        <4>1. e \in I!RequestType /\ e.state = "refusal"
          BY <1>1 DEF I!RequestType
        <4> QED BY <3>2, <4>1
      <3>3. CASE requests' = [requests EXCEPT ![i].state = "held", ![i].ready = I!Fresh(f),
                                             ![i].problems = I!Problems(f)]
        <4> DEFINE e == [requests[i] EXCEPT !.state = "held", !.ready = I!Fresh(f), !.problems = I!Problems(f)]
        <4>1. e \in I!RequestType /\ e.problems = I!Problems(f) /\ e.kind = requests[i].kind
          BY <1>1, <3>1 DEF I!RequestType
        <4>2. requests' = [requests EXCEPT ![i] = e]
          BY <1>1, <3>3
        <4>3. form = "trades" /\ requests[i].kind = "import" => I!Problems(f) = {}
          BY <1>1, <2>1, <3>3 DEF I!Serve, I!Committed, I!RequestType
        <4> HIDE DEF e
        <4> QED BY <4>1, <4>2, <4>3
      <3> QED BY <2>1, <3>2, <3>3 DEF I!Serve
    <2>2. CASE I!Answer(i) \/ I!Lose(i)
      <3>1. PICK s \in {"success", "conflict", "failure"} :
              /\ requests' = [requests EXCEPT ![i].state = s]
              /\ s = "success" => requests[i].state = "held"
        BY <2>2, <1>1 DEF I!Answer, I!Lose
      <3> DEFINE e == [requests[i] EXCEPT !.state = s]
      <3>2. e \in I!RequestType /\ e.problems = requests[i].problems /\ e.kind = requests[i].kind /\ e.state = s
        BY <1>1 DEF I!RequestType
      <3>3. requests' = [requests EXCEPT ![i] = e]
        BY <3>1
      <3>4. form = "trades" /\ requests[i].kind = "import" /\ requests[i].state = "held" => requests[i].problems = {}
        BY DEF I!ImportsWhole, I!AllOrNone
      <3> HIDE DEF e
      <3> QED BY <3>1, <3>2, <3>3, <3>4
    <2> QED BY <2>1, <2>2
  <1>3. /\ requests' \in Seq(I!RequestType) /\ Len(requests') = Len(requests)
        /\ \A j \in 1 .. Len(requests) : requests'[j] = IF j = i THEN e ELSE requests[j]
    BY <1>1, <1>2, Replaced
  <1>4. UNCHANGED <<picked, file, preview, commit>>
    BY DEF I!Serve, I!Answer, I!Lose
  <1>5. history' \in [I!Rows -> Nat] /\ I!AddedOnce' /\ I!Sound(history')
    <2>1. CASE history' = history
      BY <2>1 DEF I!WebTypeOK, I!ImportsWhole, I!AllOrNone, I!AddedOnce
    <2>2. CASE history' = [q \in I!Rows |-> history[q] + IF q \in I!Committed(f) THEN 1 ELSE 0]
      <3>1. history \in [I!Rows -> Nat] /\ \A q \in I!Rows : history[q] \in {0, 1}
        BY DEF I!WebTypeOK, I!ImportsWhole, I!AddedOnce
      <3>2. I!Committed(f) \subseteq I!Rows
        BY <1>1 DEF I!Committed, I!Fresh, I!Rows, I!RequestType
      <3>3. \A q \in I!Committed(f) : history[q] = 0
        BY <3>1, <3>2 DEF I!Committed, I!Fresh, I!Duplicates
      <3>4. history' \in [I!Rows -> Nat] /\ I!AddedOnce'
        BY <2>2, <3>1, <3>3 DEF I!AddedOnce
      <3>5. \A q \in I!Rows : history'[q] > 0 <=> history[q] > 0 \/ q \in I!Committed(f)
        BY <2>2, <3>1
      <3>6. ASSUME NEW q \in I!Rows, history'[q] > 0, q \in Faulty PROVE FALSE
        BY <3>1, <3>5, <3>6 DEF I!ImportsWhole, I!AllOrNone, I!Sound, I!Committed, I!Fresh, I!Problems
      <3>7. ASSUME NEW q \in I!Rows, history'[q] > 0, form = "trades", NEW p \in Needs[q]
            PROVE  history'[p] > 0
        <4>1. p \in I!Rows
          BY DEF I!ImportAssumption
        <4>2. CASE history[q] > 0
          BY <3>5, <3>7, <4>1, <4>2 DEF I!ImportsWhole, I!AllOrNone, I!Sound
        <4>3. CASE q \in I!Committed(f)
          <5>1. I!Problems(f) = {} /\ I!Committed(f) = RowsOf[f] \ I!Duplicates(f)
            BY <3>7, <4>3 DEF I!Committed, I!Fresh
          <5>2. history[p] # 0 \/ p \in RowsOf[f]
            BY <5>1, <4>3, <3>7 DEF I!Problems
          <5> QED BY <3>1, <3>5, <4>1, <5>1, <5>2 DEF I!Duplicates
        <4> QED BY <3>5, <3>7, <4>2, <4>3
      <3> QED BY <3>4, <3>6, <3>7 DEF I!Sound
    <2> QED BY <2>1, <2>2 DEF I!Serve, I!Answer, I!Lose
  <1>6. I!WebTypeOK'
    BY <1>3, <1>4, <1>5 DEF I!WebTypeOK
  <1>7. I!ImportsWhole'
    BY <1>2, <1>3, <1>5 DEF I!WebTypeOK, I!ImportsWhole, I!AllOrNone, I!Requests, I!Sound
  <1> QED BY <1>6, <1>7

LEMMA ImportElsewhere ==
    ASSUME I!ImportAssumption, ImportInv, UNCHANGED form, NEW r \in I!Rows, I!Elsewhere(r)
    PROVE  ImportInv'
  <1> USE DEF ImportInv
  <1>1. /\ history' \in [I!Rows -> Nat] /\ I!AddedOnce' /\ I!Sound(history')
        /\ UNCHANGED <<picked, file, preview, commit, requests>>
    BY DEF I!Elsewhere, I!WebTypeOK, I!ImportsWhole, I!AddedOnce
  <1> QED
    BY <1>1 DEF I!WebTypeOK, I!ImportsWhole, I!AllOrNone, I!Requests, I!Sound

LEMMA ImportSteps ==
    ASSUME I!ImportAssumption, ImportInv, [I!ImportNext]_(I!importVars)
    PROVE  ImportInv'
  <1>1. CASE UNCHANGED I!importVars
    BY <1>1 DEF I!importVars, ImportInv, I!WebTypeOK, I!ImportsWhole, I!AddedOnce, I!AllOrNone, I!Sound, I!Requests
  <1>2. CASE I!ImportNext
    <2>1. UNCHANGED form
      BY <1>2 DEF I!ImportNext
    <2>2. CASE \/ \E f \in I!Files : I!Pick(f) \/ I!ReadFile(f)
               \/ I!PreviewAgain \/ I!Reset \/ I!Import
      <3>1. UNCHANGED history
        BY <2>2 DEF I!Pick, I!ReadFile, I!PreviewAgain, I!Reset, I!Import
      <3> QED BY <2>1, <2>2, <3>1, ImportPages
    <2>3. CASE \E i \in I!Requests : I!Serve(i) \/ I!Answer(i) \/ I!Lose(i)
      BY <2>1, <2>3, ImportAnswered
    <2>4. CASE \E r \in I!Rows : I!Elsewhere(r)
      BY <2>1, <2>4, ImportElsewhere
    <2> QED BY <1>2, <2>2, <2>3, <2>4 DEF I!ImportNext
  <1> QED BY <1>1, <1>2

LEMMA ImportFirst == ASSUME I!ImportAssumption PROVE I!ImportInit => ImportInv
  <1> SUFFICES ASSUME I!ImportInit PROVE ImportInv
    OBVIOUS
  <1> USE DEF I!ImportInit
  <1>1. history \in [I!Rows -> {0, 1}] /\ I!Sound(history)
    OBVIOUS
  <1>2. I!WebTypeOK
    BY <1>1 DEF I!WebTypeOK, I!ImportAssumption
  <1>3. I!ImportsWhole
    BY <1>1 DEF I!ImportsWhole, I!AddedOnce, I!AllOrNone, I!Requests
  <1> QED BY <1>2, <1>3 DEF ImportInv

LEMMA ImportInvariant == ASSUME I!ImportAssumption PROVE I!ImportSpec => []ImportInv
  <1>1. I!ImportInit => ImportInv
    BY ImportFirst
  <1>2. ImportInv /\ [I!ImportNext]_(I!importVars) => ImportInv'
    BY ImportSteps
  <1> QED BY <1>1, <1>2, PTL DEF I!ImportSpec

\* Every import that the server has carried out added its rows once and all of them or none,
\* whatever was picked, previewed or sent again meanwhile (InvestmentImport.tsx).
LEMMA TradesAllOrNone == ASSUME I!ImportAssumption PROVE I!ImportSpec => []I!ImportsWhole
  <1>1. ImportInv => I!ImportsWhole
    BY DEF ImportInv
  <1> QED BY <1>1, ImportInvariant, PTL

LEMMA ImportKeepsTypes == ASSUME I!ImportAssumption PROVE I!ImportSpec => []I!WebTypeOK
  <1>1. ImportInv => I!WebTypeOK
    BY DEF ImportInv
  <1> QED BY <1>1, ImportInvariant, PTL

-----------------------------------------------------------------------------
(* The conversion of an account (WebConvert) *)

\* What was sent as a conversion was in the sheet, and a difference it confirms
\* was on the screen.
SentAsReviewed ==
  \A i \in V!Requests : requests[i].kind = "convert" =>
    /\ requests[i].typed = requests[i].body
    /\ requests[i].confirmed => requests[i].difference # 0

\* The invariant of the conversion.
ConvertInv == V!WebTypeOK /\ SentAsReviewed /\ V!ConvertedAsReviewed

\* A request stays what was asked for, whatever becomes of it.
SameRequest(s, r) ==
  /\ r.kind = s.kind /\ r.key = s.key /\ r.body = s.body /\ r.typed = s.typed
  /\ r.confirmed = s.confirmed
  /\ s.kind = "convert" => r.difference = s.difference

LEMMA ConvertKept ==
    ASSUME ConvertInv, Len(requests') = Len(requests),
           \A i \in V!Requests : SameRequest(requests[i], requests'[i])
    PROVE  SentAsReviewed' /\ (conversion' = conversion => V!ConvertedAsReviewed')
  <1>1. V!Requests' = V!Requests
    BY DEF V!Requests
  <1>2. SentAsReviewed'
    BY <1>1 DEF ConvertInv, SentAsReviewed, SameRequest
  <1>3. ASSUME conversion' = conversion PROVE V!Origins' = V!Origins
    BY <1>1, <1>3 DEF V!Origins, SameRequest
  <1>4. ASSUME conversion' = conversion PROVE V!ConvertedAsReviewed'
    BY <1>1, <1>3, <1>4 DEF ConvertInv, V!ConvertedAsReviewed, V!Origins, SameRequest
  <1> QED BY <1>2, <1>4

\* The steps of the sheet that send nothing.
LEMMA ConvertEdits ==
    ASSUME V!ConvertAssumption, ConvertInv,
           (\E b \in Bodies \cup Incomplete : V!Type(b)) \/ V!Tick \/ V!BalanceChanges
    PROVE  ConvertInv'
  <1> USE DEF ConvertInv
  <1>1. UNCHANGED <<requests, conversion, attempt>>
    BY DEF V!Type, V!Tick, V!BalanceChanges
  <1>2. review' \in V!ReviewType \cup {Nothing}
    BY DEF V!Type, V!Tick, V!BalanceChanges, V!WebTypeOK, V!ReviewType
  <1>3. balance' \in Balances /\ typed' \in Bodies \cup Incomplete
    BY DEF V!Type, V!Tick, V!BalanceChanges, V!WebTypeOK
  <1>4. V!WebTypeOK'
    BY <1>1, <1>2, <1>3 DEF V!WebTypeOK
  <1> QED BY <1>1, <1>4, ConvertKept DEF SameRequest

\* A request is sent: a preview of what is in the sheet, or the conversion reviewed.
LEMMA ConvertSends ==
    ASSUME V!ConvertAssumption, ConvertInv, V!Preview \/ V!Execute
    PROVE  ConvertInv'
  <1> USE DEF ConvertInv
  <1>1. PICK r \in V!RequestType :
          /\ requests' = Append(requests, r)
          /\ r.kind = "convert" => r.typed = r.body /\ (r.confirmed => r.difference # 0)
    <2>1. CASE V!Preview
      <3> DEFINE r == [kind |-> "preview", body |-> typed, key |-> V!KeyFor(typed), difference |-> 0,
                       confirmed |-> FALSE, typed |-> typed, state |-> "sent"]
      <3>1. V!KeyFor(typed) \in V!Keys
        BY <2>1 DEF V!Preview, V!KeyFor, V!Keys, V!WebTypeOK, V!ConvertAssumption
      <3>2. r \in V!RequestType /\ r.kind = "preview"
        BY <2>1, <3>1 DEF V!Preview, V!Complete, V!RequestType, V!Difference
      <3>3. requests' = Append(requests, r)
        BY <2>1 DEF V!Preview
      <3> HIDE DEF r
      <3> QED BY <3>2, <3>3
    <2>2. CASE V!Execute
      <3> DEFINE r == [kind |-> "convert", body |-> review.body, key |-> review.key,
                       difference |-> review.difference, confirmed |-> V!Differs /\ review.confirmed,
                       typed |-> typed, state |-> "sent"]
      <3>1. review \in V!ReviewType /\ review.body = typed
        BY <2>2 DEF V!Execute, V!CanExecute, V!Stale, V!WebTypeOK
      <3>2. (V!Differs /\ review.confirmed) \in BOOLEAN /\ V!Differs = (review.difference # 0)
        BY <3>1 DEF V!Differs, V!ReviewType
      <3>3. r \in V!RequestType
        BY <3>1, <3>2 DEF V!ReviewType, V!RequestType
      <3>4. r.typed = r.body /\ (r.confirmed => r.difference # 0)
        BY <3>1, <3>2
      <3>5. requests' = Append(requests, r)
        BY <2>2 DEF V!Execute
      <3> HIDE DEF r
      <3> QED BY <3>3, <3>4, <3>5
    <2> QED BY <2>1, <2>2
  <1>2. requests \in Seq(V!RequestType) /\ Len(requests) < MaxRequests
    BY DEF V!Preview, V!Execute, V!WebTypeOK
  <1>3. /\ requests' \in Seq(V!RequestType) /\ Len(requests') = Len(requests) + 1
        /\ \A i \in V!Requests : requests'[i] = requests[i]
        /\ requests'[Len(requests) + 1] = r
    BY <1>1, <1>2, Appended DEF V!Requests
  <1>4. UNCHANGED <<balance, conversion, typed, review>>
    BY DEF V!Preview, V!Execute
  <1>5. attempt' \in [body : Bodies \cup {Nothing}, key : V!Keys]
    <2>1. CASE V!Preview
      <3>1. V!KeyFor(typed) \in V!Keys
        BY <2>1 DEF V!Preview, V!KeyFor, V!Keys, V!WebTypeOK, V!ConvertAssumption
      <3> QED BY <2>1, <3>1 DEF V!Preview, V!Complete
    <2>2. CASE V!Execute
      BY <2>2 DEF V!Execute, V!WebTypeOK
    <2> QED BY <2>1, <2>2
  <1>6. V!WebTypeOK'
    BY <1>2, <1>3, <1>4, <1>5 DEF V!WebTypeOK, V!ConvertAssumption
  <1>7. V!Requests' = V!Requests \cup {Len(requests) + 1}
    BY <1>2, <1>3 DEF V!Requests
  <1>8. SentAsReviewed'
    BY <1>1, <1>3, <1>7 DEF SentAsReviewed
  <1>9. V!ConvertedAsReviewed'
    BY <1>3, <1>4, <1>7 DEF V!ConvertedAsReviewed, V!Origins
  <1> QED BY <1>6, <1>8, <1>9

\* The server takes a request, or its answer arrives or is lost.
LEMMA ConvertServed ==
    ASSUME V!ConvertAssumption, ConvertInv, NEW i \in V!Requests,
           V!ServePreview(i) \/ V!ServeExecute(i) \/ V!PreviewArrives(i) \/ V!LosePreview(i)
    PROVE  ConvertInv'
  <1> USE DEF ConvertInv
  <1>1. /\ requests[i] \in V!RequestType /\ requests \in Seq(V!RequestType) /\ i \in 1 .. Len(requests)
        /\ \A j \in V!Requests : requests[j] \in V!RequestType
    BY DEF V!Requests, V!WebTypeOK
  <1>2. V!Now(i) \in V!Difference
    BY <1>1 DEF V!Now, V!Difference, V!RequestType, V!WebTypeOK
  <1>3. PICK e \in V!RequestType : requests' = [requests EXCEPT ![i] = e] /\ SameRequest(requests[i], e)
    <2>1. CASE requests' = [requests EXCEPT ![i].state = "over"]
      <3> DEFINE e == [requests[i] EXCEPT !.state = "over"]
      <3>1. e \in V!RequestType /\ SameRequest(requests[i], e)
        BY <1>1 DEF V!RequestType, SameRequest
      <3> QED BY <2>1, <3>1
    <2>2. CASE /\ requests' = [requests EXCEPT ![i].state = "held", ![i].difference = V!Now(i)]
               /\ requests[i].kind = "preview"
      <3> DEFINE e == [requests[i] EXCEPT !.state = "held", !.difference = V!Now(i)]
      <3>1. e \in V!RequestType /\ SameRequest(requests[i], e)
        BY <1>1, <1>2, <2>2 DEF V!RequestType, SameRequest
      <3>2. requests' = [requests EXCEPT ![i] = e]
        BY <1>1, <2>2
      <3> HIDE DEF e
      <3> QED BY <3>1, <3>2
    <2> QED BY <2>1, <2>2 DEF V!ServePreview, V!ServeExecute, V!PreviewArrives, V!LosePreview
  <1>4. /\ requests' \in Seq(V!RequestType) /\ Len(requests') = Len(requests)
        /\ \A j \in V!Requests : requests'[j] = IF j = i THEN e ELSE requests[j]
    BY <1>1, <1>3, Replaced DEF V!Requests
  <1>5. \A j \in V!Requests : SameRequest(requests[j], requests'[j])
    BY <1>3, <1>4 DEF SameRequest
  <1>6. SentAsReviewed' /\ (conversion' = conversion => V!ConvertedAsReviewed')
    BY <1>4, <1>5, ConvertKept
  <1>7. /\ UNCHANGED <<balance, typed, attempt>> /\ review' \in V!ReviewType \cup {Nothing}
        /\ conversion' \in V!ConversionType \cup {Nothing}
    <2>1. CASE V!PreviewArrives(i)
      BY <1>1, <2>1 DEF V!PreviewArrives, V!WebTypeOK, V!RequestType, V!ReviewType
    <2>2. CASE V!ServeExecute(i)
      BY <1>1, <1>2, <2>2 DEF V!ServeExecute, V!WebTypeOK, V!RequestType, V!ConversionType
    <2>3. CASE V!ServePreview(i) \/ V!LosePreview(i)
      BY <2>3 DEF V!ServePreview, V!LosePreview, V!WebTypeOK
    <2> QED BY <2>1, <2>2, <2>3
  <1>8. V!WebTypeOK'
    BY <1>4, <1>7 DEF V!WebTypeOK
  <1>9. ASSUME conversion' # conversion PROVE V!ConvertedAsReviewed'
    <2>1. /\ V!ServeExecute(i) /\ requests[i].kind = "convert"
          /\ conversion' = [body |-> requests[i].body, key |-> requests[i].key, difference |-> V!Now(i)]
          /\ V!Now(i) # 0 => requests[i].confirmed
      BY <1>9 DEF V!ServePreview, V!ServeExecute, V!PreviewArrives, V!LosePreview, V!Accepted
    <2>2. requests[i].typed = requests[i].body /\ (V!Now(i) # 0 => requests[i].difference # 0)
      BY <2>1 DEF SentAsReviewed
    <2>3. i \in V!Requests'
      BY <1>4 DEF V!Requests
    <2>4. SameRequest(requests[i], requests'[i])
      BY <1>5
    <2>5. i \in V!Origins'
      BY <2>1, <2>3, <2>4 DEF V!Origins, SameRequest
    <2>6. requests'[i].typed = conversion'.body /\ (conversion'.difference # 0 => requests'[i].difference # 0)
      BY <2>1, <2>2, <2>4 DEF SameRequest
    <2> QED BY <2>5, <2>6 DEF V!ConvertedAsReviewed
  <1> QED BY <1>6, <1>8, <1>9

LEMMA ConvertFirst == ASSUME V!ConvertAssumption PROVE V!ConvertInit => ConvertInv
  <1> SUFFICES ASSUME V!ConvertInit PROVE ConvertInv
    OBVIOUS
  <1>1. V!WebTypeOK
    BY DEF V!ConvertInit, V!WebTypeOK, V!ConvertAssumption, V!Keys
  <1> QED BY <1>1 DEF V!ConvertInit, ConvertInv, SentAsReviewed, V!ConvertedAsReviewed, V!Requests

LEMMA ConvertSteps ==
    ASSUME V!ConvertAssumption, ConvertInv, [V!ConvertNext]_(V!convertVars)
    PROVE  ConvertInv'
  <1>1. CASE UNCHANGED V!convertVars
    BY <1>1 DEF V!convertVars, ConvertInv, V!WebTypeOK, SentAsReviewed, V!ConvertedAsReviewed,
      V!Origins, V!Requests
  <1>2. CASE V!ConvertNext
    BY <1>2, ConvertEdits, ConvertSends, ConvertServed DEF V!ConvertNext
  <1> QED BY <1>1, <1>2

LEMMA ConvertInvariant == ASSUME V!ConvertAssumption PROVE V!ConvertSpec => []ConvertInv
  <1>1. V!ConvertInit => ConvertInv
    BY ConvertFirst
  <1>2. ConvertInv /\ [V!ConvertNext]_(V!convertVars) => ConvertInv'
    BY ConvertSteps
  <1> QED BY <1>1, <1>2, PTL DEF V!ConvertSpec

\* An account is converted only into what the person had previewed and saw when they
\* asked for it, and never with a difference they had not on the screen.
LEMMA ConvertsAsPreviewed == ASSUME V!ConvertAssumption PROVE V!ConvertSpec => []V!ConvertedAsReviewed
  <1>1. ConvertInv => V!ConvertedAsReviewed
    BY DEF ConvertInv
  <1> QED BY <1>1, ConvertInvariant, PTL

LEMMA ConvertKeepsTypes == ASSUME V!ConvertAssumption PROVE V!ConvertSpec => []V!WebTypeOK
  <1>1. ConvertInv => V!WebTypeOK
    BY DEF ConvertInv
  <1> QED BY <1>1, ConvertInvariant, PTL

-----------------------------------------------------------------------------
(* The pages together *)

\* A behaviour is that of one page, and stays it.
LEMMA PartKept == ASSUME NEW p PROVE part # p /\ [WritesNext]_writesVars => (part # p)'
  BY DEF WritesNext, writesVars

\* What holds of a page by itself holds of it here.
LEMMA FormPart == WritesSpec => [](part = "form" => F!WebTypeOK /\ F!FormsRecord)
  <1>1. WritesInit /\ part = "form" => F!FormInit
    BY DEF WritesInit
  <1>2. part = "form" /\ [WritesNext]_writesVars => (part = "form")' /\ [F!FormNext]_(F!formVars)
    BY DEF WritesNext, writesVars, F!formVars, ofForms
  <1>3. F!FormSpec => []F!WebTypeOK /\ []F!FormsRecord
    BY WritesAssumption, FormsKeepTypes, SubmissionsRecorded
  <1>4. ~(part = "form") /\ [WritesNext]_writesVars => (~(part = "form"))'
    BY PartKept
  <1> QED BY <1>1, <1>2, <1>3, <1>4, PTL DEF WritesSpec, F!FormSpec

LEMMA AmountsPart == WritesSpec => [](part = "amounts" => M!WebTypeOK /\ M!FormsRecord)
  <1>1. WritesInit /\ part = "amounts" => M!AmountsInit
    BY DEF WritesInit
  <1>2. part = "amounts" /\ [WritesNext]_writesVars => (part = "amounts")' /\ [M!AmountsNext]_(M!amountVars)
    BY DEF WritesNext, writesVars, M!amountVars, ofAmounts
  <1>3. M!AmountsSpec => []M!WebTypeOK /\ []M!FormsRecord
    BY WritesAssumption, AmountsKeepTypes, AmountsRecorded
  <1>4. ~(part = "amounts") /\ [WritesNext]_writesVars => (~(part = "amounts"))'
    BY PartKept
  <1> QED BY <1>1, <1>2, <1>3, <1>4, PTL DEF WritesSpec, M!AmountsSpec

LEMMA TradePart == WritesSpec => [](part = "trade" => T!WebTypeOK /\ T!RequestsWellFormed)
  <1>1. WritesInit /\ part = "trade" => T!TradeInit
    BY DEF WritesInit
  <1>2. part = "trade" /\ [WritesNext]_writesVars => (part = "trade")' /\ [T!TradeNext]_(T!tradeVars)
    BY DEF WritesNext, writesVars, T!tradeVars, ofTrade
  <1>3. T!TradeSpec => []T!WebTypeOK /\ []T!RequestsWellFormed
    BY WritesAssumption, TradeKeepsTypes, TradesWellFormed
  <1>4. ~(part = "trade") /\ [WritesNext]_writesVars => (~(part = "trade"))'
    BY PartKept
  <1> QED BY <1>1, <1>2, <1>3, <1>4, PTL DEF WritesSpec, T!TradeSpec

LEMMA CorporatePart == WritesSpec => [](part = "corporate" => O!WebTypeOK /\ O!RequestsWellFormed)
  <1>1. WritesInit /\ part = "corporate" => O!CorporateInit
    BY DEF WritesInit
  <1>2. part = "corporate" /\ [WritesNext]_writesVars => (part = "corporate")' /\ [O!CorporateNext]_(O!corporateVars)
    BY DEF WritesNext, writesVars, O!corporateVars, ofCorporate
  <1>3. O!CorporateSpec => []O!WebTypeOK /\ []O!RequestsWellFormed
    BY WritesAssumption, CorporateKeepsTypes, ActionsMakeSense
  <1>4. ~(part = "corporate") /\ [WritesNext]_writesVars => (~(part = "corporate"))'
    BY PartKept
  <1> QED BY <1>1, <1>2, <1>3, <1>4, PTL DEF WritesSpec, O!CorporateSpec

LEMMA NewAccountPart == WritesSpec => [](part = "opening" => N!WebTypeOK /\ N!OpenedAsReviewed)
  <1>1. WritesInit /\ part = "opening" => N!NewAccountInit
    BY DEF WritesInit
  <1>2. part = "opening" /\ [WritesNext]_writesVars => (part = "opening")' /\ [N!NewAccountNext]_(N!newAccountVars)
    BY DEF WritesNext, writesVars, N!newAccountVars, ofNewAccount
  <1>3. N!NewAccountSpec => []N!WebTypeOK /\ []N!OpenedAsReviewed
    BY WritesAssumption, NewAccountKeepsTypes, AccountsOpenedAsReviewed
  <1>4. ~(part = "opening") /\ [WritesNext]_writesVars => (~(part = "opening"))'
    BY PartKept
  <1> QED BY <1>1, <1>2, <1>3, <1>4, PTL DEF WritesSpec, N!NewAccountSpec

LEMMA ImportPart == WritesSpec => [](part = "import" => I!WebTypeOK /\ I!ImportsWhole)
  <1>1. WritesInit /\ part = "import" => I!ImportInit
    BY DEF WritesInit
  <1>2. part = "import" /\ [WritesNext]_writesVars => (part = "import")' /\ [I!ImportNext]_(I!importVars)
    BY DEF WritesNext, writesVars, I!importVars, ofImport
  <1>3. I!ImportSpec => []I!WebTypeOK /\ []I!ImportsWhole
    BY WritesAssumption, ImportKeepsTypes, TradesAllOrNone
  <1>4. ~(part = "import") /\ [WritesNext]_writesVars => (~(part = "import"))'
    BY PartKept
  <1> QED BY <1>1, <1>2, <1>3, <1>4, PTL DEF WritesSpec, I!ImportSpec

LEMMA ConvertPart == WritesSpec => [](part = "convert" => V!WebTypeOK /\ V!ConvertedAsReviewed)
  <1>1. WritesInit /\ part = "convert" => V!ConvertInit
    BY DEF WritesInit
  <1>2. part = "convert" /\ [WritesNext]_writesVars => (part = "convert")' /\ [V!ConvertNext]_(V!convertVars)
    BY DEF WritesNext, writesVars, V!convertVars, ofConvert
  <1>3. V!ConvertSpec => []V!WebTypeOK /\ []V!ConvertedAsReviewed
    BY WritesAssumption, ConvertKeepsTypes, ConvertsAsPreviewed
  <1>4. ~(part = "convert") /\ [WritesNext]_writesVars => (~(part = "convert"))'
    BY PartKept
  <1> QED BY <1>1, <1>2, <1>3, <1>4, PTL DEF WritesSpec, V!ConvertSpec

\* Whatever is done with a form or a sheet, its state stays in the type it was given: nothing that
\* was filled in, sent or recorded is malformed or refers to what does not exist.
THEOREM SheetsKeepTypes == WritesSpec => []WebTypeOK
  BY FormPart, AmountsPart, TradePart, CorporatePart, NewAccountPart, ImportPart, ConvertPart, PTL DEF WebTypeOK

\* A form that keeps a key for the attempt records it once, whoever is told of a success was
\* recorded, and the server records the amounts the form has shown (workflow-kit.tsx, money.ts).
THEOREM FormsAlwaysRecord == WritesSpec => []FormsRecord
  BY FormPart, AmountsPart, PTL DEF FormsRecord

\* No trade and no corporate action is sent with a field that its type, kind or currency excludes,
\* and no action of an instrument on itself, whatever was filled in before, and however late the
\* lists of the form came.  A settlement may be missing, and a transfer's fee be zero
\* (TradeSheet.tsx, CorporateActionSheet.tsx).
THEOREM RequestsAlwaysWellFormed == WritesSpec => []RequestsWellFormed
  BY TradePart, CorporatePart, PTL DEF RequestsWellFormed

\* What is opened and what is converted is what the last review, or the preview, has shown, though
\* both can be edited while an answer is on its way (NewAccountPage.tsx,
\* ConvertSheet.tsx).
THEOREM AlwaysDoneAsReviewed == WritesSpec => []DoneAsReviewed
  BY NewAccountPart, ConvertPart, PTL DEF DoneAsReviewed

\* A file is imported once, and its trades whole or not at all, however previews, imports and the
\* answers to them overtake each other (DirectImport.tsx, InvestmentImport.tsx).
THEOREM ImportsAlwaysWhole == WritesSpec => []ImportsWhole
  BY ImportPart, PTL DEF ImportsWhole

\* A trade across currencies that is opened and saved as it is moves the same cash, whatever the
\* exchange rate is by then, unless it was given cash beside a rate that it does not agree with
\* (valuesFromEvent).
THEOREM SettledCashAlwaysKept == WritesSpec => SettledCashKept
  <1>1. WritesInit /\ part = "trade" => T!TradeInit
    BY DEF WritesInit
  <1>2. part = "trade" /\ [WritesNext]_writesVars => (part = "trade")' /\ [T!TradeNext]_(T!tradeVars)
    BY DEF WritesNext, writesVars, T!tradeVars, ofTrade
  <1>3. part = "trade" /\ [WritesNext]_writesVars /\ [T!KeepsSettledCash]_(T!tradeVars)
          => [part = "trade" => T!KeepsSettledCash]_writesVars
    BY DEF WritesNext, writesVars, T!tradeVars, ofTrade
  <1>4. ~(part = "trade") => [part = "trade" => T!KeepsSettledCash]_writesVars
    OBVIOUS
  <1>5. T!TradeSpec => [][T!KeepsSettledCash]_(T!tradeVars)
    BY WritesAssumption, SettledTradesKept DEF T!SettledCashKept
  <1>6. ~(part = "trade") /\ [WritesNext]_writesVars => (~(part = "trade"))'
    BY PartKept
  <1> QED BY <1>1, <1>2, <1>3, <1>4, <1>5, <1>6, PTL DEF WritesSpec, SettledCashKept, T!TradeSpec

=============================================================================
