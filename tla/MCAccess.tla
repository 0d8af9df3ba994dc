------------------------------ MODULE MCAccess ------------------------------
(***************************************************************************)
(* An instance for TLC of what has to come to an end: the session that a   *)
(* tab of the web client shows (WebSession), and the requests for grants   *)
(* that wait for each other (OAuthGrants).  They share no state, and a     *)
(* behaviour is that of one of them.                                       *)
(***************************************************************************)
EXTENDS WebSession

CONSTANTS Workers, Grants, None

VARIABLES
  part,
  now, request, grant, code, tokens, nextIssue, tx, replayed  \* of OAuthGrants

G == INSTANCE OAuthGrants WITH
  RequestLife <- 1, CodeLife <- 1, AccessLife <- 1, RefreshLife <- 2, Retention <- 0,
  MaxTime <- 1, MaxIssues <- 2

grantVars  == <<now, request, grant, code, tokens, nextIssue, tx, replayed>>
accessVars == <<part, sessionHistory, grantVars>>

AccessInit == part \in {"session", "grants"} /\ SessionInit /\ G!Init

\* BOUND: people differ in nothing, so the first to sign in is the one called a.
StartsWithA == issued # <<>> => Head(issued) = "a"

AccessNext ==
  \/ part = "session" /\ SessionNext /\ StartsWithA' /\ UNCHANGED <<part, grantVars>>
  \/ part = "grants" /\ G!Next /\ UNCHANGED <<part, sessionHistory>>

\* SessionFairness and the Fairness of OAuthGrants, each in its own behaviours.
AccessSpec ==
  /\ AccessInit /\ [][AccessNext]_accessVars
  /\ SF_sessionVars(part = "session" /\ SessionArrives)
  /\ WF_sessionVars(part = "session" /\ NewsArrives)
  /\ \A w \in Workers : /\ SF_grantVars(part = "grants" /\ G!Step(w))
                        /\ WF_grantVars(part = "grants" /\ G!DeadlockVictim(w))

-----------------------------------------------------------------------------
\* Every request for a grant is answered (OAuthGrants).
RequestsEnd == G!RequestsEnd

=============================================================================
