------------------------------ MODULE WebForms ------------------------------
(***************************************************************************)
(* A form of the web client that changes something on the server: opened,  *)
(* filled in, submitted, dismissed, opened again, submitted again after a  *)
(* failure.  WebFormTable lists the forms of the client; this module runs  *)
(* any of them.                                                            *)
(*                                                                         *)
(* A request that the browser gives up may still reach the server, even    *)
(* after the person has submitted again.  What keeps it from being         *)
(* recorded twice is the idempotency key the form sends with it.           *)
(*                                                                         *)
(* A submission is numbered in the order it is made; a key made for a      *)
(* submission has that submission's number.                                *)
(***************************************************************************)
EXTENDS Naturals, Sequences

CONSTANTS
    Forms,        \* the forms, as records of FormType
    Bodies,       \* what can be typed into one
    MaxOpenings,  \* bound: times the form is opened
    MaxSubmits    \* bound: submissions

\* keys:     no idempotency key; a fresh one for every submission; or one per
\*           attempt, kept while the request stays the same
\* effect:   the server adds a record, or replaces what a record says
\* holds:    it cannot be dismissed while a submission is pending
\* remounts: every opening starts from nothing
\* closes:   it closes when a submission has succeeded
\* lifts:    whether it shows a submission as pending is kept outside of it, and
\*           set back only by a form that is still open when it is answered
FormType == [keys : {"none", "fresh", "attempt"}, effect : {"create", "replace"},
             holds : BOOLEAN, remounts : BOOLEAN, closes : BOOLEAN, lifts : BOOLEAN]

FormsAssumption ==
    /\ Forms \subseteq FormType
    /\ MaxOpenings \in Nat /\ MaxSubmits \in Nat

VARIABLES
    form,      \* the form
    openings,  \* times it was opened
    open,      \* whether it is open now
    body,      \* what is typed in it
    memo,      \* the key of the current attempt, 0 for none
    busy,      \* whether it shows a submission as pending
    sent,      \* the submissions
    book       \* the submissions the server has carried out

formVars == <<form, openings, open, body, memo, busy, sent, book>>

\* reached: what became of the request; told: what the person was told.
Submission ==
    [opening : 1..MaxOpenings, body : Bodies, key : 1..MaxSubmits,
     reached : {"underway", "done", "refused"},
     told : {"waiting", "refetching", "success", "failure"}]

\* Type invariant: the submissions, and what the server has of them, keep their types.
WebTypeOK ==
    /\ form \in Forms
    /\ openings \in 0..MaxOpenings
    /\ open \in BOOLEAN /\ busy \in BOOLEAN
    /\ body \in Bodies
    /\ sent \in Seq(Submission) /\ Len(sent) <= MaxSubmits
    /\ memo \in 0..Len(sent)
    /\ book \subseteq 1..Len(sent)

Sent == 1..Len(sent)

\* A submission of the component that is on the screen, or would be if open.
Mounted(i) == ~form.remounts \/ sent[i].opening = openings

\* The mutation is pending: that of the last submission, until the queries it
\* invalidated have been fetched again.
Pending ==
    /\ Sent # {}
    /\ Mounted(Len(sent))
    /\ sent[Len(sent)].told \in {"waiting", "refetching"}

FormInit ==
    /\ form \in Forms
    /\ openings = 0 /\ open = FALSE /\ busy = FALSE
    /\ body \in Bodies
    /\ memo = 0
    /\ sent = <<>> /\ book = {}

Open ==
    /\ ~open /\ openings < MaxOpenings
    /\ open' = TRUE
    /\ openings' = openings + 1
    /\ body' \in Bodies
    /\ memo' = IF form.remounts THEN 0 ELSE memo
    /\ busy' \in {busy, FALSE} /\ (form.remounts /\ ~form.lifts => busy' = FALSE)
    /\ UNCHANGED <<form, sent, book>>

Type ==
    /\ open
    /\ body' \in Bodies \ {body}
    /\ UNCHANGED <<form, openings, open, memo, busy, sent, book>>

Dismiss ==
    /\ open /\ ~(form.holds /\ busy)
    /\ open' = FALSE
    /\ UNCHANGED <<form, openings, body, memo, busy, sent, book>>

\* The form is rendered again only after the event that submitted it.
Render ==
    /\ ~busy /\ Pending
    /\ busy' = TRUE
    /\ UNCHANGED <<form, openings, open, body, memo, sent, book>>

\* Mutant: a new key for every request.
KeyForEach == Len(sent) + 1

\* Mutant: one key for the attempt, whatever is typed.
KeyForAny == IF form.keys = "attempt" /\ memo # 0 THEN memo ELSE Len(sent) + 1

\* The key sent with what is typed: of the current attempt if it is the same
\* request, else a new one.
KeyFor ==
    IF form.keys = "attempt" /\ memo # 0 /\ sent[memo].body = body
    THEN memo ELSE Len(sent) + 1

\* Whoever submits twice before the form is rendered again submits twice.
Submit ==
    /\ open /\ ~busy /\ Len(sent) < MaxSubmits
    /\ sent' = Append(sent, [opening |-> openings, body |-> body, key |-> KeyFor,
                             reached |-> "underway", told |-> "waiting"])
    /\ memo' = IF form.keys = "attempt" THEN KeyFor ELSE 0
    /\ UNCHANGED <<form, openings, open, body, busy, book>>

\* The server has a record under this key and answers with it.
Known(i) == form.effect = "create" /\ \E j \in book : sent[j].key = sent[i].key

\* The request reaches the server, which carries it out or refuses it.
Serve(i) ==
    /\ sent[i].reached = "underway"
    /\ \/ /\ sent' = [sent EXCEPT ![i].reached = "done"]
          /\ book' = IF Known(i) THEN book ELSE book \cup {i}
       \/ /\ ~Known(i)
          /\ sent' = [sent EXCEPT ![i].reached = "refused"]
          /\ UNCHANGED book
    /\ UNCHANGED <<form, openings, open, body, memo, busy>>

\* The form hears of the end of its last submission, if it is still there.
StillBusy(i) ==
    busy /\ ~(/\ i = Len(sent) /\ Mounted(i)
             /\ form.lifts => open /\ sent[i].opening = openings)

\* The answer: a success first has the person's queries fetched again.
Arrive(i) ==
    /\ sent[i].told = "waiting" /\ sent[i].reached # "underway"
    /\ sent' = [sent EXCEPT ![i].told =
                   IF sent[i].reached = "done" THEN "refetching" ELSE "failure"]
    /\ busy' = IF sent[i].reached = "done" THEN busy ELSE StillBusy(i)
    /\ UNCHANGED <<form, openings, open, body, memo, book>>

\* The connection fails, before or after the server has the request.
Lose(i) ==
    /\ sent[i].told = "waiting"
    /\ sent' = [sent EXCEPT ![i].told = "failure"]
    /\ busy' = StillBusy(i)
    /\ UNCHANGED <<form, openings, open, body, memo, book>>

\* The notice of success; the form closes, whatever is typed in it by now, and
\* the attempt of the component the submission came from is over.
Succeed(i) ==
    /\ sent[i].told = "refetching"
    /\ sent' = [sent EXCEPT ![i].told = "success"]
    /\ open' = (open /\ ~form.closes)
    /\ memo' = IF Mounted(i) THEN 0 ELSE memo
    /\ busy' = StillBusy(i)
    /\ UNCHANGED <<form, openings, body, book>>

FormNext ==
    \/ Open \/ Type \/ Dismiss \/ Render \/ Submit
    \/ \E i \in Sent : Serve(i) \/ Arrive(i) \/ Lose(i) \/ Succeed(i)

FormSpec == FormInit /\ [][FormNext]_formVars

-----------------------------------------------------------------------------
\* The person submits one and the same thing: of one opening, with nothing
\* else submitted in between.
SameAttempt(i, j) ==
    /\ sent[i].opening = sent[j].opening
    /\ \A k \in i..j : sent[k].opening = sent[i].opening => sent[k].body = sent[i].body

(* A form that keeps its key for the attempt records what the person       *)
(* submits once, however often they submit it unchanged after a failure    *)
(* or in haste, and although each of these requests may reach the server   *)
(* late and in any order (useAttemptKey, workflow-kit.tsx 48-63).          *)
RecordedOnce ==
    form.keys = "attempt" /\ form.effect = "create" /\ form.closes =>
        \A i, j \in book : i < j => ~SameAttempt(i, j)

(* A person who is told of a success has it: what was carried out under    *)
(* the key of the submission is what they had typed, not an earlier        *)
(* version of it the server still knows the key of.                        *)
SuccessMeansRecorded ==
    \A i \in Sent : sent[i].told = "success" =>
        \E j \in book : sent[j].key = sent[i].key /\ sent[j].body = sent[i].body

(* What a form records is what was submitted, once (queries.ts).           *)
FormsRecord == RecordedOnce /\ SuccessMeansRecorded

=============================================================================
