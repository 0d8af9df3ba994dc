----------------------------- MODULE WebConvert -----------------------------
(***************************************************************************)
(* Converting an account to position tracking: the sheet of the web client *)
(* in which a person enters the opening holdings, previews, confirms a     *)
(* difference and converts (ConvertSheet.tsx), and the two requests of the *)
(* server it uses (account_conversion.go).                                 *)
(*                                                                         *)
(* What is typed in the sheet matters by what it is worth.  The balance of *)
(* the account may change from elsewhere at any time, and any request may  *)
(* be served and answered late.                                            *)
(***************************************************************************)
EXTENDS Integers, Sequences

CONSTANTS
    Bodies,       \* what can be typed in the sheet and is complete
    Incomplete,   \* what can be typed and is not: a holding without a quantity,
                  \* one instrument twice, a date to come
    Worth,        \* for each of them, the total of the new account
    Balances,     \* the balances the account may have
    Nothing,      \* no preview, no conversion
    MaxRequests   \* bound: requests sent

ConvertAssumption ==
    /\ Worth \in [Bodies -> Nat] /\ Balances \subseteq Nat
    /\ Bodies \cap Incomplete = {} /\ MaxRequests \in Nat

VARIABLES
    balance,     \* of the account
    conversion,  \* what the account was converted to, or Nothing
    typed,       \* what is in the sheet
    review,      \* the preview on the screen, or Nothing
    attempt,     \* what the current idempotency key was made for, and the key
    requests     \* the requests, in the order they are sent

convertVars == <<balance, conversion, typed, review, attempt, requests>>

Difference == {0} \cup {Worth[b] - a : b \in Bodies, a \in Balances}
Keys       == 0..MaxRequests

\* difference: what the preview says, or, of a request to convert, what the
\*             screen said when the person asked for it
\* confirmed:  the checkbox, and whether it was sent
ReviewType  == [body : Bodies, key : Keys, difference : Difference, confirmed : BOOLEAN]
RequestType == [kind : {"preview", "convert"}, body : Bodies, key : Keys,
                difference : Difference, confirmed : BOOLEAN, typed : Bodies \cup Incomplete,
                state : {"sent", "held", "over"}]
ConversionType == [body : Bodies, key : Keys, difference : Difference]

\* Type invariant: the sheet, its requests and the conversions keep their types.
WebTypeOK ==
    /\ balance \in Balances
    /\ conversion \in ConversionType \cup {Nothing}
    /\ typed \in Bodies \cup Incomplete
    /\ review \in ReviewType \cup {Nothing}
    /\ attempt \in [body : Bodies \cup {Nothing}, key : Keys]
    /\ requests \in Seq(RequestType) /\ Len(requests) <= MaxRequests

Requests == 1..Len(requests)

-----------------------------------------------------------------------------
\* The sheet starts with one blank holding.
ConvertInit ==
    /\ balance \in Balances
    /\ conversion = Nothing
    /\ typed \in Incomplete
    /\ review = Nothing
    /\ attempt = [body |-> Nothing, key |-> 0]
    /\ requests = <<>>

\* The fields of the account, and of its holdings, which are added and removed.
Type(b) ==
    /\ b # typed /\ typed' = b
    /\ UNCHANGED <<balance, conversion, review, attempt, requests>>

\* The key of the last request with the same body, else a new one.
KeyFor(b) ==
    IF attempt.body = b THEN attempt.key ELSE Len(requests) + 1

\* The schema, without which nothing is sent.
Complete == typed \in Bodies

Preview ==
    /\ Complete /\ Len(requests) < MaxRequests
    /\ requests' = Append(requests,
          [kind |-> "preview", body |-> typed, key |-> KeyFor(typed), difference |-> 0,
           confirmed |-> FALSE, typed |-> typed, state |-> "sent"])
    /\ attempt' = [body |-> typed, key |-> KeyFor(typed)]
    /\ UNCHANGED <<balance, conversion, typed, review>>

\* Mutant: an edit leaves the preview good.
StaleNever == FALSE

\* The sheet has been edited since the preview.
Stale == review.body # typed

Differs == review.difference # 0

Tick ==
    /\ review # Nothing /\ ~Stale /\ Differs
    /\ review' = [review EXCEPT !.confirmed = ~@]
    /\ UNCHANGED <<balance, conversion, typed, attempt, requests>>

CanExecute == review # Nothing /\ ~Stale /\ (Differs => review.confirmed)

Execute ==
    /\ CanExecute /\ Len(requests) < MaxRequests
    /\ requests' = Append(requests,
          [kind |-> "convert", body |-> review.body, key |-> review.key,
           difference |-> review.difference, confirmed |-> Differs /\ review.confirmed,
           typed |-> typed, state |-> "sent"])
    /\ UNCHANGED <<balance, conversion, typed, review, attempt>>

-----------------------------------------------------------------------------
\* The server.  The difference is that to the balance of now.
Now(i) == Worth[requests[i].body] - balance

\* A converted account is archived and has no preview.
ServePreview(i) ==
    /\ requests[i].kind = "preview" /\ requests[i].state = "sent"
    /\ requests' = IF conversion = Nothing
                   THEN [requests EXCEPT ![i].state = "held", ![i].difference = Now(i)]
                   ELSE [requests EXCEPT ![i].state = "over"]
    /\ UNCHANGED <<balance, conversion, typed, review, attempt>>

\* A key that was used answers again; else the account must not be converted
\* yet, and a difference must be confirmed.
Accepted(i) == conversion = Nothing /\ (Now(i) # 0 => requests[i].confirmed)

ServeExecute(i) ==
    /\ requests[i].kind = "convert" /\ requests[i].state = "sent"
    /\ conversion' = IF Accepted(i)
                     THEN [body |-> requests[i].body, key |-> requests[i].key, difference |-> Now(i)]
                     ELSE conversion
    /\ requests' = [requests EXCEPT ![i].state = "over"]
    /\ UNCHANGED <<balance, typed, review, attempt>>

\* Every preview is shown when it is answered, whatever is in the sheet by then.
PreviewArrives(i) ==
    /\ requests[i].kind = "preview" /\ requests[i].state = "held"
    /\ requests' = [requests EXCEPT ![i].state = "over"]
    /\ review' = [body |-> requests[i].body, key |-> requests[i].key,
                  difference |-> requests[i].difference, confirmed |-> FALSE]
    /\ UNCHANGED <<balance, conversion, typed, attempt>>

LosePreview(i) ==
    /\ requests[i].kind = "preview" /\ requests[i].state \in {"sent", "held"}
    /\ requests' = [requests EXCEPT ![i].state = "over"]
    /\ UNCHANGED <<balance, conversion, typed, review, attempt>>

\* A transaction or valuation of the account, until it is archived.
BalanceChanges ==
    /\ conversion = Nothing
    /\ balance' \in Balances \ {balance}
    /\ UNCHANGED <<conversion, typed, review, attempt, requests>>

ConvertNext ==
    \/ \E b \in Bodies \cup Incomplete : Type(b)
    \/ Preview \/ Tick \/ Execute \/ BalanceChanges
    \/ \E i \in Requests : ServePreview(i) \/ ServeExecute(i) \/ PreviewArrives(i) \/ LosePreview(i)

ConvertSpec == ConvertInit /\ [][ConvertNext]_convertVars

-----------------------------------------------------------------------------
\* The requests the conversion may have come from.
Origins == {i \in Requests : /\ requests[i].kind = "convert"
                             /\ requests[i].key = conversion.key
                             /\ requests[i].body = conversion.body}

(* An account is converted only to what was in the sheet when the person   *)
(* asked for it and had been previewed, and with a difference only if they *)
(* had one on the screen and confirmed it, although previews are answered  *)
(* late and the sheet is edited meanwhile (ConvertSheet.tsx 115-155).      *)
ConvertedAsReviewed ==
    conversion # Nothing =>
        \E i \in Origins : /\ requests[i].typed = conversion.body
                           /\ conversion.difference # 0 => requests[i].difference # 0

=============================================================================
