----------------------------- MODULE WebImport ------------------------------
(***************************************************************************)
(* Importing a file into an account: pick a file, review what the server   *)
(* says it would add, import it.  DirectImport takes the history of an     *)
(* account that is tracked by its transactions, and leaves rows with       *)
(* errors out; InvestmentImport takes trades, all of them or none.         *)
(*                                                                         *)
(* A picked file is read before anything is shown of it, and every request *)
(* is answered late; the account may be changed from elsewhere meanwhile.  *)
(* A file is identified with its content, a row with its external ID, and  *)
(* of the trades before a row only those are named that it cannot be       *)
(* without: a sale needs what it sells.                                    *)
(***************************************************************************)
EXTENDS Naturals, Sequences, FiniteSets

CONSTANTS
    RowsOf,       \* for each file, its rows
    Needs,        \* for each row, the trades that must come before it
    Faulty,       \* rows that no account takes: a date in the future, say
    NoFile,
    MaxRequests   \* bound: previews and imports asked for

Files == DOMAIN RowsOf
Rows  == UNION {RowsOf[f] : f \in Files}

ImportAssumption ==
    /\ Needs \in [Rows -> SUBSET Rows] /\ Faulty \subseteq Rows
    /\ NoFile \notin Files /\ MaxRequests \in Nat

VARIABLES
    form,      \* the page: "history" for DirectImport, "trades" for InvestmentImport
    history,   \* how many times the account has each row
    picked,    \* the files being read
    file,      \* the file of the page
    preview,   \* the request the page takes for its preview, 0 for none
    commit,    \* the request it takes for its import, 0 for none
    requests   \* the requests, in the order they are sent

importVars == <<form, history, picked, file, preview, commit, requests>>

\* kind:   what is asked for
\* state:  what became of it; "held" while the server has answered and the page
\*         has not heard of it
\* ready:    the rows the server said, or had, to add
\* problems: those with errors
RequestType == [kind : {"preview", "import"}, file : Files,
                state : {"sent", "held", "refusal", "success", "conflict", "failure"},
                ready : SUBSET Rows, problems : SUBSET Rows]

\* Type invariant: the page, its requests and the history keep their types.
WebTypeOK ==
    /\ form \in {"history", "trades"}
    /\ history \in [Rows -> Nat]
    /\ picked \subseteq Files
    /\ file \in Files \cup {NoFile}
    /\ requests \in Seq(RequestType) /\ Len(requests) <= MaxRequests
    /\ preview \in 0..Len(requests) /\ commit \in 0..Len(requests)

Requests == 1..Len(requests)

\* What the page makes of one of its requests.
State(i) == IF i = 0 THEN "idle" ELSE requests[i].state
Pending(i) == State(i) \in {"sent", "held", "refusal"}

\* The three screens.
Done      == State(commit) = "success"
Reviewing == ~Done /\ file # NoFile /\ State(preview) = "success"
Choosing  == ~Done /\ ~Reviewing

\* An account the ledger takes: nothing faulty, no trade without those it needs.
Sound(h) == \A r \in Rows : h[r] > 0 =>
    r \notin Faulty /\ (form = "trades" => \A q \in Needs[r] : h[q] > 0)

-----------------------------------------------------------------------------
ImportInit ==
    /\ form \in {"history", "trades"}
    /\ history \in {h \in [Rows -> {0, 1}] : Sound(h)}
    /\ picked = {} /\ file = NoFile
    /\ preview = 0 /\ commit = 0
    /\ requests = <<>>

\* Nothing can be picked while a file is being previewed.  Reading it takes time;
\* a file of another kind, or too large, is not read.
Pick(f) ==
    /\ Choosing /\ ~Pending(preview)
    /\ picked' \in {picked, picked \cup {f}}
    /\ preview' = 0 /\ commit' = 0
    /\ UNCHANGED <<history, file, requests>>

Ask(kind, f) ==
    /\ Len(requests) < MaxRequests
    /\ requests' = Append(requests, [kind |-> kind, file |-> f, state |-> "sent",
                                    ready |-> {}, problems |-> {}])

\* The file has been read: it is the file of the page, and previewed.
ReadFile(f) ==
    /\ f \in picked /\ Ask("preview", f)
    /\ picked' = picked \ {f}
    /\ file' = f
    /\ preview' = Len(requests) + 1
    /\ UNCHANGED <<history, commit>>

\* After a conflict: "Preview again".
PreviewAgain ==
    /\ Reviewing /\ State(commit) = "conflict" /\ Ask("preview", file)
    /\ preview' = Len(requests) + 1
    /\ commit' = 0
    /\ UNCHANGED <<history, picked, file>>

\* "Choose a different file", "Import another file".
Reset ==
    /\ Reviewing \/ Done
    /\ file' = NoFile /\ preview' = 0 /\ commit' = 0
    /\ UNCHANGED <<history, picked, requests>>

\* The review lets import: for trades, when nothing at all is wrong with the file.
CanCommit == requests[preview].ready # {} /\ (form = "trades" => requests[preview].problems = {})

\* The import button, also twice before the page is rendered again: it sends the
\* file and the hash the preview came with.
Import ==
    /\ Reviewing /\ CanCommit /\ Ask("import", file)
    /\ commit' = Len(requests) + 1
    /\ UNCHANGED <<history, picked, file, preview>>

\* Mutant: every row of the file is new.
EveryRow(f) == RowsOf[f]

\* Rows the account has are skipped.
Duplicates(f) == {r \in RowsOf[f] : history[r] > 0}

\* Rows that cannot be added to the account, nor, for trades, after the rest of the file.
Problems(f) == {r \in RowsOf[f] \ Duplicates(f) :
    \/ r \in Faulty
    \/ form = "trades" /\ \E q \in Needs[r] : history[q] = 0 /\ q \notin RowsOf[f] \ Faulty}

Fresh(f) == RowsOf[f] \ (Duplicates(f) \cup Problems(f))

\* Mutant: trades with problems are left out, like rows of a history.
CommittedPartly(f) == Fresh(f)

\* What a commit adds.
Committed(f) == IF form = "trades" /\ Problems(f) # {} THEN {} ELSE Fresh(f)

\* Both classify the file anew; a commit in the transaction that adds the rows.
Serve(i) ==
    LET f == requests[i].file
        refused == requests[i].kind = "import" /\ form = "trades" /\ Committed(f) = {} /\ Problems(f) # {}
    IN  /\ requests[i].state = "sent"
        /\ \/ /\ ~refused
              /\ requests' = [requests EXCEPT ![i].state = "held", ![i].ready = Fresh(f),
                                             ![i].problems = Problems(f)]
              /\ history' = IF requests[i].kind = "preview" THEN history
                            ELSE [r \in Rows |-> history[r] + IF r \in Committed(f) THEN 1 ELSE 0]
           \/ /\ requests' = [requests EXCEPT ![i].state = "refusal"]
              /\ UNCHANGED history
        /\ UNCHANGED <<picked, file, preview, commit>>

\* A refusal is a conflict when an ID has come to stand for another row.
Answer(i) ==
    /\ \E state \in IF requests[i].state = "held" THEN {"success"} ELSE {"conflict", "failure"} :
         requests' = [requests EXCEPT ![i].state = state]
    /\ requests[i].state \in {"held", "refusal"}
    /\ UNCHANGED <<history, picked, file, preview, commit>>

\* The answer is lost, and what it said.
Lose(i) ==
    /\ requests[i].state \in {"held", "refusal"}
    /\ requests' = [requests EXCEPT ![i].state = "failure", ![i].ready = {}, ![i].problems = {}]
    /\ UNCHANGED <<history, picked, file, preview, commit>>

\* The account is changed from elsewhere, to one the ledger takes.
Elsewhere(r) ==
    /\ history' = [history EXCEPT ![r] = IF @ = 0 THEN 1 ELSE 0]
    /\ Sound(history')
    /\ UNCHANGED <<picked, file, preview, commit, requests>>

ImportNext ==
    /\ \/ \E f \in Files : Pick(f) \/ ReadFile(f)
       \/ PreviewAgain \/ Reset \/ Import
       \/ \E i \in Requests : Serve(i) \/ Answer(i) \/ Lose(i)
       \/ \E r \in Rows : Elsewhere(r)
    /\ UNCHANGED form

ImportSpec == ImportInit /\ [][ImportNext]_importVars

-----------------------------------------------------------------------------
(* No row is added to an account that has it: not by importing twice, in   *)
(* haste or after a lost answer, nor by importing a file whose preview is  *)
(* out of date (account_history_import.go 136-190).                        *)
AddedOnce == \A r \in Rows : history[r] <= 1

(* Trades are imported all or none: after an import that succeeded the     *)
(* account had every row of the file, and it never has a trade without     *)
(* those it needs, although what was there at the preview may be gone      *)
(* (investment_history_import.go 241-335, InvestmentImport.tsx 586-592).   *)
AllOrNone ==
    /\ Sound(history)
    /\ form = "trades" => \A i \in Requests :
         requests[i].kind = "import" /\ requests[i].state \in {"held", "success"} =>
             requests[i].problems = {}

\* What a file adds to the history of an account, it adds once, and whole.
ImportsWhole == AddedOnce /\ AllOrNone

=============================================================================
