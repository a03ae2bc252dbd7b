------------------------------ MODULE SearchBox ------------------------------
(***************************************************************************)
(* The search of the header (useSearch, DashboardHeader).                  *)
(*                                                                         *)
(* Every change of the text starts a timer of 300 ms and stops the one     *)
(* before; a request is made when it ends.  Requests are not cancelled,    *)
(* and all share one list of results and one flag for the spinner.         *)
(***************************************************************************)
EXTENDS Integers

CONSTANTS
    Long,      \* texts that are searched for: more than two characters without the blanks around
    Blank,     \* texts of more than two characters that are too short without them
    Found,     \* those of Long that something is found for
    None,      \* texts of at most two characters; no results
    MaxTyped   \* bound on what the user does

VARIABLES
    box,    \* the text, its timer, the spinner and the results
    calls,  \* the searches under way
    typed   \* how much the user has done

vars == <<box, calls, typed>>

\* mixed and failed are not in the code: a search was under way when the timer ended
\* last; a search has failed since.
Box == [query : Long \cup Blank \cup {None}, timer : BOOLEAN, searching : BOOLEAN,
        list : Found \cup {None}, mixed : BOOLEAN, failed : BOOLEAN]

TypeOK == box \in Box /\ calls \subseteq Long /\ typed \in 0..MaxTyped

\* The effect runs when the page is mounted, too.
Init ==
    /\ box = [query |-> None, timer |-> TRUE, searching |-> FALSE, list |-> None, mixed |-> FALSE, failed |-> FALSE]
    /\ calls = {} /\ typed = 0

ResultsOf(q) == IF q \in Found THEN q ELSE None

\* setSearchQuery.
SetSearchQuery(q) ==
    /\ q # box.query /\ typed < MaxTyped /\ typed' = typed + 1
    /\ box' = [box EXCEPT !.query = q, !.timer = TRUE] /\ UNCHANGED calls

\* What hangs below the field.
Suggestions == IF box.query = None \/ box.searching THEN None ELSE box.list

Type(q) == SetSearchQuery(q)

\* A click elsewhere and Escape clear the text, and so does a result that is opened.
ClickOutside == SetSearchQuery(None)
SearchResultClick == Suggestions # None /\ SetSearchQuery(None)

\* The timer ends.
Debounced ==
    /\ box.timer /\ UNCHANGED typed
    /\ IF box.query \in Long
       THEN /\ calls' = calls \cup {box.query}
            /\ box' = [box EXCEPT !.timer = FALSE, !.searching = TRUE, !.mixed = calls # {}, !.failed = FALSE]
       ELSE /\ UNCHANGED calls
            /\ box' = [box EXCEPT !.timer = FALSE, !.list = None, !.mixed = calls # {}, !.failed = FALSE]

\* Any answer stops the spinner; an error leaves the results of the search before.
Answered(q, ok) ==
    /\ calls' = calls \ {q} /\ UNCHANGED typed
    /\ box' = [box EXCEPT !.list = IF ok THEN ResultsOf(q) ELSE @, !.searching = FALSE, !.failed = @ \/ ~ok]

Next ==
    \/ \E q \in Long \cup Blank : Type(q)
    \/ ClickOutside \/ SearchResultClick \/ Debounced
    \/ \E q \in calls, ok \in BOOLEAN : Answered(q, ok)

Spec == Init /\ [][Next]_vars

-----------------------------------------------------------------------------
\* What is listed below a text is what was found for it, and "No results" is said of a
\* text that has none, once its timer and its search have ended: unless that search
\* failed, or one for another text was under way when it began.
SearchFits ==
    box.query # None /\ ~box.timer /\ ~box.searching =>
        Suggestions = ResultsOf(box.query) \/ box.mixed \/ box.failed
=============================================================================
