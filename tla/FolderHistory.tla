---------------------------- MODULE FolderHistory ----------------------------
(***************************************************************************)
(* The history of the browser as the dashboard uses it: an entry per       *)
(* folder that was opened (useFolderNavigation) and, on a mobile screen,   *)
(* per opened side bar and modal (CommonModal), so that Back closes them.  *)
(*                                                                         *)
(* Every listener hears every popstate.  Going back from the code is       *)
(* asynchronous in the browser; here its popstate follows at once.         *)
(***************************************************************************)
EXTENDS Integers, Sequences

CONSTANTS
    Folder,   \* folders
    None,     \* of an entry: no folder
    MaxMoves  \* bound on what the user does

VARIABLES
    hist,   \* the entries of this page in the history
    pos,    \* the current one, window.history.state
    page,   \* the state of the page
    moves   \* how much the user has done

vars == <<hist, pos, page, moves>>

\* Of an entry: the folder, the opening of the side bar and of the modal it stands for.
Entry == [folder : Folder \cup {None}, bar : 0..MaxMoves, modal : 0..MaxMoves]

\* deaf is isInternalNavigation, leaving is sidebarNavigatingRef; step is not in the
\* code: the last step through the history came to an entry of the folder shown, or
\* that and one folder was opened since.
Page == [cur : Folder, mobile : BOOLEAN, bar : 0..MaxMoves, modal : 0..MaxMoves,
         deaf : BOOLEAN, leaving : BOOLEAN, step : {"other", "same", "opened"}]

TypeOK ==
    /\ hist \in Seq(Entry) /\ pos \in DOMAIN hist
    /\ page \in Page /\ moves \in 0..MaxMoves

\* The entry of a fresh page gets the folder of the last visit.
Init ==
    /\ \E f \in Folder, m \in BOOLEAN :
        /\ hist = <<[folder |-> f, bar |-> 0, modal |-> 0]>>
        /\ page = [cur |-> f, mobile |-> m, bar |-> 0, modal |-> 0,
                   deaf |-> FALSE, leaving |-> FALSE, step |-> "other"]
    /\ pos = 1 /\ moves = 0

State == hist[pos]
Move == moves < MaxMoves /\ moves' = moves + 1

Pushed(e) == hist' = Append(SubSeq(hist, 1, pos), e) /\ pos' = pos + 1
Replaced(e) == hist' = [hist EXCEPT ![pos] = e] /\ pos' = pos

-----------------------------------------------------------------------------
\* Mutant: the effect of a folder reached through the history leaves the mark.
MarkedForGood(e, p) == p.deaf \/ e.folder # None

\* The mark that a folder came from the history, which the effect of a new folder
\* takes away; without a new folder there is no effect.
Marked(e, p) == IF e.folder = None THEN p.deaf ELSE e.folder = p.cur

\* popstate on entry n: the folder is shown, and side bar and modal close unless the
\* entry is theirs.
PoppedTo(n, p) ==
    /\ pos' = n /\ hist' = hist
    /\ LET e == hist[n]
           shows == e.folder # None
       IN  page' = [p EXCEPT !.cur = IF shows THEN e.folder ELSE @,
                             !.deaf = Marked(e, p),
                             !.step = IF ~shows THEN @ ELSE IF e.folder = p.cur THEN "same" ELSE "other",
                             !.bar = IF e.bar = @ THEN @ ELSE 0,
                             !.leaving = @ /\ (p.bar = 0 \/ e.bar = p.bar),
                             !.modal = IF e.modal = @ THEN @ ELSE 0]

\* Back, Forward and the list of entries.
Go(n) == n \in DOMAIN hist \ {pos} /\ Move /\ PoppedTo(n, page)

\* The effect of a new folder, in the entry e: the entry of an open side bar becomes
\* the folder's.
FolderShown(f, e, p) ==
    IF p.deaf \/ e.folder = f
    THEN Replaced(e) /\ page' = [p EXCEPT !.cur = f, !.deaf = FALSE]
    ELSE /\ IF e.bar # 0 THEN Replaced([e EXCEPT !.folder = f, !.bar = 0]) ELSE Pushed([e EXCEPT !.folder = f])
         /\ page' = [p EXCEPT !.cur = f, !.leaving = @ \/ e.bar # 0]

\* navigateToFolder, from wherever a folder is opened.
NavigateToFolder(f) ==
    /\ f # page.cur /\ Move
    /\ LET overBar == page.bar # 0 /\ State.bar # 0
           e == IF overBar THEN [State EXCEPT !.folder = f, !.bar = 0] ELSE State
       IN  FolderShown(f, e, [page EXCEPT !.leaving = @ \/ overBar,
                                          !.step = IF @ = "same" THEN "opened" ELSE "other"])

-----------------------------------------------------------------------------
\* The side bar and a modal on a mobile screen.  Closing one takes its entry back.
OpenBar ==
    /\ page.mobile /\ page.bar = 0 /\ Move
    /\ Pushed([State EXCEPT !.bar = moves + 1])
    /\ page' = [page EXCEPT !.bar = moves + 1, !.leaving = FALSE]

CloseBar ==
    /\ page.bar # 0 /\ Move
    /\ LET closed == [page EXCEPT !.bar = 0, !.leaving = FALSE]
       IN  IF State.bar = page.bar /\ ~page.leaving /\ pos > 1 THEN PoppedTo(pos - 1, closed)
           ELSE page' = closed /\ UNCHANGED <<hist, pos>>

OpenModal ==
    /\ page.mobile /\ page.modal = 0 /\ Move
    /\ Pushed([folder |-> None, bar |-> 0, modal |-> moves + 1])
    /\ page' = [page EXCEPT !.modal = moves + 1]

CloseModal ==
    /\ page.modal # 0 /\ Move
    /\ LET closed == [page EXCEPT !.modal = 0]
       IN  IF State.modal = page.modal /\ pos > 1 THEN PoppedTo(pos - 1, closed)
           ELSE page' = closed /\ UNCHANGED <<hist, pos>>

\* The page is loaded anew; the entries stay, the folder is in localStorage.
Reload ==
    /\ Move
    /\ LET e == IF State.folder = None THEN [State EXCEPT !.folder = page.cur] ELSE State
       IN  FolderShown(page.cur, e, [page EXCEPT !.bar = 0, !.modal = 0, !.deaf = FALSE,
                                                 !.leaving = FALSE, !.step = "other"])

Next ==
    \/ \E n \in DOMAIN hist : Go(n)
    \/ \E f \in Folder : NavigateToFolder(f)
    \/ OpenBar \/ CloseBar \/ OpenModal \/ CloseModal \/ Reload

Spec == Init /\ [][Next]_vars

-----------------------------------------------------------------------------
\* The entry the browser stands on is one of the folder that is shown, or of a modal.
\* A folder opened right after a step to an entry of the folder shown, such as closing
\* the side bar takes, is the exception.
HistoryFits == State.folder \in {page.cur, None} \/ page.step = "opened"
=============================================================================
