------------------------------ MODULE MCWebApp ------------------------------
(***************************************************************************)
(* Eleven parts of the page without common state, checked in one run:      *)
(* the first state chooses a part, and only that one takes steps, so the   *)
(* states are those of the parts side by side and not their product.  What *)
(* the parts do to each other in the browser (a sign-in mounts the         *)
(* dashboard, a folder opened loads its rows) is an input of each of them. *)
(***************************************************************************)
EXTENDS Integers, Sequences, FiniteSets

CONSTANTS
    None, Absent,
    Question, MaxStrikes, MaxFetches,              \* AuthPage
    Tab, User, MaxSeen, MaxCalls,                  \* AppSession; Dashboard, too
    Newest, root, sub, Gone, Polled,               \* Dashboard
    PageSize, FavLimit, MaxActs,
    outer, inner, deep, file, Root, MaxInputs,     \* FileManager
    File, Link, MaxClicks,                         \* ItemModals
    Shared, Text, Media, MaxVisits,                \* SharePage
    Visited, MaxMoves,                              \* FolderHistory
    Upload, MaxPushes,                             \* UploadToast
    MAX_POLLS, MaxChanges,                         \* Thumbnail
    Long, Blank, Found, MaxTyped,                  \* SearchBox
    MaxOps                                         \* SharesList

ASSUME BoundsAssumption ==
    /\ {MaxStrikes, MaxFetches, MaxSeen, Newest, PageSize, MaxActs, MaxInputs, MaxClicks,
        MaxVisits, MaxMoves, MaxPushes, MAX_POLLS, MaxChanges, MaxTyped, MaxOps} \subseteq Nat
    /\ MaxFetches # 0

\* There is always a captcha that is not on the page.
ASSUME QuestionsAssumption == \A a, b, c \in Question \cup {None} : \E q \in Question : q \notin {a, b, c}

ASSUME NullAssumption == None \notin User \cup 1..MaxSeen

ASSUME SharedAssumption == Shared # {} /\ None \notin Shared

ASSUME FoundAssumption == Found \subseteq Long

ASSUME ItemsAssumption == None \notin File

\* No folder is a place of another kind, and no file is a folder.
ASSUME PlacesAssumption ==
    /\ Gone \notin {root, sub}
    /\ Root \notin {outer, inner, deep, file} /\ file \notin {outer, inner, deep, Gone}

VARIABLES
    part,
    captchas, form,
    owner, valid, store, tabs, sent,
    srv, dashboard, loads, acts,
    disk, rows, tree, ui, ops, inputs,
    links, share, log, view, calls, clicks,
    link, visit, asked, visits,
    hist, pos, shown, moves,
    boxes, toast, closing, cancels, pushes,
    stage, row, icon, cached, changes,
    box, searches, typed,
    state, list, requests, operations

authVars == <<captchas, form>>
appVars == <<owner, valid, store, tabs, sent>>
dataVars == <<srv, dashboard, loads, acts>>
fileVars == <<disk, rows, tree, ui, ops, inputs>>
modalVars == <<links, share, log, view, calls, clicks>>
shareVars == <<link, visit, asked, visits>>
histVars == <<hist, pos, shown, moves>>
toastVars == <<boxes, toast, closing, cancels, pushes>>
iconVars == <<stage, row, icon, cached, changes>>
boxVars == <<box, searches, typed>>
listVars == <<state, list, requests, operations>>
smallVars == <<toastVars, iconVars, boxVars, listVars>>
vars == <<part, authVars, appVars, dataVars, fileVars, modalVars, shareVars, histVars, smallVars>>

Auth == INSTANCE AuthPage WITH server <- captchas
App == INSTANCE AppSession WITH calls <- sent
Data == INSTANCE Dashboard WITH page <- dashboard, calls <- loads, Folder <- {root, sub}, Busy <- Polled,
            Start <- [i \in 1..Newest |-> IF i = Newest THEN sub ELSE root]

\* A folder in a folder in a folder, and beside them a file that is being scanned: a
\* path whose middle the page may not know, and what can be moved where a folder cannot.
Files == INSTANCE FileManager WITH srv <- disk, Item <- {outer, inner, deep, file}, Dir <- {outer, inner, deep},
             Busy <- {file}, Infected <- {},
             Start <- [i \in {outer, inner, deep, file} |->
                          IF i = inner THEN outer ELSE IF i = deep THEN inner ELSE Root]
Modals == INSTANCE ItemModals
Public == INSTANCE SharePage WITH server <- link, page <- visit
History == INSTANCE FolderHistory WITH page <- shown, Folder <- Visited
Toast == INSTANCE UploadToast WITH rows <- boxes
Picture == INSTANCE Thumbnail
Search == INSTANCE SearchBox WITH calls <- searches
Sharing == INSTANCE SharesList WITH calls <- requests, ops <- operations

Init ==
    /\ part \in {"auth", "app", "data", "files", "modals", "public", "history", "toast", "icon", "search", "sharing"}
    /\ Auth!Init /\ App!Init
    /\ Files!Init /\ (part # "files" => ~ui.mobile)
    /\ IF part = "data" THEN Data!Init ELSE srv = Absent /\ dashboard = Absent /\ loads = Absent /\ acts = Absent
    /\ IF part = "modals" THEN Modals!Init ELSE links = Absent /\ share = Absent /\ log = Absent /\ view = Absent /\ calls = Absent /\ clicks = Absent
    /\ IF part = "public" THEN Public!Init ELSE link = Absent /\ visit = Absent /\ asked = Absent /\ visits = Absent
    /\ IF part = "history" THEN History!Init ELSE hist = Absent /\ pos = Absent /\ shown = Absent /\ moves = Absent
    /\ Toast!Init /\ Search!Init
    /\ Picture!Init /\ (part # "icon" => ~row.show)
    /\ IF part = "sharing" THEN Sharing!Init ELSE state = Absent /\ list = Absent /\ requests = Absent /\ operations = Absent

Next ==
    /\ UNCHANGED part
    /\ \/ /\ part = "auth" /\ Auth!Next
          /\ UNCHANGED <<appVars, dataVars, fileVars, modalVars, shareVars, histVars, smallVars>>
       \/ /\ part = "app" /\ App!Next
          /\ UNCHANGED <<authVars, dataVars, fileVars, modalVars, shareVars, histVars, smallVars>>
       \/ /\ part = "data" /\ Data!Next
          /\ UNCHANGED <<authVars, appVars, fileVars, modalVars, shareVars, histVars, smallVars>>
       \/ /\ part = "files" /\ Files!Next
          /\ UNCHANGED <<authVars, appVars, dataVars, modalVars, shareVars, histVars, smallVars>>
       \/ /\ part = "modals" /\ Modals!Next
          /\ UNCHANGED <<authVars, appVars, dataVars, fileVars, shareVars, histVars, smallVars>>
       \/ /\ part = "public" /\ Public!Next
          /\ UNCHANGED <<authVars, appVars, dataVars, fileVars, modalVars, histVars, smallVars>>
       \/ /\ part = "history" /\ History!Next
          /\ UNCHANGED <<authVars, appVars, dataVars, fileVars, modalVars, shareVars, smallVars>>
       \/ /\ UNCHANGED <<authVars, appVars, dataVars, fileVars, modalVars, shareVars, histVars>>
          /\ \/ part = "toast" /\ Toast!Next /\ UNCHANGED <<iconVars, boxVars, listVars>>
             \/ part = "icon" /\ Picture!Next /\ UNCHANGED <<toastVars, boxVars, listVars>>
             \/ part = "search" /\ Search!Next /\ UNCHANGED <<toastVars, iconVars, listVars>>
             \/ part = "sharing" /\ Sharing!Next /\ UNCHANGED <<toastVars, iconVars, boxVars>>

Ours(A) ==
    /\ part = "auth" /\ A
    /\ UNCHANGED <<part, appVars, dataVars, fileVars, modalVars, shareVars, histVars, smallVars>>

Spec ==
    /\ Init /\ [][Next]_vars
    /\ WF_vars(Ours(Auth!Fetched)) /\ WF_vars(Ours(Auth!TimerEnds)) /\ WF_vars(Ours(Auth!Submitted))

-----------------------------------------------------------------------------
\* What each part promises, and its type; the modules say what it means.

\* A right answer to a captcha is not counted as a failure (validate_captcha, useCaptcha).
RightAnswerCounts == [](part = "auth" => Auth!TypeOK) /\ Auth!RightAnswerCounts

\* A question that the server has dropped does not stay on the sign-in page (useCaptcha's countdown).
QuestionsRefreshed == Auth!QuestionsRefreshed

\* A tab shows the data of the one user it was mounted for, and a good token leaves the
\* browser by a logout, the refusal of a request sent with another token, or a sign-in
\* that fails in another tab (App, httpClient).
SessionsApart == [](part = "app" => App!TypeOK) /\ App!SessionsApart

\* A listing that has no more to load has every item of its folder (useDashboardData),
\* a click on a star does what the menu said (handleToggleFavorite), and an icon does not
\* lose a round of polls, nor poll for what is there or scanned (FileIcon).
RowsFit ==
    /\ part = "data" => Data!TypeOK /\ Data!NothingHidden /\ Data!FavoriteAsAsked
    /\ part = "icon" => Picture!TypeOK /\ Picture!PollingFits

\* The page does not ask for a move that puts a folder below itself where it could
\* have known (isDescendantOrSelf and its callers).
CircularConfined == Files!CircularConfined

\* The menu acts on the file it was opened on (Workspace, ContextMenu).
MenuHitsItsFile == [](part = "files" => Files!TypeOK) /\ Files!MenuHitsItsFile

\* What was cut stays cut until it is pasted (useFileActions, ReactFileManager).
ClipboardKept == Files!ClipboardKept

\* The windows show what belongs to the item in their title (ShareModal,
\* ShareAccessLogModal, PreviewModal), the list of links the links there are (refreshShares),
\* the search what was found for its text (useSearch).
ShownFits ==
    /\ part = "modals" => Modals!TypeOK /\ Modals!TokenFits /\ Modals!ShownFits
    /\ part = "sharing" => Sharing!TypeOK /\ Sharing!ListedFits
    /\ part = "search" => Search!TypeOK /\ Search!SearchFits

\* The row of an upload does not go while the upload is under way (UploadProgressToast).
UploadsSeen == [](part = "toast" => Toast!TypeOK) /\ Toast!UploadsSeen

\* A visitor of a link sees what is shared, behind the password and under its name (PublicSharePage).
SharedAsShown == part = "public" => Public!TypeOK /\ Public!SharedAsShown

\* Back goes to the folder shown before (useFolderNavigation, CommonModal).
HistoryFits == part = "history" => History!TypeOK /\ History!HistoryFits
=============================================================================
