----------------------------- MODULE SharePage -----------------------------
(***************************************************************************)
(* The page of a link (PublicSharePage): what a visitor sees of a shared   *)
(* file or folder.  The page alone keeps a visitor without the password    *)
(* out; the server answers every request for a link that is alive.         *)
(*                                                                         *)
(* The viewer reads the body of an answer without a look at its status: of *)
(* a refusal, or of an error of the server that has nothing to do with the *)
(* link, as well as of the file.                                           *)
(***************************************************************************)
EXTENDS Integers, FiniteSets

CONSTANTS
    Shared,      \* files: one is shared, or all of them are in a shared folder
    Text,        \* those shown as text, which the viewer fetches
    Media,       \* those it shows as something else
    None,        \* nothing
    MaxVisits    \* bound on what the visitor does

VARIABLES
    server,  \* the link, and what it leads to
    page,    \* the state of the page and of the viewer in it
    asked,   \* requests under way
    visits   \* how much the visitor has done

vars == <<server, page, asked, visits>>

\* item: the file that is shared, None if it is a folder; logged: what the log of the link has of this visitor.
Server == [live : BOOLEAN, there : SUBSET Shared, item : Shared \cup {None}, locked : BOOLEAN,
           permission : {"view", "download"}, logged : SUBSET {"view", "password_verified", "list"}]

\* What came for an item: its content, or what an HTTP error says.  failed is not in the code.
Body == [item : Shared, content : BOOLEAN]
Page == [info : BOOLEAN, loading : BOOLEAN, verifying : BOOLEAN, error : BOOLEAN, authorized : BOOLEAN,
         contents : SUBSET Shared, viewing : Shared \cup {None}, text : Body \cup {None},
         fetching : BOOLEAN, left : BOOLEAN, failed : BOOLEAN]
Asked == [to : {"info", "list"}] \cup [to : {"verify"}, right : BOOLEAN] \cup [to : {"text"}, item : Shared]

TypeOK == server \in Server /\ page \in Page /\ asked \subseteq Asked /\ visits \in 0..MaxVisits

\* A path without a token is an error at once.
Init ==
    /\ server \in [live : BOOLEAN, there : {Shared}, item : Shared \cup {None}, locked : BOOLEAN,
                   permission : {"view", "download"}, logged : {{}}]
    /\ \E token \in BOOLEAN :
        /\ page = [info |-> FALSE, loading |-> token, verifying |-> FALSE, error |-> ~token, authorized |-> FALSE,
                   contents |-> {}, viewing |-> None, text |-> None, fetching |-> FALSE,
                   left |-> FALSE, failed |-> FALSE]
        /\ asked = IF token THEN {[to |-> "info"]} ELSE {}
    /\ visits = 0

IsFolder == server.item = None

\* What is drawn: one of the cards, or the page a failed download went to.
Card ==
    CASE page.left -> "error"
      [] page.loading -> "spinner"
      [] page.error /\ ~page.info -> "unavailable"
      [] page.info /\ server.locked /\ ~page.authorized -> "password"
      [] page.viewing # None -> "viewer"
      [] OTHER -> IF IsFolder THEN "list" ELSE "file"

\* isMediaSupported.
Supported == Text \cup Media

\* What has a button to download it; folders in the list have none.
Offered ==
    CASE server.permission = "view" -> {}
      [] Card = "viewer" -> {page.viewing}
      [] Card = "list" -> page.contents
      [] Card = "file" -> {server.item}
      [] OTHER -> {}

\* The texts the viewer draws: none while it is fetching.
TextDrawn == IF page.fetching THEN {} ELSE {page.text} \ {None}

\* The viewer fetches what it shows as text when it is mounted.
Mounted(i) == IF i \in Text THEN {[to |-> "text", item |-> i]} ELSE {}

\* What follows when the page has the data of the link and lets the visitor in.
Enter == IF IsFolder THEN {[to |-> "list"]} ELSE Mounted(server.item)

-----------------------------------------------------------------------------
Answered(q) == q \in asked /\ UNCHANGED visits
Logs(entry) == server' = [server EXCEPT !.logged = @ \cup {entry}]

InfoLoaded ==
    /\ Answered([to |-> "info"])
    /\ \/ /\ server.live /\ server.item \in server.there \cup {None} /\ Logs("view")
          /\ page' = [page EXCEPT !.info = TRUE, !.loading = FALSE, !.authorized = (~server.locked),
                                  !.fetching = (~server.locked /\ server.item \in Text)]
          /\ asked' = (asked \ {[to |-> "info"]}) \cup (IF server.locked THEN {} ELSE Enter)
       \/ /\ page' = [page EXCEPT !.loading = FALSE, !.error = TRUE]
          /\ asked' = asked \ {[to |-> "info"]} /\ UNCHANGED server

\* The button is off while a password is checked; the Enter key is not.
HandleVerifyPassword ==
    /\ visits < MaxVisits /\ visits' = visits + 1
    /\ Card = "password"
    /\ page' = [page EXCEPT !.verifying = TRUE, !.error = FALSE]
    /\ \E right \in BOOLEAN : asked' = asked \cup {[to |-> "verify", right |-> right]}
    /\ UNCHANGED server

\* Mutant: any answer lets the visitor in.
VerifiedAnyway(q, ok) ==
    /\ q.to = "verify" /\ Answered(q)
    /\ LET verified == ok
           enters == verified /\ ~page.authorized
       IN  /\ page' = [page EXCEPT !.authorized = @ \/ verified, !.verifying = FALSE, !.error = (~verified),
                                   !.fetching = @ \/ (enters /\ server.item \in Text)]
           /\ asked' = (asked \ {q}) \cup (IF enters THEN Enter ELSE {})
           /\ IF ok /\ q.right /\ server.live THEN Logs("password_verified") ELSE UNCHANGED server

Verified(q, ok) ==
    /\ q.to = "verify" /\ Answered(q)
    /\ LET verified == ok /\ q.right /\ server.live
           enters == verified /\ ~page.authorized
       IN  /\ page' = [page EXCEPT !.authorized = @ \/ verified, !.verifying = FALSE, !.error = (~verified),
                                   !.fetching = @ \/ (enters /\ server.item \in Text)]
           /\ asked' = (asked \ {q}) \cup (IF enters THEN Enter ELSE {})
           /\ IF verified THEN Logs("password_verified") ELSE UNCHANGED server

\* Anything but a list leaves the page as it is, with its "Folder is empty".
FolderListed(ok) ==
    /\ Answered([to |-> "list"]) /\ asked' = asked \ {[to |-> "list"]}
    /\ IF ok /\ server.live
       THEN page' = [page EXCEPT !.contents = server.there] /\ Logs("list")
       ELSE page' = [page EXCEPT !.failed = TRUE] /\ UNCHANGED server

\* The content, if link and item are there; the body of any error, at any time (an infected
\* file is refused, too); or no answer, which alone leaves no text.
TextLoaded(q) ==
    /\ q.to = "text" /\ Answered(q) /\ asked' = asked \ {q} /\ UNCHANGED server
    /\ \/ page' = [page EXCEPT !.fetching = FALSE]
       \/ \E content \in BOOLEAN :
            /\ content => server.live /\ q.item \in server.there
            /\ page' = [page EXCEPT !.fetching = FALSE, !.text = [item |-> q.item, content |-> content]]

-----------------------------------------------------------------------------
\* A file of the folder takes the place of the list; Back unmounts its viewer, and
\* what the viewer had asked for comes to nothing.
OpenItem(i) ==
    /\ visits < MaxVisits /\ visits' = visits + 1
    /\ Card = "list" /\ i \in page.contents \cap Supported
    /\ page' = [page EXCEPT !.viewing = i, !.text = None, !.fetching = i \in Text]
    /\ asked' = asked \cup Mounted(i) /\ UNCHANGED server

Back ==
    /\ visits < MaxVisits /\ visits' = visits + 1
    /\ Card = "viewer"
    /\ page' = [page EXCEPT !.viewing = None, !.text = None, !.fetching = FALSE]
    /\ asked' = asked \ [to : {"text"}, item : Shared] /\ UNCHANGED server

\* The browser goes to the address of the file, and stays where it is if a file
\* comes; the body of an error takes the place of the page.
HandleDownload(i) ==
    /\ visits < MaxVisits /\ visits' = visits + 1
    /\ i \in Offered
    /\ \E comes \in BOOLEAN :
        /\ comes => server.live /\ i \in server.there
        /\ page' = [page EXCEPT !.left = (~comes)]
    /\ UNCHANGED <<server, asked>>

\* Meanwhile the owner revokes the link, it expires, or what it leads to is deleted.
Withdrawn ==
    /\ \/ server.live /\ server' = [server EXCEPT !.live = FALSE]
       \/ \E i \in server.there : server' = [server EXCEPT !.there = @ \ {i}]
    /\ UNCHANGED <<page, asked, visits>>

Next ==
    \/ InfoLoaded \/ HandleVerifyPassword \/ Back \/ Withdrawn
    \/ \E i \in Shared : OpenItem(i) \/ HandleDownload(i)
    \/ \E ok \in BOOLEAN :
        FolderListed(ok) \/ \E q \in asked : Verified(q, ok)
    \/ \E q \in asked : TextLoaded(q)

Spec == Init /\ [][Next]_vars

-----------------------------------------------------------------------------
\* What is behind the password is drawn, and asked for, after the server has
\* verified it.
UnlockedFirst ==
    page.authorized \/ asked \cap ([to : {"list"}] \cup [to : {"text"}, item : Shared]) # {}
        => ~server.locked \/ "password_verified" \in server.logged

\* The text under the name of an item came for that item: its content or, drawn like one,
\* the error its own request ended with.  Nothing tells the visitor which.
TextFits == \A t \in TextDrawn : t.item \in {page.viewing, server.item}

\* A folder is called empty although something is in it as long as the list has not
\* come, and for good if that request was refused or failed.
EmptyIsEmpty ==
    Card = "list" /\ page.contents = {} =>
        [to |-> "list"] \in asked \/ page.failed \/ server.there # Shared

SharedAsShown == UnlockedFirst /\ TextFits /\ EmptyIsEmpty
=============================================================================
