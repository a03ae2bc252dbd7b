----------------------------- MODULE ItemModals -----------------------------
(***************************************************************************)
(* The windows of the file manager that show one item: its links           *)
(* (ShareModal), the log of its links (ShareAccessLogModal) and its        *)
(* content (PreviewModal).                                                 *)
(*                                                                         *)
(* None of them blocks the page, so each can be opened for another item    *)
(* while it is open; none cancels a request, and an answer is applied to   *)
(* whatever the window shows by then.  Requests for the same thing that    *)
(* are under way together count as one.                                    *)
(***************************************************************************)
EXTENDS Integers, FiniteSets

CONSTANTS
    File,       \* items
    Link,       \* links to items, in the order of nothing
    None,       \* nothing
    MaxClicks   \* bound on what the user does

VARIABLES
    links,   \* the server: per link the item and the permission it was made for
    share,   \* ShareModal
    log,     \* ShareAccessLogModal
    view,    \* PreviewModal
    calls,   \* requests under way
    clicks   \* how much the user has done

vars == <<links, share, log, view, calls, clicks>>

Permission == {"view", "download"}
Unused == [file |-> None, perm |-> "view", live |-> FALSE]
LinkState == {Unused} \cup [file : File, perm : Permission, live : BOOLEAN]

\* mixed, failed and late are not in the code: an answer for something else may
\* come in or be left over; a request has failed (of ShareModal: since it was opened;
\* the log keeps its tab and what it shows for good); a request was under way when
\* the window was closed.
Share == [vis : BOOLEAN, file : File \cup {None}, perm : Permission, usePassword : BOOLEAN,
          password : BOOLEAN, list : SUBSET Link, token : Link \cup {None}, creating : BOOLEAN,
          mixed : BOOLEAN, failed : BOOLEAN]
Log == [vis : BOOLEAN, file : File \cup {None}, list : SUBSET Link, sel : Link \cup {None},
        logs : Link \cup {None}, loading : BOOLEAN, mixed : BOOLEAN, failed : BOOLEAN]
View == [vis : BOOLEAN, file : File \cup {None}, url : File \cup {None}, text : File \cup {None},
         loading : BOOLEAN, mixed : BOOLEAN, late : BOOLEAN]

\* Of a request: the item it is about, and what else its answer needs.
Calls == [to : {"create"}, file : File, perm : Permission]
    \cup [to : {"list"}, file : File, creating : BOOLEAN]
    \cup [to : {"revoke", "logs"}, link : Link]
    \cup [to : {"logList", "ticket", "text"}, file : File]

TypeOK ==
    /\ links \in [Link -> LinkState]
    /\ share \in Share /\ log \in Log /\ view \in View
    /\ calls \subseteq Calls /\ clicks \in 0..MaxClicks

Init ==
    /\ links \in [Link -> {Unused} \cup [file : File, perm : {"view"}, live : {TRUE}]]
    /\ share = [vis |-> FALSE, file |-> None, perm |-> "view", usePassword |-> FALSE, password |-> FALSE,
                list |-> {}, token |-> None, creating |-> FALSE, mixed |-> FALSE, failed |-> FALSE]
    /\ log = [vis |-> FALSE, file |-> None, list |-> {}, sel |-> None, logs |-> None,
              loading |-> FALSE, mixed |-> FALSE, failed |-> FALSE]
    /\ view = [vis |-> FALSE, file |-> None, url |-> None, text |-> None,
               loading |-> FALSE, mixed |-> FALSE, late |-> FALSE]
    /\ calls = {} /\ clicks = 0

LinksOf(f) == {l \in Link : links[l].file = f /\ links[l].live}
Pending(kinds) == {c \in calls : c.to \in kinds}

Click == clicks < MaxClicks /\ clicks' = clicks + 1

\* What the user does in one window, the requests it makes, and nothing else.
InShare(new, asked) ==
    Click /\ share' = new /\ calls' = calls \cup asked /\ UNCHANGED <<links, log, view>>
InLog(new, asked) ==
    Click /\ log' = new /\ calls' = calls \cup asked /\ UNCHANGED <<links, share, view>>
InView(new, asked) ==
    Click /\ view' = new /\ calls' = calls \cup asked /\ UNCHANGED <<links, share, log>>

-----------------------------------------------------------------------------
\* ShareModal.  Opening it, for the item it showed before too, loads the links and
\* clears the new one and the password, but not the links listed so far.
OpenShare(f) ==
    /\ f # share.file \/ ~share.vis
    /\ InShare([share EXCEPT !.vis = TRUE, !.file = f, !.token = None, !.password = FALSE,
                             !.usePassword = FALSE, !.failed = FALSE,
                             !.mixed = Pending({"create", "list"}) # {}],
               {[to |-> "list", file |-> f, creating |-> FALSE]})

CloseShare == share.vis /\ InShare([share EXCEPT !.vis = FALSE], {})

SetPermission(p) ==
    /\ share.vis /\ p # share.perm
    /\ InShare([share EXCEPT !.perm = p, !.token = None, !.password = FALSE, !.usePassword = FALSE,
                             !.mixed = @ \/ Pending({"create"}) # {}], {})

SetPassword(use, typed) ==
    share.vis /\ InShare([share EXCEPT !.usePassword = use, !.password = use /\ typed], {})

HandleCreate ==
    /\ share.vis /\ ~share.creating /\ (share.usePassword => share.password)
    /\ InShare([share EXCEPT !.creating = TRUE],
               {[to |-> "create", file |-> share.file, perm |-> share.perm]})

HandleRevoke(l) ==
    share.vis /\ l \in share.list /\ InShare(share, {[to |-> "revoke", link |-> l]})

-----------------------------------------------------------------------------
\* ShareAccessLogModal.
OpenLog(f) ==
    /\ f # log.file \/ ~log.vis
    /\ InLog([log EXCEPT !.vis = TRUE, !.file = f, !.loading = TRUE,
                         !.mixed = @ \/ Pending({"logList", "logs"}) # {}],
             {[to |-> "logList", file |-> f]})

CloseLog == log.vis /\ InLog([log EXCEPT !.vis = FALSE], {})

\* A tab is drawn per link if there are two at least.
SelectTab(l) ==
    /\ log.vis /\ Cardinality(log.list) > 1 /\ l \in log.list \ {log.sel}
    /\ InLog([log EXCEPT !.sel = l, !.loading = TRUE, !.mixed = @ \/ Pending({"logList", "logs"}) # {}],
             {[to |-> "logs", link |-> l]})

-----------------------------------------------------------------------------
\* PreviewModal: a ticket first, then the text or the entries of the archive.  What
\* is shown of the last item is dropped when the window closes, not when another
\* item is opened in it.
OpenView(f) ==
    /\ f # view.file \/ ~view.vis
    /\ InView([view EXCEPT !.vis = TRUE, !.file = f, !.loading = TRUE, !.mixed = view.vis \/ view.late],
              {[to |-> "ticket", file |-> f]})

\* Mutant: closing the window leaves what it showed.
CloseViewKeeping ==
    /\ view.vis
    /\ InView([view EXCEPT !.vis = FALSE, !.late = Pending({"ticket", "text"}) # {}], {})

CloseView ==
    /\ view.vis
    /\ InView([view EXCEPT !.vis = FALSE, !.text = None, !.url = None,
                           !.late = Pending({"ticket", "text"}) # {}], {})

-----------------------------------------------------------------------------
\* The answers.  A link may have been made though the request failed.
Created(c, ok) ==
    /\ \/ \E l \in Link :
            /\ links[l] = Unused
            /\ links' = [links EXCEPT ![l] = [file |-> c.file, perm |-> c.perm, live |-> TRUE]]
            /\ share' = IF ok THEN [share EXCEPT !.token = l] ELSE [share EXCEPT !.creating = FALSE]
       \/ ~ok /\ links' = links /\ share' = [share EXCEPT !.creating = FALSE]
    /\ calls' = (calls \ {c}) \cup (IF ok THEN {[to |-> "list", file |-> c.file, creating |-> TRUE]} ELSE {})
    /\ UNCHANGED <<log, view, clicks>>

\* handleCreate waits for the list, too, before the button works again.
Listed(c, ok) ==
    /\ share' = [share EXCEPT !.list = IF ok THEN LinksOf(c.file) ELSE @,
                              !.failed = @ \/ ~ok,
                              !.creating = @ /\ ~c.creating]
    /\ calls' = calls \ {c} /\ UNCHANGED <<links, log, view, clicks>>

Revoked(c, ok) ==
    /\ links' = IF ok THEN [links EXCEPT ![c.link].live = FALSE] ELSE links
    /\ share' = IF ok THEN [share EXCEPT !.list = @ \ {c.link}] ELSE share
    /\ calls' = calls \ {c} /\ UNCHANGED <<log, view, clicks>>

\* The first link is selected; its log is loaded if it was not selected before.
LogListed(c, ok) ==
    /\ IF ok /\ LinksOf(c.file) # {}
       THEN \E first \in LinksOf(c.file) :
                /\ log' = [log EXCEPT !.list = LinksOf(c.file), !.sel = first, !.loading = first # log.sel,
                                      !.mixed = @ \/ Pending({"logList", "logs"}) # {c}]
                /\ calls' = (calls \ {c}) \cup
                              {q \in {[to |-> "logs", link |-> first]} : first # log.sel}
       ELSE /\ log' = [log EXCEPT !.list = IF ok THEN {} ELSE @, !.loading = FALSE, !.failed = @ \/ ~ok]
            /\ calls' = calls \ {c}
    /\ UNCHANGED <<links, share, view, clicks>>

Logged(c, ok) ==
    /\ log' = [log EXCEPT !.logs = IF ok THEN c.link ELSE @, !.loading = FALSE, !.failed = @ \/ ~ok]
    /\ calls' = calls \ {c} /\ UNCHANGED <<links, share, view, clicks>>

Ticketed(c, ok) ==
    /\ view' = IF ok THEN [view EXCEPT !.url = c.file] ELSE [view EXCEPT !.loading = FALSE]
    /\ calls' = (calls \ {c}) \cup (IF ok THEN {[to |-> "text", file |-> c.file]} ELSE {})
    /\ UNCHANGED <<links, share, log, clicks>>

Texted(c, ok) ==
    /\ view' = [view EXCEPT !.text = IF ok THEN c.file ELSE @, !.loading = FALSE]
    /\ calls' = calls \ {c} /\ UNCHANGED <<links, share, log, clicks>>

Answer(c, ok) ==
    \/ c.to = "create" /\ Created(c, ok)
    \/ c.to = "list" /\ Listed(c, ok)
    \/ c.to = "revoke" /\ Revoked(c, ok)
    \/ c.to = "logList" /\ LogListed(c, ok)
    \/ c.to = "logs" /\ Logged(c, ok)
    \/ c.to = "ticket" /\ Ticketed(c, ok)
    \/ c.to = "text" /\ Texted(c, ok)

Next ==
    \/ \E f \in File : OpenShare(f) \/ OpenLog(f) \/ OpenView(f)
    \/ CloseShare \/ CloseLog \/ CloseView \/ HandleCreate
    \/ \E p \in Permission : SetPermission(p)
    \/ \E use, typed \in BOOLEAN : SetPassword(use, typed)
    \/ \E l \in Link : HandleRevoke(l) \/ SelectTab(l)
    \/ \E c \in calls, ok \in BOOLEAN : Answer(c, ok)

Spec == Init /\ [][Next]_vars

-----------------------------------------------------------------------------
\* What the windows draw: the link that can be copied, the log that was loaded last,
\* for an item without links too, and what the preview is made of.
TokenShown == IF share.vis THEN {share.token} \ {None} ELSE {}
LogShown == IF log.vis /\ ~log.loading THEN {log.logs} \ {None} ELSE {}
Previewed == IF view.vis /\ ~view.loading THEN {view.text, view.url} \ {None} ELSE {}

\* A link shown as the new one is a link to the item of the window with the
\* permission that is switched on, unless item or permission were changed while a
\* link was being made.
TokenFits ==
    (\A l \in TokenShown : links[l].file = share.file /\ links[l].perm = share.perm) \/ share.mixed

\* The links under a title, the ones its buttons revoke, are links to that item, as
\* soon as the answer is in, unless it failed or the window was opened over requests
\* for another item.
ListFits ==
    share.vis /\ Pending({"list"}) = {} =>
        (\A l \in share.list : links[l].file = share.file) \/ share.failed \/ share.mixed

\* The log shown is the one of the tab, and the tab a link of the item, unless the
\* item has none, or a request failed or was asked for over another.
LogFits ==
    (\A l \in LogShown : l = log.sel /\ links[l].file = log.file)
        \/ log.failed \/ log.mixed \/ log.list = {}

\* A preview that loads nothing shows the item of its title or nothing, unless
\* it was opened over another or closed while one was loading.
PreviewFits == Previewed \subseteq {view.file} \/ view.mixed

ShownFits == ListFits /\ LogFits /\ PreviewFits
=============================================================================
