------------------------------- MODULE Shares -------------------------------
(***************************************************************************)
(* Share links, their access log and download tickets: who may still be    *)
(* given a file while its owner revokes, deletes, moves and overwrites,    *)
(* the cleanup runs and scanners claim and judge the contents, late claims *)
(* and all.                                                                *)
(*                                                                         *)
(* A request reads the database several times, and every SELECT, INSERT or *)
(* DELETE is a step of its own here (shares.rs, share_service.rs,          *)
(* download.rs).  The two deletions differ: the owner's runs in a          *)
(* transaction, the sweep's statements are committed one by one.           *)
(*                                                                         *)
(* One owner, and every link with a password (only then is its check       *)
(* logged).  Formats, headers and the presigned URL are left out: a        *)
(* request is served when its URL is made.                                 *)
(***************************************************************************)
EXTENDS Integers, Functions

CONSTANTS
    Folders,        \* shared folders
    Files,          \* files, which have contents
    Contents,       \* storage_files rows
    Links,          \* share tokens, none used twice
    Tickets,        \* download tickets, none used twice
    Scanners,       \* the workers' scans and those that uploads start
    Visits,         \* a visitor's or the owner's attempts to get at a file
    Commands,       \* the owner's tabs, each changing one thing at a time
    Root,           \* the place above everything
    None,           \* no link, ticket, file or content
    InitialPlace,   \* [Files -> Folders \cup {Root}]
    InitialContent, \* [Files -> Contents]
    InitialPending, \* the contents whose first scan is still to come
    FileExpiry,     \* [Files -> Int]: the first expires_at, past MaxTime for never
    FileLives,      \* the lives an upload may give a file, in whole ticks
    LinkLives,      \* expires_in_hours a link may be given, in whole ticks
    TicketLife,     \* the 12 hours of a ticket, in whole ticks
    MaxTime,        \* bound: the clock stops here
    MaxWrites,      \* bound: commands, revocations, moves, cleanups and scans
    MaxRestarts     \* bound: how often the server may restart

Items == Folders \cup Files
Requests == Visits \cup Commands

ASSUME SharesAssumption ==
    /\ Folders \cap Files = {} /\ Root \notin Items /\ Visits \cap Commands = {}
    /\ Items \cap Contents = {} /\ Links \cap Tickets = {}
    /\ (Links \cup Tickets) \cap (Items \cup Contents) = {}
    /\ None \notin Items \cup Contents \cup Links \cup Tickets
    /\ InitialPlace \in [Files -> Folders \cup {Root}]
    /\ InitialContent \in [Files -> Contents]
    /\ InitialPending \subseteq Contents
    /\ FileExpiry \in [Files -> Int] /\ FileLives \subseteq Nat
    /\ LinkLives \subseteq Nat /\ TicketLife \in Nat /\ MaxTime \in Nat
    /\ MaxWrites \in Nat /\ MaxRestarts \in Nat

VARIABLES
    now,        \* the clock
    status,     \* user_files: "live", "deleted" (deleted_at set), "purged" (no row)
    place,      \* parent_id of every file
    content,    \* storage_file_id of every file
    expires,    \* expires_at of every file
    stored,     \* the contents that have a storage_files row
    pending,    \* those whose scan_status is "pending"
    infected,   \* those whose scan_status is "infected"
    scan,       \* the scanners: the content each has in hand, and whether it has claimed it
    link,       \* share_links: token -> shared item and expires_at
    issued,     \* the tokens and tickets that have ever been given out
    log,        \* share_access_logs: token -> the requests it records
    ticket,     \* the server's map of tickets: file and expiry
    batch,      \* expired files and infected contents that a cleanup has listed
    swept,      \* files it has marked, but for their links; contents whose files it has deleted
    rq,         \* the requests
    writes,     \* how many of them there have been
    restarts,   \* how often the server has restarted
    gone,       \* history: what has been gone since a request began
    whole,      \* history: what a request asks for has been on offer all along
    stray       \* history: links born or left behind while their file went away

vars == <<now, status, place, content, expires, stored, pending, infected, scan, link, issued,
          log, ticket, batch, swept, rq, writes, restarts, gone, whole, stray>>

files == <<status, place, content, expires>>
contents == <<stored, pending, infected, scan>>
shares == <<link, issued, log, stray>>
cleanup == <<batch, swept>>
world == <<now, files, contents, shares, ticket, cleanup, restarts>>

ViaLink == {"info", "verify", "list", "download"}
Fetches == {"download", "ticket", "owner"}
Ops == ViaLink \cup Fetches \cup {"mint", "create", "delete", "merge", "upload"}

Steps == {"idle", "link", "child", "item", "storage", "folder", "children", "log", "ticket",
          "issue", "tell", "insert", "commit", "overwrite", "remove", "replace", "release", "done"}

\* op: the handler; at: its next statement; via: its link or ticket; item: the
\* item it asks for; keeps: what it has read or will write; until: the expiry of
\* the link or file it writes; shown: what it gives.
Idle == [op |-> "none", at |-> "idle", via |-> None, item |-> None,
         keeps |-> {}, until |-> 0, shown |-> {}, reply |-> "none"]

\* A scanner with nothing in hand.
Free == [of |-> None, claimed |-> FALSE]

\* A table with a row inserted; the rows are a function of their key.
Inserted(table, key, row) == [k \in DOMAIN table \cup {key} |-> IF k = key THEN row ELSE table[k]]

Init ==
    /\ now = 0
    /\ status = [i \in Items |-> "live"]
    /\ place = InitialPlace
    /\ content = InitialContent
    /\ expires = FileExpiry
    /\ stored = {content[f] : f \in Files}
    /\ pending = InitialPending /\ infected = {}
    /\ scan = [s \in Scanners |-> Free]
    /\ link = <<>> /\ issued = {} /\ log = <<>> /\ ticket = <<>>
    /\ batch = {} /\ swept = {}
    /\ rq = [r \in Requests |-> Idle]
    /\ writes = 0 /\ restarts = 0
    /\ gone = [r \in Visits |-> {}]
    /\ whole = [r \in Visits |-> TRUE]
    /\ stray = {}
-----------------------------------------------------------------------------
Live(i) == status[i] = "live"
Expired(f) == now > expires[f]
Usable(l) == l \in DOMAIN link /\ now <= link[l].expires
Valid(t) == t \in DOMAIN ticket /\ now <= ticket[t].expires
Within(f, i) == f = i \/ (f \in Files /\ i \in Folders /\ place[f] = i)
Readable(f) == content[f] \in stored \ infected

\* What a request must not be given, as things are at this instant.
GoneFor(op, via) ==
    {i \in Items : ~ Live(i)} \cup infected
    \cup {x \in {via} \ {None} : ~ (Usable(x) \/ Valid(x))}
    \cup (IF op \in {"ticket", "owner"} THEN {f \in Files : Expired(f)} ELSE {})

\* The file a request is after: for a ticket the one it was made for.
Wanted(q) == IF q.op = "ticket" THEN ticket[q.via].file ELSE q.item

\* What r asks for is there to be had, all of it at this one instant.
OnOffer(r) ==
    LET q == rq[r] IN
    /\ q.op \in ViaLink => Usable(q.via)
    /\ q.op = "ticket" => Valid(q.via)
    /\ q.op = "info" => Live(link[q.via].item)
    /\ q.op = "list" => link[q.via].item \in Folders
    /\ q.op \in Fetches => Wanted(q) \in Files /\ Live(Wanted(q)) /\ Readable(Wanted(q))
    /\ q.op = "download" => Within(q.item, link[q.via].item)
    /\ q.op \in {"ticket", "owner"} => ~ Expired(Wanted(q))

\* The histories of a visit, kept by every step from its first to its last.
Asks(r) == rq[r].at = "idle" /\ rq'[r].at \notin {"idle", "done"}
Ends(r) == rq[r].at \notin {"idle", "done"} /\ rq'[r].at = "done"
UnderWay(r) == rq'[r].at \notin {"idle", "done"}

Things == Items \cup Contents \cup Links \cup Tickets

Track ==
    /\ whole' = [r \in Visits |->
          UnderWay(r) => /\ Asks(r) \/ whole[r]
                         /\ OnOffer(r)'
                         /\ ~ Asks(r) /\ rq[r].op \in Fetches =>
                                content'[Wanted(rq[r])] = content[Wanted(rq[r])]]
    /\ gone' = [r \in Visits |->
          IF ~ UnderWay(r) THEN {}
          ELSE (IF Asks(r) THEN Things ELSE gone[r]) \cap GoneFor(rq[r].op, rq[r].via)']

\* Every step is one of those that MaxWrites bounds, or what follows from them.
Counted == writes < MaxWrites /\ writes' = writes + 1 /\ Track
Follows == UNCHANGED writes /\ Track
-----------------------------------------------------------------------------
\* How a request goes on: to its next statement, or to its answer.
Begin(r, op, first, via, item) ==
    /\ rq[r].at = "idle"
    /\ rq' = [rq EXCEPT ![r] = [Idle EXCEPT !.op = op, !.at = first, !.via = via, !.item = item]]
At(r, at) == rq[r].at = at
GoOn(r, next) == rq' = [rq EXCEPT ![r].at = next]
Show(r, next, what) == rq' = [rq EXCEPT ![r].at = next, ![r].shown = what]
Hold(r, next, what) == rq' = [rq EXCEPT ![r].at = next, ![r].keeps = what]
Finish(r) == rq' = [rq EXCEPT ![r] = Idle]
Answer(r, reply) == rq' = [rq EXCEPT ![r] = [Idle EXCEPT !.at = "done", !.via = rq[r].via,
                                                        !.reply = reply]]
Refuse(r) == IF r \in Commands THEN Finish(r) ELSE Answer(r, "refused")

\* ---- Public requests ----

\* A visitor asks with a token that was once given out: page, password, list
\* or download, of the shared item or of a file named in the query.
AskByLink(r) ==
    /\ \E l \in Links, op \in ViaLink, i \in Items \cup {None} :
          /\ l \in issued
          /\ (op = "download") = (i # None)
          /\ Begin(r, op, "link", l, i)
    /\ UNCHANGED world
    /\ Follows

\* Mutant: the shared item itself is looked for below itself.
NextAfterLinkAlwaysChild(q) ==
    CASE q.op = "verify" -> "log" [] q.op = "list" -> "folder"
      [] q.op = "download" -> "child" [] OTHER -> "item"

\* get_share_by_token: the row, then its expiry.
NextAfterLink(q) ==
    CASE q.op = "verify" -> "log"
      [] q.op = "list" -> "folder"
      [] q.op = "download" /\ q.item # link[q.via].item -> "child"
      [] OTHER -> "item"

ReadLink(r) ==
    /\ At(r, "link")
    /\ IF Usable(rq[r].via)
         THEN rq' = [rq EXCEPT ![r].at = NextAfterLink(rq[r]), ![r].keeps = {link[rq[r].via].item},
                               ![r].item = IF rq[r].op = "download" THEN @ ELSE link[rq[r].via].item]
         ELSE Refuse(r)
    /\ UNCHANGED world
    /\ Follows

\* download_shared_file with file_id: the child must hang directly below.
ReadChild(r) ==
    /\ At(r, "child")
    /\ IF /\ status[rq[r].item] # "purged"
          /\ rq[r].item \in Files /\ place[rq[r].item] \in rq[r].keeps
         THEN GoOn(r, "item")
         ELSE Refuse(r)
    /\ UNCHANGED world
    /\ Follows

\* The user_files row, not deleted: for the share page, for a download (not of
\* a folder), for a ticket and for the owner, who also mind the file's expiry.
AfterItem(r) ==
    CASE rq[r].op = "info" -> Show(r, "log", {rq[r].item})
      [] rq[r].op = "create" -> GoOn(r, "insert")
      [] rq[r].op = "mint" -> Hold(r, "issue", {content[rq[r].item]})
      [] OTHER -> Hold(r, "storage", {content[rq[r].item]})

\* Mutant: deleted files are not left out.
ReadItemDeletedToo(r) ==
    /\ At(r, "item")
    /\ IF /\ status[rq[r].item] # "purged"
          /\ rq[r].op \in Fetches => rq[r].item \in Files
          /\ rq[r].op \in {"ticket", "owner"} => ~ Expired(rq[r].item)
         THEN AfterItem(r)
         ELSE Refuse(r)
    /\ UNCHANGED world
    /\ Follows

ReadItem(r) ==
    /\ At(r, "item")
    /\ IF /\ Live(rq[r].item)
          /\ rq[r].op \in Fetches => rq[r].item \in Files
          /\ rq[r].op \in {"ticket", "owner"} => ~ Expired(rq[r].item)
         THEN AfterItem(r)
         ELSE Refuse(r)
    /\ UNCHANGED world
    /\ Follows

\* Mutant: infected contents are given out.
ReadStorageUnscanned(r) ==
    /\ At(r, "storage")
    /\ IF rq[r].keeps \subseteq stored
         THEN IF rq[r].op = "download" THEN Show(r, "log", {rq[r].item}) ELSE Answer(r, "served")
         ELSE Refuse(r)
    /\ UNCHANGED world
    /\ Follows

\* Mutant: contents are refused until they have been scanned.
ReadStorageOnceScanned(r) ==
    /\ At(r, "storage")
    /\ IF rq[r].keeps \subseteq stored \ (infected \cup pending)
         THEN IF rq[r].op = "download" THEN Show(r, "log", {rq[r].item}) ELSE Answer(r, "served")
         ELSE Refuse(r)
    /\ UNCHANGED world
    /\ Follows

\* The storage_files row and its scan_status.
ReadStorage(r) ==
    /\ At(r, "storage")
    /\ IF rq[r].keeps \subseteq stored \ infected
         THEN IF rq[r].op = "download" THEN Show(r, "log", {rq[r].item}) ELSE Answer(r, "served")
         ELSE Refuse(r)
    /\ UNCHANGED world
    /\ Follows

\* list_shared_folder: the folder's row, deleted or not, then its children.
ReadFolder(r) ==
    /\ At(r, "folder")
    /\ IF status[rq[r].item] # "purged" /\ rq[r].item \in Folders
         THEN GoOn(r, "children")
         ELSE Refuse(r)
    /\ UNCHANGED world
    /\ Follows

\* Mutant: the list is answered without a line in the log.
ReadChildrenUnlogged(r) ==
    At(r, "children") /\ Answer(r, "served") /\ UNCHANGED world /\ Follows

ReadChildren(r) ==
    /\ At(r, "children")
    /\ Show(r, "log", {f \in Files : place[f] = rq[r].item /\ Live(f)})
    /\ UNCHANGED world
    /\ Follows

\* log_access: the INSERT fails when the link is gone, or for reasons of its
\* own; either way the visitor is answered.
LogAccess(r) ==
    /\ At(r, "log")
    /\ \/ /\ rq[r].via \in DOMAIN link
          /\ log' = [log EXCEPT ![rq[r].via] = @ \cup {r}]
          /\ Answer(r, "served")
       \/ log' = log /\ Answer(r, "unlogged")
    /\ UNCHANGED <<now, files, contents, link, issued, stray, ticket, cleanup, restarts>>
    /\ Follows

\* ---- Tickets and the owner's own download ----

\* download_file begins with the file's row.
AskByOwner(r) ==
    /\ \E f \in Files : Begin(r, "owner", "item", None, f)
    /\ UNCHANGED world
    /\ Follows

\* download_file_with_ticket: as often as one likes until the ticket expires.
AskByTicket(r) ==
    /\ \E t \in issued \cap Tickets : Begin(r, "ticket", "ticket", t, None)
    /\ UNCHANGED world
    /\ Follows

ReadTicket(r) ==
    /\ At(r, "ticket")
    /\ IF Valid(rq[r].via)
         THEN rq' = [rq EXCEPT ![r].at = "item", ![r].item = ticket[rq[r].via].file]
         ELSE Refuse(r)
    /\ UNCHANGED world
    /\ Follows

\* generate_download_ticket: the ticket is in the map before its file's content
\* has been looked at, and nothing takes it out, told or not.
AskMint(r) ==
    /\ \E f \in Files : Begin(r, "mint", "item", None, f)
    /\ UNCHANGED world
    /\ Counted

IssueTicket(r) ==
    /\ At(r, "issue")
    /\ \E t \in Tickets \ (issued \cup DOMAIN ticket) :
          /\ ticket' = Inserted(ticket, t, [file |-> rq[r].item, expires |-> now + TicketLife])
          /\ rq' = [rq EXCEPT ![r].at = "tell", ![r].via = t]
    /\ UNCHANGED <<now, files, contents, shares, cleanup, restarts>>
    /\ Follows

TellTicket(r) ==
    /\ At(r, "tell")
    /\ issued' = IF rq[r].keeps \subseteq stored \ infected THEN issued \cup {rq[r].via} ELSE issued
    /\ Finish(r)
    /\ UNCHANGED <<now, files, contents, link, log, stray, ticket, cleanup, restarts>>
    /\ Follows

\* ---- The owner's links and files ----

\* create_share: the expiry is settled first, the file is seen to be live, and
\* then the link goes in, whatever has become of the file by now but for its row.
AskCreate(r) ==
    /\ \E i \in Items, l \in Links \ (issued \cup {rq[x].via : x \in Commands}), h \in LinkLives :
          rq[r].at = "idle" /\ rq' = [rq EXCEPT ![r] =
              [Idle EXCEPT !.op = "create", !.at = "item", !.via = l, !.item = i, !.until = now + h]]
    /\ UNCHANGED world
    /\ Counted

GoingAway(i) == \/ ~ Live(i)
                \/ \E r \in Requests : At(r, "commit") /\ i \in rq[r].keeps

InsertLink(r) ==
    /\ At(r, "insert")
    /\ IF status[rq[r].item] = "purged"
         THEN Finish(r) /\ UNCHANGED shares
         ELSE /\ link' = Inserted(link, rq[r].via, [item |-> rq[r].item, expires |-> rq[r].until])
              /\ issued' = issued \cup {rq[r].via}
              /\ log' = Inserted(log, rq[r].via, {})
              /\ stray' = IF GoingAway(rq[r].item) THEN stray \cup {rq[r].via} ELSE stray
              /\ Finish(r)
    /\ UNCHANGED <<now, files, contents, ticket, cleanup, restarts>>
    /\ Follows

LinksTo(S) == {l \in DOMAIN link : link[l].item \in S}

\* A link's row takes its log with it (ON DELETE CASCADE).
DropLinks(L) ==
    /\ link' = Restrict(link, DOMAIN link \ L)
    /\ log' = Restrict(log, DOMAIN log \ L)

\* revoke_share.
Revoke(l) ==
    /\ l \in DOMAIN link
    /\ DropLinks({l})
    /\ UNCHANGED <<now, files, contents, issued, stray, ticket, cleanup, rq, restarts>>
    /\ Counted

\* The storage rows left once nothing live points at a content any more, and no
\* upload is about to (the counts that decide it, and how they go wrong, are in
\* StorageTasks).
StillUsed(st, ct) ==
    {c \in stored : \/ \E f \in Files : st[f] = "live" /\ ct[f] = c
                    \/ \E r \in Commands : At(r, "replace") /\ c \in rq[r].keeps}

\* Mutant: only the links of the item named in the request are deleted.
DeleteItemsOwnLinks(r) ==
    /\ \E i \in Items :
          LET below == {f \in Items : Live(f) /\ Within(f, i)} IN
          /\ Live(i) /\ rq[r].at = "idle"
          /\ rq' = [rq EXCEPT ![r] = [Idle EXCEPT !.op = "delete", !.at = "commit", !.item = i,
                                                  !.keeps = below \cup LinksTo({i})]]
    /\ UNCHANGED world
    /\ Counted

\* delete_item: inside the transaction the items below and the links there are
\* now; nothing shows until the commit, which fails if a row has been purged.
DeleteItems(r) ==
    /\ \E i \in Items :
          LET below == {f \in Items : Live(f) /\ Within(f, i)} IN
          /\ Live(i) /\ rq[r].at = "idle"
          /\ rq' = [rq EXCEPT ![r] = [Idle EXCEPT !.op = "delete", !.at = "commit", !.item = i,
                                                  !.keeps = below \cup LinksTo(below)]]
    /\ UNCHANGED world
    /\ Counted

CommitDelete(r) ==
    /\ At(r, "commit")
    /\ IF \E i \in rq[r].keeps \cap Items : status[i] = "purged"
         THEN Finish(r) /\ UNCHANGED <<status, stored, link, log>>
         ELSE /\ status' = [i \in Items |-> IF i \in rq[r].keeps THEN "deleted" ELSE status[i]]
              /\ stored' = StillUsed(status', content)
              /\ DropLinks(rq[r].keeps)
              /\ Finish(r)
    /\ UNCHANGED <<now, place, content, expires, pending, infected, scan, issued, stray, ticket,
                   cleanup, restarts>>
    /\ Follows

\* rename_item onto a name that is taken: the file there is given this one's
\* content, then this one is marked deleted, and its links are left where they are.
Merge(r) ==
    /\ \E f, g \in Files :
          /\ f # g /\ Live(f) /\ Live(g) /\ rq[r].at = "idle"
          /\ rq' = [rq EXCEPT ![r] = [Idle EXCEPT !.op = "merge", !.at = "overwrite", !.item = f,
                                                  !.keeps = {g, content[f]}]]
    /\ UNCHANGED world
    /\ Counted

Overwrite(r) ==
    /\ At(r, "overwrite")
    /\ \E g \in rq[r].keeps \cap Files, c \in rq[r].keeps \cap Contents :
          IF status[g] = "purged" \/ c \notin stored
            THEN Finish(r) /\ UNCHANGED content
            ELSE content' = [content EXCEPT ![g] = c] /\ GoOn(r, "remove")
    /\ UNCHANGED <<now, status, place, expires, contents, shares, ticket, cleanup, restarts>>
    /\ Follows

RemoveMerged(r) ==
    /\ At(r, "remove")
    /\ IF status[rq[r].item] = "purged"
         THEN Finish(r) /\ UNCHANGED <<status, stored, stray>>
         ELSE /\ status' = [status EXCEPT ![rq[r].item] = "deleted"]
              /\ stored' = StillUsed(status', content)
              /\ stray' = stray \cup LinksTo({rq[r].item})
              /\ Finish(r)
    /\ UNCHANGED <<now, place, content, expires, pending, infected, scan, link, issued, log, ticket,
                   cleanup, restarts>>
    /\ Follows

\* rename_item to another folder.
Move(f, p) ==
    /\ Live(f) /\ place[f] # p
    /\ place' = [place EXCEPT ![f] = p]
    /\ UNCHANGED <<now, status, content, expires, contents, shares, ticket, cleanup, rq, restarts>>
    /\ Counted

\* A storage_files id in nobody's hand: ids are not used twice.
Fresh(c) ==
    /\ c \notin stored \cup batch \cup swept
    /\ \A f \in Files : content[f] # c
    /\ \A r \in Requests : c \notin rq[r].keeps
    /\ \A s \in Scanners : scan[s].of # c

\* An upload, or a linked content, that meets a live file of its name: the content
\* is there or gets a row, to be scanned; the expiry is settled and the file found.
Upload(r) ==
    /\ \E f \in Files, c \in Contents, h \in FileLives :
          /\ Live(f) /\ rq[r].at = "idle"
          /\ c \in stored \/ Fresh(c)
          /\ rq' = [rq EXCEPT ![r] = [Idle EXCEPT !.op = "upload", !.at = "replace", !.item = f,
                                                  !.keeps = {c}, !.until = now + h]]
          /\ stored' = stored \cup {c}
          /\ pending' = IF c \in stored THEN pending ELSE pending \cup {c}
          /\ infected' = IF c \in stored THEN infected ELSE infected \ {c}
    /\ UNCHANGED <<now, files, scan, shares, ticket, cleanup, restarts>>
    /\ Counted

\* The file, deleted by now or not, is given the content and the expiry.
Replace(r) ==
    /\ At(r, "replace")
    /\ IF status[rq[r].item] = "purged" \/ ~ rq[r].keeps \subseteq stored
         THEN Finish(r) /\ UNCHANGED <<content, expires>>
         ELSE /\ \E c \in rq[r].keeps : content' = [content EXCEPT ![rq[r].item] = c]
              /\ expires' = [expires EXCEPT ![rq[r].item] = rq[r].until]
              /\ GoOn(r, "release")
    /\ UNCHANGED <<now, status, place, contents, shares, ticket, cleanup, restarts>>
    /\ Follows

ReleaseReplaced(r) ==
    /\ At(r, "release")
    /\ stored' = StillUsed(status, content)
    /\ Finish(r)
    /\ UNCHANGED <<now, files, pending, infected, scan, shares, ticket, cleanup, restarts>>
    /\ Follows

\* ---- The background worker, the scanners and the clock ----

\* perform_cleanup lists expired files first, then infected contents that were
\* judged a while ago, and then deals with them one by one, as they were listed.
ListDue ==
    /\ \/ batch' = batch \cup {f \in Files : Live(f) /\ Expired(f)}
       \/ \E C \in SUBSET (stored \cap infected) : batch' = batch \cup C
    /\ batch' # batch
    /\ UNCHANGED <<now, files, contents, shares, ticket, swept, rq, restarts>>
    /\ Counted

\* A listed file is marked, whatever its expiry is by now, then its links go.
SweepMark(f) ==
    /\ f \in batch
    /\ batch' = batch \ {f}
    /\ IF status[f] = "purged" THEN UNCHANGED <<status, swept>>
       ELSE status' = [status EXCEPT ![f] = "deleted"] /\ swept' = swept \cup {f}
    /\ UNCHANGED <<now, place, content, expires, contents, shares, ticket, rq, restarts>>
    /\ Follows

SweepLinks(f) ==
    /\ f \in swept
    /\ DropLinks(LinksTo({f}))
    /\ stored' = StillUsed(status, content)
    /\ swept' = swept \ {f}
    /\ UNCHANGED <<now, files, pending, infected, scan, issued, stray, ticket, batch, rq, restarts>>
    /\ Follows

\* delete_storage_file: every row of the content, links and all; then its own.
Holders(c) == {f \in Files : content[f] = c /\ status[f] # "purged"}

PurgeFiles(c) ==
    /\ c \in batch
    /\ status' = [i \in Items |-> IF i \in Holders(c) THEN "purged" ELSE status[i]]
    /\ DropLinks(LinksTo(Holders(c)))
    /\ batch' = batch \ {c}
    /\ swept' = (swept \ Holders(c)) \cup {c}
    /\ UNCHANGED <<now, place, content, expires, contents, issued, stray, ticket, rq, restarts>>
    /\ Follows

PurgeRow(c) ==
    /\ c \in swept
    /\ stored' = stored \ {c}
    /\ swept' = swept \ {c}
    /\ UNCHANGED <<now, files, pending, infected, scan, shares, ticket, batch, rq, restarts>>
    /\ Follows

\* A worker finds a pending row, or an upload one that it has inserted.
SelectForScan(s, c) ==
    /\ scan[s] = Free /\ c \in stored \cap pending
    /\ scan' = [scan EXCEPT ![s].of = c]
    /\ UNCHANGED <<now, files, stored, pending, infected, shares, ticket, cleanup, rq, restarts>>
    /\ Counted

\* It sets the row to "scanning", which may undo what another has found meanwhile.
Claim(s) ==
    /\ scan[s] # Free /\ ~ scan[s].claimed
    /\ scan' = [scan EXCEPT ![s].claimed = TRUE]
    /\ pending' = pending \ {scan[s].of}
    /\ infected' = infected \ {scan[s].of}
    /\ UNCHANGED <<now, files, stored, shares, ticket, cleanup, rq, restarts>>
    /\ Follows

\* A scan ends: a threat, none (or an error that only the owner sees), the row is
\* left to be scanned again, or as it is.
Conclude(s) ==
    /\ scan[s].claimed
    /\ scan' = [scan EXCEPT ![s] = Free]
    /\ LET c == scan[s].of IN
          \/ infected' = infected \cup {c} /\ pending' = pending \ {c}
          \/ infected' = infected \ {c} /\ pending' = pending \ {c}
          \/ infected' = infected \ {c} /\ pending' = pending \cup {c}
          \/ UNCHANGED <<infected, pending>>
    /\ UNCHANGED <<now, files, stored, shares, ticket, cleanup, rq, restarts>>
    /\ Follows

\* The process dies and comes back: the tickets were its own, and what was in
\* progress is never answered; an open transaction is rolled back.
Restart ==
    /\ restarts < MaxRestarts
    /\ restarts' = restarts + 1
    /\ ticket' = <<>>
    /\ rq' = [r \in Requests |-> IF r \in Commands THEN Idle
                                 ELSE IF rq[r].at \in {"idle", "done"} THEN rq[r]
                                 ELSE [Idle EXCEPT !.at = "done"]]
    /\ batch' = {} /\ swept' = {}
    /\ scan' = [s \in Scanners |-> Free]
    /\ stray' = stray \cup LinksTo(swept)
    /\ UNCHANGED <<now, files, stored, pending, infected, link, issued, log>>
    /\ Follows

Tick ==
    /\ now < MaxTime
    /\ now' = now + 1
    /\ UNCHANGED <<files, contents, shares, ticket, cleanup, rq, restarts>>
    /\ Follows
-----------------------------------------------------------------------------
Visit(r) == \/ AskByLink(r) \/ ReadLink(r) \/ ReadChild(r) \/ ReadItem(r)
            \/ ReadStorage(r) \/ ReadFolder(r) \/ ReadChildren(r) \/ LogAccess(r)
            \/ AskByOwner(r) \/ AskByTicket(r) \/ ReadTicket(r)
Command(r) == \/ AskMint(r) \/ AskCreate(r) \/ DeleteItems(r) \/ Merge(r) \/ ReadItem(r)
              \/ IssueTicket(r) \/ TellTicket(r) \/ InsertLink(r)
              \/ CommitDelete(r) \/ Overwrite(r) \/ RemoveMerged(r)
Uploading(r) == Upload(r) \/ Replace(r) \/ ReleaseReplaced(r)

Next ==
    \/ \E r \in Visits : Visit(r)
    \/ \E r \in Commands : Command(r) \/ Uploading(r)
    \/ \E l \in Links : Revoke(l)
    \/ \E f \in Files : SweepMark(f) \/ SweepLinks(f)
    \/ \E f \in Files, p \in Folders \cup {Root} : Move(f, p)
    \/ ListDue
    \/ \E c \in Contents : PurgeFiles(c) \/ PurgeRow(c)
    \/ \E s \in Scanners : (\E c \in Contents : SelectForScan(s, c)) \/ Claim(s) \/ Conclude(s)
    \/ Restart
    \/ Tick

Spec == Init /\ [][Next]_vars
-----------------------------------------------------------------------------
(* Properties. *)

Asked == [op : Ops \cup {"none"}, at : Steps, via : Links \cup Tickets \cup {None}, item : Items \cup {None},
          keeps : SUBSET (Items \cup Links \cup Contents), until : Int, shown : SUBSET Items,
          reply : {"none", "served", "unlogged", "refused"}]

\* The variables hold what their comments say, a log for every link.
TypeOK ==
    /\ now \in 0..MaxTime /\ writes \in 0..MaxWrites /\ restarts \in 0..MaxRestarts
    /\ status \in [Items -> {"live", "deleted", "purged"}]
    /\ place \in [Files -> Folders \cup {Root}]
    /\ content \in [Files -> Contents] /\ expires \in [Files -> Int]
    /\ stored \subseteq Contents /\ pending \subseteq Contents /\ infected \subseteq Contents
    /\ scan \in [Scanners -> [of : Contents \cup {None}, claimed : BOOLEAN]]
    /\ \A s \in Scanners : scan[s] # Free => scan[s].of \in Contents
    /\ batch \subseteq Files \cup Contents /\ swept \subseteq Files \cup Contents
    /\ DOMAIN link \subseteq Links /\ link \in [DOMAIN link -> [item : Items, expires : Int]]
    /\ log \in [DOMAIN link -> SUBSET Requests]
    /\ DOMAIN ticket \subseteq Tickets /\ ticket \in [DOMAIN ticket -> [file : Files, expires : Int]]
    /\ rq \in [Requests -> Asked]
    /\ stray \subseteq Links /\ issued \subseteq Links \cup Tickets
    /\ gone \in [Visits -> SUBSET Things]
    /\ whole \in [Visits -> BOOLEAN]

\* All that a visit hands over: by which link or ticket, which items, which content.
Handed(r) == {rq[r].via} \cup rq[r].shown \cup (rq[r].keeps \cap Contents)
             \cup (IF rq[r].op \in {"ticket", "owner"} THEN {rq[r].item} ELSE {})

\* What was revoked, expired, deleted or infected when a request was made, and
\* until it was answered, is not given out by it, however its reads fall between
\* other people's writes: not by that link or ticket, not that file, not that
\* content.  A file that is given a new expiry, and an infected content that a late
\* claim sets back to "scanning", may be had again (shares.rs:546, download.rs:38).
NothingGoneIsServed ==
    [][\A r \in Visits : Ends(r) /\ rq'[r].reply \in {"served", "unlogged"} =>
           gone[r] \cap Handed(r) = {}]_vars

\* A visitor or the owner is refused only when something of what was asked for
\* was missing, or being replaced, at some moment of the request.
RefusedForCause ==
    [][\A r \in Visits : Ends(r) /\ rq'[r].reply = "refused" => ~ whole[r]]_vars

\* A deleted file has no link, unless the link was inserted while the file was
\* going away, the file was merged away, or the sweep was cut short: deletion
\* finds every link of everything below.
DeletedHaveNoLinks ==
    \A l \in DOMAIN link \ stray : status[link[l].item] = "deleted" => link[l].item \in swept

\* The owner of a link that still exists finds every visit it served in its
\* log, but for those whose INSERT failed, and none that was refused.
VisitsAreLogged ==
    \A r \in Requests, l \in DOMAIN link :
        rq[r].at = "done" /\ rq[r].via = l =>
            (r \in log[l] <=> rq[r].reply = "served")

\* The log of every link has the visits it served (shares.rs:546).
LogsInOrder == TypeOK /\ VisitsAreLogged
=============================================================================
