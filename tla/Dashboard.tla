----------------------------- MODULE Dashboard -----------------------------
(***************************************************************************)
(* The data of the dashboard (useDashboardData and its users): the rows    *)
(* of the folders that were visited, loaded page by page, and the stars.   *)
(*                                                                         *)
(* fs holds the rows of all folders seen so far; hasMoreFiles is one flag  *)
(* for whichever folder answered last.  Nothing is cancelled, so an answer *)
(* may be for a folder that was left, or older than the one before.        *)
(* Requests for the same thing under way together count as one.            *)
(***************************************************************************)
EXTENDS Integers, FiniteSets

CONSTANTS
    Newest,      \* items are numbered in the order they were made
    Folder,      \* folders
    Gone,        \* deleted or not there yet; of a row: none
    Busy,        \* items being scanned, which the page polls for
    PageSize,    \* rows of a page: 50
    FavLimit,    \* length of the list of favourites: 24
    Start,       \* where the items are at first
    MaxCalls,    \* bound on the requests under way when another is made
    MaxActs      \* bound on what the user and other sessions do

Item == 1..Newest
Place == Folder \cup {Gone}

VARIABLES
    srv,    \* the server: where each item is, and which have a star
    page,   \* the state of the dashboard
    calls,  \* requests under way, with their answer once the server has made it
    acts    \* how much was done

vars == <<srv, page, calls, acts>>

NoAnswer == [ids |-> {}, stars |-> {}, done |-> FALSE]
Answers == [ids : SUBSET Item, stars : SUBSET Item, done : BOOLEAN]
Calls == [to : {"files"}, parent : Folder, offset : 0..Newest, silent : BOOLEAN, got : Answers]
    \cup [to : {"favorites"}, got : Answers]
    \cup [to : {"star"}, left : SUBSET Item, ok : BOOLEAN, at : Folder]
    \cup [to : {"move"}, item : Item, dest : Place, at : Folder]

\* sure and wish are not in the code: the listing rests on answers that came alone
\* and still hold; what was asked of a star, as far as nothing else decides it.
Page == [cur : Folder, rows : [Item -> Place], stars : SUBSET Item, favorites : SUBSET Item,
         hasMore : BOOLEAN, loading : BOOLEAN, loadingMore : BOOLEAN,
         sure : BOOLEAN, wish : [Item -> {"add", "remove", "none"}]]

TypeOK ==
    /\ srv \in [at : [Item -> Place], stars : SUBSET Item]
    /\ page \in Page /\ calls \subseteq Calls /\ acts \in 0..MaxActs

Files(parent, offset, silent) ==
    [to |-> "files", parent |-> parent, offset |-> offset, silent |-> silent, got |-> NoAnswer]
Favorites == [to |-> "favorites", got |-> NoAnswer]

\* The folder of the last visit is in localStorage.
Init ==
    /\ srv = [at |-> Start, stars |-> {}]
    /\ \E f \in Folder :
        /\ page = [cur |-> f, rows |-> [i \in Item |-> Gone], stars |-> {}, favorites |-> {},
                   hasMore |-> TRUE, loading |-> TRUE, loadingMore |-> FALSE,
                   sure |-> FALSE, wish |-> [i \in Item |-> "none"]]
        /\ calls = {Files(f, 0, FALSE), Favorites}
    /\ acts = 0

-----------------------------------------------------------------------------
\* The server: newest first, PageSize rows from offset on.
In(f) == {i \in Item : srv.at[i] = f}
Listing(f, offset) ==
    {i \in In(f) : LET before == Cardinality({j \in In(f) : j > i})
                   IN  offset <= before /\ before < offset + PageSize}
FirstStars ==
    {i \in srv.stars : srv.at[i] # Gone
        /\ Cardinality({j \in srv.stars : srv.at[j] # Gone /\ j > i}) < FavLimit}

Serve(c) ==
    /\ c \in calls /\ c.to \in {"files", "favorites"} /\ ~c.got.done
    /\ LET ids == IF c.to = "files" THEN Listing(c.parent, c.offset) ELSE FirstStars
       IN  calls' = (calls \ {c}) \cup {[c EXCEPT !.got = [ids |-> ids, stars |-> ids \cap srv.stars, done |-> TRUE]]}
    /\ UNCHANGED <<srv, page, acts>>

OtherFiles(c) == \E d \in calls \ {c} : d.to = "files"

\* A request that has ended: silent ones leave the spinner, all stop loadingMore.
Ended(c, p) == [p EXCEPT !.loading = @ /\ c.silent, !.loadingMore = FALSE]

\* A first page replaces the rows of its folder; a later one adds those items that
\* have no row, be it in another folder.
Merged(c) ==
    LET kept == [i \in Item |-> IF c.offset = 0 /\ (page.rows[i] = c.parent \/ i \in c.got.ids)
                                THEN Gone ELSE page.rows[i]]
        new == {i \in c.got.ids : kept[i] = Gone}
    IN  [page EXCEPT !.rows = [i \in Item |-> IF i \in new THEN c.parent ELSE kept[i]],
                     !.stars = (@ \ new) \cup (c.got.stars \cap new)]

\* Mutant: a full page is taken for the last one.
FilesAnsweredShort(c) ==
    /\ c \in calls /\ c.to = "files" /\ c.got.done
    /\ page' = Ended(c, [Merged(c) EXCEPT
            !.hasMore = Cardinality(c.got.ids) > PageSize,
            !.sure = /\ ~OtherFiles(c) /\ c.parent = page.cur /\ c.got.ids = Listing(c.parent, c.offset)
                     /\ c.offset > 0 => page.sure])
    /\ calls' = calls \ {c} /\ UNCHANGED <<srv, acts>>

FilesAnswered(c) ==
    /\ c \in calls /\ c.to = "files" /\ c.got.done
    /\ page' = Ended(c, [Merged(c) EXCEPT
            !.hasMore = (Cardinality(c.got.ids) = PageSize),
            !.sure = /\ ~OtherFiles(c) /\ c.parent = page.cur /\ c.got.ids = Listing(c.parent, c.offset)
                     /\ c.offset > 0 => page.sure])
    /\ calls' = calls \ {c} /\ UNCHANGED <<srv, acts>>

FavoritesAnswered(c) ==
    /\ c \in calls /\ c.to = "favorites" /\ c.got.done
    /\ page' = [page EXCEPT !.favorites = c.got.ids]
    /\ calls' = calls \ {c} /\ UNCHANGED <<srv, acts>>

Failed(c) ==
    /\ c \in calls /\ c.to \in {"files", "favorites"}
    /\ page' = IF c.to = "files" THEN Ended(c, page) ELSE page
    /\ calls' = calls \ {c} /\ UNCHANGED <<srv, acts>>

-----------------------------------------------------------------------------
Act(new, asked) ==
    /\ acts < MaxActs /\ acts' = acts + 1
    /\ Cardinality(calls) < MaxCalls
    /\ page' = new /\ calls' = calls \cup asked /\ UNCHANGED srv

\* The effect of a new folder.
Navigate(f) ==
    /\ f # page.cur
    /\ Act([page EXCEPT !.cur = f, !.loading = TRUE, !.sure = FALSE], {Files(f, 0, FALSE)})

\* The listing is scrolled to its end; how many rows it has is where to go on.
OnLoadMore ==
    /\ page.hasMore /\ ~page.loadingMore
    /\ LET count == Cardinality({i \in Item : page.rows[i] = page.cur})
       IN  Act([page EXCEPT !.loadingMore = count > 0],
               {Files(page.cur, count, TRUE)})

\* Every 5 s, if a row is pending, scanning or infected.
Poll ==
    /\ \E i \in Busy : page.rows[i] # Gone
    /\ Files(page.cur, 0, TRUE) \notin calls /\ Cardinality(calls) < MaxCalls
    /\ calls' = calls \cup {Files(page.cur, 0, TRUE)} /\ UNCHANGED <<srv, page, acts>>

\* A change of the user: when it is done all is loaded anew, for the folder that was
\* shown when it was asked for.
OnMove(i, dest) ==
    /\ page.rows[i] # Gone /\ dest # page.rows[i]
    /\ Act(page, {[to |-> "move", item |-> i, dest |-> dest, at |-> page.cur]})

Moved(c, ok) ==
    /\ c \in calls /\ c.to = "move"
    /\ srv' = IF ok THEN [srv EXCEPT !.at[c.item] = IF @ = Gone THEN Gone ELSE c.dest] ELSE srv
    /\ page' = IF ok THEN [page EXCEPT !.sure = FALSE, !.loading = TRUE] ELSE page
    /\ calls' = (calls \ {c}) \cup (IF ok THEN {Files(c.at, 0, FALSE), Favorites} ELSE {})
    /\ UNCHANGED acts

\* The menu says "Remove from Favorites" if all it stands for are in the list of
\* favourites; what is done is decided by the rows.  All requests are toggles.
Wanted(targets) == IF targets \subseteq page.favorites THEN "remove" ELSE "add"

Toggled(targets) == IF targets \subseteq page.stars THEN targets ELSE targets \ page.stars

Known == page.stars = {i \in Item : page.rows[i] # Gone} \cap srv.stars /\ page.favorites = srv.stars

OnToggleFavorite(targets) ==
    /\ targets # {} /\ \A i \in targets : page.rows[i] = page.cur
    /\ LET free == Known /\ \A c \in calls : c.to # "star"
       IN  Act([page EXCEPT !.wish = [i \in Item |->
                    IF i \notin targets THEN @[i] ELSE IF free THEN Wanted(targets) ELSE "none"]],
               {[to |-> "star", left |-> Toggled(targets), ok |-> TRUE, at |-> page.cur]})

\* The requests of one click run side by side.
Starred(c, i, ok) ==
    /\ c \in calls /\ c.to = "star" /\ i \in c.left
    /\ srv' = IF ok /\ srv.at[i] # Gone
              THEN [srv EXCEPT !.stars = IF i \in @ THEN @ \ {i} ELSE @ \cup {i}] ELSE srv
    /\ page' = IF ok /\ srv.at[i] # Gone THEN page ELSE [page EXCEPT !.wish[i] = "none"]
    /\ calls' = (calls \ {c}) \cup {[c EXCEPT !.left = @ \ {i}, !.ok = @ /\ ok /\ srv.at[i] # Gone]}
    /\ UNCHANGED acts

AllStarred(c) ==
    /\ c \in calls /\ c.to = "star" /\ c.left = {}
    /\ calls' = (calls \ {c}) \cup (IF c.ok THEN {Files(c.at, 0, TRUE), Favorites} ELSE {})
    /\ UNCHANGED <<srv, page, acts>>

\* Other sessions add, move and delete items, and give and take stars.
Elsewhere(i) ==
    /\ acts < MaxActs /\ acts' = acts + 1
    /\ \/ /\ \E p \in Place \ {srv.at[i]} : srv' = [srv EXCEPT !.at[i] = p]
          /\ page' = [page EXCEPT !.sure = FALSE, !.wish[i] = "none"]
       \/ /\ srv' = [srv EXCEPT !.stars = IF i \in @ THEN @ \ {i} ELSE @ \cup {i}]
          /\ page' = [page EXCEPT !.wish[i] = "none"]
    /\ UNCHANGED calls

Next ==
    \/ \E f \in Folder : Navigate(f)
    \/ OnLoadMore \/ Poll
    \/ \E i \in Item : Elsewhere(i) \/ \E p \in Place : OnMove(i, p)
    \/ \E targets \in SUBSET Item : OnToggleFavorite(targets)
    \/ \E c \in calls : Serve(c) \/ FilesAnswered(c) \/ FavoritesAnswered(c) \/ Failed(c) \/ AllStarred(c)
    \/ \E c \in calls, ok \in BOOLEAN : Moved(c, ok) \/ \E i \in Item : Starred(c, i, ok)

Spec == Init /\ [][Next]_vars

-----------------------------------------------------------------------------
\* A listing that says there is no more, and rests on answers that came one at a
\* time and still hold, has every item of its folder, but for one that the page
\* still lists where it was before.
NothingHidden ==
    page.sure /\ ~page.hasMore /\ (\A c \in calls : c.to # "files") =>
        \A i \in In(page.cur) : page.rows[i] # Gone

\* After a click on a star that the page knew right, with nothing else under way
\* for it, the items have the star or do not, as the menu said.
FavoriteAsAsked ==
    (\A c \in calls : c.to # "star") =>
        \A i \in Item : page.wish[i] # "none" => (page.wish[i] = "add" <=> i \in srv.stars)
=============================================================================
