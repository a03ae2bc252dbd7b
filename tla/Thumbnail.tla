------------------------------ MODULE Thumbnail ------------------------------
(***************************************************************************)
(* The picture of one file in a listing (FileIcon), for a file of a type   *)
(* that has pictures.                                                      *)
(*                                                                         *)
(* If the row says that there is a picture it is fetched at once; if not,  *)
(* the icon polls.  Effects run when what they depend on changes and stop  *)
(* what they had started before, a request included.  A round of polls     *)
(* ends after MAX_POLLS, and the end of a round is a change.               *)
(***************************************************************************)
EXTENDS Integers

CONSTANTS
    MAX_POLLS,   \* 12
    MaxChanges   \* bound on what else changes

VARIABLES
    stage,    \* the server: the file is scanned, then there is a picture or never
    row,      \* what the listing says of the file, and whether pictures are shown
    icon,     \* the state of the icon
    cached,   \* the picture is in the cache of the browser
    changes   \* how much has changed

vars == <<stage, row, icon, cached, changes>>

\* url: the picture is there; timer: a poll is due; poll and fetch: a request of a poll
\* or of the first effect is under way.
Icon == [mounted : BOOLEAN, url : BOOLEAN, polling : BOOLEAN, count : 0..MAX_POLLS,
         timer : BOOLEAN, poll : BOOLEAN, fetch : BOOLEAN]

TypeOK ==
    /\ stage \in 0..2 /\ cached \in BOOLEAN
    /\ row \in [scanning : BOOLEAN, known : BOOLEAN, show : BOOLEAN]
    /\ icon \in Icon /\ changes \in 0..MaxChanges

Off == [mounted |-> FALSE, url |-> FALSE, polling |-> FALSE, count |-> 0,
        timer |-> FALSE, poll |-> FALSE, fetch |-> FALSE]

\* stage: 0 scanned, 1 without a picture, 2 with one.
RowAt(s, show) == [scanning |-> s = 0, known |-> s = 2, show |-> show]

Init ==
    /\ stage = 0 /\ icon = Off /\ cached = FALSE /\ changes = 0
    /\ \E show \in BOOLEAN : row = RowAt(0, show)

-----------------------------------------------------------------------------
\* The primary effect, in the row r.
Primary(i, r) ==
    LET j == [i EXCEPT !.fetch = FALSE] IN
    CASE i.url -> j
      [] ~i.url /\ r.scanning -> [j EXCEPT !.polling = FALSE]
      [] ~i.url /\ ~r.scanning /\ r.show /\ r.known -> [j EXCEPT !.fetch = TRUE]
      [] ~i.url /\ ~r.scanning /\ r.show /\ ~r.known /\ ~i.polling -> [j EXCEPT !.polling = TRUE, !.count = 0]
      [] OTHER -> j

\* The polling effect.
Polling(i) == [i EXCEPT !.poll = FALSE, !.timer = i.polling /\ ~i.url]

\* Both, after the row or after isPolling has changed: the primary effect depends on
\* isPolling, which it may change.
RowChanged(i, r) ==
    LET j == Primary(i, r) IN IF j.polling = i.polling THEN j ELSE Polling(Primary(j, r))

PollingChanged(i, r) ==
    LET j == Primary(i, r) IN IF j.polling = i.polling THEN Polling(j) ELSE Polling(Primary(j, r))

-----------------------------------------------------------------------------
Change == changes < MaxChanges /\ changes' = changes + 1

Mount ==
    /\ ~icon.mounted /\ Change
    /\ icon' = RowChanged([Off EXCEPT !.mounted = TRUE], row) /\ UNCHANGED <<stage, row, cached>>

Unmount == icon.mounted /\ icon' = Off /\ UNCHANGED <<stage, row, cached, changes>>

\* The listing comes anew, maybe with an answer that is not the latest; pictures are
\* switched on or off.
NewRow(r) ==
    /\ r # row /\ row' = r /\ Change
    /\ icon' = IF icon.mounted THEN RowChanged(icon, r) ELSE icon
    /\ UNCHANGED <<stage, cached>>

RowUpdated == \E s \in 0..stage : NewRow(RowAt(s, row.show))
ShowThumbnails == NewRow([row EXCEPT !.show = ~@])

\* fetchThumbnail finds a picture: in the cache, or at the server.
Fetched(ok) ==
    /\ IF ok THEN cached \/ stage = 2 ELSE ~cached
    /\ cached' = (cached \/ ok)

\* A poll is due.  At the end of a round isPolling is switched off.
PollDue ==
    /\ icon.timer
    /\ icon' = IF icon.count >= MAX_POLLS
               THEN PollingChanged([icon EXCEPT !.timer = FALSE, !.polling = FALSE], row)
               ELSE [icon EXCEPT !.timer = FALSE, !.poll = TRUE, !.count = @ + 1]
    /\ UNCHANGED <<stage, row, cached, changes>>

PollEnds(ok) ==
    /\ icon.poll /\ Fetched(ok)
    /\ icon' = IF ok THEN PollingChanged([icon EXCEPT !.url = TRUE, !.polling = FALSE], row)
               ELSE [icon EXCEPT !.poll = FALSE, !.timer = TRUE]
    /\ UNCHANGED <<stage, row, changes>>

FetchEnds(ok) ==
    /\ icon.fetch /\ Fetched(ok)
    /\ icon' = IF ok THEN Polling([icon EXCEPT !.url = TRUE, !.fetch = FALSE]) ELSE [icon EXCEPT !.fetch = FALSE]
    /\ UNCHANGED <<stage, row, changes>>

\* The server goes on; another icon of the file, or a request that was stopped too
\* late, fills the cache; after an hour it is not used.
Elsewhere ==
    /\ \/ stage < 2 /\ stage' = stage + 1 /\ UNCHANGED cached
       \/ cached' = ~cached /\ (cached' => stage = 2) /\ UNCHANGED stage
    /\ UNCHANGED <<row, icon, changes>>

Next ==
    \/ Mount \/ Unmount \/ RowUpdated \/ ShowThumbnails \/ PollDue \/ Elsewhere
    \/ \E ok \in BOOLEAN : PollEnds(ok) \/ FetchEnds(ok)

Spec == Init /\ [][Next]_vars

-----------------------------------------------------------------------------
\* A round of polls that has begun goes on until it has its picture or is ended: an icon
\* that believes it is polling has a timer or a request, or nothing would ever start one.
RoundGoesOn == icon.polling /\ ~icon.url => icon.timer \/ icon.poll

\* Nothing is polled for when the picture is there or the file is being scanned.
NoIdlePolls == icon.timer \/ icon.poll => ~icon.url /\ ~row.scanning

PollingFits == RoundGoesOn /\ NoIdlePolls

\* "Stop after ~60s (12 * 5s)": a round of MAX_POLLS is not followed by another unless the
\* icon is mounted anew or its row changes.
PollingStops ==
    [][icon.mounted /\ icon'.mounted /\ row' = row => icon'.count >= icon.count]_vars
=============================================================================
