----------------------------- MODULE SharesList -----------------------------
(***************************************************************************)
(* The list "Shared Links" of the side bar, from which the badges of the   *)
(* icons are drawn, too (ReactFileManager, Sidebar, SharesSection).        *)
(*                                                                         *)
(* The list is loaded when the page is mounted and after every operation   *)
(* of this page that may end or name a link.  Loads are not awaited and    *)
(* may overtake each other; whether a link has expired is asked once per   *)
(* load.  Links that other sessions make are left out.                     *)
(***************************************************************************)
EXTENDS Integers

CONSTANTS
    Link,    \* links
    MaxOps   \* bound on what the user does

VARIABLES
    state,   \* the server: what has become of each link
    list,    \* the page: the links drawn, and whether the drawing is to be relied on
    calls,   \* requests under way
    ops      \* how much the user has done

vars == <<state, list, calls, ops>>

\* Of an operation: rename and move change no link.  done: the server has done it, or
\* made the answer.
Kind == {"create", "revoke", "delete", "rename"}
Calls == [to : Kind, link : Link, done : BOOLEAN] \cup [to : {"all"}, got : SUBSET Link, done : BOOLEAN]

TypeOK ==
    /\ state \in [Link -> {"unused", "live", "expired", "gone"}]
    /\ list \in [drawn : SUBSET Link, sure : BOOLEAN]
    /\ calls \subseteq Calls /\ ops \in 0..MaxOps

In(st) == {l \in Link : state[l] = st}
Load == [to |-> "all", got |-> {}, done |-> FALSE]

Init ==
    /\ state \in [Link -> {"unused", "live"}]
    /\ list = [drawn |-> {}, sure |-> TRUE] /\ calls = {Load} /\ ops = 0

\* refreshShares.  sure is not in the code: no other load is under way, and since then
\* none has failed and no operation was lost.
Refreshed(others) ==
    /\ calls' = others \cup {Load}
    /\ list' = [list EXCEPT !.sure = \A d \in others : d.to # "all"]

Serve(c) ==
    /\ c \in calls /\ ~c.done
    /\ \/ c.to = "all" /\ UNCHANGED state /\ calls' = (calls \ {c}) \cup {[c EXCEPT !.got = In("live"), !.done = TRUE]}
       \/ /\ c.to # "all" /\ calls' = (calls \ {c}) \cup {[c EXCEPT !.done = TRUE]}
          /\ state' = CASE c.to = "create" /\ state[c.link] = "unused" -> [state EXCEPT ![c.link] = "live"]
                        [] c.to \in {"revoke", "delete"} -> [state EXCEPT ![c.link] = "gone"]
                        [] OTHER -> state
    /\ UNCHANGED <<list, ops>>

\* activeShares: asked when the list comes, and not again when a link expires.
ActiveShares(got) == got \ In("expired")

Listed(c) ==
    /\ c \in calls /\ c.to = "all" /\ c.done
    /\ list' = [list EXCEPT !.drawn = ActiveShares(c.got)]
    /\ calls' = calls \ {c} /\ UNCHANGED <<state, ops>>

\* "quiet": the list stays.
ListFails(c) ==
    /\ c \in calls /\ c.to = "all"
    /\ list' = [list EXCEPT !.sure = FALSE]
    /\ calls' = calls \ {c} /\ UNCHANGED <<state, ops>>

-----------------------------------------------------------------------------
Ask(kind, l) ==
    /\ ops < MaxOps /\ ops' = ops + 1
    /\ calls' = calls \cup {[to |-> kind, link |-> l, done |-> FALSE]} /\ UNCHANGED <<state, list>>

CreateShare(l) == state[l] = "unused" /\ Ask("create", l)

\* The button of the list, or that of the ShareModal.
RevokeShare(l) == (l \in list.drawn \/ state[l] = "live") /\ Ask("revoke", l)

\* The item of the link is deleted, or renamed or moved.
Delete(l) == state[l] \in {"live", "expired"} /\ Ask("delete", l)
Rename(l) == state[l] \in {"live", "expired"} /\ Ask("rename", l)

OperationEnds(c) ==
    /\ c \in calls /\ c.to \in Kind /\ c.done
    /\ Refreshed(calls \ {c}) /\ UNCHANGED <<state, ops>>

\* An error, which may have come after the server had done it: the list is not loaded.
OperationFails(c) ==
    /\ c \in calls /\ c.to \in Kind
    /\ list' = [list EXCEPT !.sure = @ /\ ~c.done]
    /\ calls' = calls \ {c} /\ UNCHANGED <<state, ops>>

Expire(l) == state[l] = "live" /\ state' = [state EXCEPT ![l] = "expired"] /\ UNCHANGED <<list, calls, ops>>

Next ==
    \/ \E c \in calls : Serve(c) \/ Listed(c) \/ ListFails(c) \/ OperationEnds(c) \/ OperationFails(c)
    \/ \E l \in Link : CreateShare(l) \/ RevokeShare(l) \/ Delete(l) \/ Rename(l) \/ Expire(l)

Spec == Init /\ [][Next]_vars

-----------------------------------------------------------------------------
\* When nothing is under way the list has every link that works, and no link that was
\* revoked or whose item is gone, unless loads overlapped or a request was lost.  One
\* that has expired since may still be listed.
ListedFits ==
    calls = {} /\ list.sure => In("live") \subseteq list.drawn /\ list.drawn \cap In("gone") = {}
=============================================================================
