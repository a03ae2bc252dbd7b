----------------------------- MODULE UploadToast -----------------------------
(***************************************************************************)
(* The box that shows the uploads (UploadProgressToast) over the rows of   *)
(* useFileUpload.                                                          *)
(*                                                                         *)
(* Five seconds after the last upload has ended it clears all rows.  Every *)
(* request of the page, and every tick of its own countdown, starts those  *)
(* seconds anew, so that how long it stays is not fixed: here its timer    *)
(* ends at any time.  Effects run after the rows have changed, and the     *)
(* timer may end before they do.  The button cancels what has failed, one  *)
(* request after the other, and then clears all rows that there are.       *)
(***************************************************************************)
EXTENDS Integers

CONSTANTS
    Upload,    \* uploads
    MaxPushes  \* bound on what the user does

VARIABLES
    rows,     \* activeUploads: the state of each upload, as far as it has a row
    toast,    \* the state of the box
    closing,  \* calls of handleClose under way: what each has still to cancel
    cancels,  \* calls of cancelUpload under way, from the button of a row
    pushes    \* how much the user has done

vars == <<rows, toast, closing, cancels, pushes>>

\* waiting: queued, hashed or processed.  No row yet, or none any more.
Status == {"none", "waiting", "uploading", "completed", "error", "gone"}
UnderWay == {"waiting", "uploading"}

\* finished is isFinished as the effects have seen it last; of the timer: never set,
\* stopped or ended, running.
TypeOK ==
    /\ rows \in [Upload -> Status]
    /\ toast \in [show : BOOLEAN, finished : BOOLEAN, timer : {"none", "off", "on"}]
    /\ closing \subseteq SUBSET Upload /\ cancels \subseteq Upload
    /\ pushes \in 0..MaxPushes

Init ==
    /\ rows = [u \in Upload |-> "none"]
    /\ toast = [show |-> FALSE, finished |-> FALSE, timer |-> "none"]
    /\ closing = {} /\ cancels = {} /\ pushes = 0

ActiveUploads == {u \in Upload : rows[u] \notin {"none", "gone"}}
IsFinished == ActiveUploads # {} /\ \A u \in Upload : rows[u] \notin UnderWay

Push == pushes < MaxPushes /\ pushes' = pushes + 1

Without(gone) == [u \in Upload |-> IF u \in gone THEN "gone" ELSE rows[u]]

-----------------------------------------------------------------------------
\* What the queue does to the rows: onUpload, updateStatus, and its own timer, five
\* seconds after a drop, that leaves what is uploading or has failed.
OnUpload(new) ==
    /\ new # {} /\ \A u \in new : rows[u] = "none"
    /\ Push /\ rows' = [u \in Upload |-> IF u \in new THEN "waiting" ELSE rows[u]]
    /\ UNCHANGED <<toast, closing, cancels>>

UpdateStatus(u) ==
    /\ \/ rows[u] = "waiting" /\ \E s \in {"uploading", "completed", "error"} : rows' = [rows EXCEPT ![u] = s]
       \/ rows[u] = "uploading" /\ \E s \in {"waiting", "completed", "error"} : rows' = [rows EXCEPT ![u] = s]
       \/ rows[u] = "error" /\ rows' = [rows EXCEPT ![u] = "uploading"]
    /\ UNCHANGED <<toast, closing, cancels, pushes>>

Sweep ==
    /\ \E u \in Upload : rows[u] \in {"completed", "error", "gone"}
    /\ rows' = Without({u \in ActiveUploads : rows[u] \notin {"uploading", "error"}})
    /\ UNCHANGED <<toast, closing, cancels, pushes>>

-----------------------------------------------------------------------------
Stopped(t) == IF t = "none" THEN "none" ELSE "off"

\* Mutant: a timer that is running is left when uploads are added.
EffectsKeepingTimer ==
    /\ toast.finished # IsFinished
    /\ toast' = IF IsFinished THEN [show |-> TRUE, finished |-> TRUE, timer |-> "on"]
                ELSE [toast EXCEPT !.show = FALSE, !.finished = FALSE]
    /\ UNCHANGED <<rows, closing, cancels, pushes>>

\* The effect of isFinished.
Effects ==
    /\ toast.finished # IsFinished
    /\ toast' = IF IsFinished THEN [show |-> TRUE, finished |-> TRUE, timer |-> "on"]
                ELSE [show |-> FALSE, finished |-> FALSE, timer |-> Stopped(toast.timer)]
    /\ UNCHANGED <<rows, closing, cancels, pushes>>

\* The effect of resetSignal and the countdown: it starts a timer that handleClose has
\* stopped, too.
ResetTimer ==
    /\ toast.finished /\ IsFinished /\ toast.show /\ toast.timer = "off"
    /\ toast' = [toast EXCEPT !.timer = "on"]
    /\ UNCHANGED <<rows, closing, cancels, pushes>>

AutoClose ==
    /\ toast.timer = "on"
    /\ rows' = Without(ActiveUploads) /\ toast' = [toast EXCEPT !.show = FALSE, !.timer = "off"]
    /\ UNCHANGED <<closing, cancels, pushes>>

-----------------------------------------------------------------------------
\* The button is there while the countdown is shown or nothing is under way.
CloseOffered == ActiveUploads # {} /\ (toast.show \/ IsFinished)

HandleClose ==
    /\ CloseOffered /\ Push
    /\ closing' = closing \cup {{u \in ActiveUploads : rows[u] # "completed"}}
    /\ toast' = [toast EXCEPT !.timer = Stopped(@)]
    /\ UNCHANGED <<rows, cancels>>

\* One cancelUpload after the other.
CloseCancels(left, u) ==
    /\ left \in closing /\ u \in left
    /\ closing' = (closing \ {left}) \cup {left \ {u}}
    /\ rows' = Without({u} \cap ActiveUploads)
    /\ UNCHANGED <<toast, cancels, pushes>>

CloseEnds ==
    /\ {} \in closing /\ closing' = closing \ {{}}
    /\ rows' = Without(ActiveUploads) /\ toast' = [toast EXCEPT !.show = FALSE]
    /\ UNCHANGED <<cancels, pushes>>

CancelOffered(u) == u \in ActiveUploads /\ rows[u] # "completed"
OnCancelUpload(u) ==
    CancelOffered(u) /\ Push /\ cancels' = cancels \cup {u} /\ UNCHANGED <<rows, toast, closing>>

Cancelled(u) ==
    /\ u \in cancels /\ cancels' = cancels \ {u}
    /\ rows' = Without({u} \cap ActiveUploads) /\ UNCHANGED <<toast, closing, pushes>>

Next ==
    \/ \E new \in SUBSET Upload : OnUpload(new)
    \/ Sweep \/ Effects \/ ResetTimer \/ AutoClose \/ HandleClose \/ CloseEnds
    \/ \E u \in Upload : UpdateStatus(u) \/ OnCancelUpload(u) \/ Cancelled(u)
    \/ \E left \in closing : \E u \in left : CloseCancels(left, u)

Spec == Init /\ [][Next]_vars

-----------------------------------------------------------------------------
\* The row of an upload that is under way, with it the button that cancels it and the
\* warning before the page is left, goes only when the user cancels it.  The exceptions:
\* the timer of another drop, the button being at work, and the moment between a change
\* of the rows and its effects.
UploadsSeen ==
    [][(\E u \in Upload : rows[u] \in UnderWay /\ rows'[u] = "gone" /\ u \notin cancels) =>
          Sweep \/ closing # {} \/ toast.finished # IsFinished]_vars
=============================================================================
