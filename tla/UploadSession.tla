---------------------------- MODULE UploadSession ----------------------------
(***************************************************************************)
(* Chunked uploads: api/src/services/upload_service.rs.                    *)
(*                                                                         *)
(* A session lives in three places at once: its row in upload_sessions,    *)
(* the multipart upload that S3 keeps under the session's key, and, between *)
(* completion and process_upload's move, the object under that key.  Only  *)
(* the update of the part list is under a row lock; everything else reads  *)
(* the row, calls S3, and writes the row again.  Handlers of one session   *)
(* run side by side (the web client sends three chunks at a time and       *)
(* repeats those that fail), and each may end after any of its steps: a    *)
(* statement or an S3 call fails, or the client goes away and its future   *)
(* is dropped.                                                             *)
(*                                                                         *)
(* S3 is external: it accepts parts, one completion or one abort for an    *)
(* open upload, checks the etags of a completion against the parts it has, *)
(* and answers NoSuchUpload once the upload is completed or aborted.  An   *)
(* etag is the digest of a part, so both are written as the data here.     *)
(* Of process_upload there is what happens to the session's object and     *)
(* file; StorageTasks has its rows and counts.                             *)
(***************************************************************************)
EXTENDS Integers, FiniteSets, Sequences

CONSTANTS
    Handlers,   \* handler invocations
    Sessions,   \* upload_sessions ids
    Data,       \* what a chunk may contain
    NoSession,  \* an id with no row
    NoObject,   \* a key that is not in the bucket
    MaxChunks,  \* bound on a session's total_chunks
    MaxEnded    \* bound on the requests that end half-way

ASSUME ChunksAssumption == MaxChunks \in Nat
ASSUME EndedAssumption == MaxEnded \in Nat

PartNumbers == 1 .. MaxChunks

\* The JSON list of parts: numbers are unique in it, and sorted.
PartLists == UNION {[P -> Data] : P \in SUBSET PartNumbers}

\* The list with a part replaced or added.
WithPart(parts, n, d) == [i \in DOMAIN parts \cup {n} |-> IF i = n THEN d ELSE parts[i]]

SessionRows == [status : {"pending", "completed"}, total_chunks : 0 .. MaxChunks, parts : PartLists]
ASSUME NoSessionAssumption == NoObject \notin PartLists /\ NoSession \notin Sessions \cup SessionRows

Uploads == [state : {"none", "open", "completed", "aborted"}, parts : PartLists]

Steps == {"idle", "insert_session", "upload_part", "record_part", "complete_s3",
          "find_content", "move_object", "attach_file", "mark_completed", "abort_s3", "delete_session"}

VARIABLES
    sessions,  \* the rows of upload_sessions
    uploads,   \* the multipart uploads that S3 has
    assembled, \* the objects under the sessions' keys
    made,      \* per session, the contents of the files that its completions made
    acked,     \* history: per session, the part numbers whose upload was answered
    broken,    \* history: sessions with a request that ended past its point of no return
    ended,     \* how many requests have ended half-way
    step,      \* per handler: its next step
    req        \* per handler: its arguments and local variables

sessionVars == <<sessions, uploads, assembled, made, acked, broken, ended, step, req>>

NoReq == [session |-> NoSession, part |-> 0, data |-> {}, chunks |-> 0, parts |-> <<>>]

Requests == [session : Sessions \cup {NoSession}, part : 0 .. MaxChunks, data : Data \cup {NoReq.data},
             chunks : 0 .. MaxChunks, parts : PartLists]

SessionTypeOK ==
    /\ sessions \in [Sessions -> SessionRows \cup {NoSession}]
    /\ uploads \in [Sessions -> Uploads]
    /\ assembled \in [Sessions -> PartLists \cup {NoObject}]
    /\ made \in [Sessions -> Seq(PartLists)]
    /\ acked \in [Sessions -> SUBSET PartNumbers]
    /\ broken \subseteq Sessions
    /\ ended \in 0 .. MaxEnded
    /\ step \in [Handlers -> Steps]
    /\ req \in [Handlers -> Requests]
    /\ \A t \in Handlers :
         /\ req[t].session = NoSession <=> step[t] = "idle"
         /\ step[t] \in {"upload_part", "record_part"} => req[t].part \in PartNumbers /\ req[t].data \in Data

SessionInit ==
    /\ sessions = [s \in Sessions |-> NoSession]
    /\ uploads = [s \in Sessions |-> [state |-> "none", parts |-> <<>>]]
    /\ assembled = [s \in Sessions |-> NoObject]
    /\ made = [s \in Sessions |-> <<>>]
    /\ acked = [s \in Sessions |-> {}]
    /\ broken = {}
    /\ ended = 0
    /\ step = [t \in Handlers |-> "idle"]
    /\ req = [t \in Handlers |-> NoReq]

-----------------------------------------------------------------------------
Pending(s) == sessions[s] # NoSession /\ sessions[s].status = "pending"
Open(s) == uploads[s].state = "open"

Begin(t, next, r) ==
    /\ step[t] = "idle"
    /\ step' = [step EXCEPT ![t] = next]
    /\ req' = [req EXCEPT ![t] = r]

Goto(t, next) == step' = [step EXCEPT ![t] = next] /\ UNCHANGED req

End(t) ==
    /\ step' = [step EXCEPT ![t] = "idle"]
    /\ req' = [req EXCEPT ![t] = NoReq]

\* The request is answered with an error, which has no effect.
Refuse(t) == End(t) /\ UNCHANGED <<sessions, uploads, assembled, made, acked>>

-----------------------------------------------------------------------------
\* init_upload: the multipart upload first, then the row.
CreateUpload(t, s, n) ==
    /\ uploads[s].state = "none"
    /\ Begin(t, "insert_session", [NoReq EXCEPT !.session = s, !.chunks = n])
    /\ uploads' = [uploads EXCEPT ![s].state = "open"]
    /\ UNCHANGED <<sessions, assembled, made, acked, broken, ended>>

InsertSession(t) ==
    LET s == req[t].session
    IN  /\ step[t] = "insert_session"
        /\ sessions' = [sessions EXCEPT ![s] = [status |-> "pending", total_chunks |-> req[t].chunks,
                                                parts |-> <<>>]]
        /\ End(t)
        /\ UNCHANGED <<uploads, assembled, made, acked, broken, ended>>

-----------------------------------------------------------------------------
\* Mutant: the part number is not checked against the session.
BeginChunkUnchecked(t, s, n, d) ==
    /\ Pending(s)
    /\ Begin(t, "upload_part", [NoReq EXCEPT !.session = s, !.part = n, !.data = d,
                                             !.parts = sessions[s].parts])
    /\ UNCHANGED <<sessions, uploads, assembled, made, acked, broken, ended>>

\* upload_chunk, up to the call of S3.
BeginChunk(t, s, n, d) ==
    /\ Pending(s)
    /\ n <= sessions[s].total_chunks
    /\ Begin(t, "upload_part", [NoReq EXCEPT !.session = s, !.part = n, !.data = d,
                                             !.parts = sessions[s].parts])
    /\ UNCHANGED <<sessions, uploads, assembled, made, acked, broken, ended>>

UploadPart(t) ==
    LET s == req[t].session
    IN  /\ step[t] = "upload_part"
        /\ \/ /\ Open(s)
              /\ uploads' = [uploads EXCEPT ![s].parts = WithPart(@, req[t].part, req[t].data)]
              /\ Goto(t, "record_part")
              /\ UNCHANGED <<sessions, assembled, made, acked>>
           \/ ~Open(s) /\ Refuse(t)
        /\ UNCHANGED <<broken, ended>>

\* Mutant: the part is added to the list that was read before the call of S3.
RecordPartStale(t) ==
    LET s == req[t].session
        n == req[t].part
    IN  /\ step[t] = "record_part"
        /\ \/ /\ sessions[s] # NoSession
              /\ sessions' = [sessions EXCEPT ![s].parts = WithPart(req[t].parts, n, req[t].data)]
              /\ acked' = [acked EXCEPT ![s] = @ \cup {n}]
              /\ End(t)
              /\ UNCHANGED <<uploads, assembled, made>>
           \/ sessions[s] = NoSession /\ Refuse(t)
        /\ UNCHANGED <<broken, ended>>

\* The transaction that locks the row, reads the list again and replaces or adds
\* the part; the status is not looked at again.
RecordPart(t) ==
    LET s == req[t].session
        n == req[t].part
    IN  /\ step[t] = "record_part"
        /\ \/ /\ sessions[s] # NoSession
              /\ sessions' = [sessions EXCEPT ![s].parts = WithPart(@, n, req[t].data)]
              /\ acked' = [acked EXCEPT ![s] = @ \cup {n}]
              /\ End(t)
              /\ UNCHANGED <<uploads, assembled, made>>
           \/ sessions[s] = NoSession /\ Refuse(t)
        /\ UNCHANGED <<broken, ended>>

-----------------------------------------------------------------------------
\* complete_upload, up to the call of S3: the part list is read once.
BeginComplete(t, s) ==
    /\ Pending(s)
    /\ Cardinality(DOMAIN sessions[s].parts) = sessions[s].total_chunks
    /\ Begin(t, "complete_s3", [NoReq EXCEPT !.session = s, !.parts = sessions[s].parts])
    /\ UNCHANGED <<sessions, uploads, assembled, made, acked, broken, ended>>

\* S3 puts the listed parts together, if it has them with these etags.
CompleteS3(t) ==
    LET s == req[t].session
        listed == req[t].parts
        complete == /\ Open(s)
                    /\ listed # <<>>
                    /\ \A n \in DOMAIN listed :
                         n \in DOMAIN uploads[s].parts /\ uploads[s].parts[n] = listed[n]
    IN  /\ step[t] = "complete_s3"
        /\ \/ /\ complete
              /\ uploads' = [uploads EXCEPT ![s].state = "completed"]
              /\ assembled' = [assembled EXCEPT ![s] = listed]
              /\ Goto(t, "find_content")
              /\ UNCHANGED <<sessions, made, acked>>
           \/ ~complete /\ Refuse(t)
        /\ UNCHANGED <<broken, ended>>

\* process_upload: the content is stored already and the object deleted, or it is
\* not; other uploads and deletions decide, which are not modelled here.
FindContent(t) ==
    LET s == req[t].session
    IN  /\ step[t] = "find_content"
        /\ \/ Goto(t, "attach_file") /\ assembled' = [assembled EXCEPT ![s] = NoObject]
           \/ Goto(t, "move_object") /\ UNCHANGED assembled
        /\ UNCHANGED <<sessions, uploads, made, acked, broken, ended>>

\* A new content: the object is moved to its permanent key.
MoveObject(t) ==
    LET s == req[t].session
    IN  /\ step[t] = "move_object"
        /\ \/ /\ assembled[s] # NoObject
              /\ assembled' = [assembled EXCEPT ![s] = NoObject]
              /\ Goto(t, "attach_file")
              /\ UNCHANGED <<sessions, uploads, made, acked>>
           \/ assembled[s] = NoObject /\ Refuse(t)
        /\ UNCHANGED <<broken, ended>>

AttachFile(t) ==
    /\ step[t] = "attach_file"
    /\ made' = [made EXCEPT ![req[t].session] = Append(@, req[t].parts)]
    /\ Goto(t, "mark_completed")
    /\ UNCHANGED <<sessions, uploads, assembled, acked, broken, ended>>

MarkCompleted(t) ==
    LET s == req[t].session
    IN  /\ step[t] = "mark_completed"
        /\ \/ /\ sessions[s] # NoSession
              /\ sessions' = [sessions EXCEPT ![s].status = "completed"]
              /\ End(t)
              /\ UNCHANGED <<uploads, assembled, made, acked>>
           \/ sessions[s] = NoSession /\ Refuse(t)
        /\ UNCHANGED <<broken, ended>>

-----------------------------------------------------------------------------
\* abort_upload.
BeginAbort(t, s) ==
    /\ Pending(s)
    /\ Begin(t, "abort_s3", [NoReq EXCEPT !.session = s])
    /\ UNCHANGED <<sessions, uploads, assembled, made, acked, broken, ended>>

\* Mutant: the row is deleted whatever S3 answers.
AbortS3Anyway(t) ==
    LET s == req[t].session
    IN  /\ step[t] = "abort_s3"
        /\ uploads' = [uploads EXCEPT ![s].state = IF Open(s) THEN "aborted" ELSE @]
        /\ Goto(t, "delete_session")
        /\ UNCHANGED <<sessions, assembled, made, acked, broken, ended>>

AbortS3(t) ==
    LET s == req[t].session
    IN  /\ step[t] = "abort_s3"
        /\ \/ /\ Open(s)
              /\ uploads' = [uploads EXCEPT ![s].state = "aborted"]
              /\ Goto(t, "delete_session")
              /\ UNCHANGED <<sessions, assembled, made, acked>>
           \/ ~Open(s) /\ Refuse(t)
        /\ UNCHANGED <<broken, ended>>

DeleteSession(t) ==
    LET s == req[t].session
    IN  /\ step[t] = "delete_session"
        /\ sessions' = [sessions EXCEPT ![s] = NoSession]
        /\ End(t)
        /\ UNCHANGED <<uploads, assembled, made, acked, broken, ended>>

-----------------------------------------------------------------------------
\* S3 has made the step that cannot be made again, the row does not say so yet.
PointOfNoReturn == {"insert_session", "find_content", "move_object", "attach_file",
                    "mark_completed", "delete_session"}

\* The request ends before its next step.
Fail(t) ==
    /\ step[t] # "idle" /\ ended < MaxEnded
    /\ ended' = ended + 1
    /\ broken' = IF step[t] \in PointOfNoReturn THEN broken \cup {req[t].session} ELSE broken
    /\ End(t)
    /\ UNCHANGED <<sessions, uploads, assembled, made, acked>>

SessionNext ==
    \E t \in Handlers :
        \/ \E s \in Sessions, n \in 0 .. MaxChunks : CreateUpload(t, s, n)
        \/ InsertSession(t)
        \/ \E s \in Sessions, n \in PartNumbers, d \in Data : BeginChunk(t, s, n, d)
        \/ UploadPart(t) \/ RecordPart(t)
        \/ \E s \in Sessions : BeginComplete(t, s) \/ BeginAbort(t, s)
        \/ CompleteS3(t) \/ FindContent(t) \/ MoveObject(t) \/ AttachFile(t) \/ MarkCompleted(t)
        \/ AbortS3(t) \/ DeleteSession(t)
        \/ Fail(t)

SessionSpec == SessionInit /\ [][SessionNext]_sessionVars

-----------------------------------------------------------------------------
\* upload_service.rs:169: parallel uploads lose no part.  What has been answered
\* stays in the list, so that complete and resume can rely on it.
AckedPartsKept ==
    \A s \in Sessions : sessions[s] # NoSession => acked[s] \subseteq DOMAIN sessions[s].parts

\* A session makes at most one file, whatever is sent twice, and the file has every
\* chunk of the session and nothing else.
OneWholeFile ==
    \A s \in Sessions : made[s] # <<>> =>
        /\ Len(made[s]) = 1
        /\ sessions[s] # NoSession
        /\ DOMAIN made[s][1] = 1 .. sessions[s].total_chunks

\* When no request of a session is in progress, its row, S3 and the files agree:
\* a pending session can be continued, completed or aborted, a completed one has
\* left nothing under its key, an aborted one has made no file.  Only a request
\* that ended past its point of no return breaks this, and then for good.
SessionsAgree ==
    \A s \in Sessions \ broken : (\A t \in Handlers : req[t].session # s) =>
        /\ assembled[s] = NoObject
        /\ CASE Pending(s) -> Open(s) /\ made[s] = <<>>
             [] sessions[s] = NoSession -> uploads[s].state \in {"none", "aborted"} /\ made[s] = <<>>
             [] OTHER -> uploads[s].state = "completed" /\ Len(made[s]) = 1

\* Rows, S3 and files of all sessions are well formed and agree (upload_service.rs:220, 361).
SessionsInOrder == SessionTypeOK /\ SessionsAgree
=============================================================================
