-------------------------- MODULE KnowledgeUploads --------------------------
(* Files an operator sends to the bot for the knowledge base, and candidates  *)
(* that moderators approve or reject. The bot keeps a session, a buffer for   *)
(* albums and a record of each file; the api keeps the candidates and the     *)
(* index of chunks the answers are taken from.                                *)
EXTENDS Integers, FiniteSets

CONSTANTS OpFile,       \* short ids of files
          Binary,       \* contents of files
          Moderator,    \* requests that may be deciding
          MaxCandidate  \* bound: candidates

\* No content of a file is called "none", which marks that there is none.
ASSUME UploadBounds == MaxCandidate \in Nat \ {0} /\ "none" \notin Binary

VARIABLES kbSession,    \* operator_kb_sessions: none, open or secret
          album,        \* media_group_buffer, and whether a flush is waiting
          opFile,       \* operator_files
          upload,       \* the upload of each file
          candidate,    \* knowledge_moderation_candidates
          chunks,       \* rag_chunks of each candidate's source
          review,
          uploadLog     \* ghost

uploadVars == <<kbSession, album, opFile, upload, candidate, chunks, review, uploadLog>>

Candidate == 1..MaxCandidate
Secrecy == {"open", "secret"}
NoUpload == [pc |-> "idle", secret |-> "open", candidate |-> 0, new |-> FALSE]
NoReview == [pc |-> "idle", candidate |-> 0, approves |-> FALSE]

UploadInit ==
  /\ kbSession = "none"
  /\ album = [items |-> [f \in OpFile |-> "no"], flush |-> FALSE]
  /\ opFile = [f \in OpFile |-> [status |-> "none", binary |-> "none", candidate |-> 0]]
  /\ upload = [f \in OpFile |-> NoUpload]
  /\ candidate = [c \in Candidate |-> [status |-> "none", binary |-> "none"]]
  /\ chunks = [c \in Candidate |-> "none"]
  /\ review = [m \in Moderator |-> NoReview]
  /\ uploadLog = [secret |-> {}, added |-> {}, unfinished |-> {}]

Reviews == <<candidate, chunks, review>>

\* "/kb" opens the session or reopens it with the secrecy of the new command.
OpenSession(secrecy) ==
  /\ kbSession' = secrecy
  /\ UNCHANGED <<album, opFile, upload, uploadLog, Reviews>>

\* "/kb_cancel", or the session's lifetime.
EndSession ==
  /\ kbSession' = "none"
  /\ UNCHANGED <<album, opFile, upload, uploadLog, Reviews>>

\* A file of an album waits for the rest; any other is processed at once.
Accept(f, secrecy, inAlbum) ==
  IF inAlbum
    THEN /\ album' = [items |-> [album.items EXCEPT ![f] = secrecy], flush |-> TRUE]
         /\ UNCHANGED upload
    ELSE /\ upload' = [upload EXCEPT ![f] = [NoUpload EXCEPT !.pc = "queued",
                                                             !.secret = secrecy]]
         /\ UNCHANGED album

\* A file sent while a session is open, or with the command that opens it.
SendInSession(f, binary, secrecy, inAlbum) ==
  /\ opFile[f].status = "none" /\ opFile[f].binary = "none"
  /\ opFile' = [opFile EXCEPT ![f].binary = binary]
  /\ kbSession' = secrecy
  /\ Accept(f, secrecy, inAlbum)
  /\ uploadLog' = IF secrecy = "secret"
                    THEN [uploadLog EXCEPT !.secret = @ \cup {f}] ELSE uploadLog
  /\ UNCHANGED Reviews

\* A file of an album may be handled before the message with the command.
SendOrphan(f, binary) ==
  /\ opFile[f].status = "none" /\ opFile[f].binary = "none" /\ kbSession = "none"
  /\ opFile' = [opFile EXCEPT ![f].binary = binary]
  /\ Accept(f, "open", TRUE)
  /\ UNCHANGED <<kbSession, uploadLog, Reviews>>

EmptyAlbum == [items |-> [f \in OpFile |-> "no"], flush |-> FALSE]

FlushAs(secrecy) ==
  /\ album.flush
  /\ album' = EmptyAlbum
  /\ upload' = IF kbSession = "none" THEN upload ELSE
       [f \in OpFile |-> IF album.items[f] = "no" THEN upload[f]
                         ELSE [NoUpload EXCEPT !.pc = "queued", !.secret = secrecy]]
  /\ UNCHANGED <<kbSession, opFile, uploadLog, Reviews>>

(* Mutant: an album is as secret as the session is when it is flushed. *)
flush_media_group_by_session == FlushAs(kbSession)

\* Once the album has been quiet: without a session the files are dropped with
\* a DM; they are secret if the session is or any of them was.
flush_media_group ==
  FlushAs(IF kbSession = "secret" \/ \E f \in OpFile : album.items[f] = "secret"
            THEN "secret" ELSE "open")

-----------------------------------------------------------------------------
\* OperatorFileRepository: the row of a file is written, and later updated.
record_upload(f, status) == opFile' = [opFile EXCEPT ![f].status = status]

\* Download and record: a file of the wrong type or size, or that Telegram does
\* not give, is recorded as failed.
process_operator_upload(f) ==
  /\ upload[f].pc = "queued"
  /\ \/ /\ record_upload(f, "failed")
        /\ upload' = [upload EXCEPT ![f] = NoUpload]
     \/ /\ record_upload(f, "pending")
        /\ upload' = [upload EXCEPT ![f].pc = "sent"]
  /\ UNCHANGED <<kbSession, album, uploadLog, Reviews>>

Twins(binary) == {c \in Candidate : candidate[c].binary = binary
                                    /\ candidate[c].status # "deleted"}
FreshCandidate == {c \in Candidate : candidate[c].status = "none"
                                     /\ \A d \in 1..(c - 1) : candidate[d].status # "none"}

\* The candidate of an upload needs no moderator.
create_approved_operator_upload(c, f) ==
  candidate' = [candidate EXCEPT ![c] = [status |-> "approved", binary |-> opFile[f].binary]]

\* The candidate is committed before its chunks: when the index fails, or the api
\* dies, the request fails and the candidate stays behind without chunks.
CreateApproved(f) ==
  \/ upload' = [upload EXCEPT ![f].pc = "refused"] /\ UNCHANGED <<candidate, chunks>>
  \/ \E c \in FreshCandidate, indexed \in BOOLEAN :
       /\ create_approved_operator_upload(c, f)
       /\ chunks' = IF indexed THEN [chunks EXCEPT ![c] = upload[f].secret] ELSE chunks
       /\ upload' = [upload EXCEPT ![f].pc = IF indexed THEN "done" ELSE "refused",
                                   ![f].candidate = c, ![f].new = TRUE]

\* A binary that is known is answered with its oldest candidate. Transcribing
\* media lets other requests in before the candidate is created.
perform_operator_upload(f) ==
  /\ upload[f].pc = "sent"
  /\ LET twins == Twins(opFile[f].binary) IN
       IF opFile[f].status = "deleted"
         THEN /\ upload' = [upload EXCEPT ![f].pc = "refused"]
              /\ UNCHANGED <<candidate, chunks>>
       ELSE IF twins # {}
         THEN /\ upload' = [upload EXCEPT ![f].pc = "done", ![f].candidate =
                              CHOOSE c \in twins : \A d \in twins : c <= d]
              /\ UNCHANGED <<candidate, chunks>>
       ELSE \/ CreateApproved(f)
            \/ /\ upload' = [upload EXCEPT ![f].pc = "transcribe"]
               /\ UNCHANGED <<candidate, chunks>>
  /\ UNCHANGED <<kbSession, album, opFile, review, uploadLog>>

Transcribed(f) ==
  /\ upload[f].pc = "transcribe"
  /\ CreateApproved(f)
  /\ UNCHANGED <<kbSession, album, opFile, review, uploadLog>>

\* The answer arrives, or the bot has given up, or it was restarted meanwhile,
\* at the latest between the two updates of the record, and tells nobody.
RecordOutcome(f) ==
  /\ upload[f].pc \in {"done", "refused"}
  /\ \E heard \in {"answer", "timeout", "restart"} :
       LET ok == heard = "answer" /\ upload[f].pc = "done" IN
       /\ \/ opFile' = IF opFile[f].status # "pending" THEN opFile
                       ELSE IF ok THEN [opFile EXCEPT ![f].status = "ok",
                                                      ![f].candidate = upload[f].candidate]
                       ELSE [opFile EXCEPT ![f].status =
                               IF heard = "restart" THEN @ ELSE "failed"]
          \/ /\ heard = "restart" /\ upload[f].pc = "done" /\ opFile[f].status = "pending"
             /\ opFile' = [opFile EXCEPT ![f].status = "ok"]
       /\ uploadLog' = IF ok /\ upload[f].new
                         THEN [uploadLog EXCEPT !.added =
                                 @ \cup {[file |-> f, candidate |-> upload[f].candidate]}]
                         ELSE uploadLog
  /\ upload' = [upload EXCEPT ![f] = NoUpload]
  /\ UNCHANGED <<kbSession, album, Reviews>>

\* Waiting flushes and uploads that were not sent yet die with the bot; the
\* buffered rows stay until the album's next file.
RestartUploads ==
  /\ album' = [album EXCEPT !.flush = FALSE]
  /\ upload' = [f \in OpFile |-> IF upload[f].pc = "queued" THEN NoUpload ELSE upload[f]]
  /\ UNCHANGED <<kbSession, opFile, uploadLog, Reviews>>

\* The file, its candidate and the candidate's chunks go in one transaction over
\* the three databases; another file of the same binary keeps a dead link.
delete_file(f) ==
  /\ opFile[f].status \in {"pending", "ok", "failed"}
  /\ opFile' = [opFile EXCEPT ![f].status = "deleted"]
  /\ IF opFile[f].candidate = 0 THEN UNCHANGED <<candidate, chunks>>
     ELSE /\ candidate' = [candidate EXCEPT ![opFile[f].candidate].status = "deleted"]
          /\ chunks' = [chunks EXCEPT ![opFile[f].candidate] = "none"]
  /\ UNCHANGED <<kbSession, album, upload, review, uploadLog>>

-----------------------------------------------------------------------------
create_pending ==
  /\ \E c \in FreshCandidate : candidate' = [candidate EXCEPT ![c].status = "pending"]
  /\ UNCHANGED <<kbSession, album, opFile, upload, chunks, review, uploadLog>>

\* approve checks the status, indexes, checks it again and writes; reject checks
\* and writes.
DecideOn(m, c, approves) ==
  /\ review[m].pc = "idle" /\ candidate[c].status = "pending"
  /\ review' = [review EXCEPT ![m] = [pc |-> IF approves THEN "index" ELSE "write",
                                      candidate |-> c, approves |-> approves]]
  /\ UNCHANGED <<kbSession, album, opFile, upload, candidate, chunks, uploadLog>>

IndexApproved(m) ==
  /\ review[m].pc = "index"
  /\ chunks' = [chunks EXCEPT ![review[m].candidate] = "open"]
  /\ uploadLog' = [uploadLog EXCEPT !.unfinished = @ \cup {review[m].candidate}]
  /\ review' = [review EXCEPT ![m].pc = "mark"]
  /\ UNCHANGED <<kbSession, album, opFile, upload, candidate>>

mark_approved(m) ==
  /\ review[m].pc = "mark"
  /\ review' = IF candidate[review[m].candidate].status = "pending"
                 THEN [review EXCEPT ![m].pc = "write"]
                 ELSE [review EXCEPT ![m] = NoReview]
  /\ UNCHANGED <<kbSession, album, opFile, upload, candidate, chunks, uploadLog>>

Contested(m) == \E n \in Moderator \ {m} : review[n].candidate = review[m].candidate

WriteVerdict(m) ==
  LET c == review[m].candidate IN
  /\ review[m].pc = "write"
  /\ candidate' = [candidate EXCEPT ![c].status =
                     IF review[m].approves THEN "approved" ELSE "rejected"]
  /\ uploadLog' = [uploadLog EXCEPT !.unfinished =
                     IF review[m].approves /\ ~Contested(m) THEN @ \ {c} ELSE @]
  /\ review' = [review EXCEPT ![m] = NoReview]
  /\ UNCHANGED <<kbSession, album, opFile, upload, chunks>>

\* The index fails, or the api dies, in the middle.
ReviewStops(m) ==
  /\ review[m].pc # "idle"
  /\ review' = [review EXCEPT ![m] = NoReview]
  /\ UNCHANGED <<kbSession, album, opFile, upload, candidate, chunks, uploadLog>>

\* A step of the files F and the moderators M.
UploadStep(F, M) ==
  \/ \E s \in Secrecy : OpenSession(s)
  \/ EndSession \/ flush_media_group \/ RestartUploads \/ create_pending
  \/ \E f \in F, b \in Binary :
       \/ \E s \in Secrecy, inAlbum \in BOOLEAN : SendInSession(f, b, s, inAlbum)
       \/ SendOrphan(f, b)
  \/ \E f \in F : \/ process_operator_upload(f) \/ perform_operator_upload(f)
                  \/ Transcribed(f) \/ RecordOutcome(f) \/ delete_file(f)
  \/ \E m \in M : \/ \E c \in Candidate, a \in BOOLEAN : DecideOn(m, c, a)
                  \/ IndexApproved(m) \/ mark_approved(m) \/ WriteVerdict(m)
                  \/ ReviewStops(m)

UploadNext == UploadStep(OpFile, Moderator)

UploadSpec == UploadInit /\ [][UploadNext]_uploadVars

-----------------------------------------------------------------------------
\* A file the operator is told was newly added has chunks while its candidate is
\* there, secret ones when it was sent in a secret session; and the text of a
\* rejected candidate is in the index only when an approval that had indexed it was
\* interrupted, or was under way at the same time as the rejection.
IndexFollowsDecisions ==
  /\ \A a \in uploadLog.added : candidate[a.candidate].status # "deleted" =>
       /\ chunks[a.candidate] # "none"
       /\ a.file \in uploadLog.secret => chunks[a.candidate] = "secret"
  /\ \A c \in Candidate : candidate[c].status = "rejected" /\ chunks[c] # "none"
                          => c \in uploadLog.unfinished
=============================================================================
