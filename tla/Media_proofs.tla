---------------------------- MODULE Media_proofs ----------------------------
(***************************************************************************)
(* Proofs about Media, for every set of uploads and requests and any       *)
(* number of crashes and deployments.                                      *)
(*                                                                         *)
(* The disk and the table are tied together by how far the upload has come *)
(* (FilesFollowUploads); a request past its check of the file relies on    *)
(* nothing that can still change under it (ChecksStayTrue).                *)
(***************************************************************************)
EXTENDS Media, TLAPS

\* What is on the disk under the name of an upload, and whether it has a row.
FilesFollowUploads ==
    \A p \in Photo :
        /\ upload[p] = "new" => file[p] = "none"
        /\ upload[p] = "writing" => file[p] = "partial"
        /\ upload[p] \in {"written", "answered"} => file[p] = "whole"
        /\ upload[p] = "stored" =>
             /\ p \in medias
             /\ file[p] = "whole" \/ (file[p] = "none" /\ p \in wiped)
        /\ upload[p] = "failed" /\ file[p] # "none" =>
             failure[p] \in {"flush", "commit", "crash"}

\* What get_media_or_raise has found is still there.
ChecksStayTrue ==
    \A r \in Request : request[r].state = "checked" =>
        /\ request[r].photo \in Photo
        /\ \/ request[r].kind = "action"
           \/ request[r].photo \in medias /\ file[request[r].photo] = "whole"

Inv == TypeOK /\ FilesFollowUploads /\ ChecksStayTrue

LEMMA InitInv == Init => Inv
  BY FaultsAssumption
  DEF Init, Inv, TypeOK, FilesFollowUploads, ChecksStayTrue, NoRequest, Kind, Failure, Over

\* One upload takes a step: what it changes of its own row and file.
LEMMA UploadInv ==
    ASSUME Inv, NEW p \in Photo, Refuse(p) \/ StartWriting(p) \/ UploadStep(p)
    PROVE  Inv'
<1> USE DEF Inv, Moves, FailsAt, OnDisk
<1>1. TypeOK'
  BY DEF TypeOK, Refuse, StartWriting, UploadStep, FinishWriting, WriteFails, FlushFails,
         Answer, Commit, CommitFails, Failure, Over
<1>2. FilesFollowUploads'
  BY DEF TypeOK, FilesFollowUploads, Refuse, StartWriting, UploadStep, FinishWriting,
         WriteFails, FlushFails, Answer, Commit, CommitFails, Failure, Over
<1>3. ChecksStayTrue'
  BY DEF TypeOK, ChecksStayTrue, Refuse, StartWriting, UploadStep, FinishWriting,
         WriteFails, FlushFails, Answer, Commit, CommitFails, Failure, Over
<1> QED BY <1>1, <1>2, <1>3

LEMMA ArriveInv ==
    ASSUME Inv, NEW r \in Request, NEW kind \in Kind, NEW p \in Photo, Arrive(r, kind, p)
    PROVE  Inv'
<1>1. TypeOK'
  BY DEF Inv, TypeOK, Arrive
<1>2. FilesFollowUploads'
  BY DEF Inv, FilesFollowUploads, Arrive
<1>3. ChecksStayTrue'
  BY DEF Inv, TypeOK, FilesFollowUploads, ChecksStayTrue, Arrive, Found
<1> QED BY <1>1, <1>2, <1>3 DEF Inv

LEMMA SaveInv ==
    ASSUME Inv, NEW r \in Request, Save(r)
    PROVE  Inv'
  BY DEF Inv, TypeOK, FilesFollowUploads, ChecksStayTrue, Save, Concludes

\* A crash interrupts what is in flight; a deployment takes the files as well,
\* when no request is past its check any more.
LEMMA DiesInv ==
    ASSUME Inv, Crash \/ Deploy
    PROVE  Inv'
<1>1. /\ upload' = Interrupted /\ failure' = Blamed /\ medias' = medias
      /\ faults' = faults + 1 /\ faults < MaxFaults
      /\ request' = [r \in Request |->
                       IF request[r].state = "checked" THEN NoRequest ELSE request[r]]
  BY DEF Crash, Deploy, Dies
<1>2. \A p \in Photo : /\ InFlight(p) <=> upload[p] \in {"writing", "written", "answered"}
                       /\ upload'[p] = IF InFlight(p) THEN "failed" ELSE upload[p]
                       /\ failure'[p] = IF InFlight(p) THEN "crash" ELSE failure[p]
  BY <1>1 DEF Inv, TypeOK, InFlight, Over, Interrupted, Blamed
<1>3. /\ file' \in [Photo -> {"none", "partial", "whole"}] /\ wiped' \subseteq Photo
      /\ wiped \subseteq wiped'
      /\ \A p \in Photo : \/ file'[p] = file[p]
                          \/ file'[p] = "none" /\ (file[p] = "whole" => p \in wiped')
  BY DEF Crash, Deploy, Inv, TypeOK
<1>4. TypeOK'
  BY <1>1, <1>2, <1>3, FaultsAssumption
  DEF Inv, TypeOK, Failure, Over, Kind, NoRequest, Interrupted, Blamed
<1>5. FilesFollowUploads'
  BY <1>1, <1>2, <1>3 DEF Inv, TypeOK, FilesFollowUploads, Over
<1>6. ChecksStayTrue'
  BY <1>1 DEF ChecksStayTrue, NoRequest
<1> QED BY <1>4, <1>5, <1>6 DEF Inv

LEMMA NextInv == Inv /\ [Next]_vars => Inv'
<1> SUFFICES ASSUME Inv, [Next]_vars PROVE Inv'
  OBVIOUS
<1>1. CASE UNCHANGED vars
  BY <1>1 DEF vars, Inv, TypeOK, FilesFollowUploads, ChecksStayTrue
<1> QED BY <1>1, UploadInv, ArriveInv, SaveInv, DiesInv DEF Next

LEMMA InvHolds == Spec => []Inv
  BY InitInv, NextInv, PTL DEF Spec

\* Uploads, files, rows and requests keep their shape; only an upload that
\* ended well has a row, and one that failed says where.
THEOREM TypeCorrect == Spec => []TypeOK
  BY InvHolds, PTL DEF Inv

\* save_file, get_session and the container agree as far as they can: a row has
\* its whole file or lost it to a deployment, and a file left without a row
\* belongs to an upload that failed after the write, or died.
THEOREM DiskAgreesWithTable == Spec => []FilesMatchRows
<1>1. Inv => FilesMatchRows
  BY DEF Inv, TypeOK, FilesFollowUploads, FilesMatchRows, Over
<1> QED BY <1>1, InvHolds, PTL

\* Whatever uploads, requests, crashes and deployments do between a cafe's or a
\* dish's check of its picture and its COMMIT, the picture can be shown then.
THEOREM ChecksOfPicturesLast == Spec => SavedPicturesCanBeShown
<1>1. Inv /\ [Next]_vars =>
        \A r \in Request :
          request[r].state = "checked" /\ request'[r].state = "saved" =>
            \/ request[r].kind = "action"
            \/ file'[request[r].photo] = "whole"
  <2> SUFFICES ASSUME Inv, [Next]_vars, NEW r \in Request,
                      request[r].state = "checked", request'[r].state = "saved"
               PROVE  request[r].kind = "action" \/ file'[request[r].photo] = "whole"
    OBVIOUS
  <2>1. CASE \E p \in Photo : Refuse(p) \/ StartWriting(p) \/ UploadStep(p)
    BY <2>1 DEF Refuse, StartWriting, UploadStep, FinishWriting, WriteFails, FlushFails,
                Answer, Commit, CommitFails
  <2>2. CASE \E q \in Request, kind \in Kind, p \in Photo : Arrive(q, kind, p)
    BY <2>2 DEF Inv, TypeOK, Arrive
  <2>3. CASE \E q \in Request : Save(q)
    BY <2>3 DEF Inv, ChecksStayTrue, Save
  <2>4. CASE Crash \/ Deploy
    BY <2>4 DEF Crash, Deploy, Dies, NoRequest
  <2>5. CASE UNCHANGED vars
    BY <2>5 DEF vars
  <2> QED BY <2>1, <2>2, <2>3, <2>4, <2>5 DEF Next
<1> QED BY <1>1, InvHolds, PTL DEF Spec, SavedPicturesCanBeShown

\* An id that POST /media has answered and committed is refused to nobody, but
\* for a file that went with its container.
THEOREM StoredIdsAreAccepted == Spec => AnsweredIdsAreGood
<1> DEFINE Good == \A r \in Request :
         LET p == request'[r].photo
         IN request'[r].state = "refused" /\ request'[r] # request[r] =>
               \/ upload[p] # "stored"
               \/ p \in wiped
<1>1. Inv /\ [Next]_vars => Good
  <2> SUFFICES ASSUME Inv, [Next]_vars, NEW r \in Request,
                      request'[r].state = "refused", request'[r] # request[r],
                      upload[request'[r].photo] = "stored"
               PROVE  request'[r].photo \in wiped
    OBVIOUS
  <2>1. CASE \E p \in Photo : Refuse(p) \/ StartWriting(p) \/ UploadStep(p)
    BY <2>1 DEF Refuse, StartWriting, UploadStep, FinishWriting, WriteFails, FlushFails,
                Answer, Commit, CommitFails
  <2>2. ASSUME NEW q \in Request, NEW kind \in Kind, NEW p \in Photo, Arrive(q, kind, p)
        PROVE  request'[r].photo \in wiped
    <3>1. request'[r].photo = p /\ ~Found(p)
      BY <2>2 DEF Inv, TypeOK, Arrive
    <3> QED BY <3>1 DEF Inv, FilesFollowUploads, Found
  <2>3. ASSUME NEW q \in Request, Save(q) PROVE request'[r].photo \in wiped
    <3>1. q = r /\ request'[r].photo = request[r].photo /\ request[r].photo \notin medias
          /\ request[r].state = "checked"
      BY <2>3 DEF Inv, TypeOK, Save, Concludes
    <3> QED BY <3>1 DEF Inv, FilesFollowUploads, ChecksStayTrue
  <2>4. CASE Crash \/ Deploy
    BY <2>4 DEF Crash, Deploy, Dies, NoRequest
  <2>5. CASE UNCHANGED vars
    BY <2>5 DEF vars
  <2> QED BY <2>1, <2>2, <2>3, <2>4, <2>5 DEF Next
<1> QED BY <1>1, InvHolds, PTL DEF Spec, AnsweredIdsAreGood
=============================================================================
