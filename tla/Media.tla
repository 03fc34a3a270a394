------------------------------- MODULE Media -------------------------------
(***************************************************************************)
(* Pictures: POST /media writes a file, then a row, then answers, and only *)
(* then commits; cafes, dishes and actions name a picture by its id.       *)
(*                                                                         *)
(* The disk is not part of any transaction.  The session's COMMIT is the   *)
(* exit code of the dependency get_session, which FastAPI runs after the   *)
(* response has left, so a client may use an id that is not committed yet. *)
(* The application container mounts no volume for MEDIA_ROOT: deploying it *)
(* anew keeps the rows and loses the files.                                *)
(*                                                                         *)
(* A definition marked "mutant" takes no part in the specification.        *)
(***************************************************************************)
EXTENDS Naturals, FiniteSets

CONSTANTS
    Photo,            \* one upload each: the uuid4 drawn for it
    Request,          \* requests that save a cafe, a dish or an action
    MaxFaults         \* bound: crashes and deployments

ASSUME FaultsAssumption == MaxFaults \in Nat

VARIABLES
    upload,     \* Photo -> how far its POST /media has come
    file,       \* Photo -> what is on the disk under its name
    medias,     \* committed rows
    wiped,      \* files that were whole and went with a container
    failure,    \* Photo -> where its upload failed
    request,    \* Request -> what it saves, the picture it names, how far it is
    faults      \* crashes and deployments so far

vars == <<upload, file, medias, wiped, failure, request, faults>>

Failure == {"none", "checks", "write", "flush", "commit", "crash"}
Over == {"stored", "failed"}
InFlight(p) == upload[p] \notin {"new"} \cup Over

Moves(p, from, to) == upload[p] = from /\ upload' = [upload EXCEPT ![p] = to]
FailsAt(p, where) == failure' = [failure EXCEPT ![p] = where]
OnDisk(p, what) == file' = [file EXCEPT ![p] = what]

----------------------------------------------------------------------------
\* MediaCRUD.save_file

\* 415 or 413: the content type, the size, or a body that is no image.
Refuse(p) ==
    /\ Moves(p, "new", "failed")
    /\ FailsAt(p, "checks")
    /\ UNCHANGED <<file, medias, wiped, request, faults>>

\* write_bytes opens the file, and fills it.
StartWriting(p) ==
    /\ Moves(p, "new", "writing")
    /\ OnDisk(p, "partial")
    /\ UNCHANGED <<medias, wiped, failure, request, faults>>

FinishWriting(p) ==
    /\ Moves(p, "writing", "written")
    /\ OnDisk(p, "whole")
    /\ UNCHANGED <<medias, wiped, failure, request, faults>>

WriteFailsAndLeavesTheFile(p) ==                                   \* mutant
    /\ Moves(p, "writing", "failed")
    /\ FailsAt(p, "write")
    /\ UNCHANGED <<file, medias, wiped, request, faults>>

\* OSError: what was written is unlinked.
WriteFails(p) ==
    /\ Moves(p, "writing", "failed")
    /\ FailsAt(p, "write")
    /\ OnDisk(p, "none")
    /\ UNCHANGED <<medias, wiped, request, faults>>

\* The INSERT fails, say on a file name of more than 255 characters.
FlushFails(p) ==
    /\ Moves(p, "written", "failed")
    /\ FailsAt(p, "flush")
    /\ UNCHANGED <<file, medias, wiped, request, faults>>

\* flush and refresh; the endpoint answers 201 with the id.
Answer(p) ==
    /\ Moves(p, "written", "answered")
    /\ UNCHANGED <<file, medias, wiped, failure, request, faults>>

----------------------------------------------------------------------------
\* get_session, after the answer

SessionEndsUncommitted(p) ==                                       \* mutant
    /\ Moves(p, "answered", "stored")
    /\ UNCHANGED <<file, medias, wiped, failure, request, faults>>

Commit(p) ==
    /\ Moves(p, "answered", "stored")
    /\ medias' = medias \cup {p}
    /\ UNCHANGED <<file, wiped, failure, request, faults>>

CommitFails(p) ==
    /\ Moves(p, "answered", "failed")
    /\ FailsAt(p, "commit")
    /\ UNCHANGED <<file, medias, wiped, request, faults>>

----------------------------------------------------------------------------
\* Saving a cafe, a dish or an action that names a picture

Kind == {"cafe", "dish", "action"}
NoRequest == [kind |-> "dish", photo |-> "none", state |-> "idle"]

Concludes(r, state) == request' = [request EXCEPT ![r].state = state]

HasRow(p) == p \in medias                                          \* mutant
\* get_file_path: the row, and a file whose name starts with the id.
Found(p) == p \in medias /\ file[p] # "none"

\* get_media_or_raise looks for the file whatever check_file says; an action's
\* service does not call it.
Arrive(r, kind, p) ==
    /\ request[r].state \in {"idle", "saved", "refused"}
    /\ request' = [request EXCEPT ![r] =
         [kind |-> kind, photo |-> p,
          state |-> IF kind = "action" \/ Found(p) THEN "checked" ELSE "refused"]]
    /\ UNCHANGED <<upload, file, medias, wiped, failure, faults>>

\* The COMMIT of the object: the foreign key wants the picture's row.
Save(r) ==
    /\ request[r].state = "checked"
    /\ Concludes(r, IF request[r].photo \in medias THEN "saved" ELSE "refused")
    /\ UNCHANGED <<upload, file, medias, wiped, failure, faults>>

----------------------------------------------------------------------------
\* Faults

UploadsOutliveTheProcess == upload                                 \* mutant
Interrupted == [p \in Photo |-> IF InFlight(p) THEN "failed" ELSE upload[p]]
Blamed == [p \in Photo |-> IF InFlight(p) THEN "crash" ELSE failure[p]]

\* The application dies with all it is doing: an upload and a request that has
\* not answered are gone.
Dies ==
    /\ faults < MaxFaults
    /\ faults' = faults + 1
    /\ upload' = Interrupted
    /\ failure' = Blamed
    /\ request' = [r \in Request |->
                     IF request[r].state = "checked" THEN NoRequest ELSE request[r]]
    /\ UNCHANGED medias

Crash == Dies /\ UNCHANGED <<file, wiped>>

\* A new container takes the place of the old one.
Deploy ==
    /\ Dies
    /\ file' = [p \in Photo |-> "none"]
    /\ wiped' = wiped \cup {p \in Photo : file[p] = "whole"}

----------------------------------------------------------------------------

Init ==
    /\ upload = [p \in Photo |-> "new"]
    /\ file = [p \in Photo |-> "none"]
    /\ medias = {}
    /\ wiped = {}
    /\ failure = [p \in Photo |-> "none"]
    /\ request = [r \in Request |-> NoRequest]
    /\ faults = 0

UploadStep(p) ==
    \/ FinishWriting(p) \/ WriteFails(p)
    \/ FlushFails(p) \/ Answer(p)
    \/ Commit(p) \/ CommitFails(p)

Next ==
    \/ \E p \in Photo : Refuse(p) \/ StartWriting(p) \/ UploadStep(p)
    \/ \E r \in Request, kind \in Kind, p \in Photo : Arrive(r, kind, p)
    \/ \E r \in Request : Save(r)
    \/ Crash
    \/ Deploy

Spec == Init /\ [][Next]_vars

----------------------------------------------------------------------------
\* Properties

\* An upload that failed says where, a row belongs to an upload that ended.
TypeOK ==
    /\ upload \in [Photo -> {"new", "writing", "written", "answered"} \cup Over]
    /\ file \in [Photo -> {"none", "partial", "whole"}]
    /\ medias \subseteq {p \in Photo : upload[p] = "stored"}
    /\ wiped \subseteq Photo
    /\ failure \in [Photo -> Failure]
    /\ \A p \in Photo : upload[p] = "failed" <=> failure[p] # "none"
    /\ request \in [Request -> [kind : Kind, photo : Photo \cup {"none"},
                                state : {"idle", "checked", "saved", "refused"}]]
    /\ faults \in 0 .. MaxFaults

\* Disk and table agree as far as two systems can: a committed row has its
\* whole file unless a deployment took it, so no GET serves half a picture; a
\* file without a row, once its upload is over, is one that failed after the
\* write, or in the middle of it with the process.
FilesMatchRows ==
    \A p \in Photo :
        /\ p \in medias => file[p] = "whole" \/ (file[p] = "none" /\ p \in wiped)
        /\ upload[p] \in Over /\ p \notin medias /\ file[p] # "none" =>
             failure[p] \in {"flush", "commit", "crash"}

\* A cafe or a dish is only ever saved with a picture that can be shown at that
\* moment: the answer of the check cannot go stale before the COMMIT.  (Of an
\* action the foreign key asks only for the row.)
SavedPicturesCanBeShown ==
    [][\A r \in Request :
         request[r].state = "checked" /\ request'[r].state = "saved" =>
            \/ request[r].kind = "action"
            \/ file'[request[r].photo] = "whole"]_vars

\* An id the server has answered is refused only while its COMMIT is still to
\* come, or when that COMMIT failed or died, or for a file a deployment took.
AnsweredIdsAreGood ==
    [][\A r \in Request :
         LET p == request'[r].photo
         IN request'[r].state = "refused" /\ request'[r] # request[r] =>
               \/ upload[p] # "stored"
               \/ p \in wiped]_vars

=============================================================================
