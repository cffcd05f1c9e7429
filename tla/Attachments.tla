---------------------------- MODULE Attachments ----------------------------
(***************************************************************************)
(* The images of complaints: the rows of complaint_attachments, the files  *)
(* of the store, and the requests that must keep the two in step           *)
(* (domain/service/attachment_service.go,                                  *)
(* repository/complaint_attachment_repo.go, complaint_handler.go Delete).  *)
(*                                                                         *)
(* A handler is one action per call to the database or to the store, which *)
(* is the Store that DiskStore implements: its calls have their effect at  *)
(* one time, and one that fails has none. The image of an upload has a     *)
(* random internal name, so it is known here by its upload.                *)
(***************************************************************************)
EXTENDS Naturals, FiniteSets

CONSTANTS
  Complaints,   \* complaints that may be made
  Uploads,      \* requests to upload an image
  Removals,     \* requests to delete an image or a complaint
  Images,       \* what an image may be, for its sha256
  NoUpload,
  Limit         \* MaxAttachmentsPerComplaint, 3 in the code

ASSUME AttachmentsAssumption ==
  /\ IsFiniteSet(Uploads)
  /\ Complaints # {} /\ Uploads # {} /\ Images # {}
  /\ NoUpload \notin Uploads
  /\ Limit \in Nat

UploadStates == {"new", "counting", "storing", "locking", "inserting", "committing", "cleaning", "done"}
InTransaction == {"inserting", "committing"}
RemovalStates == {"new", "deleting", "listing", "dropping", "sweeping", "done"}

VARIABLES
  complaint,  \* the row of every complaint
  rows,       \* the rows of complaint_attachments
  locked,     \* the transaction that holds a complaint's row (FOR UPDATE)
  files,      \* the files of the store
  up,         \* every upload
  of,         \* the complaint it is for
  image,      \* its image, after ProcessUpload
  pc,         \* every removal
  about,      \* the complaint it is about
  list,       \* the files it has still to delete
  left,       \* the files it could not delete
  cascade,    \* history: the rows that went with the complaint it deleted
  lost,       \* history: uploads whose commit was done but not heard of
  excused     \* history: files that nobody will delete, for a known reason

uploadVars == <<up, of, image>>
removalVars == <<pc, about, list, left, cascade>>
vars == <<complaint, rows, locked, files, uploadVars, removalVars, lost, excused>>

RowsOf(q) == {u \in rows : of[u] = q}

(* Types; and a locked row is locked by a transaction on it that is open   *)
(* (the deferred Rollback of CreateWithinLimit leaves none behind).        *)
TypeOK ==
  /\ complaint \in [Complaints -> {"absent", "live", "gone"}]
  /\ rows \subseteq Uploads
  /\ locked \in [Complaints -> Uploads \cup {NoUpload}]
  /\ files \subseteq Uploads
  /\ up \in [Uploads -> UploadStates]
  /\ of \in [Uploads -> Complaints]
  /\ image \in [Uploads -> Images]
  /\ pc \in [Removals -> RemovalStates]
  /\ about \in [Removals -> Complaints]
  /\ list \in [Removals -> SUBSET Uploads]
  /\ left \in [Removals -> SUBSET Uploads]
  /\ cascade \in [Removals -> SUBSET Uploads]
  /\ lost \subseteq Uploads
  /\ excused \subseteq Uploads
  /\ \A q \in Complaints : locked[q] # NoUpload =>
       up[locked[q]] \in InTransaction /\ of[locked[q]] = q

SomeComplaint == CHOOSE q \in Complaints : TRUE
SomeImage == CHOOSE i \in Images : TRUE

Init ==
  /\ complaint = [q \in Complaints |-> "absent"]
  /\ rows = {}
  /\ locked = [q \in Complaints |-> NoUpload]
  /\ files = {}
  /\ up = [u \in Uploads |-> "new"]
  /\ of = [u \in Uploads |-> SomeComplaint]
  /\ image = [u \in Uploads |-> SomeImage]
  /\ pc = [r \in Removals |-> "new"]
  /\ about = [r \in Removals |-> SomeComplaint]
  /\ list = [r \in Removals |-> {}]
  /\ left = [r \in Removals |-> {}]
  /\ cascade = [r \in Removals |-> {}]
  /\ lost = {}
  /\ excused = {}

CreateComplaint(q) ==
  /\ complaint[q] = "absent"
  /\ complaint' = [complaint EXCEPT ![q] = "live"]
  /\ UNCHANGED <<rows, locked, files, uploadVars, removalVars, lost, excused>>

-----------------------------------------------------------------------------
(* Upload.                                                                 *)

Goes(u, from, to) ==
  /\ up[u] = from
  /\ up' = [up EXCEPT ![u] = to]
  /\ UNCHANGED <<of, image>>

(* authorize: there is such a complaint, and it is the passenger's own.    *)
Upload(u, q, i) ==
  /\ up[u] = "new"
  /\ complaint[q] = "live"
  /\ up' = [up EXCEPT ![u] = "counting"]
  /\ of' = [of EXCEPT ![u] = q]
  /\ image' = [image EXCEPT ![u] = i]
  /\ UNCHANGED <<complaint, rows, locked, files, removalVars, lost, excused>>

(* CountByComplaintID and ProcessUpload; or the database fails, or the     *)
(* image is not accepted.                                                  *)
Count(u) ==
  /\ \/ Cardinality(RowsOf(of[u])) < Limit /\ Goes(u, "counting", "storing")
     \/ Goes(u, "counting", "done")
  /\ UNCHANGED <<complaint, rows, locked, files, removalVars, lost, excused>>

(* store.Put, under a name nobody else has.                                *)
Put_Unchecked(u) ==
  /\ \/ Goes(u, "storing", "locking") /\ files' = files \cup {u}
     \/ Goes(u, "storing", "locking") /\ UNCHANGED files
  /\ UNCHANGED <<complaint, rows, locked, removalVars, lost, excused>>
Put(u) ==
  /\ \/ Goes(u, "storing", "locking") /\ files' = files \cup {u}
     \/ Goes(u, "storing", "done") /\ UNCHANGED files
  /\ UNCHANGED <<complaint, rows, locked, removalVars, lost, excused>>

(* CreateWithinLimit, a transaction. It waits for the complaint's row and  *)
(* locks it, unless the complaint is gone, or the database fails...         *)
LockComplaint_None(u) ==
  LET q == of[u] IN
  /\ complaint[q] = "live"
  /\ Goes(u, "locking", "inserting")
  /\ UNCHANGED <<complaint, rows, locked, files, removalVars, lost, excused>>
LockComplaint(u) ==
  LET q == of[u] IN
  /\ complaint[q] = "live"
  /\ locked[q] = NoUpload
  /\ Goes(u, "locking", "inserting")
  /\ locked' = [locked EXCEPT ![q] = u]
  /\ UNCHANGED <<complaint, rows, files, removalVars, lost, excused>>

NoComplaint(u) ==
  /\ complaint[of[u]] # "live"
  /\ Goes(u, "locking", "cleaning")
  /\ UNCHANGED <<complaint, rows, locked, files, removalVars, lost, excused>>

LockFails(u) ==
  /\ Goes(u, "locking", "cleaning")
  /\ UNCHANGED <<complaint, rows, locked, files, removalVars, lost, excused>>

(* ... counts, and inserts unless the image is there already...            *)
Insert(u) ==
  /\ Cardinality(RowsOf(of[u])) < Limit
  /\ \A v \in RowsOf(of[u]) : image[v] # image[u]
  /\ Goes(u, "inserting", "committing")
  /\ UNCHANGED <<complaint, rows, locked, files, removalVars, lost, excused>>

(* The deferred Rollback, or the end of a commit, lets the row go.         *)
Unlock_None(u) == UNCHANGED locked
Unlock(u) == locked' = [q \in Complaints |-> IF locked[q] = u THEN NoUpload ELSE locked[q]]

(* ... or rolls back: the limit, a duplicate, a failure of the database... *)
Rollback_KeepsFile(u) ==
  /\ Goes(u, "inserting", "done") \/ Goes(u, "committing", "done")
  /\ Unlock(u)
  /\ UNCHANGED <<complaint, rows, files, removalVars, lost, excused>>
Rollback(u) ==
  /\ Goes(u, "inserting", "cleaning") \/ Goes(u, "committing", "cleaning")
  /\ Unlock(u)
  /\ UNCHANGED <<complaint, rows, files, removalVars, lost, excused>>

(* ... and commits.                                                        *)
Commit(u) ==
  /\ Goes(u, "committing", "done")
  /\ rows' = rows \cup {u}
  /\ Unlock(u)
  /\ UNCHANGED <<complaint, files, removalVars, lost, excused>>

(* The commit is done, but the answer never comes: Commit returns an error *)
(* as if it were not.                                                      *)
CommitUnheard(u) ==
  /\ Goes(u, "committing", "cleaning")
  /\ rows' = rows \cup {u}
  /\ lost' = lost \cup {u}
  /\ Unlock(u)
  /\ UNCHANGED <<complaint, files, removalVars, excused>>

(* removeOrphan, which a cancelled request does not keep from running; the *)
(* store may fail, and that is only logged.                                *)
Clean(u) ==
  /\ Goes(u, "cleaning", "done")
  /\ \/ files' = files \ {u} /\ UNCHANGED excused
     \/ excused' = excused \cup {u} /\ UNCHANGED files
  /\ UNCHANGED <<complaint, rows, locked, removalVars, lost>>

-----------------------------------------------------------------------------
(* Delete, of one image: first its row, then its file.                     *)

Moves(r, from, to) ==
  /\ pc[r] = from
  /\ pc' = [pc EXCEPT ![r] = to]

DeleteImage(r, u) ==
  /\ Moves(r, "new", "deleting")
  /\ up[u] # "new"
  /\ complaint[of[u]] = "live"
  /\ about' = [about EXCEPT ![r] = of[u]]
  /\ list' = [list EXCEPT ![r] = {u}]
  /\ UNCHANGED <<complaint, rows, locked, files, uploadVars, left, cascade, lost, excused>>

(* repo.Delete gives the row it has deleted, to one request only. If its   *)
(* answer is lost the file stays.                                          *)
DeleteRow(r) ==
  /\ \/ /\ list[r] \subseteq rows
        /\ rows' = rows \ list[r]
        /\ \/ Moves(r, "deleting", "sweeping") /\ UNCHANGED <<list, excused>>
           \/ /\ Moves(r, "deleting", "done")
              /\ list' = [list EXCEPT ![r] = {}]
              /\ excused' = excused \cup list[r]
     \/ /\ Moves(r, "deleting", "done")
        /\ list' = [list EXCEPT ![r] = {}]
        /\ UNCHANGED <<rows, excused>>
  /\ UNCHANGED <<complaint, locked, files, uploadVars, about, left, cascade, lost>>

(* DeleteComplaintWithFiles: the images are listed, the complaint and with *)
(* it their rows are deleted, then the files that were listed.             *)
DeleteComplaint(r, q) ==
  /\ Moves(r, "new", "listing")
  /\ about' = [about EXCEPT ![r] = q]
  /\ UNCHANGED <<complaint, rows, locked, files, uploadVars, list, left, cascade, lost, excused>>

ListImages(r) ==
  /\ Moves(r, "listing", "dropping")
  /\ list' = [list EXCEPT ![r] = RowsOf(about[r])]
  /\ UNCHANGED <<complaint, rows, locked, files, uploadVars, about, left, cascade, lost, excused>>

(* The DELETE waits for a transaction that has locked the row, and its ON  *)
(* DELETE CASCADE takes every row there is by then. If its answer is lost  *)
(* no file is touched. An image that was added after the list was made is  *)
(* the one nobody knows of.                                                *)
DropComplaint(r) ==
  LET q == about[r]
      doomed == RowsOf(q) IN
  /\ complaint[q] = "live"
  /\ locked[q] = NoUpload
  /\ complaint' = [complaint EXCEPT ![q] = "gone"]
  /\ rows' = rows \ doomed
  /\ \/ /\ Moves(r, "dropping", "sweeping")
        /\ cascade' = [cascade EXCEPT ![r] = doomed]
        /\ excused' = excused \cup (doomed \ list[r])
        /\ UNCHANGED list
     \/ /\ Moves(r, "dropping", "done")
        /\ excused' = excused \cup doomed
        /\ list' = [list EXCEPT ![r] = {}]
        /\ UNCHANGED cascade
  /\ UNCHANGED <<locked, files, uploadVars, about, left, lost>>

(* No such complaint, or the database fails.                               *)
DropGone(r) ==
  /\ complaint[about[r]] # "live"
  /\ Moves(r, "dropping", "done")
  /\ list' = [list EXCEPT ![r] = {}]
  /\ UNCHANGED <<complaint, rows, locked, files, uploadVars, about, left, cascade, lost, excused>>

DropFails(r) ==
  /\ Moves(r, "listing", "done") \/ Moves(r, "dropping", "done")
  /\ list' = [list EXCEPT ![r] = {}]
  /\ UNCHANGED <<complaint, rows, locked, files, uploadVars, about, left, cascade, lost, excused>>

(* removeOrphan, file by file. A file that is not there is no error.       *)
RemoveFile(r) ==
  /\ pc[r] = "sweeping"
  /\ \E u \in list[r] :
       /\ list' = [list EXCEPT ![r] = @ \ {u}]
       /\ \/ files' = files \ {u} /\ UNCHANGED <<left, excused>>
          \/ /\ left' = [left EXCEPT ![r] = @ \cup {u}]
             /\ excused' = excused \cup {u}
             /\ UNCHANGED files
  /\ UNCHANGED <<complaint, rows, locked, uploadVars, pc, about, cascade, lost>>

Swept(r) ==
  /\ list[r] = {}
  /\ Moves(r, "sweeping", "done")
  /\ UNCHANGED <<complaint, rows, locked, files, uploadVars, about, list, left, cascade, lost, excused>>

-----------------------------------------------------------------------------
(* The process ends. Transactions in progress are rolled back, and no      *)
(* request goes on; the database and the volume of the files stay.         *)
InCharge(u) ==
  \/ up[u] \in {"locking", "inserting", "committing", "cleaning"}
  \/ \E r \in Removals : pc[r] = "sweeping" /\ u \in list[r]

Crash ==
  /\ excused' = excused \cup {u \in files : InCharge(u)}
  /\ up' = [u \in Uploads |-> IF up[u] = "new" THEN "new" ELSE "done"]
  /\ pc' = [r \in Removals |-> IF pc[r] = "new" THEN "new" ELSE "done"]
  /\ list' = [r \in Removals |-> {}]
  /\ locked' = [q \in Complaints |-> NoUpload]
  /\ UNCHANGED <<complaint, rows, files, of, image, about, left, cascade, lost>>

UploadStep(u) ==
  \/ Count(u)
  \/ Put(u)
  \/ NoComplaint(u)
  \/ Insert(u)
  \/ Rollback(u)
  \/ Commit(u)
  \/ CommitUnheard(u)
  \/ Clean(u)

RemovalStep(r) ==
  \/ DeleteRow(r)
  \/ ListImages(r)
  \/ DropGone(r)
  \/ RemoveFile(r)
  \/ Swept(r)

Next ==
  \/ \E q \in Complaints : CreateComplaint(q)
  \/ \E u \in Uploads :
       \/ \E q \in Complaints, i \in Images : Upload(u, q, i)
       \/ LockComplaint(u)
       \/ LockFails(u)
       \/ UploadStep(u)
  \/ \E r \in Removals :
       \/ \E u \in Uploads : DeleteImage(r, u)
       \/ \E q \in Complaints : DeleteComplaint(r, q)
       \/ DropComplaint(r)
       \/ DropFails(r)
       \/ RemovalStep(r)
  \/ Crash

Spec == Init /\ [][Next]_vars

(* Every call of a request returns (its context has an end), and the       *)
(* database gives a row's lock in the order it was asked for, so that who  *)
(* waits for it gets it if it is let go of again and again. Nothing is     *)
(* promised of failures.                                                   *)
FairSpec ==
  /\ Spec
  /\ \A u \in Uploads : WF_vars(UploadStep(u)) /\ SF_vars(LockComplaint(u))
  /\ \A r \in Removals : WF_vars(RemovalStep(r)) /\ SF_vars(DropComplaint(r))

-----------------------------------------------------------------------------
(* However many uploads pass the first count together, a complaint never   *)
(* has more than Limit images, not even once a transaction that has        *)
(* already counted commits (CreateWithinLimit counts with the row locked). *)
LimitHolds ==
  \A q \in Complaints :
    /\ Cardinality(RowsOf(q)) <= Limit
    /\ \A u \in Uploads : up[u] = "committing" /\ of[u] = q => Cardinality(RowsOf(q)) < Limit

(* An image that is on record has its file, unless the answer to the       *)
(* commit that recorded it was lost: put before row, row deleted before    *)
(* file, and a crash between any two of these.                             *)
RowsHaveFilesOrLost == rows \subseteq files \cup lost

(* A file that is not on record is in the hands of a request that has yet  *)
(* to record it or to delete it; or one of these happened: a crash, the    *)
(* store would not delete it, the database did not say what it had done,   *)
(* or the image was added to a complaint that was being deleted.           *)
NothingForgotten ==
  \A u \in files : u \in rows \/ InCharge(u) \/ u \in excused

(* Every request comes to an end: no upload waits for ever for the row of  *)
(* its complaint, whatever way the ones before it have failed.             *)
RequestsEnd ==
  /\ \A u \in Uploads : up[u] # "new" ~> up[u] = "done"
  /\ \A r \in Removals : pc[r] # "new" ~> pc[r] = "done"

(* What Delete says it is for: there is never "un registro que apunta a un *)
(* archivo inexistente". Refuted: see CommitUnheard.                       *)
RowsHaveFiles == rows \subseteq files

(* What DeleteComplaintWithFiles says: the files of a complaint's images   *)
(* are deleted with it, but for those that it answers were left. Refuted   *)
(* by an upload that commits between the list and the DELETE.              *)
FilesGoWithComplaint ==
  \A r \in Removals : pc[r] = "sweeping" => cascade[r] \cap files \subseteq list[r] \cup left[r]

=============================================================================
