--------------------------- MODULE StorageProofs ---------------------------
(* Theorems about the two halves of what keeps the images of complaints:   *)
(* DiskStore, their files, for any names, folders and calls, any number of *)
(* attempts and any room on the disk; Attachments, their rows, for any     *)
(* complaints, uploads and removals and any limit.                         *)
EXTENDS Attachments, DiskStore, FiniteSetTheorems, TLAPS

-----------------------------------------------------------------------------
(* DiskStore.                                                              *)

(* All that the properties rest on.                                        *)
IInv == StoreTypeOK /\ NamesAreWhole /\ TempsAreOwned /\ PutInv /\ LookInv /\ TriesAreRemovals /\ FolderInv

LEMMA Constants ==
  /\ SomeKey \in Keys
  /\ \A k \in Keys : FolderOf[k] \in Folders /\ FolderOf[k] # NoFolder
  /\ \A i \in Inodes : i # NoInode
BY DiskAssumption DEF SomeKey

LEMMA InitHolds == StoreInit => IInv
<1>. SUFFICES ASSUME StoreInit PROVE IInv
  OBVIOUS
<1>. USE DEF StoreInit
<1>1. StoreTypeOK
  <2>1. DiskTypeOK
    BY DEF DiskTypeOK
  <2>2. CallTypeOK
    BY Constants, DiskAssumption DEF CallTypeOK
  <2>. QED  BY <2>1, <2>2 DEF StoreTypeOK
<1>2. NamesAreWhole /\ TempsAreOwned
  BY DEF NamesAreWhole, TempsAreOwned
<1>3. PutInv /\ LookInv
  BY DEF PutInv, LookInv, Writing, At
<1>4. TriesAreRemovals /\ FolderInv
  BY DiskAssumption DEF TriesAreRemovals, FolderInv, At
<1>. QED  BY <1>1, <1>2, <1>3, <1>4 DEF IInv

-----------------------------------------------------------------------------
(* The shared parts of the actions.                                        *)

LEMMA GoToTyped ==
  ASSUME CallTypeOK, NEW c \in Calls, NEW step \in Steps \cup {"end"}, GoTo(c, step)
  PROVE  /\ syscall' \in [Calls -> Steps \cup {"end"}]
         /\ op' \in [Calls -> {"idle", "put", "open", "delete"}]
         /\ name' \in [Calls -> Keys]
         /\ syscall'[c] = step /\ \A d \in Calls \ {c} : syscall'[d] = syscall[d]
         /\ op' = op /\ name' = name
BY DEF CallTypeOK, GoTo

LEMMA ResetTyped ==
  ASSUME CallTypeOK, NEW C \in SUBSET Calls, Reset(C)
  PROVE  CallTypeOK'
<1>1. op' \in [Calls -> {"idle", "put", "open", "delete"}] /\ name' \in [Calls -> Keys]
  BY Constants DEF CallTypeOK, Reset
<1>2. syscall' \in [Calls -> Steps \cup {"end"}] /\ file' \in [Calls -> Inodes \cup {NoInode}]
  BY DEF CallTypeOK, Reset
<1>3. tries' \in [Calls -> 0 .. Attempts] /\ gone' \in [Calls -> 0 .. Attempts]
  BY DiskAssumption DEF CallTypeOK, Reset
<1>4. /\ answer' \in [Calls -> {"none", "ok", "image", "exists", "not_found", "failed"}]
      /\ missed' \in [Calls -> BOOLEAN]
  BY DEF CallTypeOK, Reset
<1>. QED  BY <1>1, <1>2, <1>3, <1>4 DEF CallTypeOK

LEMMA StoreTypeStep == IInv /\ [StoreNext]_storeVars => StoreTypeOK'
<1>. SUFFICES ASSUME IInv, [StoreNext]_storeVars PROVE StoreTypeOK'
  OBVIOUS
<1>0. /\ DiskTypeOK /\ CallTypeOK /\ crashed \in BOOLEAN
      /\ {"look", "mkdir", "create", "write", "link", "cleanup", "open", "remove", "rmdir"} = Steps
  BY DEF IInv, StoreTypeOK, Steps, PutSteps, OpenSteps, DeleteSteps
<1>. USE <1>0, Constants, DiskAssumption DEF StoreTypeOK
<1>1. ASSUME NEW c \in Calls, NEW o \in {"put", "open", "delete"}, NEW k \in Keys, Begin(c, o, k)
      PROVE  StoreTypeOK'
  BY <1>1 DEF Begin, diskVars, DiskTypeOK, CallTypeOK
<1>2. ASSUME NEW c \in Calls,
             PutLooks(c) \/ MkdirAll(c) \/ WriteFails(c) \/ Fail(c) \/ OpenFile(c) \/ DeleteLooks(c)
      PROVE  StoreTypeOK'
  <2>1. MkdirAll(c) => FolderOf[name[c]] \in Folders
    BY DEF CallTypeOK
  <2>2. OpenFile(c) /\ link[name[c]] = file[c] /\ link[name[c]] # NoInode
          => content[link[name[c]]] = "image"
    BY DEF IInv, NamesAreWhole, CallTypeOK
  <2>3. DiskTypeOK'
    BY <1>2, <2>1 DEF PutLooks, MkdirAll, WriteFails, Fail, OpenFile, DeleteLooks, diskVars, DiskTypeOK
  <2>4. UNCHANGED <<op, name>> /\ syscall' \in [Calls -> Steps \cup {"end"}]
    BY <1>2 DEF PutLooks, MkdirAll, WriteFails, Fail, OpenFile, DeleteLooks, Decide, GoTo, CallTypeOK
  <2>5. answer' \in [Calls -> {"none", "ok", "image", "exists", "not_found", "failed"}]
    BY <1>2, <2>2 DEF PutLooks, MkdirAll, WriteFails, Fail, OpenFile, DeleteLooks, Decide, CallTypeOK
  <2>6. UNCHANGED <<file, tries, missed, gone, crashed>>
    BY <1>2 DEF PutLooks, MkdirAll, WriteFails, Fail, OpenFile, DeleteLooks
  <2>. QED  BY <2>3, <2>4, <2>5, <2>6 DEF CallTypeOK
<1>3. ASSUME NEW c \in Calls, CreateTemp(c) PROVE StoreTypeOK'
  <2>1. FolderOf[name[c]] \in Folders
    BY DEF CallTypeOK
  <2>. QED  BY <1>3, <2>1 DEF CreateTemp, GoTo, DiskTypeOK, CallTypeOK
<1>4. ASSUME NEW c \in Calls, FolderGone(c) PROVE StoreTypeOK'
  <2>1. tries[c] \in 0 .. Attempts /\ tries[c] # Attempts
    BY <1>4 DEF FolderGone, At, CallTypeOK, IInv, FolderInv
  <2>2. tries' \in [Calls -> 0 .. Attempts]
    BY <1>4, <2>1 DEF FolderGone, CallTypeOK
  <2>3. /\ UNCHANGED <<op, name>> /\ syscall' \in [Calls -> Steps \cup {"end"}]
        /\ answer' \in [Calls -> {"none", "ok", "image", "exists", "not_found", "failed"}]
    BY <1>4 DEF FolderGone, Decide, GoTo, CallTypeOK
  <2>. QED  BY <1>4, <2>2, <2>3 DEF FolderGone, diskVars, DiskTypeOK, CallTypeOK
<1>5. ASSUME NEW c \in Calls, WriteSynced(c) \/ Cleanup(c) PROVE StoreTypeOK'
  BY <1>5 DEF WriteSynced, Cleanup, GoTo, DiskTypeOK, CallTypeOK
<1>6. ASSUME NEW c \in Calls, Link(c) PROVE StoreTypeOK'
  <2>1. file[c] \in Inodes
    BY <1>6 DEF Link, At, IInv, PutInv, Writing
  <2>2. link' \in [Keys -> Inodes \cup {NoInode}]
    BY <1>6, <2>1 DEF Link, DiskTypeOK
  <2>3. /\ UNCHANGED <<op, name>> /\ syscall' \in [Calls -> Steps \cup {"end"}]
        /\ answer' \in [Calls -> {"none", "ok", "image", "exists", "not_found", "failed"}]
    BY <1>6 DEF Link, Decide, GoTo, CallTypeOK
  <2>. QED  BY <1>6, <2>2, <2>3 DEF Link, DiskTypeOK, CallTypeOK
<1>7. ASSUME NEW c \in Calls, OpenLooks(c) PROVE StoreTypeOK'
  <2>1. link[name[c]] \in Inodes \cup {NoInode}
    BY DEF DiskTypeOK, CallTypeOK
  <2>2. file' \in [Calls -> Inodes \cup {NoInode}]
    BY <1>7, <2>1 DEF OpenLooks, CallTypeOK
  <2>3. /\ UNCHANGED <<op, name>> /\ syscall' \in [Calls -> Steps \cup {"end"}]
        /\ answer' \in [Calls -> {"none", "ok", "image", "exists", "not_found", "failed"}]
    BY <1>7 DEF OpenLooks, Decide, GoTo, CallTypeOK
  <2>. QED  BY <1>7, <2>2, <2>3 DEF OpenLooks, diskVars, DiskTypeOK, CallTypeOK
<1>8. ASSUME NEW c \in Calls, UnlinkFile(c) PROVE StoreTypeOK'
  <2>1. link' \in [Keys -> Inodes \cup {NoInode}] /\ missed' \in [Calls -> BOOLEAN]
    BY <1>8, ZenonT(30) DEF UnlinkFile, DiskTypeOK, CallTypeOK
  <2>2. /\ UNCHANGED <<op, name>> /\ syscall' \in [Calls -> Steps \cup {"end"}]
        /\ answer' \in [Calls -> {"none", "ok", "image", "exists", "not_found", "failed"}]
    BY <1>8 DEF UnlinkFile, Decide, GoTo, CallTypeOK
  <2>. QED  BY <1>8, <2>1, <2>2 DEF UnlinkFile, DiskTypeOK, CallTypeOK
<1>9. ASSUME NEW c \in Calls, RemoveFolder(c) PROVE StoreTypeOK'
  <2>1. gone' \in [Calls -> 0 .. Attempts]
    BY <1>9 DEF RemoveFolder, CallTypeOK
  <2>2. folders' \subseteq Folders
    BY <1>9 DEF RemoveFolder, DiskTypeOK
  <2>. QED  BY <1>9, <2>1, <2>2 DEF RemoveFolder, GoTo, DiskTypeOK, CallTypeOK
<1>10. ASSUME NEW c \in Calls, Return(c) PROVE StoreTypeOK'
  BY <1>10, ResetTyped DEF Return, diskVars, DiskTypeOK
<1>11. CASE ProcessDies
  BY <1>11, ResetTyped DEF ProcessDies, diskVars, DiskTypeOK
<1>12. CASE UNCHANGED storeVars
  BY <1>12 DEF storeVars, diskVars, callVars, DiskTypeOK, CallTypeOK
<1>. QED
  BY <1>1, <1>2, <1>3, <1>4, <1>5, <1>6, <1>7, <1>8, <1>9, <1>10, <1>11, <1>12
  DEF StoreNext, CallStep, PutStep, OpenStep, DeleteStep

-----------------------------------------------------------------------------
(* A step of one call leaves the control state of the others alone.        *)
LEMMA OneCall ==
  ASSUME CallTypeOK, NEW c \in Calls,
         CallStep(c) \/ \E o \in {"put", "open", "delete"}, k \in Keys : Begin(c, o, k)
  PROVE  \A d \in Calls \ {c} :
           /\ op'[d] = op[d] /\ name'[d] = name[d] /\ syscall'[d] = syscall[d] /\ file'[d] = file[d]
           /\ tries'[d] = tries[d] /\ answer'[d] = answer[d]
<1>1. ASSUME NEW o \in {"put", "open", "delete"}, NEW k \in Keys, Begin(c, o, k)
      PROVE  \A d \in Calls \ {c} :
               /\ op'[d] = op[d] /\ name'[d] = name[d] /\ syscall'[d] = syscall[d] /\ file'[d] = file[d]
               /\ tries'[d] = tries[d] /\ answer'[d] = answer[d]
  BY <1>1 DEF Begin, CallTypeOK
<1>2. ASSUME PutStep(c)
      PROVE  \A d \in Calls \ {c} :
               /\ op'[d] = op[d] /\ name'[d] = name[d] /\ syscall'[d] = syscall[d] /\ file'[d] = file[d]
               /\ tries'[d] = tries[d] /\ answer'[d] = answer[d]
  BY <1>2 DEF PutStep, PutLooks, MkdirAll, CreateTemp, FolderGone, WriteSynced, WriteFails, Link,
              Cleanup, GoTo, Decide, CallTypeOK
<1>3. ASSUME OpenStep(c) \/ DeleteStep(c) \/ Fail(c)
      PROVE  \A d \in Calls \ {c} :
               /\ op'[d] = op[d] /\ name'[d] = name[d] /\ syscall'[d] = syscall[d] /\ file'[d] = file[d]
               /\ tries'[d] = tries[d] /\ answer'[d] = answer[d]
  BY <1>3 DEF OpenStep, DeleteStep, OpenLooks, OpenFile, DeleteLooks, UnlinkFile, RemoveFolder, Fail,
              GoTo, Decide, CallTypeOK
<1>4. ASSUME Return(c)
      PROVE  \A d \in Calls \ {c} :
               /\ op'[d] = op[d] /\ name'[d] = name[d] /\ syscall'[d] = syscall[d] /\ file'[d] = file[d]
               /\ tries'[d] = tries[d] /\ answer'[d] = answer[d]
  BY <1>4 DEF Return, Reset
<1>. QED  BY <1>1, <1>2, <1>3, <1>4 DEF CallStep

(* Who writes keeps an inode of its own, which has no name before Link.    *)
LEMMA PutStepHolds == IInv /\ [StoreNext]_storeVars => PutInv'
<1>. SUFFICES ASSUME IInv, [StoreNext]_storeVars, NEW d \in Calls, Writing(d)'
              PROVE  /\ file'[d] \in Inodes
                     /\ temp'[file'[d]] = FolderOf[name'[d]]
                     /\ \A e \in Calls : Writing(e)' /\ file'[e] = file'[d] => e = d
                     /\ syscall'[d] \in {"write", "link"} => \A k \in Keys : link'[k] # file'[d]
                     /\ syscall'[d] = "link" => content'[file'[d]] = "image"
  BY DEF PutInv
<1>. DEFINE Own == /\ file'[d] \in Inodes
                   /\ temp'[file'[d]] = FolderOf[name'[d]]
                   /\ \A e \in Calls : Writing(e)' /\ file'[e] = file'[d] => e = d
                   /\ syscall'[d] \in {"write", "link"} => \A k \in Keys : link'[k] # file'[d]
                   /\ syscall'[d] = "link" => content'[file'[d]] = "image"
<1>0. DiskTypeOK /\ CallTypeOK /\ PutInv
  BY DEF IInv, StoreTypeOK
<1>. USE <1>0, Constants
<1>1. ASSUME NEW c \in Calls, NEW o \in {"put", "open", "delete"}, NEW k \in Keys, Begin(c, o, k)
      PROVE  Own
  <2>1. \A e \in Calls : Writing(e)' => e # c /\ Writing(e) /\ file'[e] = file[e] /\ syscall'[e] = syscall[e] /\ name'[e] = name[e]
    BY <1>1, OneCall DEF Begin, Writing, CallTypeOK
  <2>. QED  BY <1>1, <2>1 DEF Begin, diskVars, PutInv
<1>2. ASSUME NEW c \in Calls, CallStep(c),
             \A e \in Calls : Writing(e)' => Writing(e) /\ file'[e] = file[e],
             UNCHANGED <<link, temp, content>>,
             Writing(c)' => syscall'[c] = "cleanup" \/ syscall'[c] = syscall[c]
      PROVE  Own
  <2>1. syscall'[d] = "cleanup" \/ syscall'[d] = syscall[d]
    BY <1>2, OneCall
  <2>2. name'[d] = name[d]
    BY <1>2, OneCall, ResetTyped, ZenonT(30)
    DEF CallStep, PutStep, OpenStep, DeleteStep, PutLooks, MkdirAll, CreateTemp, FolderGone,
        WriteSynced, WriteFails, Link, Cleanup, OpenLooks, OpenFile, DeleteLooks, UnlinkFile,
        RemoveFolder, Fail, Return, Reset, GoTo, Decide, Writing
  <2>. QED  BY <1>2, <2>1, <2>2 DEF PutInv
<1>3. ASSUME NEW c \in Calls,
             PutLooks(c) \/ MkdirAll(c) \/ FolderGone(c) \/ WriteFails(c) \/ Fail(c) \/ OpenLooks(c)
               \/ OpenFile(c) \/ DeleteLooks(c) \/ RemoveFolder(c)
      PROVE  Own
  <2>1. CallStep(c)
    BY <1>3 DEF CallStep, PutStep, OpenStep, DeleteStep
  <2>2. Writing(c)' => Writing(c) /\ file'[c] = file[c] /\ syscall'[c] = "cleanup"
    BY <1>3 DEF PutLooks, MkdirAll, FolderGone, WriteFails, Fail, OpenLooks, OpenFile, DeleteLooks,
                RemoveFolder, At, GoTo, Decide, Writing, CallTypeOK
  <2>3. \A e \in Calls : Writing(e)' => Writing(e) /\ file'[e] = file[e]
    BY <2>1, <2>2, OneCall DEF Writing
  <2>4. UNCHANGED <<link, temp, content>>
    BY <1>3 DEF PutLooks, MkdirAll, FolderGone, WriteFails, Fail, OpenLooks, OpenFile, DeleteLooks,
                RemoveFolder, diskVars
  <2>. QED  BY <1>2, <2>1, <2>2, <2>3, <2>4
<1>4. ASSUME NEW c \in Calls, Return(c) PROVE Own
  <2>1. CallStep(c)
    BY <1>4 DEF CallStep
  <2>2. ~Writing(c)'
    BY <1>4 DEF Return, Reset, Writing
  <2>3. \A e \in Calls : Writing(e)' => Writing(e) /\ file'[e] = file[e]
    BY <2>1, <2>2, OneCall DEF Writing
  <2>. QED  BY <1>2, <1>4, <2>1, <2>2, <2>3 DEF Return, diskVars
<1>5. ASSUME NEW c \in Calls, CreateTemp(c) PROVE Own
  <2>1. CallStep(c)
    BY <1>5 DEF CallStep, PutStep
  <2>2. PICK i \in Inodes : /\ ~InUse(i)
                            /\ temp' = [temp EXCEPT ![i] = FolderOf[name[c]]]
                            /\ content' = [content EXCEPT ![i] = "partial"]
                            /\ file' = [file EXCEPT ![c] = i]
    BY <1>5 DEF CreateTemp
  <2>3. /\ op'[c] = "put" /\ syscall'[c] = "write" /\ name'[c] = name[c]
        /\ file'[c] = i /\ link' = link
    BY <1>5, <2>2 DEF CreateTemp, At, GoTo, CallTypeOK
  <2>4. \A e \in Calls \ {c} : Writing(e)' =>
          /\ Writing(e) /\ file'[e] = file[e] /\ syscall'[e] = syscall[e] /\ name'[e] = name[e]
          /\ file[e] # i
    <3>1. temp[i] = NoFolder
      BY <2>2 DEF InUse
    <3>. QED  BY <2>1, <3>1, OneCall DEF Writing, PutInv, CallTypeOK
  <2>5. CASE d = c
    BY <2>2, <2>3, <2>4, <2>5 DEF InUse, DiskTypeOK
  <2>6. CASE d # c
    BY <2>2, <2>3, <2>4, <2>6 DEF PutInv, DiskTypeOK
  <2>. QED  BY <2>5, <2>6
<1>6. ASSUME NEW c \in Calls, WriteSynced(c) \/ Link(c) \/ Cleanup(c) PROVE Own
  <2>1. CallStep(c)
    BY <1>6 DEF CallStep, PutStep
  <2>2. /\ Writing(c) /\ file' = file /\ name' = name /\ op' = op
        /\ WriteSynced(c) => syscall'[c] = "link" /\ syscall[c] = "write"
        /\ Link(c) => syscall'[c] = "cleanup"
        /\ Cleanup(c) => syscall'[c] = "end"
    BY <1>6 DEF WriteSynced, Link, Cleanup, At, GoTo, Decide, Writing, CallTypeOK
  <2>3. \A e \in Calls : Writing(e)' => Writing(e) /\ (e # c => syscall'[e] = syscall[e] /\ file[e] # file[c])
    BY <2>1, <2>2, OneCall DEF Writing, PutInv
  <2>4. CASE WriteSynced(c)
    BY <2>2, <2>3, <2>4 DEF WriteSynced, PutInv, DiskTypeOK
  <2>5. CASE Link(c)
    BY <2>2, <2>3, <2>5 DEF Link, PutInv, DiskTypeOK
  <2>6. CASE Cleanup(c)
    <3>1. d # c
      BY <2>2, <2>6 DEF Writing
    <3>. QED  BY <2>2, <2>3, <2>6, <3>1 DEF Cleanup, PutInv, DiskTypeOK
  <2>. QED  BY <1>6, <2>4, <2>5, <2>6
<1>7. ASSUME NEW c \in Calls, UnlinkFile(c) PROVE Own
  <2>1. CallStep(c)
    BY <1>7 DEF CallStep, DeleteStep
  <2>2. ~Writing(c)' /\ file' = file /\ name' = name
    BY <1>7 DEF UnlinkFile, At, Decide, GoTo, Writing, CallTypeOK
  <2>3. \A e \in Calls : Writing(e)' => Writing(e) /\ syscall'[e] = syscall[e]
    BY <2>1, <2>2, OneCall DEF Writing
  <2>4. \A k \in Keys : link'[k] = link[k] \/ link'[k] = NoInode
    BY <1>7 DEF UnlinkFile, DiskTypeOK
  <2>. QED  BY <1>7, <2>2, <2>3, <2>4 DEF UnlinkFile, PutInv
<1>8. CASE ProcessDies
  BY <1>8 DEF ProcessDies, Reset, Writing
<1>9. CASE UNCHANGED storeVars
  BY <1>9 DEF storeVars, diskVars, callVars, Writing, PutInv
<1>. QED
  BY <1>1, <1>3, <1>4, <1>5, <1>6, <1>7, <1>8, <1>9 DEF StoreNext, CallStep, PutStep, OpenStep, DeleteStep

-----------------------------------------------------------------------------
(* Files with a name are whole: they get it after they are synced, and an  *)
(* inode in use is not made again.                                         *)
LEMMA WholeStep == IInv /\ [StoreNext]_storeVars => NamesAreWhole'
<1>. SUFFICES ASSUME IInv, [StoreNext]_storeVars, NEW k \in Keys, link'[k] # NoInode
              PROVE  content'[link'[k]] = "image"
  BY DEF NamesAreWhole
<1>0. DiskTypeOK /\ CallTypeOK /\ PutInv /\ NamesAreWhole
  BY DEF IInv, StoreTypeOK
<1>. USE <1>0, Constants
<1>1. CASE UNCHANGED <<link, content>>
  BY <1>1 DEF NamesAreWhole
<1>2. ASSUME NEW c \in Calls, CreateTemp(c) PROVE content'[link'[k]] = "image"
  BY <1>2 DEF CreateTemp, InUse, NamesAreWhole, DiskTypeOK
<1>3. ASSUME NEW c \in Calls, WriteSynced(c) PROVE content'[link'[k]] = "image"
  BY <1>3 DEF WriteSynced, NamesAreWhole, DiskTypeOK
<1>4. ASSUME NEW c \in Calls, Link(c) PROVE content'[link'[k]] = "image"
  <2>1. content[file[c]] = "image"
    BY <1>4 DEF Link, At, PutInv, Writing
  <2>. QED  BY <1>4, <2>1 DEF Link, NamesAreWhole, DiskTypeOK
<1>5. ASSUME NEW c \in Calls, UnlinkFile(c) PROVE content'[link'[k]] = "image"
  BY <1>5 DEF UnlinkFile, NamesAreWhole, DiskTypeOK
<1>. QED
  BY <1>1, <1>2, <1>3, <1>4, <1>5
  DEF StoreNext, CallStep, PutStep, OpenStep, DeleteStep, Begin, PutLooks, MkdirAll, FolderGone, WriteFails,
      Cleanup, OpenLooks, OpenFile, DeleteLooks, RemoveFolder, Fail, Return, ProcessDies, storeVars, diskVars

(* No folder goes that holds a name or a temporary name.                   *)
LEMMA FoldersStep ==
  IInv /\ [StoreNext]_storeVars =>
    /\ \A i \in Inodes : temp'[i] # NoFolder => temp'[i] \in folders'
    /\ \A k \in Keys : link'[k] # NoInode => FolderOf[k] \in folders'
<1>. DEFINE Kept == /\ \A i \in Inodes : temp'[i] # NoFolder => temp'[i] \in folders'
                    /\ \A k \in Keys : link'[k] # NoInode => FolderOf[k] \in folders'
<1>. SUFFICES ASSUME IInv, [StoreNext]_storeVars PROVE Kept
  OBVIOUS
<1>0. DiskTypeOK /\ CallTypeOK /\ PutInv /\ TempsAreOwned
  BY DEF IInv, StoreTypeOK
<1>. USE <1>0, Constants
<1>1. CASE UNCHANGED <<folders, link, temp>>
  BY <1>1 DEF TempsAreOwned
<1>2. ASSUME NEW c \in Calls, MkdirAll(c) PROVE Kept
  BY <1>2 DEF MkdirAll, TempsAreOwned
<1>3. ASSUME NEW c \in Calls, CreateTemp(c) PROVE Kept
  BY <1>3 DEF CreateTemp, TempsAreOwned, DiskTypeOK
<1>4. ASSUME NEW c \in Calls, Link(c) PROVE Kept
  <2>1. FolderOf[name[c]] \in folders
    <3>1. file[c] \in Inodes /\ temp[file[c]] = FolderOf[name[c]]
      BY <1>4 DEF Link, At, PutInv, Writing
    <3>. QED  BY <3>1 DEF TempsAreOwned, CallTypeOK
  <2>. QED  BY <1>4, <2>1 DEF Link, TempsAreOwned, DiskTypeOK
<1>5. ASSUME NEW c \in Calls, Cleanup(c) PROVE Kept
  BY <1>5 DEF Cleanup, TempsAreOwned, DiskTypeOK
<1>6. ASSUME NEW c \in Calls, UnlinkFile(c) PROVE Kept
  BY <1>6 DEF UnlinkFile, TempsAreOwned, DiskTypeOK
<1>7. ASSUME NEW c \in Calls, RemoveFolder(c) PROVE Kept
  BY <1>7 DEF RemoveFolder, Empty, TempsAreOwned
<1>. QED
  BY <1>1, <1>2, <1>3, <1>4, <1>5, <1>6, <1>7
  DEF StoreNext, CallStep, PutStep, OpenStep, DeleteStep, Begin, PutLooks, FolderGone, WriteSynced, WriteFails,
      OpenLooks, OpenFile, DeleteLooks, Fail, Return, ProcessDies, storeVars, diskVars

(* A temporary file has its Put until Cleanup.                             *)
LEMMA OwnedStep ==
  IInv /\ [StoreNext]_storeVars =>
    \A i \in Inodes : temp'[i] # NoFolder /\ ~crashed' =>
      \E c \in Calls : op'[c] = "put" /\ file'[c] = i /\ syscall'[c] \in {"write", "link", "cleanup"}
<1>. SUFFICES ASSUME IInv, [StoreNext]_storeVars, NEW i \in Inodes, temp'[i] # NoFolder, ~crashed'
              PROVE  \E c \in Calls : Writing(c)' /\ file'[c] = i
  BY DEF Writing
<1>0. DiskTypeOK /\ CallTypeOK /\ PutInv /\ TempsAreOwned
  BY DEF IInv, StoreTypeOK
<1>. USE <1>0, Constants
<1>1. ASSUME temp[i] # NoFolder, ~crashed PROVE \E c \in Calls : Writing(c) /\ file[c] = i
  BY <1>1 DEF TempsAreOwned, Writing
<1>2. ASSUME NEW c \in Calls, CallStep(c) \/ (\E o \in {"put", "open", "delete"}, k \in Keys : Begin(c, o, k)),
             temp[i] # NoFolder, ~crashed,
             Writing(c) => Writing(c)' /\ file'[c] = file[c]
      PROVE  \E e \in Calls : Writing(e)' /\ file'[e] = i
  BY <1>1, <1>2, OneCall DEF Writing
<1>3. ASSUME NEW c \in Calls, NEW o \in {"put", "open", "delete"}, NEW k \in Keys, Begin(c, o, k)
      PROVE  \E e \in Calls : Writing(e)' /\ file'[e] = i
  BY <1>2, <1>3 DEF Begin, diskVars, Writing
<1>4. ASSUME NEW c \in Calls,
             PutLooks(c) \/ MkdirAll(c) \/ FolderGone(c) \/ WriteSynced(c) \/ WriteFails(c) \/ Link(c)
               \/ OpenLooks(c) \/ OpenFile(c) \/ DeleteLooks(c) \/ UnlinkFile(c) \/ RemoveFolder(c)
               \/ Fail(c) \/ Return(c)
      PROVE  \E e \in Calls : Writing(e)' /\ file'[e] = i
  <2>1. CallStep(c)
    BY <1>4 DEF CallStep, PutStep, OpenStep, DeleteStep
  <2>2. UNCHANGED <<temp, crashed>>
    BY <1>4 DEF PutLooks, MkdirAll, FolderGone, WriteSynced, WriteFails, Link, OpenLooks, OpenFile,
                DeleteLooks, UnlinkFile, RemoveFolder, Fail, Return, diskVars
  <2>3. Writing(c) => Writing(c)' /\ file'[c] = file[c]
    BY <1>4 DEF PutLooks, MkdirAll, FolderGone, WriteSynced, WriteFails, Link, OpenLooks, OpenFile,
                DeleteLooks, UnlinkFile, RemoveFolder, Fail, Return, At, GoTo, Decide, Writing, CallTypeOK
  <2>. QED  BY <1>2, <2>1, <2>2, <2>3
<1>5. ASSUME NEW c \in Calls, CreateTemp(c) PROVE \E e \in Calls : Writing(e)' /\ file'[e] = i
  <2>1. CallStep(c) /\ ~Writing(c) /\ crashed' = crashed
    BY <1>5 DEF CreateTemp, CallStep, PutStep, At, Writing
  <2>2. Writing(c)'
    BY <1>5 DEF CreateTemp, At, GoTo, Writing, CallTypeOK
  <2>3. temp'[i] = temp[i] \/ file'[c] = i
    BY <1>5 DEF CreateTemp, CallTypeOK, DiskTypeOK
  <2>. QED  BY <1>2, <2>1, <2>2, <2>3
<1>6. ASSUME NEW c \in Calls, Cleanup(c) PROVE \E e \in Calls : Writing(e)' /\ file'[e] = i
  <2>1. /\ CallStep(c) /\ crashed' = crashed /\ file' = file
        /\ temp' = [temp EXCEPT ![file[c]] = NoFolder]
    BY <1>6 DEF Cleanup, CallStep, PutStep
  <2>2. temp[i] # NoFolder /\ file[c] # i
    BY <2>1 DEF DiskTypeOK
  <2>3. PICK e \in Calls : Writing(e) /\ file[e] = i
    BY <1>1, <2>1, <2>2
  <2>4. e # c
    BY <2>2, <2>3
  <2>. QED  BY <2>1, <2>3, <2>4, OneCall DEF Writing
<1>7. CASE ProcessDies
  BY <1>7 DEF ProcessDies
<1>8. CASE UNCHANGED storeVars
  BY <1>1, <1>8 DEF storeVars, diskVars, callVars, Writing
<1>. QED
  BY <1>3, <1>4, <1>5, <1>6, <1>7, <1>8 DEF StoreNext, CallStep, PutStep, OpenStep, DeleteStep

LEMMA TempsStep == IInv /\ [StoreNext]_storeVars => TempsAreOwned'
BY FoldersStep, OwnedStep DEF TempsAreOwned

-----------------------------------------------------------------------------
(* An answer is decided once, and what a call looked for in vain it missed. *)
LEMMA LookStep == IInv /\ [StoreNext]_storeVars => LookInv'
<1>. SUFFICES ASSUME IInv, [StoreNext]_storeVars, NEW d \in Calls
              PROVE  /\ op'[d] = "idle" => answer'[d] = "none" /\ syscall'[d] = "end"
                     /\ op'[d] # "idle" =>
                          (answer'[d] = "none" <=> syscall'[d] \notin {"cleanup", "rmdir", "end"})
                     /\ op'[d] # "idle" /\ link'[name'[d]] = NoInode => missed'[d]
                     /\ op'[d] = "open" /\ syscall'[d] = "open" =>
                          file'[d] # NoInode /\ (link'[name'[d]] = file'[d] \/ missed'[d])
  BY DEF LookInv, At
<1>. DEFINE Decided == /\ op'[d] = "idle" => answer'[d] = "none" /\ syscall'[d] = "end"
                       /\ op'[d] # "idle" =>
                            (answer'[d] = "none" <=> syscall'[d] \notin {"cleanup", "rmdir", "end"})
            Looked == /\ op'[d] # "idle" /\ link'[name'[d]] = NoInode => missed'[d]
                      /\ op'[d] = "open" /\ syscall'[d] = "open" =>
                           file'[d] # NoInode /\ (link'[name'[d]] = file'[d] \/ missed'[d])
<1>0. DiskTypeOK /\ CallTypeOK /\ PutInv /\ LookInv
  BY DEF IInv, StoreTypeOK
<1>. USE <1>0, Constants
<1>1. ASSUME NEW c \in Calls, NEW o \in {"put", "open", "delete"}, NEW k \in Keys, Begin(c, o, k)
      PROVE  Decided /\ Looked
  <2>1. CASE d = c
    <3>1. /\ op'[c] = o /\ name'[c] = k /\ syscall'[c] = "look" /\ answer'[c] = "none" /\ link' = link
      BY <1>1 DEF Begin, LookInv, CallTypeOK, diskVars
    <3>2. missed'[c] = (link[k] = NoInode)
      BY <1>1 DEF Begin, CallTypeOK
    <3>. QED  BY <2>1, <3>1, <3>2
  <2>2. CASE d # c
    <3>1. /\ op'[d] = op[d] /\ name'[d] = name[d] /\ syscall'[d] = syscall[d] /\ file'[d] = file[d]
          /\ answer'[d] = answer[d] /\ missed'[d] = missed[d] /\ link' = link
      BY <1>1, <2>2, OneCall DEF Begin, diskVars, CallTypeOK
    <3>. QED  BY <3>1 DEF LookInv, At
  <2>. QED  BY <2>1, <2>2
<1>2. ASSUME NEW c \in Calls, CallStep(c) PROVE Decided
  <2>1. CASE d # c
    BY <1>2, <2>1, OneCall DEF LookInv
  <2>2. CASE d = c /\ PutStep(c)
    BY <2>2 DEF PutStep, PutLooks, MkdirAll, CreateTemp, FolderGone, WriteSynced, WriteFails, Link,
                Cleanup, At, GoTo, Decide, LookInv, CallTypeOK
  <2>3. CASE d = c /\ (OpenStep(c) \/ DeleteStep(c) \/ Fail(c))
    <3>1. CASE OpenLooks(c) \/ DeleteLooks(c) \/ UnlinkFile(c) \/ RemoveFolder(c) \/ Fail(c)
      BY <2>3, <3>1 DEF OpenLooks, DeleteLooks, UnlinkFile, RemoveFolder, Fail, At, GoTo, Decide,
                        LookInv, CallTypeOK
    <3>2. CASE OpenFile(c)
      <4>1. answer'[c] # "none" /\ syscall'[c] = "end" /\ op'[c] = "open"
        BY <3>2 DEF OpenFile, At, GoTo, Decide, CallTypeOK, DiskTypeOK
      <4>. QED  BY <2>3, <4>1
    <3>. QED  BY <2>3, <3>1, <3>2 DEF OpenStep, DeleteStep
  <2>4. CASE d = c /\ Return(c)
    BY <2>4 DEF Return, Reset
  <2>. QED  BY <1>2, <2>1, <2>2, <2>3, <2>4 DEF CallStep
<1>3. ASSUME NEW c \in Calls,
             PutStep(c) \/ DeleteLooks(c) \/ RemoveFolder(c) \/ Fail(c) \/ OpenFile(c)
      PROVE  Looked
  <2>1. /\ op'[d] = op[d] /\ name'[d] = name[d] /\ missed'[d] = missed[d]
        /\ link'[name[d]] = NoInode => link[name[d]] = NoInode
    BY <1>3 DEF PutStep, PutLooks, MkdirAll, CreateTemp, FolderGone, WriteSynced, WriteFails, Link, Cleanup,
                DeleteLooks, RemoveFolder, Fail, OpenFile, GoTo, Decide, diskVars, PutInv, Writing, At,
                CallTypeOK, DiskTypeOK
  <2>2. op'[d] = "open" /\ syscall'[d] = "open" =>
          /\ op[d] = "open" /\ syscall[d] = "open" /\ file'[d] = file[d]
    BY <1>3 DEF PutStep, PutLooks, MkdirAll, CreateTemp, FolderGone, WriteSynced, WriteFails, Link, Cleanup,
                DeleteLooks, RemoveFolder, Fail, OpenFile, GoTo, Decide, At, CallTypeOK
  <2>3. link'[name[d]] = link[name[d]] \/ link[name[d]] = NoInode
    BY <1>3 DEF PutStep, PutLooks, MkdirAll, CreateTemp, FolderGone, WriteSynced, WriteFails, Link, Cleanup,
                DeleteLooks, RemoveFolder, Fail, OpenFile, diskVars, CallTypeOK, DiskTypeOK
  <2>. QED  BY <2>1, <2>2, <2>3 DEF LookInv, At
<1>4. ASSUME NEW c \in Calls, OpenLooks(c) PROVE Looked
  <2>1. /\ op' = op /\ name' = name /\ missed' = missed /\ link' = link
        /\ d # c => syscall'[d] = syscall[d] /\ file'[d] = file[d]
        /\ syscall'[c] = "open" => file'[c] = link[name[c]] /\ link[name[c]] # NoInode
    BY <1>4 DEF OpenLooks, GoTo, Decide, diskVars, At, CallTypeOK
  <2>. QED  BY <2>1 DEF LookInv, At
<1>5. ASSUME NEW c \in Calls, UnlinkFile(c) PROVE Looked
  <2>1. /\ op' = op /\ name' = name /\ file' = file
        /\ syscall'[d] = "open" => syscall[d] = "open"
        /\ missed[d] => missed'[d]
    BY <1>5 DEF UnlinkFile, GoTo, Decide, At, CallTypeOK
  <2>2. link'[name[d]] = link[name[d]] \/ missed'[d]
    <3>1. link'[name[d]] = link[name[d]] \/ name[d] = name[c]
      BY <1>5 DEF UnlinkFile, DiskTypeOK, CallTypeOK
    <3>2. CASE link[name[c]] = NoInode
      BY <1>5, <3>2 DEF UnlinkFile
    <3>3. CASE link[name[c]] # NoInode
      <4>1. missed'[d] = (missed[d] \/ name[d] = name[c])
        BY <1>5, <3>3 DEF UnlinkFile
      <4>. QED  BY <3>1, <4>1
    <3>. QED  BY <3>2, <3>3
  <2>. QED  BY <2>1, <2>2 DEF LookInv, At
<1>6. ASSUME NEW c \in Calls, Return(c) PROVE Looked
  <2>1. CASE d = c
    BY <1>6, <2>1 DEF Return, Reset
  <2>2. CASE d # c
    BY <1>6, <2>2 DEF Return, Reset, diskVars, LookInv, At
  <2>. QED  BY <2>1, <2>2
<1>7. CASE ProcessDies
  BY <1>7 DEF ProcessDies, Reset
<1>8. CASE UNCHANGED storeVars
  BY <1>8 DEF storeVars, diskVars, callVars, LookInv, At
<1>. QED
  BY <1>1, <1>2, <1>3, <1>4, <1>5, <1>6, <1>7, <1>8 DEF StoreNext, CallStep, OpenStep, DeleteStep

-----------------------------------------------------------------------------
(* createTemp's loop: a folder that is not there was removed once more     *)
(* than the loop has counted.                                              *)
LEMMA TriesStep == IInv /\ [StoreNext]_storeVars => TriesAreRemovals' /\ FolderInv'
<1>. SUFFICES ASSUME IInv, [StoreNext]_storeVars, NEW d \in Calls
              PROVE  /\ tries'[d] <= gone'[d]
                     /\ op'[d] # "put" => tries'[d] = 0
                     /\ op'[d] = "put" /\ syscall'[d] = "create" /\ FolderOf[name'[d]] \notin folders' =>
                          tries'[d] < gone'[d]
                     /\ tries'[d] = Attempts => syscall'[d] = "end"
  BY DEF TriesAreRemovals, FolderInv, At
<1>. DEFINE Counted == /\ tries'[d] <= gone'[d]
                       /\ op'[d] # "put" => tries'[d] = 0
                       /\ op'[d] = "put" /\ syscall'[d] = "create" /\ FolderOf[name'[d]] \notin folders' =>
                            tries'[d] < gone'[d]
                       /\ tries'[d] = Attempts => syscall'[d] = "end"
<1>0. DiskTypeOK /\ CallTypeOK /\ TriesAreRemovals /\ FolderInv /\ LookInv
  BY DEF IInv, StoreTypeOK
<1>. USE <1>0, Constants, DiskAssumption
<1>t. tries[d] \in 0 .. Attempts /\ gone[d] \in 0 .. Attempts
  BY DEF CallTypeOK
<1>1. ASSUME NEW c \in Calls, CallStep(c) \/ (\E o \in {"put", "open", "delete"}, k \in Keys : Begin(c, o, k)),
             d # c, folders \subseteq folders', gone'[d] = gone[d]
      PROVE  Counted
  BY <1>1, OneCall DEF TriesAreRemovals, FolderInv, At
<1>2. ASSUME NEW c \in Calls, NEW o \in {"put", "open", "delete"}, NEW k \in Keys, Begin(c, o, k)
      PROVE  Counted
  <2>1. CASE d = c
    <3>1. /\ tries[c] = 0 /\ tries' = tries /\ gone' = gone
          /\ syscall'[c] = "look"
      BY <1>2 DEF Begin, FolderInv, CallTypeOK
    <3>. QED  BY <2>1, <3>1, <1>t
  <2>2. CASE d # c
    BY <1>1, <1>2, <2>2 DEF Begin, diskVars
  <2>. QED  BY <2>1, <2>2
<1>3. ASSUME NEW c \in Calls,
             PutLooks(c) \/ CreateTemp(c) \/ WriteSynced(c) \/ WriteFails(c) \/ Link(c) \/ Cleanup(c)
               \/ OpenLooks(c) \/ OpenFile(c) \/ DeleteLooks(c) \/ UnlinkFile(c) \/ Fail(c)
      PROVE  Counted
  <2>1. UNCHANGED <<folders, tries, gone, op>> /\ CallStep(c)
    BY <1>3 DEF PutLooks, CreateTemp, WriteSynced, WriteFails, Link, Cleanup, OpenLooks, OpenFile,
                DeleteLooks, UnlinkFile, Fail, GoTo, Decide, diskVars, CallStep, PutStep, OpenStep,
                DeleteStep
  <2>2. syscall[c] # "end" /\ syscall'[c] # "create"
    BY <1>3 DEF PutLooks, CreateTemp, WriteSynced, WriteFails, Link, Cleanup, OpenLooks, OpenFile,
                DeleteLooks, UnlinkFile, Fail, GoTo, Decide, At, CallTypeOK
  <2>3. CASE d = c
    BY <2>1, <2>2, <2>3 DEF TriesAreRemovals, FolderInv
  <2>4. CASE d # c
    BY <1>1, <2>1, <2>4
  <2>. QED  BY <2>3, <2>4
<1>4. ASSUME NEW c \in Calls, MkdirAll(c) PROVE Counted
  <2>1. /\ CallStep(c) /\ UNCHANGED <<tries, gone, op, name>> /\ folders \subseteq folders'
        /\ FolderOf[name[c]] \in folders' /\ syscall[c] # "end"
    BY <1>4 DEF MkdirAll, CallStep, PutStep, GoTo, At
  <2>2. CASE d = c
    BY <2>1, <2>2 DEF TriesAreRemovals, FolderInv
  <2>3. CASE d # c
    BY <1>1, <2>1, <2>3
  <2>. QED  BY <2>2, <2>3
<1>5. ASSUME NEW c \in Calls, FolderGone(c) PROVE Counted
  <2>1. /\ CallStep(c) /\ UNCHANGED <<folders, gone, op, name>>
        /\ op[c] = "put" /\ syscall[c] = "create" /\ FolderOf[name[c]] \notin folders
        /\ tries'[c] = tries[c] + 1
        /\ tries[c] + 1 < Attempts => syscall'[c] = "mkdir"
        /\ tries[c] + 1 >= Attempts => syscall'[c] = "end"
    BY <1>5 DEF FolderGone, CallStep, PutStep, GoTo, Decide, At, diskVars, CallTypeOK
  <2>2. CASE d = c
    BY <2>1, <2>2, <1>t DEF FolderInv, At
  <2>3. CASE d # c
    BY <1>1, <2>1, <2>3
  <2>. QED  BY <2>2, <2>3
<1>6. ASSUME NEW c \in Calls, RemoveFolder(c) PROVE Counted
  <2>1. /\ CallStep(c) /\ UNCHANGED <<tries, op, name>>
        /\ op[c] = "delete" /\ syscall'[c] = "end"
        /\ d # c => syscall'[d] = syscall[d]
    BY <1>6, OneCall DEF RemoveFolder, CallStep, DeleteStep, GoTo, At, CallTypeOK
  <2>2. CASE UNCHANGED <<folders, gone>>
    BY <2>1, <2>2, <1>t DEF TriesAreRemovals, FolderInv, At
  <2>3. CASE /\ folders' = folders \ {FolderOf[name[c]]}
             /\ gone' = [e \in Calls |->
                  IF FolderOf[name[e]] = FolderOf[name[c]] /\ gone[e] < Attempts
                    THEN gone[e] + 1 ELSE gone[e]]
    <3>1. gone'[d] = IF FolderOf[name[d]] = FolderOf[name[c]] /\ gone[d] < Attempts
                       THEN gone[d] + 1 ELSE gone[d]
      BY <2>3
    <3>. QED  BY <2>1, <2>3, <3>1, <1>t DEF TriesAreRemovals, FolderInv, At
  <2>. QED  BY <1>6, <2>2, <2>3 DEF RemoveFolder
<1>7. ASSUME NEW c \in Calls, Return(c) PROVE Counted
  <2>1. CASE d = c
    BY <1>7, <2>1 DEF Return, Reset
  <2>2. CASE d # c
    BY <1>1, <1>7, <2>2 DEF Return, Reset, diskVars, CallStep
  <2>. QED  BY <2>1, <2>2
<1>8. CASE ProcessDies
  BY <1>8 DEF ProcessDies, Reset
<1>9. CASE UNCHANGED storeVars
  BY <1>9 DEF storeVars, diskVars, callVars, TriesAreRemovals, FolderInv, At
<1>. QED
  BY <1>2, <1>3, <1>4, <1>5, <1>6, <1>7, <1>8, <1>9
  DEF StoreNext, CallStep, PutStep, OpenStep, DeleteStep

LEMMA Invariant == StoreSpec => []IInv
<1>1. IInv /\ [StoreNext]_storeVars => IInv'
  BY StoreTypeStep, WholeStep, TempsStep, PutStepHolds, LookStep, TriesStep DEF IInv
<1>. QED  BY InitHolds, <1>1, PTL DEF StoreSpec

(* The state of the store on disk is typed.                                *)
THEOREM StoreTypeCorrect == StoreSpec => []StoreTypeOK
<1>1. IInv => StoreTypeOK
  BY DEF IInv
<1>. QED  BY Invariant, <1>1, PTL

(* Whatever runs at the same time, and whenever the process crashes, a     *)
(* name is that of a whole image.                                          *)
THEOREM ImagesAreWhole == StoreSpec => []NamesAreWhole
<1>1. IInv => NamesAreWhole
  BY DEF IInv
<1>. QED  BY Invariant, <1>1, PTL

(* Temporary files are left behind by crashes only, and no folder is       *)
(* removed while it holds a file.                                          *)
THEOREM NothingLeftBehind == StoreSpec => []TempsAreOwned
<1>1. IInv => TempsAreOwned
  BY DEF IInv
<1>. QED  BY Invariant, <1>1, PTL

(* createTemp never gives up before its folder was removed Attempts times. *)
THEOREM GivesUpForRemovals == StoreSpec => []TriesAreRemovals
<1>1. IInv => TriesAreRemovals
  BY DEF IInv
<1>. QED  BY Invariant, <1>1, PTL

-----------------------------------------------------------------------------
(* The refinement of FileStore.                                            *)

Files == [k \in Keys |-> IF link[k] = NoInode THEN "absent" ELSE content[link[k]]]

LEMMA FilesHold ==
  ASSUME IInv
  PROVE  \A k \in Keys : /\ link[k] = NoInode => Files[k] = "absent"
                         /\ link[k] # NoInode => Files[k] = "image"
BY DEF IInv, NamesAreWhole, Files

(* A step that changes no name, and no file that has one.                  *)
LEMMA FilesSame ==
  ASSUME IInv, NamesAreWhole', UNCHANGED link
  PROVE  Files' = Files
BY DEF IInv, NamesAreWhole, Files

LEMMA AbstractInit == StoreInit => Abstract!Init
BY DEF StoreInit, Abstract!Init, SomeKey, Abstract!SomeKey, Abstract!Absent

LEMMA AbstractDecides ==
  ASSUME IInv, NEW c \in Calls, NEW a, NEW step, Decide(c, a, step)
  PROVE  /\ op[c] # "idle" => Abstract!Answer(c, a)
         /\ UNCHANGED <<op, name>>
BY DEF Decide, GoTo, Abstract!Answer

LEMMA AbstractStep == IInv /\ [StoreNext]_storeVars => [Abstract!Next]_(Abstract!vars)
<1>. SUFFICES ASSUME IInv, [StoreNext]_storeVars PROVE Abstract!Next \/ UNCHANGED <<Files, op, name, answer, missed>>
  BY DEF Abstract!vars, Files
<1>0. /\ DiskTypeOK /\ CallTypeOK /\ PutInv /\ LookInv /\ NamesAreWhole'
  BY WholeStep DEF IInv, StoreTypeOK
<1>. USE <1>0, Constants
<1>s. ASSUME UNCHANGED <<link, op, name, answer, missed>>
      PROVE  UNCHANGED <<Files, op, name, answer, missed>>
  BY <1>s, FilesSame
<1>1. ASSUME NEW c \in Calls, NEW o \in {"put", "open", "delete"}, NEW k \in Keys, Begin(c, o, k)
      PROVE  Abstract!Begin(c, o, k)
  <2>1. (link[k] = NoInode) = (Files[k] = "absent")
    BY FilesHold
  <2>2. Files' = Files
    BY <1>1, FilesSame DEF Begin, diskVars
  <2>. QED  BY <1>1, <2>1, <2>2 DEF Begin, Abstract!Begin, Abstract!Absent, Files
<1>2. ASSUME NEW c \in Calls, NEW step, op[c] # "idle", Decide(c, "failed", step), UNCHANGED <<link, missed>>
      PROVE  Abstract!Fail(c)
  <2>1. Files' = Files
    BY <1>2, FilesSame
  <2>. QED  BY <1>2, <2>1, AbstractDecides DEF Abstract!Fail, Files
<1>3. ASSUME NEW c \in Calls, NEW step, op[c] = "put", Decide(c, "exists", step),
             link[name[c]] # NoInode, UNCHANGED <<link, missed>>
      PROVE  Abstract!Put(c)
  <2>1. Files' = Files /\ Files[name[c]] # "absent"
    BY <1>3, FilesSame, FilesHold DEF CallTypeOK
  <2>. QED  BY <1>3, <2>1, AbstractDecides DEF Abstract!Put, Abstract!Absent, Files
<1>4. ASSUME NEW c \in Calls, op[c] = "delete", Decide(c, "not_found", "end"),
             link[name[c]] = NoInode, UNCHANGED <<link, missed>>
      PROVE  Abstract!Delete(c)
  <2>1. Files' = Files /\ Files[name[c]] = "absent"
    BY <1>4, FilesSame, FilesHold DEF CallTypeOK
  <2>. QED  BY <1>4, <2>1, AbstractDecides DEF Abstract!Delete, Abstract!Absent, Files
<1>5. ASSUME NEW c \in Calls, op[c] = "open", Decide(c, "not_found", "end"), missed[c],
             UNCHANGED <<link, missed>>
      PROVE  Abstract!Open(c)
  <2>1. Files' = Files
    BY <1>5, FilesSame
  <2>. QED  BY <1>5, <2>1, AbstractDecides DEF Abstract!Open, Files
<1>6. ASSUME NEW c \in Calls, PutLooks(c) PROVE Abstract!Next \/ UNCHANGED <<Files, op, name, answer, missed>>
  <2>1. op[c] = "put" /\ UNCHANGED <<link, missed>>
    BY <1>6 DEF PutLooks, At, diskVars
  <2>2. CASE link[name[c]] # NoInode
    BY <1>3, <1>6, <2>1, <2>2 DEF PutLooks, Abstract!Next
  <2>3. CASE link[name[c]] = NoInode
    BY <1>s, <1>6, <2>1, <2>3 DEF PutLooks, GoTo
  <2>. QED  BY <2>2, <2>3
<1>7. ASSUME NEW c \in Calls,
             MkdirAll(c) \/ CreateTemp(c) \/ WriteSynced(c) \/ Cleanup(c) \/ RemoveFolder(c)
      PROVE  UNCHANGED <<Files, op, name, answer, missed>>
  BY <1>s, <1>7 DEF MkdirAll, CreateTemp, WriteSynced, Cleanup, RemoveFolder, GoTo
<1>8. ASSUME NEW c \in Calls, FolderGone(c) PROVE Abstract!Next \/ UNCHANGED <<Files, op, name, answer, missed>>
  <2>1. op[c] # "idle" /\ UNCHANGED <<link, missed>>
    BY <1>8 DEF FolderGone, At, diskVars
  <2>2. CASE tries[c] + 1 < Attempts /\ GoTo(c, "mkdir") /\ UNCHANGED answer
    BY <1>s, <2>1, <2>2 DEF GoTo
  <2>3. CASE Decide(c, "failed", "end")
    BY <1>2, <2>1, <2>3 DEF Abstract!Next
  <2>. QED  BY <1>8, <2>2, <2>3 DEF FolderGone
<1>9. ASSUME NEW c \in Calls, WriteFails(c) \/ Fail(c) PROVE Abstract!Next
  <2>1. op[c] # "idle" /\ UNCHANGED <<link, missed>>
    BY <1>9 DEF WriteFails, Fail, At, diskVars
  <2>. QED  BY <1>2, <1>9, <2>1 DEF WriteFails, Fail, Abstract!Next
<1>10. ASSUME NEW c \in Calls, Link(c) PROVE Abstract!Next
  <2>1. op[c] = "put" /\ missed' = missed
    BY <1>10 DEF Link, At
  <2>2. CASE /\ link[name[c]] = NoInode
             /\ link' = [link EXCEPT ![name[c]] = file[c]]
             /\ Decide(c, "ok", "cleanup")
    <3>1. /\ content' = content /\ content[file[c]] = "image" /\ file[c] \in Inodes /\ name[c] \in Keys
      BY <1>10 DEF Link, At, PutInv, Writing, CallTypeOK
    <3>2. Files' = [Files EXCEPT ![name[c]] = "image"]
      BY <2>2, <3>1 DEF Files, DiskTypeOK
    <3>3. Files[name[c]] = "absent"
      BY <2>2, <3>1 DEF Files
    <3>. QED  BY <2>1, <2>2, <3>2, <3>3, AbstractDecides DEF Abstract!Put, Abstract!Absent, Abstract!Next, Files
  <2>3. CASE link[name[c]] # NoInode /\ Decide(c, "exists", "cleanup") /\ UNCHANGED link
    BY <1>3, <2>1, <2>3 DEF Abstract!Next
  <2>4. CASE Decide(c, "failed", "cleanup") /\ UNCHANGED link
    BY <1>2, <2>1, <2>4 DEF Abstract!Next
  <2>. QED  BY <1>10, <2>2, <2>3, <2>4 DEF Link
<1>11. ASSUME NEW c \in Calls, OpenLooks(c) PROVE Abstract!Next \/ UNCHANGED <<Files, op, name, answer, missed>>
  <2>1. op[c] = "open" /\ UNCHANGED <<link, missed>>
    BY <1>11 DEF OpenLooks, At, diskVars
  <2>2. CASE link[name[c]] = NoInode
    <3>1. missed[c]
      BY <2>1, <2>2 DEF LookInv
    <3>. QED  BY <1>5, <1>11, <2>1, <2>2, <3>1 DEF OpenLooks, Abstract!Next
  <2>3. CASE link[name[c]] # NoInode
    BY <1>s, <1>11, <2>1, <2>3 DEF OpenLooks, GoTo
  <2>. QED  BY <2>2, <2>3
<1>12. ASSUME NEW c \in Calls, OpenFile(c) PROVE Abstract!Next
  <2>1. op[c] = "open" /\ UNCHANGED <<link, missed>> /\ name[c] \in Keys
    BY <1>12 DEF OpenFile, At, diskVars, CallTypeOK
  <2>2. CASE link[name[c]] # NoInode /\ link[name[c]] = file[c]
    <3>1. Decide(c, content[link[name[c]]], "end") /\ content[link[name[c]]] = "image"
      BY <1>12, <2>1, <2>2 DEF OpenFile, IInv, NamesAreWhole
    <3>2. Files' = Files /\ Files[name[c]] = "image"
      BY <2>1, <2>2, FilesSame, FilesHold
    <3>. QED  BY <2>1, <3>1, <3>2, AbstractDecides DEF Abstract!Open, Abstract!Absent, Abstract!Next, Files
  <2>3. CASE link[name[c]] # file[c]
    <3>1. missed[c]
      BY <1>12, <2>1, <2>3 DEF OpenFile, LookInv
    <3>2. Decide(c, "not_found", "end")
      BY <1>12, <2>3 DEF OpenFile
    <3>. QED  BY <1>5, <2>1, <3>1, <3>2 DEF Abstract!Next
  <2>. QED  BY <1>12, <2>2, <2>3 DEF OpenFile
<1>13. ASSUME NEW c \in Calls, DeleteLooks(c) PROVE Abstract!Next \/ UNCHANGED <<Files, op, name, answer, missed>>
  <2>1. op[c] = "delete" /\ UNCHANGED <<link, missed>>
    BY <1>13 DEF DeleteLooks, At, diskVars
  <2>2. CASE link[name[c]] = NoInode
    BY <1>4, <1>13, <2>1, <2>2 DEF DeleteLooks, Abstract!Next
  <2>3. CASE link[name[c]] # NoInode
    BY <1>s, <1>13, <2>1, <2>3 DEF DeleteLooks, GoTo
  <2>. QED  BY <2>2, <2>3
<1>14. ASSUME NEW c \in Calls, UnlinkFile(c) PROVE Abstract!Next
  <2>1. op[c] = "delete" /\ name[c] \in Keys
    BY <1>14 DEF UnlinkFile, At, CallTypeOK
  <2>2. CASE link[name[c]] = NoInode
    BY <1>4, <1>14, <2>1, <2>2 DEF UnlinkFile, Abstract!Next
  <2>3. CASE link[name[c]] # NoInode
    <3>1. /\ link' = [link EXCEPT ![name[c]] = NoInode]
          /\ missed' = [d \in Calls |-> missed[d] \/ name[d] = name[c]]
          /\ Decide(c, "ok", "rmdir") /\ content' = content
      BY <1>14, <2>3 DEF UnlinkFile
    <3>2. Files' = [Files EXCEPT ![name[c]] = "absent"]
      BY <2>1, <3>1 DEF Files, DiskTypeOK
    <3>3. Files[name[c]] # "absent"
      BY <2>1, <2>3, FilesHold
    <3>. QED
      BY <2>1, <3>1, <3>2, <3>3, AbstractDecides DEF Abstract!Delete, Abstract!Absent, Abstract!Next, Files
  <2>. QED  BY <2>2, <2>3
<1>15. ASSUME NEW c \in Calls, Return(c) PROVE Abstract!Return(c)
  <2>1. answer[c] # "none"
    BY <1>15 DEF Return, LookInv
  <2>2. Files' = Files
    BY <1>15, FilesSame DEF Return, diskVars
  <2>. QED
    BY <1>15, <2>1, <2>2 DEF Return, Reset, SomeKey, Abstract!Return, Abstract!Reset, Abstract!SomeKey, Files
<1>16. CASE ProcessDies
  <2>1. Files' = Files
    BY <1>16, FilesSame DEF ProcessDies, diskVars
  <2>. QED
    BY <1>16, <2>1 DEF ProcessDies, Reset, SomeKey, Abstract!Crash, Abstract!Reset, Abstract!SomeKey, Abstract!Next, Files
<1>17. CASE UNCHANGED storeVars
  BY <1>s, <1>17 DEF storeVars, diskVars, callVars
<1>. QED
  BY <1>1, <1>6, <1>7, <1>8, <1>9, <1>10, <1>11, <1>12, <1>13, <1>14, <1>15, <1>16, <1>17
  DEF StoreNext, CallStep, PutStep, OpenStep, DeleteStep, Abstract!Next, Abstract!Operations

(* The store on disk behaves as the Store of store.go, like MemoryStore:   *)
(* every call has its effect and its answer at one time while it runs.     *)
THEOREM DiskImplementsFileStore == StoreSpec => ImplementsFileStore
BY AbstractInit, AbstractStep, Invariant, PTL DEF StoreSpec, ImplementsFileStore, Abstract!Spec

-----------------------------------------------------------------------------
(* Attachments.                                                            *)

(* What an upload's state says of its row, its file and its lock.          *)
UploadInv ==
  \A u \in Uploads :
    /\ u \in rows => up[u] \in {"cleaning", "done"}
    /\ u \in rows /\ up[u] = "cleaning" => u \in lost
    /\ u \in rows => u \in files \cup lost
    /\ u \in files => up[u] \in {"locking", "inserting", "committing", "cleaning", "done"}
    /\ up[u] \in {"locking", "inserting", "committing"} => u \in files
    /\ up[u] \in InTransaction => locked[of[u]] = u

(* Nobody deletes the file of an upload that may still be recorded, nor    *)
(* one that is.                                                            *)
RemovalInv ==
  \A r \in Removals : \A u \in list[r] :
    /\ pc[r] \in {"dropping", "sweeping"} => up[u] \in {"cleaning", "done"}
    /\ pc[r] = "dropping" => of[u] = about[r]
    /\ pc[r] = "sweeping" => u \notin rows

Inv == TypeOK /\ UploadInv /\ RemovalInv

LEMMA SomeTyped == SomeComplaint \in Complaints /\ SomeImage \in Images
BY AttachmentsAssumption DEF SomeComplaint, SomeImage

LEMMA TypeInit == Init => TypeOK
BY SomeTyped DEF Init, TypeOK, UploadStates, RemovalStates

LEMMA TypeStep == TypeOK /\ [Next]_vars => TypeOK'
<1>. SUFFICES ASSUME TypeOK, [Next]_vars PROVE TypeOK'
  OBVIOUS
<1>. USE DEF TypeOK
<1>1. ASSUME NEW q \in Complaints, CreateComplaint(q) PROVE TypeOK'
  BY <1>1 DEF CreateComplaint, uploadVars, removalVars
<1>2. ASSUME NEW u \in Uploads, NEW q \in Complaints, NEW i \in Images, Upload(u, q, i) PROVE TypeOK'
  BY <1>2 DEF Upload, removalVars, UploadStates, InTransaction
<1>3. ASSUME NEW u \in Uploads, Count(u) \/ Put(u) \/ NoComplaint(u) \/ LockFails(u) \/ Insert(u) \/ Clean(u)
      PROVE  TypeOK'
  <2>1. up' \in [Uploads -> UploadStates]
    BY <1>3 DEF Count, Put, NoComplaint, LockFails, Insert, Clean, Goes, UploadStates
  <2>2. /\ files' \subseteq Uploads /\ excused' \subseteq Uploads
        /\ UNCHANGED <<complaint, rows, locked, of, image, pc, about, list, left, cascade, lost>>
    BY <1>3 DEF Count, Put, NoComplaint, LockFails, Insert, Clean, Goes, removalVars
  <2>3. \A v \in Uploads : up[v] \in InTransaction => up'[v] \in InTransaction
    BY <1>3 DEF Count, Put, NoComplaint, LockFails, Insert, Clean, Goes, InTransaction
  <2>. QED  BY <2>1, <2>2, <2>3
<1>4. ASSUME NEW u \in Uploads, LockComplaint(u) PROVE TypeOK'
  BY <1>4 DEF LockComplaint, Goes, removalVars, UploadStates, InTransaction
<1>5. ASSUME NEW u \in Uploads, Rollback(u) \/ Commit(u) \/ CommitUnheard(u) PROVE TypeOK'
  <2>1. up' \in [Uploads -> UploadStates] /\ locked' \in [Complaints -> Uploads \cup {NoUpload}]
    BY <1>5 DEF Rollback, Commit, CommitUnheard, Goes, Unlock, UploadStates
  <2>2. /\ rows' \subseteq Uploads /\ lost' \subseteq Uploads
        /\ UNCHANGED <<complaint, files, of, image, pc, about, list, left, cascade, excused>>
    BY <1>5 DEF Rollback, Commit, CommitUnheard, Goes, removalVars
  <2>3. \A q \in Complaints : locked'[q] # NoUpload =>
          locked'[q] = locked[q] /\ locked[q] # u /\ up'[locked[q]] = up[locked[q]]
    BY <1>5 DEF Rollback, Commit, CommitUnheard, Goes, Unlock
  <2>. QED  BY <2>1, <2>2, <2>3
<1>6. ASSUME NEW r \in Removals, NEW u \in Uploads, DeleteImage(r, u) PROVE TypeOK'
  BY <1>6 DEF DeleteImage, Moves, uploadVars, RemovalStates
<1>7. ASSUME NEW r \in Removals, NEW q \in Complaints, DeleteComplaint(r, q) PROVE TypeOK'
  BY <1>7 DEF DeleteComplaint, Moves, uploadVars, RemovalStates
<1>8. ASSUME NEW r \in Removals, DeleteRow(r) \/ ListImages(r) \/ DropGone(r) \/ DropFails(r) PROVE TypeOK'
  BY <1>8 DEF DeleteRow, ListImages, DropGone, DropFails, Moves, uploadVars, RemovalStates, RowsOf
<1>9. ASSUME NEW r \in Removals, DropComplaint(r) PROVE TypeOK'
  BY <1>9 DEF DropComplaint, Moves, uploadVars, RemovalStates, RowsOf
<1>10. ASSUME NEW r \in Removals, RemoveFile(r) \/ Swept(r) PROVE TypeOK'
  BY <1>10 DEF RemoveFile, Swept, Moves, uploadVars, RemovalStates
<1>11. ASSUME Crash PROVE TypeOK'
  BY <1>11 DEF Crash, UploadStates, RemovalStates
<1>12. CASE UNCHANGED vars
  BY <1>12 DEF vars, uploadVars, removalVars
<1>. QED  BY <1>1, <1>2, <1>3, <1>4, <1>5, <1>6, <1>7, <1>8, <1>9, <1>10, <1>11, <1>12
          DEF Next, UploadStep, RemovalStep

(* Types; and a locked row is locked by a transaction on it that is open.  *)
THEOREM TypeCorrect == Spec => []TypeOK
BY TypeInit, TypeStep, PTL DEF Spec

-----------------------------------------------------------------------------
LEMMA InvInit == Init => Inv
BY TypeInit DEF Init, Inv, UploadInv, RemovalInv, InTransaction

LEMMA UploadInvStep == Inv /\ [Next]_vars => UploadInv'
<1>. SUFFICES ASSUME Inv, [Next]_vars PROVE UploadInv'
  OBVIOUS
<1>. USE DEF Inv, TypeOK, UploadInv, InTransaction
<1>1. ASSUME NEW q \in Complaints, CreateComplaint(q) PROVE UploadInv'
  BY <1>1 DEF CreateComplaint, uploadVars
<1>2. ASSUME NEW u \in Uploads, NEW q \in Complaints, NEW i \in Images, Upload(u, q, i) PROVE UploadInv'
  BY <1>2 DEF Upload
<1>3. ASSUME NEW u \in Uploads, Count(u) \/ Put(u) \/ NoComplaint(u) \/ LockFails(u) \/ Insert(u) \/ Clean(u)
      PROVE  UploadInv'
  BY <1>3 DEF Count, Put, NoComplaint, LockFails, Insert, Clean, Goes
<1>4. ASSUME NEW u \in Uploads, LockComplaint(u) PROVE UploadInv'
  BY <1>4, AttachmentsAssumption DEF LockComplaint, Goes
<1>5. ASSUME NEW u \in Uploads, Rollback(u) \/ Commit(u) \/ CommitUnheard(u) PROVE UploadInv'
  BY <1>5 DEF Rollback, Commit, CommitUnheard, Goes, Unlock
<1>6. ASSUME NEW r \in Removals,
             \/ \E u \in Uploads : DeleteImage(r, u)
             \/ \E q \in Complaints : DeleteComplaint(r, q)
             \/ DeleteRow(r) \/ ListImages(r) \/ DropGone(r) \/ DropFails(r) \/ DropComplaint(r) \/ Swept(r)
      PROVE  UploadInv'
  <2>1. rows' \subseteq rows /\ UNCHANGED <<locked, files, up, of, lost>>
    BY <1>6 DEF DeleteImage, DeleteComplaint, DeleteRow, ListImages, DropGone, DropFails, DropComplaint,
                Swept, uploadVars
  <2>. QED  BY <2>1
<1>7. ASSUME NEW r \in Removals, RemoveFile(r) PROVE UploadInv'
  <2>1. PICK u \in list[r] : files' = files \ {u} \/ files' = files
    BY <1>7 DEF RemoveFile
  <2>2. up[u] \in {"cleaning", "done"} /\ u \notin rows
    BY <1>7, <2>1 DEF RemoveFile, RemovalInv
  <2>. QED  BY <1>7, <2>1, <2>2 DEF RemoveFile, uploadVars
<1>8. ASSUME Crash PROVE UploadInv'
  BY <1>8 DEF Crash
<1>9. CASE UNCHANGED vars
  BY <1>9 DEF vars, uploadVars
<1>. QED  BY <1>1, <1>2, <1>3, <1>4, <1>5, <1>6, <1>7, <1>8, <1>9
          DEF Next, UploadStep, RemovalStep

LEMMA RemovalInvStep == Inv /\ [Next]_vars => RemovalInv'
<1>. SUFFICES ASSUME Inv, [Next]_vars PROVE RemovalInv'
  OBVIOUS
<1>. USE DEF Inv, TypeOK, RemovalInv
<1>1. ASSUME NEW q \in Complaints, CreateComplaint(q) PROVE RemovalInv'
  BY <1>1 DEF CreateComplaint, uploadVars, removalVars
<1>2. ASSUME NEW u \in Uploads,
             \/ \E q \in Complaints, i \in Images : Upload(u, q, i)
             \/ UploadStep(u) \/ LockComplaint(u) \/ LockFails(u)
      PROVE  RemovalInv'
  <2>1. UNCHANGED removalVars
    BY <1>2 DEF Upload, UploadStep, Count, Put, NoComplaint, LockComplaint, LockFails, Insert, Rollback,
                Commit, CommitUnheard, Clean
  <2>2. \A v \in Uploads : up[v] \in {"cleaning", "done"} =>
          up'[v] \in {"cleaning", "done"} /\ of'[v] = of[v] /\ (v \in rows' => v \in rows)
    BY <1>2 DEF Upload, UploadStep, Count, Put, NoComplaint, LockComplaint, LockFails, Insert, Rollback,
                Commit, CommitUnheard, Clean, Goes
  <2>. QED  BY <2>1, <2>2 DEF removalVars
<1>3. ASSUME NEW r \in Removals,
             \/ \E u \in Uploads : DeleteImage(r, u)
             \/ \E q \in Complaints : DeleteComplaint(r, q)
             \/ DropGone(r) \/ DropFails(r) \/ RemoveFile(r) \/ Swept(r)
      PROVE  RemovalInv'
  <2>1. up' = up /\ of' = of /\ rows' = rows
    BY <1>3 DEF DeleteImage, DeleteComplaint, DropGone, DropFails, RemoveFile, Swept, uploadVars
  <2>2. \A s \in Removals : s # r => pc'[s] = pc[s] /\ list'[s] = list[s] /\ about'[s] = about[s]
    BY <1>3 DEF DeleteImage, DeleteComplaint, DropGone, DropFails, RemoveFile, Swept, Moves
  <2>3. \/ pc'[r] \in {"deleting", "listing", "done"}
        \/ pc'[r] = pc[r] /\ about'[r] = about[r] /\ list'[r] \subseteq list[r]
    BY <1>3 DEF DeleteImage, DeleteComplaint, DropGone, DropFails, RemoveFile, Swept, Moves
  <2>. QED  BY <2>1, <2>2, <2>3
<1>4. ASSUME NEW r \in Removals, DeleteRow(r) PROVE RemovalInv'
  BY <1>4 DEF DeleteRow, Moves, uploadVars, UploadInv
<1>5. ASSUME NEW r \in Removals, ListImages(r) PROVE RemovalInv'
  BY <1>5 DEF ListImages, RowsOf, Moves, uploadVars, UploadInv
<1>6. ASSUME NEW r \in Removals, DropComplaint(r) PROVE RemovalInv'
  BY <1>6 DEF DropComplaint, RowsOf, Moves, uploadVars
<1>7. ASSUME Crash PROVE RemovalInv'
  BY <1>7 DEF Crash
<1>8. CASE UNCHANGED vars
  BY <1>8 DEF vars, uploadVars, removalVars
<1>. QED  BY <1>1, <1>2, <1>3, <1>4, <1>5, <1>6, <1>7, <1>8 DEF Next, RemovalStep

LEMMA InvStep == Inv /\ [Next]_vars => Inv'
BY TypeStep, UploadInvStep, RemovalInvStep DEF Inv

THEOREM InvHolds == Spec => []Inv
BY InvInit, InvStep, PTL DEF Spec

-----------------------------------------------------------------------------
(* Put before row, row deleted before file: a recorded image has its file, *)
(* unless the answer to the commit that recorded it was lost.              *)
THEOREM RowsKeepTheirFiles == Spec => []RowsHaveFilesOrLost
<1>1. Inv => RowsHaveFilesOrLost
  BY DEF Inv, TypeOK, UploadInv, RowsHaveFilesOrLost
<1>. QED  BY <1>1, InvHolds, PTL

LEMMA RowsFinite ==
  ASSUME TypeOK, NEW q \in Complaints
  PROVE  IsFiniteSet(RowsOf(q)) /\ Cardinality(RowsOf(q)) \in Nat
<1>1. RowsOf(q) \subseteq Uploads
  BY DEF RowsOf, TypeOK
<1>. QED  BY <1>1, AttachmentsAssumption, FS_Subset, FS_CardinalityType

(* Fewer rows of a complaint are not more than there were.                 *)
LEMMA LimitKept ==
  ASSUME TypeOK, LimitHolds,
         \A q \in Complaints : RowsOf(q)' \subseteq RowsOf(q),
         \A u \in Uploads : up'[u] = "committing" =>
           of'[u] = of[u] /\ (up[u] = "committing" \/ Cardinality(RowsOf(of[u])) < Limit)
  PROVE  LimitHolds'
<1>1. \A q \in Complaints :
        /\ Cardinality(RowsOf(q)') <= Cardinality(RowsOf(q))
        /\ Cardinality(RowsOf(q)') \in Nat /\ Cardinality(RowsOf(q)) \in Nat
  BY RowsFinite, FS_Subset, FS_CardinalityType
<1>2. \A u \in Uploads : of[u] \in Complaints
  BY DEF TypeOK
<1>3. \A q \in Complaints : Cardinality(RowsOf(q)') <= Limit
  BY <1>1, AttachmentsAssumption DEF LimitHolds
<1>4. ASSUME NEW q \in Complaints, NEW u \in Uploads, up'[u] = "committing", of'[u] = q
      PROVE  Cardinality(RowsOf(q)') < Limit
  BY <1>1, <1>2, <1>4, AttachmentsAssumption DEF LimitHolds
<1>. QED  BY <1>3, <1>4 DEF LimitHolds

(* Of the transactions on a complaint only one can be about to commit.     *)
LEMMA LimitCommit ==
  ASSUME Inv, LimitHolds, NEW u \in Uploads, Commit(u) \/ CommitUnheard(u)
  PROVE  LimitHolds'
<1>0. /\ up[u] = "committing" /\ of' = of /\ rows' = rows \cup {u} /\ of[u] \in Complaints
      /\ \A v \in Uploads : up'[v] = "committing" => v # u /\ up[v] = "committing" /\ of[v] # of[u]
  BY DEF Inv, TypeOK, UploadInv, InTransaction, Commit, CommitUnheard, Goes
<1>1. \A q \in Complaints : q # of[u] => RowsOf(q)' = RowsOf(q)
  BY <1>0 DEF RowsOf
<1>2. \A q \in Complaints : q = of[u] => RowsOf(q)' = RowsOf(q) \cup {u}
  BY <1>0 DEF RowsOf
<1>3. ASSUME NEW q \in Complaints, q = of[u] PROVE Cardinality(RowsOf(q)') <= Limit
  <2>1. IsFiniteSet(RowsOf(q)) /\ Cardinality(RowsOf(q)) \in Nat
    BY RowsFinite DEF Inv
  <2>2. Cardinality(RowsOf(q) \cup {u}) \in {Cardinality(RowsOf(q)), Cardinality(RowsOf(q)) + 1}
    BY <2>1, FS_AddElement
  <2>3. Cardinality(RowsOf(q)) < Limit
    BY <1>0, <1>3 DEF LimitHolds
  <2>4. Cardinality(RowsOf(q)') = Cardinality(RowsOf(q) \cup {u})
    BY <1>2, <1>3
  <2>. QED  BY <2>1, <2>2, <2>3, <2>4, AttachmentsAssumption
<1>4. ASSUME NEW q \in Complaints PROVE Cardinality(RowsOf(q)') <= Limit
  BY <1>1, <1>3 DEF LimitHolds
<1>5. ASSUME NEW q \in Complaints, NEW v \in Uploads, up'[v] = "committing", of'[v] = q
      PROVE  Cardinality(RowsOf(q)') < Limit
  BY <1>0, <1>1, <1>5 DEF LimitHolds
<1>. QED  BY <1>4, <1>5 DEF LimitHolds

LEMMA LimitStep == Inv /\ LimitHolds /\ [Next]_vars => LimitHolds'
<1>. SUFFICES ASSUME Inv, LimitHolds, [Next]_vars PROVE LimitHolds'
  OBVIOUS
<1>0. TypeOK /\ UploadInv
  BY DEF Inv
<1>1. ASSUME NEW u \in Uploads, NEW q \in Complaints, NEW i \in Images, Upload(u, q, i) PROVE LimitHolds'
  <2>1. \A p \in Complaints : RowsOf(p)' \subseteq RowsOf(p)
    BY <1>0, <1>1 DEF Upload, RowsOf, TypeOK, UploadInv
  <2>2. \A v \in Uploads : up'[v] = "committing" => of'[v] = of[v] /\ up[v] = "committing"
    BY <1>0, <1>1 DEF Upload, TypeOK
  <2>. QED  BY <1>0, <2>1, <2>2, LimitKept
<1>2. ASSUME NEW u \in Uploads, Insert(u) PROVE LimitHolds'
  <2>1. \A p \in Complaints : RowsOf(p)' \subseteq RowsOf(p)
    BY <1>2 DEF Insert, Goes, RowsOf
  <2>2. \A v \in Uploads : up'[v] = "committing" =>
          of'[v] = of[v] /\ (up[v] = "committing" \/ Cardinality(RowsOf(of[v])) < Limit)
    BY <1>0, <1>2 DEF Insert, Goes, TypeOK
  <2>. QED  BY <1>0, <2>1, <2>2, LimitKept
<1>3. ASSUME NEW u \in Uploads, Commit(u) \/ CommitUnheard(u) PROVE LimitHolds'
  BY <1>3, LimitCommit
<1>4. ASSUME \/ \E q \in Complaints : CreateComplaint(q)
             \/ \E u \in Uploads : \/ Count(u) \/ Put(u) \/ NoComplaint(u) \/ LockComplaint(u)
                                   \/ LockFails(u) \/ Rollback(u) \/ Clean(u)
             \/ \E r \in Removals : \/ \E u \in Uploads : DeleteImage(r, u)
                                    \/ \E q \in Complaints : DeleteComplaint(r, q)
                                    \/ RemovalStep(r) \/ DropComplaint(r) \/ DropFails(r)
             \/ Crash
             \/ UNCHANGED vars
      PROVE  LimitHolds'
  <2>1. rows' \subseteq rows /\ of' = of
    BY <1>4 DEF CreateComplaint, Count, Put, NoComplaint, LockComplaint, LockFails, Rollback, Clean, Goes,
                DeleteImage, DeleteComplaint, RemovalStep, DeleteRow, ListImages, DropComplaint, DropGone,
                DropFails, RemoveFile, Swept, Crash, vars, uploadVars
  <2>2. \A v \in Uploads : up'[v] = "committing" => up[v] = "committing"
    BY <1>0, <1>4 DEF CreateComplaint, Count, Put, NoComplaint, LockComplaint, LockFails, Rollback, Clean,
                Goes, DeleteImage, DeleteComplaint, RemovalStep, DeleteRow, ListImages, DropComplaint,
                DropGone, DropFails, RemoveFile, Swept, Crash, vars, uploadVars, TypeOK
  <2>3. \A p \in Complaints : RowsOf(p)' \subseteq RowsOf(p)
    BY <2>1 DEF RowsOf
  <2>. QED  BY <1>0, <2>1, <2>2, <2>3, LimitKept
<1>. QED  BY <1>1, <1>2, <1>3, <1>4 DEF Next, UploadStep

(* However many uploads pass the first count together, a complaint never   *)
(* has more than Limit images: the row is locked while they are counted    *)
(* again.                                                                  *)
THEOREM NeverOverTheLimit == Spec => []LimitHolds
<1>1. Init => LimitHolds
  <2>. SUFFICES ASSUME Init PROVE LimitHolds
    OBVIOUS
  <2>1. \A q \in Complaints : RowsOf(q) = {}
    BY DEF Init, RowsOf
  <2>2. Cardinality({}) = 0 /\ \A u \in Uploads : up[u] = "new"
    BY FS_EmptySet DEF Init
  <2>. QED  BY <2>1, <2>2, AttachmentsAssumption DEF LimitHolds
<1>. QED  BY <1>1, LimitStep, InvHolds, PTL DEF Spec

-----------------------------------------------------------------------------
LEMMA ForgottenStep == Inv /\ NothingForgotten /\ [Next]_vars => NothingForgotten'
<1>. SUFFICES ASSUME Inv, NothingForgotten, [Next]_vars PROVE NothingForgotten'
  OBVIOUS
<1>. USE DEF NothingForgotten, InCharge
<1>0. TypeOK /\ UploadInv
  BY DEF Inv
<1>1. ASSUME NEW q \in Complaints, CreateComplaint(q) PROVE NothingForgotten'
  BY <1>1 DEF CreateComplaint, uploadVars, removalVars
<1>2. ASSUME NEW u \in Uploads,
             \/ \E q \in Complaints, i \in Images : Upload(u, q, i)
             \/ Count(u) \/ Put(u) \/ NoComplaint(u) \/ LockComplaint(u) \/ LockFails(u)
             \/ Insert(u) \/ Rollback(u) \/ Commit(u) \/ CommitUnheard(u) \/ Clean(u)
      PROVE  NothingForgotten'
  <2>1. UNCHANGED <<pc, list>> /\ rows \subseteq rows' /\ excused \subseteq excused'
    BY <1>2 DEF Upload, Count, Put, NoComplaint, LockComplaint, LockFails, Insert, Rollback, Commit,
                CommitUnheard, Clean, removalVars
  <2>2. \A v \in Uploads : v # u => up'[v] = up[v] /\ (v \in files' => v \in files)
    BY <1>0, <1>2 DEF Upload, Count, Put, NoComplaint, LockComplaint, LockFails, Insert, Rollback, Commit,
                CommitUnheard, Clean, Goes, TypeOK
  <2>3. u \in files' =>
          \/ up'[u] \in {"locking", "inserting", "committing", "cleaning"}
          \/ u \in rows' \/ u \in excused'
    BY <1>0, <1>2 DEF Upload, Count, Put, NoComplaint, LockComplaint, LockFails, Insert, Rollback, Commit,
                CommitUnheard, Clean, Goes, TypeOK, UploadInv
  <2>4. files' \subseteq Uploads
    BY <1>0, <1>2, TypeStep DEF TypeOK, Next, UploadStep
  <2>5. ASSUME NEW v \in files', v # u PROVE v \in rows' \/ InCharge(v)' \/ v \in excused'
    <3>1. v \in rows \/ InCharge(v) \/ v \in excused
      BY <2>2, <2>4, <2>5
    <3>. QED  BY <2>1, <2>2, <2>4, <2>5, <3>1
  <2>. QED  BY <2>3, <2>5
<1>3. ASSUME NEW r \in Removals,
             \/ \E u \in Uploads : DeleteImage(r, u)
             \/ \E q \in Complaints : DeleteComplaint(r, q)
             \/ ListImages(r) \/ DropGone(r) \/ Swept(r)
      PROVE  NothingForgotten'
  <2>1. UNCHANGED <<files, rows, up, excused>>
    BY <1>3 DEF DeleteImage, DeleteComplaint, ListImages, DropGone, Swept, uploadVars
  <2>2. \A s \in Removals : pc[s] = "sweeping" /\ list[s] # {} => pc'[s] = "sweeping" /\ list'[s] = list[s]
    BY <1>0, <1>3 DEF DeleteImage, DeleteComplaint, ListImages, DropGone, Swept, Moves, TypeOK
  <2>. QED  BY <2>1, <2>2
<1>4. ASSUME NEW r \in Removals, DropFails(r) PROVE NothingForgotten'
  BY <1>0, <1>4 DEF DropFails, Moves, uploadVars, TypeOK
<1>5. ASSUME NEW r \in Removals, DeleteRow(r) \/ DropComplaint(r) PROVE NothingForgotten'
  <2>1. UNCHANGED <<files, up>> /\ excused \subseteq excused'
    BY <1>5 DEF DeleteRow, DropComplaint, uploadVars
  <2>2. \A s \in Removals : pc[s] = "sweeping" => pc'[s] = "sweeping" /\ list'[s] = list[s]
    BY <1>0, <1>5 DEF DeleteRow, DropComplaint, Moves, TypeOK
  <2>3. \A v \in rows : \/ v \in rows' \/ v \in excused'
                        \/ pc'[r] = "sweeping" /\ v \in list'[r]
    BY <1>0, <1>5 DEF DeleteRow, DropComplaint, Moves, TypeOK
  <2>. QED  BY <2>1, <2>2, <2>3
<1>6. ASSUME NEW r \in Removals, RemoveFile(r) PROVE NothingForgotten'
  <2>1. UNCHANGED <<rows, up, pc>> /\ excused \subseteq excused'
    BY <1>6 DEF RemoveFile, uploadVars
  <2>2. PICK u \in list[r] : /\ list' = [list EXCEPT ![r] = list[r] \ {u}]
                             /\ \/ files' = files \ {u}
                                \/ files' = files /\ excused' = excused \cup {u}
    BY <1>6, Zenon DEF RemoveFile
  <2>3. \A s \in Removals : \A v \in list[s] : v \in list'[s] \/ v = u
    BY <1>0, <2>2 DEF TypeOK
  <2>. QED  BY <2>1, <2>2, <2>3
<1>7. ASSUME Crash PROVE NothingForgotten'
  BY <1>7 DEF Crash
<1>8. CASE UNCHANGED vars
  BY <1>8 DEF vars, uploadVars, removalVars
<1>. QED  BY <1>1, <1>2, <1>3, <1>4, <1>5, <1>6, <1>7, <1>8 DEF Next, UploadStep, RemovalStep

(* A file that is not on record is in the hands of a request that has yet  *)
(* to record it or to delete it, unless a crash, a failure of the store or *)
(* of the database, or an upload to a dying complaint explains it.         *)
THEOREM NoFileIsForgotten == Spec => []NothingForgotten
<1>1. Init => NothingForgotten
  BY DEF Init, NothingForgotten
<1>. QED  BY <1>1, ForgottenStep, InvHolds, PTL DEF Spec

=============================================================================
