----------------------------- MODULE DiskStore -----------------------------
(***************************************************************************)
(* The images of complaints on disk: backend-go/internal/filestore/disk.go *)
(* Put, Open and Delete are sequences of calls to the file system, and     *)
(* other goroutines run between any two of them. A name is a path in the   *)
(* folder of its complaint. A file is an inode: its name, or the name of   *)
(* a temporary file, or both, keep it in use; then it may be used again.   *)
(*                                                                         *)
(* A crash is the end of the process, as in the comment of Put; the file   *)
(* system survives it. os.Remove of a temporary file, and fstat of a file  *)
(* that is open, are taken not to fail.                                    *)
(***************************************************************************)
EXTENDS Naturals, FiniteSets

CONSTANTS
  Keys,         \* internal names (storageKey)
  Folders,      \* folders of complaints
  FolderOf,     \* the folder of every name
  Calls,        \* calls that may run at the same time
  Inodes,       \* files the disk has room for
  NoInode, NoFolder,
  Attempts      \* how often createTemp tries, 3 in the code

ASSUME DiskAssumption ==
  /\ Keys # {}
  /\ FolderOf \in [Keys -> Folders]
  /\ NoInode \notin Inodes
  /\ NoFolder \notin Folders
  /\ Attempts \in Nat \ {0}

SomeKey == CHOOSE k \in Keys : TRUE

VARIABLES
  folders,  \* the folders there are
  link,     \* the inode of every name, once published
  temp,     \* the folder where an inode has a temporary name
  content,  \* what an inode holds, "partial" until it is written and synced
  op,       \* what every call does
  name,     \* the name it is about
  syscall,  \* its next call to the file system
  file,     \* the inode it has made (Put) or looked at (Open)
  tries,    \* attempts of createTemp that found no folder
  answer,   \* what it will return, "none" until it is decided
  missed,   \* history: the name was free at some time since the call began
  gone,     \* history: how often its folder was removed since it began
  crashed   \* history: the process has crashed

diskVars == <<folders, link, temp, content>>
callVars == <<op, name, syscall, file, tries, answer, missed, gone>>
storeVars == <<diskVars, callVars, crashed>>

PutSteps == {"look", "mkdir", "create", "write", "link", "cleanup"}
OpenSteps == {"look", "open"}
DeleteSteps == {"look", "remove", "rmdir"}
Steps == PutSteps \cup OpenSteps \cup DeleteSteps

DiskTypeOK ==
  /\ folders \subseteq Folders
  /\ link \in [Keys -> Inodes \cup {NoInode}]
  /\ temp \in [Inodes -> Folders \cup {NoFolder}]
  /\ content \in [Inodes -> {"partial", "image"}]

CallTypeOK ==
  /\ op \in [Calls -> {"idle", "put", "open", "delete"}]
  /\ name \in [Calls -> Keys]
  /\ syscall \in [Calls -> Steps \cup {"end"}]
  /\ file \in [Calls -> Inodes \cup {NoInode}]
  /\ tries \in [Calls -> 0 .. Attempts]
  /\ answer \in [Calls -> {"none", "ok", "image", "exists", "not_found", "failed"}]
  /\ missed \in [Calls -> BOOLEAN]
  /\ gone \in [Calls -> 0 .. Attempts]

StoreTypeOK == DiskTypeOK /\ CallTypeOK /\ crashed \in BOOLEAN

StoreInit ==
  /\ folders = {}
  /\ link = [k \in Keys |-> NoInode]
  /\ temp = [i \in Inodes |-> NoFolder]
  /\ content = [i \in Inodes |-> "partial"]
  /\ op = [c \in Calls |-> "idle"]
  /\ name = [c \in Calls |-> SomeKey]
  /\ syscall = [c \in Calls |-> "end"]
  /\ file = [c \in Calls |-> NoInode]
  /\ tries = [c \in Calls |-> 0]
  /\ answer = [c \in Calls |-> "none"]
  /\ missed = [c \in Calls |-> FALSE]
  /\ gone = [c \in Calls |-> 0]
  /\ crashed = FALSE

InUse(i) == temp[i] # NoFolder \/ \E k \in Keys : link[k] = i

(* The folder holds no name and no temporary name.                         *)
Empty(f) ==
  /\ \A k \in Keys : FolderOf[k] = f => link[k] = NoInode
  /\ \A i \in Inodes : temp[i] # f

-----------------------------------------------------------------------------
(* The life of a call.                                                     *)

Begin(c, o, k) ==
  /\ op[c] = "idle"
  /\ op' = [op EXCEPT ![c] = o]
  /\ name' = [name EXCEPT ![c] = k]
  /\ syscall' = [syscall EXCEPT ![c] = "look"]
  /\ missed' = [missed EXCEPT ![c] = link[k] = NoInode]
  /\ UNCHANGED <<diskVars, file, tries, answer, gone, crashed>>

At(c, o, step) == op[c] = o /\ syscall[c] = step

GoTo(c, step) ==
  /\ syscall' = [syscall EXCEPT ![c] = step]
  /\ UNCHANGED <<op, name>>

Decide(c, a, step) ==
  /\ answer[c] = "none"
  /\ answer' = [answer EXCEPT ![c] = a]
  /\ GoTo(c, step)

Reset(C) ==
  /\ op' = [c \in Calls |-> IF c \in C THEN "idle" ELSE op[c]]
  /\ name' = [c \in Calls |-> IF c \in C THEN SomeKey ELSE name[c]]
  /\ syscall' = [c \in Calls |-> IF c \in C THEN "end" ELSE syscall[c]]
  /\ file' = [c \in Calls |-> IF c \in C THEN NoInode ELSE file[c]]
  /\ tries' = [c \in Calls |-> IF c \in C THEN 0 ELSE tries[c]]
  /\ answer' = [c \in Calls |-> IF c \in C THEN "none" ELSE answer[c]]
  /\ missed' = [c \in Calls |-> IF c \in C THEN FALSE ELSE missed[c]]
  /\ gone' = [c \in Calls |-> IF c \in C THEN 0 ELSE gone[c]]

Return(c) ==
  /\ op[c] # "idle"
  /\ syscall[c] = "end"
  /\ Reset({c})
  /\ UNCHANGED <<diskVars, crashed>>

(* A context that is over, or an error of the file system, before there is *)
(* anything to undo.                                                       *)
Fail(c) ==
  /\ op[c] # "idle"
  /\ syscall[c] \in {"look", "mkdir", "create", "open", "remove"}
  /\ Decide(c, "failed", "end")
  /\ UNCHANGED <<diskVars, file, tries, missed, gone, crashed>>

-----------------------------------------------------------------------------
(* Put.                                                                    *)

PutLooks(c) ==
  /\ At(c, "put", "look")
  /\ \/ link[name[c]] # NoInode /\ Decide(c, "exists", "end")
     \/ link[name[c]] = NoInode /\ GoTo(c, "mkdir") /\ UNCHANGED answer
  /\ UNCHANGED <<diskVars, file, tries, missed, gone, crashed>>

MkdirAll(c) ==
  /\ At(c, "put", "mkdir")
  /\ folders' = folders \cup {FolderOf[name[c]]}
  /\ GoTo(c, "create")
  /\ UNCHANGED <<link, temp, content, file, tries, answer, missed, gone, crashed>>

(* os.CreateTemp, in a folder that is there: an inode of its own.          *)
CreateTemp(c) ==
  LET f == FolderOf[name[c]] IN
  /\ At(c, "put", "create")
  /\ f \in folders
  /\ \E i \in Inodes :
       /\ ~InUse(i)
       /\ temp' = [temp EXCEPT ![i] = f]
       /\ content' = [content EXCEPT ![i] = "partial"]
       /\ file' = [file EXCEPT ![c] = i]
  /\ GoTo(c, "write")
  /\ UNCHANGED <<folders, link, tries, answer, missed, gone, crashed>>

(* A Delete removed the folder meanwhile: the loop makes it again.         *)
FolderGone_AnyError(c) ==
  /\ At(c, "put", "create")
  /\ tries[c] < Attempts
  /\ tries' = [tries EXCEPT ![c] = @ + 1]
  /\ \/ tries'[c] < Attempts /\ GoTo(c, "mkdir") /\ UNCHANGED answer
     \/ tries'[c] = Attempts /\ Decide(c, "failed", "end")
  /\ UNCHANGED <<diskVars, file, missed, gone, crashed>>
FolderGone_Forever(c) ==
  /\ At(c, "put", "create")
  /\ FolderOf[name[c]] \notin folders
  /\ GoTo(c, "mkdir")
  /\ UNCHANGED <<diskVars, file, tries, answer, missed, gone, crashed>>
FolderGone_OneMore(c) ==
  /\ At(c, "put", "create")
  /\ FolderOf[name[c]] \notin folders
  /\ tries' = [tries EXCEPT ![c] = @ + 1]
  /\ \/ tries[c] <= Attempts /\ GoTo(c, "mkdir") /\ UNCHANGED answer
     \/ tries[c] > Attempts /\ Decide(c, "failed", "end")
  /\ UNCHANGED <<diskVars, file, missed, gone, crashed>>
FolderGone(c) ==
  /\ At(c, "put", "create")
  /\ FolderOf[name[c]] \notin folders
  /\ tries' = [tries EXCEPT ![c] = @ + 1]
  /\ \/ tries[c] + 1 < Attempts /\ GoTo(c, "mkdir") /\ UNCHANGED answer
     \/ tries[c] + 1 >= Attempts /\ Decide(c, "failed", "end")
  /\ UNCHANGED <<diskVars, file, missed, gone, crashed>>

(* writeAndSync and Chmod, and the last look at the context.               *)
WriteSynced(c) ==
  /\ At(c, "put", "write")
  /\ content' = [content EXCEPT ![file[c]] = "image"]
  /\ GoTo(c, "link")
  /\ UNCHANGED <<folders, link, temp, file, tries, answer, missed, gone, crashed>>

WriteFails_GoesOn(c) ==
  /\ At(c, "put", "write")
  /\ GoTo(c, "link")
  /\ UNCHANGED <<diskVars, file, tries, answer, missed, gone, crashed>>
WriteFails_Leaves(c) ==
  /\ At(c, "put", "write")
  /\ Decide(c, "failed", "end")
  /\ UNCHANGED <<diskVars, file, tries, missed, gone, crashed>>
WriteFails(c) ==
  /\ At(c, "put", "write")
  /\ Decide(c, "failed", "cleanup")
  /\ UNCHANGED <<diskVars, file, tries, missed, gone, crashed>>

(* os.Link publishes the file, unless the name is taken.                   *)
Link_Renames(c) ==
  /\ At(c, "put", "link")
  /\ link' = [link EXCEPT ![name[c]] = file[c]]
  /\ Decide(c, "ok", "cleanup")
  /\ UNCHANGED <<folders, temp, content, file, tries, missed, gone, crashed>>
Link(c) ==
  LET k == name[c] IN
  /\ At(c, "put", "link")
  /\ \/ /\ link[k] = NoInode
        /\ link' = [link EXCEPT ![k] = file[c]]
        /\ Decide(c, "ok", "cleanup")
     \/ link[k] # NoInode /\ Decide(c, "exists", "cleanup") /\ UNCHANGED link
     \/ Decide(c, "failed", "cleanup") /\ UNCHANGED link
  /\ UNCHANGED <<folders, temp, content, file, tries, missed, gone, crashed>>

(* The deferred os.Remove of the temporary name (it does not fail here).   *)
Cleanup(c) ==
  /\ At(c, "put", "cleanup")
  /\ temp' = [temp EXCEPT ![file[c]] = NoFolder]
  /\ GoTo(c, "end")
  /\ UNCHANGED <<folders, link, content, file, tries, answer, missed, gone, crashed>>

-----------------------------------------------------------------------------
(* Open. What is opened is the file that Lstat saw, or it is not handed    *)
(* out.                                                                    *)

OpenLooks(c) ==
  LET i == link[name[c]] IN
  /\ At(c, "open", "look")
  /\ \/ i = NoInode /\ Decide(c, "not_found", "end") /\ UNCHANGED file
     \/ i # NoInode /\ file' = [file EXCEPT ![c] = i] /\ GoTo(c, "open") /\ UNCHANGED answer
  /\ UNCHANGED <<diskVars, tries, missed, gone, crashed>>

OpenFile(c) ==
  LET i == link[name[c]] IN
  /\ At(c, "open", "open")
  /\ \/ i # NoInode /\ i = file[c] /\ Decide(c, content[i], "end")
     \/ i # file[c] /\ Decide(c, "not_found", "end")
  /\ UNCHANGED <<diskVars, file, tries, missed, gone, crashed>>

-----------------------------------------------------------------------------
(* Delete, which also removes a folder it leaves empty.                    *)

DeleteLooks(c) ==
  /\ At(c, "delete", "look")
  /\ \/ link[name[c]] = NoInode /\ Decide(c, "not_found", "end")
     \/ link[name[c]] # NoInode /\ GoTo(c, "remove") /\ UNCHANGED answer
  /\ UNCHANGED <<diskVars, file, tries, missed, gone, crashed>>

UnlinkFile(c) ==
  LET k == name[c] IN
  /\ At(c, "delete", "remove")
  /\ \/ /\ link[k] = NoInode
        /\ Decide(c, "not_found", "end")
        /\ UNCHANGED <<link, missed>>
     \/ /\ link[k] # NoInode
        /\ link' = [link EXCEPT ![k] = NoInode]
        /\ missed' = [d \in Calls |-> missed[d] \/ name[d] = k]
        /\ Decide(c, "ok", "rmdir")
  /\ UNCHANGED <<folders, temp, content, file, tries, gone, crashed>>

RemoveFolder(c) ==
  LET f == FolderOf[name[c]] IN
  /\ At(c, "delete", "rmdir")
  /\ \/ /\ Empty(f) /\ f \in folders
        /\ folders' = folders \ {f}
        /\ gone' = [d \in Calls |->
             IF FolderOf[name[d]] = f /\ gone[d] < Attempts THEN gone[d] + 1 ELSE gone[d]]
     \/ (~Empty(f) \/ f \notin folders) /\ UNCHANGED <<folders, gone>>
  /\ GoTo(c, "end")
  /\ UNCHANGED <<link, temp, content, file, tries, answer, missed, crashed>>

-----------------------------------------------------------------------------
(* The process ends; the temporary files it was writing stay.              *)
ProcessDies ==
  /\ Reset(Calls)
  /\ crashed' = TRUE
  /\ UNCHANGED diskVars

PutStep(c) ==
  \/ PutLooks(c)
  \/ MkdirAll(c)
  \/ CreateTemp(c)
  \/ FolderGone(c)
  \/ WriteSynced(c)
  \/ WriteFails(c)
  \/ Link(c)
  \/ Cleanup(c)

OpenStep(c) == OpenLooks(c) \/ OpenFile(c)

DeleteStep(c) == DeleteLooks(c) \/ UnlinkFile(c) \/ RemoveFolder(c)

CallStep(c) == PutStep(c) \/ OpenStep(c) \/ DeleteStep(c) \/ Fail(c) \/ Return(c)

StoreNext ==
  \/ \E c \in Calls :
       \/ \E o \in {"put", "open", "delete"}, k \in Keys : Begin(c, o, k)
       \/ CallStep(c)
  \/ ProcessDies

StoreSpec == StoreInit /\ [][StoreNext]_storeVars

(* The goroutine of every request runs on.                                 *)
FairStoreSpec == StoreSpec /\ \A c \in Calls : WF_storeVars(CallStep(c))

-----------------------------------------------------------------------------
(* Put's comment: whenever the process crashes, there is never an image    *)
(* with its final name that is incomplete.                                 *)
NamesAreWhole ==
  \A k \in Keys : link[k] # NoInode => content[link[k]] = "image"

(* ... and at most a temporary file stays: each one there is belongs to    *)
(* one Put that runs, unless the process has crashed. Folders go only when *)
(* they hold neither (createTemp's comment).                               *)
TempsAreOwned ==
  /\ \A i \in Inodes : temp[i] # NoFolder /\ ~crashed =>
       \E c \in Calls : op[c] = "put" /\ file[c] = i /\ syscall[c] \in {"write", "link", "cleanup"}
  /\ \A i \in Inodes : temp[i] # NoFolder => temp[i] \in folders
  /\ \A k \in Keys : link[k] # NoInode => FolderOf[k] \in folders

(* A Put gives its folder up only after Deletes have removed it under its  *)
(* feet as often as it has tried.                                          *)
TriesAreRemovals == \A c \in Calls : tries[c] <= gone[c]

(* However often Deletes remove its folder, a Put comes to an end, and so  *)
(* does every other call.                                                  *)
CallsEnd == \A c \in Calls : op[c] # "idle" ~> op[c] = "idle"

(* The comment of MemoryStore: it behaves just as the store on disk. Every *)
(* call has its effect and its answer at one time while it runs.           *)
Abstract == INSTANCE FileStore WITH
  files <- [k \in Keys |-> IF link[k] = NoInode THEN "absent" ELSE content[link[k]]]
ImplementsFileStore == Abstract!Spec

-----------------------------------------------------------------------------
(* The inductive invariant behind them.                                    *)

(* Where a Put has got to, and the inode that is its own.                  *)
Writing(c) == op[c] = "put" /\ syscall[c] \in {"write", "link", "cleanup"}

PutInv ==
  \A c \in Calls : Writing(c) =>
    /\ file[c] \in Inodes
    /\ temp[file[c]] = FolderOf[name[c]]
    /\ \A d \in Calls : Writing(d) /\ file[d] = file[c] => d = c
    /\ syscall[c] \in {"write", "link"} => \A k \in Keys : link[k] # file[c]
    /\ syscall[c] = "link" => content[file[c]] = "image"

(* A call that has looked for a name that is not there has missed it.      *)
LookInv ==
  \A c \in Calls :
    /\ op[c] = "idle" => answer[c] = "none" /\ syscall[c] = "end"
    /\ op[c] # "idle" => (answer[c] = "none" <=> syscall[c] \notin {"cleanup", "rmdir", "end"})
    /\ op[c] # "idle" /\ link[name[c]] = NoInode => missed[c]
    /\ At(c, "open", "open") => file[c] # NoInode /\ (link[name[c]] = file[c] \/ missed[c])

(* Nothing else loses a folder than its removal.                           *)
FolderInv ==
  \A c \in Calls :
    /\ op[c] # "put" => tries[c] = 0
    /\ At(c, "put", "create") /\ FolderOf[name[c]] \notin folders =>
         tries[c] < gone[c]
    /\ tries[c] = Attempts => syscall[c] = "end"

=============================================================================
