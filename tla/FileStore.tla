----------------------------- MODULE FileStore -----------------------------
(***************************************************************************)
(* What backend-go/internal/filestore promises of a Store: the interface   *)
(* of store.go, read as MemoryStore (memory.go) does it, in one step under *)
(* its lock. A call is begun, has its effect and its answer in one step    *)
(* some time later, and returns.                                           *)
(***************************************************************************)
EXTENDS Naturals

CONSTANTS
  Keys,    \* internal names (storageKey)
  Calls    \* calls that may run at the same time

Images == {"image"}     \* the bytes of an image, whole
Absent == "absent"

Operations == {"put", "open", "delete"}
Answers == {"none", "ok", "exists", "not_found", "failed"} \cup Images

VARIABLES
  files,    \* the map of names to contents
  op,       \* what every call does, "idle" when there is none
  name,     \* the name it is about
  answer,   \* what it will return, "none" until it is decided
  missed    \* whether the name was free at some time since the call began

vars == <<files, op, name, answer, missed>>

TypeOK ==
  /\ files \in [Keys -> Images \cup {Absent}]
  /\ op \in [Calls -> Operations \cup {"idle"}]
  /\ name \in [Calls -> Keys]
  /\ answer \in [Calls -> Answers]
  /\ missed \in [Calls -> BOOLEAN]

SomeKey == CHOOSE k \in Keys : TRUE

Init ==
  /\ files = [k \in Keys |-> Absent]
  /\ op = [c \in Calls |-> "idle"]
  /\ name = [c \in Calls |-> SomeKey]
  /\ answer = [c \in Calls |-> "none"]
  /\ missed = [c \in Calls |-> FALSE]

Begin(c, o, k) ==
  /\ op[c] = "idle"
  /\ op' = [op EXCEPT ![c] = o]
  /\ name' = [name EXCEPT ![c] = k]
  /\ missed' = [missed EXCEPT ![c] = files[k] = Absent]
  /\ UNCHANGED <<files, answer>>

Answer(c, a) == answer[c] = "none" /\ answer' = [answer EXCEPT ![c] = a]

(* Put never overwrites.                                                   *)
Put(c) ==
  LET k == name[c] IN
  /\ op[c] = "put"
  /\ \/ files[k] = Absent /\ Answer(c, "ok") /\ files' = [files EXCEPT ![k] = "image"]
     \/ files[k] # Absent /\ Answer(c, "exists") /\ UNCHANGED files
  /\ UNCHANGED <<op, name, missed>>

(* A name that is freed is missed by every call about it.                  *)
Delete(c) ==
  LET k == name[c] IN
  /\ op[c] = "delete"
  /\ \/ /\ files[k] # Absent
        /\ Answer(c, "ok")
        /\ files' = [files EXCEPT ![k] = Absent]
        /\ missed' = [d \in Calls |-> missed[d] \/ name[d] = k]
     \/ /\ files[k] = Absent
        /\ Answer(c, "not_found")
        /\ UNCHANGED <<files, missed>>
  /\ UNCHANGED <<op, name>>

(* Open answers the whole file, or that there was none at some time since  *)
(* it was called.                                                          *)
Open(c) ==
  /\ op[c] = "open"
  /\ \/ files[name[c]] # Absent /\ Answer(c, files[name[c]])
     \/ missed[c] /\ Answer(c, "not_found")
  /\ UNCHANGED <<files, op, name, missed>>

(* A context that is over, a disk that fails: nothing was done.            *)
Fail(c) ==
  /\ op[c] # "idle"
  /\ Answer(c, "failed")
  /\ UNCHANGED <<files, op, name, missed>>

Reset(C) ==
  /\ op' = [c \in Calls |-> IF c \in C THEN "idle" ELSE op[c]]
  /\ name' = [c \in Calls |-> IF c \in C THEN SomeKey ELSE name[c]]
  /\ answer' = [c \in Calls |-> IF c \in C THEN "none" ELSE answer[c]]
  /\ missed' = [c \in Calls |-> IF c \in C THEN FALSE ELSE missed[c]]

Return(c) ==
  /\ answer[c] # "none"
  /\ Reset({c})
  /\ UNCHANGED files

(* The callers are gone, with what they were doing done or not.            *)
Crash == Reset(Calls) /\ UNCHANGED files

Next ==
  \/ \E c \in Calls :
       \/ \E o \in Operations, k \in Keys : Begin(c, o, k)
       \/ Put(c) \/ Delete(c) \/ Open(c) \/ Fail(c) \/ Return(c)
  \/ Crash

Spec == Init /\ [][Next]_vars

=============================================================================
