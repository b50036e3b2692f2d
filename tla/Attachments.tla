----------------------------- MODULE Attachments -----------------------------
(***************************************************************************)
(* Files of tasks (tasks.service.ts: generatePresignedUrl, confirmAttachment, *)
(* deleteAttachment; s3.service.ts).  The row is in PostgreSQL and the object  *)
(* in MinIO, with no transaction over both: the browser puts the object by    *)
(* itself, any request may be repeated or overlap another, and any call of     *)
(* either store may fail.                                                    *)
(***************************************************************************)
EXTENDS Naturals, Sequences, FiniteSets, SequencesExt

CONSTANTS
    Object,      \* object names; each presigned one is new
    Client,      \* requests at a time
    MaxFiles,    \* bound: rows ever created
    MaxPuts      \* bound: uploads

ASSUME AttachmentsAssumption == MaxFiles \in Nat /\ MaxPuts \in Nat

VARIABLES
    signed,      \* names with an upload address
    stored,      \* objects in the storage
    fileRows,    \* the attachments: [object, there], by id
    client,      \* the request of each: [step, object, row, answer]
    kept,        \* objects that had a row since they were put
    puts

fileVars == <<signed, stored, fileRows, client, kept, puts>>

Files == DOMAIN fileRows
Free == [step |-> "free", object |-> "", row |-> 0, answer |-> ""]
Request(step) == {c \in Client : client[c].step = step}
Moves(c, step) == client' = [client EXCEPT ![c].step = step]
Answers(c, answer) == client' = [client EXCEPT ![c] = [Free EXCEPT !.answer = answer]]

\* generatePresignedUrl: a new name; nothing is written.
Presign ==
    /\ \E o \in Object \ signed : signed' = signed \cup {o}
    /\ UNCHANGED <<stored, fileRows, client, kept, puts>>

\* The browser uploads, and may upload again while the address is good.
PutObject ==
    /\ puts < MaxPuts /\ puts' = puts + 1
    /\ \E o \in signed : stored' = stored \cup {o} /\ kept' = kept \ {o}
    /\ UNCHANGED <<signed, fileRows, client>>

\* confirmAttachment: the object must be there.
Confirm ==
    /\ \E c \in Request("free"), o \in signed :
          IF o \in stored
          THEN client' = [client EXCEPT ![c] = [Free EXCEPT !.step = "create", !.object = o]]
          ELSE Answers(c, "refused")
    /\ UNCHANGED <<signed, stored, fileRows, kept, puts>>

CreateRow ==
    /\ Len(fileRows) < MaxFiles
    /\ \E c \in Request("create") :
          /\ fileRows' = Append(fileRows, [object |-> client[c].object, there |-> TRUE])
          /\ kept' = kept \cup ({client[c].object} \cap stored)
          /\ Moves(c, "emit")
    /\ UNCHANGED <<signed, stored, puts>>

\* deleteAttachment: by the row's id.
Delete ==
    /\ \E c \in Request("free"), f \in Files :
          IF fileRows[f].there
          THEN client' = [client EXCEPT ![c] = [Free EXCEPT !.step = "remove", !.row = f]]
          ELSE Answers(c, "refused")
    /\ UNCHANGED <<signed, stored, fileRows, kept, puts>>

\* Mutant of RemoveObject: the row goes first.
DestroyRowFirst ==
    /\ \E c \in Request("remove") :
          /\ fileRows' = [fileRows EXCEPT ![client[c].row].there = FALSE]
          /\ Moves(c, "destroy")
    /\ UNCHANGED <<signed, stored, kept, puts>>

\* An object that is gone already is removed as well.
RemoveObject ==
    /\ \E c \in Request("remove") :
          /\ stored' = stored \ {fileRows[client[c].row].object}
          /\ kept' = kept \ {fileRows[client[c].row].object}
          /\ Moves(c, "destroy")
    /\ UNCHANGED <<signed, fileRows, puts>>

DestroyRow ==
    /\ \E c \in Request("destroy") :
          /\ fileRows' = [fileRows EXCEPT ![client[c].row].there = FALSE]
          /\ Moves(c, "emit")
    /\ UNCHANGED <<signed, stored, kept, puts>>

\* The task is read again, emitted to the board, and the request answered.
EmitTask ==
    /\ \E c \in Request("emit") : Answers(c, "done")
    /\ UNCHANGED <<signed, stored, fileRows, kept, puts>>

\* Any call fails, and nothing that was done before is undone.
CallFails ==
    /\ \E c \in Client : client[c].step # "free" /\ Answers(c, "error")
    /\ UNCHANGED <<signed, stored, fileRows, kept, puts>>

FilesInit ==
    /\ signed = {} /\ stored = {} /\ fileRows = <<>> /\ client = [c \in Client |-> Free]
    /\ kept = {} /\ puts = 0

FilesNext ==
    \/ Presign \/ PutObject \/ Confirm \/ CreateRow \/ Delete \/ RemoveObject \/ DestroyRow
    \/ EmitTask \/ CallFails

FilesSpec == FilesInit /\ [][FilesNext]_fileVars

----------------------------------------------------------------------------
(* Properties. *)

\* An object that was attached and not uploaded again since has a row as long as it is in
\* the storage: however deletions fail half-way, are repeated or overlap, no attached file
\* is left that nobody can delete any more.
AttachedFilesHaveRows ==
    \A o \in kept \cap stored : \E f \in Files : fileRows[f].there /\ fileRows[f].object = o
===============================================================================
