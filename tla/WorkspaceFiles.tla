---------------------------- MODULE WorkspaceFiles ----------------------------
(***************************************************************************)
(* The files of a topic or of a workspace (router/v1/filesystem.py): one   *)
(* namespace of the agents' store, a map from paths to values.  A folder   *)
(* is a value of its own beside the files whose paths begin with its path. *)
(*                                                                         *)
(* Every call of the store is awaited, so that requests come between the   *)
(* calls of one another, and any of them can fail.  A path is a sequence   *)
(* of names; what a file holds is the request that wrote it.  The messages *)
(* to watchers are left out.                                               *)
(***************************************************************************)
EXTENDS Naturals, SequencesExt

CONSTANTS
  Calls,       \* requests
  Names,       \* names of files and folders
  MaxDepth,    \* bound: names of a path
  MemoryFile,  \* the name AGENTS.md
  Skills,      \* the name skills
  FirstFiles,  \* paths that hold something at the start
  Mounts,      \* paths of the files mounted from the agent's configuration
  NoFile,      \* nothing is there
  Mount        \* the content of a mounted file

VARIABLES
  fileStore,   \* what every path holds
  access         \* what every request is doing

fileVars == <<fileStore, access>>

FilePaths == UNION {[1..n -> Names] : n \in 1..MaxDepth}

ASSUME FilesAssumption == MaxDepth \in Nat /\ Mounts \subseteq FilePaths

Holding(dir, by) == [dir |-> dir, by |-> by]

\* AGENTS.md and what is below skills, but not skills itself.
MountedReadonly(p) == p[1] = MemoryFile \/ (p[1] = Skills /\ Len(p) > 1)

Below(p, folder) == IsPrefix(folder, p)
Held(folder) == {p \in FilePaths : Below(p, folder) /\ fileStore[p] # NoFile}

Waiting == [op |-> "none"]
Answered == [op |-> "done"]

FilesInit ==
  /\ fileStore = [p \in FilePaths |-> IF p \in FirstFiles THEN Holding(FALSE, p) ELSE NoFile]
  /\ access = [r \in Calls |-> Waiting]

\* A request changes what p holds; a move that goes on in the folders concerned is no
\* longer by itself there.
Change(r, p, value, next) ==
  /\ fileStore' = [fileStore EXCEPT ![p] = value]
  /\ access' = [q \in Calls |->
       IF q = r THEN next
       ELSE IF access[q].op = "move" /\ (Below(p, access[q].path) \/ Below(p, access[q].dest))
            THEN [access[q] EXCEPT !.alone = FALSE]
            ELSE access[q]]

---------------------------------------------------------------------------
(* Requests for one path: write (with create_only or not), upload, mkdir.  *)

\* What the path holds is looked up and decides what will be stored, and whether.
LookUp(r) ==
  /\ access[r] = Waiting
  /\ \E p \in FilePaths, op \in {"write", "create", "mkdir"} :
       /\ ~MountedReadonly(p)
       /\ op # "write" => fileStore[p] = NoFile
       /\ access' = [access EXCEPT ![r] = [op |-> op, path |-> p]]
  /\ UNCHANGED fileStore

Put(r) ==
  /\ access[r].op \in {"write", "create", "mkdir"}
  /\ Change(r, access[r].path, Holding(access[r].op = "mkdir", r), Answered)

---------------------------------------------------------------------------
(* Requests for several paths. *)

\* A folder is deleted with all that is below it, a single path alone.
DeleteLookUp(r) ==
  /\ access[r] = Waiting
  /\ \E p \in FilePaths, recursive \in BOOLEAN :
       LET found == IF recursive THEN Held(p) ELSE Held(p) \cap {p}
       IN /\ ~MountedReadonly(p) /\ found # {}
          /\ access' = [access EXCEPT ![r] = [op |-> "delete", path |-> p, todo |-> found]]
  /\ UNCHANGED fileStore

DeleteOne(r) ==
  /\ access[r].op = "delete"
  /\ \E p \in access[r].todo :
       Change(r, p, NoFile,
              IF access[r].todo = {p} THEN Answered ELSE [access[r] EXCEPT !.todo = @ \ {p}])

\* (not the code) All that is below the source goes to the one path.
FaultyRebase(p, source, dest) == dest

\* The path below dest that stands for p below source.
Rebase(p, source, dest) == dest \o SubSeq(p, Len(source) + 1, Len(p))

Overlap(p, q) == IsPrefix(p, q) \/ IsPrefix(q, p)

\* A move reads the source and all that is below it.  The check for mounted files is about
\* the two paths of the request only.
MoveLookUp(r) ==
  /\ access[r] = Waiting
  /\ \E source \in FilePaths, dest \in FilePaths :
       /\ ~MountedReadonly(source) /\ ~MountedReadonly(dest)
       /\ Held(source) # {}
       /\ \A p \in Held(source) : Len(p) - Len(source) + Len(dest) <= MaxDepth
       /\ access' = [access EXCEPT ![r] =
            [op |-> "move", path |-> source, dest |-> dest,
             found |-> {[path |-> p, value |-> fileStore[p]] : p \in Held(source)},
             todo |-> Held(source), copied |-> {}, alone |-> ~Overlap(source, dest)]]
  /\ UNCHANGED fileStore

\* One path after the other is written anew, then deleted.
MoveCopy(r) ==
  /\ access[r].op = "move" /\ access[r].copied = {}
  /\ \E i \in access[r].found :
       /\ i.path \in access[r].todo
       /\ Change(r, Rebase(i.path, access[r].path, access[r].dest), i.value,
                 [access[r] EXCEPT !.copied = {i.path}])

MoveRemove(r) ==
  /\ access[r].op = "move"
  /\ \E p \in access[r].copied :
       Change(r, p, NoFile,
              IF access[r].todo = {p} THEN Answered
              ELSE [access[r] EXCEPT !.todo = @ \ {p}, !.copied = {}])

\* Listing the files of a topic stores the mounted ones first.
ListFiles(r) ==
  /\ access[r] = Waiting
  /\ access' = [access EXCEPT ![r] = [op |-> "list", todo |-> Mounts]]
  /\ UNCHANGED fileStore

EnsureMounted(r) ==
  /\ access[r].op = "list"
  /\ \E p \in access[r].todo :
       Change(r, p, Holding(FALSE, Mount),
              IF access[r].todo = {p} THEN Answered ELSE [access[r] EXCEPT !.todo = @ \ {p}])

\* A call of the store fails and with it the request.
StoreFails(r) ==
  /\ access[r] \notin {Waiting, Answered}
  /\ access' = [access EXCEPT ![r] = Answered]
  /\ UNCHANGED fileStore

FilesNext ==
  \E r \in Calls :
    \/ LookUp(r) \/ Put(r)
    \/ DeleteLookUp(r) \/ DeleteOne(r)
    \/ MoveLookUp(r) \/ MoveCopy(r) \/ MoveRemove(r)
    \/ ListFiles(r) \/ EnsureMounted(r) \/ StoreFails(r)

FilesSpec == FilesInit /\ [][FilesNext]_fileVars

---------------------------------------------------------------------------
(* Properties. *)

\* Types of the two variables.
FilesTypeOK ==
  /\ \A p \in FilePaths : fileStore[p] = NoFile \/ fileStore[p].dir \in BOOLEAN
  /\ \A r \in Calls : access[r].op \in {"none", "write", "create", "mkdir", "delete", "move", "list", "done"}

\* At every moment of a move, so also when it fails there, everything it found is where it
\* was or where it is to go, with what it held, and has left its old place when the move is
\* through with it.  This holds while no other request changes either folder and neither
\* is part of the other, however many paths there are and in whatever order they are moved.
MoveLosesNothing ==
  \A r \in Calls : access[r].op = "move" /\ access[r].alone =>
    \A i \in access[r].found :
      LET new == Rebase(i.path, access[r].path, access[r].dest)
      IN IF i.path \in access[r].todo
         THEN fileStore[i.path] = i.value /\ (i.path \in access[r].copied => fileStore[new] = i.value)
         ELSE fileStore[i.path] = NoFile /\ fileStore[new] = i.value
=============================================================================
