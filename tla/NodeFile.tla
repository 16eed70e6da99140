------------------------------ MODULE NodeFile ------------------------------
(***************************************************************************)
(* The registry and its file (main.c:418-524): setup_node reads the ids at *)
(* start and registers them one by one; every registration and removal     *)
(* rewrites the file, truncating it and then writing an id at a time.  The *)
(* process can end at every step (its SIGCHLD handler exits; the init      *)
(* script kills it), and so can the machine.                               *)
(*                                                                         *)
(* "file" is what the next open() finds, "disk" what a power loss leaves.  *)
(***************************************************************************)
EXTENDS Naturals, Sequences, SequencesExt

CONSTANTS Ids,
          NoFile,    \* NODE_FILE does not exist
          FirstFiles, \* what NODE_FILE may hold at the very first start
          Tight,     \* numbers of ids whose text fills its heap block exactly
          Stray      \* what atoi makes of the bytes after such a block

ASSUME FileAssumption ==
  /\ NoFile \notin Seq(Ids)
  /\ FirstFiles \subseteq Seq(Ids) \cup {NoFile}
  /\ Tight \subseteq Nat
  /\ Stray \in Ids

VARIABLES
  pc,      \* "down", "load", "idle", or where sync_list_to_file is
  nodes,   \* newLoRa
  loading, \* setup_node has not returned yet
  buffer,  \* the ids it has read and not yet registered
  file,
  disk,
  i,       \* the slot sync_list_to_file writes next
  known,   \* history: the first file, or the list as the last command or a
           \* struck start left it
  struck   \* history: something came between the list and its file

vars == <<pc, nodes, loading, buffer, file, disk, i, known, struck>>

TypeOK ==
  /\ pc \in {"down", "load", "idle", "truncate", "write", "sync"}
  /\ nodes \in Seq(Ids) /\ buffer \in Seq(Ids) /\ known \in Seq(Ids)
  /\ file \in Seq(Ids) \cup {NoFile} /\ disk \in Seq(Ids) \cup {NoFile}
  /\ i \in 1 .. Len(nodes) + 1
  /\ loading \in BOOLEAN /\ struck \in BOOLEAN

\* a comes before any b in s; <<a, a>> says that a is in s.
Order(s) ==
  {p \in Ids \X Ids :
     \E m \in DOMAIN s : s[m] = p[1] /\ \A j \in 1 .. m - 1 : s[j] # p[2]}

\* s is t with every id once, where it comes first.
Lists(s, t) == IsInjective(s) /\ Order(s) = Order(t)

Init ==
  /\ pc = "down"
  /\ nodes = <<>> /\ loading = FALSE /\ buffer = <<>>
  /\ file \in FirstFiles /\ disk = file
  /\ i = 1
  /\ known = IF file = NoFile THEN <<>> ELSE file
  /\ struck = FALSE

-----------------------------------------------------------------------------

\* setup_node: without a file, as with an empty one, there is nothing to load.
Start ==
  /\ pc = "down"
  /\ pc' = "load"
  /\ loading' = TRUE
  /\ buffer' = IF file = NoFile THEN <<>> ELSE file
  /\ UNCHANGED <<nodes, file, disk, i, known, struck>>

\* The buffer has no terminator: where it fills its block, strtok goes on
\* into the bytes that follow.
StartStray ==
  /\ pc = "down"
  /\ file # NoFile
  /\ Len(file) \in Tight
  /\ pc' = "load"
  /\ loading' = TRUE
  /\ buffer' = Append(file, Stray)
  /\ struck' = TRUE
  /\ UNCHANGED <<nodes, file, disk, i, known>>

\* Mutant: the loop goes on from where the last one stopped.
ChangeGoesOn(list) ==
  /\ nodes' = list
  /\ UNCHANGED i
  /\ pc' = "truncate"

\* The list was changed: sync_list_to_file is called.
Change(list) ==
  /\ nodes' = list
  /\ i' = 1
  /\ pc' = "truncate"

\* add_device(atoi(token)) for each id read: an id seen before is skipped.
Load ==
  /\ pc = "load"
  /\ buffer # <<>>
  /\ buffer' = Tail(buffer)
  /\ IF Contains(nodes, Head(buffer))
       THEN UNCHANGED <<pc, nodes, i>>
       ELSE Change(Append(nodes, Head(buffer)))
  /\ UNCHANGED <<loading, file, disk, known, struck>>

Loaded ==
  /\ pc = "load"
  /\ buffer = <<>>
  /\ pc' = "idle"
  /\ loading' = FALSE
  /\ known' = IF struck THEN nodes ELSE known
  /\ struck' = FALSE
  /\ UNCHANGED <<nodes, buffer, file, disk, i>>

AddDevice(id) ==
  /\ pc = "idle"
  /\ ~Contains(nodes, id)
  /\ Change(Append(nodes, id))
  /\ UNCHANGED <<loading, buffer, file, disk, known, struck>>

\* Mutant: the file keeps the device.
RemoveDeviceUnsaved(id) ==
  /\ pc = "idle"
  /\ \E m \in DOMAIN nodes : nodes[m] = id /\ nodes' = RemoveAt(nodes, m)
  /\ known' = nodes'
  /\ i' = 1
  /\ UNCHANGED <<pc, loading, buffer, file, disk, struck>>

RemoveDevice(id) ==
  /\ pc = "idle"
  /\ \E m \in DOMAIN nodes : nodes[m] = id /\ Change(RemoveAt(nodes, m))
  /\ UNCHANGED <<loading, buffer, file, disk, known, struck>>

-----------------------------------------------------------------------------
(* sync_list_to_file. *)

\* Back to setup_node's loop or to the command, which is then carried out.
Return ==
  /\ pc' = IF loading THEN "load" ELSE "idle"
  /\ known' = IF loading THEN known ELSE nodes

\* open() creates nothing: without a file the list is never saved.
NothingToSync ==
  /\ pc = "truncate"
  /\ file = NoFile
  /\ Return
  /\ UNCHANGED <<nodes, loading, buffer, file, disk, i, struck>>

\* ftruncate; for an empty list that is all, and there is no sync().
Truncate ==
  /\ pc = "truncate"
  /\ file # NoFile
  /\ file' = <<>>
  /\ IF nodes = <<>> THEN Return ELSE pc' = "write" /\ UNCHANGED known
  /\ UNCHANGED <<nodes, loading, buffer, disk, i, struck>>

Write ==
  /\ pc = "write"
  /\ file' = Append(file, nodes[i])
  /\ i' = i + 1
  /\ pc' = IF i = Len(nodes) THEN "sync" ELSE "write"
  /\ UNCHANGED <<nodes, loading, buffer, disk, known, struck>>

\* Mutant: close() without sync().
SyncForgotten ==
  /\ pc = "sync"
  /\ Return
  /\ UNCHANGED <<nodes, loading, buffer, file, disk, i, struck>>

Sync ==
  /\ pc = "sync"
  /\ disk' = file
  /\ Return
  /\ UNCHANGED <<nodes, loading, buffer, file, i, struck>>

-----------------------------------------------------------------------------

\* The kernel writes the file back when it likes.
Writeback ==
  /\ disk # file
  /\ disk' = file
  /\ UNCHANGED <<pc, nodes, loading, buffer, file, i, known, struck>>

\* The file does not hold the list the user has been told of, or is about to be.
Rewriting ==
  \/ pc \in {"truncate", "write", "sync"}
  \/ pc = "load" /\ nodes # <<>> /\ buffer # <<>>

Down ==
  /\ pc' = "down"
  /\ nodes' = <<>> /\ loading' = FALSE /\ buffer' = <<>> /\ i' = 1
  /\ UNCHANGED known

\* exit() in sig_chld, or SIGTERM.
ProcessEnds ==
  /\ pc # "down"
  /\ Down
  /\ struck' = (struck \/ Rewriting)
  /\ UNCHANGED <<file, disk>>

\* A list that has become empty is not synced.
PowerLoss ==
  /\ Down
  /\ file' = disk
  /\ struck' = (struck \/ Rewriting \/ file = <<>>)
  /\ UNCHANGED disk

Next ==
  \/ Start \/ StartStray \/ Load \/ Loaded
  \/ \E id \in Ids : AddDevice(id) \/ RemoveDevice(id)
  \/ NothingToSync \/ Truncate \/ Write \/ Sync
  \/ Writeback \/ ProcessEnds \/ PowerLoss

Spec == Init /\ [][Next]_vars

-----------------------------------------------------------------------------

(***************************************************************************)
(* A restart finds the list as the last command left it, and the first     *)
(* start every id of the file once (main.c:491-497), whether the process   *)
(* or the machine went down, unless that happened during a rewriting       *)
(* (setup_node's own included) or, for the machine, with the list empty,   *)
(* or setup_node read past its buffer.                                     *)
(***************************************************************************)
RestartExact == pc = "idle" /\ file # NoFile => Lists(nodes, known)

(***************************************************************************)
(* Struck or not, once no rewriting is under way the file holds what the   *)
(* memory holds, in its order (main.c:511-518): what a crash has cost is   *)
(* lost in both, and a repeated or stray id is in both once.  A rewriting  *)
(* that ends early costs the later devices only: at every moment of it the *)
(* file is a leading part of the list.                                     *)
(***************************************************************************)
FileInStep ==
  /\ pc = "idle" /\ file # NoFile => file = nodes
  /\ pc \in {"write", "sync"} => IsPrefix(file, nodes)

=============================================================================
