------------------------------ MODULE RagIndex ------------------------------
(***************************************************************************)
(* rag.ts and router/ragRoutes.ts, with the editor's codecrabRagWatcher.ts:*)
(* one table of embedded chunks per workspace.  The routes wait for nobody *)
(* else's work, and most answer before they begin their own, so that       *)
(* re-indexing the workspace, updating a file, deleting files, syncing and *)
(* retrieving interleave at every await of the database and of the         *)
(* embedding model.                                                        *)
(*                                                                         *)
(* A file's content is the number of its save; the chunks of one content   *)
(* are one entry of the table.  The database is external: a call of it     *)
(* takes effect at one instant, or fails and leaves the table as it is.    *)
(***************************************************************************)
EXTENDS Naturals, Sequences, SequencesExt, FiniteSets

CONSTANTS
    Files,     \* the indexable files of the workspace
    Ops,       \* the operations that may be in flight at once
    MaxSaves   \* bound on the saves of each file, for model checking only

ASSUME RagIndexAssumption == MaxSaves \in Nat

VARIABLES
    saves,       \* how many times each file was saved
    disk,        \* its content: its last save, 0 when there is no file
    reported,    \* deletions the editor's watcher has still to report
    ready,       \* em.isReady
    exists,      \* the workspace has a table
    rows,        \* the contents of each file in the table, oldest first
    op,          \* the operations in flight
    overlapped   \* two operations that write were in flight at once

vars == <<saves, disk, reported, ready, exists, rows, op, overlapped>>

Idle == [kind |-> "none"]

Contents == 1..MaxSaves

Hits == [file : Files, content : Contents]

Updates == [kind : {"update"}, pc : {"open", "delete", "add"}, file : Files,
            content : Contents]
Deletions == [kind : {"delete"}, pc : {"open", "delete"}, files : SUBSET Files]
Syncs == [kind : {"sync"}, pc : {"open", "check", "delete"}, files : SUBSET Files]
Indexings == [kind : {"index"}, todo : SUBSET Files,
              records : [Files -> Contents \cup {0}]]
Retrievals == [kind : {"retrieve"}, pc : {"search", "filter", "done"},
               hits : SUBSET Hits]
Operations ==
    Updates \cup Deletions \cup Syncs \cup Indexings \cup Retrievals \cup {Idle}

TypeOK ==
    /\ saves \in [Files -> Contents \cup {0}]
    /\ disk \in [Files -> Contents \cup {0}]
    /\ reported \subseteq Files
    /\ ready \in BOOLEAN
    /\ exists \in BOOLEAN
    /\ rows \in [Files -> Seq(Contents)]
    /\ op \in [Ops -> Operations]
    /\ overlapped \in BOOLEAN

(* A first start: no table yet.                                            *)
Init ==
    /\ saves = [f \in Files |-> 0]
    /\ disk = [f \in Files |-> 0]
    /\ reported = {}
    /\ ready = FALSE
    /\ exists = FALSE
    /\ rows = [f \in Files |-> <<>>]
    /\ op = [o \in Ops |-> Idle]
    /\ overlapped = FALSE

-----------------------------------------------------------------------------
(* The workspace and the editor *)

Save(f) ==
    /\ saves[f] < MaxSaves
    /\ saves' = [saves EXCEPT ![f] = @ + 1]
    /\ disk' = [disk EXCEPT ![f] = saves[f] + 1]
    /\ UNCHANGED <<reported, ready, exists, rows, op, overlapped>>

(* Deleted in the editor, which will report it, or behind its back.        *)
Unlink(f) ==
    /\ disk[f] # 0
    /\ disk' = [disk EXCEPT ![f] = 0]
    /\ \/ reported' = reported \cup {f}
       \/ UNCHANGED reported
    /\ UNCHANGED <<saves, ready, exists, rows, op, overlapped>>

(* The request of the watcher fails, silently.                             *)
ReportLost ==
    /\ reported # {}
    /\ reported' = {}
    /\ UNCHANGED <<saves, disk, ready, exists, rows, op, overlapped>>

EmbeddingReady ==
    /\ ~ready
    /\ ready' = TRUE
    /\ UNCHANGED <<saves, disk, reported, exists, rows, op, overlapped>>

(* The router stops and starts again: only the table is on disk.           *)
Restart ==
    /\ ready
    /\ ready' = FALSE
    /\ op' = [o \in Ops |-> Idle]
    /\ UNCHANGED <<saves, disk, reported, exists, rows, overlapped>>

-----------------------------------------------------------------------------
(* The requests *)

Writes(x) == x.kind \in {"update", "delete", "sync", "index"}

Starts(o, x) ==
    /\ op[o] = Idle
    /\ op' = [op EXCEPT ![o] = x]
    /\ overlapped' = \/ overlapped
                     \/ Writes(x) /\ \E p \in Ops : Writes(op[p])

(* POST /v1/index/file with the content of some save: the last one, or an  *)
(* earlier one whose request was slower.                                   *)
PostUpdate(o, f) ==
    /\ ready
    /\ \E v \in 1..saves[f] :
          Starts(o, [kind |-> "update", pc |-> "open", file |-> f, content |-> v])
    /\ UNCHANGED <<saves, disk, reported, ready, exists, rows>>

(* POST /v1/index/delete, the watcher's batch.                             *)
PostDelete(o) ==
    /\ reported # {}
    /\ Starts(o, [kind |-> "delete", pc |-> "open", files |-> reported])
    /\ reported' = {}
    /\ UNCHANGED <<saves, disk, ready, exists, rows>>

(* POST /v1/index/sync, at the start of an editor.                         *)
PostSync(o) ==
    /\ Starts(o, [kind |-> "sync", pc |-> "open", files |-> {}])
    /\ UNCHANGED <<saves, disk, reported, ready, exists, rows>>

(* POST /v1/index: the files are listed before the first await.            *)
PostIndex(o) ==
    /\ ready
    /\ Starts(o, [kind |-> "index", todo |-> {f \in Files : disk[f] # 0},
                  records |-> [f \in Files |-> 0]])
    /\ UNCHANGED <<saves, disk, reported, ready, exists, rows>>

(* A chat request asks for the chunks nearest to its query.                *)
Retrieve(o) ==
    /\ ready
    /\ Starts(o, [kind |-> "retrieve", pc |-> "search", hits |-> {}])
    /\ UNCHANGED <<saves, disk, reported, ready, exists, rows>>

-----------------------------------------------------------------------------
(* The operations *)

At(o, kind, pc) == op[o].kind = kind /\ op[o].pc = pc

Goes(o, pc) == op' = [op EXCEPT ![o].pc = pc]

Ends(o) == op' = [op EXCEPT ![o] = Idle]

(* tableNames() and openTable(): without a table there is nothing to do.   *)
OpenTable(o) ==
    /\ op[o].kind \in {"update", "delete", "sync"}
    /\ op[o].pc = "open"
    /\ IF exists THEN Goes(o, IF op[o].kind = "sync" THEN "check" ELSE "delete")
                 ELSE Ends(o)
    /\ UNCHANGED <<saves, disk, reported, ready, exists, rows, overlapped>>

(* Mutant: the new chunks are added beside the old ones.                   *)
UpdateKeepsOld(o) ==
    /\ At(o, "update", "delete")
    /\ Goes(o, "add")
    /\ UNCHANGED <<saves, disk, reported, ready, exists, rows, overlapped>>

UpdateDeletes(o) ==
    /\ At(o, "update", "delete")
    /\ rows' = [rows EXCEPT ![op[o].file] = <<>>]
    /\ Goes(o, "add")
    /\ UNCHANGED <<saves, disk, reported, ready, exists, overlapped>>

(* The chunks of the request's content are embedded; none may be left.     *)
UpdateAdds(o) ==
    /\ At(o, "update", "add")
    /\ \/ rows' = [rows EXCEPT ![op[o].file] = Append(@, op[o].content)]
       \/ UNCHANGED rows
    /\ Ends(o)
    /\ UNCHANGED <<saves, disk, reported, ready, exists, overlapped>>

Without(files) == [f \in Files |-> IF f \in files THEN <<>> ELSE rows[f]]

(* The last step of deleteFiles() and of syncWorkspace().                  *)
DeleteRows(o) ==
    /\ At(o, "delete", "delete") \/ At(o, "sync", "delete")
    /\ rows' = Without(op[o].files)
    /\ Ends(o)
    /\ UNCHANGED <<saves, disk, reported, ready, exists, overlapped>>

(* Mutant: what the watcher has reported counts as gone.                   *)
SyncTrustsReports(o) ==
    /\ At(o, "sync", "check")
    /\ LET missing == {f \in Files : rows[f] # <<>> /\ (disk[f] = 0 \/ f \in reported)}
       IN  IF missing = {} THEN Ends(o)
           ELSE op' = [op EXCEPT ![o].pc = "delete", ![o].files = missing]
    /\ UNCHANGED <<saves, disk, reported, ready, exists, rows, overlapped>>

(* The paths of the table are back: which of them are no longer on disk?   *)
SyncChecks(o) ==
    /\ At(o, "sync", "check")
    /\ LET missing == {f \in Files : rows[f] # <<>> /\ disk[f] = 0}
       IN  IF missing = {} THEN Ends(o)
           ELSE op' = [op EXCEPT ![o].pc = "delete", ![o].files = missing]
    /\ UNCHANGED <<saves, disk, reported, ready, exists, rows, overlapped>>

(* A listed file is read, chunked and embedded; it may be gone by then,    *)
(* too large, or without a chunk.                                          *)
IndexReads(o, f) ==
    /\ op[o].kind = "index"
    /\ f \in op[o].todo
    /\ \E v \in {0, disk[f]} :
          op' = [op EXCEPT ![o].todo = @ \ {f}, ![o].records[f] = v]
    /\ UNCHANGED <<saves, disk, reported, ready, exists, rows, overlapped>>

(* createTable() overwrites the table; with no record at all it is kept.   *)
IndexOverwrites(o) ==
    /\ op[o].kind = "index"
    /\ op[o].todo = {}
    /\ LET records == op[o].records
       IN  IF \A f \in Files : records[f] = 0 THEN UNCHANGED <<exists, rows>>
           ELSE /\ exists' = TRUE
                /\ rows' = [f \in Files |-> IF records[f] = 0 THEN <<>>
                                            ELSE <<records[f]>>]
    /\ Ends(o)
    /\ UNCHANGED <<saves, disk, reported, ready, overlapped>>

(* The chunks nearest to the query, whichever they are.                    *)
RetrieveSearches(o) ==
    /\ At(o, "retrieve", "search")
    /\ LET all == UNION {[file : {f}, content : ToSet(rows[f])] : f \in Files}
       IN  \E hits \in SUBSET all :
              op' = [op EXCEPT ![o].pc = "filter", ![o].hits = hits]
    /\ UNCHANGED <<saves, disk, reported, ready, exists, rows, overlapped>>

(* The safety filter: hits whose file is gone are dropped.                 *)
RetrieveFilters(o) ==
    /\ At(o, "retrieve", "filter")
    /\ op' = [op EXCEPT ![o].pc = "done", ![o].hits = {h \in @ : disk[h.file] # 0}]
    /\ UNCHANGED <<saves, disk, reported, ready, exists, rows, overlapped>>

(* The rest goes into a prompt, after awaits in which a file may go.       *)
RetrieveReturns(o) ==
    /\ At(o, "retrieve", "done")
    /\ Ends(o)
    /\ UNCHANGED <<saves, disk, reported, ready, exists, rows, overlapped>>

(* A call of the database rejects: the error is logged and swallowed.      *)
OpFails(o) ==
    /\ op[o] # Idle
    /\ Ends(o)
    /\ UNCHANGED <<saves, disk, reported, ready, exists, rows, overlapped>>

-----------------------------------------------------------------------------
WorkspaceStep == (\E f \in Files : Save(f) \/ Unlink(f)) \/ ReportLost

Request(o) ==
    \/ \E f \in Files : PostUpdate(o, f)
    \/ PostDelete(o) \/ PostSync(o) \/ PostIndex(o) \/ Retrieve(o)

OpStep(o) ==
    \/ OpenTable(o) \/ UpdateDeletes(o) \/ UpdateAdds(o) \/ DeleteRows(o)
    \/ SyncChecks(o) \/ (\E f \in Files : IndexReads(o, f))
    \/ IndexOverwrites(o) \/ RetrieveSearches(o) \/ RetrieveFilters(o)
    \/ RetrieveReturns(o) \/ OpFails(o)

Next ==
    \/ WorkspaceStep
    \/ EmbeddingReady
    \/ Restart
    \/ \E o \in Ops : Request(o) \/ OpStep(o)

Spec == Init /\ [][Next]_vars

-----------------------------------------------------------------------------
(* Properties *)

(* As long as no two operations that write overlap, the table holds one    *)
(* content of each file, whatever fails or restarts in between, however    *)
(* late a request is and whatever happens to the files meanwhile.          *)
SerialOpsLeaveOneCopy ==
    ~overlapped => \A f \in Files : Len(rows[f]) <= 1

(* "Purge any vectors whose source files no longer exist" (rag.ts:371):    *)
(* what a sync is about to delete is of contents that are no longer on     *)
(* disk, though it looked for the files an await ago and they may have been*)
(* saved since.  An update that overlaps the sync has no such luck: the    *)
(* sync takes the chunks it has just added.                                *)
SyncTakesOnlyGhosts ==
    ~overlapped =>
        \A o \in Ops : At(o, "sync", "delete") =>
            \A f \in op[o].files : disk[f] \notin ToSet(rows[f])

=============================================================================
