--------------------------- MODULE RagIndexProofs ---------------------------
(***************************************************************************)
(* Theorems about RagIndex, for every set of files and of operations.      *)
(***************************************************************************)
EXTENDS RagIndex, TLAPS

(* Until two operations that write have overlapped, one writes at a time.  *)
WriterInv ==
    ~overlapped => \A o, p \in Ops : Writes(op[o]) /\ Writes(op[p]) => o = p

(* Until then, what an update is about to add to has been emptied.         *)
GapInv ==
    ~overlapped =>
        \A o \in Ops : At(o, "update", "add") => rows[op[o].file] = <<>>

IInv == TypeOK /\ WriterInv /\ GapInv /\ SerialOpsLeaveOneCopy

(* The contents that operation x will put in the table were saved.         *)
OfSaves(x) ==
    /\ x.kind = "update" => x.content <= saves[x.file]
    /\ x.kind = "index" => \A f \in Files : x.records[f] <= saves[f]

(* No content comes before its save: a later save is in no row.            *)
Saved ==
    /\ \A f \in Files :
          /\ disk[f] <= saves[f]
          /\ \A i \in 1..Len(rows[f]) : rows[f][i] <= saves[f]
    /\ \A o \in Ops : OfSaves(op[o])

GhostInv == Saved /\ SyncTakesOnlyGhosts

-----------------------------------------------------------------------------
LEMMA ShortSequences ==
    ASSUME NEW S
    PROVE  /\ <<>> \in Seq(S) /\ Len(<<>>) = 0
           /\ \A v \in S : <<v>> \in Seq(S) /\ Len(<<v>>) = 1
           /\ \A s \in Seq(S), v \in S : Append(s, v) \in Seq(S)
           /\ \A v \in S : Append(<<>>, v) = <<v>>
OBVIOUS

(* The type of an operation goes by its kind.                              *)
LEMMA KindsDiffer ==
    ASSUME NEW x \in Operations
    PROVE  /\ x.kind = "update" => x \in Updates
           /\ x.kind = "delete" => x \in Deletions
           /\ x.kind = "sync" => x \in Syncs
           /\ x.kind = "index" => x \in Indexings
           /\ x.kind = "retrieve" => x \in Retrievals
BY DEF Operations, Updates, Deletions, Syncs, Indexings, Retrievals, Idle

(* An operation that starts was idle, and is an operation.                 *)
LEMMA RequestTypes ==
    ASSUME TypeOK, NEW o \in Ops, Request(o)
    PROVE  /\ op[o] = Idle
           /\ \E x \in Operations :
                 /\ x.kind \in {"update", "sync"} => x.pc = "open"
                 /\ OfSaves(x)
                 /\ Starts(o, x)
           /\ reported' \in SUBSET reported
           /\ UNCHANGED <<saves, disk, ready, exists, rows>>
<1>1. ASSUME NEW f \in Files, PostUpdate(o, f)
      PROVE  \E v \in 1..saves[f] :
                Starts(o, [kind |-> "update", pc |-> "open", file |-> f,
                           content |-> v])
  BY <1>1 DEF PostUpdate
<1>2. ASSUME NEW f \in Files, NEW v \in 1..saves[f]
      PROVE  [kind |-> "update", pc |-> "open", file |-> f, content |-> v]
                \in Operations
  BY <1>2, RagIndexAssumption DEF TypeOK, Operations, Updates, Contents
<1>3. [kind |-> "delete", pc |-> "open", files |-> reported] \in Operations
  BY DEF TypeOK, Operations, Deletions
<1>4. [kind |-> "sync", pc |-> "open", files |-> {}] \in Operations
  BY DEF Operations, Syncs
<1>5. [kind |-> "index", todo |-> {f \in Files : disk[f] # 0},
       records |-> [f \in Files |-> 0]] \in Operations
  BY DEF Operations, Indexings
<1>6. [kind |-> "retrieve", pc |-> "search", hits |-> {}] \in Operations
  BY DEF Operations, Retrievals
<1>7. \E x \in Operations :
         /\ x.kind \in {"update", "sync"} => x.pc = "open"
         /\ OfSaves(x)
         /\ Starts(o, x)
  <2>1. CASE \E f \in Files : PostUpdate(o, f)
    <3>1. PICK f \in Files : PostUpdate(o, f)
      BY <2>1
    <3>2. PICK v \in 1..saves[f] :
             Starts(o, [kind |-> "update", pc |-> "open", file |-> f,
                        content |-> v])
      BY <1>1, <3>1
    <3>3. OfSaves([kind |-> "update", pc |-> "open", file |-> f, content |-> v])
      BY DEF OfSaves
    <3>. QED  BY <1>2, <3>2, <3>3
  <2>2. CASE PostDelete(o)
    BY <2>2, <1>3 DEF PostDelete, OfSaves
  <2>3. CASE PostSync(o)
    BY <2>3, <1>4 DEF PostSync, OfSaves
  <2>4. CASE PostIndex(o)
    <3>. DEFINE x == [kind |-> "index", todo |-> {f \in Files : disk[f] # 0},
                      records |-> [f \in Files |-> 0]]
    <3>1. \A f \in Files : 0 <= saves[f]
      BY RagIndexAssumption DEF TypeOK, Contents
    <3>2. x \in Operations /\ Starts(o, x) /\ x.kind = "index"
      BY <1>5, <2>4 DEF PostIndex
    <3>3. OfSaves(x)
      BY <3>1 DEF OfSaves
    <3>. HIDE DEF x
    <3>. QED  BY <3>2, <3>3
  <2>5. CASE Retrieve(o)
    BY <2>5, <1>6 DEF Retrieve, OfSaves
  <2>. QED  BY <2>1, <2>2, <2>3, <2>4, <2>5 DEF Request
<1>8. op[o] = Idle
  BY <1>7 DEF Starts
<1>9. /\ reported' \in SUBSET reported
      /\ UNCHANGED <<saves, disk, ready, exists, rows>>
  BY DEF Request, PostUpdate, PostDelete, PostSync, PostIndex, Retrieve
<1>. QED  BY <1>7, <1>8, <1>9

LEMMA RequestKeepsIInv ==
    ASSUME IInv, NEW o \in Ops, Request(o)
    PROVE  IInv'
<1>1. PICK x \in Operations :
         /\ x.kind \in {"update", "sync"} => x.pc = "open"
         /\ OfSaves(x)
         /\ Starts(o, x)
  BY RequestTypes DEF IInv
<1>2. /\ op' = [op EXCEPT ![o] = x]
      /\ overlapped' <=> \/ overlapped
                         \/ Writes(x) /\ \E p \in Ops : Writes(op[p])
  BY <1>1 DEF Starts
<1>3. /\ reported' \in SUBSET reported
      /\ UNCHANGED <<saves, disk, ready, exists, rows>>
      /\ op[o] = Idle
  BY RequestTypes DEF IInv
<1>4. TypeOK'
  <2>1. op' \in [Ops -> Operations]
    BY <1>2 DEF IInv, TypeOK
  <2>2. overlapped' \in BOOLEAN
    BY <1>1, Zenon DEF Starts
  <2>. QED  BY <1>3, <2>1, <2>2 DEF IInv, TypeOK
<1>5. \A p \in Ops : op'[p] = IF p = o THEN x ELSE op[p]
  BY <1>2 DEF IInv, TypeOK
<1>6. WriterInv'
  BY <1>2, <1>5 DEF IInv, WriterInv
<1>7. ASSUME ~overlapped', NEW p \in Ops, At(p, "update", "add")'
      PROVE  p # o /\ At(p, "update", "add") /\ op'[p] = op[p] /\ ~overlapped
  BY <1>1, <1>2, <1>5, <1>7 DEF At
<1>8. GapInv'
  BY <1>3, <1>7 DEF IInv, GapInv
<1>9. SerialOpsLeaveOneCopy'
  BY <1>2, <1>3 DEF IInv, SerialOpsLeaveOneCopy
<1>. QED  BY <1>4, <1>6, <1>8, <1>9 DEF IInv

-----------------------------------------------------------------------------
(* What an operation in flight may become: idle, or something of its kind  *)
(* that is further.  Only an update comes to "add", past its deletion.     *)
NextOf(o, x) ==
    /\ x \in Operations
    /\ x = Idle \/ x.kind = op[o].kind
    /\ x.kind = "update" /\ x.pc = "add" => At(o, "update", "delete")
    /\ op' = [op EXCEPT ![o] = x]

(* And an operation that only reads goes on to what it would write: what it*)
(* was asked to, what it has read from the disk, or what is not there.     *)
Reads(o, x) ==
    /\ NextOf(o, x)
    /\ ~(x.kind = "update" /\ x.pc = "add")
    /\ x.kind = "update" => x.file = op[o].file /\ x.content = op[o].content
    /\ x.kind = "index" =>
          \A f \in Files : x.records[f] \in {op[o].records[f], 0, disk[f]}
    /\ x.kind = "sync" /\ x.pc = "delete" => \A f \in x.files : disk[f] = 0

(* The steps that leave the table alone.                                   *)
ReadingStep(o) ==
    \/ OpenTable(o) \/ SyncChecks(o) \/ (\E f \in Files : IndexReads(o, f))
    \/ RetrieveSearches(o) \/ RetrieveFilters(o) \/ RetrieveReturns(o)
    \/ OpFails(o)

LEMMA IdleIsOperation == Idle \in Operations /\ ~Writes(Idle)
BY DEF Operations, Idle, Writes

LEMMA ReadingSteps ==
    ASSUME TypeOK, NEW o \in Ops, ReadingStep(o)
    PROVE  /\ \E x \in Operations : Reads(o, x)
           /\ UNCHANGED <<saves, disk, reported, ready, exists, rows, overlapped>>
<1>1. UNCHANGED <<saves, disk, reported, ready, exists, rows, overlapped>>
  BY DEF ReadingStep, OpenTable, SyncChecks, IndexReads, RetrieveSearches,
         RetrieveFilters, RetrieveReturns, OpFails
<1>. SUFFICES \E x \in Operations : Reads(o, x)
  BY <1>1
<1>2. op[o] \in Operations /\ op \in [Ops -> Operations]
  BY DEF TypeOK
<1>3. ASSUME Ends(o)
      PROVE  Reads(o, Idle)
  BY <1>3, IdleIsOperation DEF Ends, NextOf, Reads, Idle
<1>4. CASE OpenTable(o)
  <2>1. CASE ~exists
    BY <1>3, <1>4, <2>1, IdleIsOperation DEF OpenTable
  <2>2. CASE exists
    <3>. DEFINE x == [op[o] EXCEPT !.pc = IF op[o].kind = "sync" THEN "check"
                                          ELSE "delete"]
    <3>1. op' = [op EXCEPT ![o] = x]
      BY <1>4, <2>2, Zenon DEF OpenTable, Goes
    <3>2. /\ x \in Operations /\ x.kind = op[o].kind /\ x.pc # "add"
          /\ x.kind # "index" /\ (x.kind = "sync" => x.pc = "check")
          /\ x.kind = "update" => x.file = op[o].file /\ x.content = op[o].content
      BY <1>2, <1>4, KindsDiffer
         DEF OpenTable, Operations, Updates, Deletions, Syncs
    <3>. HIDE DEF x
    <3>. QED  BY <3>1, <3>2 DEF NextOf, Reads
  <2>. QED  BY <2>1, <2>2
<1>5. CASE SyncChecks(o)
  <2>. DEFINE missing == {f \in Files : rows[f] # <<>> /\ disk[f] = 0}
              x == [kind |-> "sync", pc |-> "delete", files |-> missing]
  <2>1. op[o] \in Syncs
    BY <1>2, <1>5, KindsDiffer DEF SyncChecks, At
  <2>2. CASE missing = {}
    BY <1>3, <1>5, <2>2, IdleIsOperation DEF SyncChecks
  <2>3. CASE missing # {}
    <3>1. op' = [op EXCEPT ![o].pc = "delete", ![o].files = missing]
      BY <1>5, <2>3 DEF SyncChecks
    <3>2. op' = [op EXCEPT ![o] = x]
      <4>. DEFINE y == [kind |-> "sync", pc |-> "delete", files |-> op[o].files]
      <4>3. y = [op[o] EXCEPT !.pc = "delete"]
        BY <2>1 DEF Syncs
      <4>. HIDE DEF missing
      <4>4. x = [y EXCEPT !.files = missing]
        OBVIOUS
      <4>. HIDE DEF x, y
      <4>1. x = [op[o] EXCEPT !.pc = "delete", !.files = missing]
        BY <4>3, <4>4
      <4>2. op' = [op EXCEPT ![o] = [op[o] EXCEPT !.pc = "delete",
                                                  !.files = missing]]
        BY <1>2, <3>1
      <4>. QED  BY <4>1, <4>2
    <3>3. /\ x \in Operations /\ x.kind = op[o].kind /\ x.kind = "sync"
          /\ \A f \in x.files : disk[f] = 0
      BY <2>1 DEF Operations, Syncs
    <3>. HIDE DEF x
    <3>. QED  BY <3>2, <3>3 DEF NextOf, Reads
  <2>. QED  BY <2>2, <2>3
<1>6. ASSUME NEW f \in Files, IndexReads(o, f)
      PROVE  \E x \in Operations : Reads(o, x)
  <2>1. op[o] \in Indexings
    BY <1>2, <1>6, KindsDiffer DEF IndexReads
  <2>2. PICK v \in {0, disk[f]} :
           op' = [op EXCEPT ![o].todo = @ \ {f}, ![o].records[f] = v]
    BY <1>6 DEF IndexReads
  <2>. DEFINE x == [kind |-> "index", todo |-> op[o].todo \ {f},
                    records |-> [op[o].records EXCEPT ![f] = v]]
  <2>3. op' = [op EXCEPT ![o] = x]
    <3>. DEFINE y == [kind |-> "index", todo |-> op[o].todo \ {f},
                      records |-> op[o].records]
    <3>3. y = [op[o] EXCEPT !.todo = @ \ {f}]
      BY <2>1 DEF Indexings
    <3>4. x = [y EXCEPT !.records[f] = v]
      OBVIOUS
    <3>. HIDE DEF x, y
    <3>1. x = [op[o] EXCEPT !.todo = @ \ {f}, !.records[f] = v]
      BY <3>3, <3>4
    <3>2. op' = [op EXCEPT ![o] = [op[o] EXCEPT !.todo = @ \ {f},
                                                !.records[f] = v]]
      BY <1>2, <2>2
    <3>. QED  BY <3>1, <3>2
  <2>4. v \in Contents \cup {0}
    BY DEF TypeOK
  <2>5. x \in Operations /\ x.kind = op[o].kind /\ x.kind = "index"
    BY <2>1, <2>4 DEF Operations, Indexings
  <2>6. \A g \in Files : x.records[g] \in {op[o].records[g], 0, disk[g]}
    BY <2>1 DEF Indexings
  <2>. HIDE DEF x
  <2>. QED  BY <2>3, <2>5, <2>6 DEF NextOf, Reads
<1>7. CASE RetrieveSearches(o)
  <2>. DEFINE all == UNION {[file : {f}, content : ToSet(rows[f])] : f \in Files}
  <2>1. op[o] \in Retrievals
    BY <1>2, <1>7, KindsDiffer DEF RetrieveSearches, At
  <2>2. PICK hits \in SUBSET all :
           op' = [op EXCEPT ![o].pc = "filter", ![o].hits = hits]
    BY <1>7 DEF RetrieveSearches
  <2>3. hits \in SUBSET Hits
    <3>1. \A f \in Files : ToSet(rows[f]) \subseteq Contents
      BY DEF TypeOK, ToSet
    <3>2. \A f \in Files : [file : {f}, content : ToSet(rows[f])] \subseteq Hits
      BY <3>1 DEF Hits
    <3>. QED  BY <3>2
  <2>. DEFINE x == [kind |-> "retrieve", pc |-> "filter", hits |-> hits]
  <2>4. op' = [op EXCEPT ![o] = x]
    <3>. DEFINE y == [kind |-> "retrieve", pc |-> "filter", hits |-> op[o].hits]
    <3>3. y = [op[o] EXCEPT !.pc = "filter"]
      BY <2>1 DEF Retrievals
    <3>4. x = [y EXCEPT !.hits = hits]
      OBVIOUS
    <3>. HIDE DEF x, y
    <3>1. x = [op[o] EXCEPT !.pc = "filter", !.hits = hits]
      BY <3>3, <3>4
    <3>2. op' = [op EXCEPT ![o] = [op[o] EXCEPT !.pc = "filter",
                                                !.hits = hits]]
      BY <1>2, <2>2
    <3>. QED  BY <3>1, <3>2
  <2>5. x \in Operations /\ x.kind = op[o].kind /\ x.kind = "retrieve"
    BY <2>1, <2>3 DEF Operations, Retrievals
  <2>. HIDE DEF x
  <2>. QED  BY <2>4, <2>5 DEF NextOf, Reads
<1>8. CASE RetrieveFilters(o)
  <2>1. op[o] \in Retrievals
    BY <1>2, <1>8, KindsDiffer DEF RetrieveFilters, At
  <2>. DEFINE x == [kind |-> "retrieve", pc |-> "done",
                    hits |-> {h \in op[o].hits : disk[h.file] # 0}]
  <2>. DEFINE live(hits) == {h \in hits : disk[h.file] # 0}
  <2>2. op' = [op EXCEPT ![o] = x]
    <3>. DEFINE y == [kind |-> "retrieve", pc |-> "done", hits |-> op[o].hits]
    <3>3. y = [op[o] EXCEPT !.pc = "done"]
      BY <2>1 DEF Retrievals
    <3>4. x = [y EXCEPT !.hits = live(@)]
      OBVIOUS
    <3>. HIDE DEF x, y, live
    <3>1. x = [op[o] EXCEPT !.pc = "done", !.hits = live(@)]
      BY <3>3, <3>4
    <3>2. op' = [op EXCEPT ![o] = [op[o] EXCEPT !.pc = "done",
                                                !.hits = live(@)]]
      BY <1>2, <1>8 DEF RetrieveFilters, live
    <3>. QED  BY <3>1, <3>2
  <2>3. x \in Operations /\ x.kind = op[o].kind /\ x.kind = "retrieve"
    BY <2>1 DEF Operations, Retrievals
  <2>. HIDE DEF x
  <2>. QED  BY <2>2, <2>3 DEF NextOf, Reads
<1>9. CASE RetrieveReturns(o) \/ OpFails(o)
  BY <1>3, <1>9, IdleIsOperation DEF RetrieveReturns, OpFails
<1>. QED  BY <1>1, <1>4, <1>5, <1>6, <1>7, <1>8, <1>9 DEF ReadingStep

(* An operation that goes on, or ends, starts no second writer.            *)
LEMMA OneWriterStill ==
    ASSUME TypeOK, WriterInv, NEW o \in Ops, NEW x, NextOf(o, x),
           UNCHANGED overlapped
    PROVE  /\ op' \in [Ops -> Operations]
           /\ \A p \in Ops : op'[p] = IF p = o THEN x ELSE op[p]
           /\ Writes(x) => Writes(op[o])
           /\ WriterInv'
<1>1. /\ op' \in [Ops -> Operations]
      /\ \A p \in Ops : op'[p] = IF p = o THEN x ELSE op[p]
  BY DEF TypeOK, NextOf
<1>2. Writes(x) => Writes(op[o])
  BY IdleIsOperation DEF NextOf, Writes
<1>3. WriterInv'
  BY <1>1, <1>2 DEF WriterInv
<1>. QED  BY <1>1, <1>2, <1>3

LEMMA ReadingKeepsIInv ==
    ASSUME IInv, NEW o \in Ops, ReadingStep(o)
    PROVE  IInv'
<1>1. PICK x \in Operations :
         NextOf(o, x) /\ ~(x.kind = "update" /\ x.pc = "add")
  BY ReadingSteps DEF IInv, Reads
<1>2. UNCHANGED <<saves, disk, reported, ready, exists, rows, overlapped>>
  BY ReadingSteps DEF IInv
<1>3. /\ op' \in [Ops -> Operations]
      /\ \A p \in Ops : op'[p] = IF p = o THEN x ELSE op[p]
      /\ WriterInv'
  BY <1>1, <1>2, OneWriterStill DEF IInv
<1>4. GapInv'
  BY <1>1, <1>2, <1>3 DEF IInv, GapInv, At
<1>5. TypeOK'
  BY <1>2, <1>3 DEF IInv, TypeOK
<1>. QED  BY <1>2, <1>3, <1>4, <1>5 DEF IInv, SerialOpsLeaveOneCopy

(* A step that writes the table, when nobody else writes: it leaves one    *)
(* content of each file at most, and what an update will add to is empty.  *)
LEMMA WritingKeepsIInv ==
    ASSUME IInv, NEW o \in Ops, NEW x, NextOf(o, x), Writes(op[o]),
           UNCHANGED <<saves, disk, reported, ready, overlapped>>,
           exists' \in BOOLEAN,
           rows' \in [Files -> Seq(Contents)],
           ~overlapped => \A f \in Files : Len(rows'[f]) <= 1,
           x.kind = "update" /\ x.pc = "add" => rows'[x.file] = <<>>
    PROVE  IInv'
<1>1. /\ op' \in [Ops -> Operations]
      /\ \A p \in Ops : op'[p] = IF p = o THEN x ELSE op[p]
      /\ WriterInv'
  BY OneWriterStill DEF IInv
<1>2. TypeOK'
  BY <1>1 DEF IInv, TypeOK
<1>3. ASSUME ~overlapped', NEW p \in Ops, At(p, "update", "add")'
      PROVE  rows'[op'[p].file] = <<>>
  <2>1. p = o
    BY <1>1, <1>3 DEF IInv, WriterInv, At, Writes
  <2>. QED  BY <1>1, <1>3, <2>1 DEF At
<1>4. GapInv'
  BY <1>3 DEF GapInv
<1>. QED  BY <1>1, <1>2, <1>4 DEF IInv, SerialOpsLeaveOneCopy

LEMMA UpdateKeepsIInv ==
    ASSUME IInv, NEW o \in Ops, UpdateDeletes(o) \/ UpdateAdds(o)
    PROVE  IInv'
<1>1. op[o] \in Updates /\ Writes(op[o])
  BY KindsDiffer DEF IInv, TypeOK, UpdateDeletes, UpdateAdds, At, Writes
<1>2. CASE UpdateDeletes(o)
  <2>. DEFINE x == [kind |-> "update", pc |-> "add", file |-> op[o].file,
                    content |-> op[o].content]
  <2>1. op' = [op EXCEPT ![o] = x]
    <3>1. x = [op[o] EXCEPT !.pc = "add"]
      BY <1>1 DEF Updates
    <3>2. op' = [op EXCEPT ![o] = [op[o] EXCEPT !.pc = "add"]]
      BY <1>2, Zenon DEF UpdateDeletes, Goes
    <3>. QED  BY <3>1, <3>2
  <2>2. NextOf(o, x)
    BY <1>1, <1>2, <2>1 DEF NextOf, Operations, Updates, UpdateDeletes
  <2>3. /\ rows' \in [Files -> Seq(Contents)]
        /\ rows'[op[o].file] = <<>>
        /\ ~overlapped => \A f \in Files : Len(rows'[f]) <= 1
    BY <1>1, <1>2
       DEF Updates, IInv, TypeOK, UpdateDeletes, SerialOpsLeaveOneCopy
  <2>4. /\ UNCHANGED <<saves, disk, reported, ready, exists, overlapped>>
        /\ x.file = op[o].file
    BY <1>2 DEF UpdateDeletes
  <2>5. exists' \in BOOLEAN
    BY <2>4 DEF IInv, TypeOK
  <2>. HIDE DEF x
  <2>. QED  BY <1>1, <2>2, <2>3, <2>4, <2>5, WritingKeepsIInv
<1>3. CASE UpdateAdds(o)
  <2>1. NextOf(o, Idle) /\ Idle.kind # "update"
    BY <1>3, IdleIsOperation DEF NextOf, UpdateAdds, Ends, Idle
  <2>. DEFINE f == op[o].file
              v == op[o].content
  <2>2. f \in Files /\ v \in Contents
    BY <1>1 DEF Updates
  <2>3. ~overlapped => rows[f] = <<>>
    BY <1>3 DEF IInv, GapInv, UpdateAdds
  <2>4. rows' = [rows EXCEPT ![f] = Append(@, v)] \/ rows' = rows
    BY <1>3 DEF UpdateAdds
  <2>. HIDE DEF f, v
  <2>5. rows \in [Files -> Seq(Contents)]
    BY DEF IInv, TypeOK
  <2>6. rows' \in [Files -> Seq(Contents)]
    <3>1. Append(rows[f], v) \in Seq(Contents)
      BY <2>2, <2>5, ShortSequences
    <3>. QED  BY <2>2, <2>4, <2>5, <3>1
  <2>7. ASSUME ~overlapped, NEW g \in Files
        PROVE  Len(rows'[g]) <= 1
    <3>1. Len(rows[g]) <= 1
      BY <2>7 DEF IInv, SerialOpsLeaveOneCopy
    <3>2. CASE g # f \/ rows' = rows
      BY <2>4, <2>5, <3>1, <3>2
    <3>3. CASE g = f /\ rows' # rows
      <4>1. rows'[g] = Append(<<>>, v)
        BY <2>2, <2>3, <2>4, <2>5, <2>7, <3>3
      <4>. QED  BY <4>1, <2>2, ShortSequences
    <3>. QED  BY <3>2, <3>3
  <2>8. UNCHANGED <<saves, disk, reported, ready, exists, overlapped>>
    BY <1>3 DEF UpdateAdds
  <2>9. exists' \in BOOLEAN
    BY <2>8 DEF IInv, TypeOK
  <2>. QED  BY <1>1, <2>1, <2>6, <2>7, <2>8, <2>9, WritingKeepsIInv
<1>. QED  BY <1>2, <1>3

LEMMA RewriteKeepsIInv ==
    ASSUME IInv, NEW o \in Ops, DeleteRows(o) \/ IndexOverwrites(o)
    PROVE  IInv'
<1>1. Writes(op[o]) /\ NextOf(o, Idle) /\ Idle.kind # "update"
  BY IdleIsOperation
     DEF Writes, NextOf, DeleteRows, IndexOverwrites, At, Ends, Idle
<1>2. UNCHANGED <<saves, disk, reported, ready, overlapped>>
  BY DEF DeleteRows, IndexOverwrites
<1>3. \A f \in Files : rows[f] \in Seq(Contents)
  BY DEF IInv, TypeOK
<1>4. CASE DeleteRows(o)
  <2>1. rows' = [f \in Files |-> IF f \in op[o].files THEN <<>> ELSE rows[f]]
    BY <1>4 DEF DeleteRows, Without
  <2>2. rows' \in [Files -> Seq(Contents)]
    BY <1>3, <2>1
  <2>3. ~overlapped => \A f \in Files : Len(rows'[f]) <= 1
    BY <2>1 DEF IInv, SerialOpsLeaveOneCopy
  <2>4. exists' \in BOOLEAN
    BY <1>4 DEF IInv, TypeOK, DeleteRows
  <2>. QED  BY <1>1, <1>2, <2>2, <2>3, <2>4, WritingKeepsIInv
<1>5. CASE IndexOverwrites(o)
  <2>1. op[o] \in Indexings
    BY <1>5, KindsDiffer DEF IInv, TypeOK, IndexOverwrites
  <2>. DEFINE records == op[o].records
  <2>2. records \in [Files -> Contents \cup {0}]
    BY <2>1 DEF Indexings
  <2>3. \/ rows' = rows /\ exists' = exists
        \/ /\ rows' = [f \in Files |-> IF records[f] = 0 THEN <<>>
                                       ELSE <<records[f]>>]
           /\ exists' = TRUE
    BY <1>5 DEF IndexOverwrites
  <2>. HIDE DEF records
  <2>4. rows \in [Files -> Seq(Contents)] /\ exists \in BOOLEAN
    BY DEF IInv, TypeOK
  <2>. DEFINE content(f) == IF records[f] = 0 THEN <<>> ELSE <<records[f]>>
  <2>5. \A f \in Files : content(f) \in Seq(Contents) /\ Len(content(f)) <= 1
    BY <2>2, ShortSequences
  <2>9. (rows' = rows /\ exists' = exists)
           \/ (rows' = [f \in Files |-> content(f)] /\ exists' = TRUE)
    BY <2>3
  <2>. HIDE DEF content
  <2>6. rows' \in [Files -> Seq(Contents)]
    BY <2>4, <2>5, <2>9
  <2>7. ~overlapped => \A f \in Files : Len(rows'[f]) <= 1
    BY <2>5, <2>9 DEF IInv, SerialOpsLeaveOneCopy
  <2>8. exists' \in BOOLEAN
    BY <2>4, <2>9, Zenon
  <2>. QED  BY <1>1, <1>2, <2>6, <2>7, <2>8, WritingKeepsIInv
<1>. QED  BY <1>4, <1>5

-----------------------------------------------------------------------------
(* The workspace, the embedding model and a restart touch no row.          *)
LEMMA OutsideKeepsIInv ==
    ASSUME IInv, WorkspaceStep \/ EmbeddingReady \/ Restart
    PROVE  IInv'
<1>1. UNCHANGED <<exists, rows, overlapped>>
  BY DEF WorkspaceStep, Save, Unlink, ReportLost, EmbeddingReady, Restart
<1>2. op' = op \/ op' = [o \in Ops |-> Idle]
  BY DEF WorkspaceStep, Save, Unlink, ReportLost, EmbeddingReady, Restart
<1>3. TypeOK'
  <2>1. saves' \in [Files -> Contents \cup {0}] /\ disk' \in [Files -> Contents \cup {0}]
    <3>1. saves \in [Files -> Contents \cup {0}] /\ disk \in [Files -> Contents \cup {0}]
      BY DEF IInv, TypeOK
    <3>2. ASSUME NEW f \in Files, Save(f)
          PROVE  \E v \in Contents : /\ saves' = [saves EXCEPT ![f] = v]
                                     /\ disk' = [disk EXCEPT ![f] = v]
      <4>1. saves[f] + 1 \in Contents
        BY <3>1, <3>2, RagIndexAssumption DEF Save, Contents
      <4>2. /\ saves' = [saves EXCEPT ![f] = saves[f] + 1]
            /\ disk' = [disk EXCEPT ![f] = saves[f] + 1]
        BY <3>2 DEF Save
      <4>. QED  BY <4>1, <4>2
    <3>3. ASSUME NEW f \in Files, Unlink(f)
          PROVE  saves' = saves /\ disk' = [disk EXCEPT ![f] = 0]
      BY <3>3 DEF Unlink
    <3>4. \/ \E f \in Files : Save(f) \/ Unlink(f)
          \/ saves' = saves /\ disk' = disk
      BY DEF WorkspaceStep, ReportLost, EmbeddingReady, Restart
    <3>. QED  BY <3>1, <3>2, <3>3, <3>4
  <2>2. reported' \subseteq Files
    BY DEF IInv, TypeOK, WorkspaceStep, Save, Unlink, ReportLost, EmbeddingReady,
           Restart
  <2>3. ready' \in BOOLEAN
    BY DEF IInv, TypeOK, WorkspaceStep, Save, Unlink, ReportLost, EmbeddingReady,
           Restart
  <2>4. op' \in [Ops -> Operations]
    BY <1>2, IdleIsOperation DEF IInv, TypeOK
  <2>. QED  BY <1>1, <2>1, <2>2, <2>3, <2>4 DEF IInv, TypeOK
<1>4. \A o \in Ops : op'[o] = op[o] \/ op'[o] = Idle
  BY <1>2
<1>5. WriterInv'
  BY <1>1, <1>4, IdleIsOperation DEF IInv, WriterInv
<1>6. GapInv'
  BY <1>1, <1>4 DEF IInv, GapInv, At, Idle
<1>. QED  BY <1>1, <1>3, <1>5, <1>6 DEF IInv, SerialOpsLeaveOneCopy

LEMMA InitIInv == Init => IInv
<1>. SUFFICES ASSUME Init  PROVE IInv
  OBVIOUS
<1>1. TypeOK
  <2>1. rows \in [Files -> Seq(Contents)]
    BY ShortSequences DEF Init
  <2>2. ready \in BOOLEAN /\ exists \in BOOLEAN /\ overlapped \in BOOLEAN
    BY DEF Init
  <2>. QED  BY <2>1, <2>2, IdleIsOperation DEF Init, TypeOK
<1>2. WriterInv /\ GapInv
  BY IdleIsOperation DEF Init, WriterInv, GapInv, At, Idle
<1>3. SerialOpsLeaveOneCopy
  BY DEF Init, SerialOpsLeaveOneCopy
<1>. QED  BY <1>1, <1>2, <1>3 DEF IInv

LEMMA IInvInductive == IInv /\ [Next]_vars => IInv'
<1>. SUFFICES ASSUME IInv, [Next]_vars  PROVE IInv'
  OBVIOUS
<1>1. CASE WorkspaceStep \/ EmbeddingReady \/ Restart
  BY <1>1, OutsideKeepsIInv
<1>2. ASSUME NEW o \in Ops, Request(o) \/ OpStep(o)
      PROVE  IInv'
  BY <1>2, RequestKeepsIInv, ReadingKeepsIInv, UpdateKeepsIInv, RewriteKeepsIInv
     DEF OpStep, ReadingStep
<1>3. CASE UNCHANGED vars
  BY <1>3 DEF vars, IInv, TypeOK, WriterInv, GapInv, SerialOpsLeaveOneCopy, At
<1>. QED  BY <1>1, <1>2, <1>3 DEF Next

-----------------------------------------------------------------------------
(* The state of the index and of the operations on it.                     *)
THEOREM TypeCorrect == Spec => []TypeOK
<1>1. IInv => TypeOK
  BY DEF IInv
<1>. QED  BY <1>1, InitIInv, IInvInductive, PTL DEF Spec

(* Operations one after the other leave one content of each file in the    *)
(* table (rag.ts:229), however many there are and whatever fails.          *)
THEOREM SerialOpsLeaveOneCopyAlways == Spec => []SerialOpsLeaveOneCopy
<1>1. IInv => SerialOpsLeaveOneCopy
  BY DEF IInv
<1>. QED  BY <1>1, InitIInv, IInvInductive, PTL DEF Spec

-----------------------------------------------------------------------------
(* What a sync takes *)

LEMMA RowsAreSaves ==
    ASSUME TypeOK, NEW f \in Files
    PROVE  /\ \A i \in 1..Len(rows[f]) : rows[f][i] \in Nat \ {0}
           /\ \A v \in ToSet(rows[f]) : \E i \in 1..Len(rows[f]) : v = rows[f][i]
<1>1. rows[f] \in Seq(Contents) /\ Contents \subseteq Nat \ {0}
  BY RagIndexAssumption DEF TypeOK, Contents
<1>2. \A i \in 1..Len(rows[f]) : rows[f][i] \in Contents
  BY <1>1
<1>3. DOMAIN rows[f] = 1..Len(rows[f])
  BY <1>1
<1>. QED  BY <1>1, <1>2, <1>3 DEF ToSet

(* A file saved while a sync is on its way has a content of no row.        *)
LEMMA OutsideKeepsGhostInv ==
    ASSUME TypeOK, GhostInv, WorkspaceStep \/ EmbeddingReady \/ Restart
    PROVE  GhostInv'
<1>1. UNCHANGED <<rows, overlapped>> /\ \A o \in Ops : op'[o] \in {op[o], Idle}
  BY DEF WorkspaceStep, Save, Unlink, ReportLost, EmbeddingReady, Restart
<1>2. \A f \in Files :
         /\ saves[f] \in Nat /\ saves'[f] \in Nat /\ saves[f] <= saves'[f]
         /\ disk'[f] \in Nat
         /\ \/ disk'[f] = disk[f] /\ disk[f] <= saves[f]
            \/ disk'[f] = 0
            \/ disk'[f] = saves[f] + 1 /\ disk'[f] <= saves'[f]
  <2>1. \A f \in Files : saves[f] \in Nat /\ disk[f] \in Nat /\ disk[f] <= saves[f]
    BY RagIndexAssumption DEF TypeOK, Contents, GhostInv, Saved
  <2>2. saves \in [Files -> Contents \cup {0}] /\ disk \in [Files -> Contents \cup {0}]
    BY DEF TypeOK
  <2>3. ASSUME NEW g \in Files, Save(g), NEW f \in Files
        PROVE  /\ saves'[f] = IF f = g THEN saves[f] + 1 ELSE saves[f]
               /\ disk'[f] = IF f = g THEN saves[f] + 1 ELSE disk[f]
    BY <2>2, <2>3 DEF Save
  <2>4. ASSUME NEW g \in Files, Unlink(g), NEW f \in Files
        PROVE  saves'[f] = saves[f] /\ disk'[f] = IF f = g THEN 0 ELSE disk[f]
    BY <2>2, <2>4 DEF Unlink
  <2>5. \/ \E g \in Files : Save(g) \/ Unlink(g)
        \/ UNCHANGED <<saves, disk>>
    BY DEF WorkspaceStep, ReportLost, EmbeddingReady, Restart
  <2>. QED  BY <2>1, <2>3, <2>4, <2>5
<1>3. Saved'
  <2>1. ASSUME NEW f \in Files
        PROVE  /\ disk'[f] <= saves'[f]
               /\ \A i \in 1..Len(rows'[f]) : rows'[f][i] <= saves'[f]
    <3>1. disk'[f] <= saves'[f]
      BY <1>2
    <3>2. ASSUME NEW i \in 1..Len(rows[f])
          PROVE  rows[f][i] <= saves'[f]
      <4>1. rows[f][i] \in Nat /\ rows[f][i] <= saves[f]
        BY RowsAreSaves DEF GhostInv, Saved
      <4>. QED  BY <1>2, <4>1
    <3>. QED  BY <1>1, <3>1, <3>2
  <2>2. ASSUME NEW o \in Ops
        PROVE  OfSaves(op[o])'
    <3>1. CASE op'[o] = Idle
      BY <3>1 DEF OfSaves, Idle
    <3>2. CASE op'[o] = op[o] /\ op[o].kind = "update"
      <4>1. /\ op[o].file \in Files /\ op[o].content \in Nat
            /\ op[o].content <= saves[op[o].file]
        BY <3>2, KindsDiffer DEF TypeOK, Updates, Contents, GhostInv, Saved, OfSaves
      <4>2. op[o].content <= saves'[op[o].file]
        BY <1>2, <4>1
      <4>. QED  BY <3>2, <4>2 DEF OfSaves
    <3>3. CASE op'[o] = op[o] /\ op[o].kind = "index"
      <4>1. ASSUME NEW f \in Files
            PROVE  op[o].records[f] \in Nat /\ op[o].records[f] <= saves[f]
        BY <3>3, KindsDiffer
           DEF TypeOK, Indexings, Contents, GhostInv, Saved, OfSaves
      <4>2. \A f \in Files : op[o].records[f] <= saves'[f]
        BY <1>2, <4>1
      <4>. QED  BY <3>3, <4>2 DEF OfSaves
    <3>4. CASE op'[o] = op[o] /\ op[o].kind \notin {"update", "index"}
      BY <3>4 DEF OfSaves
    <3>. QED  BY <1>1, <3>1, <3>2, <3>3, <3>4
  <2>. QED  BY <2>1, <2>2 DEF Saved
<1>4. ASSUME NEW f \in Files, disk[f] \notin ToSet(rows[f])
      PROVE  disk'[f] \notin ToSet(rows[f])
  <2>1. \A v \in ToSet(rows[f]) : v \in Nat \ {0} /\ v <= saves[f]
    <3>1. \A i \in 1..Len(rows[f]) : rows[f][i] <= saves[f]
      BY DEF GhostInv, Saved
    <3>. QED  BY <3>1, RowsAreSaves
  <2>. QED  BY <1>2, <1>4, <2>1
<1>5. SyncTakesOnlyGhosts'
  <2>. SUFFICES ASSUME ~overlapped', NEW o \in Ops, At(o, "sync", "delete")',
                       NEW f \in op'[o].files
                PROVE  disk'[f] \notin ToSet(rows'[f])
    BY DEF SyncTakesOnlyGhosts
  <2>1. op'[o] = op[o] /\ At(o, "sync", "delete")
    BY <1>1 DEF At, Idle
  <2>2. f \in Files
    BY <2>1, KindsDiffer DEF At, TypeOK, Syncs
  <2>3. disk[f] \notin ToSet(rows[f])
    BY <1>1, <2>1 DEF GhostInv, SyncTakesOnlyGhosts
  <2>. QED  BY <1>1, <1>4, <2>2, <2>3
<1>. QED  BY <1>3, <1>5 DEF GhostInv

(* A step of operation o that leaves it as x, while the workspace rests: a *)
(* sync that was on its way is alone, and the rows are as it found them.   *)
LEMMA OpKeepsGhostInv ==
    ASSUME IInv, GhostInv, NEW o \in Ops, NEW x, op' = [op EXCEPT ![o] = x],
           UNCHANGED <<saves, disk>>, OfSaves(x),
           overlapped => overlapped',
           ~overlapped' /\ Writes(x) => \A p \in Ops \ {o} : ~Writes(op[p]),
           \/ UNCHANGED rows
           \/ Writes(op[o]) /\ ~(x.kind = "sync"),
           \A f \in Files :
              \A i \in 1..Len(rows'[f]) : rows'[f][i] <= saves[f],
           x.kind = "sync" /\ x.pc = "delete" => \A f \in x.files : disk[f] = 0,
           x.kind = "sync" /\ x.pc = "delete" => x \in Syncs
    PROVE  GhostInv'
<1>1. \A p \in Ops : op'[p] = IF p = o THEN x ELSE op[p]
  BY DEF IInv, TypeOK
<1>2. Saved'
  <2>1. \A p \in Ops : OfSaves(op[p])'
    BY <1>1 DEF GhostInv, Saved, OfSaves
  <2>. QED  BY <2>1 DEF GhostInv, Saved
<1>3. SyncTakesOnlyGhosts'
  <2>. SUFFICES ASSUME ~overlapped', NEW p \in Ops, At(p, "sync", "delete")',
                       NEW f \in op'[p].files
                PROVE  disk'[f] \notin ToSet(rows'[f])
    BY DEF SyncTakesOnlyGhosts
  <2>1. CASE p = o
    <3>1. disk[f] = 0 /\ UNCHANGED rows /\ f \in Files
      BY <1>1, <2>1 DEF At, Syncs
    <3>2. 0 \notin ToSet(rows[f])
      BY <3>1, RowsAreSaves DEF IInv
    <3>. QED  BY <3>1, <3>2
  <2>2. CASE p # o
    <3>1. op'[p] = op[p] /\ At(p, "sync", "delete") /\ Writes(op[p])
      BY <1>1, <2>2 DEF At, Writes
    <3>2. UNCHANGED rows
      BY <2>2, <3>1 DEF IInv, WriterInv
    <3>. QED  BY <3>1, <3>2 DEF GhostInv, SyncTakesOnlyGhosts
  <2>. QED  BY <2>1, <2>2
<1>. QED  BY <1>2, <1>3 DEF GhostInv

LEMMA RequestKeepsGhostInv ==
    ASSUME IInv, GhostInv, NEW o \in Ops, Request(o)
    PROVE  GhostInv'
<1>1. PICK x \in Operations :
         /\ x.kind \in {"update", "sync"} => x.pc = "open"
         /\ OfSaves(x)
         /\ Starts(o, x)
  BY RequestTypes DEF IInv
<1>2. UNCHANGED <<saves, disk, rows>>
  BY RequestTypes DEF IInv
<1>3. /\ op' = [op EXCEPT ![o] = x]
      /\ overlapped' <=> \/ overlapped
                         \/ Writes(x) /\ \E p \in Ops : Writes(op[p])
  BY <1>1 DEF Starts
<1>4. \A f \in Files : \A i \in 1..Len(rows'[f]) : rows'[f][i] <= saves[f]
  BY <1>2 DEF GhostInv, Saved
<1>5. ~(x.kind = "sync" /\ x.pc = "delete")
  BY <1>1
<1>. QED  BY <1>1, <1>2, <1>3, <1>4, <1>5, OpKeepsGhostInv

LEMMA ReadingKeepsGhostInv ==
    ASSUME IInv, GhostInv, NEW o \in Ops, ReadingStep(o)
    PROVE  GhostInv'
<1>1. PICK x \in Operations : Reads(o, x)
  BY ReadingSteps DEF IInv
<1>2. UNCHANGED <<saves, disk, rows, overlapped>>
  BY ReadingSteps DEF IInv
<1>3. /\ op' = [op EXCEPT ![o] = x]
      /\ x.kind = "sync" /\ x.pc = "delete" =>
            x \in Syncs /\ \A f \in x.files : disk[f] = 0
  BY <1>1, KindsDiffer DEF Reads, NextOf
<1>4. OfSaves(x)
  <2>1. CASE x.kind = "update"
    BY <1>1, <2>1, IdleIsOperation
       DEF Reads, NextOf, GhostInv, Saved, OfSaves, Idle
  <2>2. CASE x.kind = "index"
    <3>1. ASSUME NEW f \in Files
          PROVE  x.records[f] <= saves[f]
      <4>1. op[o].kind = "index"
        BY <1>1, <2>2 DEF Reads, NextOf, Idle
      <4>2. op[o].records[f] <= saves[f] /\ disk[f] <= saves[f]
        BY <4>1 DEF GhostInv, Saved, OfSaves
      <4>3. 0 <= saves[f]
        BY RagIndexAssumption DEF IInv, TypeOK, Contents
      <4>. QED  BY <1>1, <2>2, <4>2, <4>3 DEF Reads
    <3>. QED  BY <2>2, <3>1 DEF OfSaves
  <2>. QED  BY <2>1, <2>2 DEF OfSaves
<1>5. ~overlapped' /\ Writes(x) => \A p \in Ops \ {o} : ~Writes(op[p])
  BY <1>1, <1>2, IdleIsOperation DEF Reads, NextOf, IInv, WriterInv, Writes
<1>6. \A f \in Files : \A i \in 1..Len(rows'[f]) : rows'[f][i] <= saves[f]
  BY <1>2 DEF GhostInv, Saved
<1>. QED  BY <1>2, <1>3, <1>4, <1>5, <1>6, OpKeepsGhostInv

LEMMA WritingKeepsGhostInv ==
    ASSUME IInv, GhostInv, NEW o \in Ops,
           UpdateDeletes(o) \/ UpdateAdds(o) \/ DeleteRows(o)
              \/ IndexOverwrites(o)
    PROVE  GhostInv'
<1>1. /\ Writes(op[o]) /\ op[o] \in Operations
      /\ UNCHANGED <<saves, disk, overlapped>>
  BY DEF UpdateDeletes, UpdateAdds, DeleteRows, IndexOverwrites, At, Writes,
         IInv, TypeOK
<1>2. PICK x : /\ op' = [op EXCEPT ![o] = x]
               /\ x.kind \in {"update", "none"} /\ OfSaves(x)
  <2>1. CASE UpdateDeletes(o)
    <3>. DEFINE x == [op[o] EXCEPT !.pc = "add"]
    <3>1. op[o] \in Updates /\ OfSaves(op[o])
      BY <1>1, <2>1, KindsDiffer DEF UpdateDeletes, At, GhostInv, Saved
    <3>2. op' = [op EXCEPT ![o] = x]
      BY <2>1, Zenon DEF UpdateDeletes, Goes
    <3>3. x.kind = "update" /\ x.file = op[o].file /\ x.content = op[o].content
      BY <3>1 DEF Updates
    <3>. HIDE DEF x
    <3>4. OfSaves(x)
      BY <3>1, <3>3 DEF OfSaves, Updates
    <3>. QED  BY <3>2, <3>3, <3>4
  <2>2. CASE UpdateAdds(o) \/ DeleteRows(o) \/ IndexOverwrites(o)
    <3>1. op' = [op EXCEPT ![o] = Idle]
      BY <2>2 DEF UpdateAdds, DeleteRows, IndexOverwrites, Ends
    <3>2. Idle.kind = "none" /\ OfSaves(Idle)
      BY DEF Idle, OfSaves
    <3>. QED  BY <3>1, <3>2
  <2>. QED  BY <2>1, <2>2
<1>3. ASSUME NEW f \in Files
      PROVE  \A i \in 1..Len(rows'[f]) : rows'[f][i] <= saves[f]
  <2>1. /\ rows[f] \in Seq(Contents) /\ rows \in [Files -> Seq(Contents)]
        /\ \A i \in 1..Len(rows[f]) : rows[f][i] <= saves[f]
    BY DEF IInv, TypeOK, GhostInv, Saved
  <2>2. rows'[f] \in {<<>>, rows[f]} \/ \E v \in Contents :
           v <= saves[f] /\ rows'[f] \in {<<v>>, Append(rows[f], v)}
    <3>1. CASE UpdateDeletes(o)
      BY <2>1, <3>1 DEF UpdateDeletes
    <3>2. CASE UpdateAdds(o)
      <4>1. op[o] \in Updates /\ op[o].content <= saves[op[o].file]
        BY <1>1, <3>2, KindsDiffer
           DEF UpdateAdds, At, GhostInv, Saved, OfSaves, Updates
      <4>2. op[o].file \in Files /\ op[o].content \in Contents
        BY <4>1 DEF Updates
      <4>3. \/ rows' = [rows EXCEPT ![op[o].file] = Append(@, op[o].content)]
            \/ UNCHANGED rows
        BY <3>2 DEF UpdateAdds
      <4>. QED  BY <2>1, <4>1, <4>2, <4>3
    <3>3. CASE DeleteRows(o)
      BY <2>1, <3>3 DEF DeleteRows, Without
    <3>4. CASE IndexOverwrites(o)
      <4>. DEFINE v == op[o].records[f]
      <4>1. v \in Contents \cup {0} /\ v <= saves[f]
        BY <1>1, <3>4, KindsDiffer
           DEF IndexOverwrites, Indexings, GhostInv, Saved, OfSaves
      <4>2. rows'[f] \in {<<>>, rows[f]} \/ (v # 0 /\ rows'[f] = <<v>>)
        BY <3>4 DEF IndexOverwrites
      <4>. HIDE DEF v
      <4>. QED  BY <4>1, <4>2
    <3>. QED  BY <3>1, <3>2, <3>3, <3>4
  <2>. QED  BY <2>1, <2>2
<1>4. ~overlapped' /\ Writes(x) => \A p \in Ops \ {o} : ~Writes(op[p])
  BY <1>1 DEF IInv, WriterInv
<1>. QED  BY <1>1, <1>2, <1>3, <1>4, OpKeepsGhostInv

LEMMA GhostInvInductive == IInv /\ GhostInv /\ [Next]_vars => GhostInv'
<1>. SUFFICES ASSUME IInv, GhostInv, [Next]_vars  PROVE GhostInv'
  OBVIOUS
<1>1. CASE WorkspaceStep \/ EmbeddingReady \/ Restart
  BY <1>1, OutsideKeepsGhostInv DEF IInv
<1>2. ASSUME NEW o \in Ops, Request(o) \/ OpStep(o)
      PROVE  GhostInv'
  BY <1>2, RequestKeepsGhostInv, ReadingKeepsGhostInv, WritingKeepsGhostInv
     DEF OpStep, ReadingStep
<1>3. CASE UNCHANGED vars
  BY <1>3 DEF vars, GhostInv, Saved, OfSaves, SyncTakesOnlyGhosts, At
<1>. QED  BY <1>1, <1>2, <1>3 DEF Next

(* Until two operations that write overlap, a sync deletes nothing of what *)
(* is on disk ("purge any vectors whose source files no longer exist",     *)
(* rag.ts:371), whenever files are saved, and whatever fails.              *)
THEOREM SyncTakesOnlyGhostsAlways == Spec => []SyncTakesOnlyGhosts
<1>1. Init => GhostInv
  <2>. SUFFICES ASSUME Init  PROVE GhostInv
    OBVIOUS
  <2>1. Saved
    BY DEF Init, Saved, OfSaves, Idle
  <2>2. SyncTakesOnlyGhosts
    BY DEF Init, SyncTakesOnlyGhosts, At, Idle
  <2>. QED  BY <2>1, <2>2 DEF GhostInv
<1>2. GhostInv => SyncTakesOnlyGhosts
  BY DEF GhostInv
<1>. QED  BY <1>1, <1>2, InitIInv, IInvInductive, GhostInvInductive, PTL DEF Spec

=============================================================================
