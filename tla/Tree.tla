-------------------------------- MODULE Tree --------------------------------
(***************************************************************************)
(* The directory tree (internal/drive/drive.go and ops.go over             *)
(* internal/database/tree.go): every directory and file is a row of the    *)
(* index and a caption, or one per segment, in the Telegram channel, and   *)
(* each operation changes the two in several steps that may fail or be cut *)
(* short by a crash.  A rename or a move of a directory leaves a goroutine *)
(* that rewrites the captions below it, and the indexer may replace the    *)
(* whole index by what the captions say (Rebuild).                         *)
(*                                                                         *)
(* Callers are requests of the HTTP API, of WebDAV and of plugins: each    *)
(* starts one operation after another (a WebDAV MOVE that changes folder   *)
(* and name is a Move and then a Rename).  Paths are clean; requests that  *)
(* are refused before anything is written are not steps.  An upload is one *)
(* step here, UploadJob has its detail.  The folder hashtags of a caption  *)
(* are for readers only and are left out.                                  *)
(***************************************************************************)
EXTENDS Rebuild

CONSTANTS Callers,      \* requests, one operation at a time each
          AllNames,     \* names that captions and rows may carry
          Names,        \* names that callers give
          Fold(_),      \* the name with its ASCII letters in one case
          MaxDepth,     \* bound: length of the paths that callers use
          MaxDirs,      \* bound: directories ever created
          MaxFiles,     \* bound: files ever stored
          Segs,         \* segments of a file
          MaxRefresh,   \* bound: caption refreshes at a time
          MaxFaults,    \* bound: failed calls and crashes
          Overlap,      \* TRUE: rebuilds and operations may overlap
          Damaged       \* channels that a lost index is recovered from

ASSUME NamesAssumption == Names \subseteq AllNames
ASSUME BoundsAssumption == MaxDepth \in Nat /\ MaxDirs \in Nat /\ MaxFiles \in Nat /\ MaxFaults \in Nat
ASSUME SegsAssumption == Segs \in Nat \ {0}

VARIABLES dirs,      \* dirs rows: id -> parent, name, path, message
          files,     \* files rows: id -> folder, name, status, messages of the segments
          channel,   \* message number -> record
          nextDir, nextFile,
          op,        \* what each caller is in the middle of
          mkdirMu,   \* holder of Service.mkdirMu
          refresh,   \* running refreshSubtreeCaptions goroutines
          rebuild,   \* Indexer.running and what it found
          drill,     \* TRUE: the index was lost and only a rebuild runs
          faults,
          lost       \* records that a failed call or a crash left differing from
                     \* the index, and files that a refresh may overwrite (Overtaken)

treeVars == <<dirs, files, channel, nextDir, nextFile, op, mkdirMu, refresh, rebuild, drill, faults, lost>>
index == <<dirs, files>>
ids == <<nextDir, nextFile>>

NoOne == "none"
Idle == [pc |-> "idle"]
Paths == UNION {[1..n -> Names] : n \in 1..MaxDepth}
DirPath(p) == p = <<>> \/ \E i \in DOMAIN dirs : dirs[i].path = p
D(i) == <<"dir", i>>
F(i) == <<"file", i>>
Overtaken(f) == <<"late", f>>

(***************************************************************************)
(* Lookups.                                                                *)
(***************************************************************************)
DirByPath(p) == {i \in DOMAIN dirs : dirs[i].path = p}
ResolveDir(p) == IF p = <<>> THEN Root ELSE CHOOSE i \in DOMAIN dirs : dirs[i].path = p
DirChild(d, n) == {i \in DOMAIN dirs : dirs[i].parent = d /\ dirs[i].name = n}
FileInDir(d, n) == {f \in DOMAIN files : files[f].dir = d /\ files[f].name = n}
CheckFree(d, n) == DirChild(d, n) = {} /\ FileInDir(d, n) = {}

\* path LIKE old || '/%': SQLite's LIKE does not tell the case of ASCII letters.
FoldName(n) == [n EXCEPT ![1] = Fold(n[1])]
FoldPath(p) == [k \in DOMAIN p |-> FoldName(p[k])]
Like(old, p) == IsDescendant(FoldPath(old), FoldPath(p))

SubtreeIds(i) == {j \in DOMAIN dirs : j = i \/ Like(dirs[i].path, dirs[j].path)}

SubtreeMessages_FilesOnly(i) ==
  UNION {Range(files[f].segs) : f \in {g \in DOMAIN files : files[g].dir \in SubtreeIds(i)}}

SubtreeMessages(i) ==
  ({dirs[j].msg : j \in SubtreeIds(i)} \ {0})
    \cup UNION {Range(files[f].segs) : f \in {g \in DOMAIN files : files[g].dir \in SubtreeIds(i)}}

\* UNIQUE (path), UNIQUE (parent_id, name) and the foreign key of dirs.
Consistent(d) ==
  /\ \A i, j \in DOMAIN d : i # j => /\ d[i].path # d[j].path
                                     /\ <<d[i].parent, d[i].name>> # <<d[j].parent, d[j].name>>
  /\ \A i \in DOMAIN d : d[i].parent \in DOMAIN d \cup {Root}

\* ON DELETE CASCADE: what goes with directory i, the least set that holds i
\* and every directory whose parent it holds.
ClosedBelow(S) == \A j \in DOMAIN dirs : dirs[j].parent \in S => j \in S
Cascade(i) ==
  LET all == DOMAIN dirs \cup {i}
  IN  {j \in all : \A S \in SUBSET all : i \in S /\ ClosedBelow(S) => j \in S}

FileMsg(f, k) == MaxDirs + (f - 1) * Segs + k

DirRecord(id, parent, name) ==
  [kind |-> "dir", id |-> id, parent |-> parent, name |-> name, seg |-> 0, count |-> 0]
FileRecord(f, row, s) ==
  [kind |-> "file", id |-> f, parent |-> row.dir, name |-> row.name, seg |-> s, count |-> row.count]

Without(fn, S) == [x \in DOMAIN fn \ S |-> fn[x]]
With(fn, x, v) == [y \in DOMAIN fn \cup {x} |-> IF y = x THEN v ELSE fn[y]]

(***************************************************************************)
(* Records whose captions do not say what their rows say, or have no row.  *)
(***************************************************************************)
DirDiffers(d, ch, i) ==
  LET found == FoundDirs(ch)
  IN  ~(/\ i \in DOMAIN d /\ i \in DOMAIN found
        /\ d[i].parent = found[i].parent /\ d[i].name = found[i].name)
FileDiffers(fs, ch, f) ==
  ~(/\ f \in DOMAIN fs
    /\ \A s \in DOMAIN fs[f].segs : /\ fs[f].segs[s] \in DOMAIN ch
                                    /\ ch[fs[f].segs[s]] = FileRecord(f, fs[f], s))
Mismatch(d, fs, ch) ==
  {D(i) : i \in {j \in DOMAIN d \cup IdsOf(ch, "dir") : DirDiffers(d, ch, j)}}
    \cup {F(f) : f \in {g \in DOMAIN fs \cup IdsOf(ch, "file") : FileDiffers(fs, ch, g)}}

-----------------------------------------------------------------------------
TreeInit ==
  /\ dirs = <<>> /\ files = <<>>
  /\ nextDir = 1 /\ nextFile = 1
  /\ op = [c \in Callers |-> Idle]
  /\ mkdirMu = NoOne /\ refresh = {} /\ rebuild = Idle
  /\ faults = 0 /\ lost = {}
  /\ \/ drill = FALSE /\ channel = <<>>
     \/ drill = TRUE /\ channel \in Damaged

Quiet == (\A c \in Callers : op[c] = Idle) /\ refresh = {}

MayBegin(c) == op[c] = Idle /\ ~drill /\ (Overlap \/ rebuild = Idle)

Step(c, o) == op' = [op EXCEPT ![c] = o]

Fault == faults < MaxFaults /\ faults' = faults + 1

(***************************************************************************)
(* Mkdir: under mkdirMu, each missing directory is sent to the channel and *)
(* then inserted, or its record taken back.  A Move makes its target first *)
(* (src is the path to move then, empty for a plain Mkdir).                *)
(***************************************************************************)
Mkdir(c, p, src) ==
  /\ MayBegin(c)
  /\ src # <<>> => src # p /\ ~IsDescendant(src, p)
  /\ Cardinality({k \in 1..Len(p) : DirByPath(SubSeq(p, 1, k)) = {}}) <= MaxDirs + 1 - nextDir
  /\ Step(c, [pc |-> "walk", path |-> p, done |-> 0, parent |-> Root, src |-> src])
  /\ UNCHANGED <<index, channel, ids, mkdirMu, refresh, rebuild, drill, faults, lost>>

\* Mkdir returns directory i: the lock is free, and a Move goes on.
Made(c, i) ==
  /\ mkdirMu' = NoOne
  /\ Step(c, IF op[c].src = <<>> THEN Idle
             ELSE [pc |-> "place", src |-> op[c].src, target |-> i, path |-> op[c].path])
  /\ UNCHANGED nextDir

MkdirWalk(c) ==
  LET o       == op[c]
      missing == {k \in o.done + 1..Len(o.path) : DirByPath(SubSeq(o.path, 1, k)) = {}}
      k       == Min(missing)
      parent  == IF k = o.done + 1 THEN o.parent ELSE ResolveDir(SubSeq(o.path, 1, k - 1))
  IN  /\ o.pc = "walk" /\ mkdirMu \in {NoOne, c}
      /\ \/ missing = {} /\ Made(c, IF o.done = Len(o.path) THEN o.parent ELSE ResolveDir(o.path))
         \/ /\ missing # {}
            /\ FileInDir(parent, o.path[k]) = {} /\ nextDir <= MaxDirs
            /\ mkdirMu' = c /\ nextDir' = nextDir + 1
            /\ Step(c, [pc |-> "send", path |-> o.path, src |-> o.src,
                        done |-> k, parent |-> parent, id |-> nextDir])
         \/ /\ missing # {}
            /\ FileInDir(parent, o.path[k]) # {} \/ nextDir > MaxDirs
            /\ mkdirMu' = NoOne /\ Step(c, Idle) /\ UNCHANGED nextDir
      /\ UNCHANGED <<index, channel, nextFile, refresh, rebuild, drill, faults, lost>>

CreateDirSend_Ignored(c) ==
  /\ op[c].pc = "send"
  /\ Step(c, [op[c] EXCEPT !.pc = "insert"])
  /\ \/ /\ channel' = With(channel, op[c].id, DirRecord(op[c].id, op[c].parent, op[c].path[op[c].done]))
        /\ UNCHANGED faults
     \/ Fault /\ UNCHANGED channel
  /\ UNCHANGED <<index, ids, mkdirMu, refresh, rebuild, drill, lost>>

\* SendRecord; a call that fails may have left the record in the channel.
CreateDirSend(c) ==
  LET o    == op[c]
      sent == With(channel, o.id, DirRecord(o.id, o.parent, o.path[o.done]))
  IN  /\ o.pc = "send"
      /\ \/ Step(c, [o EXCEPT !.pc = "insert"]) /\ channel' = sent
            /\ UNCHANGED <<mkdirMu, faults, lost>>
         \/ /\ Fault /\ Step(c, Idle) /\ mkdirMu' = NoOne
            /\ \/ UNCHANGED <<channel, lost>>
               \/ channel' = sent /\ lost' = lost \cup {D(o.id)}
      /\ UNCHANGED <<index, ids, refresh, rebuild, drill>>

NewRow(o) ==
  [parent |-> o.parent, name |-> o.path[o.done], path |-> SubSeq(o.path, 1, o.done), msg |-> o.id]

CreateDirInsert(c) ==
  LET o        == op[c]
      inserted == With(dirs, o.id, NewRow(o))
  IN  /\ o.pc = "insert"
      /\ \/ /\ Consistent(inserted) /\ dirs' = inserted /\ UNCHANGED faults
            /\ Step(c, [pc |-> "walk", path |-> o.path, done |-> o.done, parent |-> o.id, src |-> o.src])
         \/ /\ IF Consistent(inserted) THEN Fault ELSE UNCHANGED faults
            /\ Step(c, [o EXCEPT !.pc = "unsend"]) /\ UNCHANGED dirs
      /\ UNCHANGED <<files, channel, ids, mkdirMu, refresh, rebuild, drill, lost>>

\* The rollback uses the context of the request: a caller that hung up failed
\* the insert and fails this too.
CreateDirRollback(c) ==
  /\ op[c].pc = "unsend"
  /\ \/ channel' = Without(channel, {op[c].id}) /\ UNCHANGED lost
     \/ lost' = lost \cup {D(op[c].id)} /\ UNCHANGED channel
  /\ mkdirMu' = NoOne /\ Step(c, Idle)
  /\ UNCHANGED <<index, ids, refresh, rebuild, drill, faults>>

(***************************************************************************)
(* Begin to Complete of an upload, without overwriting, in one step: the   *)
(* segments land in any order, so any of them may be the newest message.   *)
(***************************************************************************)
StoreFile(c, d, n) ==
  LET f == nextFile
  IN  /\ MayBegin(c) /\ f <= MaxFiles /\ CheckFree(d, n)
      /\ \E order \in Bijection(1..Segs, 1..Segs) :
           LET row == [dir |-> d, name |-> n, status |-> "complete", count |-> Segs,
                       segs |-> [s \in 1..Segs |-> FileMsg(f, order[s])]]
           IN  /\ files' = With(files, f, row)
               /\ channel' = [m \in DOMAIN channel \cup Range(row.segs) |->
                                IF m \in DOMAIN channel THEN channel[m]
                                ELSE FileRecord(f, row, CHOOSE s \in 1..Segs : row.segs[s] = m)]
      /\ nextFile' = nextFile + 1
      /\ UNCHANGED <<dirs, nextDir, op, mkdirMu, refresh, rebuild, drill, faults, lost>>

(***************************************************************************)
(* Rename and Move: the row first, in one transaction with the paths below *)
(* it, then the captions, whose failure is only logged.                    *)
(***************************************************************************)
Rename(c, p, n) ==
  LET above == SubSeq(p, 1, Len(p) - 1)
      d     == ResolveDir(above)
  IN  /\ MayBegin(c) /\ Last(p) # n /\ DirPath(above) /\ CheckFree(d, n)
      /\ \/ \E i \in DirByPath(p) :
              Step(c, [pc |-> "updateDir", id |-> i, parent |-> d, name |-> n, path |-> Join(above, n)])
         \/ /\ DirByPath(p) = {}
            /\ \E f \in FileInDir(d, Last(p)) :
                 Step(c, [pc |-> "updateFile", id |-> f, dir |-> d, name |-> n])
      /\ UNCHANGED <<index, channel, ids, mkdirMu, refresh, rebuild, drill, faults, lost>>

\* Move once its target exists: checkFree and the lookup of the source.
MoveLookup(c) ==
  LET o     == op[c]
      above == SubSeq(o.src, 1, Len(o.src) - 1)
      n     == Last(o.src)
      found == IF DirPath(above) THEN FileInDir(ResolveDir(above), n) ELSE {}
  IN  /\ o.pc = "place"
      /\ IF ~CheckFree(o.target, n) \/ (DirByPath(o.src) = {} /\ found = {}) THEN Step(c, Idle)
         ELSE \/ \E i \in DirByPath(o.src) :
                   Step(c, [pc |-> "updateDir", id |-> i, parent |-> o.target, name |-> n,
                            path |-> Join(o.path, n)])
              \/ /\ DirByPath(o.src) = {}
                 /\ \E f \in found :
                      Step(c, [pc |-> "updateFile", id |-> f, dir |-> o.target, name |-> n])
      /\ UNCHANGED <<index, channel, ids, mkdirMu, refresh, rebuild, drill, faults, lost>>

Updated_RowOnly(o) ==
  [dirs EXCEPT ![o.id] = [@ EXCEPT !.parent = o.parent, !.name = o.name, !.path = o.path]]

\* The two UPDATEs of RenameDir and of MoveDir.
Updated(o) ==
  LET old   == dirs[o.id].path
      first == [dirs EXCEPT ![o.id] = [@ EXCEPT !.parent = o.parent, !.name = o.name, !.path = o.path]]
  IN  [i \in DOMAIN dirs |->
         IF Like(old, first[i].path)
         THEN [first[i] EXCEPT !.path = o.path \o SubSeq(@, Len(old) + 1, Len(@))]
         ELSE first[i]]

UpdateDir(c) ==
  LET o == op[c]
  IN  /\ o.pc = "updateDir"
      /\ IF o.id \in DOMAIN dirs /\ Consistent(Updated(o))
         THEN /\ dirs' = Updated(o)
              /\ Step(c, [pc |-> "dirCaption", id |-> o.id, row |-> Updated(o)[o.id]])
         ELSE UNCHANGED dirs /\ Step(c, Idle)
      /\ UNCHANGED <<files, channel, ids, mkdirMu, refresh, rebuild, drill, faults, lost>>

\* rewriteDirCaption, then refreshSubtreeCaptions starts its goroutine.
DirCaption(c) ==
  LET o == op[c]
  IN  /\ o.pc = "dirCaption" /\ Cardinality(refresh) < MaxRefresh
      /\ \/ /\ o.row.msg \in DOMAIN channel /\ UNCHANGED faults
            /\ channel' = [channel EXCEPT ![o.row.msg] = DirRecord(o.id, o.row.parent, o.row.name)]
            /\ lost' = lost \ {D(o.id)}
         \/ o.row.msg \notin DOMAIN channel /\ UNCHANGED <<channel, faults, lost>>
         \/ Fault /\ lost' = lost \cup {D(o.id)} /\ UNCHANGED channel
      /\ refresh' = refresh \cup {[pc |-> "scan", id |-> o.id, path |-> o.row.path,
                                   todo |-> {}, work |-> {}]}
      /\ Step(c, Idle)
      /\ UNCHANGED <<index, ids, mkdirMu, rebuild, drill>>

\* Rows of file f that a refresh has read and not written out yet.  It will
\* write them over whatever a rename or a move puts there meanwhile, although
\* no call failed: such a file is Overtaken until it is written again.
Held(f) == {w \in UNION {g.work : g \in refresh} : w.id = f}

UpdateFile(c) ==
  LET o   == op[c]
      row == [files[o.id] EXCEPT !.dir = o.dir, !.name = o.name]
      ok  == /\ o.id \in DOMAIN files /\ o.dir \in DOMAIN dirs \cup {Root}
             /\ FileInDir(o.dir, o.name) \subseteq {o.id}
  IN  /\ o.pc = "updateFile"
      /\ IF ok THEN /\ files' = [files EXCEPT ![o.id] = row]
                    /\ lost' = IF Held(o.id) = {} THEN lost ELSE lost \cup {Overtaken(o.id)}
                    /\ Step(c, [pc |-> "fileCaption", id |-> o.id, row |-> row, seg |-> 1,
                                 overtaken |-> Held(o.id) # {}])
         ELSE UNCHANGED <<files, lost>> /\ Step(c, Idle)
      /\ UNCHANGED <<dirs, channel, ids, mkdirMu, refresh, rebuild, drill, faults>>

\* rewriteFileCaptions edits one segment after the other and stops at the
\* first edit that fails; a folder that is gone fails the caption itself.
Editable(id, row, s) ==
  /\ id \in DOMAIN files /\ row.dir \in DOMAIN dirs \cup {Root}
  /\ s \in DOMAIN files[id].segs /\ files[id].segs[s] \in DOMAIN channel

Edited(id, row, s) == [channel EXCEPT ![files[id].segs[s]] = FileRecord(id, row, s)]

FileCaption(c) ==
  LET o == op[c]
  IN  /\ o.pc = "fileCaption"
      /\ \/ /\ Editable(o.id, o.row, o.seg)
            /\ channel' = Edited(o.id, o.row, o.seg)
            /\ IF o.seg < Segs THEN Step(c, [o EXCEPT !.seg = @ + 1]) /\ UNCHANGED lost
               ELSE /\ Step(c, Idle)
                    /\ lost' = lost \ ({F(o.id)} \cup IF o.overtaken THEN {} ELSE {Overtaken(o.id)})
            /\ UNCHANGED faults
         \/ /\ ~Editable(o.id, o.row, o.seg)
            /\ Step(c, Idle) /\ lost' = lost \cup {F(o.id)} /\ UNCHANGED <<channel, faults>>
         \/ Fault /\ Step(c, Idle) /\ lost' = lost \cup {F(o.id)} /\ UNCHANGED channel
      /\ UNCHANGED <<index, ids, mkdirMu, refresh, rebuild, drill>>

(***************************************************************************)
(* refreshSubtreeCaptions: the directories are read once, the files of     *)
(* each when its turn comes, and each file is written as it was read.      *)
(***************************************************************************)
RefreshScan(g) ==
  /\ g.pc = "scan"
  /\ refresh' = (refresh \ {g}) \cup
       {[g EXCEPT !.pc = "run",
                  !.todo = {i \in DOMAIN dirs : i = g.id \/ IsDescendant(g.path, dirs[i].path)}]}
  /\ UNCHANGED <<index, channel, ids, op, mkdirMu, rebuild, drill, faults, lost>>

\* The directories are taken in the order of the paths that AllDirs returned;
\* here in any order.
RefreshList(g, d) ==
  LET found == {f \in DOMAIN files : files[f].dir = d /\ files[f].status # "pending"}
  IN  /\ g.pc = "run" /\ g.work = {} /\ d \in g.todo
      /\ refresh' = (refresh \ {g}) \cup
           {[g EXCEPT !.todo = @ \ {d},
                      !.work = {[id |-> f, row |-> files[f], seg |-> 1] : f \in found}]}
      /\ UNCHANGED <<index, channel, ids, op, mkdirMu, rebuild, drill, faults, lost>>

RefreshEdit(g, w) ==
  /\ w \in g.work
  /\ \/ /\ Editable(w.id, w.row, w.seg)
        /\ channel' = Edited(w.id, w.row, w.seg)
        /\ refresh' = (refresh \ {g}) \cup
             {[g EXCEPT !.work = (@ \ {w}) \cup
                 IF w.seg < Segs THEN {[w EXCEPT !.seg = @ + 1]} ELSE {}]}
        /\ UNCHANGED faults
     \/ /\ IF Editable(w.id, w.row, w.seg) THEN Fault ELSE UNCHANGED faults
        /\ refresh' = (refresh \ {g}) \cup {[g EXCEPT !.work = @ \ {w}]}
        /\ UNCHANGED channel
  /\ UNCHANGED <<index, ids, op, mkdirMu, rebuild, drill, lost>>

RefreshDone(g) ==
  /\ g.pc = "run" /\ g.todo = {} /\ g.work = {}
  /\ refresh' = refresh \ {g}
  /\ UNCHANGED <<index, channel, ids, op, mkdirMu, rebuild, drill, faults, lost>>

(***************************************************************************)
(* Delete: the messages first, then the rows, which are the map to them.   *)
(***************************************************************************)
Delete(c, p) ==
  LET above == SubSeq(p, 1, Len(p) - 1)
  IN  /\ MayBegin(c)
      /\ \/ \E i \in DirByPath(p) :
              Step(c, [pc |-> "purge", rec |-> D(i), msgs |-> SubtreeMessages(i)])
         \/ /\ DirByPath(p) = {} /\ DirPath(above)
            /\ \E f \in FileInDir(ResolveDir(above), Last(p)) :
                 Step(c, [pc |-> "purge", rec |-> F(f), msgs |-> Range(files[f].segs)])
      /\ UNCHANGED <<index, channel, ids, mkdirMu, refresh, rebuild, drill, faults, lost>>

\* The rows that stand for the messages in gone.
RecordsOf(gone) ==
  {D(i) : i \in {j \in DOMAIN dirs : dirs[j].msg \in gone}}
    \cup {F(f) : f \in {g \in DOMAIN files : Range(files[g].segs) \cap gone # {}}}

\* deleteMessages; a batch that fails may have removed some of them.
Purge(c) ==
  LET o == op[c]
  IN  /\ o.pc = "purge"
      /\ \/ /\ channel' = Without(channel, o.msgs)
            /\ Step(c, [pc |-> "drop", rec |-> o.rec]) /\ UNCHANGED <<faults, lost>>
         \/ /\ Fault /\ Step(c, Idle)
            /\ \E gone \in SUBSET o.msgs :
                 channel' = Without(channel, gone) /\ lost' = lost \cup RecordsOf(gone)
      /\ UNCHANGED <<index, ids, mkdirMu, refresh, rebuild, drill>>

Dropped(rec) ==
  LET below == IF rec[1] = "dir" THEN Cascade(rec[2]) ELSE {}
      fs    == {f \in DOMAIN files : F(f) = rec \/ files[f].dir \in below}
  IN  [dirs |-> below, files |-> fs, recs |-> {D(i) : i \in below} \cup {F(f) : f \in fs}]

DropRows(c) ==
  LET rec == op[c].rec
  IN  /\ op[c].pc = "drop"
      /\ \/ /\ dirs' = Without(dirs, Dropped(rec).dirs)
            /\ files' = Without(files, Dropped(rec).files)
            /\ lost' = lost \ (Dropped(rec).recs \cup {Overtaken(f) : f \in Dropped(rec).files})
            /\ UNCHANGED faults
         \/ Fault /\ lost' = lost \cup Dropped(rec).recs /\ UNCHANGED index
      /\ Step(c, Idle)
      /\ UNCHANGED <<channel, ids, mkdirMu, refresh, rebuild, drill>>

(***************************************************************************)
(* The indexer: one rebuild at a time, which scans the channel and later   *)
(* replaces the index in one transaction.                                  *)
(***************************************************************************)
RebuildStart ==
  /\ rebuild = Idle /\ (Overlap \/ Quiet)
  /\ rebuild' = [pc |-> "found", result |-> Rebuilt(channel)]
  /\ UNCHANGED <<index, channel, ids, op, mkdirMu, refresh, drill, faults, lost>>

ReplaceIndex ==
  /\ rebuild # Idle
  /\ \/ /\ Consistent(rebuild.result.dirs)
        /\ dirs' = rebuild.result.dirs /\ files' = rebuild.result.files
        /\ lost' = Mismatch(dirs', files', channel) /\ UNCHANGED faults
     \/ /\ IF Consistent(rebuild.result.dirs) THEN Fault ELSE UNCHANGED faults
        /\ UNCHANGED <<index, lost>>
  /\ rebuild' = Idle
  /\ UNCHANGED <<channel, ids, op, mkdirMu, refresh, drill>>

\* The process dies: everything in flight is forgotten.
Halt ==
  /\ Fault /\ ~drill
  /\ ~Quiet \/ rebuild # Idle
  /\ op' = [c \in Callers |-> Idle] /\ mkdirMu' = NoOne
  /\ refresh' = {} /\ rebuild' = Idle
  /\ lost' = lost \cup Mismatch(dirs, files, channel)
  /\ UNCHANGED <<index, channel, ids, drill>>

CallerStep(c) ==
  \/ \E p \in Paths : Mkdir(c, p, <<>>) \/ Delete(c, p)
  \/ \E p, q \in Paths : Mkdir(c, q, p)
  \/ \E p \in Paths, n \in Names : Rename(c, p, n)
  \/ \E d \in DOMAIN dirs \cup {Root}, n \in Names : StoreFile(c, d, n)
  \/ MkdirWalk(c) \/ CreateDirSend(c) \/ CreateDirInsert(c) \/ CreateDirRollback(c)
  \/ MoveLookup(c) \/ UpdateDir(c) \/ DirCaption(c) \/ UpdateFile(c) \/ FileCaption(c)
  \/ Purge(c) \/ DropRows(c)

RefreshStep(g) ==
  \/ RefreshScan(g) \/ RefreshDone(g)
  \/ \E d \in g.todo : RefreshList(g, d)
  \/ \E w \in g.work : RefreshEdit(g, w)

TreeNext ==
  \/ \E c \in Callers : CallerStep(c)
  \/ \E g \in refresh : RefreshStep(g)
  \/ RebuildStart \/ ReplaceIndex \/ Halt

TreeSpec == TreeInit /\ [][TreeNext]_treeVars

-----------------------------------------------------------------------------
\* Every row refers to rows that exist, keeps the unique keys of the schema,
\* and the lock is held exactly by a Mkdir between its lookup and its return.
TreeTypeOK ==
  /\ Consistent(dirs)
  /\ \A f, g \in DOMAIN files :
       f # g => <<files[f].dir, files[f].name>> # <<files[g].dir, files[g].name>>
  /\ \A f \in DOMAIN files : files[f].dir \in DOMAIN dirs \cup {Root}
  /\ \A c \in Callers : op[c].pc \in {"send", "insert", "unsend"} => mkdirMu = c
  /\ faults \in 0..MaxFaults

\* The path stored in a row is the path of its parent and its name, whatever
\* was renamed or moved above it, failed or was rebuilt: RenameDir and MoveDir
\* rewrite the whole subtree and nothing else.  The rows are well-typed.
PathsMatch ==
  /\ TreeTypeOK
  /\ \A i \in DOMAIN dirs :
       dirs[i].path = Join(IF dirs[i].parent = Root THEN <<>> ELSE dirs[dirs[i].parent].path, dirs[i].name)

\* Between operations replaying the channel gives exactly the index.  Two
\* things excuse it until the record is written or the index rebuilt again: a
\* call that failed or was cut short, and a file that was renamed or moved
\* while a background refresh held its older row (WriterReproduces).
RebuildReproduces ==
  (Quiet /\ lost = {} /\ ~drill) => Rebuilt(channel) = [dirs |-> dirs, files |-> files]

\* What indexer.go says of every drive ("if a rebuild cannot reproduce the
\* drive ... that is a bug in the writer"), as far as no call failed: violated,
\* since a refresh writes the row it read over a later rename or move.
WriterReproduces ==
  (Quiet /\ (\A r \in lost : r[1] = "late") /\ ~drill)
    => Rebuilt(channel) = [dirs |-> dirs, files |-> files]

\* Mkdir writes Telegram before SQLite so that the index never points at a
\* message that does not exist: unless a call for that very record failed,
\* the message of a row is in the channel between operations.
IndexBacked ==
  (Quiet /\ ~drill) =>
    /\ \A i \in DOMAIN dirs : D(i) \notin lost => dirs[i].msg \in DOMAIN channel
    /\ \A f \in DOMAIN files : F(f) \notin lost => Range(files[f].segs) \subseteq DOMAIN channel

\* Whether the parents of record i lead to the root.
Rooted(found, i) ==
  LET up[n \in 0..Cardinality(DOMAIN found)] ==
        IF n = 0 THEN i
        ELSE IF up[n - 1] \in DOMAIN found THEN found[up[n - 1]].parent ELSE up[n - 1]
  IN  up[Cardinality(DOMAIN found)] = Root

\* The rows of a rebuild are rows: every field has a value of its type, the
\* message of a directory and those of a file are messages of that record, and
\* only the recovery folder has none.
RowsFit(d, fs) ==
  /\ \A i \in DOMAIN d :
       /\ d[i] \in [parent : DOMAIN d \cup {Root}, name : AllNames, path : Seq(AllNames),
                    msg : DOMAIN channel \cup {0}]
       /\ IF i = Recovered THEN d[i].msg = 0 ELSE d[i].msg \in MessagesOf(channel, "dir", i)
  /\ \A f \in DOMAIN fs :
       /\ fs[f] \in [dir : DOMAIN d \cup {Root}, name : AllNames, status : {"complete", "broken"},
                     count : Nat, segs : [DOMAIN fs[f].segs -> DOMAIN channel]]
       /\ \A s \in DOMAIN fs[f].segs : /\ fs[f].segs[s] \in MessagesOf(channel, "file", f)
                                       /\ channel[fs[f].segs[s]].seg = s

\* What a rebuild makes of a damaged channel: every record has its row, under
\* its parent unless that parent does not lead to the root, every file is in a
\* folder that exists and every row refers to messages of its own record, no
\* path and no file name is taken twice, and a path is that of the parent and
\* the name.
RescueKeepsAll ==
  rebuild # Idle =>
    LET d     == rebuild.result.dirs
        fs    == rebuild.result.files
        found == FoundDirs(channel)
    IN  /\ DOMAIN found = DOMAIN d \ {Recovered}
        /\ Recovered \in DOMAIN d <=> \E i \in DOMAIN found : ~Rooted(found, i)
        /\ Consistent(d)
        /\ \A i \in DOMAIN d :
             d[i].path = Join(IF d[i].parent = Root THEN <<>> ELSE d[d[i].parent].path, d[i].name)
        /\ \A i \in DOMAIN found :
             /\ Rooted(found, i) => d[i].parent = found[i].parent
             /\ d[i].parent \in {found[i].parent, Recovered}
             /\ IsPrefix(found[i].name, d[i].name)
        /\ DOMAIN fs = IdsOf(channel, "file")
        /\ RowsFit(d, fs)
        /\ \A f, g \in DOMAIN fs : f # g => <<fs[f].dir, fs[f].name>> # <<fs[g].dir, fs[g].name>>
=============================================================================
