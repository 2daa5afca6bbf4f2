------------------------------ MODULE FileTree ------------------------------
(***************************************************************************)
(* The file operations that carry no data: server/files.go without the     *)
(* upload, over the files of the machine.                                  *)
(*                                                                         *)
(* A path is a sequence of names.  The tree maps every path to what is     *)
(* there; a path outside Paths is too long for the machine.  Links lead to *)
(* absolute paths.  An operation is carried out step by step, for every    *)
(* step may fail and the agent may end after any of them.  Modes, owners   *)
(* and times are left out.  The agent is alone with the tree here: a       *)
(* program that changes it meanwhile is not modelled.                      *)
(***************************************************************************)
EXTENDS Naturals, FiniteSets, SequencesExt

CONSTANTS
  Paths,        \* the paths of the machine, "/" excluded
  Mounts,       \* those where another file system is mounted
  Contents,     \* what a file may hold
  Wanted,       \* the names and the contents that a search asks for
  SearchLimit,  \* searchResultLimit
  Trees,        \* the trees an operation may find
  Arguments     \* the paths the panel may name, "/" among them

Root == <<>>
Nothing == [kind |-> "none"]
Dir == [kind |-> "dir"]
File(d) == [kind |-> "file", data |-> d]
Link(p) == [kind |-> "link", to |-> p]
Empty == "empty"      \* the content of a file of no bytes
Partial == "partial"  \* the content of a file that has been truncated to be written

Nodes == {Nothing, Dir} \cup {File(d) : d \in Contents \cup {Empty, Partial}}
           \cup {Link(p) : p \in Paths}

Parent(p) == IF p = Root THEN Root ELSE Front(p)
Kind(t, p) == IF p = Root THEN "dir" ELSE IF p \in Paths THEN t[p].kind ELSE "none"
Below(t, p) == {q \in Paths : IsPrefix(p, q) /\ t[q] # Nothing}
Children(t, p) == {q \in Below(t, p) : Len(q) = Len(p) + 1}

\* Whatever is there is in directories all the way, and a mount point is one.
WellFormed(t) ==
  /\ \A p \in Paths : t[p] # Nothing => \A q \in Prefixes(p) \ {p} : Kind(t, q) = "dir"
  /\ \A p \in Mounts : t[p] = Dir

Names == UNION {Range(p) : p \in Paths}

\* Paths are closed under "..", and no operation finds a file that is being written.
ASSUME TreesAssumption ==
  /\ Paths \subseteq Seq(Names) \ {Root} /\ \A p \in Paths : Prefixes(p) \subseteq Paths \cup {Root}
  /\ Trees \subseteq [Paths -> Nodes \ {File(Partial)}] /\ \A t \in Trees : WellFormed(t)
  /\ Mounts \subseteq Paths /\ Arguments \subseteq Paths \cup {Root} /\ SearchLimit \in Nat \ {0}

VARIABLES
  tree,
  job,   \* the operation in progress
  start  \* history: the tree it found

vars == <<tree, job, start>>

(***************************************************************************)
(* Paths.  The kernel follows the links on the way to a name, and the last *)
(* name as well unless the call is about the link itself.                  *)
(***************************************************************************)
LinksAbove(t, p) == {q \in Paths : t[q].kind = "link" /\ IsStrictPrefix(q, p)}

Through(t, p) ==
  IF LinksAbove(t, p) = {} THEN p
  ELSE LET q == CHOOSE q \in LinksAbove(t, p) : TRUE
       IN  t[q].to \o SubSeq(p, Len(q) + 1, Len(p))

Hop(t, p) == IF Kind(t, p) = "link" THEN Through(t, t[p].to) ELSE p
Follow(t, p) == Hop(t, Hop(t, Through(t, p)))
Exists(t, p) == Kind(t, Through(t, p)) # "none"

\* The file system an entry is on: a mount point is an entry of the one above.
Device(t, p) ==
  LET above == {m \in Mounts : IsStrictPrefix(m, Through(t, p))}
  IN  IF above = {} THEN Root ELSE CHOOSE m \in above : TRUE

samePath(p, q) == p = q
pathContains(p, q) == IsStrictPrefix(p, q)

\* Where an entry of src goes when src goes to dst.
Moved(p, src, dst) == dst \o SubSeq(p, Len(src) + 1, Len(p))

(***************************************************************************)
(* What the calls of package os do to a tree.                              *)
(***************************************************************************)
Put(t, p, node) == [t EXCEPT ![p] = node]

WayTo(t, p) == {q \in Prefixes(Follow(t, p)) : q # Root}

CanMkdirAll(t, p) ==
  /\ \A q \in WayTo(t, p) : q \in Paths /\ t[q].kind \in {"none", "dir"}
  /\ \A q \in Prefixes(p) : Kind(t, q) = "link" => Kind(t, Follow(t, q)) = "dir"

MkdirAll(t, p) == [q \in Paths |-> IF q \in WayTo(t, p) /\ t[q] = Nothing THEN Dir ELSE t[q]]

\* What may be there when it fails: some of the directories have been made.
MkdirSome(t, p) == {MkdirAll(t, q) : q \in {r \in Prefixes(p) : CanMkdirAll(t, r)}}

\* os.Rename refuses an existing directory as its target, rename(2) the rest.
CanRename(t, p, q) ==
  LET old == Through(t, p)
      new == Through(t, q)
  IN  /\ new \in Paths /\ Kind(t, old) # "none" /\ old \notin Mounts
      /\ new = old \/ Kind(t, new) # "dir"
      /\ Kind(t, Parent(new)) = "dir"
      /\ t[old] = Dir => new = old \/ (t[new] = Nothing /\ ~IsPrefix(old, new))
      /\ \A r \in Below(t, old) : Moved(r, old, new) \in Paths

Rename(t, p, q) ==
  LET old == Through(t, p)
      new == Through(t, q)
      back(r) == Moved(r, new, old)
  IN  IF old = new THEN t
      ELSE [r \in Paths |-> IF IsPrefix(new, r) /\ back(r) \in Paths THEN t[back(r)]
                            ELSE IF IsPrefix(old, r) THEN Nothing ELSE t[r]]

(***************************************************************************)
(* The operation.                                                          *)
(***************************************************************************)
ops == {"list", "stat", "create", "mkdir", "delete", "move", "copy", "attribute", "search"}

NoJob == [op |-> "none", src |-> Root, dst |-> Root, pc |-> "idle", todo |-> {}, cur |-> Root,
          temp |-> FALSE, stuck |-> FALSE, content |-> FALSE, found |-> {}, skipped |-> {}, answer |-> "none"]

Jobs == [op : ops \cup {"none"}, src : Paths \cup {Root}, dst : Paths \cup {Root},
         pc : {"idle", "replace", "walk", "write", "remove", "search", "ended", "crashed"},
         todo : SUBSET (Paths \cup {Root}), cur : Seq(Names),
         temp : BOOLEAN, stuck : BOOLEAN, content : BOOLEAN,
         found : SUBSET Paths, skipped : SUBSET (Paths \cup {Root}), answer : {"none", "ok", "error"}]

TypeOK ==
  /\ tree \in [Paths -> Nodes] /\ start \in [Paths -> Nodes]
  /\ job \in Jobs /\ (job.pc = "write" => job.cur \in Paths)

Init == tree \in Trees /\ start = tree /\ job = NoJob

End(j, answer) == job' = [j EXCEPT !.pc = "ended", !.answer = answer]
Refuse(j) == End(j, "error") /\ UNCHANGED tree
FailMaking(j, p) == End(j, "error") /\ tree' \in MkdirSome(tree, p)
Go(j, pc) == job' = [j EXCEPT !.pc = pc]

Asked(op, src) == [NoJob EXCEPT !.op = op, !.src = src]

\* The remote control is disabled, or the operation is none of these.
Rejected(op, src) == job.pc = "idle" /\ Refuse(Asked(op, src)) /\ UNCHANGED start

\* Operations that leave the tree alone and fail where there is nothing.
listFiles(p) ==
  /\ job.pc = "idle"
  /\ End(Asked("list", p), IF Kind(tree, Follow(tree, p)) = "dir" THEN "ok" ELSE "error")
  /\ UNCHANGED <<tree, start>>

statFile(p) ==
  /\ job.pc = "idle"
  /\ End(Asked("stat", p), IF Exists(tree, p) THEN "ok" ELSE "error")
  /\ UNCHANGED <<tree, start>>

\* chmodPath and chownPath follow the link; the mode or the account may be refused.
changeAttribute(p) ==
  /\ job.pc = "idle"
  /\ \/ Kind(tree, Follow(tree, p)) # "none" /\ End(Asked("attribute", p), "ok")
     \/ End(Asked("attribute", p), "error")
  /\ UNCHANGED <<tree, start>>

mkdir(p) ==
  /\ job.pc = "idle"
  /\ LET j == Asked("mkdir", p) IN
     \/ CanMkdirAll(tree, p) /\ tree' = MkdirAll(tree, p) /\ End(j, "ok")
     \/ FailMaking(j, p)
  /\ UNCHANGED start

\* createFile makes an empty file beside the target and moves it there.
createFile(p) ==
  /\ job.pc = "idle"
  /\ LET j == Asked("create", p) IN
     \/ /\ p # Root /\ CanMkdirAll(tree, Parent(p))
        /\ tree' = MkdirAll(tree, Parent(p))
        /\ Kind(tree, Follow(tree, p)) # "dir" /\ Go([j EXCEPT !.temp = TRUE], "replace")
     \/ p # Root /\ FailMaking(j, Parent(p))
     \/ p = Root /\ Refuse(j)
  /\ UNCHANGED start

ReplaceFile ==
  /\ job.pc = "replace"
  /\ LET p == Through(tree, job.src)
         moved == [job EXCEPT !.temp = FALSE]
     IN  \/ /\ p \in Paths /\ Kind(tree, p) # "dir"
            /\ tree' = Put(tree, p, File(Empty))
            /\ \E answer \in {"ok", "error"} : End(moved, answer)  \* syncUploadDirectory may fail
         \/ Refuse(moved)                                         \* the deferred os.Remove
         \/ Refuse([job EXCEPT !.stuck = TRUE])                   \* which may fail too
  /\ UNCHANGED start

deletePath(p) ==
  /\ job.pc = "idle"
  /\ LET j == Asked("delete", p)
     IN  IF p # Root /\ Exists(tree, p)
         THEN Go([j EXCEPT !.cur = Through(tree, p)], "remove") /\ UNCHANGED tree
         ELSE Refuse(j)
  /\ UNCHANGED start

\* os.RemoveAll opens the directory above and takes away one entry after the other,
\* until one cannot be.
RemoveEntry ==
  /\ job.pc = "remove"
  /\ \/ Below(tree, job.cur) = {} /\ End(job, "ok") /\ UNCHANGED tree
     \/ \E p \in Below(tree, job.cur) \ Mounts :
          /\ Children(tree, p) = {}
          /\ tree' = Put(tree, p, Nothing)
          /\ UNCHANGED job
     \/ Below(tree, job.cur) # {} /\ Refuse(job)
  /\ UNCHANGED start

\* A move within a file system is a rename, any other a copy and a removal.
movePath(p, q) ==
  /\ job.pc = "idle"
  /\ LET j == [Asked("move", p) EXCEPT !.dst = q]
         t == MkdirAll(tree, Parent(q))
     IN  IF samePath(p, q) THEN End(j, "ok") /\ UNCHANGED tree
         ELSE IF pathContains(p, q) THEN Refuse(j)
         ELSE IF ~CanMkdirAll(tree, Parent(q)) THEN FailMaking(j, Parent(q))
         ELSE \/ /\ Exists(t, p) /\ Kind(t, Through(t, q)) # "dir"
                 /\ Device(t, p) # Device(t, q)
                 /\ tree' = t
                 /\ Go([j EXCEPT !.todo = {Through(t, p)}], "walk")
              \/ /\ CanRename(t, p, q) /\ Device(t, p) = Device(t, q)
                 /\ tree' = Rename(t, p, q)
                 /\ End(j, "ok")
              \/ FailMaking(j, Parent(q))
  /\ UNCHANGED start

copyPath(p, q) ==
  /\ job.pc = "idle"
  /\ LET j == [Asked("copy", p) EXCEPT !.dst = q]
         from == Through(tree, p)
     IN  IF samePath(p, q) \/ ~Exists(tree, p) \/ (Kind(tree, from) = "dir" /\ pathContains(p, q))
         THEN Refuse(j)
         ELSE UNCHANGED tree /\ Go([j EXCEPT !.todo = {from}], "walk")
  /\ UNCHANGED start

(***************************************************************************)
(* The walk of copyDirectory, and the copy of a single entry.              *)
(***************************************************************************)
Target(p) == Moved(p, Through(start, job.src), job.dst)

\* copySymlink makes the directory and replaces what is there, a directory excepted.
copySymlink(p) ==
  LET t == MkdirAll(tree, Parent(Target(p)))
      q == Through(t, Target(p))
  IN  /\ tree[p].kind = "link" /\ CanMkdirAll(tree, Parent(Target(p)))
      /\ q \in Paths /\ Kind(t, q) # "dir"
      /\ tree' = Put(t, q, tree[p])
      /\ job' = [job EXCEPT !.todo = @ \ {p}]

\* What is there has been taken away when the new link cannot be made.
relinkFails(p) ==
  LET t == MkdirAll(tree, Parent(Target(p)))
      q == Through(t, Target(p))
  IN  /\ tree[p].kind = "link" /\ CanMkdirAll(tree, Parent(Target(p)))
      /\ q \in Paths /\ Kind(t, q) # "dir"
      /\ tree' = Put(t, q, Nothing)
      /\ End(job, "error")

copyDirectoryEntry(p) ==
  /\ tree[p] = Dir /\ CanMkdirAll(tree, Target(p))
  /\ tree' = MkdirAll(tree, Target(p))
  /\ job' = [job EXCEPT !.todo = (@ \ {p}) \cup Children(tree', p)]

\* os.OpenFile follows a link and truncates what it finds.
openCopy(p) ==
  LET t == MkdirAll(tree, Parent(Target(p)))
      q == Follow(t, Target(p))
  IN  /\ tree[p].kind = "file" /\ CanMkdirAll(tree, Parent(Target(p)))
      /\ q \in Paths /\ Kind(t, q) # "dir" /\ Kind(t, Parent(q)) = "dir"
      /\ tree' = Put(t, q, File(Partial))
      /\ job' = [job EXCEPT !.todo = @ \ {p}, !.cur = p, !.pc = "write"]

\* Mutant: the walk goes on after an entry that could not be copied.
CopyEntryIgnoring ==
  /\ job.pc = "walk" /\ UNCHANGED start
  /\ \E p \in job.todo :
       \/ copySymlink(p) \/ copyDirectoryEntry(p) \/ openCopy(p)
       \/ UNCHANGED tree /\ job' = [job EXCEPT !.todo = @ \ {p}]

CopyEntry ==
  /\ job.pc = "walk" /\ UNCHANGED start
  /\ \E p \in job.todo :
       \/ copySymlink(p) \/ relinkFails(p) \/ copyDirectoryEntry(p) \/ openCopy(p)
       \/ FailMaking(job, IF tree[p] = Dir THEN Target(p) ELSE Parent(Target(p)))

\* io.Copy and what follows; a failed write takes the copy away again if it can, a
\* mode or a time that cannot be set does not.
WriteCopy ==
  /\ job.pc = "write" /\ UNCHANGED start
  /\ LET q == Target(job.cur)
         read == IF tree[job.cur] = File(Partial) THEN File(Empty) ELSE tree[job.cur]
         whole == Put(tree, Follow(tree, q), read)
     IN  \/ tree' = whole /\ Go(job, "walk")
         \/ tree' = whole /\ End(job, "error")
         \/ Through(tree, q) \in Paths /\ tree' = Put(tree, Through(tree, q), Nothing)
              /\ End(job, "error")
         \/ Refuse([job EXCEPT !.stuck = TRUE])

CopyDone ==
  /\ job.pc = "walk" /\ job.todo = {}
  /\ IF job.op = "move" THEN Go([job EXCEPT !.cur = Through(tree, job.src)], "remove")
     ELSE End(job, "ok")
  /\ UNCHANGED <<tree, start>>

(***************************************************************************)
(* The walk of searchFiles.  A directory that cannot be read is left out,  *)
(* unless it is the one to search, and so is a file when its content is    *)
(* what is asked for.                                                      *)
(***************************************************************************)
searchFiles(p, content) ==
  /\ job.pc = "idle"
  /\ LET j == [Asked("search", p) EXCEPT !.content = content]
     IN  IF Exists(tree, p) THEN Go([j EXCEPT !.todo = {Through(tree, p)}], "search")
         ELSE End(j, "error")
  /\ UNCHANGED <<tree, start>>

Match(p) ==
  IF job.content THEN Kind(tree, p) = "file" /\ tree[p].data \in Wanted
  ELSE p # Root /\ Last(p) \in Wanted

limited == Cardinality(job.found) >= SearchLimit

\* Mutant: a directory that cannot be read ends the search, as fs.SkipAll would.
SearchEntrySkipAll ==
  /\ job.pc = "search" /\ ~limited
  /\ \E p \in job.todo :
       \/ job' = [job EXCEPT !.found = IF Match(p) THEN @ \cup {p} ELSE @,
                             !.todo = (@ \ {p}) \cup Children(tree, p)]
       \/ Kind(tree, p) = "dir" /\ job' = [job EXCEPT !.todo = {}, !.skipped = @ \cup {p}]
  /\ UNCHANGED <<tree, start>>

SearchEntry ==
  /\ job.pc = "search" /\ ~limited
  /\ \E p \in job.todo :
       LET top == p = Through(tree, job.src)
           dir == Kind(tree, p) = "dir"
           seen == [job EXCEPT !.found = IF Match(p) THEN @ \cup {p} ELSE @,
                               !.todo = (@ \ {p}) \cup Children(tree, p)]
           left == [job EXCEPT !.found = IF Match(p) /\ dir THEN @ \cup {p} ELSE @,
                               !.todo = @ \ {p}, !.skipped = @ \cup {p}]
       IN  \/ job' = seen
           \/ ((dir /\ ~top) \/ job.content) /\ job' = left
           \/ dir /\ top /\ End(job, "error")
  /\ UNCHANGED <<tree, start>>

SearchDone ==
  /\ job.pc = "search" /\ (job.todo = {} \/ limited)
  /\ End(job, "ok")
  /\ UNCHANGED <<tree, start>>

\* The agent ends; what has been done stays.
Crash ==
  /\ job.pc \notin {"idle", "ended", "crashed"}
  /\ Go(job, "crashed") /\ UNCHANGED <<tree, start>>

executeFileOperation ==
  \E p \in Arguments :
    \/ \E op \in ops : Rejected(op, p)
    \/ listFiles(p) \/ statFile(p) \/ changeAttribute(p)
    \/ mkdir(p) \/ createFile(p) \/ deletePath(p)
    \/ \E q \in Arguments : movePath(p, q) \/ copyPath(p, q)
    \/ \E content \in BOOLEAN : searchFiles(p, content)

Step == ReplaceFile \/ RemoveEntry \/ CopyEntry \/ WriteCopy \/ CopyDone
          \/ SearchEntry \/ SearchDone

Next == executeFileOperation \/ Step \/ Crash

Spec == Init /\ [][Next]_vars

-----------------------------------------------------------------------------
(* Links can make two names of one file.  The properties of moves and copies
   are about sources and targets that no link leads to or from, and neither
   of which contains the other. *)
PlainAbove(p) == LinksAbove(start, p) = {}
PlainBelow(p) == \A q \in Paths : IsPrefix(p, q) => start[q].kind # "link"
Apart(p, q) == ~IsPrefix(p, q) /\ ~IsPrefix(q, p)
Plain == PlainAbove(job.src) /\ PlainAbove(job.dst) /\ PlainBelow(job.dst)
           /\ Apart(job.src, job.dst)

(* A move or a copy never loses a file: whatever step failed and wherever the
   agent ended, everything below the source is still there or, when it was
   moved, is whole at its new place (movePath, copyRegularFile). *)
NothingLost ==
  (job.op \in {"move", "copy"} /\ Plain) =>
     \A p \in Below(start, job.src) :
        \/ tree[p] = start[p]
        \/ job.op = "move" /\ Moved(p, job.src, job.dst) \in Paths
             /\ tree[Moved(p, job.src, job.dst)] = start[p]

(* An operation that answered OK has done what it was asked for, and one that
   answered anything leaves neither a half-written nor a temporary file if it
   could take it away again. *)
Done(op) ==
  CASE op = "delete" -> Below(tree, Through(start, job.src)) = {}
    [] op = "create" -> tree[Through(start, job.src)] = File(Empty)
    [] op = "mkdir" -> Kind(tree, Follow(tree, job.src)) = "dir"
    [] op \in {"move", "copy"} ->
         Plain => /\ op = "move" => Below(tree, job.src) = {}
                  /\ \A p \in Below(start, job.src) :
                       tree[Moved(p, job.src, job.dst)] = start[p]
    [] op = "search" ->
         limited \/ job.found = {p \in Below(tree, Through(tree, job.src)) :
                                   Match(p) /\ \A s \in job.skipped :
                                       ~IsStrictPrefix(s, p) /\ ~(job.content /\ s = p)}
    [] OTHER -> tree = start

AnswerTells ==
  /\ job.answer = "ok" => Done(job.op)
  /\ job.answer # "none" /\ ~job.stuck /\ (job.op \in {"move", "copy"} => Plain) =>
       ~job.temp /\ \A p \in Paths : tree[p] # File(Partial)
=============================================================================
