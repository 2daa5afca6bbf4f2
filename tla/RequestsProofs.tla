--------------------------- MODULE RequestsProofs ---------------------------
(***************************************************************************)
(* FileTree and TaskDelivery for any number of paths, trees, requests and  *)
(* connections.                                                            *)
(*                                                                         *)
(* Of an operation on files: nothing is lost by a move or a copy, and what *)
(* it answers is so.  FileInv says, for each stage of an operation, what   *)
(* its next step relies on: that a copy leaves its source alone, that what *)
(* is not copied yet is ahead of the walk, that a removal begins after all *)
(* has been copied, that a search has found what it has passed.            *)
(*                                                                         *)
(* Of the requests: the account of the answers, and what an answer says of *)
(* its process.  That invariant has a part for each request's record       *)
(* (Sound) and a part that relates the record to the answers delivered     *)
(* (Balanced).  All but the two actions that send an answer leave the      *)
(* latter alone: they change one record, in a Calm way.                    *)
(***************************************************************************)
EXTENDS FileTree, TaskDelivery, SequenceTheorems, TLAPS

(***************************************************************************)
(* The invariant.                                                          *)
(***************************************************************************)

AllTrees == [Paths -> Nodes]

\* No link leads away from the source or the target of a move or a copy, and neither
\* is above the other: Plain, of the tree o that the operation found.
PlainFor(o, s, d) ==
  /\ LinksAbove(o, s) = {} /\ LinksAbove(o, d) = {}
  /\ \A q \in Paths : IsPrefix(d, q) => o[q].kind # "link"
  /\ Apart(s, d)

\* While the tree at s is copied to d, it stays as it is, no link comes in the way of
\* either, and the links at the target are the copied ones.
Copying(t, o, s, d) ==
  /\ \A p \in Paths : IsPrefix(s, p) => t[p] = o[p]
  /\ LinksAbove(t, s) = {} /\ LinksAbove(t, d) = {}
  /\ \A p \in Paths : IsPrefix(d, p) /\ t[p].kind = "link" =>
       \E q \in Paths : IsPrefix(s, q) /\ p = Moved(q, s, d) /\ o[q].kind = "link"

CopiedTo(t, o, s, d, p) == Moved(p, s, d) \in Paths /\ t[Moved(p, s, d)] = o[p]

NoPartial(t) == \A p \in Paths : t[p] # File(Partial)

\* What was not copied yet is ahead of the walk, or being written.
CopyInv ==
  /\ Copying(tree, start, job.src, job.dst)
  /\ job.todo \subseteq Below(start, job.src)
  /\ \A p \in Below(start, job.src) :
       \/ CopiedTo(tree, start, job.src, job.dst, p)
       \/ job.pc = "write" /\ p = job.cur
       \/ \E t \in job.todo : IsPrefix(t, p)
  /\ job.pc = "walk" => NoPartial(tree)
  /\ job.pc = "write" =>
       /\ job.cur \in Below(start, job.src) /\ start[job.cur].kind = "file"
       /\ Moved(job.cur, job.src, job.dst) \in Paths
       /\ \A p \in Paths : tree[p] = File(Partial) <=> p = Moved(job.cur, job.src, job.dst)

\* No link has come or gone.
SameLinks(t, u) == \A q \in Paths : t[q].kind = "link" \/ u[q].kind = "link" => t[q] = u[q]

ReplaceInv == job.op = "create" /\ SameLinks(start, tree) /\ NoPartial(tree)

\* What is removed has been copied, all of it, if it is to be moved.
RemoveInv ==
  \/ job.op = "delete" /\ job.cur = Through(start, job.src) /\ NoPartial(tree)
  \/ /\ job.op = "move"
     /\ Plain => /\ job.cur = job.src /\ NoPartial(tree)
                 /\ \A p \in Below(start, job.src) : CopiedTo(tree, start, job.src, job.dst, p)

\* A search leaves out what is below a directory it could not read and, when it reads
\* files, the files it could not.
LeftOut(skipped, content, p) == \E s \in skipped : IsPrefix(s, p) /\ (s # p \/ content)

\* What is ahead of the walk of the tree t from top is not below anything else that is,
\* and neither below nor above what has been left out; of what is not ahead, what matches
\* has been found.
Searching(t, top, matching, content, todo, skipped, found) ==
  /\ todo \subseteq Below(t, top) \cup {Root} /\ (Root \in todo => top = Root)
  /\ \A x, y \in todo : IsPrefix(x, y) => x = y
  /\ \A x \in todo : \A s \in skipped : ~IsPrefix(s, x) /\ ~IsPrefix(x, s)
  /\ \A p \in Below(t, top) :
       (\E x \in todo : IsPrefix(x, p)) \/ (p \in matching /\ ~LeftOut(skipped, content, p) => p \in found)
  /\ \A p \in found :
       /\ p \in Below(t, top) /\ p \in matching /\ ~LeftOut(skipped, content, p)
       /\ \A x \in todo : ~IsPrefix(x, p)

SearchInv ==
  /\ job.op = "search" /\ tree = start
  /\ Searching(tree, Through(tree, job.src), {p \in Paths : Match(p)},
               job.content, job.todo, job.skipped, job.found)

FileInv ==
  /\ TypeOK /\ start \in Trees
  /\ job.pc = "idle" => tree = start /\ job = NoJob
  /\ job.pc # "ended" => job.answer = "none"
  /\ job.temp => job.pc \in {"replace", "ended", "crashed"}
  /\ job.pc \in {"walk", "write"} => job.op \in {"move", "copy"} /\ job.todo \subseteq Paths /\ (Plain => CopyInv)
  /\ job.pc = "replace" => ReplaceInv
  /\ job.pc = "remove" => RemoveInv
  /\ job.pc = "search" => SearchInv
  /\ job.pc \in {"ended", "crashed"} => NothingLost /\ AnswerTells

(***************************************************************************)
(* Paths.                                                                  *)
(***************************************************************************)
Ways == Seq(Names)

LEMMA PrefixIs ==
  ASSUME NEW p \in Ways, NEW q \in Ways
  PROVE  IsPrefix(p, q) <=> Len(p) <= Len(q) /\ \A i \in 1 .. Len(p) : p[i] = q[i]
<1>1. Len(p) \in Nat /\ Len(q) \in Nat /\ SubSeq(p, 1, Len(p)) = p
  BY LenProperties, SubSeqFull DEF Ways
<1>2. ASSUME Len(p) <= Len(q)
      PROVE  /\ SubSeq(q, 1, Len(p)) \in Ways /\ Len(SubSeq(q, 1, Len(p))) = Len(p)
             /\ \A i \in 1 .. Len(p) : SubSeq(q, 1, Len(p))[i] = q[i]
  <2>1. \A i \in 1 .. Len(p) : q[i] \in Names
    BY <1>1, <1>2, ElementOfSeq DEF Ways
  <2>2. QED
    BY <1>1, <2>1, SubSeqProperties DEF Ways
<1>3. ASSUME Len(p) <= Len(q), \A i \in 1 .. Len(p) : p[i] = q[i]
      PROVE  p = SubSeq(q, 1, Len(p))
  BY <1>1, <1>2, <1>3, SeqEqual DEF Ways
<1>4. QED
  BY <1>1, <1>2, <1>3 DEF IsPrefix

LEMMA LengthIs == \A p \in Ways : Len(p) \in Nat
BY LenProperties DEF Ways

LEMMA WayEqual ==
  ASSUME NEW p \in Ways, NEW q \in Ways, Len(p) = Len(q), \A i \in 1 .. Len(p) : p[i] = q[i]
  PROVE  p = q
BY SeqEqual DEF Ways

LEMMA PrefixOrder ==
  /\ \A p \in Ways : IsPrefix(p, p)
  /\ \A p, q \in Ways : IsPrefix(p, q) /\ IsPrefix(q, p) => p = q
  /\ \A p, q, r \in Ways : IsPrefix(p, q) /\ IsPrefix(q, r) => IsPrefix(p, r)
<1>1. \A p \in Ways : IsPrefix(p, p)
  BY PrefixIs, LengthIs
<1>2. ASSUME NEW p \in Ways, NEW q \in Ways, IsPrefix(p, q), IsPrefix(q, p) PROVE p = q
  BY <1>2, PrefixIs, LengthIs, WayEqual
<1>3. ASSUME NEW p \in Ways, NEW q \in Ways, NEW r \in Ways, IsPrefix(p, q), IsPrefix(q, r)
      PROVE  IsPrefix(p, r)
  <2>1. /\ Len(p) <= Len(q) /\ \A i \in 1 .. Len(p) : p[i] = q[i]
        /\ Len(q) <= Len(r) /\ \A i \in 1 .. Len(q) : q[i] = r[i]
        /\ Len(p) \in Nat /\ Len(q) \in Nat /\ Len(r) \in Nat
    BY <1>3, PrefixIs, LengthIs
  <2>2. Len(p) <= Len(r) /\ \A i \in 1 .. Len(p) : p[i] = r[i]
    BY <2>1
  <2>3. QED
    BY <2>2, PrefixIs
<1>4. QED
  BY <1>1, <1>2, <1>3

\* Two ways to the same place: the shorter leads to the longer.
LEMMA OnOneWay ==
  ASSUME NEW p \in Ways, NEW q \in Ways, NEW r \in Ways, IsPrefix(p, r), IsPrefix(q, r)
  PROVE  /\ Len(p) <= Len(q) <=> IsPrefix(p, q)
         /\ Len(p) = Len(q) => p = q
         /\ IsPrefix(p, q) \/ IsPrefix(q, p)
<1>1. /\ Len(p) <= Len(r) /\ \A i \in 1 .. Len(p) : p[i] = r[i]
      /\ Len(q) <= Len(r) /\ \A i \in 1 .. Len(q) : q[i] = r[i]
      /\ Len(p) \in Nat /\ Len(q) \in Nat /\ Len(r) \in Nat
  BY PrefixIs, LengthIs
<1>2. Len(p) <= Len(q) => \A i \in 1 .. Len(p) : p[i] = q[i]
  BY <1>1
<1>3. Len(q) <= Len(p) => \A i \in 1 .. Len(q) : q[i] = p[i]
  BY <1>1
<1>4. Len(p) <= Len(q) <=> IsPrefix(p, q)
  BY <1>1, <1>2, PrefixIs
<1>5. Len(q) <= Len(p) <=> IsPrefix(q, p)
  BY <1>1, <1>3, PrefixIs
<1>6. QED
  BY <1>1, <1>4, <1>5, PrefixOrder

\* The prefixes of a way: of every length, the way to there.
LEMMA Cut ==
  ASSUME NEW p \in Ways, NEW n \in 0 .. Len(p)
  PROVE  SubSeq(p, 1, n) \in Ways /\ Len(SubSeq(p, 1, n)) = n /\ IsPrefix(SubSeq(p, 1, n), p)
<1>1. Len(p) \in Nat /\ \A i \in 1 .. n : p[i] \in Names
  BY LengthIs, ElementOfSeq DEF Ways
<1>2. /\ SubSeq(p, 1, n) \in Ways /\ Len(SubSeq(p, 1, n)) = n
      /\ \A i \in 1 .. n : SubSeq(p, 1, n)[i] = p[i]
  BY <1>1, SubSeqProperties DEF Ways
<1>3. PICK q \in Ways : q = SubSeq(p, 1, n) /\ Len(q) = n /\ \A i \in 1 .. n : q[i] = p[i]
  BY <1>2
<1>4. n <= Len(p)
  BY <1>1
<1>5. IsPrefix(q, p)
  BY <1>3, <1>4, PrefixIs
<1>6. QED
  BY <1>3, <1>5

LEMMA PrefixesAre ==
  ASSUME NEW p \in Ways
  PROVE  /\ \A q \in Prefixes(p) : q \in Ways /\ IsPrefix(q, p)
         /\ \A q \in Ways : IsPrefix(q, p) => q \in Prefixes(p)
<1>1. \A q \in Prefixes(p) : q \in Ways /\ IsPrefix(q, p)
  BY Cut DEF Prefixes
<1>2. ASSUME NEW q \in Ways, IsPrefix(q, p) PROVE q \in Prefixes(p)
  <2>1. Len(q) \in 0 .. Len(p)
    BY <1>2, LengthIs, PrefixIs
  <2>2. IsPrefix(SubSeq(p, 1, Len(q)), p) /\ SubSeq(p, 1, Len(q)) \in Ways /\ Len(SubSeq(p, 1, Len(q))) = Len(q)
    BY <2>1, Cut
  <2>3. q = SubSeq(p, 1, Len(q))
    BY <1>2, <2>2, OnOneWay
  <2>4. QED
    BY <2>1, <2>3 DEF Prefixes
<1>3. QED
  BY <1>1, <1>2

LEMMA RootIs == Root \in Ways /\ Len(Root) = 0 /\ \A p \in Ways : IsPrefix(Root, p) /\ (IsPrefix(p, Root) => p = Root)
<1>1. Root \in Ways /\ Len(Root) = 0
  BY EmptySeq DEF Root, Ways
<1>2. \A p \in Ways : IsPrefix(Root, p)
  BY <1>1, PrefixIs, LengthIs
<1>3. QED
  BY <1>1, <1>2, PrefixOrder

LEMMA ParentIs ==
  ASSUME NEW p \in Ways, p # Root
  PROVE  /\ Parent(p) \in Ways /\ IsPrefix(Parent(p), p) /\ Parent(p) # p
         /\ \A q \in Ways : IsPrefix(q, p) /\ q # p => IsPrefix(q, Parent(p))
<1>1. Len(p) \in Nat /\ Len(p) # 0
  BY EmptySeq DEF Root, Ways
<1>2. Parent(p) \in Ways /\ Len(Parent(p)) = Len(p) - 1 /\ IsPrefix(Parent(p), p)
  <2>1. Len(p) - 1 \in 0 .. Len(p)
    BY <1>1
  <2>2. QED
    BY <2>1, Cut DEF Parent, Front
<1>3. ASSUME NEW q \in Ways, IsPrefix(q, p), q # p PROVE IsPrefix(q, Parent(p))
  <2>1. Len(q) \in Nat /\ Len(q) <= Len(p) /\ Len(q) # Len(p)
    BY <1>3, LengthIs, PrefixIs, PrefixOrder, OnOneWay
  <2>2. Len(q) <= Len(Parent(p))
    BY <1>1, <1>2, <2>1
  <2>3. QED
    BY <1>2, <1>3, <2>2, OnOneWay
<1>4. QED
  BY <1>1, <1>2, <1>3

\* On the way from a directory to what is below it there is a child of the directory.
LEMMA ChildOnWay ==
  ASSUME NEW p \in Ways, NEW q \in Ways, IsPrefix(p, q), p # q
  PROVE  \E c \in Ways : IsPrefix(p, c) /\ IsPrefix(c, q) /\ Len(c) = Len(p) + 1
<1>1. Len(p) \in Nat /\ Len(q) \in Nat /\ Len(p) <= Len(q) /\ Len(p) # Len(q)
  BY LengthIs, PrefixIs, PrefixOrder, OnOneWay
<1>2. Len(p) + 1 \in 0 .. Len(q)
  BY <1>1
<1>3. PICK c \in Ways : Len(c) = Len(p) + 1 /\ IsPrefix(c, q)
  BY <1>2, Cut
<1>4. Len(p) <= Len(c)
  BY <1>1, <1>3
<1>5. IsPrefix(p, c)
  BY <1>3, <1>4, OnOneWay
<1>6. QED
  BY <1>3, <1>5

\* No way is a child's that is not the directory's or the child's own.
LEMMA ChildIsNext ==
  ASSUME NEW p \in Ways, NEW c \in Ways, IsPrefix(p, c), Len(c) = Len(p) + 1, NEW q \in Ways,
         IsPrefix(q, c)
  PROVE  c # p /\ (q = c \/ IsPrefix(q, p))
<1>1. Len(p) \in Nat /\ Len(q) \in Nat /\ Len(q) <= Len(c)
  BY LengthIs, PrefixIs
<1>2. CASE Len(q) = Len(c)
  BY <1>1, <1>2, OnOneWay, PrefixOrder
<1>3. CASE Len(q) <= Len(p)
  BY <1>1, <1>3, OnOneWay
<1>4. QED
  BY <1>1, <1>2, <1>3

(***************************************************************************)
(* Where a tree goes.                                                      *)
(***************************************************************************)
LEMMA MovedIs ==
  ASSUME NEW p \in Ways, NEW s \in Ways, NEW d \in Ways, IsPrefix(s, p)
  PROVE  /\ Moved(p, s, d) \in Ways /\ Len(Moved(p, s, d)) = Len(d) + (Len(p) - Len(s))
         /\ \A i \in 1 .. Len(d) : Moved(p, s, d)[i] = d[i]
         /\ \A i \in 1 .. Len(p) - Len(s) : Moved(p, s, d)[Len(d) + i] = p[Len(s) + i]
<1> DEFINE e == SubSeq(p, Len(s) + 1, Len(p))
<1>1. Len(p) \in Nat /\ Len(s) \in Nat /\ Len(d) \in Nat /\ Len(s) <= Len(p)
  BY LengthIs, PrefixIs
<1>2. \A i \in Len(s) + 1 .. Len(p) : p[i] \in Names
  BY <1>1, ElementOfSeq DEF Ways
<1>3. /\ e \in Ways
      /\ Len(e) = IF Len(s) + 1 <= Len(p) THEN Len(p) - (Len(s) + 1) + 1 ELSE 0
      /\ \A i \in 1 .. Len(p) - (Len(s) + 1) + 1 : e[i] = p[Len(s) + 1 + i - 1]
  BY <1>1, <1>2, SubSeqProperties DEF Ways
<1>4. Len(e) = Len(p) - Len(s) /\ \A i \in 1 .. Len(p) - Len(s) : e[i] = p[Len(s) + i]
  BY <1>1, <1>3
<1> HIDE DEF e
<1>5. /\ d \o e \in Ways /\ Len(d \o e) = Len(d) + Len(e)
      /\ \A i \in 1 .. Len(d) + Len(e) : (d \o e)[i] = IF i <= Len(d) THEN d[i] ELSE e[i - Len(d)]
  BY <1>3, ConcatProperties DEF Ways
<1>6. Moved(p, s, d) = d \o e
  BY DEF Moved, e
<1>7. \A i \in 1 .. Len(d) : Moved(p, s, d)[i] = d[i]
  BY <1>1, <1>4, <1>5, <1>6
<1>8. ASSUME NEW i \in 1 .. Len(p) - Len(s) PROVE Moved(p, s, d)[Len(d) + i] = p[Len(s) + i]
  <2>1. Len(d) + i \in 1 .. Len(d) + Len(e) /\ ~(Len(d) + i <= Len(d)) /\ Len(d) + i - Len(d) = i
    BY <1>1, <1>4
  <2>2. QED
    BY <1>4, <1>5, <1>6, <2>1
<1>9. QED
  BY <1>1, <1>4, <1>5, <1>6, <1>7, <1>8

LEMMA MovedBelow ==
  ASSUME NEW s \in Ways, NEW d \in Ways
  PROVE  /\ Moved(s, s, d) = d
         /\ \A p \in Ways : IsPrefix(s, p) => Moved(p, s, d) \in Ways /\ IsPrefix(d, Moved(p, s, d))
         /\ \A p, q \in Ways : /\ IsPrefix(s, p) /\ IsPrefix(s, q)
                               /\ Moved(p, s, d) = Moved(q, s, d)
                               => p = q
<1>1. Len(s) \in Nat /\ Len(d) \in Nat
  BY LengthIs
<1>2. Moved(s, s, d) = d
  <2>1. Moved(s, s, d) \in Ways /\ Len(Moved(s, s, d)) = Len(d) /\ \A i \in 1 .. Len(d) : Moved(s, s, d)[i] = d[i]
    <3>1. IsPrefix(s, s)
      BY PrefixOrder
    <3>2. /\ Moved(s, s, d) \in Ways /\ Len(Moved(s, s, d)) = Len(d) + (Len(s) - Len(s))
          /\ \A i \in 1 .. Len(d) : Moved(s, s, d)[i] = d[i]
      BY <3>1, MovedIs
    <3>3. QED
      BY <1>1, <3>2
  <2>2. QED
    BY <2>1, WayEqual
<1>3. ASSUME NEW p \in Ways, IsPrefix(s, p) PROVE Moved(p, s, d) \in Ways /\ IsPrefix(d, Moved(p, s, d))
  <2>1. /\ Moved(p, s, d) \in Ways /\ Len(Moved(p, s, d)) = Len(d) + (Len(p) - Len(s))
        /\ \A i \in 1 .. Len(d) : Moved(p, s, d)[i] = d[i]
    BY <1>3, MovedIs
  <2>2. Len(s) <= Len(p) /\ Len(p) \in Nat
    BY <1>3, PrefixIs, LengthIs
  <2>3. QED
    BY <1>1, <2>1, <2>2, PrefixIs
<1>4. ASSUME NEW p \in Ways, NEW q \in Ways, IsPrefix(s, p), IsPrefix(s, q),
             Moved(p, s, d) = Moved(q, s, d)
      PROVE  p = q
  <2>1. Len(s) <= Len(p) /\ Len(p) \in Nat /\ \A i \in 1 .. Len(s) : s[i] = p[i]
    BY <1>4, PrefixIs, LengthIs
  <2>2. Len(s) <= Len(q) /\ Len(q) \in Nat /\ \A i \in 1 .. Len(s) : s[i] = q[i]
    BY <1>4, PrefixIs, LengthIs
  <2>3. /\ Len(Moved(p, s, d)) = Len(d) + (Len(p) - Len(s))
        /\ \A i \in 1 .. Len(p) - Len(s) : Moved(p, s, d)[Len(d) + i] = p[Len(s) + i]
    BY <1>4, MovedIs
  <2>4. /\ Len(Moved(q, s, d)) = Len(d) + (Len(q) - Len(s))
        /\ \A i \in 1 .. Len(q) - Len(s) : Moved(q, s, d)[Len(d) + i] = q[Len(s) + i]
    BY <1>4, MovedIs
  <2>5. Len(p) = Len(q)
    BY <1>1, <1>4, <2>1, <2>2, <2>3, <2>4
  <2>6. \A i \in 1 .. Len(p) - Len(s) : p[Len(s) + i] = q[Len(s) + i]
    BY <1>4, <2>3, <2>4, <2>5
  <2>7. ASSUME NEW i \in 1 .. Len(p) PROVE p[i] = q[i]
    <3>1. CASE i <= Len(s)
      BY <1>1, <2>1, <2>2, <3>1
    <3>2. CASE ~(i <= Len(s))
      <4>1. i - Len(s) \in 1 .. Len(p) - Len(s) /\ Len(s) + (i - Len(s)) = i
        BY <1>1, <2>1, <3>2
      <4>2. QED
        BY <2>6, <4>1
    <3>3. QED
      BY <3>1, <3>2
  <2>8. QED
    BY <2>5, <2>7, WayEqual
<1>5. QED
  BY <1>2, <1>3, <1>4

\* On the way to where p goes: the way to where the tree goes, or what p is below.
LEMMA WayToMoved ==
  ASSUME NEW s \in Ways, NEW d \in Ways, NEW p \in Ways, IsPrefix(s, p),
         NEW r \in Ways, IsPrefix(r, Moved(p, s, d))
  PROVE  \/ IsPrefix(r, d) /\ r # d
         \/ \E q \in Ways : IsPrefix(s, q) /\ IsPrefix(q, p) /\ r = Moved(q, s, d)
<1>1. Len(s) \in Nat /\ Len(d) \in Nat /\ Len(p) \in Nat /\ Len(r) \in Nat /\ Len(s) <= Len(p)
  BY LengthIs, PrefixIs
<1>2. /\ Moved(p, s, d) \in Ways /\ IsPrefix(d, Moved(p, s, d))
      /\ Len(Moved(p, s, d)) = Len(d) + (Len(p) - Len(s))
  BY MovedIs, MovedBelow
<1>3. CASE ~(Len(d) <= Len(r))
  BY <1>1, <1>2, <1>3, OnOneWay
<1>4. CASE Len(d) <= Len(r)
  <2>1. Len(r) <= Len(d) + (Len(p) - Len(s))
    BY <1>2, PrefixIs
  <2>2. Len(s) + (Len(r) - Len(d)) \in 0 .. Len(p)
    BY <1>1, <1>4, <2>1
  <2>3. PICK q \in Ways : Len(q) = Len(s) + (Len(r) - Len(d)) /\ IsPrefix(q, p)
    BY <2>2, Cut
  <2>4. IsPrefix(s, q)
    <3>1. Len(s) <= Len(q)
      BY <1>1, <1>4, <2>3
    <3>2. QED
      BY <2>3, <3>1, OnOneWay
  <2>5. IsPrefix(Moved(q, s, d), Moved(p, s, d))
    <3>1. /\ Moved(q, s, d) \in Ways /\ Len(Moved(q, s, d)) = Len(d) + (Len(q) - Len(s))
          /\ \A i \in 1 .. Len(d) : Moved(q, s, d)[i] = d[i]
          /\ \A i \in 1 .. Len(q) - Len(s) : Moved(q, s, d)[Len(d) + i] = q[Len(s) + i]
      BY <2>4, MovedIs
    <3>2. /\ \A i \in 1 .. Len(d) : Moved(p, s, d)[i] = d[i]
          /\ \A i \in 1 .. Len(p) - Len(s) : Moved(p, s, d)[Len(d) + i] = p[Len(s) + i]
      BY MovedIs
    <3>3. Len(q) <= Len(p) /\ Len(q) \in Nat /\ \A i \in 1 .. Len(q) : q[i] = p[i]
      BY <2>3, PrefixIs, LengthIs
    <3>4. Len(Moved(q, s, d)) = Len(r)
      BY <1>1, <2>3, <3>1
    <3>5. ASSUME NEW i \in 1 .. Len(r) PROVE Moved(q, s, d)[i] = Moved(p, s, d)[i]
      <4>1. CASE i <= Len(d)
        BY <1>1, <3>1, <3>2, <4>1
      <4>2. CASE ~(i <= Len(d))
        <5>1. PICK j \in 1 .. Len(q) - Len(s) : i = Len(d) + j
          <6>1. i - Len(d) \in 1 .. Len(q) - Len(s) /\ i = Len(d) + (i - Len(d))
            BY <1>1, <2>3, <4>2
          <6>2. QED
            BY <6>1
        <5>2. j \in 1 .. Len(p) - Len(s) /\ Len(s) + j \in 1 .. Len(q)
          BY <1>1, <3>3
        <5>3. Moved(q, s, d)[i] = q[Len(s) + j] /\ Moved(p, s, d)[i] = p[Len(s) + j]
          BY <3>1, <3>2, <5>1, <5>2
        <5>4. QED
          BY <3>3, <5>2, <5>3
      <4>3. QED
        BY <4>1, <4>2
    <3>6. Len(r) <= Len(Moved(p, s, d))
      BY PrefixIs, <1>2
    <3>7. QED
      BY <1>2, <3>1, <3>4, <3>5, <3>6, PrefixIs
  <2>6. Len(Moved(q, s, d)) = Len(r) /\ Moved(q, s, d) \in Ways
    <3>1. Moved(q, s, d) \in Ways /\ Len(Moved(q, s, d)) = Len(d) + (Len(q) - Len(s))
      BY <2>4, MovedIs
    <3>2. QED
      BY <1>1, <2>3, <3>1
  <2>7. r = Moved(q, s, d)
    BY <1>2, <2>5, <2>6, OnOneWay
  <2>8. QED
    BY <2>3, <2>4, <2>7
<1>5. QED
  BY <1>3, <1>4

LEMMA MovedBack ==
  ASSUME NEW s \in Ways, NEW d \in Ways, NEW p \in Ways, IsPrefix(s, p)
  PROVE  Moved(Moved(p, s, d), d, s) = p
<1> DEFINE m == Moved(p, s, d)
<1>1. Len(s) \in Nat /\ Len(d) \in Nat /\ Len(p) \in Nat /\ Len(s) <= Len(p) /\ \A i \in 1 .. Len(s) : s[i] = p[i]
  BY LengthIs, PrefixIs
<1>2. /\ m \in Ways /\ IsPrefix(d, m) /\ Len(m) = Len(d) + (Len(p) - Len(s))
      /\ \A i \in 1 .. Len(p) - Len(s) : m[Len(d) + i] = p[Len(s) + i]
  <2>1. m \in Ways /\ IsPrefix(d, m)
    BY MovedBelow
  <2>2. /\ Len(m) = Len(d) + (Len(p) - Len(s))
        /\ \A i \in 1 .. Len(p) - Len(s) : m[Len(d) + i] = p[Len(s) + i]
    BY MovedIs
  <2>3. QED
    BY <2>1, <2>2
<1> HIDE DEF m
<1>3. /\ Moved(m, d, s) \in Ways /\ Len(Moved(m, d, s)) = Len(s) + (Len(m) - Len(d))
      /\ \A i \in 1 .. Len(s) : Moved(m, d, s)[i] = s[i]
      /\ \A i \in 1 .. Len(m) - Len(d) : Moved(m, d, s)[Len(s) + i] = m[Len(d) + i]
  BY <1>2, MovedIs
<1>4. Len(Moved(m, d, s)) = Len(p)
  BY <1>1, <1>2, <1>3
<1>5. ASSUME NEW i \in 1 .. Len(p) PROVE Moved(m, d, s)[i] = p[i]
  <2>1. CASE i <= Len(s)
    BY <1>1, <1>3, <2>1
  <2>2. CASE ~(i <= Len(s))
    <3>1. PICK j \in 1 .. Len(p) - Len(s) : i = Len(s) + j
      <4>1. i - Len(s) \in 1 .. Len(p) - Len(s) /\ i = Len(s) + (i - Len(s))
        BY <1>1, <2>2
      <4>2. QED
        BY <4>1
    <3>2. j \in 1 .. Len(m) - Len(d)
      BY <1>1, <1>2
    <3>3. QED
      BY <1>2, <1>3, <3>1, <3>2
  <2>3. QED
    BY <2>1, <2>2
<1>6. Moved(m, d, s) = p
  BY <1>3, <1>4, <1>5, WayEqual
<1>7. QED
  BY <1>6 DEF m

(***************************************************************************)
(* Trees.                                                                  *)
(***************************************************************************)
LEMMA WaysAre ==
  /\ Paths \subseteq Ways /\ Root \notin Paths /\ Arguments \subseteq Paths \cup {Root}
  /\ \A p \in Paths : \A q \in Ways : IsPrefix(q, p) => q \in Paths \cup {Root}
<1>1. Paths \subseteq Ways /\ Root \notin Paths /\ Arguments \subseteq Paths \cup {Root}
  BY TreesAssumption DEF Ways
<1>2. ASSUME NEW p \in Paths, NEW q \in Ways, IsPrefix(q, p) PROVE q \in Paths \cup {Root}
  <2>1. p \in Ways /\ Prefixes(p) \subseteq Paths \cup {Root}
    BY <1>1, TreesAssumption
  <2>2. QED
    BY <1>2, <2>1, PrefixesAre
<1>3. QED
  BY <1>1, <1>2

LEMMA NodesAre ==
  /\ \A n \in Nodes : /\ n.kind \in {"none", "dir", "file", "link"}
                      /\ n.kind = "none" <=> n = Nothing
                      /\ n.kind = "dir" <=> n = Dir
                      /\ n.kind = "link" => n.to \in Paths
  /\ Nothing \in Nodes /\ Dir \in Nodes /\ File(Empty) \in Nodes /\ File(Partial) \in Nodes
  /\ File(Empty) # File(Partial) /\ File(Empty).kind = "file" /\ File(Partial).kind = "file"
  /\ Nothing.kind = "none" /\ Dir.kind = "dir"
<1>1. ASSUME NEW n \in Nodes
      PROVE  /\ n.kind \in {"none", "dir", "file", "link"}
             /\ n.kind = "none" <=> n = Nothing
             /\ n.kind = "dir" <=> n = Dir
             /\ n.kind = "link" => n.to \in Paths
  <2>1. CASE n = Nothing \/ n = Dir
    BY <2>1 DEF Nothing, Dir
  <2>2. CASE \E d : n = File(d)
    BY <2>2 DEF File, Nothing, Dir
  <2>3. CASE \E p \in Paths : n = Link(p)
    BY <2>3 DEF Link, Nothing, Dir
  <2>4. QED
    BY <2>1, <2>2, <2>3 DEF Nodes
<1>2. Nothing \in Nodes /\ Dir \in Nodes /\ File(Empty) \in Nodes /\ File(Partial) \in Nodes
  BY DEF Nodes
<1>3. File(Empty) # File(Partial) /\ File(Empty).kind = "file" /\ File(Partial).kind = "file"
  BY DEF File, Empty, Partial
<1>4. QED
  BY <1>1, <1>2, <1>3 DEF Nothing, Dir

\* A tree that is found: what is there is in directories all the way.
LEMMA TreeIs ==
  ASSUME NEW t \in Trees
  PROVE  /\ t \in AllTrees /\ \A p \in Paths : t[p] # File(Partial)
         /\ \A p \in Paths : t[p] # Nothing =>
              \A q \in Paths : IsPrefix(q, p) /\ q # p => t[q] = Dir
<1>1. t \in [Paths -> Nodes \ {File(Partial)}] /\ WellFormed(t)
  BY TreesAssumption
<1>2. ASSUME NEW p \in Paths, t[p] # Nothing, NEW q \in Paths, IsPrefix(q, p),
             q # p PROVE t[q] = Dir
  <2>1. q \in Prefixes(p) \ {p}
    BY <1>2, PrefixesAre, WaysAre
  <2>2. Kind(t, q) = "dir"
    BY <1>1, <1>2, <2>1 DEF WellFormed
  <2>3. QED
    BY <1>1, <2>2, WaysAre, NodesAre DEF Kind
<1>3. QED
  BY <1>1, <1>2 DEF AllTrees

LEMMA BelowIs ==
  ASSUME NEW t, NEW p
  PROVE  Below(t, p) \subseteq Paths /\ \A q \in Paths : q \in Below(t, p) <=> IsPrefix(p, q) /\ t[q] # Nothing
BY DEF Below

(***************************************************************************)
(* Links.                                                                  *)
(***************************************************************************)
LEMMA ThroughIs ==
  ASSUME NEW t \in AllTrees, NEW p \in Ways
  PROVE  /\ Through(t, p) \in Ways /\ (Through(t, p) = Root => p = Root)
         /\ LinksAbove(t, p) = {} => Through(t, p) = p
<1>1. CASE LinksAbove(t, p) = {}
  BY <1>1 DEF Through
<1>2. CASE LinksAbove(t, p) # {}
  <2>1. PICK q \in LinksAbove(t, p) : q = CHOOSE x \in LinksAbove(t, p) : TRUE
    BY <1>2
  <2>2. q \in Paths /\ q \in Ways /\ t[q].to \in Paths /\ t[q].to \in Ways /\ IsPrefix(q, p)
    BY <2>1, WaysAre, NodesAre DEF LinksAbove, AllTrees, IsStrictPrefix
  <2>3. Through(t, p) = Moved(p, q, t[q].to)
    BY <1>2, <2>1 DEF Through, Moved
  <2>4. Through(t, p) \in Ways /\ IsPrefix(t[q].to, Through(t, p))
    <3>1. PICK l \in Ways : l = t[q].to
      BY <2>2
    <3>2. Moved(p, q, l) \in Ways /\ IsPrefix(l, Moved(p, q, l))
      BY <2>2, MovedBelow
    <3>3. QED
      BY <2>3, <3>1, <3>2
  <2>5. Through(t, p) # Root
    BY <2>2, <2>4, RootIs, WaysAre
  <2>6. QED
    BY <1>2, <2>4, <2>5
<1>3. QED
  BY <1>1, <1>2

LEMMA KindIs ==
  ASSUME NEW t \in AllTrees, NEW p \in Ways
  PROVE  /\ Kind(t, p) # "none" => p \in Paths \cup {Root}
         /\ Kind(t, p) = "link" <=> p \in Paths /\ t[p].kind = "link"
         /\ p \in Paths => Kind(t, p) = t[p].kind
BY WaysAre DEF Kind, Root

LEMMA HopIs ==
  ASSUME NEW t \in AllTrees, NEW p \in Ways
  PROVE  Hop(t, p) \in Ways /\ (~(p \in Paths /\ t[p].kind = "link") => Hop(t, p) = p)
<1>1. CASE p \in Paths /\ t[p].kind = "link"
  <2>1. t[p].to \in Ways
    BY <1>1, NodesAre, WaysAre DEF AllTrees
  <2>2. QED
    BY <1>1, <2>1, KindIs, ThroughIs DEF Hop
<1>2. CASE ~(p \in Paths /\ t[p].kind = "link")
  BY <1>2, KindIs DEF Hop
<1>3. QED
  BY <1>1, <1>2

LEMMA FollowIs ==
  ASSUME NEW t \in AllTrees, NEW p \in Ways
  PROVE  /\ Follow(t, p) \in Ways
         /\ LinksAbove(t, p) = {} /\ ~(p \in Paths /\ t[p].kind = "link") => Follow(t, p) = p
BY ThroughIs, HopIs DEF Follow

\* A way without links.
LEMMA NoLinks ==
  ASSUME NEW t \in AllTrees, NEW p \in Ways
  PROVE  /\ LinksAbove(t, p) = {} <=> \A q \in Paths : IsPrefix(q, p) /\ q # p => t[q].kind # "link"
         /\ (\A q \in Paths : IsPrefix(q, p) => t[q].kind # "link") => Follow(t, p) = p
<1>1. LinksAbove(t, p) = {} <=> \A q \in Paths : IsPrefix(q, p) /\ q # p => t[q].kind # "link"
  BY DEF LinksAbove, IsStrictPrefix
<1>2. IsPrefix(p, p)
  BY PrefixOrder
<1>3. QED
  BY <1>1, <1>2, FollowIs

LEMMA SameThrough ==
  ASSUME NEW t \in AllTrees, NEW u \in AllTrees, SameLinks(t, u)
  PROVE  \A p \in Ways : /\ LinksAbove(t, p) = LinksAbove(u, p)
                         /\ Through(t, p) = Through(u, p) /\ Hop(t, p) = Hop(u, p)
                         /\ Follow(t, p) = Follow(u, p)
<1>1. \A p : LinksAbove(t, p) = LinksAbove(u, p)
  BY DEF SameLinks, LinksAbove
<1>2. ASSUME NEW p PROVE Through(t, p) = Through(u, p)
  <2>1. CASE LinksAbove(t, p) = {}
    BY <1>1, <2>1 DEF Through
  <2>2. CASE LinksAbove(t, p) # {}
    <3>1. PICK q \in LinksAbove(t, p) : q = CHOOSE x \in LinksAbove(t, p) : TRUE
      BY <2>2
    <3>2. t[q] = u[q]
      BY <3>1 DEF SameLinks, LinksAbove
    <3>3. q = CHOOSE x \in LinksAbove(u, p) : TRUE
      BY <1>1, <3>1
    <3>4. Through(t, p) = t[q].to \o SubSeq(p, Len(q) + 1, Len(p))
      BY <2>2, <3>1 DEF Through
    <3>5. Through(u, p) = u[q].to \o SubSeq(p, Len(q) + 1, Len(p))
      BY <1>1, <2>2, <3>3 DEF Through
    <3>6. QED
      BY <3>2, <3>4, <3>5
  <2>3. QED
    BY <2>1, <2>2
<1>3. ASSUME NEW p \in Ways PROVE Hop(t, p) = Hop(u, p)
  <2>1. CASE p \in Paths /\ t[p].kind = "link"
    <3>1. Kind(t, p) = "link" /\ Kind(u, p) = "link" /\ t[p].to = u[p].to
      BY <2>1, KindIs DEF SameLinks
    <3>2. QED
      BY <1>2, <3>1 DEF Hop
  <2>2. CASE ~(p \in Paths /\ t[p].kind = "link")
    <3>1. ~(p \in Paths /\ u[p].kind = "link")
      BY <2>2 DEF SameLinks
    <3>2. QED
      BY <2>2, <3>1, HopIs
  <2>3. QED
    BY <2>1, <2>2
<1>4. ASSUME NEW p \in Ways PROVE Follow(t, p) = Follow(u, p)
  <2>1. Through(t, p) \in Ways /\ Hop(t, Through(t, p)) \in Ways
    BY ThroughIs, HopIs
  <2>2. QED
    BY <1>2, <1>3, <2>1 DEF Follow
<1>5. QED
  BY <1>1, <1>2, <1>3, <1>4

(***************************************************************************)
(* What a call does to a tree.                                             *)
(***************************************************************************)

\* What MkdirAll does: directories where there was nothing.
Grown(t, u, W) ==
  /\ u \in AllTrees
  /\ \A q \in Paths : u[q] = t[q] \/ (t[q] = Nothing /\ u[q] = Dir /\ q \in W)

LEMMA MkdirIs ==
  ASSUME NEW t \in AllTrees, NEW p \in Ways
  PROVE  /\ Grown(t, MkdirAll(t, p), Prefixes(Follow(t, p)))
         /\ SameLinks(t, MkdirAll(t, p))
<1>1. Grown(t, MkdirAll(t, p), Prefixes(Follow(t, p)))
  BY NodesAre DEF MkdirAll, WayTo, Grown, AllTrees
<1>2. SameLinks(t, MkdirAll(t, p))
  BY <1>1 DEF Grown, SameLinks, Nothing, Dir
<1>3. QED
  BY <1>1, <1>2

LEMMA MkdirSomeIs ==
  ASSUME NEW t \in AllTrees, NEW p \in Ways, NEW u \in MkdirSome(t, p)
  PROVE  /\ \E r \in Ways : IsPrefix(r, p) /\ u = MkdirAll(t, r)
         /\ u \in AllTrees /\ \A q \in Paths : u[q] = t[q] \/ (t[q] = Nothing /\ u[q] = Dir)
<1>1. PICK r \in Prefixes(p) : u = MkdirAll(t, r)
  BY DEF MkdirSome
<1>2. r \in Ways /\ IsPrefix(r, p)
  BY PrefixesAre
<1>3. QED
  BY <1>1, <1>2, MkdirIs DEF Grown

LEMMA PutIs ==
  ASSUME NEW t \in AllTrees, NEW p, NEW n \in Nodes
  PROVE  /\ Put(t, p, n) \in AllTrees
         /\ \A q \in Paths : Put(t, p, n)[q] = IF q = p THEN n ELSE t[q]
BY DEF Put, AllTrees

(***************************************************************************)
(* Moves and copies.                                                       *)
(***************************************************************************)
LEMMA PlainIs == Plain <=> PlainFor(start, job.src, job.dst)
BY DEF Plain, PlainFor, PlainAbove, PlainBelow

\* Nothing is below both of two places of which neither is below the other.
LEMMA ApartIs ==
  ASSUME NEW s \in Ways, NEW d \in Ways, Apart(s, d)
  PROVE  \A p \in Ways : ~(IsPrefix(s, p) /\ IsPrefix(d, p))
BY OnOneWay DEF Apart

LEMMA PlainWays ==
  ASSUME NEW o \in AllTrees, NEW s \in Paths \cup {Root}, NEW d \in Paths \cup {Root},
         PlainFor(o, s, d)
  PROVE  /\ s \in Ways /\ d \in Ways /\ s \in Paths /\ d \in Paths
         /\ Through(o, s) = s
         /\ Apart(s, d)
<1>1. s \in Ways /\ d \in Ways
  BY WaysAre, RootIs
<1>2. s # Root /\ d # Root
  BY <1>1, RootIs DEF PlainFor, Apart
<1>3. QED
  BY <1>1, <1>2, ThroughIs DEF PlainFor

\* A copy begins with the tree that was found.
LEMMA CopyingBegins ==
  ASSUME NEW o \in AllTrees, NEW s, NEW d, PlainFor(o, s, d)
  PROVE  Copying(o, o, s, d)
BY DEF PlainFor, Copying

\* The way to where an entry is copied to is free of links, but for the entry itself.
LEMMA FreeWay ==
  ASSUME NEW o \in Trees, NEW t \in AllTrees, NEW s \in Paths, NEW d \in Paths, PlainFor(o, s, d),
         Copying(t, o, s, d),
         NEW p \in Below(o, s) \cup {s}, NEW r \in Paths, IsPrefix(r, Moved(p, s, d)),
         t[r].kind = "link"
  PROVE  r = Moved(p, s, d) /\ o[p].kind = "link"
<1>1. /\ s \in Ways /\ d \in Ways /\ p \in Ways /\ r \in Ways /\ p \in Paths
      /\ IsPrefix(s, p) /\ (p = s \/ o[p] # Nothing)
  BY WaysAre, BelowIs, PrefixOrder
<1>2. ~(IsPrefix(r, d) /\ r # d)
  BY <1>1, NoLinks DEF Copying
<1>3. PICK q \in Ways : IsPrefix(s, q) /\ IsPrefix(q, p) /\ r = Moved(q, s, d)
  BY <1>1, <1>2, WayToMoved
<1>4. IsPrefix(d, r)
  BY <1>1, <1>3, MovedBelow
<1>5. PICK x \in Paths : IsPrefix(s, x) /\ r = Moved(x, s, d) /\ o[x].kind = "link"
  BY <1>4 DEF Copying
<1>6. x = q
  <2>1. x \in Ways
    BY WaysAre
  <2>2. Moved(x, s, d) = Moved(q, s, d)
    BY <1>3, <1>5
  <2>3. \A a, b \in Ways : IsPrefix(s, a) /\ IsPrefix(s, b) /\ Moved(a, s, d) = Moved(b, s, d) => a = b
    BY <1>1, MovedBelow
  <2>4. QED
    BY <1>3, <1>5, <2>1, <2>2, <2>3
<1>7. q = p
  BY <1>1, <1>3, <1>5, <1>6, TreeIs, NodesAre, PrefixOrder
<1>8. QED
  BY <1>3, <1>5, <1>6, <1>7

\* So a call about it is about the place itself.
LEMMA FreeCall ==
  ASSUME NEW o \in Trees, NEW t \in AllTrees, NEW s \in Paths, NEW d \in Paths, PlainFor(o, s, d),
         Copying(t, o, s, d),
         NEW p \in Below(o, s) \cup {s}
  PROVE  /\ Moved(p, s, d) \in Ways /\ Moved(p, s, d) # Root /\ IsPrefix(d, Moved(p, s, d))
         /\ Through(t, Moved(p, s, d)) = Moved(p, s, d)
         /\ o[p].kind # "link" => Follow(t, Moved(p, s, d)) = Moved(p, s, d)
<1>1. p \in Ways /\ IsPrefix(s, p) /\ s \in Ways /\ d \in Ways /\ d # Root
  BY BelowIs, WaysAre, PrefixOrder
<1>2. Moved(p, s, d) \in Ways /\ IsPrefix(d, Moved(p, s, d))
  BY <1>1, MovedBelow
<1>3. Moved(p, s, d) # Root
  BY <1>1, <1>2, RootIs
<1>4. \A r \in Paths : IsPrefix(r, Moved(p, s, d)) /\ t[r].kind = "link" => r = Moved(p, s, d) /\ o[p].kind = "link"
  BY FreeWay
<1>5. LinksAbove(t, Moved(p, s, d)) = {}
  BY <1>2, <1>4, NoLinks
<1>6. Through(t, Moved(p, s, d)) = Moved(p, s, d)
  BY <1>2, <1>5, ThroughIs
<1>7. ASSUME o[p].kind # "link" PROVE Follow(t, Moved(p, s, d)) = Moved(p, s, d)
  <2>1. \A r \in Paths : IsPrefix(r, Moved(p, s, d)) => t[r].kind # "link"
    BY <1>4, <1>7
  <2>2. QED
    BY <1>2, <2>1, NoLinks
<1>8. QED
  BY <1>2, <1>3, <1>6, <1>7

\* Directories made on the way leave the copy and what it is made from as they are.
LEMMA CopyingGrows ==
  ASSUME NEW o \in Trees, NEW t \in AllTrees, NEW s \in Paths, NEW d \in Paths, PlainFor(o, s, d),
         Copying(t, o, s, d),
         NEW p \in Below(o, s) \cup {s}, NEW r \in Ways, IsPrefix(r, Moved(p, s, d)),
         r # Moved(p, s, d) \/ o[p].kind # "link"
  PROVE  /\ MkdirAll(t, r) \in AllTrees
         /\ Copying(MkdirAll(t, r), o, s, d)
         /\ \A q \in Paths : MkdirAll(t, r)[q] = t[q] \/ (t[q] = Nothing /\ MkdirAll(t, r)[q] = Dir)
         /\ r \in Paths /\ t[r] = Nothing => MkdirAll(t, r)[r] = Dir
         /\ \A q \in Below(o, s) : CopiedTo(t, o, s, d, q) => CopiedTo(MkdirAll(t, r), o, s, d, q)
<1>1. /\ s \in Ways /\ d \in Ways /\ p \in Ways /\ IsPrefix(s, p)
      /\ Moved(p, s, d) \in Ways /\ IsPrefix(d, Moved(p, s, d))
  BY WaysAre, BelowIs, FreeCall, PrefixOrder
<1>2. Follow(t, r) = r
  <2>1. \A q \in Paths : IsPrefix(q, r) => t[q].kind # "link"
    <3> SUFFICES ASSUME NEW q \in Paths, IsPrefix(q, r), t[q].kind = "link" PROVE FALSE
      OBVIOUS
    <3>1. q \in Ways /\ IsPrefix(q, Moved(p, s, d))
      BY <1>1, WaysAre, PrefixOrder
    <3>2. q = Moved(p, s, d) /\ o[p].kind = "link"
      BY <3>1, FreeWay
    <3>3. QED
      BY <1>1, <3>1, <3>2, PrefixOrder
  <2>2. QED
    BY <2>1, NoLinks
<1> DEFINE u == MkdirAll(t, r)
<1>3. Grown(t, u, Prefixes(r)) /\ SameLinks(t, u)
  BY <1>2, MkdirIs
<1>4. r \in Paths /\ t[r] = Nothing => u[r] = Dir
  <2>1. r \in Paths => r \in WayTo(t, r)
    BY <1>2, PrefixesAre, PrefixOrder, WaysAre DEF WayTo
  <2>2. QED
    BY <2>1 DEF MkdirAll
<1> HIDE DEF u
<1>5. u \in AllTrees /\ \A q \in Paths : u[q] = t[q] \/ (t[q] = Nothing /\ u[q] = Dir)
  BY <1>3 DEF Grown
<1>6. Copying(u, o, s, d)
  <2>1. ASSUME NEW q \in Paths, IsPrefix(s, q) PROVE u[q] = o[q]
    <3>1. q \notin Prefixes(r)
      <4> SUFFICES ASSUME q \in Prefixes(r) PROVE FALSE
        OBVIOUS
      <4>1. q \in Ways /\ IsPrefix(q, Moved(p, s, d))
        BY <1>1, PrefixesAre, PrefixOrder
      <4>2. IsPrefix(s, Moved(p, s, d))
        BY <1>1, <2>1, <4>1, PrefixOrder
      <4>3. QED
        BY <1>1, <4>2, ApartIs DEF PlainFor
    <3>2. QED
      BY <1>3, <2>1, <3>1 DEF Grown, Copying
  <2>2. LinksAbove(u, s) = {} /\ LinksAbove(u, d) = {}
    BY <1>1, <1>3, <1>5, SameThrough DEF Copying
  <2>3. \A q \in Paths : u[q].kind = "link" => t[q].kind = "link"
    BY <1>3 DEF SameLinks
  <2>4. QED
    BY <2>1, <2>2, <2>3 DEF Copying
<1>7. ASSUME NEW q \in Below(o, s), CopiedTo(t, o, s, d, q) PROVE CopiedTo(u, o, s, d, q)
  BY <1>5, <1>7, BelowIs DEF CopiedTo
<1>8. QED
  BY <1>4, <1>5, <1>6, <1>7 DEF u

\* Neither does what is put where an entry is copied to.
LEMMA CopyingPuts ==
  ASSUME NEW o \in Trees, NEW t \in AllTrees, NEW s \in Paths, NEW d \in Paths, PlainFor(o, s, d),
         Copying(t, o, s, d),
         NEW p \in Below(o, s), Moved(p, s, d) \in Paths, NEW n \in Nodes,
         n.kind = "link" => o[p].kind = "link"
  PROVE  /\ Put(t, Moved(p, s, d), n) \in AllTrees
         /\ Copying(Put(t, Moved(p, s, d), n), o, s, d)
         /\ Put(t, Moved(p, s, d), n)[Moved(p, s, d)] = n
         /\ \A q \in Paths : q # Moved(p, s, d) => Put(t, Moved(p, s, d), n)[q] = t[q]
         /\ \A q \in Below(o, s) : q # p /\ CopiedTo(t, o, s, d, q) => CopiedTo(Put(t, Moved(p, s, d), n), o, s, d, q)
<1>1. /\ s \in Ways /\ d \in Ways /\ p \in Ways /\ p \in Paths /\ IsPrefix(s, p)
      /\ Moved(p, s, d) \in Ways /\ IsPrefix(d, Moved(p, s, d))
  BY WaysAre, BelowIs, FreeCall
<1>2. PICK m \in Paths : m = Moved(p, s, d)
  OBVIOUS
<1>3. PICK u \in AllTrees : u = Put(t, m, n)
  BY PutIs
<1>4. \A q \in Paths : u[q] = IF q = m THEN n ELSE t[q]
  BY <1>3, PutIs
<1>5. m \in Ways /\ IsPrefix(d, m)
  BY <1>1, <1>2
<1>6. Copying(u, o, s, d)
  <2>1. ~IsPrefix(s, m) /\ ~IsPrefix(m, s) /\ (IsPrefix(m, d) => m = d)
    <3>1. ~IsPrefix(s, m)
      BY <1>1, <1>5, ApartIs DEF PlainFor
    <3>2. ~IsPrefix(m, s)
      BY <1>1, <1>5, PrefixOrder DEF PlainFor, Apart
    <3>3. QED
      BY <1>1, <1>5, <3>1, <3>2, PrefixOrder
  <2>2. \A q \in Paths : IsPrefix(s, q) => u[q] = o[q]
    BY <1>4, <2>1 DEF Copying
  <2>3. LinksAbove(u, s) = {} /\ LinksAbove(u, d) = {}
    <3>1. \A q \in Paths : IsPrefix(q, s) /\ q # s => u[q].kind # "link"
      BY <1>1, <1>4, <2>1, NoLinks DEF Copying
    <3>2. \A q \in Paths : IsPrefix(q, d) /\ q # d => u[q].kind # "link"
      BY <1>1, <1>4, <2>1, NoLinks DEF Copying
    <3>3. QED
      BY <1>1, <3>1, <3>2, NoLinks
  <2>4. ASSUME NEW q \in Paths, IsPrefix(d, q), u[q].kind = "link"
        PROVE  \E x \in Paths : IsPrefix(s, x) /\ q = Moved(x, s, d) /\ o[x].kind = "link"
    <3>1. CASE q = m
      BY <1>1, <1>2, <1>4, <2>4, <3>1
    <3>2. CASE q # m
      BY <1>4, <2>4, <3>2 DEF Copying
    <3>3. QED
      BY <3>1, <3>2
  <2>5. QED
    BY <2>2, <2>3, <2>4 DEF Copying
<1>7. ASSUME NEW q \in Below(o, s), q # p, CopiedTo(t, o, s, d, q) PROVE CopiedTo(u, o, s, d, q)
  <2>1. q \in Ways /\ IsPrefix(s, q)
    BY WaysAre, BelowIs
  <2>2. Moved(q, s, d) # m
    BY <1>1, <1>2, <1>7, <2>1, MovedBelow
  <2>3. QED
    BY <1>4, <1>7, <2>2 DEF CopiedTo
<1>8. QED
  BY <1>2, <1>3, <1>4, <1>6, <1>7

\* One field of a job after the other.
SameRequest(k, j) == k.op = j.op /\ k.src = j.src /\ k.dst = j.dst /\ k.content = j.content /\ k.answer = j.answer /\ k.pc = j.pc

LEMMA SetTemp ==
  ASSUME NEW j \in Jobs, NEW b \in BOOLEAN
  PROVE  /\ [j EXCEPT !.temp = b] \in Jobs /\ SameRequest([j EXCEPT !.temp = b], j)
         /\ [j EXCEPT !.temp = b].temp = b /\ [j EXCEPT !.temp = b].stuck = j.stuck
BY DEF Jobs, SameRequest

LEMMA SetStuck ==
  ASSUME NEW j \in Jobs
  PROVE  /\ [j EXCEPT !.stuck = TRUE] \in Jobs /\ SameRequest([j EXCEPT !.stuck = TRUE], j)
         /\ [j EXCEPT !.stuck = TRUE].stuck = TRUE
BY DEF Jobs, SameRequest

LEMMA SetCur ==
  ASSUME NEW j \in Jobs, NEW p \in Ways
  PROVE  /\ [j EXCEPT !.cur = p] \in Jobs /\ SameRequest([j EXCEPT !.cur = p], j)
         /\ [j EXCEPT !.cur = p].cur = p
BY DEF Jobs, SameRequest, Ways

LEMMA SetTodo ==
  ASSUME NEW j \in Jobs, NEW todo \in SUBSET (Paths \cup {Root})
  PROVE  /\ [j EXCEPT !.todo = todo] \in Jobs /\ SameRequest([j EXCEPT !.todo = todo], j)
         /\ [j EXCEPT !.todo = todo].todo = todo /\ [j EXCEPT !.todo = todo].cur = j.cur
BY DEF Jobs, SameRequest

LEMMA SetDst ==
  ASSUME NEW j \in Jobs, NEW p \in Paths \cup {Root}
  PROVE  /\ [j EXCEPT !.dst = p] \in Jobs /\ [j EXCEPT !.dst = p].dst = p
         /\ [j EXCEPT !.dst = p].op = j.op /\ [j EXCEPT !.dst = p].src = j.src
         /\ [j EXCEPT !.dst = p].temp = j.temp /\ [j EXCEPT !.dst = p].stuck = j.stuck
         /\ [j EXCEPT !.dst = p].answer = j.answer /\ [j EXCEPT !.dst = p].content = j.content
BY DEF Jobs

(***************************************************************************)
(* The ends of an operation.                                               *)
(***************************************************************************)
LEMMA EndIs ==
  ASSUME NEW j \in Jobs, NEW a \in {"ok", "error"}, End(j, a)
  PROVE  /\ job' \in Jobs /\ job'.pc = "ended" /\ job'.answer = a
         /\ job'.op = j.op /\ job'.src = j.src /\ job'.dst = j.dst /\ job'.todo = j.todo
         /\ job'.cur = j.cur
         /\ job'.temp = j.temp /\ job'.stuck = j.stuck /\ job'.content = j.content
         /\ job'.found = j.found /\ job'.skipped = j.skipped
BY DEF Jobs, End

LEMMA GoIs ==
  ASSUME NEW j \in Jobs, NEW pc \in {"replace", "walk", "remove", "search", "crashed"}, Go(j, pc)
  PROVE  /\ job' \in Jobs /\ job'.pc = pc /\ job'.answer = j.answer
         /\ job'.op = j.op /\ job'.src = j.src /\ job'.dst = j.dst /\ job'.todo = j.todo
         /\ job'.cur = j.cur
         /\ job'.temp = j.temp /\ job'.stuck = j.stuck /\ job'.content = j.content
         /\ job'.found = j.found /\ job'.skipped = j.skipped
BY DEF Jobs, Go

LEMMA AskedIs ==
  ASSUME NEW op \in ops, NEW p \in Paths \cup {Root}
  PROVE  /\ Asked(op, p) \in Jobs /\ Asked(op, p).op = op /\ Asked(op, p).src = p
         /\ ~Asked(op, p).temp /\ ~Asked(op, p).stuck /\ ~Asked(op, p).content
         /\ Asked(op, p).pc = "idle" /\ Asked(op, p).answer = "none"
         /\ Asked(op, p).found = {} /\ Asked(op, p).skipped = {} /\ Asked(op, p).todo = {}
<1>1. Root \in Seq(Names)
  BY RootIs DEF Ways
<1>2. QED
  BY <1>1 DEF Asked, NoJob, Jobs

LEMMA Ends ==
  ASSUME start \in Trees, start' = start, tree' \in AllTrees,
         NEW j \in Jobs, NEW a \in {"ok", "error"}, End(j, a),
         j.op \in {"move", "copy"} /\ PlainFor(start, j.src, j.dst) =>
           \A p \in Below(start, j.src) :
             tree'[p] = start[p] \/ (j.op = "move" /\ CopiedTo(tree', start, j.src, j.dst, p)),
         ~j.stuck /\ (j.op \in {"move", "copy"} => PlainFor(start, j.src, j.dst)) => ~j.temp /\ NoPartial(tree'),
         a = "ok" => Done(j.op)'
  PROVE  FileInv'
<1>1. /\ job' \in Jobs /\ job'.pc = "ended" /\ job'.answer = a
      /\ job'.op = j.op /\ job'.src = j.src /\ job'.dst = j.dst /\ job'.temp = j.temp
      /\ job'.stuck = j.stuck
  BY EndIs
<1>2. Plain' <=> PlainFor(start, j.src, j.dst)
  BY <1>1 DEF Plain, PlainAbove, PlainBelow, PlainFor
<1>3. NothingLost'
  BY <1>1, <1>2 DEF NothingLost, CopiedTo
<1>4. AnswerTells'
  <2>1. (job.answer = "ok" => Done(job.op))'
    BY <1>1
  <2>2. (job.answer # "none" /\ ~job.stuck /\ (job.op \in {"move", "copy"} => Plain) =>
           ~job.temp /\ \A p \in Paths : tree[p] # File(Partial))'
    BY <1>1, <1>2 DEF NoPartial
  <2>3. QED
    BY <2>1, <2>2 DEF AnswerTells
<1>5. TypeOK' /\ (start \in Trees)'
  BY <1>1, TreeIs DEF TypeOK, AllTrees
<1>6. QED
  BY <1>1, <1>3, <1>4, <1>5 DEF FileInv

\* An operation that fails without having copied or moved anything.
LEMMA Fails ==
  ASSUME start \in Trees, start' = start, tree' \in AllTrees, NEW j \in Jobs, End(j, "error"),
         j.stuck \/ (~j.temp /\ NoPartial(tree')),
         j.op \in {"move", "copy"} /\ PlainFor(start, j.src, j.dst) =>
           \A p \in Below(start, j.src) : tree'[p] = start[p]
  PROVE  FileInv'
BY Ends

\* What MkdirAll has made when it fails is not below the source.
LEMMA SomeKeeps ==
  ASSUME NEW t \in AllTrees, NEW p \in Ways, NEW u \in MkdirSome(t, p)
  PROVE  /\ u \in AllTrees
         /\ NoPartial(t) => NoPartial(u)
         /\ \A q \in Paths : t[q] # Nothing => u[q] = t[q]
BY MkdirSomeIs, NodesAre DEF NoPartial

LEMMA GrownKeeps ==
  ASSUME NEW t \in AllTrees, NEW p \in Ways
  PROVE  /\ MkdirAll(t, p) \in AllTrees
         /\ NoPartial(t) => NoPartial(MkdirAll(t, p))
         /\ \A q \in Paths : t[q] # Nothing => MkdirAll(t, p)[q] = t[q]
BY MkdirIs, NodesAre DEF NoPartial, Grown

LEMMA IdleIs ==
  ASSUME FileInv, job.pc = "idle"
  PROVE  tree = start /\ start \in Trees /\ tree \in AllTrees /\ NoPartial(tree)
BY TreeIs DEF FileInv, NoPartial

LEMMA InitHolds == Init => FileInv
<1> SUFFICES ASSUME Init PROVE FileInv
  OBVIOUS
<1>1. tree \in Trees /\ start = tree /\ job = NoJob
  BY DEF Init
<1>2. Root \in Seq(Names)
  BY RootIs DEF Ways
<1>3. job \in Jobs /\ job.pc = "idle" /\ job.answer = "none" /\ ~job.temp
  BY <1>1, <1>2 DEF NoJob, Jobs
<1>4. TypeOK
  BY <1>1, <1>3, TreeIs DEF TypeOK, AllTrees
<1>5. QED
  BY <1>1, <1>3, <1>4 DEF FileInv

(***************************************************************************)
(* The operations that end at once.                                        *)
(***************************************************************************)
LEMMA RejectedKeeps ==
  ASSUME FileInv, NEW p \in Arguments, NEW op \in ops, Rejected(op, p)
  PROVE  FileInv'
<1>1. Asked(op, p) \in Jobs /\ ~Asked(op, p).temp
  <2>1. p \in Paths \cup {Root}
    BY WaysAre
  <2>2. Asked(op, p) \in Jobs
    BY <2>1, AskedIs
  <2>3. ~Asked(op, p).temp
    BY <2>1, AskedIs
  <2>4. QED
    BY <2>2, <2>3
<1>2. End(Asked(op, p), "error") /\ tree' = tree /\ start' = start /\ job.pc = "idle"
  BY DEF Rejected, Refuse
<1>3. tree = start /\ start \in Trees /\ tree \in AllTrees /\ NoPartial(tree)
  BY <1>2, IdleIs
<1>4. \A q \in Below(start, Asked(op, p).src) : tree'[q] = start[q]
  BY <1>2, <1>3
<1>5. QED
  BY <1>1, <1>2, <1>3, <1>4, Fails

\* Those that leave the tree alone.
LEMMA LooksKeep ==
  ASSUME FileInv, NEW p \in Arguments, listFiles(p) \/ statFile(p) \/ changeAttribute(p)
  PROVE  FileInv'
<1>1. PICK op \in {"list", "stat", "attribute"}, a \in {"ok", "error"} :
        End(Asked(op, p), a) /\ tree' = tree /\ start' = start /\ job.pc = "idle"
  BY DEF listFiles, statFile, changeAttribute
<1>2. /\ Asked(op, p) \in Jobs /\ ~Asked(op, p).temp /\ Asked(op, p).op = op
  <2>1. p \in Paths \cup {Root} /\ op \in ops
    BY WaysAre DEF ops
  <2>2. QED
    BY <2>1, AskedIs
<1>3. tree = start /\ start \in Trees /\ tree \in AllTrees /\ NoPartial(tree)
  BY <1>1, IdleIs
<1>4. Done(op)'
  BY <1>1, <1>3 DEF Done
<1>5. QED
  BY <1>1, <1>2, <1>3, <1>4, Ends

LEMMA MkdirKeeps ==
  ASSUME FileInv, NEW p \in Arguments, mkdir(p)
  PROVE  FileInv'
<1> DEFINE j == Asked("mkdir", p)
<1>1. /\ j \in Jobs /\ ~j.temp /\ j.op = "mkdir" /\ j.src = p
  <2>1. p \in Paths \cup {Root} /\ "mkdir" \in ops
    BY WaysAre DEF ops
  <2>2. QED
    BY <2>1, AskedIs
<1>2. start' = start /\ job.pc = "idle" /\ p \in Ways
  BY WaysAre, RootIs DEF mkdir
<1>3. tree = start /\ start \in Trees /\ tree \in AllTrees /\ NoPartial(tree)
  BY <1>2, IdleIs
<1>4. CASE CanMkdirAll(tree, p) /\ tree' = MkdirAll(tree, p) /\ End(j, "ok")
  <2>1. tree' \in AllTrees /\ NoPartial(tree')
    BY <1>2, <1>3, <1>4, GrownKeeps
  <2>2. PICK f \in Ways : f = Follow(tree, p)
    BY <1>2, <1>3, FollowIs
  <2>3. Follow(tree', p) = f
    BY <1>2, <1>3, <1>4, <2>1, <2>2, MkdirIs, SameThrough
  <2>4. Kind(tree', f) = "dir"
    <3>1. CASE f = Root
      BY <3>1 DEF Kind
    <3>2. CASE f # Root
      <4>1. f \in WayTo(tree, p)
        BY <2>2, <3>2, PrefixesAre, PrefixOrder DEF WayTo
      <4>2. f \in Paths /\ tree[f].kind \in {"none", "dir"}
        BY <1>4, <4>1 DEF CanMkdirAll
      <4>3. tree'[f] = Dir
        BY <1>3, <1>4, <4>1, <4>2, NodesAre DEF MkdirAll, AllTrees
      <4>4. QED
        BY <2>1, <2>2, <4>2, <4>3, KindIs, NodesAre
    <3>3. QED
      BY <3>1, <3>2
  <2>5. Done("mkdir")'
    <3>1. job'.src = p
      BY <1>1, <1>4, EndIs
    <3>2. QED
      BY <2>3, <2>4, <3>1 DEF Done
  <2>6. QED
    BY <1>1, <1>2, <1>3, <1>4, <2>1, <2>5, Ends
<1>5. CASE FailMaking(j, p)
  <2>1. tree' \in MkdirSome(tree, p) /\ End(j, "error")
    BY <1>5 DEF FailMaking
  <2>2. tree' \in AllTrees /\ NoPartial(tree')
    BY <1>2, <1>3, <2>1, SomeKeeps
  <2>3. QED
    BY <1>1, <1>2, <1>3, <2>1, <2>2, Fails
<1>6. QED
  BY <1>4, <1>5 DEF mkdir

LEMMA ParentWay == \A p \in Ways : Parent(p) \in Ways
BY ParentIs DEF Parent

LEMMA ArgumentWay == \A p \in Arguments : p \in Paths \cup {Root} /\ p \in Ways
BY WaysAre, RootIs

\* An operation that has not ended: only what its step is to keep.
LEMMA GoesOn ==
  ASSUME FileInv, start' = start, start \in Trees, tree' \in AllTrees,
         job' \in Jobs, job'.pc \in {"replace", "walk", "write", "remove", "search"}, job'.answer = "none",
         job'.temp => job'.pc = "replace",
         job'.pc = "write" => job'.cur \in Paths,
         job'.pc \in {"walk", "write"} => job'.op \in {"move", "copy"} /\ job'.todo \subseteq Paths,
         job'.pc \in {"walk", "write"} /\ PlainFor(start, job'.src, job'.dst) => CopyInv',
         job'.pc = "replace" => ReplaceInv',
         job'.pc = "remove" => RemoveInv',
         job'.pc = "search" => SearchInv'
  PROVE  FileInv'
<1>1. TypeOK'
  BY TreeIs DEF TypeOK, AllTrees
<1>2. Plain' <=> PlainFor(start, job'.src, job'.dst)
  BY DEF Plain, PlainAbove, PlainBelow, PlainFor
<1>3. QED
  BY <1>1, <1>2 DEF FileInv

LEMMA CreateKeeps ==
  ASSUME FileInv, NEW p \in Arguments, createFile(p)
  PROVE  FileInv'
<1> DEFINE j == Asked("create", p)
<1>1. /\ j \in Jobs /\ ~j.temp /\ j.op = "create" /\ j.src = p /\ j.answer = "none"
  BY ArgumentWay, AskedIs DEF ops
<1>2. start' = start /\ job.pc = "idle" /\ Parent(p) \in Ways
  BY ArgumentWay, ParentWay DEF createFile
<1>3. tree = start /\ start \in Trees /\ tree \in AllTrees /\ NoPartial(tree)
  BY <1>2, IdleIs
<1>4. CASE tree' = MkdirAll(tree, Parent(p)) /\ Go([j EXCEPT !.temp = TRUE], "replace")
  <2>1. tree' \in AllTrees /\ NoPartial(tree') /\ SameLinks(start, tree')
    <3>1. PICK r \in Ways : r = Parent(p)
      BY <1>2
    <3>2. tree' = MkdirAll(tree, r)
      BY <1>4, <3>1
    <3>3. tree' \in AllTrees /\ NoPartial(tree')
      BY <1>3, <3>2, GrownKeeps
    <3>4. SameLinks(tree, tree')
      BY <1>3, <3>2, MkdirIs
    <3>5. QED
      BY <1>3, <3>3, <3>4
  <2>2. PICK k \in Jobs : k = [j EXCEPT !.temp = TRUE] /\ k.op = "create" /\ k.answer = "none"
    <3>1. [j EXCEPT !.temp = TRUE] \in Jobs /\ SameRequest([j EXCEPT !.temp = TRUE], j)
      BY <1>1, SetTemp
    <3>2. QED
      BY <1>1, <3>1 DEF SameRequest
  <2>3. job' \in Jobs /\ job'.pc = "replace" /\ job'.answer = "none" /\ job'.op = "create"
    BY <1>4, <2>2, GoIs
  <2>4. ReplaceInv'
    BY <1>2, <2>1, <2>3 DEF ReplaceInv
  <2>5. QED
    BY <1>2, <1>3, <2>1, <2>3, <2>4, GoesOn
<1>5. CASE FailMaking(j, Parent(p))
  <2>1. tree' \in MkdirSome(tree, Parent(p)) /\ End(j, "error")
    BY <1>5 DEF FailMaking
  <2>2. tree' \in AllTrees /\ NoPartial(tree')
    BY <1>2, <1>3, <2>1, SomeKeeps
  <2>3. QED
    BY <1>1, <1>2, <1>3, <2>1, <2>2, Fails
<1>6. CASE Refuse(j)
  <2>1. tree' = tree /\ End(j, "error")
    BY <1>6 DEF Refuse
  <2>2. QED
    BY <1>1, <1>2, <1>3, <2>1, Fails
<1>7. QED
  BY <1>4, <1>5, <1>6 DEF createFile

LEMMA ReplaceKeeps ==
  ASSUME FileInv, ReplaceFile
  PROVE  FileInv'
<1>1. /\ start' = start /\ job.pc = "replace" /\ job \in Jobs /\ start \in Trees /\ job.src \in Ways
      /\ tree \in AllTrees /\ start \in AllTrees
  BY WaysAre, RootIs DEF ReplaceFile, FileInv, TypeOK, Jobs, AllTrees
<1>2. job.op = "create" /\ SameLinks(start, tree) /\ NoPartial(tree)
  BY <1>1 DEF FileInv, ReplaceInv
<1>3. PICK k \in Jobs : k = [job EXCEPT !.temp = FALSE] /\ k.op = "create" /\ ~k.temp /\ k.src = job.src
  <2>1. [job EXCEPT !.temp = FALSE] \in Jobs /\ SameRequest([job EXCEPT !.temp = FALSE], job)
    BY <1>1, SetTemp
  <2>2. ~[job EXCEPT !.temp = FALSE].temp
    BY <1>1 DEF Jobs
  <2>3. QED
    BY <1>2, <2>1, <2>2 DEF SameRequest
<1>4. PICK l \in Jobs : l = [job EXCEPT !.stuck = TRUE] /\ l.op = "create" /\ l.stuck
  BY <1>1, <1>2, SetStuck DEF SameRequest
<1>5. CASE \E p \in Paths, a \in {"ok", "error"} :
             p = Through(tree, job.src) /\ tree' = Put(tree, p, File(Empty)) /\ End(k, a)
  <2>1. PICK p \in Paths, a \in {"ok", "error"} :
          p = Through(tree, job.src) /\ tree' = Put(tree, p, File(Empty)) /\ End(k, a)
    BY <1>5
  <2>2. /\ tree' \in AllTrees /\ \A q \in Paths : tree'[q] = IF q = p THEN File(Empty) ELSE tree[q]
    BY <1>1, <2>1, PutIs, NodesAre
  <2>3. NoPartial(tree')
    BY <1>2, <2>2, NodesAre DEF NoPartial
  <2>4. p = Through(start, job.src)
    BY <1>1, <1>2, <2>1, SameThrough
  <2>5. Done("create")'
    <3>1. job'.src = job.src
      BY <1>3, <2>1, EndIs
    <3>2. QED
      BY <1>1, <2>2, <2>4, <3>1 DEF Done
  <2>6. QED
    BY <1>1, <1>3, <2>1, <2>2, <2>3, <2>5, Ends
<1>6. CASE Refuse(k)
  <2>1. tree' = tree /\ End(k, "error")
    BY <1>6 DEF Refuse
  <2>2. QED
    BY <1>1, <1>2, <1>3, <2>1, Fails
<1>7. CASE Refuse(l)
  <2>1. tree' = tree /\ End(l, "error")
    BY <1>7 DEF Refuse
  <2>2. QED
    BY <1>1, <1>2, <1>4, <2>1, Fails
<1>8. QED
  BY <1>3, <1>4, <1>5, <1>6, <1>7 DEF ReplaceFile

LEMMA DeleteKeeps ==
  ASSUME FileInv, NEW p \in Arguments, deletePath(p)
  PROVE  FileInv'
<1> DEFINE j == Asked("delete", p)
<1>1. /\ j \in Jobs /\ ~j.temp /\ j.op = "delete" /\ j.src = p /\ j.answer = "none"
  BY ArgumentWay, AskedIs DEF ops
<1>2. start' = start /\ job.pc = "idle" /\ tree' = tree /\ p \in Ways
  BY ArgumentWay DEF deletePath, Refuse
<1>3. tree = start /\ start \in Trees /\ tree \in AllTrees /\ NoPartial(tree)
  BY <1>2, IdleIs
<1>4. CASE Go([j EXCEPT !.cur = Through(tree, p)], "remove")
  <2>1. PICK k \in Jobs : /\ k = [j EXCEPT !.cur = Through(tree, p)]
                          /\ k.op = "delete" /\ k.answer = "none" /\ k.src = p
                          /\ k.cur = Through(tree, p)
                          /\ ~k.temp
    <3>1. PICK b \in Ways : b = Through(tree, p)
      BY <1>2, <1>3, ThroughIs
    <3>2. /\ [j EXCEPT !.cur = b] \in Jobs /\ SameRequest([j EXCEPT !.cur = b], j)
          /\ [j EXCEPT !.cur = b].cur = b /\ ([j EXCEPT !.cur = b].temp <=> j.temp)
      BY <1>1, SetCur
    <3>3. QED
      BY <1>1, <3>1, <3>2 DEF SameRequest
  <2>2. /\ job' \in Jobs /\ job'.pc = "remove" /\ job'.answer = "none" /\ job'.op = "delete"
        /\ job'.src = p /\ job'.cur = Through(tree, p) /\ ~job'.temp
    BY <1>4, <2>1, GoIs
  <2>3. RemoveInv'
    BY <1>2, <1>3, <2>2 DEF RemoveInv
  <2>4. QED
    BY <1>2, <1>3, <2>2, <2>3, GoesOn
<1>5. CASE Refuse(j)
  <2>1. End(j, "error")
    BY <1>5 DEF Refuse
  <2>2. QED
    BY <1>1, <1>2, <1>3, <2>1, Fails
<1>6. QED
  BY <1>4, <1>5 DEF deletePath

LEMMA RemoveKeeps ==
  ASSUME FileInv, RemoveEntry
  PROVE  FileInv'
<1>1. /\ start' = start /\ job.pc = "remove" /\ job \in Jobs /\ start \in Trees /\ job.cur \in Ways
      /\ tree \in AllTrees /\ start \in AllTrees
  BY DEF RemoveEntry, FileInv, TypeOK, Jobs, AllTrees, Ways
<1>2. RemoveInv /\ job.answer = "none" /\ ~job.temp
  BY <1>1 DEF FileInv
<1>3. job.op \in {"delete", "move"}
  BY <1>2 DEF RemoveInv
<1>4. job.op = "move" /\ PlainFor(start, job.src, job.dst) =>
        /\ job.cur = job.src /\ NoPartial(tree)
        /\ \A q \in Below(start, job.src) : CopiedTo(tree, start, job.src, job.dst, q)
  BY <1>2, PlainIs DEF RemoveInv
<1>5. job.op = "delete" => job.cur = Through(start, job.src) /\ NoPartial(tree)
  BY <1>2 DEF RemoveInv
<1>6. ASSUME job.op = "move", PlainFor(start, job.src, job.dst)
      PROVE  /\ job.src \in Paths /\ job.dst \in Paths /\ job.src \in Ways /\ job.dst \in Ways
             /\ Apart(job.src, job.dst)
  BY <1>1, <1>6, PlainWays DEF Jobs
<1>7. CASE Below(tree, job.cur) = {} /\ End(job, "ok") /\ UNCHANGED tree
  <2>1. PICK j \in Jobs : j = job
    BY <1>1
  <2>2. End(j, "ok") /\ tree' = tree
    BY <1>7, <2>1
  <2>3. job'.src = j.src /\ job'.dst = j.dst /\ job'.op = j.op
    BY <2>2, EndIs
  <2>4. Plain' <=> PlainFor(start, j.src, j.dst)
    BY <1>1, <2>3 DEF Plain, PlainAbove, PlainBelow, PlainFor
  <2>5. Done(j.op)'
    <3>1. CASE j.op = "delete"
      <4>1. Below(tree', Through(start', job'.src)) = {}
        BY <1>1, <1>5, <1>7, <2>1, <2>3, <3>1
      <4>2. QED
        BY <3>1, <4>1 DEF Done
    <3>2. CASE j.op = "move"
      <4>1. PlainFor(start, j.src, j.dst) =>
              /\ Below(tree', job'.src) = {}
              /\ \A p \in Below(start', job'.src) : tree'[Moved(p, job'.src, job'.dst)] = start'[p]
        BY <1>1, <1>4, <1>7, <2>1, <2>3, <3>2 DEF CopiedTo
      <4>2. QED
        BY <2>4, <3>2, <4>1 DEF Done
    <3>3. QED
      BY <1>3, <2>1, <3>1, <3>2
  <2>6. /\ ~j.stuck /\ (j.op \in {"move", "copy"} => PlainFor(start, j.src, j.dst)) => ~j.temp /\ NoPartial(tree')
        /\ j.op \in {"move", "copy"} /\ PlainFor(start, j.src, j.dst) =>
             \A p \in Below(start, j.src) :
               tree'[p] = start[p] \/ (j.op = "move" /\ CopiedTo(tree', start, j.src, j.dst, p))
    BY <1>2, <1>3, <1>4, <1>5, <2>1, <2>2
  <2>7. QED
    BY <1>1, <2>2, <2>5, <2>6, Ends
<1>8. CASE Below(tree, job.cur) # {} /\ Refuse(job)
  <2>1. tree' = tree /\ End(job, "error")
    BY <1>8 DEF Refuse
  <2>2. ~job.stuck /\ (job.op \in {"move", "copy"} => PlainFor(start, job.src, job.dst)) => NoPartial(tree')
    BY <1>3, <1>4, <1>5, <2>1
  <2>3. job.op \in {"move", "copy"} /\ PlainFor(start, job.src, job.dst) =>
          \A p \in Below(start, job.src) : job.op = "move" /\ CopiedTo(tree', start, job.src, job.dst, p)
    BY <1>3, <1>4, <2>1
  <2>4. tree' \in AllTrees
    BY <1>1, <2>1
  <2>5. /\ ~job.stuck /\ (job.op \in {"move", "copy"} => PlainFor(start, job.src, job.dst)) => ~job.temp /\ NoPartial(tree')
        /\ job.op \in {"move", "copy"} /\ PlainFor(start, job.src, job.dst) =>
             \A p \in Below(start, job.src) :
               tree'[p] = start[p] \/ (job.op = "move" /\ CopiedTo(tree', start, job.src, job.dst, p))
    BY <1>2, <2>2, <2>3
  <2>6. QED
    BY <1>1, <2>1, <2>4, <2>5, Ends
<1>9. CASE \E p \in Below(tree, job.cur) : tree' = Put(tree, p, Nothing) /\ UNCHANGED job
  <2>1. PICK p \in Below(tree, job.cur) : tree' = Put(tree, p, Nothing) /\ UNCHANGED job
    BY <1>9
  <2>2. /\ p \in Paths /\ p \in Ways /\ IsPrefix(job.cur, p)
        /\ tree' \in AllTrees /\ \A q \in Paths : tree'[q] = IF q = p THEN Nothing ELSE tree[q]
    BY <1>1, <2>1, BelowIs, WaysAre, PutIs, NodesAre
  <2>3. NoPartial(tree) => NoPartial(tree')
    BY <2>2, NodesAre DEF NoPartial
  <2>4. RemoveInv'
    <3>1. CASE job.op = "delete"
      BY <1>1, <1>5, <2>1, <2>3, <3>1 DEF RemoveInv
    <3>2. CASE job.op = "move"
      <4>1. Plain' <=> PlainFor(start, job.src, job.dst)
        BY <1>1, <2>1 DEF Plain, PlainAbove, PlainBelow, PlainFor
      <4>2. ASSUME PlainFor(start, job.src, job.dst), NEW q \in Below(start, job.src)
            PROVE  CopiedTo(tree', start, job.src, job.dst, q)
        <5>1. CopiedTo(tree, start, job.src, job.dst, q) /\ job.cur = job.src
          BY <1>4, <3>2, <4>2
        <5>2. q \in Ways /\ IsPrefix(job.src, q)
          BY BelowIs, WaysAre
        <5>3. IsPrefix(job.dst, Moved(q, job.src, job.dst))
          BY <1>6, <3>2, <4>2, <5>2, MovedBelow
        <5>4. ~(IsPrefix(job.src, p) /\ IsPrefix(job.dst, p))
          BY <1>6, <2>2, <3>2, <4>2, ApartIs
        <5>5. Moved(q, job.src, job.dst) # p
          BY <2>2, <5>1, <5>3, <5>4
        <5>6. QED
          BY <2>2, <5>1, <5>5 DEF CopiedTo
      <4>3. QED
        BY <1>1, <1>4, <2>1, <2>3, <3>2, <4>1, <4>2 DEF RemoveInv
    <3>3. QED
      BY <1>3, <3>1, <3>2
  <2>5. job' = job
    BY <2>1
  <2>6. QED
    BY <1>1, <1>2, <2>2, <2>4, <2>5, GoesOn
<1>10. QED
  BY <1>7, <1>8, <1>9 DEF RemoveEntry

(***************************************************************************)
(* Moves.                                                                  *)
(***************************************************************************)

\* The directory of the target has been made.
LEMMA TargetMade ==
  ASSUME NEW o \in Trees, NEW s \in Paths, NEW d \in Paths, PlainFor(o, s, d)
  PROVE  /\ Copying(MkdirAll(o, Parent(d)), o, s, d)
         /\ Through(MkdirAll(o, Parent(d)), s) = s /\ Through(MkdirAll(o, Parent(d)), d) = d
<1>1. /\ o \in AllTrees /\ s \in Ways /\ d \in Ways /\ d # Root
  BY TreeIs, WaysAre
<1>2. PICK r \in Ways : r = Parent(d) /\ IsPrefix(r, d) /\ r # d
  BY <1>1, ParentIs
<1>3. Moved(s, s, d) = d
  BY <1>1, MovedBelow
<1>4. Copying(o, o, s, d)
  BY <1>1, CopyingBegins
<1>5. PICK t \in AllTrees : t = MkdirAll(o, r)
  BY <1>1, MkdirIs DEF Grown
<1>6. Copying(t, o, s, d)
  <2>1. s \in Below(o, s) \cup {s} /\ IsPrefix(r, Moved(s, s, d)) /\ r # Moved(s, s, d)
    BY <1>2, <1>3
  <2>2. QED
    BY <1>1, <1>4, <1>5, <2>1, CopyingGrows
<1>7. Through(t, s) = s /\ Through(t, d) = d
  BY <1>1, <1>6, ThroughIs DEF Copying
<1>8. QED
  BY <1>2, <1>5, <1>6, <1>7

LEMMA WalkBegins ==
  ASSUME FileInv, start \in Trees, start' = start, tree' \in AllTrees,
         NEW j \in Jobs, j.op \in {"move", "copy"}, j.answer = "none", ~j.temp,
         NEW f \in Paths, j.todo = {f}, Go(j, "walk"),
         PlainFor(start, j.src, j.dst) =>
           f = j.src /\ start[f] # Nothing /\ Copying(tree', start, j.src, j.dst) /\ NoPartial(tree')
  PROVE  FileInv'
<1>1. /\ job' \in Jobs /\ job'.pc = "walk" /\ job'.answer = "none" /\ job'.op = j.op
      /\ job'.src = j.src
      /\ job'.dst = j.dst /\ job'.todo = {f} /\ ~job'.temp
  BY GoIs
<1>2. ASSUME PlainFor(start, j.src, j.dst) PROVE CopyInv'
  <2>1. IsPrefix(f, f) /\ f \in Below(start, j.src)
    BY <1>2, WaysAre, PrefixOrder, BelowIs
  <2>2. \A p \in Below(start, j.src) : IsPrefix(f, p)
    BY <1>2, BelowIs
  <2>3. QED
    BY <1>1, <1>2, <2>1, <2>2 DEF CopyInv
<1>3. QED
  BY <1>1, <1>2, GoesOn

\* A rename takes everything below the source to the target, and nothing stays.
LEMMA RenameIs ==
  ASSUME NEW o \in Trees, NEW s \in Paths, NEW d \in Paths, PlainFor(o, s, d),
         NEW t \in AllTrees, t = MkdirAll(o, Parent(d)), CanRename(t, s, d), NEW u,
         u = Rename(t, s, d)
  PROVE  /\ NoPartial(u) /\ Below(u, s) = {}
         /\ \A p \in Below(o, s) : CopiedTo(u, o, s, d, p)
<1>1. /\ o \in AllTrees /\ s \in Ways /\ d \in Ways /\ Apart(s, d)
  BY TreeIs, WaysAre DEF PlainFor
<1>2. Copying(t, o, s, d) /\ Through(t, s) = s /\ Through(t, d) = d
  BY TargetMade
<1>3. NoPartial(t)
  <2>1. Parent(d) \in Ways
    BY <1>1, ParentWay
  <2>2. PICK r \in Ways : r = Parent(d)
    BY <2>1
  <2>3. NoPartial(o)
    BY TreeIs DEF NoPartial
  <2>4. QED
    BY <1>1, <2>2, <2>3, GrownKeeps
<1>4. s # d
  BY <1>1, PrefixOrder DEF Apart
<1>5. \A r \in Paths : u[r] = IF IsPrefix(d, r) /\ Moved(r, d, s) \in Paths THEN t[Moved(r, d, s)]
                              ELSE IF IsPrefix(s, r) THEN Nothing ELSE t[r]
  BY <1>2, <1>4 DEF Rename
<1>6. NoPartial(u)
  BY <1>3, <1>5, NodesAre DEF NoPartial
<1>7. Below(u, s) = {}
  BY <1>1, <1>5, BelowIs, ApartIs, WaysAre
<1>8. ASSUME NEW p \in Below(o, s) PROVE CopiedTo(u, o, s, d, p)
  <2>1. p \in Paths /\ p \in Ways /\ IsPrefix(s, p) /\ t[p] = o[p] /\ t[p] # Nothing
    BY <1>2, BelowIs, WaysAre DEF Copying
  <2>2. p \in Below(t, s)
    BY <2>1, BelowIs
  <2>3. Moved(p, s, d) \in Paths
    BY <1>2, <2>2 DEF CanRename
  <2>4. IsPrefix(d, Moved(p, s, d)) /\ Moved(Moved(p, s, d), d, s) = p
    <3>1. IsPrefix(d, Moved(p, s, d))
      BY <1>1, <2>1, MovedBelow
    <3>2. Moved(Moved(p, s, d), d, s) = p
      BY <1>1, <2>1, MovedBack
    <3>3. QED
      BY <3>1, <3>2
  <2>5. QED
    BY <1>5, <2>1, <2>3, <2>4 DEF CopiedTo
<1>9. QED
  BY <1>6, <1>7, <1>8

LEMMA RenameStays ==
  ASSUME NEW t \in AllTrees, NEW p, NEW q
  PROVE  Rename(t, p, q) \in AllTrees
BY NodesAre DEF Rename, AllTrees

\* The request of a move or a copy.
LEMMA AskedTo ==
  ASSUME NEW op \in {"move", "copy"}, NEW p \in Arguments, NEW q \in Arguments
  PROVE  LET j == [Asked(op, p) EXCEPT !.dst = q]
         IN  j \in Jobs /\ j.op = op /\ j.src = p /\ j.dst = q /\ j.answer = "none" /\ ~j.temp
<1>1. PICK j \in Jobs : /\ j = Asked(op, p)
                        /\ ~j.temp /\ j.op = op /\ j.src = p /\ j.answer = "none"
  BY ArgumentWay, AskedIs DEF ops
<1>2. q \in Paths \cup {Root}
  BY ArgumentWay
<1>3. QED
  BY <1>1, <1>2, SetDst

LEMMA MoveKeeps ==
  ASSUME FileInv, NEW p \in Arguments, NEW q \in Arguments, movePath(p, q)
  PROVE  FileInv'
<1>1. PICK j \in Jobs : /\ j = [Asked("move", p) EXCEPT !.dst = q]
                        /\ j.op = "move" /\ j.src = p /\ j.dst = q /\ j.answer = "none" /\ ~j.temp
  <2>1. PICK op \in {"move", "copy"} : op = "move"
    OBVIOUS
  <2>2. PICK k : k = [Asked(op, p) EXCEPT !.dst = q]
    OBVIOUS
  <2>3. k \in Jobs /\ k.op = op /\ k.src = p /\ k.dst = q /\ k.answer = "none" /\ ~k.temp
    BY <2>2, AskedTo
  <2>4. QED
    BY <2>1, <2>2, <2>3
<1>2. start' = start /\ job.pc = "idle" /\ p \in Ways /\ q \in Ways /\ Parent(q) \in Ways
  BY ArgumentWay, ParentWay DEF movePath
<1>3. tree = start /\ start \in Trees /\ tree \in AllTrees /\ NoPartial(tree)
  BY <1>2, IdleIs
<1>4. PICK t \in AllTrees : t = MkdirAll(tree, Parent(q)) /\ NoPartial(t)
  BY <1>2, <1>3, GrownKeeps
<1>5. PlainFor(start, p, q) => p \in Paths /\ q \in Paths
  BY <1>3, ArgumentWay, PlainWays
<1>6. CASE p = q /\ End(j, "ok") /\ UNCHANGED tree
  <2>1. ~PlainFor(start, p, q)
    BY <1>2, <1>6, PrefixOrder DEF PlainFor, Apart
  <2>2. job'.src = p /\ job'.dst = q
    BY <1>1, <1>6, EndIs
  <2>3. ~Plain'
    BY <1>2, <2>1, <2>2 DEF Plain, PlainAbove, PlainBelow, PlainFor
  <2>4. Done("move")'
    BY <2>3 DEF Done
  <2>5. tree' \in AllTrees /\ NoPartial(tree')
    BY <1>3, <1>6
  <2>6. QED
    BY <1>1, <1>2, <1>3, <1>6, <2>1, <2>4, <2>5, Ends
<1>7. CASE Refuse(j)
  <2>1. tree' = tree /\ End(j, "error")
    BY <1>7 DEF Refuse
  <2>2. QED
    BY <1>1, <1>2, <1>3, <2>1, Fails
<1>8. CASE FailMaking(j, Parent(q))
  <2>1. tree' \in MkdirSome(tree, Parent(q)) /\ End(j, "error")
    BY <1>8 DEF FailMaking
  <2>2. /\ tree' \in AllTrees /\ NoPartial(tree')
        /\ \A x \in Paths : tree[x] # Nothing => tree'[x] = tree[x]
    BY <1>2, <1>3, <2>1, SomeKeeps
  <2>3. \A x \in Below(start, j.src) : tree'[x] = start[x]
    BY <1>3, <2>2, BelowIs
  <2>4. QED
    BY <1>1, <1>2, <1>3, <2>1, <2>2, <2>3, Fails
<1>9. CASE /\ p # q /\ ~pathContains(p, q)
           /\ Exists(t, p) /\ tree' = t
           /\ Go([j EXCEPT !.todo = {Through(t, p)}], "walk")
  <2>1. PICK f \in Paths : f = Through(t, p)
    <3>1. Kind(t, Through(t, p)) # "none" /\ Through(t, p) \in Ways
      BY <1>2, <1>9, ThroughIs DEF Exists
    <3>2. p # Root
      BY <1>2, <1>9, RootIs DEF pathContains, IsStrictPrefix
    <3>3. Through(t, p) # Root
      BY <1>2, <3>2, ThroughIs
    <3>4. QED
      BY <3>1, <3>3, KindIs
  <2>2. PICK k \in Jobs : /\ k = [j EXCEPT !.todo = {f}] /\ k.todo = {f}
                          /\ k.op = "move" /\ k.src = p /\ k.dst = q /\ k.answer = "none" /\ ~k.temp
    <3>1. {f} \in SUBSET (Paths \cup {Root})
      OBVIOUS
    <3>2. PICK k : k = [j EXCEPT !.todo = {f}]
      OBVIOUS
    <3>3. k \in Jobs /\ SameRequest(k, j) /\ k.todo = {f}
      BY <3>1, <3>2, SetTodo
    <3>4. k.temp = j.temp
      BY <3>2 DEF Jobs
    <3>5. QED
      BY <1>1, <3>2, <3>3, <3>4 DEF SameRequest
  <2>3. Go(k, "walk") /\ tree' \in AllTrees
    BY <1>9, <2>1, <2>2
  <2>4. ASSUME PlainFor(start, p, q)
        PROVE  f = p /\ start[f] # Nothing /\ Copying(tree', start, p, q) /\ NoPartial(tree')
    <3>1. Copying(t, start, p, q) /\ f = p
      BY <1>3, <1>4, <1>5, <2>1, <2>4, TargetMade
    <3>2. t[p] # Nothing
      BY <1>2, <1>9, <2>1, <3>1, KindIs, NodesAre DEF Exists
    <3>3. start[p] = t[p]
      BY <1>2, <2>1, <3>1, PrefixOrder DEF Copying
    <3>4. QED
      BY <1>4, <1>9, <3>1, <3>2, <3>3
  <2>5. QED
    BY <1>2, <1>3, <2>2, <2>3, <2>4, WalkBegins
<1>10. CASE CanRename(t, p, q) /\ tree' = Rename(t, p, q) /\ End(j, "ok")
  <2>1. tree' \in AllTrees
    BY <1>10, RenameStays
  <2>2. ASSUME PlainFor(start, p, q)
        PROVE  NoPartial(tree') /\ Below(tree', p) = {} /\ \A x \in Below(start, p) : CopiedTo(tree', start, p, q, x)
    <3>1. PICK u : u = Rename(t, p, q)
      OBVIOUS
    <3>2. NoPartial(u) /\ Below(u, p) = {} /\ \A x \in Below(start, p) : CopiedTo(u, start, p, q, x)
      BY <1>3, <1>4, <1>5, <1>10, <2>2, <3>1, RenameIs
    <3>3. QED
      BY <1>10, <3>1, <3>2
  <2>3. job'.src = p /\ job'.dst = q
    BY <1>1, <1>10, EndIs
  <2>4. Plain' <=> PlainFor(start, p, q)
    BY <1>2, <2>3 DEF Plain, PlainAbove, PlainBelow, PlainFor
  <2>5. Done("move")'
    BY <1>2, <2>2, <2>3, <2>4 DEF Done, CopiedTo
  <2>6. QED
    BY <1>1, <1>2, <1>3, <1>10, <2>1, <2>2, <2>5, Ends
<1>11. QED
  BY <1>1, <1>4, <1>6, <1>7, <1>8, <1>9, <1>10 DEF movePath, samePath

LEMMA CopyKeeps ==
  ASSUME FileInv, NEW p \in Arguments, NEW q \in Arguments, copyPath(p, q)
  PROVE  FileInv'
<1>1. PICK j \in Jobs : /\ j = [Asked("copy", p) EXCEPT !.dst = q]
                        /\ j.op = "copy" /\ j.src = p /\ j.dst = q /\ j.answer = "none" /\ ~j.temp
  <2>1. PICK op \in {"move", "copy"} : op = "copy"
    OBVIOUS
  <2>2. PICK k : k = [Asked(op, p) EXCEPT !.dst = q]
    OBVIOUS
  <2>3. k \in Jobs /\ k.op = op /\ k.src = p /\ k.dst = q /\ k.answer = "none" /\ ~k.temp
    BY <2>2, AskedTo
  <2>4. QED
    BY <2>1, <2>2, <2>3
<1>2. start' = start /\ job.pc = "idle" /\ p \in Ways /\ q \in Ways /\ tree' = tree
  BY ArgumentWay DEF copyPath, Refuse
<1>3. tree = start /\ start \in Trees /\ tree \in AllTrees /\ NoPartial(tree)
  BY <1>2, IdleIs
<1>4. CASE Refuse(j)
  <2>1. tree' = tree /\ End(j, "error")
    BY <1>4 DEF Refuse
  <2>2. QED
    BY <1>1, <1>2, <1>3, <2>1, Fails
<1>5. CASE /\ p # q /\ Exists(tree, p) /\ ~(Kind(tree, Through(tree, p)) = "dir" /\ pathContains(p, q))
           /\ Go([j EXCEPT !.todo = {Through(tree, p)}], "walk")
  <2>1. PICK f \in Paths : f = Through(tree, p)
    <3>1. Kind(tree, Through(tree, p)) # "none" /\ Through(tree, p) \in Ways
      BY <1>2, <1>3, <1>5, ThroughIs DEF Exists
    <3>2. Through(tree, p) # Root
      <4> SUFFICES ASSUME Through(tree, p) = Root PROVE FALSE
        OBVIOUS
      <4>1. p = Root /\ Kind(tree, Through(tree, p)) = "dir"
        BY <1>2, <1>3, ThroughIs DEF Kind
      <4>2. IsStrictPrefix(p, q)
        BY <1>2, <1>5, <4>1, RootIs DEF IsStrictPrefix
      <4>3. QED
        BY <1>5, <4>1, <4>2 DEF pathContains
    <3>3. QED
      BY <1>3, <3>1, <3>2, KindIs
  <2>2. PICK k \in Jobs : /\ k = [j EXCEPT !.todo = {f}] /\ k.todo = {f}
                          /\ k.op = "copy" /\ k.src = p /\ k.dst = q /\ k.answer = "none" /\ ~k.temp
    <3>1. {f} \in SUBSET (Paths \cup {Root})
      OBVIOUS
    <3>2. PICK k : k = [j EXCEPT !.todo = {f}]
      OBVIOUS
    <3>3. k \in Jobs /\ SameRequest(k, j) /\ k.todo = {f}
      BY <3>1, <3>2, SetTodo
    <3>4. k.temp = j.temp
      BY <3>2 DEF Jobs
    <3>5. QED
      BY <1>1, <3>2, <3>3, <3>4 DEF SameRequest
  <2>3. Go(k, "walk") /\ tree' \in AllTrees
    BY <1>2, <1>3, <1>5, <2>1, <2>2
  <2>4. ASSUME PlainFor(start, p, q)
        PROVE  f = p /\ start[f] # Nothing /\ Copying(tree', start, p, q) /\ NoPartial(tree')
    <3>1. p \in Paths /\ f = p
      BY <1>3, <2>1, <2>4, ArgumentWay, PlainWays
    <3>2. tree[p] # Nothing
      BY <1>2, <1>3, <1>5, <2>1, <3>1, KindIs, NodesAre DEF Exists
    <3>3. Copying(start, start, p, q)
      BY <1>3, <2>4, CopyingBegins
    <3>4. QED
      BY <1>2, <1>3, <3>1, <3>2, <3>3
  <2>5. QED
    BY <1>2, <1>3, <2>2, <2>3, <2>4, WalkBegins
<1>6. QED
  BY <1>1, <1>2, <1>4, <1>5 DEF copyPath, samePath

(***************************************************************************)
(* Copies.                                                                 *)
(***************************************************************************)
LEMMA Stays ==
  ASSUME NEW t \in AllTrees, NEW p
  PROVE  /\ MkdirAll(t, p) \in AllTrees /\ \A u \in MkdirSome(t, p) : u \in AllTrees
         /\ \A q \in Ways : Children(t, q) \subseteq Paths
<1>1. \A r : MkdirAll(t, r) \in AllTrees
  BY NodesAre DEF MkdirAll, AllTrees
<1>2. QED
  BY <1>1, BelowIs DEF MkdirSome, Children

\* An operation that copies.
LEMMA WalkIs ==
  ASSUME FileInv, job.pc \in {"walk", "write"}
  PROVE  /\ job \in Jobs /\ job.op \in {"move", "copy"} /\ job.todo \subseteq Paths /\ ~job.temp
         /\ job.answer = "none"
         /\ tree \in AllTrees /\ start \in Trees /\ start \in AllTrees
         /\ job.src \in Ways /\ job.src \in Paths \cup {Root}
         /\ PlainFor(start, job.src, job.dst) =>
              /\ CopyInv /\ job.src \in Paths /\ job.dst \in Paths /\ job.dst \in Ways
              /\ \A p : Target(p) = Moved(p, job.src, job.dst)
<1>1. /\ job \in Jobs /\ job.op \in {"move", "copy"} /\ job.todo \subseteq Paths /\ ~job.temp
      /\ job.answer = "none"
      /\ tree \in AllTrees /\ start \in Trees /\ start \in AllTrees
      /\ job.src \in Paths \cup {Root} /\ job.dst \in Paths \cup {Root}
      /\ Plain => CopyInv
  BY DEF FileInv, TypeOK, AllTrees, Jobs
<1>2. ASSUME PlainFor(start, job.src, job.dst)
      PROVE  /\ job.src \in Paths /\ job.dst \in Paths /\ job.dst \in Ways
             /\ Through(start, job.src) = job.src
  BY <1>1, <1>2, PlainWays
<1>3. QED
  BY <1>1, <1>2, PlainIs, WaysAre, RootIs DEF Target

\* A copy that fails.
LEMMA CopyFails ==
  ASSUME FileInv, job.pc \in {"walk", "write"}, start' = start, tree' \in AllTrees,
         NEW j \in Jobs, j.op = job.op, j.src = job.src, j.dst = job.dst, ~j.temp, End(j, "error"),
         PlainFor(start, job.src, job.dst) =>
           /\ \A p \in Below(start, job.src) : tree'[p] = start[p]
           /\ j.stuck \/ NoPartial(tree')
  PROVE  FileInv'
<1>1. start \in Trees /\ job.op \in {"move", "copy"}
  BY WalkIs
<1>2. QED
  BY <1>1, Ends

\* What has been copied to where there was no directory, or is to be, is an entry alone.
LEMMA EntryAlone ==
  ASSUME NEW o \in Trees, NEW s, NEW p \in Below(o, s), o[p] # Dir, NEW x \in Below(o, s),
         IsPrefix(p, x)
  PROVE  x = p
<1>1. p \in Paths /\ x \in Paths /\ o[x] # Nothing
  BY BelowIs
<1>2. QED
  BY <1>1, TreeIs

\* The entry p is made, with the node n, in the directory that is made for it.
LEMMA EntryMade ==
  ASSUME NEW o \in Trees, NEW t \in AllTrees, NEW s \in Paths, NEW d \in Paths, PlainFor(o, s, d),
         Copying(t, o, s, d),
         NoPartial(t), NEW p \in Below(o, s), NEW m, m = Moved(p, s, d),
         NEW v, v = MkdirAll(t, Parent(m))
  PROVE  /\ v \in AllTrees /\ Through(v, m) = m /\ (o[p].kind # "link" => Follow(v, m) = m)
         /\ \A n \in Nodes : (n.kind = "link" => o[p].kind = "link") /\ m \in Paths =>
              /\ Put(v, m, n) \in AllTrees /\ Copying(Put(v, m, n), o, s, d) /\ Put(v, m, n)[m] = n
              /\ \A q \in Paths : q # m => Put(v, m, n)[q] # File(Partial)
              /\ \A q \in Below(o, s) : q # p /\ CopiedTo(t, o, s, d, q) => CopiedTo(Put(v, m, n), o, s, d, q)
<1>1. m \in Ways /\ m # Root
  BY FreeCall
<1>2. PICK r \in Ways : r = Parent(m) /\ IsPrefix(r, m) /\ r # m
  BY <1>1, ParentIs
<1>3. /\ v \in AllTrees /\ Copying(v, o, s, d)
      /\ \A q \in Paths : v[q] = t[q] \/ (t[q] = Nothing /\ v[q] = Dir)
      /\ \A q \in Below(o, s) : CopiedTo(t, o, s, d, q) => CopiedTo(v, o, s, d, q)
  <2>1. v = MkdirAll(t, r) /\ IsPrefix(r, Moved(p, s, d)) /\ r # Moved(p, s, d) /\ p \in Below(o, s) \cup {s}
    BY <1>2
  <2>2. QED
    BY <2>1, CopyingGrows
<1>4. Through(v, m) = m /\ (o[p].kind # "link" => Follow(v, m) = m)
  BY <1>3, FreeCall
<1>5. ASSUME NEW n \in Nodes, n.kind = "link" => o[p].kind = "link", m \in Paths
      PROVE  /\ Put(v, m, n) \in AllTrees /\ Copying(Put(v, m, n), o, s, d) /\ Put(v, m, n)[m] = n
             /\ \A q \in Paths : q # m => Put(v, m, n)[q] # File(Partial)
             /\ \A q \in Below(o, s) : q # p /\ CopiedTo(t, o, s, d, q) => CopiedTo(Put(v, m, n), o, s, d, q)
  <2>1. Moved(p, s, d) \in Paths
    BY <1>5
  <2>2. PICK u : u = Put(v, Moved(p, s, d), n)
    OBVIOUS
  <2>3. /\ u \in AllTrees /\ Copying(u, o, s, d) /\ u[Moved(p, s, d)] = n
        /\ \A q \in Paths : q # Moved(p, s, d) => u[q] = v[q]
        /\ \A q \in Below(o, s) : q # p /\ CopiedTo(v, o, s, d, q) => CopiedTo(u, o, s, d, q)
    BY <1>3, <1>5, <2>1, <2>2, CopyingPuts
  <2>4. \A q \in Paths : v[q] # File(Partial)
    BY <1>3, NodesAre DEF NoPartial
  <2>5. QED
    BY <1>3, <2>2, <2>3, <2>4
<1>6. QED
  BY <1>3, <1>4, <1>5

\* The walk goes on after an entry.
LEMMA WalkGoesOn ==
  ASSUME FileInv, job.pc \in {"walk", "write"}, start' = start, tree' \in AllTrees,
         job' \in Jobs, job'.pc \in {"walk", "write"},
         job'.op = job.op, job'.src = job.src, job'.dst = job.dst, job'.answer = job.answer, ~job'.temp,
         job'.todo \subseteq Paths, job'.pc = "write" => job'.cur \in Paths,
         PlainFor(start, job.src, job.dst) => CopyInv'
  PROVE  FileInv'
<1>1. start \in Trees /\ job.op \in {"move", "copy"} /\ job.answer = "none"
  BY WalkIs
<1>2. QED
  BY <1>1, GoesOn

LEMMA SymlinkKeeps ==
  ASSUME FileInv, job.pc = "walk", start' = start, NEW p \in job.todo,
         copySymlink(p) \/ relinkFails(p)
  PROVE  FileInv'
<1>1. /\ job \in Jobs /\ job.todo \subseteq Paths /\ p \in Paths /\ ~job.temp
      /\ tree \in AllTrees /\ start \in Trees /\ start \in AllTrees
      /\ PlainFor(start, job.src, job.dst) =>
           CopyInv /\ job.src \in Paths /\ job.dst \in Paths /\ Target(p) = Moved(p, job.src, job.dst)
  BY WalkIs
<1>2. PICK m : m = Target(p)
  OBVIOUS
<1>3. PICK v \in AllTrees : v = MkdirAll(tree, Parent(m))
  BY <1>1, Stays
<1>4. PICK n \in {tree[p], Nothing} :
        /\ tree[p].kind = "link" /\ Through(v, m) \in Paths /\ tree' = Put(v, Through(v, m), n)
        /\ IF n = tree[p] THEN job' = [job EXCEPT !.todo = @ \ {p}] ELSE End(job, "error")
  <2>1. tree[p].kind = "link" => tree[p] # Nothing
    BY NodesAre
  <2>2. CASE copySymlink(p)
    BY <1>2, <1>3, <2>2 DEF copySymlink
  <2>3. CASE relinkFails(p)
    BY <1>2, <1>3, <2>1, <2>3 DEF relinkFails
  <2>4. QED
    BY <2>2, <2>3
<1>5. n \in Nodes /\ tree' \in AllTrees
  <2>1. n \in Nodes
    BY <1>1, NodesAre DEF AllTrees
  <2>2. QED
    BY <1>3, <1>4, <2>1, PutIs
<1>6. ASSUME PlainFor(start, job.src, job.dst)
      PROVE  /\ CopyInv /\ p \in Below(start, job.src) /\ tree[p] = start[p]
             /\ m = Moved(p, job.src, job.dst) /\ m \in Paths
             /\ Copying(tree', start, job.src, job.dst) /\ tree'[m] = n /\ NoPartial(tree')
             /\ \A q \in Below(start, job.src) :
                  q # p /\ CopiedTo(tree, start, job.src, job.dst, q) => CopiedTo(tree', start, job.src, job.dst, q)
  <2>1. /\ CopyInv /\ job.src \in Paths /\ job.dst \in Paths /\ m = Moved(p, job.src, job.dst)
    BY <1>1, <1>2, <1>6
  <2>2. /\ Copying(tree, start, job.src, job.dst) /\ NoPartial(tree) /\ p \in Below(start, job.src)
    BY <2>1 DEF CopyInv
  <2>3. tree[p] = start[p]
    BY <2>2, BelowIs DEF Copying
  <2>4. n.kind = "link" => start[p].kind = "link"
    BY <1>4, <2>3
  <2>5. /\ Through(v, m) = m
        /\ m \in Paths =>
              /\ Copying(Put(v, m, n), start, job.src, job.dst) /\ Put(v, m, n)[m] = n
              /\ \A q \in Paths : q # m => Put(v, m, n)[q] # File(Partial)
              /\ \A q \in Below(start, job.src) : q # p /\ CopiedTo(tree, start, job.src, job.dst, q) =>
                   CopiedTo(Put(v, m, n), start, job.src, job.dst, q)
    BY <1>1, <1>3, <1>5, <1>6, <2>1, <2>2, <2>4, EntryMade
  <2>6. m \in Paths /\ tree' = Put(v, m, n)
    BY <1>4, <2>5
  <2>7. n # File(Partial)
    BY <1>4, NodesAre
  <2>8. QED
    BY <2>1, <2>2, <2>3, <2>5, <2>6, <2>7 DEF NoPartial
<1>7. CASE n = tree[p]
  <2>1. job' = [job EXCEPT !.todo = @ \ {p}]
    BY <1>4, <1>7
  <2>2. PICK todo \in SUBSET (Paths \cup {Root}) : todo = job.todo \ {p} /\ job' = [job EXCEPT !.todo = todo]
    BY <1>1, <2>1
  <2>3. job' \in Jobs /\ SameRequest(job', job) /\ job'.todo = todo /\ ~job'.temp
    <3>1. [job EXCEPT !.todo = todo] \in Jobs /\ SameRequest([job EXCEPT !.todo = todo], job) /\ [job EXCEPT !.todo = todo].todo = todo
      BY <1>1, SetTodo
    <3>2. job'.temp = job.temp
      BY <1>1, <2>1 DEF Jobs
    <3>3. QED
      BY <1>1, <2>2, <3>1, <3>2
  <2>4. job'.pc = "walk" /\ job'.src = job.src /\ job'.dst = job.dst /\ job'.op = job.op /\ job'.answer = job.answer
    BY <2>3 DEF SameRequest
  <2>5. ASSUME PlainFor(start, job.src, job.dst) PROVE CopyInv'
    <3>1. start[p] # Dir
      BY <1>4, <1>6, <2>5, NodesAre
    <3>2. CopiedTo(tree', start, job.src, job.dst, p)
      BY <1>6, <1>7, <2>5 DEF CopiedTo
    <3>3. ASSUME NEW q \in Below(start, job.src)
          PROVE  CopiedTo(tree', start, job.src, job.dst, q) \/ \E x \in todo : IsPrefix(x, q)
      <4>1. CASE q = p
        BY <3>2, <4>1
      <4>2. CASE q # p /\ CopiedTo(tree, start, job.src, job.dst, q)
        BY <1>6, <2>5, <4>2
      <4>3. CASE q # p /\ \E x \in job.todo : IsPrefix(x, q)
        <5>1. ~IsPrefix(p, q)
          BY <1>1, <1>6, <2>5, <3>1, <4>3, EntryAlone
        <5>2. QED
          BY <2>2, <4>3, <5>1
      <4>4. QED
        BY <1>6, <2>5, <4>1, <4>2, <4>3 DEF CopyInv
    <3>4. todo \subseteq Below(start, job.src)
      BY <1>6, <2>2, <2>5 DEF CopyInv
    <3>5. QED
      BY <1>6, <2>3, <2>4, <2>5, <3>3, <3>4 DEF CopyInv
  <2>6. job'.todo \subseteq Paths
    BY <1>1, <2>2, <2>3
  <2>7. QED
    BY <1>5, <2>3, <2>4, <2>5, <2>6, WalkGoesOn
<1>8. CASE n # tree[p]
  <2>1. PICK j \in Jobs : j = job
    BY <1>1
  <2>2. End(j, "error") /\ ~j.temp
    BY <1>1, <1>4, <1>8, <2>1
  <2>3. ASSUME PlainFor(start, job.src, job.dst)
        PROVE  (\A q \in Below(start, job.src) : tree'[q] = start[q]) /\ NoPartial(tree')
    BY <1>6, <2>3, BelowIs DEF Copying
  <2>4. QED
    BY <1>5, <2>1, <2>2, <2>3, CopyFails
<1>9. QED
  BY <1>7, <1>8

\* A directory is copied: its entries are ahead of the walk now.
LEMMA DirectoryKeeps ==
  ASSUME FileInv, job.pc = "walk", start' = start, NEW p \in job.todo, copyDirectoryEntry(p)
  PROVE  FileInv'
<1>1. /\ job \in Jobs /\ job.todo \subseteq Paths /\ p \in Paths /\ p \in Ways /\ ~job.temp
      /\ tree \in AllTrees /\ start \in Trees /\ start \in AllTrees
      /\ PlainFor(start, job.src, job.dst) =>
           CopyInv /\ job.src \in Paths /\ job.dst \in Paths /\ Target(p) = Moved(p, job.src, job.dst)
  BY WalkIs, WaysAre
<1>2. PICK m : m = Target(p)
  OBVIOUS
<1>3. /\ tree[p] = Dir /\ CanMkdirAll(tree, m) /\ tree' = MkdirAll(tree, m)
      /\ job' = [job EXCEPT !.todo = (@ \ {p}) \cup Children(tree', p)]
  BY <1>2 DEF copyDirectoryEntry
<1>4. tree' \in AllTrees /\ Children(tree', p) \subseteq Paths
  <2>1. tree' \in AllTrees
    BY <1>1, <1>3, Stays
  <2>2. QED
    BY <1>1, <2>1, Stays
<1>5. PICK todo \in SUBSET (Paths \cup {Root}) :
        todo = (job.todo \ {p}) \cup Children(tree', p) /\ job' = [job EXCEPT !.todo = todo]
  BY <1>1, <1>3, <1>4
<1>6. job' \in Jobs /\ SameRequest(job', job) /\ job'.todo = todo /\ ~job'.temp
  <2>1. [job EXCEPT !.todo = todo] \in Jobs /\ SameRequest([job EXCEPT !.todo = todo], job) /\ [job EXCEPT !.todo = todo].todo = todo
    BY <1>1, SetTodo
  <2>2. job'.temp = job.temp
    BY <1>1, <1>5 DEF Jobs
  <2>3. QED
    BY <1>1, <1>5, <2>1, <2>2
<1>7. job'.pc = "walk" /\ job'.src = job.src /\ job'.dst = job.dst /\ job'.op = job.op /\ job'.answer = job.answer
  BY <1>6 DEF SameRequest
<1>8. ASSUME PlainFor(start, job.src, job.dst) PROVE CopyInv'
  <2>1. PICK s \in Paths, d \in Paths : s = job.src /\ d = job.dst
    BY <1>1, <1>8
  <2>2. /\ PlainFor(start, s, d) /\ Copying(tree, start, s, d) /\ NoPartial(tree)
        /\ job.todo \subseteq Below(start, s)
        /\ p \in Below(start, s) /\ s \in Ways
        /\ \A q \in Below(start, s) : CopiedTo(tree, start, s, d, q) \/ \E x \in job.todo : IsPrefix(x, q)
    BY <1>1, <1>8, <2>1, WaysAre DEF CopyInv
  <2>3. start[p] = Dir /\ start[p].kind # "link" /\ p \in Ways /\ p # Root /\ IsPrefix(s, p)
    BY <1>1, <1>3, <2>2, BelowIs, NodesAre, WaysAre DEF Copying
  <2>4. m = Moved(p, s, d) /\ m \in Ways /\ m # Root /\ Follow(tree, m) = m /\ IsPrefix(m, m)
    <3>1. m = Moved(p, s, d)
      BY <1>1, <1>2, <1>8, <2>1
    <3>2. m \in Ways /\ m # Root /\ Follow(tree, m) = m
      BY <1>1, <2>2, <2>3, <3>1, FreeCall
    <3>3. QED
      BY <3>1, <3>2, PrefixOrder
  <2>5. m \in Paths /\ tree[m].kind \in {"none", "dir"}
    <3>1. m \in WayTo(tree, m)
      BY <2>4, PrefixesAre DEF WayTo
    <3>2. QED
      BY <1>3, <3>1 DEF CanMkdirAll
  <2>6. /\ Copying(tree', start, s, d)
        /\ \A q \in Paths : tree'[q] = tree[q] \/ (tree[q] = Nothing /\ tree'[q] = Dir)
        /\ tree[m] = Nothing => tree'[m] = Dir
        /\ \A q \in Below(start, s) : CopiedTo(tree, start, s, d, q) => CopiedTo(tree', start, s, d, q)
    <3>1. p \in Below(start, s) \cup {s} /\ IsPrefix(m, Moved(p, s, d))
      BY <2>2, <2>4
    <3>2. PICK u : u = MkdirAll(tree, m)
      OBVIOUS
    <3>3. /\ Copying(u, start, s, d)
          /\ \A q \in Paths : u[q] = tree[q] \/ (tree[q] = Nothing /\ u[q] = Dir)
          /\ tree[m] = Nothing => u[m] = Dir
          /\ \A q \in Below(start, s) : CopiedTo(tree, start, s, d, q) => CopiedTo(u, start, s, d, q)
      BY <1>1, <2>2, <2>3, <2>4, <2>5, <3>1, <3>2, CopyingGrows
    <3>4. QED
      BY <1>3, <3>2, <3>3
  <2>7. NoPartial(tree')
    BY <2>2, <2>6, NodesAre DEF NoPartial
  <2>8. CopiedTo(tree', start, s, d, p)
    <3>1. tree[m] = Nothing \/ tree[m] = Dir
      BY <1>1, <2>5, NodesAre DEF AllTrees
    <3>2. tree'[m] = Dir
      BY <2>5, <2>6, <3>1, NodesAre
    <3>3. QED
      BY <2>3, <2>4, <2>5, <3>2 DEF CopiedTo
  <2>9. ASSUME NEW q \in Below(start, s), IsPrefix(p, q), q # p
        PROVE  \E x \in todo : IsPrefix(x, q)
    <3>1. q \in Paths /\ q \in Ways /\ start[q] # Nothing
      BY BelowIs, WaysAre
    <3>2. PICK c \in Ways : IsPrefix(p, c) /\ IsPrefix(c, q) /\ Len(c) = Len(p) + 1
      BY <2>3, <2>9, <3>1, ChildOnWay
    <3>3. c \in Paths /\ start[c] # Nothing
      <4>1. c # Root
        BY <2>3, <3>2, RootIs
      <4>2. c \in Paths
        BY <3>1, <3>2, <4>1, WaysAre
      <4>3. c = q \/ start[c] = Dir
        BY <1>1, <3>1, <3>2, <4>2, TreeIs
      <4>4. QED
        BY <3>1, <4>2, <4>3, NodesAre
    <3>4. tree'[c] # Nothing
      <4>1. IsPrefix(s, c)
        BY <2>2, <2>3, <3>2, PrefixOrder
      <4>2. QED
        BY <2>6, <3>3, <4>1 DEF Copying
    <3>5. c \in Children(tree', p)
      BY <3>2, <3>3, <3>4, BelowIs DEF Children
    <3>6. QED
      BY <1>5, <3>2, <3>5
  <2>10. ASSUME NEW q \in Below(start, s)
         PROVE  CopiedTo(tree', start, s, d, q) \/ \E x \in todo : IsPrefix(x, q)
    <3>1. CASE CopiedTo(tree, start, s, d, q)
      BY <2>6, <3>1
    <3>2. CASE \E x \in job.todo : x # p /\ IsPrefix(x, q)
      BY <1>5, <3>2
    <3>3. CASE IsPrefix(p, q)
      BY <2>8, <2>9, <3>3
    <3>4. QED
      BY <2>2, <3>1, <3>2, <3>3
  <2>11. todo \subseteq Below(start, s)
    <3>1. ASSUME NEW c \in Children(tree', p) PROVE c \in Below(start, s)
      <4>1. c \in Paths /\ c \in Ways /\ IsPrefix(p, c) /\ tree'[c] # Nothing
        BY BelowIs, WaysAre DEF Children
      <4>2. IsPrefix(s, c)
        BY <2>2, <2>3, <4>1, PrefixOrder
      <4>3. QED
        BY <2>6, <4>1, <4>2, BelowIs DEF Copying
    <3>2. QED
      BY <1>5, <2>2, <3>1
  <2>12. QED
    BY <1>6, <1>7, <2>1, <2>6, <2>7, <2>10, <2>11 DEF CopyInv
<1>9. job'.todo \subseteq Paths
  BY <1>1, <1>4, <1>5, <1>6
<1>10. QED
  BY <1>4, <1>6, <1>7, <1>8, <1>9, WalkGoesOn

\* A file is opened to be written.
LEMMA OpenKeeps ==
  ASSUME FileInv, job.pc = "walk", start' = start, NEW p \in job.todo, openCopy(p)
  PROVE  FileInv'
<1>1. /\ job \in Jobs /\ job.todo \subseteq Paths /\ p \in Paths /\ p \in Ways /\ ~job.temp
      /\ tree \in AllTrees /\ start \in Trees /\ start \in AllTrees
      /\ PlainFor(start, job.src, job.dst) =>
           CopyInv /\ job.src \in Paths /\ job.dst \in Paths /\ Target(p) = Moved(p, job.src, job.dst)
  BY WalkIs, WaysAre
<1>2. PICK m : m = Target(p)
  OBVIOUS
<1>3. PICK v \in AllTrees : v = MkdirAll(tree, Parent(m))
  BY <1>1, Stays
<1>4. /\ tree[p].kind = "file" /\ Follow(v, m) \in Paths
      /\ tree' = Put(v, Follow(v, m), File(Partial))
      /\ job' = [job EXCEPT !.todo = @ \ {p}, !.cur = p, !.pc = "write"]
  BY <1>2, <1>3 DEF openCopy
<1>5. tree' \in AllTrees
  BY <1>3, <1>4, PutIs, NodesAre
<1>6. PICK todo \in SUBSET Paths : todo = job.todo \ {p} /\ job' = [job EXCEPT !.todo = todo, !.cur = p, !.pc = "write"]
  BY <1>1, <1>4
<1>7. /\ job' \in Jobs /\ job'.todo = todo /\ job'.cur = p /\ job'.pc = "write" /\ ~job'.temp
      /\ job'.src = job.src /\ job'.dst = job.dst /\ job'.op = job.op /\ job'.answer = job.answer
  BY <1>1, <1>6 DEF Jobs, Ways
<1>8. ASSUME PlainFor(start, job.src, job.dst) PROVE CopyInv'
  <2>1. PICK s \in Paths, d \in Paths : s = job.src /\ d = job.dst
    BY <1>1, <1>8
  <2>2. /\ PlainFor(start, s, d) /\ Copying(tree, start, s, d) /\ NoPartial(tree)
        /\ job.todo \subseteq Below(start, s)
        /\ p \in Below(start, s) /\ m = Moved(p, s, d)
        /\ \A q \in Below(start, s) : CopiedTo(tree, start, s, d, q) \/ \E x \in job.todo : IsPrefix(x, q)
    BY <1>1, <1>2, <1>8, <2>1 DEF CopyInv
  <2>3. start[p].kind = "file" /\ start[p] # Dir
    BY <1>1, <1>4, <2>2, BelowIs, NodesAre DEF Copying
  <2>4. File(Partial) \in Nodes /\ File(Partial).kind # "link"
    BY NodesAre
  <2>5. /\ Follow(v, m) = m
        /\ m \in Paths =>
              /\ Copying(Put(v, m, File(Partial)), start, s, d)
              /\ Put(v, m, File(Partial))[m] = File(Partial)
              /\ \A q \in Paths : q # m => Put(v, m, File(Partial))[q] # File(Partial)
              /\ \A q \in Below(start, s) : q # p /\ CopiedTo(tree, start, s, d, q) =>
                   CopiedTo(Put(v, m, File(Partial)), start, s, d, q)
    BY <1>1, <1>3, <2>2, <2>3, <2>4, EntryMade
  <2>6. /\ m \in Paths /\ Copying(tree', start, s, d) /\ \A q \in Paths : tree'[q] = File(Partial) <=> q = m
        /\ \A q \in Below(start, s) : q # p /\ CopiedTo(tree, start, s, d, q) => CopiedTo(tree', start, s, d, q)
    BY <1>4, <2>5
  <2>7. ASSUME NEW q \in Below(start, s), q # p
        PROVE  CopiedTo(tree', start, s, d, q) \/ \E x \in todo : IsPrefix(x, q)
    <3>1. CASE CopiedTo(tree, start, s, d, q)
      BY <2>6, <2>7, <3>1
    <3>2. CASE \E x \in job.todo : IsPrefix(x, q)
      <4>1. ~IsPrefix(p, q)
        BY <1>1, <2>2, <2>3, <2>7, EntryAlone
      <4>2. QED
        BY <1>6, <3>2, <4>1
    <3>3. QED
      BY <2>2, <3>1, <3>2
  <2>8. todo \subseteq Below(start, s)
    BY <1>6, <2>2
  <2>9. QED
    BY <1>7, <2>1, <2>2, <2>3, <2>6, <2>7, <2>8 DEF CopyInv
<1>9. QED
  BY <1>1, <1>5, <1>6, <1>7, <1>8, WalkGoesOn

LEMMA CopyEntryKeeps ==
  ASSUME FileInv, CopyEntry
  PROVE  FileInv'
<1>1. job.pc = "walk" /\ start' = start
  BY DEF CopyEntry
<1>2. PICK p \in job.todo :
        \/ copySymlink(p) \/ relinkFails(p) \/ copyDirectoryEntry(p) \/ openCopy(p)
        \/ FailMaking(job, IF tree[p] = Dir THEN Target(p) ELSE Parent(Target(p)))
  BY DEF CopyEntry
<1>3. /\ job \in Jobs /\ job.todo \subseteq Paths /\ p \in Paths /\ ~job.temp
      /\ tree \in AllTrees /\ start \in Trees /\ start \in AllTrees
      /\ PlainFor(start, job.src, job.dst) =>
           CopyInv /\ job.src \in Paths /\ job.dst \in Paths /\ Target(p) = Moved(p, job.src, job.dst)
  BY <1>1, WalkIs
<1>4. CASE FailMaking(job, IF tree[p] = Dir THEN Target(p) ELSE Parent(Target(p)))
  <2>1. PICK w : w = IF tree[p] = Dir THEN Target(p) ELSE Parent(Target(p))
    OBVIOUS
  <2>2. tree' \in MkdirSome(tree, w) /\ End(job, "error")
    BY <1>4, <2>1 DEF FailMaking
  <2>3. tree' \in AllTrees
    BY <1>3, <2>2, Stays
  <2>4. ASSUME PlainFor(start, job.src, job.dst)
        PROVE  (\A q \in Below(start, job.src) : tree'[q] = start[q]) /\ NoPartial(tree')
    <3>1. /\ Copying(tree, start, job.src, job.dst) /\ NoPartial(tree)
          /\ p \in Below(start, job.src)
      BY <1>1, <1>3, <2>4 DEF CopyInv
    <3>2. Target(p) \in Ways
      BY <1>3, <2>4, <3>1, FreeCall
    <3>3. w \in Ways
      BY <2>1, <3>2, ParentWay
    <3>4. NoPartial(tree') /\ \A q \in Paths : tree[q] # Nothing => tree'[q] = tree[q]
      BY <1>3, <2>2, <3>1, <3>3, SomeKeeps
    <3>5. QED
      BY <3>1, <3>4, BelowIs DEF Copying
  <2>5. PICK j \in Jobs : j = job
    BY <1>3
  <2>6. QED
    BY <1>1, <1>3, <2>2, <2>3, <2>4, <2>5, CopyFails
<1>5. QED
  BY <1>1, <1>2, <1>4, SymlinkKeeps, DirectoryKeeps, OpenKeeps

LEMMA WriteCopyKeeps ==
  ASSUME FileInv, WriteCopy
  PROVE  FileInv'
<1>1. job.pc = "write" /\ start' = start
  BY DEF WriteCopy
<1>2. /\ job \in Jobs /\ job.todo \subseteq Paths /\ ~job.temp
      /\ tree \in AllTrees /\ start \in Trees /\ start \in AllTrees
      /\ PlainFor(start, job.src, job.dst) =>
           CopyInv /\ job.src \in Paths /\ job.dst \in Paths /\ Target(job.cur) = Moved(job.cur, job.src, job.dst)
  BY <1>1, WalkIs
<1>3. PICK p \in Paths : p = job.cur
  BY <1>1 DEF FileInv, TypeOK
<1>4. PICK m : m = Target(p)
  OBVIOUS
<1>5. PICK n \in Nodes : n = IF tree[p] = File(Partial) THEN File(Empty) ELSE tree[p]
  BY <1>2, <1>3, NodesAre DEF AllTrees
<1>6. PICK f, g : f = Follow(tree, m) /\ g = Through(tree, m)
  OBVIOUS
<1>7. PICK k \in Jobs : /\ k = [job EXCEPT !.stuck = TRUE] /\ k.stuck
                        /\ k.op = job.op /\ k.src = job.src /\ k.dst = job.dst /\ ~k.temp
  <2>1. /\ [job EXCEPT !.stuck = TRUE] \in Jobs /\ SameRequest([job EXCEPT !.stuck = TRUE], job)
        /\ [job EXCEPT !.stuck = TRUE].stuck
    BY <1>2, SetStuck
  <2>2. [job EXCEPT !.stuck = TRUE].temp = job.temp
    BY <1>2 DEF Jobs
  <2>3. QED
    BY <1>2, <2>1, <2>2 DEF SameRequest
<1>8. \/ tree' = Put(tree, f, n) /\ Go(job, "walk")
      \/ tree' = Put(tree, f, n) /\ End(job, "error")
      \/ tree' = Put(tree, g, Nothing) /\ End(job, "error")
      \/ tree' = tree /\ End(k, "error")
  BY <1>3, <1>4, <1>5, <1>6, <1>7 DEF WriteCopy, Refuse
<1>9. ASSUME PlainFor(start, job.src, job.dst)
      PROVE  /\ CopyInv /\ Copying(tree, start, job.src, job.dst) /\ p \in Below(start, job.src)
             /\ m = Moved(p, job.src, job.dst) /\ f = m /\ g = m /\ m \in Paths
             /\ n = start[p] /\ start[p].kind = "file" /\ n # File(Partial)
             /\ \A q \in Paths : tree[q] = File(Partial) <=> q = m
  <2>1. /\ CopyInv /\ Copying(tree, start, job.src, job.dst) /\ p \in Below(start, job.src)
        /\ start[p].kind = "file"
        /\ m = Moved(p, job.src, job.dst) /\ m \in Paths
        /\ \A q \in Paths : tree[q] = File(Partial) <=> q = m
    BY <1>1, <1>2, <1>3, <1>4, <1>9 DEF CopyInv
  <2>2. f = m /\ g = m
    BY <1>2, <1>6, <1>9, <2>1, FreeCall
  <2>3. tree[p] = start[p] /\ start[p] # File(Partial)
    BY <1>2, <2>1, TreeIs, BelowIs DEF Copying
  <2>4. QED
    BY <1>5, <2>1, <2>2, <2>3
<1>10. ASSUME PlainFor(start, job.src, job.dst), NEW x \in {n, Nothing}, tree' = Put(tree, m, x)
       PROVE  /\ Copying(tree', start, job.src, job.dst) /\ NoPartial(tree') /\ tree'[m] = x
              /\ \A q \in Below(start, job.src) :
                   q # p /\ CopiedTo(tree, start, job.src, job.dst, q) => CopiedTo(tree', start, job.src, job.dst, q)
  <2>1. x \in Nodes /\ x.kind # "link" /\ x # File(Partial)
    BY <1>9, <1>10, NodesAre
  <2>2. PICK u : u = Put(tree, Moved(p, job.src, job.dst), x)
    OBVIOUS
  <2>3. /\ Copying(u, start, job.src, job.dst) /\ u[Moved(p, job.src, job.dst)] = x
        /\ \A q \in Paths : q # Moved(p, job.src, job.dst) => u[q] = tree[q]
        /\ \A q \in Below(start, job.src) :
             q # p /\ CopiedTo(tree, start, job.src, job.dst, q) => CopiedTo(u, start, job.src, job.dst, q)
    BY <1>2, <1>9, <1>10, <2>1, <2>2, CopyingPuts
  <2>4. tree' = u
    BY <1>9, <1>10, <2>2
  <2>5. NoPartial(u)
    BY <1>9, <1>10, <2>1, <2>3 DEF NoPartial
  <2>6. QED
    BY <1>9, <1>10, <2>3, <2>4, <2>5
<1>11. tree' \in AllTrees
  BY <1>2, <1>5, <1>8, PutIs, NodesAre
<1>12. CASE tree' = Put(tree, f, n) /\ Go(job, "walk")
  <2>1. /\ job' \in Jobs /\ job'.pc = "walk" /\ job'.op = job.op /\ job'.src = job.src
        /\ job'.dst = job.dst
        /\ job'.answer = job.answer /\ ~job'.temp /\ job'.todo = job.todo
    BY <1>2, <1>12, GoIs
  <2>2. ASSUME PlainFor(start, job.src, job.dst) PROVE CopyInv'
    <3>1. /\ Copying(tree', start, job.src, job.dst) /\ NoPartial(tree') /\ tree'[m] = n
          /\ \A q \in Below(start, job.src) :
               q # p /\ CopiedTo(tree, start, job.src, job.dst, q) => CopiedTo(tree', start, job.src, job.dst, q)
      BY <1>9, <1>10, <1>12, <2>2
    <3>2. CopiedTo(tree', start, job.src, job.dst, p)
      BY <1>9, <2>2, <3>1 DEF CopiedTo
    <3>3. job.todo \subseteq Below(start, job.src)
      BY <1>9, <2>2 DEF CopyInv
    <3>4. \A q \in Below(start, job.src) :
            CopiedTo(tree', start, job.src, job.dst, q) \/ \E x \in job.todo : IsPrefix(x, q)
      BY <1>3, <1>9, <2>2, <3>1, <3>2 DEF CopyInv
    <3>5. QED
      BY <1>1, <2>1, <3>1, <3>3, <3>4 DEF CopyInv
  <2>3. QED
    BY <1>1, <1>2, <1>11, <2>1, <2>2, WalkGoesOn
<1>13. CASE (tree' = Put(tree, f, n) \/ tree' = Put(tree, g, Nothing)) /\ End(job, "error")
  <2>1. ASSUME PlainFor(start, job.src, job.dst)
        PROVE  (\A q \in Below(start, job.src) : tree'[q] = start[q]) /\ NoPartial(tree')
    <3>1. Copying(tree', start, job.src, job.dst) /\ NoPartial(tree')
      BY <1>9, <1>10, <1>13, <2>1
    <3>2. QED
      BY <3>1, BelowIs DEF Copying
  <2>2. PICK j \in Jobs : j = job
    BY <1>2
  <2>3. QED
    BY <1>1, <1>2, <1>11, <1>13, <2>1, <2>2, CopyFails
<1>14. CASE tree' = tree /\ End(k, "error")
  <2>1. PlainFor(start, job.src, job.dst) => \A q \in Below(start, job.src) : tree'[q] = start[q]
    BY <1>9, <1>14, BelowIs DEF Copying
  <2>2. QED
    BY <1>1, <1>7, <1>11, <1>14, <2>1, CopyFails
<1>15. QED
  BY <1>8, <1>12, <1>13, <1>14

\* All has been copied: a copy is done, and a move takes its source away.
LEMMA DoneKeeps ==
  ASSUME FileInv, CopyDone
  PROVE  FileInv'
<1>1. job.pc = "walk" /\ job.todo = {} /\ start' = start /\ tree' = tree
  BY DEF CopyDone
<1>2. /\ job \in Jobs /\ job.op \in {"move", "copy"} /\ ~job.temp /\ job.answer = "none"
      /\ job.src \in Ways
      /\ tree \in AllTrees /\ start \in Trees /\ start \in AllTrees
      /\ PlainFor(start, job.src, job.dst) => CopyInv
  BY <1>1, WalkIs
<1>3. ASSUME PlainFor(start, job.src, job.dst)
      PROVE  /\ NoPartial(tree) /\ Through(tree, job.src) = job.src
             /\ \A p \in Below(start, job.src) :
                  tree[p] = start[p] /\ CopiedTo(tree, start, job.src, job.dst, p)
  <2>1. /\ Copying(tree, start, job.src, job.dst) /\ NoPartial(tree)
        /\ \A p \in Below(start, job.src) : CopiedTo(tree, start, job.src, job.dst, p)
    BY <1>1, <1>2, <1>3 DEF CopyInv
  <2>2. Through(tree, job.src) = job.src
    BY <1>2, <2>1, ThroughIs DEF Copying
  <2>3. QED
    BY <2>1, <2>2, BelowIs DEF Copying
<1>4. CASE job.op = "move" /\ Go([job EXCEPT !.cur = Through(tree, job.src)], "remove")
  <2>1. PICK c \in Ways : c = Through(tree, job.src)
    BY <1>2, ThroughIs
  <2>2. PICK k \in Jobs : k = [job EXCEPT !.cur = c] /\ SameRequest(k, job) /\ k.cur = c /\ ~k.temp
    <3>1. [job EXCEPT !.cur = c] \in Jobs /\ SameRequest([job EXCEPT !.cur = c], job) /\ [job EXCEPT !.cur = c].cur = c
      BY <1>2, SetCur
    <3>2. [job EXCEPT !.cur = c].temp = job.temp
      BY <1>2 DEF Jobs
    <3>3. QED
      BY <1>2, <3>1, <3>2
  <2>3. Go(k, "remove")
    BY <1>4, <2>1, <2>2
  <2>4. /\ job' \in Jobs /\ job'.pc = "remove" /\ job'.answer = "none" /\ job'.op = "move"
        /\ ~job'.temp
        /\ job'.src = job.src /\ job'.dst = job.dst /\ job'.cur = c
    BY <1>2, <1>4, <2>2, <2>3, GoIs DEF SameRequest
  <2>5. RemoveInv'
    <3>1. Plain' <=> PlainFor(start, job.src, job.dst)
      BY <1>1, <2>4 DEF Plain, PlainAbove, PlainBelow, PlainFor
    <3>2. QED
      BY <1>1, <1>3, <2>1, <2>4, <3>1 DEF RemoveInv
  <2>6. QED
    BY <1>1, <1>2, <2>4, <2>5, GoesOn
<1>5. CASE job.op = "copy" /\ End(job, "ok")
  <2>1. PICK j \in Jobs : j = job
    BY <1>2
  <2>2. job'.src = job.src /\ job'.dst = job.dst
    BY <1>5, <2>1, EndIs
  <2>3. Plain' <=> PlainFor(start, job.src, job.dst)
    BY <1>1, <2>2 DEF Plain, PlainAbove, PlainBelow, PlainFor
  <2>4. Done("copy")'
    BY <1>1, <1>3, <2>2, <2>3 DEF Done, CopiedTo
  <2>5. /\ ~j.stuck /\ (j.op \in {"move", "copy"} => PlainFor(start, j.src, j.dst)) => ~j.temp /\ NoPartial(tree')
        /\ j.op \in {"move", "copy"} /\ PlainFor(start, j.src, j.dst) =>
             \A p \in Below(start, j.src) :
               tree'[p] = start[p] \/ (j.op = "move" /\ CopiedTo(tree', start, j.src, j.dst, p))
    BY <1>1, <1>2, <1>3, <2>1
  <2>6. j.op = "copy" /\ End(j, "ok") /\ tree' \in AllTrees
    BY <1>1, <1>2, <1>5, <2>1
  <2>7. QED
    BY <1>1, <1>2, <2>4, <2>5, <2>6, Ends
<1>6. QED
  BY <1>2, <1>4, <1>5 DEF CopyDone

(***************************************************************************)
(* The search.                                                             *)
(***************************************************************************)
LEMMA SearchBegins ==
  ASSUME NEW t \in Trees, NEW top \in Paths \cup {Root}, top \in Paths => t[top] # Nothing, NEW M,
         NEW c
  PROVE  Searching(t, top, M, c, {top}, {}, {})
<1>1. top \in Ways /\ IsPrefix(top, top)
  BY WaysAre, RootIs, PrefixOrder
<1>2. top \in Below(t, top) \cup {Root}
  BY <1>1, BelowIs
<1>3. \A p \in Below(t, top) : IsPrefix(top, p)
  BY BelowIs
<1>4. QED
  BY <1>1, <1>2, <1>3 DEF Searching

\* The walk has seen p: its entries are ahead now.
LEMMA SearchSees ==
  ASSUME NEW t \in Trees, NEW top \in Ways, NEW M, NEW c, NEW todo,
         NEW skipped \in SUBSET (Paths \cup {Root}), NEW found,
         Searching(t, top, M, c, todo, skipped, found), NEW p \in todo, Root \notin M,
         NEW new, new = (todo \ {p}) \cup Children(t, p),
         NEW found2, found2 = (IF p \in M THEN found \cup {p} ELSE found)
  PROVE  Searching(t, top, M, c, new, skipped, found2)
<1>1. /\ \A x \in todo : x \in Ways /\ (x \in Below(t, top) \/ (x = Root /\ top = Root))
      /\ \A x \in skipped : x \in Ways
      /\ Below(t, top) \subseteq Ways
  <2>1. Below(t, top) \subseteq Ways
    BY BelowIs, WaysAre
  <2>2. \A x \in todo : x \in Below(t, top) \/ (x = Root /\ top = Root)
    BY DEF Searching
  <2>3. QED
    BY <2>1, <2>2, WaysAre, RootIs
<1>2. p \in Ways /\ IsPrefix(top, p)
  BY <1>1, BelowIs, RootIs
<1>3. ASSUME NEW x \in Children(t, p)
      PROVE  /\ x \in Ways /\ x \in Below(t, top) /\ x # Root /\ IsPrefix(p, x)
             /\ Len(x) = Len(p) + 1
             /\ x # p /\ \A y \in Ways : IsPrefix(y, x) => y = x \/ IsPrefix(y, p)
  <2>1. x \in Paths /\ x \in Ways /\ x # Root /\ t[x] # Nothing /\ IsPrefix(p, x) /\ Len(x) = Len(p) + 1
    BY BelowIs, WaysAre DEF Children
  <2>2. x \in Below(t, top)
    BY <1>2, <2>1, PrefixOrder, BelowIs
  <2>3. x # p /\ \A y \in Ways : IsPrefix(y, x) => y = x \/ IsPrefix(y, p)
    BY <1>2, <2>1, ChildIsNext, PrefixOrder
  <2>4. QED
    BY <2>1, <2>2, <2>3
<1>4. new \subseteq Below(t, top) \cup {Root} /\ (Root \in new => top = Root)
  BY <1>1, <1>3 DEF Searching
<1>5. ASSUME NEW x \in new, NEW y \in new, IsPrefix(x, y) PROVE x = y
  <2>1. CASE x \in todo \ {p} /\ y \in todo \ {p}
    BY <1>5, <2>1 DEF Searching
  <2>2. CASE x \in todo \ {p} /\ y \in Children(t, p)
    BY <1>1, <1>3, <1>5, <2>2 DEF Searching
  <2>3. CASE x \in Children(t, p) /\ y \in todo \ {p}
    <3>1. IsPrefix(p, y)
      BY <1>1, <1>2, <1>3, <1>5, <2>3, PrefixOrder
    <3>2. QED
      BY <2>3, <3>1 DEF Searching
  <2>4. CASE x \in Children(t, p) /\ y \in Children(t, p)
    <3>1. Len(x) = Len(y) /\ IsPrefix(y, y) /\ x \in Ways /\ y \in Ways
      BY <1>3, <2>4, PrefixOrder
    <3>2. QED
      BY <1>5, <3>1, OnOneWay
  <2>5. QED
    BY <2>1, <2>2, <2>3, <2>4
<1>6. ASSUME NEW x \in new, NEW s \in skipped PROVE ~IsPrefix(s, x) /\ ~IsPrefix(x, s)
  <2>1. CASE x \in todo \ {p}
    BY <2>1 DEF Searching
  <2>2. CASE x \in Children(t, p)
    <3>1. ~IsPrefix(s, p) /\ ~IsPrefix(p, s)
      BY DEF Searching
    <3>2. ~IsPrefix(x, s)
      BY <1>1, <1>2, <1>3, <2>2, <3>1, PrefixOrder
    <3>3. ~IsPrefix(s, x)
      BY <1>1, <1>3, <2>2, <3>1
    <3>4. QED
      BY <3>2, <3>3
  <2>3. QED
    BY <2>1, <2>2
<1>7. ASSUME NEW q \in Below(t, top)
      PROVE  (\E x \in new : IsPrefix(x, q)) \/ (q \in M /\ ~LeftOut(skipped, c, q) => q \in found2)
  <2>1. CASE \E x \in todo : x # p /\ IsPrefix(x, q)
    BY <2>1
  <2>2. CASE q = p
    BY <2>2
  <2>3. CASE q # p /\ IsPrefix(p, q)
    <3>1. q \in Paths /\ q \in Ways /\ t[q] # Nothing
      BY BelowIs, WaysAre
    <3>2. PICK x \in Ways : IsPrefix(p, x) /\ IsPrefix(x, q) /\ Len(x) = Len(p) + 1
      BY <1>2, <2>3, <3>1, ChildOnWay
    <3>3. x # Root
      BY <1>2, <3>2, RootIs, ChildIsNext, PrefixOrder
    <3>4. x \in Paths
      BY <3>1, <3>2, <3>3, WaysAre
    <3>5. t[x] # Nothing
      BY <3>1, <3>2, <3>4, TreeIs, NodesAre
    <3>6. x \in Children(t, p)
      BY <3>2, <3>4, <3>5, BelowIs DEF Children
    <3>7. QED
      BY <3>2, <3>6
  <2>4. CASE q \in M /\ ~LeftOut(skipped, c, q) => q \in found
    BY <2>4
  <2>5. QED
    BY <2>1, <2>2, <2>3, <2>4 DEF Searching
<1>8. ASSUME NEW q \in found2
      PROVE  /\ q \in Below(t, top) /\ q \in M /\ ~LeftOut(skipped, c, q)
             /\ \A x \in new : ~IsPrefix(x, q)
  <2>1. CASE q \in found
    <3>1. q \in Below(t, top) /\ q \in M /\ ~LeftOut(skipped, c, q) /\ \A x \in todo : ~IsPrefix(x, q)
      BY <2>1 DEF Searching
    <3>2. ASSUME NEW x \in Children(t, p) PROVE ~IsPrefix(x, q)
      BY <1>1, <1>2, <1>3, <3>1, PrefixOrder
    <3>3. QED
      BY <3>1, <3>2
  <2>2. CASE q = p /\ p \in M
    <3>1. p \in Below(t, top)
      BY <1>1, <2>2
    <3>2. ~LeftOut(skipped, c, p)
      BY DEF Searching, LeftOut
    <3>3. ASSUME NEW x \in Children(t, p) PROVE ~IsPrefix(x, p)
      BY <1>2, <1>3, PrefixOrder
    <3>4. \A x \in todo \ {p} : ~IsPrefix(x, p)
      BY DEF Searching
    <3>5. QED
      BY <2>2, <3>1, <3>2, <3>3, <3>4
  <2>3. QED
    BY <2>1, <2>2
<1>9. QED
  BY <1>4, <1>5, <1>6, <1>7, <1>8 DEF Searching

\* The walk has left p out: nothing below it is ahead any more.
LEMMA SearchLeaves ==
  ASSUME NEW t \in Trees, NEW top \in Ways, NEW M, NEW c \in BOOLEAN, NEW todo,
         NEW skipped \in SUBSET (Paths \cup {Root}), NEW found,
         Searching(t, top, M, c, todo, skipped, found), NEW p \in todo, Root \notin M,
         NEW dir \in BOOLEAN, dir \/ c, dir /\ c => p \notin M,
         NEW found2, found2 = (IF p \in M /\ dir THEN found \cup {p} ELSE found)
  PROVE  Searching(t, top, M, c, todo \ {p}, skipped \cup {p}, found2)
<1> DEFINE new == todo \ {p}
           left == skipped \cup {p}
<1>1. /\ \A x \in todo : x \in Ways /\ (x \in Below(t, top) \/ (x = Root /\ top = Root))
      /\ \A x \in skipped : x \in Ways
      /\ Below(t, top) \subseteq Ways
  <2>1. Below(t, top) \subseteq Ways
    BY BelowIs, WaysAre
  <2>2. \A x \in todo : x \in Below(t, top) \/ (x = Root /\ top = Root)
    BY DEF Searching
  <2>3. QED
    BY <2>1, <2>2, WaysAre, RootIs
<1>2. new \subseteq Below(t, top) \cup {Root} /\ (Root \in new => top = Root) /\ \A x, y \in new : IsPrefix(x, y) => x = y
  BY DEF Searching
<1>3. \A x \in new : \A s \in left : ~IsPrefix(s, x) /\ ~IsPrefix(x, s)
  BY DEF Searching
<1>4. ASSUME NEW q \in Below(t, top)
      PROVE  (\E x \in new : IsPrefix(x, q)) \/ (q \in M /\ ~LeftOut(left, c, q) => q \in found2)
  <2>1. CASE \E x \in todo : x # p /\ IsPrefix(x, q)
    BY <2>1
  <2>2. CASE q = p
    <3>1. IsPrefix(p, p)
      BY <1>1, PrefixOrder
    <3>2. c => LeftOut(left, c, p)
      BY <3>1 DEF LeftOut
    <3>3. QED
      BY <2>2, <3>2
  <2>3. CASE q # p /\ IsPrefix(p, q)
    <3>1. LeftOut(left, c, q)
      BY <2>3 DEF LeftOut
    <3>2. QED
      BY <3>1
  <2>4. CASE q \in M /\ ~LeftOut(skipped, c, q) => q \in found
    <3>1. LeftOut(skipped, c, q) => LeftOut(left, c, q)
      BY DEF LeftOut
    <3>2. QED
      BY <2>4, <3>1
  <2>5. QED
    BY <2>1, <2>2, <2>3, <2>4 DEF Searching
<1>5. ASSUME NEW q \in found2
      PROVE  /\ q \in Below(t, top) /\ q \in M /\ ~LeftOut(left, c, q)
             /\ \A x \in new : ~IsPrefix(x, q)
  <2>1. CASE q \in found
    <3>1. q \in Below(t, top) /\ q \in M /\ ~LeftOut(skipped, c, q) /\ \A x \in todo : ~IsPrefix(x, q)
      BY <2>1 DEF Searching
    <3>2. ~LeftOut(left, c, q)
      BY <3>1 DEF LeftOut
    <3>3. QED
      BY <3>1, <3>2
  <2>2. CASE q = p /\ p \in M /\ dir
    <3>1. p \in Below(t, top)
      BY <1>1, <2>2
    <3>2. ~LeftOut(left, c, p)
      <4>1. ~c
        BY <2>2
      <4>2. \A s \in left : IsPrefix(s, p) => s = p
        BY DEF Searching
      <4>3. QED
        BY <4>1, <4>2 DEF LeftOut
    <3>3. \A x \in new : ~IsPrefix(x, p)
      BY DEF Searching
    <3>4. QED
      BY <2>2, <3>1, <3>2, <3>3
  <2>3. QED
    BY <2>1, <2>2
<1>6. QED
  BY <1>2, <1>3, <1>4, <1>5 DEF Searching

LEMMA SearchKeeps ==
  ASSUME FileInv, NEW p \in Arguments, NEW content \in BOOLEAN, searchFiles(p, content)
  PROVE  FileInv'
<1>1. start' = start /\ job.pc = "idle" /\ p \in Ways /\ tree' = tree
  BY ArgumentWay DEF searchFiles
<1>2. tree = start /\ start \in Trees /\ tree \in AllTrees /\ NoPartial(tree)
  BY <1>1, IdleIs
<1>3. PICK a \in Jobs : /\ a = Asked("search", p)
                        /\ a.op = "search" /\ a.src = p /\ a.answer = "none" /\ ~a.temp
                        /\ a.found = {} /\ a.skipped = {}
  BY ArgumentWay, AskedIs DEF ops
<1>4. PICK top \in Ways : top = Through(tree, p)
  BY <1>1, <1>2, ThroughIs
<1>5. PICK j \in Jobs : /\ j = [a EXCEPT !.content = content]
                        /\ j.op = "search" /\ j.src = p /\ j.answer = "none" /\ ~j.temp
                        /\ j.content = content
                        /\ j.found = {} /\ j.skipped = {}
  <2>1. PICK j : j = [a EXCEPT !.content = content]
    OBVIOUS
  <2>2. /\ j \in Jobs /\ j.op = a.op /\ j.src = a.src /\ j.answer = a.answer /\ j.temp = a.temp
        /\ j.content = content /\ j.found = a.found /\ j.skipped = a.skipped
    BY <2>1 DEF Jobs
  <2>3. QED
    BY <1>3, <2>1, <2>2
<1>6. CASE Exists(tree, p) /\ Go([j EXCEPT !.todo = {top}], "search")
  <2>1. top \in Paths \cup {Root} /\ (top \in Paths => tree[top] # Nothing)
    BY <1>2, <1>4, <1>6, KindIs, NodesAre DEF Exists
  <2>2. PICK k \in Jobs : /\ k = [j EXCEPT !.todo = {top}] /\ k.todo = {top}
                          /\ k.op = "search" /\ k.src = p /\ k.answer = "none" /\ ~k.temp
                          /\ k.content = content
                          /\ k.found = {} /\ k.skipped = {}
    <3>1. PICK k : k = [j EXCEPT !.todo = {top}]
      OBVIOUS
    <3>2. /\ k \in Jobs /\ k.op = j.op /\ k.src = j.src /\ k.answer = j.answer /\ k.temp = j.temp
          /\ k.todo = {top} /\ k.content = j.content /\ k.found = j.found /\ k.skipped = j.skipped
      BY <2>1, <3>1 DEF Jobs
    <3>3. QED
      BY <1>5, <3>1, <3>2
  <2>3. /\ job' \in Jobs /\ job'.pc = "search" /\ job'.answer = "none" /\ job'.op = "search"
        /\ job'.src = p
        /\ job'.content = content /\ job'.todo = {top} /\ job'.found = {} /\ job'.skipped = {}
        /\ ~job'.temp
    BY <1>6, <2>2, GoIs
  <2>4. \A M : Searching(tree, top, M, content, {top}, {}, {})
    BY <1>2, <2>1, SearchBegins
  <2>5. SearchInv'
    BY <1>1, <1>2, <1>4, <2>3, <2>4 DEF SearchInv
  <2>6. QED
    BY <1>1, <1>2, <2>3, <2>5, GoesOn
<1>7. CASE End(j, "error")
  BY <1>1, <1>2, <1>5, <1>7, Fails
<1>8. QED
  BY <1>3, <1>4, <1>5, <1>6, <1>7 DEF searchFiles

LEMMA SearchEntryKeeps ==
  ASSUME FileInv, SearchEntry
  PROVE  FileInv'
<1>1. /\ start' = start /\ tree' = tree /\ job.pc = "search" /\ job \in Jobs /\ job.answer = "none"
      /\ ~job.temp
      /\ start \in Trees /\ SearchInv
  BY DEF SearchEntry, FileInv, TypeOK
<1>2. tree = start /\ tree \in AllTrees /\ NoPartial(tree) /\ job.op = "search" /\ job.src \in Ways
  BY <1>1, TreeIs, WaysAre, RootIs DEF SearchInv, NoPartial, Jobs
<1>3. PICK j \in Jobs : j = job
  BY <1>1
<1>4. PICK top \in Ways : top = Through(tree, job.src)
  BY <1>2, ThroughIs
<1>5. PICK M : M = {p \in Paths : Match(p)}
  OBVIOUS
<1>6. Searching(tree, top, M, j.content, j.todo, j.skipped, j.found)
  BY <1>1, <1>3, <1>4, <1>5 DEF SearchInv
<1>7. PICK p \in j.todo, dir \in BOOLEAN :
        /\ dir <=> Kind(tree, p) = "dir"
        /\ \/ job' = [j EXCEPT !.found = IF Match(p) THEN @ \cup {p} ELSE @,
                              !.todo = (@ \ {p}) \cup Children(tree, p)]
           \/ /\ dir \/ j.content
              /\ job' = [j EXCEPT !.found = IF Match(p) /\ dir THEN @ \cup {p} ELSE @,
                                 !.todo = @ \ {p}, !.skipped = @ \cup {p}]
           \/ End(j, "error")
  BY <1>3 DEF SearchEntry
<1>8. /\ j.skipped \in SUBSET (Paths \cup {Root}) /\ j.found \in SUBSET Paths
      /\ j.todo \in SUBSET (Paths \cup {Root})
      /\ j.content \in BOOLEAN /\ p \in Paths \cup {Root} /\ j.pc = "search"
  BY <1>1, <1>3 DEF Jobs
<1>9. /\ Match(p) <=> p \in M
      /\ Root \notin M /\ (j.content /\ dir => p \notin M)
  <2>1. ~Match(Root) /\ (j.content /\ dir => ~Match(p))
    BY <1>3, <1>7 DEF Match, Kind
  <2>2. QED
    BY <1>5, <1>8, <2>1, WaysAre
<1>10. ASSUME NEW todo \in SUBSET (Paths \cup {Root}), NEW skipped \in SUBSET (Paths \cup {Root}),
              NEW found \in SUBSET Paths,
              job' = [j EXCEPT !.found = found, !.todo = todo, !.skipped = skipped],
              Searching(tree, top, M, j.content, todo, skipped, found)
       PROVE  FileInv'
  <2>1. /\ job' \in Jobs /\ job'.pc = "search" /\ job'.op = j.op /\ job'.src = j.src
        /\ job'.content = j.content
        /\ job'.answer = j.answer /\ job'.temp = j.temp
        /\ job'.todo = todo /\ job'.skipped = skipped /\ job'.found = found
    BY <1>8, <1>10 DEF Jobs
  <2>2. \A q : Match(q)' <=> Match(q)
    BY <1>1, <1>3, <2>1 DEF Match
  <2>3. {q \in Paths : Match(q)}' = M
    BY <1>5, <2>2
  <2>4. SearchInv'
    BY <1>1, <1>2, <1>3, <1>4, <1>10, <2>1, <2>3 DEF SearchInv
  <2>5. QED
    BY <1>1, <1>2, <1>3, <2>1, <2>4, GoesOn
<1>11. CASE job' = [j EXCEPT !.found = IF Match(p) THEN @ \cup {p} ELSE @,
                            !.todo = (@ \ {p}) \cup Children(tree, p)]
  <2>1. PICK todo, found : /\ todo = (j.todo \ {p}) \cup Children(tree, p)
                           /\ found = (IF p \in M THEN j.found \cup {p} ELSE j.found)
    OBVIOUS
  <2>2. todo \in SUBSET (Paths \cup {Root}) /\ found \in SUBSET Paths
    BY <1>5, <1>8, <2>1, BelowIs DEF Children
  <2>3. Searching(tree, top, M, j.content, todo, j.skipped, found)
    BY <1>1, <1>2, <1>6, <1>8, <1>9, <2>1, SearchSees
  <2>4. job' = [j EXCEPT !.found = found, !.todo = todo, !.skipped = j.skipped]
    BY <1>3, <1>9, <1>11, <2>1 DEF Jobs
  <2>5. QED
    BY <1>8, <1>10, <2>2, <2>3, <2>4
<1>12. CASE /\ dir \/ j.content
            /\ job' = [j EXCEPT !.found = IF Match(p) /\ dir THEN @ \cup {p} ELSE @,
                               !.todo = @ \ {p}, !.skipped = @ \cup {p}]
  <2>1. PICK todo, skipped, found : /\ todo = j.todo \ {p} /\ skipped = j.skipped \cup {p}
                                    /\ found = (IF p \in M /\ dir THEN j.found \cup {p} ELSE j.found)
    OBVIOUS
  <2>2. todo \in SUBSET (Paths \cup {Root}) /\ skipped \in SUBSET (Paths \cup {Root}) /\ found \in SUBSET Paths
    BY <1>5, <1>8, <2>1
  <2>3. Searching(tree, top, M, j.content, todo, skipped, found)
    <3>1. Searching(tree, top, M, j.content, j.todo \ {p}, j.skipped \cup {p}, found)
      BY <1>1, <1>2, <1>6, <1>8, <1>9, <1>12, <2>1, SearchLeaves
    <3>2. QED
      BY <2>1, <3>1
  <2>4. job' = [j EXCEPT !.found = found, !.todo = todo, !.skipped = skipped]
    BY <1>3, <1>9, <1>12, <2>1 DEF Jobs
  <2>5. QED
    BY <1>8, <1>10, <2>2, <2>3, <2>4
<1>13. CASE End(j, "error")
  BY <1>1, <1>2, <1>3, <1>13, Fails
<1>14. QED
  BY <1>7, <1>11, <1>12, <1>13

LEMMA SearchDoneKeeps ==
  ASSUME FileInv, SearchDone
  PROVE  FileInv'
<1>1. /\ start' = start /\ tree' = tree /\ job.pc = "search" /\ job \in Jobs /\ job.answer = "none"
      /\ ~job.temp
      /\ start \in Trees /\ SearchInv /\ (job.todo = {} \/ limited) /\ End(job, "ok")
  BY DEF SearchDone, FileInv, TypeOK
<1>2. tree = start /\ tree \in AllTrees /\ NoPartial(tree) /\ job.op = "search" /\ job.skipped \subseteq Ways
  BY <1>1, TreeIs, WaysAre, RootIs DEF SearchInv, NoPartial, Jobs
<1>3. PICK j \in Jobs : j = job
  BY <1>1
<1>4. /\ job'.op = j.op /\ job'.src = j.src /\ job'.content = j.content
      /\ job'.found = j.found /\ job'.skipped = j.skipped
  BY <1>1, <1>3, EndIs
<1>5. PICK B, M : B = Below(tree, Through(tree, job.src)) /\ M = {p \in Paths : Match(p)}
  OBVIOUS
<1>6. ASSUME job.todo = {}
      PROVE  job.found = {p \in B : Match(p) /\ \A s \in job.skipped :
                                        ~IsStrictPrefix(s, p) /\ ~(job.content /\ s = p)}
  <2>1. /\ \A p \in B : p \in M /\ ~LeftOut(job.skipped, job.content, p) => p \in job.found
        /\ \A p \in job.found : p \in B /\ p \in M /\ ~LeftOut(job.skipped, job.content, p)
    BY <1>1, <1>5, <1>6 DEF SearchInv, Searching
  <2>2. B \subseteq Paths
    BY <1>5, BelowIs
  <2>3. \A p \in B : ~LeftOut(job.skipped, job.content, p) <=>
          \A s \in job.skipped : ~IsStrictPrefix(s, p) /\ ~(job.content /\ s = p)
    BY <1>2, <2>2, WaysAre, PrefixOrder DEF LeftOut, IsStrictPrefix
  <2>4. \A p \in B : p \in M <=> Match(p)
    BY <1>5, <2>2
  <2>5. QED
    BY <2>1, <2>3, <2>4
<1>7. Done("search")'
  <2>1. limited' <=> limited
    BY <1>3, <1>4 DEF limited
  <2>2. \A q : Match(q)' <=> Match(q)
    BY <1>1, <1>3, <1>4 DEF Match
  <2>3. Through(tree', job'.src) = Through(tree, job.src) /\ B = Below(tree', Through(tree', job'.src))
    BY <1>1, <1>3, <1>4, <1>5
  <2>4. job.todo = {} =>
          job'.found = {p \in Below(tree', Through(tree', job'.src)) :
                          Match(p)' /\ \A s \in job'.skipped :
                             ~IsStrictPrefix(s, p) /\ ~(job'.content /\ s = p)}
    BY <1>3, <1>4, <1>6, <2>2, <2>3
  <2>5. QED
    BY <1>1, <2>1, <2>4 DEF Done
<1>8. QED
  BY <1>1, <1>2, <1>3, <1>7, Ends

(***************************************************************************)
(* The end of the agent, and the theorems.                                 *)
(***************************************************************************)
LEMMA AgentEndKeeps ==
  ASSUME FileInv, Crash
  PROVE  FileInv'
<1>1. /\ start' = start /\ tree' = tree
      /\ job.pc \in {"replace", "walk", "write", "remove", "search"}
      /\ Go(job, "crashed") /\ job \in Jobs /\ start \in Trees /\ job.answer = "none"
      /\ start \in AllTrees /\ tree \in AllTrees
  BY DEF Crash, FileInv, TypeOK, Jobs, AllTrees
<1>2. /\ job' \in Jobs /\ job'.pc = "crashed" /\ job'.answer = "none"
      /\ job'.op = job.op /\ job'.src = job.src /\ job'.dst = job.dst
  BY <1>1, GoIs
<1>3. Plain' <=> PlainFor(start, job.src, job.dst)
  BY <1>1, <1>2 DEF Plain, PlainAbove, PlainBelow, PlainFor
<1>4. ASSUME job.op \in {"move", "copy"}, PlainFor(start, job.src, job.dst),
             NEW p \in Below(start, job.src)
      PROVE  \/ tree[p] = start[p]
             \/ job.op = "move" /\ CopiedTo(tree, start, job.src, job.dst, p)
  <2>1. CASE job.pc \in {"walk", "write"}
    <3>1. Copying(tree, start, job.src, job.dst)
      BY <1>4, <2>1, WalkIs DEF CopyInv
    <3>2. QED
      BY <3>1, BelowIs DEF Copying
  <2>2. CASE job.pc = "remove"
    BY <1>4, <2>2, PlainIs DEF FileInv, RemoveInv
  <2>3. CASE job.pc \in {"replace", "search"}
    BY <1>4, <2>3 DEF FileInv, ReplaceInv, SearchInv
  <2>4. QED
    BY <1>1, <2>1, <2>2, <2>3
<1>5. NothingLost'
  BY <1>1, <1>2, <1>3, <1>4 DEF NothingLost, CopiedTo
<1>6. AnswerTells'
  BY <1>2 DEF AnswerTells
<1>7. TypeOK'
  BY <1>1, <1>2 DEF TypeOK, AllTrees
<1>8. QED
  BY <1>1, <1>2, <1>5, <1>6, <1>7 DEF FileInv

LEMMA FileStep ==
  ASSUME FileInv, [Next]_vars
  PROVE  FileInv'
<1>1. CASE UNCHANGED vars
  BY <1>1 DEF vars, FileInv, TypeOK, CopyInv, ReplaceInv, RemoveInv, SearchInv, NothingLost, AnswerTells, Plain,
     PlainAbove, PlainBelow, Done, Match, limited
<1>2. CASE executeFileOperation
  <2>1. PICK p \in Arguments :
          \/ \E op \in ops : Rejected(op, p)
          \/ listFiles(p) \/ statFile(p) \/ changeAttribute(p)
          \/ mkdir(p) \/ createFile(p) \/ deletePath(p)
          \/ \E q \in Arguments : movePath(p, q) \/ copyPath(p, q)
          \/ \E content \in BOOLEAN : searchFiles(p, content)
    BY <1>2 DEF executeFileOperation
  <2>2. CASE \E op \in ops : Rejected(op, p)
    BY <2>2, RejectedKeeps
  <2>3. CASE listFiles(p) \/ statFile(p) \/ changeAttribute(p)
    BY <2>3, LooksKeep
  <2>4. CASE mkdir(p) \/ createFile(p) \/ deletePath(p)
    BY <2>4, MkdirKeeps, CreateKeeps, DeleteKeeps
  <2>5. CASE \E q \in Arguments : movePath(p, q) \/ copyPath(p, q)
    BY <2>5, MoveKeeps, CopyKeeps
  <2>6. CASE \E content \in BOOLEAN : searchFiles(p, content)
    BY <2>6, SearchKeeps
  <2>7. QED
    BY <2>1, <2>2, <2>3, <2>4, <2>5, <2>6
<1>3. CASE Step
  BY <1>3, ReplaceKeeps, RemoveKeeps, CopyEntryKeeps, WriteCopyKeeps, DoneKeeps, SearchEntryKeeps, SearchDoneKeeps DEF Step
<1>4. CASE Crash
  BY <1>4, AgentEndKeeps
<1>5. QED
  BY <1>1, <1>2, <1>3, <1>4 DEF Next

LEMMA FileInvariant == Spec => []FileInv
<1>1. FileInv /\ [Next]_vars => FileInv'
  BY FileStep
<1>2. QED
  BY InitHolds, <1>1, PTL DEF Spec

\* A move loses nothing, wherever it ends: before the last step of its way, every state
\* keeps the source as it was; in the last, nothing is taken away that was not copied.
LEMMA NothingIsLost == FileInv => NothingLost
<1> SUFFICES ASSUME FileInv, job.op \in {"move", "copy"}, Plain, NEW p \in Below(start, job.src)
             PROVE  \/ tree[p] = start[p]
                    \/ job.op = "move" /\ CopiedTo(tree, start, job.src, job.dst, p)
  BY DEF NothingLost, CopiedTo
<1>1. CASE job.pc \in {"walk", "write"}
  BY <1>1, BelowIs DEF FileInv, CopyInv, Copying
<1>2. CASE job.pc = "remove"
  BY <1>2 DEF FileInv, RemoveInv
<1>3. CASE job.pc \in {"replace", "search", "idle"}
  BY <1>3 DEF FileInv, ReplaceInv, SearchInv, NoJob
<1>4. CASE job.pc \in {"ended", "crashed"}
  BY <1>4 DEF FileInv, NothingLost, CopiedTo
<1>5. QED
  BY <1>1, <1>2, <1>3, <1>4 DEF FileInv, TypeOK, Jobs

\* The tree and the operation keep their types.
THEOREM FileTypeCorrect == Spec => []TypeOK
<1>1. FileInv => TypeOK
  BY DEF FileInv
<1>2. QED
  BY FileInvariant, <1>1, PTL

\* A move or a copy never loses a file, whatever step fails and wherever the agent ends
\* (movePath, copyDirectory, copyRegularFile).
THEOREM NothingLostCorrect == Spec => []NothingLost
BY FileInvariant, NothingIsLost, PTL

\* What an operation answers is so, and it leaves nothing half-written behind it.
THEOREM AnswerTellsCorrect == Spec => []AnswerTells
<1>1. FileInv => AnswerTells
  <2> SUFFICES ASSUME FileInv PROVE AnswerTells
    OBVIOUS
  <2>1. CASE job.pc = "ended"
    BY <2>1 DEF FileInv
  <2>2. CASE job.pc # "ended"
    BY <2>2 DEF FileInv, AnswerTells
  <2>3. QED
    BY <2>1, <2>2
<1>2. QED
  BY FileInvariant, <1>1, PTL

(***************************************************************************)
(* The requests: what is so of a record.                                   *)
(***************************************************************************)
Pings == {"ping", "tcp"}

Progress(r) ==
  /\ r.pc = "idle" => r = NoTask
  /\ r.pc = "running" => r.kind \in Commands /\ r.attempt = 0
  /\ r.pc = "measure" => r.kind \in Pings /\ r.attempt = 0 /\ r.tries <= 2
  /\ r.pc = "send" => r.attempt < Attempts(r.kind)

Process(r) ==
  /\ r.reaped => r.sh # "running"
  /\ (Unix /\ r.killed) => r.sh # "running" /\ r.kid # "group"

Truth(r) ==
  r.pc \in {"send", "ended"} =>
    /\ r.kind \in Commands => r.sh # "running"
    /\ (r.kind \in Commands /\ r.value = 0 /\ r.sh # "none") => r.sh = "zero" /\ ~Holding(r)
    /\ (r.kind = "mining" /\ r.value = 0) => r.sh = "zero"
    /\ (r.kind \in Pings /\ r.value # Failed) =>
         r.value <= High /\ ~(r.first # None /\ Suspicious(r, r.value))

Sound(r) == Progress(r) /\ Process(r) /\ Truth(r)

Excused(j) ==
  \/ task[j].attempt = Attempts(task[j].kind)
  \/ task[j].kind = "file" /\ task[j].reply \in {"refused", "rpc error"}
  \/ task[j].conn # NoConn /\ up[task[j].conn] # "open"

Balanced(j) ==
  /\ copies[j] <= unanswered[j] + 1
  /\ task[j].pc \in {"idle", "running", "measure", "send"} => copies[j] = unanswered[j]
  /\ (task[j].pc = "ended" /\ copies[j] = 0) => Excused(j)

TaskIInv ==
  /\ TaskTypeOK
  /\ \A j \in Tasks : Sound(task[j])
  /\ \A j \in Tasks : Balanced(j)

\* A record that changes without an answer being sent.
Calm(r, s) ==
  \/ /\ s.pc = r.pc /\ s.kind = r.kind /\ s.attempt = r.attempt
     /\ s.reply = r.reply /\ s.conn = r.conn
  \/ r.pc \in {"idle", "running", "measure"} /\ s.pc \in {"running", "measure", "send", "dropped"}

CalmStep(j) == \E s \in TaskType : Sound(s) /\ Calm(task[j], s) /\ Set(j, s) /\ Unsent

(***************************************************************************)
(* Each action.                                                            *)
(***************************************************************************)

LEMMA AttemptsBounded == \A kind : Attempts(kind) \in {1, 3, 4}
BY DEF Attempts

LEMMA Values == Failed = -1 /\ Other = 1 /\ None = -2
BY DEF Failed, Other, None

\* A request that comes is answered at once, ignored or taken up.
LEMMA Taken ==
  ASSUME TaskIInv, NEW j \in Tasks, task[j].pc = "idle", NEW kind \in Kinds
  PROVE  /\ Come(j, kind) \in TaskType
         /\ Come(j, kind) = [NoTask EXCEPT !.kind = kind]
         /\ Sound([Come(j, kind) EXCEPT !.pc = "dropped"])
         /\ [Come(j, kind) EXCEPT !.pc = "dropped"] \in TaskType
<1>1. task[j] = NoTask /\ task[j] \in TaskType
  BY DEF TaskIInv, TaskTypeOK, Sound, Progress
<1>2. Come(j, kind) = [NoTask EXCEPT !.kind = kind]
  BY <1>1 DEF Come
<1>3. Come(j, kind) \in TaskType
  BY <1>1, <1>2 DEF TaskType
<1>4. [Come(j, kind) EXCEPT !.pc = "dropped"] \in TaskType
  BY <1>3 DEF TaskType
<1>5. Sound([Come(j, kind) EXCEPT !.pc = "dropped"])
  BY <1>2 DEF Sound, Progress, Process, Truth, NoTask
<1> QED BY <1>2, <1>3, <1>4, <1>5

\* An answer that is known before anything has been done.
LEMMA AnsweredAtOnce ==
  ASSUME TaskIInv, NEW j \in Tasks, task[j].pc = "idle", NEW kind \in {"exec", "mining", "file"},
         NEW value \in {0, Failed}, kind = "mining" => value = Failed,
         Answer(j, Come(j, kind), value), Unsent
  PROVE  CalmStep(j)
<1> DEFINE s == [Come(j, kind) EXCEPT !.pc = "send", !.value = value]
<1>1. kind \in Kinds
  BY DEF Kinds, Commands
<1>2. Come(j, kind) \in TaskType /\ Come(j, kind) = [NoTask EXCEPT !.kind = kind]
  BY <1>1, Taken
<1>3. s \in TaskType
  BY <1>2 DEF TaskType
<1>4. Sound(s)
  BY <1>2, Values, AttemptsBounded DEF Sound, Progress, Process, Truth, NoTask, Pings, Commands
<1>5. Calm(task[j], s)
  BY <1>3 DEF Calm, TaskType
<1>6. Set(j, s)
  BY DEF Answer
<1> QED BY <1>3, <1>4, <1>5, <1>6 DEF CalmStep

LEMMA Ignored ==
  ASSUME TaskIInv, NEW j \in Tasks, task[j].pc = "idle", NEW kind \in Kinds, Ignore(j, kind), Unsent
  PROVE  CalmStep(j)
<1> DEFINE s == [Come(j, kind) EXCEPT !.pc = "dropped"]
<1>1. s \in TaskType /\ Sound(s)
  BY Taken
<1>2. s.pc = "dropped"
  BY Taken DEF TaskType
<1>3. Calm(task[j], s)
  BY <1>2 DEF Calm
<1> QED BY <1>1, <1>3 DEF CalmStep, Ignore

LEMMA CommandStarted ==
  ASSUME TaskIInv, NEW j \in Tasks, task[j].pc = "idle", NEW kind \in Commands,
         runTaskCommand(j, kind), Unsent
  PROVE  CalmStep(j)
<1>1. kind \in Kinds /\ kind \in {"exec", "mining", "file"}
  BY DEF Kinds, Commands
<1>2. CASE Set(j, [Come(j, kind) EXCEPT !.pc = "running", !.sh = "running"])
  <2> DEFINE s == [Come(j, kind) EXCEPT !.pc = "running", !.sh = "running"]
  <2>1. Come(j, kind) \in TaskType /\ Come(j, kind) = [NoTask EXCEPT !.kind = kind]
    BY <1>1, Taken
  <2>2. s \in TaskType
    BY <2>1 DEF TaskType
  <2>3. Sound(s)
    BY <2>1 DEF Sound, Progress, Process, Truth, NoTask
  <2>4. Calm(task[j], s)
    BY <2>1, <2>2 DEF Calm, TaskType
  <2> QED BY <1>2, <2>2, <2>3, <2>4 DEF CalmStep
<1>3. CASE Answer(j, Come(j, kind), Failed)
  BY <1>1, <1>3, AnsweredAtOnce
<1> QED BY <1>2, <1>3 DEF runTaskCommand

LEMMA ReceiveStep == TaskIInv => \A j \in Tasks : Receive(j) => CalmStep(j)
<1> SUFFICES ASSUME TaskIInv, NEW j \in Tasks, Receive(j) PROVE CalmStep(j)
  OBVIOUS
<1> USE DEF Kinds, Commands
<1>1. ASSUME NEW r \in Requests, NewTask(j, r) PROVE CalmStep(j)
  BY <1>1, Ignored, AnsweredAtOnce, CommandStarted DEF NewTask
<1>2. ASSUME NEW r \in Requests, NewMiningControlTask(j, r) PROVE CalmStep(j)
  BY <1>2, Ignored, AnsweredAtOnce, CommandStarted DEF NewMiningControlTask
<1>3. ASSUME handleFileOperation(j) PROVE CalmStep(j)
  BY <1>3, AnsweredAtOnce DEF handleFileOperation
<1>4. ASSUME NEW r \in Requests, NEW kind \in Pings, NEW c \in Conns \cup {NoConn},
             NewPingTask(j, r, kind, c)
      PROVE  CalmStep(j)
  <2>1. task[j].pc = "idle" /\ Unsent /\ kind \in Kinds
    BY <1>4 DEF NewPingTask, Pings
  <2>2. CASE Ignore(j, kind)
    BY <2>1, <2>2, Ignored
  <2>3. CASE Set(j, [Come(j, kind) EXCEPT !.pc = "measure", !.conn = c])
    <3> DEFINE s == [Come(j, kind) EXCEPT !.pc = "measure", !.conn = c]
    <3>1. Come(j, kind) \in TaskType /\ Come(j, kind) = [NoTask EXCEPT !.kind = kind]
      BY <2>1, Taken
    <3>2. s \in TaskType
      BY <3>1 DEF TaskType
    <3>3. Sound(s)
      BY <3>1 DEF Sound, Progress, Process, Truth, NoTask
    <3>4. Calm(task[j], s)
      BY <2>1, <3>2, <3>1 DEF Calm, TaskType
    <3> QED BY <2>1, <2>3, <3>2, <3>3, <3>4 DEF CalmStep
  <2> QED BY <1>4, <2>2, <2>3 DEF NewPingTask
<1> QED BY <1>1, <1>2, <1>3, <1>4 DEF Receive, Pings

\* A record that leaves what answers and attempts depend on alone.
LEMMA CommandStep ==
  TaskIInv => \A j \in Tasks :
    Fork(j) \/ ShellExits(j) \/ KidExits(j) \/ Deadline(j) \/ Kill(j) \/ Reap(j) => CalmStep(j)
<1> SUFFICES ASSUME TaskIInv, NEW j \in Tasks,
                    Fork(j) \/ ShellExits(j) \/ KidExits(j) \/ Deadline(j) \/ Kill(j) \/ Reap(j)
             PROVE  CalmStep(j)
  OBVIOUS
<1>1. task[j] \in TaskType /\ Sound(task[j])
  BY DEF TaskIInv, TaskTypeOK
<1>2. CASE Fork(j)
  <2>1. PICK kid \in {"group", "apart"} : Set(j, [task[j] EXCEPT !.kid = kid])
    BY <1>2 DEF Fork
  <2> DEFINE s == [task[j] EXCEPT !.kid = kid]
  <2>2. s \in TaskType
    BY <1>1 DEF TaskType
  <2>3. Sound(s)
    BY <1>1, <1>2 DEF Sound, Progress, Process, Truth, Fork, TaskType, NoTask
  <2>4. Calm(task[j], s)
    BY <1>1 DEF Calm, TaskType
  <2> QED BY <1>2, <2>1, <2>2, <2>3, <2>4 DEF CalmStep, Fork
<1>3. CASE ShellExits(j)
  <2>1. PICK sh \in {"zero", "other", "killed"} : Set(j, [task[j] EXCEPT !.sh = sh])
    BY <1>3 DEF ShellExits
  <2> DEFINE s == [task[j] EXCEPT !.sh = sh]
  <2>2. s \in TaskType
    BY <1>1 DEF TaskType
  <2>3. Sound(s)
    BY <1>1, <1>3 DEF Sound, Progress, Process, Truth, ShellExits, TaskType, NoTask, Holding, Suspicious,
                      Commands, Pings
  <2>4. Calm(task[j], s)
    BY <1>1 DEF Calm, TaskType
  <2> QED BY <1>3, <2>1, <2>2, <2>3, <2>4 DEF CalmStep, ShellExits
<1>4. CASE KidExits(j)
  <2> DEFINE s == [task[j] EXCEPT !.kid = "gone"]
  <2>1. Set(j, s) /\ Holding(task[j]) /\ Unsent
    BY <1>4 DEF KidExits
  <2>2. s \in TaskType
    BY <1>1 DEF TaskType
  <2>3. Sound(s)
    BY <1>1, <2>1 DEF Sound, Progress, Process, Truth, TaskType, NoTask, Holding, Suspicious
  <2>4. Calm(task[j], s)
    BY <1>1 DEF Calm, TaskType
  <2> QED BY <2>1, <2>2, <2>3, <2>4 DEF CalmStep
<1>5. CASE Deadline(j)
  <2> DEFINE s == [task[j] EXCEPT !.expired = TRUE]
  <2>1. Set(j, s) /\ task[j].pc = "running" /\ Unsent
    BY <1>5 DEF Deadline
  <2>2. s \in TaskType
    BY <1>1 DEF TaskType
  <2>3. Sound(s)
    BY <1>1, <2>1 DEF Sound, Progress, Process, Truth, TaskType
  <2>4. Calm(task[j], s)
    BY <1>1 DEF Calm, TaskType
  <2> QED BY <2>1, <2>2, <2>3, <2>4 DEF CalmStep
<1>6. CASE Kill(j)
  <2> DEFINE s == [task[j] EXCEPT !.killed = TRUE,
                                  !.sh = IF task[j].sh = "running" THEN "killed" ELSE task[j].sh,
                                  !.kid = IF Unix /\ task[j].kid = "group" THEN "gone" ELSE task[j].kid]
  <2>1. Set(j, s) /\ task[j].pc = "running" /\ Unsent
    BY <1>6 DEF Kill
  <2>2. s \in TaskType
    <3> DEFINE sh == IF task[j].sh = "running" THEN "killed" ELSE task[j].sh
               kid == IF Unix /\ task[j].kid = "group" THEN "gone" ELSE task[j].kid
    <3>1. sh \in {"none", "running", "zero", "other", "killed"} /\ kid \in {"none", "group", "apart", "gone"}
      BY <1>1 DEF TaskType
    <3>2. [task[j] EXCEPT !.killed = TRUE] \in TaskType
      BY <1>1 DEF TaskType
    <3> HIDE DEF sh, kid
    <3>3. [task[j] EXCEPT !.killed = TRUE, !.sh = sh] \in TaskType
      BY <3>1, <3>2 DEF TaskType
    <3>4. [task[j] EXCEPT !.killed = TRUE, !.sh = sh, !.kid = kid] \in TaskType
      BY <3>1, <3>3 DEF TaskType
    <3> QED BY <3>4 DEF sh, kid
  <2>3. Sound(s)
    BY <1>1, <2>1 DEF Sound, Progress, Process, Truth, TaskType
  <2>4. Calm(task[j], s)
    BY <1>1 DEF Calm, TaskType
  <2> QED BY <2>1, <2>2, <2>3, <2>4 DEF CalmStep
<1>7. CASE Reap(j)
  <2> DEFINE s == [task[j] EXCEPT !.reaped = TRUE]
  <2>1. Set(j, s) /\ task[j].pc = "running" /\ task[j].sh # "running" /\ Unsent
    BY <1>7 DEF Reap
  <2>2. s \in TaskType
    BY <1>1 DEF TaskType
  <2>3. Sound(s)
    BY <1>1, <2>1 DEF Sound, Progress, Process, Truth, TaskType
  <2>4. Calm(task[j], s)
    BY <1>1 DEF Calm, TaskType
  <2> QED BY <2>1, <2>2, <2>3, <2>4 DEF CalmStep
<1> QED BY <1>2, <1>3, <1>4, <1>5, <1>6, <1>7

\* Only a shell that exited with 0 and whose output is complete gives 0.
LEMMA ExitCode ==
  ASSUME NEW r \in TaskType
  PROVE  /\ exitCode(r) \in {Failed, 0, Other}
         /\ exitCode(r) = 0 => r.sh = "zero" /\ ~r.cut
BY Values DEF exitCode, TaskType

LEMMA CommandAnswered ==
  TaskIInv => \A j \in Tasks : Return(j) \/ WaitDelay(j) => CalmStep(j)
<1> SUFFICES ASSUME TaskIInv, NEW j \in Tasks, Return(j) \/ WaitDelay(j) PROVE CalmStep(j)
  OBVIOUS
<1>1. task[j] \in TaskType /\ Sound(task[j])
  BY DEF TaskIInv, TaskTypeOK
<1>2. task[j].pc = "running" /\ task[j].reaped /\ Unsent
  BY DEF Return, WaitDelay
<1>3. /\ task[j].sh # "running" /\ task[j].kind \in Commands /\ task[j].attempt = 0
      /\ (Unix /\ task[j].killed) => task[j].kid # "group"
  BY <1>1, <1>2 DEF Sound, Progress, Process
<1>4. CASE Return(j)
  <2> DEFINE r == task[j]
             s == [r EXCEPT !.pc = "send", !.value = exitCode(r)]
  <2>1. Set(j, s) /\ ~Holding(r)
    BY <1>4 DEF Return, Answer
  <2>2. exitCode(r) \in {Failed, 0, Other} /\ (exitCode(r) = 0 => r.sh = "zero")
    BY <1>1, ExitCode
  <2>3. s \in TaskType
    BY <1>1, <2>2 DEF TaskType
  <2>4. Sound(s)
    BY <1>1, <1>3, <2>1, <2>2, AttemptsBounded
    DEF Sound, Progress, Process, Truth, TaskType, Holding, Commands, Pings
  <2>5. Calm(r, s)
    BY <1>1, <1>2 DEF Calm, TaskType
  <2> QED BY <1>2, <2>1, <2>3, <2>4, <2>5 DEF CalmStep
<1>5. CASE WaitDelay(j)
  <2> DEFINE r == [task[j] EXCEPT !.cut = TRUE]
             s == [r EXCEPT !.pc = "send", !.value = exitCode(r)]
  <2>1. Set(j, s)
    BY <1>5 DEF WaitDelay, Answer
  <2>2. r \in TaskType /\ r.cut
    BY <1>1 DEF TaskType
  <2>3. exitCode(r) \in {Failed, 0, Other} /\ exitCode(r) # 0
    BY <2>2, ExitCode
  <2>4. s \in TaskType
    BY <2>2, <2>3 DEF TaskType
  <2>5. Sound(s)
    BY <1>1, <1>3, <2>3, AttemptsBounded
    DEF Sound, Progress, Process, Truth, TaskType, Commands, Pings
  <2>6. Calm(task[j], s)
    BY <1>1, <1>2 DEF Calm, TaskType
  <2> QED BY <1>2, <2>1, <2>4, <2>5, <2>6 DEF CalmStep
<1> QED BY <1>4, <1>5

\* A latency is answered that is not high and, the first being high, no drop to it.
LEMMA MeasureStep ==
  TaskIInv => \A j \in Tasks : measure(j) \/ measureAgain(j) => CalmStep(j)
<1> SUFFICES ASSUME TaskIInv, NEW j \in Tasks, measure(j) \/ measureAgain(j) PROVE CalmStep(j)
  OBVIOUS
<1> DEFINE r == task[j]
<1>1. r \in TaskType /\ Sound(r)
  BY DEF TaskIInv, TaskTypeOK
<1>2. r.pc = "measure" /\ Unsent
  BY DEF measure, measureAgain
<1>3. r.kind \in Pings /\ r.attempt = 0 /\ r.tries <= 2
  BY <1>1, <1>2 DEF Sound, Progress
<1>4. Latencies \subseteq Nat /\ High \in Nat
  BY TaskConstants
\* an answer of the record q, which is r but for its tries
<1>5. ASSUME NEW tries \in 0 .. 3, NEW value \in Latencies \cup {Failed},
             value # Failed => value <= High /\ ~(r.first # None /\ Suspicious(r, value)),
             Answer(j, [r EXCEPT !.tries = tries], value)
      PROVE  CalmStep(j)
  <2> DEFINE q == [r EXCEPT !.tries = tries]
             s == [q EXCEPT !.pc = "send", !.value = value]
  <2>1. q \in TaskType /\ s \in TaskType
    BY <1>1 DEF TaskType
  <2>2. Sound(s)
    BY <1>1, <1>3, <1>5, AttemptsBounded
    DEF Sound, Progress, Process, Truth, TaskType, Commands, Pings, Suspicious
  <2>3. Calm(r, s)
    BY <1>1, <1>2 DEF Calm, TaskType
  <2>4. Set(j, s)
    BY <1>5 DEF Answer
  <2> QED BY <1>2, <2>1, <2>2, <2>3, <2>4 DEF CalmStep
<1>6. r.tries \in 0 .. 3 /\ [r EXCEPT !.tries = r.tries] = r /\ r.tries + 1 \in 0 .. 3
  BY <1>1, <1>3 DEF TaskType
<1>7. CASE measure(j)
  <2>1. ASSUME Answer(j, r, Failed) PROVE CalmStep(j)
    BY <1>5, <1>6, <2>1
  <2>2. ASSUME NEW m \in Latencies, m <= High, Answer(j, r, m) PROVE CalmStep(j)
    BY <1>5, <1>6, <1>7, <2>2 DEF measure
  <2>3. ASSUME NEW m \in Latencies, m > High, Set(j, [r EXCEPT !.first = m]) PROVE CalmStep(j)
    <3> DEFINE s == [r EXCEPT !.first = m]
    <3>1. s \in TaskType
      BY <1>1 DEF TaskType
    <3>2. Sound(s)
      BY <1>1, <1>2, <1>3 DEF Sound, Progress, Process, Truth, TaskType
    <3>3. Calm(r, s)
      BY <1>1 DEF Calm, TaskType
    <3> QED BY <1>2, <2>3, <3>1, <3>2, <3>3 DEF CalmStep
  <2> QED BY <1>7, <2>1, <2>2, <2>3 DEF measure
<1>8. CASE measureAgain(j)
  <2> DEFINE q == [r EXCEPT !.tries = r.tries + 1]
  <2>1. q \in TaskType /\ q.tries = r.tries + 1 /\ \A m : Suspicious(q, m) <=> Suspicious(r, m)
    BY <1>1, <1>6 DEF TaskType, Suspicious
  <2>2. ASSUME Answer(j, q, Failed) PROVE CalmStep(j)
    BY <1>5, <1>6, <2>2
  <2>3. ASSUME NEW m \in Latencies, m <= High, ~Suspicious(q, m), Answer(j, q, m) PROVE CalmStep(j)
    BY <1>5, <1>6, <2>1, <2>3
  <2>4. ASSUME q.tries < 3, Set(j, q) PROVE CalmStep(j)
    <3>1. Sound(q)
      BY <1>1, <1>2, <1>3, <2>1, <2>4 DEF Sound, Progress, Process, Truth, TaskType
    <3>2. Calm(r, q)
      BY <1>1 DEF Calm, TaskType
    <3> QED BY <1>2, <2>1, <2>4, <3>1, <3>2 DEF CalmStep
  <2> QED BY <1>8, <2>2, <2>3, <2>4 DEF measureAgain
<1> QED BY <1>7, <1>8

\* Whatever changes one record in a calm way keeps the invariant.
LEMMA CalmKeeps ==
  ASSUME TaskIInv, NEW j \in Tasks, CalmStep(j)
  PROVE  TaskIInv'
<1>1. PICK s \in TaskType : Sound(s) /\ Calm(task[j], s) /\ Set(j, s) /\ Unsent
  BY DEF CalmStep
<1>2. task' = [task EXCEPT ![j] = s] /\ up' = up /\ copies' = copies /\ unanswered' = unanswered
  BY <1>1 DEF Set, Unsent
<1>3. TaskTypeOK'
  BY <1>2 DEF TaskIInv, TaskTypeOK
<1>4. task'[j] = s /\ \A k \in Tasks \ {j} : task'[k] = task[k]
  BY <1>2 DEF TaskIInv, TaskTypeOK
<1>5. ASSUME NEW k \in Tasks PROVE Sound(task'[k])
  BY <1>1, <1>4 DEF TaskIInv
<1>6. ASSUME NEW k \in Tasks PROVE Balanced(k)'
  <2>1. Balanced(k) /\ Balanced(j)
    BY DEF TaskIInv
  <2>2. CASE k # j
    BY <1>2, <1>4, <2>1, <2>2 DEF Balanced, Excused
  <2>3. CASE k = j
    <3>1. copies[j] <= unanswered[j] + 1
      BY <2>1 DEF Balanced
    <3>2. CASE s.pc = task[j].pc /\ s.kind = task[j].kind /\ s.attempt = task[j].attempt
               /\ s.reply = task[j].reply /\ s.conn = task[j].conn
      <4>1. /\ task'[j].pc = task[j].pc /\ task'[j].kind = task[j].kind
            /\ task'[j].attempt = task[j].attempt /\ task'[j].reply = task[j].reply
            /\ task'[j].conn = task[j].conn
        BY <1>4, <3>2
      <4>2. Excused(j)' <=> Excused(j)
        BY <1>2, <4>1 DEF Excused
      <4>3. Balanced(j)' <=> Balanced(j)
        BY <1>2, <4>1, <4>2 DEF Balanced
      <4> QED BY <2>1, <2>3, <4>3
    <3>3. CASE /\ task[j].pc \in {"idle", "running", "measure"}
               /\ s.pc \in {"running", "measure", "send", "dropped"}
      BY <1>2, <1>4, <2>1, <2>3, <3>3 DEF Balanced
    <3> QED BY <1>1, <3>2, <3>3 DEF Calm
  <2> QED BY <2>2, <2>3
<1> QED BY <1>3, <1>5, <1>6 DEF TaskIInv

\* A POST: the record counts the attempt, and ends when it gives up.
LEMMA PostKeeps ==
  ASSUME TaskIInv, NEW j \in Tasks, Post(j)
  PROVE  TaskIInv'
<1>1. task[j] \in TaskType /\ Sound(task[j]) /\ Balanced(j) /\ task[j].pc = "send" /\ up' = up
  BY DEF TaskIInv, TaskTypeOK, Post
<1>2. PICK outcome \in Outcomes :
        LET r == [task[j] EXCEPT !.attempt = task[j].attempt + 1, !.reply = outcome]
        IN  /\ Set(j, IF GivesUp(r, outcome) THEN [r EXCEPT !.pc = "ended"] ELSE r)
            /\ copies' = [copies EXCEPT ![j] = IF outcome \in {"ok", "unanswered"} THEN copies[j] + 1 ELSE copies[j]]
            /\ unanswered' = [unanswered EXCEPT ![j] = IF outcome = "unanswered" THEN unanswered[j] + 1 ELSE unanswered[j]]
  BY DEF Post
<1> DEFINE r == [task[j] EXCEPT !.attempt = task[j].attempt + 1, !.reply = outcome]
           s == IF GivesUp(r, outcome) THEN [r EXCEPT !.pc = "ended"] ELSE r
<1>3. task[j].attempt \in 0 .. 4 /\ task[j].attempt < Attempts(task[j].kind)
  BY <1>1 DEF Sound, Progress, TaskType
<1>4. task[j].attempt + 1 \in 0 .. 4 /\ task[j].attempt + 1 <= Attempts(task[j].kind)
  BY <1>3, AttemptsBounded
<1>5. r \in TaskType /\ s \in TaskType
  BY <1>1, <1>4 DEF TaskType
<1>6. /\ r.pc = "send" /\ r.kind = task[j].kind /\ r.attempt = task[j].attempt + 1
      /\ r.reply = outcome
      /\ r.conn = task[j].conn /\ r.sh = task[j].sh /\ r.kid = task[j].kid
      /\ r.value = task[j].value
      /\ r.first = task[j].first /\ r.reaped = task[j].reaped /\ r.killed = task[j].killed
  BY <1>1 DEF TaskType
<1>7. Process(r) /\ Truth(r)
  BY <1>1, <1>6 DEF Sound, Process, Truth, Holding, Suspicious
<1>8. Sound(s)
  <2>1. CASE GivesUp(r, outcome)
    <3>1. /\ s.pc = "ended" /\ s.kind = r.kind /\ s.sh = r.sh /\ s.kid = r.kid /\ s.value = r.value
          /\ s.first = r.first /\ s.reaped = r.reaped /\ s.killed = r.killed
      BY <1>5, <2>1 DEF TaskType
    <3> HIDE DEF s, r
    <3> QED BY <1>6, <1>7, <3>1 DEF Sound, Progress, Process, Truth, Holding, Suspicious
  <2>2. CASE ~GivesUp(r, outcome)
    <3>1. r.attempt # Attempts(r.kind)
      BY <2>2 DEF GivesUp
    <3>2. r.attempt < Attempts(r.kind)
      BY <1>3, <1>4, <1>6, <3>1, AttemptsBounded
    <3>3. Progress(r)
      BY <1>6, <3>2 DEF Progress
    <3> QED BY <2>2, <3>3, <1>7 DEF Sound
  <2> QED BY <2>1, <2>2
<1>9. /\ s.kind = task[j].kind /\ s.attempt = task[j].attempt + 1 /\ s.reply = outcome
      /\ s.pc = IF GivesUp(r, outcome) THEN "ended" ELSE "send"
  BY <1>5, <1>6 DEF TaskType
<1>10. task' = [task EXCEPT ![j] = s]
  BY <1>2 DEF Set
<1> HIDE DEF s
<1>11. TaskTypeOK'
  BY <1>1, <1>2, <1>5, <1>10 DEF TaskIInv, TaskTypeOK
<1>12. task'[j] = s /\ \A k \in Tasks \ {j} :
         task'[k] = task[k] /\ copies'[k] = copies[k] /\ unanswered'[k] = unanswered[k]
  BY <1>2, <1>10 DEF TaskIInv, TaskTypeOK
<1>13. Balanced(j)'
  <2>1. copies[j] = unanswered[j] /\ copies[j] \in Nat /\ unanswered[j] \in Nat
    BY <1>1 DEF Balanced, TaskIInv, TaskTypeOK
  <2>2. /\ copies'[j] = IF outcome \in {"ok", "unanswered"} THEN copies[j] + 1 ELSE copies[j]
        /\ unanswered'[j] = IF outcome = "unanswered" THEN unanswered[j] + 1 ELSE unanswered[j]
    BY <1>2 DEF TaskIInv, TaskTypeOK
  <2>3. outcome = "ok" => GivesUp(r, outcome)
    BY DEF GivesUp, Accepted
  <2>4. CASE GivesUp(r, outcome) /\ outcome \notin {"ok", "unanswered"}
    <3>1. \/ s.attempt = Attempts(s.kind)
          \/ s.kind = "file" /\ s.reply \in {"refused", "rpc error"}
      BY <1>6, <1>9, <2>4 DEF GivesUp, Accepted
    <3>2. Excused(j)'
      BY <1>12, <3>1 DEF Excused
    <3> QED BY <1>9, <1>12, <2>1, <2>2, <2>4, <3>2 DEF Balanced
  <2>5. CASE ~GivesUp(r, outcome) \/ outcome \in {"ok", "unanswered"}
    <3>1. copies'[j] <= unanswered'[j] + 1
      BY <2>1, <2>2
    <3>2. s.pc = "ended" => copies'[j] # 0
      BY <1>9, <2>1, <2>2, <2>5
    <3>3. s.pc # "ended" => copies'[j] = unanswered'[j]
      BY <1>9, <2>1, <2>2, <2>3
    <3>4. s.pc \in {"ended", "send"}
      BY <1>9
    <3> QED BY <1>12, <3>1, <3>2, <3>3, <3>4 DEF Balanced
  <2> QED BY <2>4, <2>5
<1>14. ASSUME NEW k \in Tasks \ {j} PROVE Balanced(k)'
  BY <1>1, <1>12 DEF TaskIInv, Balanced, Excused
<1>15. ASSUME NEW k \in Tasks PROVE Sound(task'[k])
  BY <1>8, <1>12 DEF TaskIInv
<1> QED BY <1>11, <1>13, <1>14, <1>15 DEF TaskIInv

\* An answer over a connection: it is there, or the connection is not.
LEMMA WriteKeeps ==
  ASSUME TaskIInv, NEW j \in Tasks, WriteJSON(j)
  PROVE  TaskIInv'
<1> DEFINE s == [task[j] EXCEPT !.pc = "ended"]
           c == task[j].conn
<1>1. /\ task[j] \in TaskType /\ Sound(task[j]) /\ Balanced(j) /\ task[j].pc = "send"
      /\ c # NoConn /\ unanswered' = unanswered /\ task' = [task EXCEPT ![j] = s]
  BY DEF TaskIInv, TaskTypeOK, WriteJSON, Set
<1>2. c \in Conns
  BY <1>1 DEF TaskType
<1>3. \/ up[c] = "open" /\ copies' = [copies EXCEPT ![j] = copies[j] + 1] /\ up' = up
      \/ up[c] = "open" /\ up' = [up EXCEPT ![c] = "lost"] /\ copies' = copies
      \/ up[c] # "open" /\ up' = up /\ copies' = copies
  BY DEF WriteJSON
<1>4. s \in TaskType /\ s.pc = "ended" /\ s.conn = c
  BY <1>1 DEF TaskType
<1>5. Sound(s)
  BY <1>1 DEF Sound, Progress, Process, Truth, TaskType, Holding, Suspicious
<1>6. task'[j] = s /\ \A k \in Tasks \ {j} : task'[k] = task[k] /\ copies'[k] = copies[k]
  BY <1>1, <1>3 DEF TaskIInv, TaskTypeOK
<1> HIDE DEF s
<1>7. up' \in [Conns -> {"open", "lost", "closed"}] /\ copies' \in [Tasks -> Nat]
  BY <1>3 DEF TaskIInv, TaskTypeOK
<1>8. TaskTypeOK'
  BY <1>1, <1>4, <1>7 DEF TaskIInv, TaskTypeOK
<1>9. \A d \in Conns : up[d] # "open" => up'[d] # "open"
  BY <1>2, <1>3 DEF TaskIInv, TaskTypeOK
<1>10. Balanced(j)'
  <2>1. copies[j] = unanswered[j] /\ copies[j] \in Nat /\ copies'[j] \in {copies[j], copies[j] + 1}
    BY <1>1, <1>3 DEF Balanced, TaskIInv, TaskTypeOK
  <2>2. copies'[j] = copies[j] + 1 \/ up'[c] # "open"
    BY <1>2, <1>3 DEF TaskIInv, TaskTypeOK
  <2>3. CASE copies'[j] = copies[j] + 1
    BY <1>1, <1>4, <1>6, <2>1, <2>3 DEF Balanced
  <2>4. CASE up'[c] # "open"
    <3>1. Excused(j)'
      BY <1>1, <1>4, <1>6, <2>4 DEF Excused
    <3> QED BY <1>1, <1>4, <1>6, <2>1, <3>1 DEF Balanced
  <2> QED BY <2>2, <2>3, <2>4
<1>11. ASSUME NEW k \in Tasks \ {j} PROVE Balanced(k)'
  <2>1. Balanced(k) /\ task[k].conn \in Conns \cup {NoConn}
    BY DEF TaskIInv, TaskTypeOK, TaskType
  <2>2. Excused(k) => Excused(k)'
    BY <1>6, <1>9, <2>1 DEF Excused
  <2> QED BY <1>1, <1>6, <2>1, <2>2 DEF Balanced
<1>12. ASSUME NEW k \in Tasks PROVE Sound(task'[k])
  BY <1>5, <1>6 DEF TaskIInv
<1> QED BY <1>8, <1>10, <1>11, <1>12 DEF TaskIInv

\* A connection that goes only adds to what excuses a lost answer.
LEMMA ConnectionKeeps ==
  ASSUME TaskIInv, NEW c \in Conns, Lose(c) \/ Close(c)
  PROVE  TaskIInv'
<1>1. /\ task' = task /\ copies' = copies /\ unanswered' = unanswered
      /\ up' = [up EXCEPT ![c] = "lost"] \/ up' = [up EXCEPT ![c] = "closed"]
  BY DEF Lose, Close
<1>2. TaskTypeOK'
  BY <1>1 DEF TaskIInv, TaskTypeOK
<1>3. \A d \in Conns : up[d] # "open" => up'[d] # "open"
  BY <1>1 DEF TaskIInv, TaskTypeOK
<1>4. ASSUME NEW k \in Tasks PROVE Balanced(k)' /\ Sound(task'[k])
  <2>1. Balanced(k) /\ Sound(task[k]) /\ task[k].conn \in Conns \cup {NoConn}
    BY DEF TaskIInv, TaskTypeOK, TaskType
  <2>2. Excused(k) => Excused(k)'
    BY <1>1, <1>3, <2>1 DEF Excused
  <2> QED BY <1>1, <2>1, <2>2 DEF Balanced
<1> QED BY <1>2, <1>4 DEF TaskIInv

\* Nothing is claimed of a request whose agent ended.
LEMMA CrashKeeps ==
  ASSUME TaskIInv, TaskCrash
  PROVE  TaskIInv'
<1>1. /\ task' = [j \in Tasks |-> IF j \in Active THEN [task[j] EXCEPT !.pc = "crashed"] ELSE task[j]]
      /\ up' = up /\ copies' = copies /\ unanswered' = unanswered
  BY DEF TaskCrash, Unsent
<1>2. ASSUME NEW k \in Tasks
      PROVE  task'[k] \in TaskType /\ Balanced(k)' /\ Sound(task'[k])
  <2>1. task[k] \in TaskType /\ Balanced(k) /\ Sound(task[k])
    BY DEF TaskIInv, TaskTypeOK
  <2>2. CASE k \notin Active
    <3>1. task'[k] = task[k]
      BY <1>1, <2>2
    <3> QED BY <1>1, <2>1, <3>1 DEF Balanced, Excused
  <2>3. CASE k \in Active
    <3> DEFINE s == [task[k] EXCEPT !.pc = "crashed"]
    <3>1. task'[k] = s
      BY <1>1, <2>3
    <3>2. s \in TaskType /\ s.pc = "crashed"
      BY <2>1 DEF TaskType
    <3>3. Sound(s)
      BY <2>1 DEF Sound, Progress, Process, Truth, TaskType
    <3> HIDE DEF s
    <3> QED BY <1>1, <2>1, <3>1, <3>2, <3>3 DEF Balanced
  <2> QED BY <2>2, <2>3
<1>3. TaskTypeOK'
  BY <1>1, <1>2 DEF TaskIInv, TaskTypeOK
<1> QED BY <1>2, <1>3 DEF TaskIInv

(***************************************************************************)
(* The invariant and what follows from it.                                 *)
(***************************************************************************)

LEMMA TaskInitHolds == TaskInit => TaskIInv
<1> SUFFICES ASSUME TaskInit PROVE TaskIInv
  OBVIOUS
<1>1. NoTask \in TaskType
  BY DEF NoTask, TaskType
<1>2. Sound(NoTask)
  BY DEF Sound, Progress, Process, Truth, NoTask
<1>3. NoTask.pc = "idle"
  BY DEF NoTask
<1>4. TaskTypeOK
  BY <1>1 DEF TaskInit, TaskTypeOK
<1>5. ASSUME NEW j \in Tasks PROVE Sound(task[j]) /\ Balanced(j)
  BY <1>2, <1>3 DEF TaskInit, Balanced
<1> QED BY <1>4, <1>5 DEF TaskIInv

LEMMA TaskStep == TaskIInv /\ [TaskNext]_taskVars => TaskIInv'
<1> SUFFICES ASSUME TaskIInv, [TaskNext]_taskVars PROVE TaskIInv'
  OBVIOUS
<1>1. CASE UNCHANGED taskVars
  BY <1>1 DEF taskVars, TaskIInv, TaskTypeOK, Balanced, Excused
<1>2. ASSUME NEW j \in Tasks,
             \/ Receive(j) \/ Fork(j) \/ ShellExits(j) \/ KidExits(j) \/ Deadline(j)
             \/ Work(j) \/ measure(j) \/ measureAgain(j)
      PROVE  TaskIInv'
  <2>1. CASE Post(j)
    BY <2>1, PostKeeps
  <2>2. CASE WriteJSON(j)
    BY <2>2, WriteKeeps
  <2>3. CASE ~Post(j) /\ ~WriteJSON(j)
    <3>1. CalmStep(j)
      BY <1>2, <2>3, ReceiveStep, CommandStep, CommandAnswered, MeasureStep DEF Work
    <3> QED BY <3>1, CalmKeeps
  <2> QED BY <2>1, <2>2, <2>3
<1>3. ASSUME NEW c \in Conns, Lose(c) \/ Close(c) PROVE TaskIInv'
  BY <1>3, ConnectionKeeps
<1>4. CASE TaskCrash
  BY <1>4, CrashKeeps
<1> QED BY <1>1, <1>2, <1>3, <1>4 DEF TaskNext

LEMMA TaskInvariant == TaskSpec => []TaskIInv
BY TaskInitHolds, TaskStep, PTL DEF TaskSpec

\* The records of the requests keep their types: a request is sent at most as
\* often as its kind allows, a latency is one of those measured.
THEOREM TaskTypeCorrect == TaskSpec => []TaskTypeOK
<1>1. TaskIInv => TaskTypeOK
  BY DEF TaskIInv
<1> QED BY <1>1, TaskInvariant, PTL

\* However the panel's responses and the connections are lost, the panel gets an
\* answer again only if the agent did not learn that it had it, and never gets
\* one only for a reason (uploadTaskResult, postFileResult, NewPingTask).
THEOREM DeliveryCorrect == TaskSpec => []DeliveryAccounted
<1>1. TaskIInv => DeliveryAccounted
  BY DEF TaskIInv, Balanced, Excused, DeliveryAccounted
<1> QED BY <1>1, TaskInvariant, PTL

\* Whatever a command leaves behind and whenever the deadline passes, an answer
\* of 0 means success, a stopped control has stopped, and a latency was measured
\* (runTaskCommandWithTimeout, configureTaskCommand, measure).
THEOREM AnswersCorrect == TaskSpec => []AnswerMatchesProcess
<1>1. TaskIInv => AnswerMatchesProcess
  BY DEF TaskIInv, Sound, Process, Truth, Pings, Known, AnswerMatchesProcess
<1> QED BY <1>1, TaskInvariant, PTL
=============================================================================
