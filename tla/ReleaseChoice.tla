--------------------------- MODULE ReleaseChoice ----------------------------
(***************************************************************************)
(* Which release a snapshot agent installs: update/update.go.              *)
(*                                                                         *)
(* GitHub lists releases in pages, in no order that the code relies on.  A *)
(* release has a time, a tag, which is ordered like a name, and whether it *)
(* is one that the agent takes: a prerelease that is no draft, with a tag  *)
(* that begins with the prefix and an asset for this platform.             *)
(***************************************************************************)
EXTENDS Naturals, FiniteSets, Sequences, SequencesExt

CONSTANT PageSize

ASSUME PageConstant == PageSize \in Nat \ {0}

NoRelease == [time |-> 0, tag |-> 0, draft |-> FALSE, prerelease |-> TRUE, snapshot |-> TRUE, asset |-> TRUE]

\* selectLatestSnapshotRelease
Suitable(r) == ~r.draft /\ r.prerelease /\ r.snapshot /\ r.asset

Newer(r, s) == r.time > s.time \/ (r.time = s.time /\ r.tag > s.tag)

\* Mutant: the last one of the list, as if GitHub listed them by age.
selectLatestSnapshotReleaseAsListed(releases) ==
  FoldLeft(LAMBDA latest, r : IF Suitable(r) THEN r ELSE latest, NoRelease, releases)

selectLatestSnapshotRelease(releases) ==
  FoldLeft(LAMBDA latest, r : IF Suitable(r) /\ (latest = NoRelease \/ Newer(r, latest)) THEN r ELSE latest,
           NoRelease, releases)

\* listGitHubReleases: pages until one is not full.
Page(all, n) == SubSeq(all, (n - 1) * PageSize + 1, IF n * PageSize < Len(all) THEN n * PageSize ELSE Len(all))

listGitHubReleases(all) ==
  LET short == {n \in 1 .. Len(all) + 1 : Len(Page(all, n)) < PageSize}
      pages == CHOOSE n \in short : \A k \in short : n <= k
  IN FoldLeft(LAMBDA list, n : list \o Page(all, n), << >>, [n \in 1 .. pages |-> n])

\* checkAndUpdateSnapshot: the tag that runs afterwards; snapshotNeedsUpdate
\* compares the tags, so that a release that is older than the current is
\* installed as well when the current is no longer listed.
checkAndUpdateSnapshot(current, inContainer, all) ==
  LET latest == selectLatestSnapshotRelease(listGitHubReleases(all))
  IN IF inContainer \/ latest = NoRelease THEN current ELSE latest.tag

\* Whatever the order and the pages of the list, the agent ends up with the
\* newest release that it can run, or stays with its own if there is none; it
\* then stays there; and one in a container never changes (update.go).
ReleaseAgrees(q) ==
  LET suitable == {r \in Range(q.all) : Suitable(r)}
      next == checkAndUpdateSnapshot(q.current, q.inContainer, q.all)
  IN /\ q.inContainer \/ suitable = {} => next = q.current
     /\ ~q.inContainer /\ suitable # {} =>
          \E r \in suitable : r.tag = next /\ \A s \in suitable : r = s \/ Newer(r, s)
     /\ checkAndUpdateSnapshot(next, q.inContainer, Reverse(q.all)) = next
=============================================================================
