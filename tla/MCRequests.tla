----------------------------- MODULE MCRequests -----------------------------
(***************************************************************************)
(* The requests of the panel: what a file operation does to the tree and   *)
(* what the panel is told of it, and the commands and the pings.           *)
(*                                                                         *)
(* The two share no state, so a behaviour is about one of them, chosen at  *)
(* the start: in "files" the answer that TaskDelivery is to deliver is the *)
(* one of FileTree's operation; in "tasks" the tree stays as it is and any *)
(* answer is delivered, for delivery does not depend on the tree.          *)
(*                                                                         *)
(* The tree is a directory "a" of two levels beside an entry "b", and the  *)
(* same on a file system mounted at "m".                                   *)
(***************************************************************************)
EXTENDS FileTree, TaskDelivery

VARIABLE about

allVars == <<vars, taskVars, about>>

MCPaths == {<<"a">>, <<"a", "x">>, <<"a", "x", "y">>, <<"b">>, <<"b", "x">>,
             <<"m">>, <<"m", "x">>, <<"m", "x", "y">>}
MCMounts == {<<"m">>}
MCArguments == {Root, <<"a">>, <<"a", "x">>, <<"b">>, <<"m", "x">>}

MayBe(p) ==
  CASE p = <<"m">> -> {Dir}
    [] p \in {<<"a", "x", "y">>, <<"b", "x">>, <<"m", "x", "y">>} -> {Nothing, File("d2")}
    [] p = <<"b">> -> {Nothing, Dir, File("d2"), Link(<<"a">>), Link(<<"a", "x">>)}
    [] p = <<"m", "x">> -> {Nothing, Dir, File("d1"), Link(<<"a", "x">>)}
    [] OTHER -> {Nothing, Dir, File("d1")}

Bare == [p \in MCPaths |-> IF p \in MCMounts THEN Dir ELSE Nothing]

\* One path after the other is given something it may be.
MCTrees ==
  LET Extend(trees, p) == {Put(t, p, node) : t \in trees, node \in MayBe(p)}
  IN  {t \in FoldSet(LAMBDA p, trees : Extend(trees, p), {Bare}, MCPaths) : WellFormed(t)}

RequestsInit ==
  /\ Init /\ TaskInit
  /\ about \in {"files", "tasks"} /\ (about = "tasks" => tree = Bare)

\* The goroutine of the operation ends with the answer that is to be sent.
OperationEnds(j) ==
  /\ job.pc = "ended"
  /\ handleFileOperation(j)
  /\ task'[j].value = IF job.answer = "ok" THEN 0 ELSE Failed
  /\ UNCHANGED vars

FileRequest ==
  \/ Next /\ UNCHANGED taskVars
  \/ \E j \in Tasks : OperationEnds(j)

RequestsNext ==
  /\ UNCHANGED about
  /\ \/ about = "files" /\ FileRequest
     \/ about = "tasks" /\ TaskNext /\ UNCHANGED vars

RequestsSpec == RequestsInit /\ [][RequestsNext]_allVars /\ TaskFairness
=============================================================================
