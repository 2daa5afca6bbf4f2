-------------------------- MODULE AgentLifeProofs --------------------------
(***************************************************************************)
(* What AgentLife guarantees whatever the number of registrations and      *)
(* releases: the exit code of an update is never forgotten, the agent works *)
(* as one client of the panel, and what others wrote in /etc/motd stays.   *)
(***************************************************************************)
EXTENDS AgentLife, SequenceTheorems, TLAPS

(***************************************************************************)
(* The exit code.                                                          *)
(***************************************************************************)

\* The caller has called shutdown.
Asked(a) == call[a] \notin {"none", "asking"}

\* The highest code of those who have called is the one that is remembered.
CodeKept ==
  /\ call = [a \in Callers |-> call[a]]
  /\ exitCode \in {0, 42}
  /\ exitCode = 42 <=> \E a \in Callers : Code(a) = 42 /\ Asked(a)

\* A step that moves no caller across its call of shutdown and leaves the code alone.
LEMMA SameCallers ==
  ASSUME CodeKept, exitCode' = exitCode, call' = [a \in Callers |-> call'[a]],
         \A a \in Callers : Asked(a)' <=> Asked(a)
  PROVE  CodeKept'
BY DEF CodeKept, Code

LEMMA AskKeepsCode == ASSUME CodeKept, NEW a \in Callers, Ask(a) PROVE CodeKept'
<1>1. call' = [b \in Callers |-> call'[b]] /\ call'[a] = "waiting" /\ \A b \in Callers \ {a} : call'[b] = call[b]
  BY DEF Ask, CodeKept
<1>2. CASE Code(a) = 42
  <2>1. exitCode' = 42
    BY <1>2 DEF Ask, CodeKept
  <2> QED BY <1>1, <1>2, <2>1 DEF CodeKept, Asked, Code
<1>3. CASE Code(a) = 0
  <2>1. exitCode' = exitCode
    BY <1>3 DEF Ask, CodeKept
  <2> QED BY <1>1, <1>3, <2>1 DEF CodeKept, Asked, Code
<1> QED BY <1>2, <1>3 DEF Code

LEMMA ShutdownKeepsCode == ASSUME CodeKept, NEW a \in Callers, Shutdown(a) PROVE CodeKept'
<1>1. CASE Enter(a)
  BY <1>1, SameCallers DEF Enter, CodeKept, Asked
<1>2. CASE RemoveWarning(a)
  BY <1>2, SameCallers DEF RemoveWarning, CodeKept, Asked
<1>3. CASE StopStatistics(a)
  BY <1>3, SameCallers DEF StopStatistics, CodeKept, Asked
<1>4. CASE ReadCode(a)
  BY <1>4, SameCallers DEF ReadCode, CodeKept, Asked
<1>5. CASE Exit(a)
  BY <1>5 DEF Exit, callVars, CodeKept, Asked
<1> QED BY <1>1, <1>2, <1>3, <1>4, <1>5, AskKeepsCode DEF Shutdown

LEMMA InstallsKeepsCode ==
  ASSUME CodeKept, NEW a \in Callers, Installs(a), exitCode' = exitCode, call[a] = "none"
  PROVE  CodeKept'
BY SameCallers DEF Installs, CodeKept, Asked

\* The main goroutine asks for shutdown last of all it does.
MainFree == main # "stopping" => call["main"] = "none"

CodeInv == CodeKept /\ MainFree

LEMMA FreshCode == Fresh => CodeInv'
<1> SUFFICES ASSUME Fresh PROVE CodeInv'
  OBVIOUS
<1>1. call' = [a \in Callers |-> call'[a]] /\ \A a \in Callers : call'[a] = "none"
  BY DEF Fresh
<1> QED BY <1>1 DEF Fresh, CodeInv, CodeKept, MainFree, Asked, Callers

LEMMA ShutdownKeepsFree == ASSUME CodeInv, NEW a \in Callers, Shutdown(a) PROVE MainFree'
<1>1. main' = main /\ \A b \in Callers \ {a} : call'[b] = call[b]
  BY DEF Shutdown, Ask, Enter, RemoveWarning, StopStatistics, ReadCode, Exit, callVars, CodeInv, CodeKept
<1>2. call[a] = "none" => call'[a] = "none"
  BY DEF Shutdown, Ask, Enter, RemoveWarning, StopStatistics, ReadCode, Exit, callVars
<1> QED BY <1>1, <1>2 DEF CodeInv, MainFree, Callers

LEMMA MainKeepsCode == ASSUME CodeInv, MainStep PROVE CodeInv'
<1>1. CASE StartWarning \/ Discover \/ Discovered \/ ReturnWithError
  BY <1>1 DEF StartWarning, Discover, Discovered, ReturnWithError, Main, callVars, CodeInv, CodeKept, MainFree, Asked
<1>2. CASE DiscoveryFailed
  <2>1. CodeKept'
    BY <1>2, SameCallers DEF DiscoveryFailed, CodeInv, CodeKept, Asked
  <2> QED BY <1>2, <2>1 DEF DiscoveryFailed, Main, CodeInv, CodeKept, MainFree
<1>3. CASE CheckForUpdate
  <2>1. CASE Main("update", "loop") /\ UNCHANGED call
    BY <1>3, <2>1 DEF CheckForUpdate, Main, CodeInv, CodeKept, MainFree, Asked
  <2>2. CASE Main("update", "stopping") /\ Installs("main")
    BY <1>3, <2>2, InstallsKeepsCode DEF CheckForUpdate, Main, CodeInv, MainFree, Callers
  <2> QED BY <1>3, <2>1, <2>2 DEF CheckForUpdate
<1> QED BY <1>1, <1>2, <1>3 DEF MainStep

LEMMA CodeStep == CodeInv /\ [Next]_vars => CodeInv'
<1> SUFFICES ASSUME CodeInv, [Next]_vars PROVE CodeInv'
  OBVIOUS
<1>1. CASE ScheduledUpdate
  <2>1. CodeKept'
    BY <1>1, InstallsKeepsCode DEF ScheduledUpdate, CodeInv, Callers
  <2> QED BY <1>1, <2>1 DEF ScheduledUpdate, Installs, CodeInv, CodeKept, MainFree
<1>2. CASE Signal
  <2>1. CodeKept'
    BY <1>2, SameCallers DEF Signal, CodeInv, CodeKept, Asked
  <2> QED BY <1>2, <2>1 DEF Signal, CodeInv, CodeKept, MainFree
<1>3. CASE \E a \in Callers : Shutdown(a)
  BY <1>3, ShutdownKeepsCode, ShutdownKeepsFree DEF CodeInv
<1>4. CASE Edited \/ Crash \/ UNCHANGED vars
  BY <1>4 DEF Edited, Crash, vars, lifeVars, callVars, CodeInv, CodeKept, MainFree, Asked
<1>5. CASE Start
  BY <1>5, FreshCode DEF Start
<1> QED BY <1>1, <1>2, <1>3, <1>4, <1>5, MainKeepsCode DEF Next

\* Whoever carries the shutdown out, whoever asks meanwhile: the process ends with
\* the code that restarts it if and only if an update has asked for it by the time the
\* code is read, in every life of the agent.
THEOREM ExitCodeCorrect == Spec => HighestCodeWins
<1>1. Init => CodeInv
  <2> SUFFICES ASSUME Init PROVE CodeInv
    OBVIOUS
  <2>1. call = [a \in Callers |-> call[a]] /\ \A a \in Callers : call[a] = "none"
    BY DEF Init
  <2> QED BY <2>1 DEF Init, CodeInv, CodeKept, MainFree, Asked, Callers
<1>2. CodeInv => [(\E a \in Callers : ReadCode(a)) =>
                    (chosen' = 42 <=> \E a \in Callers : Code(a) = 42 /\ call[a] \notin {"none", "asking"})]_vars
  BY DEF CodeInv, CodeKept, Asked, ReadCode
<1> QED BY <1>1, <1>2, CodeStep, PTL DEF Spec, HighestCodeWins

(***************************************************************************)
(* The identity.                                                           *)
(***************************************************************************)

\* Once the agent has worked as a client, the file names that client and handleAutoDiscovery
\* does not get past loading it.
OneClient ==
  /\ clients \in 0 .. MaxClients
  /\ step \in {"save", "write"} => clients > 0
  /\ identity # NoClient => identity \in Clients /\ config = identity /\ step \in {"load", "done"}

Identified == identity # NoClient => identity' = identity

LEMMA DiscoveryStep == OneClient /\ HandleAutoDiscovery => OneClient' /\ Identified
<1> SUFFICES ASSUME OneClient, HandleAutoDiscovery PROVE OneClient' /\ Identified
  OBVIOUS
<1> USE ClientsBound DEF ClientsBound, Clients
<1>1. CASE LoadConfig
  BY <1>1 DEF LoadConfig, OneClient, Identified
<1>2. CASE Register
  BY <1>2 DEF Register, OneClient, Identified
<1>3. CASE TruncateConfig
  BY <1>3 DEF TruncateConfig, OneClient, Identified
<1>4. CASE WriteConfig
  BY <1>4 DEF WriteConfig, OneClient, Identified
<1> QED BY <1>1, <1>2, <1>3, <1>4 DEF HandleAutoDiscovery

LEMMA IdentityStep == OneClient /\ [Next]_vars => OneClient' /\ Identified
<1> SUFFICES ASSUME OneClient, [Next]_vars PROVE OneClient' /\ Identified
  OBVIOUS
<1>1. ASSUME UNCHANGED discoveryVars PROVE OneClient' /\ Identified
  BY <1>1 DEF discoveryVars, OneClient, Identified
<1>2. ASSUME DiscoveryGone PROVE OneClient' /\ Identified
  BY <1>2 DEF DiscoveryGone, OneClient, Identified
<1>3. CASE MainStep
  BY <1>1, <1>2, <1>3, DiscoveryStep
     DEF MainStep, StartWarning, Discover, Discovered, DiscoveryFailed, ReturnWithError, CheckForUpdate
<1>4. CASE \E a \in Callers : Shutdown(a)
  BY <1>1, <1>2, <1>4 DEF Shutdown, Ask, Enter, RemoveWarning, StopStatistics, ReadCode, Exit
<1>5. CASE ScheduledUpdate \/ Signal \/ Edited \/ Crash \/ Start \/ UNCHANGED vars
  BY <1>1, <1>2, <1>5 DEF ScheduledUpdate, Signal, Edited, Crash, Start, vars
<1> QED BY <1>3, <1>4, <1>5 DEF Next

\* However often the agent crashes, fails to save, registers again or is replaced by an
\* update, it never works as a second client.
THEOREM IdentityCorrect == Spec => KeepsIdentity
<1>1. Init => OneClient
  BY ClientsBound DEF Init, DiscoveryInit, OneClient, ClientsBound
<1>2. OneClient /\ [Next]_vars => [Identified]_discoveryVars
  BY IdentityStep
<1>3. Spec => [][Identified]_discoveryVars
  BY <1>1, <1>2, IdentityStep, PTL DEF Spec
<1> QED BY <1>3 DEF KeepsIdentity, Identified

(***************************************************************************)
(* The warning.                                                            *)
(***************************************************************************)

\* What others have written holds no block.
LEMMA NoBlock == ASSUME NEW b \in Seq(Texts) PROVE Blocks(b) = {} /\ Base(b) = b
<1>1. Blocks(b) = {}
  BY WarningApart, ElementOfSeq DEF Blocks
<1> QED BY <1>1 DEF Base

\* Without its one block, a file is what others have written.
LEMMA BlockCut ==
  ASSUME NEW c \in Seq(Lines), \A i, j \in Blocks(c) : i = j
  PROVE  Base(c) \in Seq(Texts) /\ Base(Base(c)) = Base(c)
<1>1. CASE Blocks(c) = {}
  <2>1. \A k \in 1 .. Len(c) : c[k] \in Texts
    BY <1>1, ElementOfSeq DEF Blocks, Lines
  <2>2. c \in Seq(Texts)
    BY <2>1
  <2> QED BY <1>1, <2>2, NoBlock DEF Base
<1>2. CASE Blocks(c) # {}
  <2>1. PICK i \in Blocks(c) : Blocks(c) = {i} /\ Base(c) = RemoveAt(c, i)
    BY <1>2 DEF Base
  <2>2. i \in 1 .. Len(c) /\ \A k \in 1 .. Len(c) : k # i => c[k] \in Texts
    BY <2>1, ElementOfSeq DEF Blocks, Lines
  <2>3. SubSeq(c, 1, i - 1) \in Seq(Texts)
    BY <2>2
  <2>4. SubSeq(c, i + 1, Len(c)) \in Seq(Texts)
    BY <2>2
  <2>5. Base(c) \in Seq(Texts)
    BY <2>1, <2>3, <2>4 DEF RemoveAt
  <2> QED BY <2>5, NoBlock
<1> QED BY <1>1, <1>2

\* The block that was put under it can be cut off again.
LEMMA BlockPut ==
  ASSUME NEW b \in Seq(Texts)
  PROVE  Append(b, Warning) \in Seq(Lines) /\ Base(Append(b, Warning)) = b
<1> DEFINE c == Append(b, Warning)
<1>1. /\ c \in Seq(Lines) /\ Len(c) = Len(b) + 1 /\ c[Len(b) + 1] = Warning
      /\ \A k \in 1 .. Len(b) : c[k] = b[k]
  BY DEF Lines
<1>2. Blocks(c) = {Len(b) + 1}
  BY <1>1, WarningApart, ElementOfSeq DEF Blocks
<1>3. Base(c) = RemoveAt(c, Len(b) + 1)
  BY <1>2 DEF Base
<1>4. RemoveAt(c, Len(b) + 1) = b
  BY <1>1 DEF RemoveAt
<1> QED BY <1>1, <1>3, <1>4

\* The file is a sequence of lines, and what the cleanup function puts back is what
\* it would find there if nobody had edited the file since.
Remembered ==
  /\ motd = NoMotd \/ motd \in Seq(Lines)
  /\ untold \subseteq Texts
  /\ cleanup.due => /\ cleanup.base \in Seq(Texts)
                    /\ cleanup.installed = Append(cleanup.base, Warning)
                    /\ cleanup.removable => cleanup.base = <<>>

\* The texts of others stay.
Kept == Base(Content') = Base(Content)

LEMMA ContentTyped == ASSUME Remembered PROVE Content \in Seq(Lines)
BY DEF Remembered, Content

\* A write of what the file holds without the block keeps the texts.
LEMMA WriteKeeps ==
  ASSUME Remembered, NEW b \in Seq(Texts), b = Base(Content), Write(b)
  PROVE  (motd' = NoMotd \/ motd' \in Seq(Lines)) /\ Kept
<1>1. CASE motd' = b
  <2>1. b \in Seq(Lines) /\ b # NoMotd
    BY WarningApart DEF Lines
  <2>2. Content' = b
    BY <1>1, <2>1 DEF Content
  <2> QED BY <1>1, <2>1, <2>2, NoBlock DEF Kept
<1>2. CASE UNCHANGED motd
  BY <1>2 DEF Remembered, Kept, Content
<1> QED BY <1>1, <1>2 DEF Write

LEMMA StartKeeps == ASSUME Remembered, StartSecurityWarning PROVE Remembered' /\ Kept
<1>1. Content \in Seq(Lines)
  BY ContentTyped
<1>2. CASE RemoveInstalled
  <2>1. (motd' = NoMotd \/ motd' \in Seq(Lines)) /\ Kept
    <3>1. CASE Readable /\ Blocks(Content) # {}
      BY <1>1, <1>2, <3>1, BlockCut, WriteKeeps DEF RemoveInstalled, Readable
    <3>2. CASE ~ (Readable /\ Blocks(Content) # {})
      BY <1>2, <3>2 DEF RemoveInstalled, Remembered, Kept, Content
    <3> QED BY <3>1, <3>2
  <2> QED BY <1>2, <2>1 DEF RemoveInstalled, StartSecurityWarning, NoCleanup, Remembered
<1>3. CASE Install
  <2>1. CASE UNCHANGED motd /\ cleanup' = NoCleanup
    BY <2>1 DEF StartSecurityWarning, NoCleanup, Remembered, Kept, Content
  <2>2. CASE /\ Readable /\ motd' = Append(Base(Content), Warning)
             /\ cleanup' = [due |-> TRUE, base |-> Base(Content), installed |-> Append(Base(Content), Warning),
                            removable |-> motd = NoMotd \/ (Blocks(Content) # {} /\ Base(Content) = <<>>)]
    <3>1. Base(Content) \in Seq(Texts) /\ Base(Base(Content)) = Base(Content)
      BY <1>1, <2>2, BlockCut DEF Readable
    <3>2. motd' \in Seq(Lines) /\ Base(motd') = Base(Content)
      BY <2>2, <3>1, BlockPut
    <3>3. Content' = motd'
      BY <3>2, WarningApart DEF Content
    <3>4. motd = NoMotd => Base(Content) = <<>>
      <4>1. <<>> \in Seq(Texts)
        OBVIOUS
      <4> QED BY <4>1, NoBlock DEF Content
    <3> QED BY <2>2, <3>1, <3>2, <3>3, <3>4 DEF StartSecurityWarning, Remembered, Kept
  <2> QED BY <1>3, <2>1, <2>2 DEF Install
<1> QED BY <1>2, <1>3 DEF StartSecurityWarning

LEMMA StopKeeps == ASSUME Remembered, StopWarning PROVE Remembered' /\ Kept
<1> SUFFICES (motd' = NoMotd \/ motd' \in Seq(Lines)) /\ Kept
  BY DEF StopWarning, NoCleanup, Remembered
<1>1. CASE UNCHANGED motd
  BY <1>1 DEF Remembered, Kept, Content
<1>2. ASSUME Base(Content) = <<>>, motd' = NoMotd PROVE Kept
  <2>1. <<>> \in Seq(Texts)
    OBVIOUS
  <2> QED BY <1>2, <2>1, NoBlock DEF Kept, Content
<1>3. CASE cleanup.due /\ motd # NoMotd /\ motd = cleanup.installed
  <2>1. cleanup.base \in Seq(Texts) /\ Base(Content) = cleanup.base
    BY <1>3, BlockPut DEF Remembered, Content
  <2>2. CASE cleanup.removable
    BY <1>1, <1>2, <1>3, <2>1, <2>2 DEF StopWarning, Remembered
  <2>3. CASE ~cleanup.removable
    BY <1>3, <2>1, <2>3, WriteKeeps DEF StopWarning
  <2> QED BY <2>2, <2>3
<1>4. CASE cleanup.due /\ motd # NoMotd /\ motd # cleanup.installed /\ Readable /\ Blocks(motd) # {}
  <2>1. Content = motd /\ Base(motd) \in Seq(Texts)
    BY <1>4, ContentTyped, BlockCut DEF Content, Readable
  <2>2. CASE cleanup.removable /\ Base(motd) = <<>>
    BY <1>1, <1>2, <1>4, <2>1, <2>2 DEF StopWarning
  <2>3. CASE ~ (cleanup.removable /\ Base(motd) = <<>>)
    BY <1>4, <2>1, <2>3, WriteKeeps DEF StopWarning
  <2> QED BY <2>2, <2>3
<1> QED BY <1>1, <1>3, <1>4 DEF StopWarning

LEMMA EditKeeps == ASSUME Remembered, Edit PROVE Remembered'
<1>1. PICK t \in untold : untold' = untold \ {t}
        /\ motd' \in {Append(Content, t), Content \o <<t>> \o Content, <<t>>}
  BY DEF Edit
<1>2. Content \in Seq(Lines) /\ t \in Lines
  BY <1>1, ContentTyped DEF Remembered, Lines
<1>3. <<t>> \in Seq(Lines)
  BY <1>2
<1>4. /\ Append(Content, t) \in Seq(Lines) /\ Content \o <<t>> \in Seq(Lines)
      /\ (Content \o <<t>>) \o Content \in Seq(Lines)
  BY <1>2, <1>3
<1> QED BY <1>1, <1>3, <1>4 DEF Edit, Remembered

LEMMA WarningStep == Remembered /\ [Next]_vars => Remembered' /\ [Edit \/ Kept]_warningVars
<1> SUFFICES ASSUME Remembered, [Next]_vars PROVE Remembered' /\ (Edit \/ Kept)
  OBVIOUS
<1>1. ASSUME UNCHANGED warningVars PROVE Remembered' /\ Kept
  BY <1>1 DEF warningVars, Remembered, Kept, Content
<1>2. ASSUME WarningGone PROVE Remembered' /\ Kept
  BY <1>2 DEF WarningGone, NoCleanup, Remembered, Kept, Content
<1>3. CASE MainStep
  BY <1>1, <1>2, <1>3, StartKeeps, StopKeeps
     DEF MainStep, StartWarning, Discover, Discovered, DiscoveryFailed, ReturnWithError, CheckForUpdate
<1>4. CASE \E a \in Callers : Shutdown(a)
  BY <1>1, <1>2, <1>4, StopKeeps DEF Shutdown, Ask, Enter, RemoveWarning, StopStatistics, ReadCode, Exit
<1>5. CASE Edited
  BY <1>5, EditKeeps DEF Edited
<1>6. CASE ScheduledUpdate \/ Signal \/ Crash \/ Start \/ UNCHANGED vars
  BY <1>1, <1>2, <1>6 DEF ScheduledUpdate, Signal, Crash, Start, vars
<1> QED BY <1>3, <1>4, <1>5, <1>6 DEF Next

\* Whatever others write into /etc/motd, before the block, after it or in its place, and
\* however often the agent starts, ends or crashes, it leaves their texts as they are
\* (installMOTDWarning, removeMOTDWarning).
THEOREM WarningCorrect == Spec => TextsKept
<1>1. Init => Remembered
  BY DEF Init, WarningInit, NoCleanup, Remembered
<1>2. Spec => [][Edit \/ Kept]_warningVars
  BY <1>1, WarningStep, PTL DEF Spec
<1> QED BY <1>2 DEF TextsKept, Kept
=============================================================================
