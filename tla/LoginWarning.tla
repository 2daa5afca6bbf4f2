---------------------------- MODULE LoginWarning ----------------------------
(***************************************************************************)
(* The warning in /etc/motd: cmd/warn_linux.go.                            *)
(*                                                                         *)
(* The file is a sequence of the texts of others and of the agent's own    *)
(* block, which removeMOTDWarning finds by its first and its last line.    *)
(* The lines between two texts are left out.  A write is a temporary file  *)
(* that is renamed; nobody edits the file between a read and the write     *)
(* that follows it.                                                        *)
(***************************************************************************)
EXTENDS Sequences, SequencesExt

CONSTANTS
  Texts,       \* what others write into the file, each once
  MotdFails,   \* whether the file may not be readable or writable
  Warning, NoMotd

Lines == Texts \cup {Warning}

ASSUME WarningApart == Warning \notin Texts /\ NoMotd \notin Seq(Lines) /\ MotdFails \in BOOLEAN

VARIABLES
  motd,     \* the file
  cleanup,  \* what the function startSecurityWarning returned remembers
  untold    \* history: the texts nobody has written yet

warningVars == <<motd, cleanup, untold>>

\* The function does nothing.
NoCleanup == [due |-> FALSE, removable |-> FALSE, base |-> <<>>, installed |-> <<>>]

WarningInit ==
  /\ motd = NoMotd
  /\ cleanup = NoCleanup
  /\ untold = Texts

Content == IF motd = NoMotd THEN <<>> ELSE motd
Blocks(content) == {i \in DOMAIN content : content[i] = Warning}
\* removeMOTDWarning refuses a file with several blocks.
Readable == \A i, j \in Blocks(Content) : i = j
\* The one block is cut out.
Base(content) ==
  IF \E i \in Blocks(content) : Blocks(content) = {i}
  THEN RemoveAt(content, CHOOSE i \in Blocks(content) : TRUE)
  ELSE content

\* writeMOTD.
Write(content) == motd' = content \/ (MotdFails /\ UNCHANGED motd)

\* removeInstalledMOTDWarning: remote control is disabled.
RemoveInstalled ==
  /\ IF Readable /\ Blocks(Content) # {} THEN Write(Base(Content)) ELSE UNCHANGED motd
  /\ cleanup' = NoCleanup

\* installMOTDWarning.  If it fails there is nothing to undo.
Install ==
  LET base == Base(Content)
      updated == Append(base, Warning)
  IN \/ /\ Readable
        /\ motd' = updated
        /\ cleanup' = [due |-> TRUE, base |-> base, installed |-> updated,
                       removable |-> motd = NoMotd \/ (Blocks(Content) # {} /\ base = <<>>)]
     \/ /\ ~Readable \/ MotdFails
        /\ UNCHANGED motd
        /\ cleanup' = NoCleanup

StartSecurityWarning ==
  /\ RemoveInstalled \/ Install
  /\ UNCHANGED untold

\* Mutant: what was there at the start is put back over later edits.
StopWarningBlindly ==
  /\ IF cleanup.due /\ motd # NoMotd THEN Write(cleanup.base) ELSE UNCHANGED motd
  /\ cleanup' = NoCleanup
  /\ UNCHANGED untold

\* The function it returned: it runs once.  An unchanged file gets back what it
\* held, one that was edited loses the block only, and a file the agent has made
\* goes if nothing else is in it.
StopWarning ==
  /\ IF ~cleanup.due \/ motd = NoMotd THEN UNCHANGED motd
     ELSE IF motd = cleanup.installed
     THEN IF cleanup.removable
          THEN motd' = NoMotd \/ (MotdFails /\ UNCHANGED motd)
          ELSE Write(cleanup.base)
     ELSE IF ~Readable \/ Blocks(motd) = {} THEN UNCHANGED motd
     ELSE IF cleanup.removable /\ Base(motd) = <<>>
     THEN motd' = NoMotd \/ (MotdFails /\ UNCHANGED motd)
     ELSE Write(Base(motd))
  /\ cleanup' = NoCleanup
  /\ UNCHANGED untold

\* Somebody adds a text to the file, appends a copy of it with a text in between, or
\* puts a new file in its place.
Edit ==
  /\ \E t \in untold :
       /\ untold' = untold \ {t}
       /\ motd' \in {Append(Content, t), Content \o <<t>> \o Content, <<t>>}
  /\ UNCHANGED cleanup

\* The process is gone.
WarningGone == cleanup' = NoCleanup /\ UNCHANGED <<motd, untold>>

(***************************************************************************)
(* Properties.                                                             *)
(***************************************************************************)

\* Whatever others have written, and whenever, the agent leaves it as it is.
TextsKept == [][Edit \/ Base(Content') = Base(Content)]_warningVars
=============================================================================
