------------------------------ MODULE ClientConfig ------------------------------
(***************************************************************************)
(* marketplace_connector/cli.py: the configuration file of an MCP client,  *)
(* as install --write and setup change it.  The file is the operator's:    *)
(* it has other servers and settings, the client rewrites it when it       *)
(* likes, and another install may run beside this one.  Every install is a *)
(* process, which may be killed between any two of its steps.              *)
(*                                                                         *)
(* A document is the marketplace entry and the rest; the rest is told by   *)
(* the change that made it.                                                *)
(***************************************************************************)
EXTENDS Naturals, FiniteSets

CONSTANTS
  Installs,    \* processes that install
  Orders,      \* what they are asked: [asked, force, dry]
  MaxChanges,  \* changes the client or the operator makes
  MaxSecond    \* the clock backups are named by

VARIABLES
  config,   \* the file: NoFile or a document
  backups,  \* a function from names of backups to what is in them
  second,   \* the clock
  clash,    \* (ghost) two installs have named the same backup at once
  changes,  \* changes made by others so far
  install   \* where each install is

vars == <<config, backups, second, clash, changes, install>>

Profiles == {"compare", "full"}
Default  == "compare"
None     == "none"

\* An entry may also run a profile from another place, or another command; a
\* file may be no JSON object.
Entries == Profiles \cup {None, "full elsewhere", "foreign"}

Document(entry, rest) == [entry |-> entry, rest |-> rest]

NoFile    == Document("no file", 0)
Torn      == Document("torn", 0)
Malformed == "malformed"

Idle == [at |-> "idle"]

At(p, place) == install[p].at = place

Ended(p, exit) == install' = [install EXCEPT ![p] = [at |-> "ended", exit |-> exit]]

Start(p, order) ==
  /\ At(p, "idle")
  /\ install' = [install EXCEPT ![p] = [at |-> "choosing", order |-> order]]
  /\ UNCHANGED <<config, backups, second, clash, changes>>

\* _configured_profile(): without --profile, what the entry already runs, if it
\* can be read.
Configured ==
  {Default} \cup {e \in Profiles : config.entry = e} \cup {e \in {"full"} : config.entry = "full elsewhere"}

Wanted(order) == IF order.asked = None THEN Configured ELSE {order.asked}

Choose(p) ==
  /\ At(p, "choosing")
  /\ \E want \in Wanted(install[p].order) :
       install' = [install EXCEPT ![p] = [at |-> "reading", order |-> @.order, want |-> want]]
  /\ UNCHANGED <<config, backups, second, clash, changes>>

Conflict(p) == config.entry \in Entries \ {None, install[p].want}

\* A file that cannot be understood or read, or a conflict without --force.
Refuse(p) ==
  /\ At(p, "reading")
  /\ \/ config.entry = Malformed
     \/ config # NoFile
     \/ Conflict(p) /\ ~install[p].order.force
  /\ Ended(p, 2)
  /\ UNCHANGED <<config, backups, second, clash, changes>>

\* A dry run, or the entry is there already.
NothingToWrite(p) ==
  /\ At(p, "reading")
  /\ config.entry # Malformed
  /\ Conflict(p) => install[p].order.force
  /\ install[p].order.dry \/ config.entry = install[p].want
  /\ Ended(p, 0)
  /\ UNCHANGED <<config, backups, second, clash, changes>>

Read(p) ==
  /\ At(p, "reading")
  /\ config.entry # Malformed
  /\ Conflict(p) => install[p].order.force
  /\ ~install[p].order.dry /\ config.entry # install[p].want
  /\ install' = [install EXCEPT ![p] = [at |-> "naming", order |-> @.order, want |-> @.want, seen |-> config]]
  /\ UNCHANGED <<config, backups, second, clash, changes>>

\* What the install goes on to write, and what it has saved: NoFile, nothing.
Writing(p, place, name, saved) ==
  install' = [install EXCEPT ![p] = [at |-> place, order |-> @.order, want |-> @.want, seen |-> @.seen,
                                     name |-> name, saved |-> saved]]

\* Nothing to back up: path.exists() is asked again.
NoBackup(p) ==
  /\ At(p, "naming")
  /\ config = NoFile
  /\ Writing(p, "drafting", None, NoFile)
  /\ UNCHANGED <<config, backups, second, clash, changes>>

Least(S) == CHOOSE i \in S : \A j \in S : i <= j

\* Fault: the second alone is the name, whoever has it.
StampOnly == <<second, 0>>

\* _backup_path(): the first name of this second that no file has.
BackupName ==
  LET free == {i \in 0..Cardinality(DOMAIN backups) : <<second, i>> \notin DOMAIN backups}
  IN  <<second, Least(free)>>

NameBackup(p) ==
  /\ At(p, "naming")
  /\ config # NoFile
  /\ Writing(p, "copying", BackupName, NoFile)
  /\ clash' = (clash \/ \E q \in Installs \ {p} : At(q, "copying") /\ install[q].name = BackupName)
  /\ UNCHANGED <<config, backups, second, changes>>

Stored(name, d) == [n \in DOMAIN backups \cup {name} |-> IF n = name THEN d ELSE backups[n]]

\* copy2() has both files open, and the backup is empty.
Copy(p) ==
  /\ At(p, "copying")
  /\ config # NoFile
  /\ backups' = Stored(install[p].name, Torn)
  /\ Writing(p, "saving", install[p].name, config)
  /\ UNCHANGED <<config, second, clash, changes>>

Copied(p) ==
  /\ At(p, "saving")
  /\ backups' = Stored(install[p].name, install[p].saved)
  /\ Writing(p, "drafting", install[p].name, install[p].saved)
  /\ UNCHANGED <<config, second, clash, changes>>

\* "No backup, no change"; a disk that is full leaves half a copy.
CopyFails(p) ==
  /\ install[p].at \in {"copying", "saving"}
  /\ Ended(p, 3)
  /\ UNCHANGED <<config, backups, second, clash, changes>>

\* _atomic_write_json(): the document is written beside the file, in a file of
\* this install's own.
Draft(p) ==
  /\ At(p, "drafting")
  /\ Writing(p, "replacing", install[p].name, install[p].saved)
  /\ UNCHANGED <<config, backups, second, clash, changes>>

DraftFails(p) ==
  /\ At(p, "drafting")
  /\ Ended(p, 3)
  /\ UNCHANGED <<config, backups, second, clash, changes>>

\* The merged document: the rest as it was read.
Merged(p) == Document(install[p].want, install[p].seen.rest)

\* os.replace(): the file is the draft, or what it was.
Replace(p) ==
  /\ At(p, "replacing")
  /\ config' = Merged(p)
  /\ Ended(p, 0)
  /\ UNCHANGED <<backups, second, clash, changes>>

ReplaceFails(p) ==
  /\ At(p, "replacing")
  /\ Ended(p, 3)
  /\ UNCHANGED <<config, backups, second, clash, changes>>

Killed(p) ==
  /\ install[p].at \notin {"idle", "ended"}
  /\ Ended(p, 137)
  /\ UNCHANGED <<config, backups, second, clash, changes>>

\* Nothing is left to do.
Over == (\A p \in Installs : At(p, "ended")) /\ UNCHANGED vars

\* The client or the operator writes the file, with whatever entry.
ChangeElsewhere ==
  /\ changes < MaxChanges
  /\ changes' = changes + 1
  /\ config' \in {Document(e, changes + 1) : e \in Entries \cup {Malformed}}
  /\ UNCHANGED <<backups, second, clash, install>>

Tick ==
  /\ second < MaxSecond
  /\ second' = second + 1
  /\ UNCHANGED <<config, backups, clash, changes, install>>

Init ==
  /\ config \in {NoFile} \cup {Document(e, 0) : e \in Entries \cup {Malformed}}
  /\ backups = [n \in {} |-> NoFile]
  /\ second = 0
  /\ clash = FALSE
  /\ changes = 0
  /\ install = [p \in Installs |-> Idle]

Next ==
  \/ \E p \in Installs :
       \/ \E order \in Orders : Start(p, order)
       \/ Choose(p) \/ Refuse(p) \/ NothingToWrite(p) \/ Read(p) \/ NoBackup(p) \/ NameBackup(p)
       \/ Copy(p) \/ Copied(p) \/ CopyFails(p) \/ Draft(p) \/ DraftFails(p) \/ Replace(p) \/ ReplaceFails(p)
       \/ Killed(p)
  \/ ChangeElsewhere
  \/ Tick
  \/ Over

Spec == Init /\ [][Next]_vars
-----------------------------------------------------------------------------
(* Properties *)

Replaced(p) == At(p, "replacing") /\ install'[p] = [at |-> "ended", exit |-> 0]

(***************************************************************************)
(* "The file belongs to the operator: other servers and other settings     *)
(* stay untouched, a malformed file is never rewritten, and every change   *)
(* is backed up before it happens", whatever is killed and whenever.  An   *)
(* install that replaces the file it read keeps its rest, and its entry    *)
(* unless it was told to force it; one that replaces the file it copied    *)
(* leaves a whole copy of it; and no copy is ever lost again, unless two   *)
(* installs named theirs at once.  What others change while an install     *)
(* runs is beyond these promises, and may be lost.                         *)
(***************************************************************************)
OthersStay ==
  \A p \in Installs : Replaced(p) /\ config = install[p].seen =>
    /\ config'.rest = config.rest
    /\ config.entry # Malformed
    /\ config.entry # config'.entry /\ config.entry \in Entries \ {None} => install[p].order.force

BackedUp ==
  \A p \in Installs : Replaced(p) /\ config = install[p].saved /\ config # NoFile /\ ~clash =>
    config \in {backups[n] : n \in DOMAIN backups}

BackupsStay == ~clash' => \A n \in DOMAIN backups : backups[n] # Torn => n \in DOMAIN backups' /\ backups'[n] = backups[n]

ConfigStep == OthersStay /\ BackedUp /\ BackupsStay

ConfigKept == [][ConfigStep]_vars
=============================================================================
