------------------------------- MODULE Migration -------------------------------
(***************************************************************************)
(* uap-migrate (apps/migration-cli/src): it reads the configuration files  *)
(* of the MCP clients on a machine, imports the servers they name into the *)
(* gateway, adds the gateway to each file, removes the entries the gateway *)
(* serves, and undoes what it wrote from backups.  Each file it copies or  *)
(* writes is a step, and it may die between any two.                       *)
(***************************************************************************)
EXTENDS Onboarding

CONSTANTS
  File,          \* the configuration files, by path
  Creatable,     \* those install may create
  Installable,   \* those that may hold the gateway's key or a reference to it
  Served0,       \* what the files hold at first
  Absent,        \* in place of the contents of a file that is not there
  Unreadable,    \* or that cannot be parsed
  Canonical,     \* the canonical URL of each spelling, None for an unusable one
  Spelling       \* the spellings of URLs, and the command of a local server

(* A configuration: which names are taken, and by which URL.               *)
Gateway == "gateway"

ASSUME MigrationAssumption ==
  /\ IsFiniteSet(File) /\ Creatable \subseteq File /\ Installable \subseteq File
  /\ Gateway \in Name /\ Gateway \in Spelling
  /\ Canonical \in [Spelling -> Url \cup {None, Gateway}]
  /\ Served0 = [f \in File |-> Served0[f]]
  /\ \A f \in File : \/ Served0[f] \in {Absent, Unreadable}
                     \/ \E N \in SUBSET Name : Served0[f] \in [N -> Spelling]
  /\ \A N \in SUBSET Name : {Absent, Unreadable} \cap [N -> Spelling] = {}

VARIABLES
  files,      \* the contents of each file: a function from names to spellings
  backups,    \* the backups that have a manifest, the oldest first
  torn,       \* those whose removal was interrupted: not every copy is there
  cli,        \* the command that runs
  died        \* history: a command died between its first edit and its manifest

migrationVars == <<files, backups, torn, cli, died>>

NoCommand ==
  [pc |-> "idle", command |-> None, plan |-> <<>>, entries |-> <<>>, urls |-> {}]

MigrationInit ==
  /\ files = Served0
  /\ backups = <<>>
  /\ torn = {}
  /\ cli = NoCommand
  /\ died = FALSE

Readable(f) == files[f] \notin {Absent, Unreadable}
Entries(f) == IF Readable(f) THEN DOMAIN files[f] ELSE {}

----------------------------------------------------------------------------
(* discover and import: each server once, by canonical URL, under the name *)
(* it has in the first file; the gateway's own entry is left out.          *)

Remote(f) ==
  {n \in Entries(f) : Canonical[files[f][n]] \notin {None, Gateway}}

DiscoveredUrls == UNION {{Canonical[files[f][n]] : n \in Remote(f)} : f \in File}

NamesFor(u) ==
  {n \in UNION {Remote(f) : f \in File} :
     \E f \in File : n \in Remote(f) /\ Canonical[files[f][n]] = u}

ImportItems ==
  LET urls == SetToSeq(DiscoveredUrls)
  IN  [k \in DOMAIN urls |->
         [url |-> urls[k], name |-> CHOOSE n \in NamesFor(urls[k]) : TRUE]]

(* The gateway goes on with an import whose command has died.              *)
ImportCommand(a) ==
  /\ cli = NoCommand
  /\ Import(a, ImportItems)
  /\ UNCHANGED migrationVars

----------------------------------------------------------------------------
(* install and prune *)

With(f, name, spelling) ==
  [n \in Entries(f) \cup {name} |-> IF n = name THEN spelling ELSE files[f][n]]
Without(f, names) == Restrict(files[f], DOMAIN files[f] \ names)

(* A file that cannot be parsed, or that the client would have to keep the *)
(* key in, is skipped; one that would not change is left out of the plan.  *)
InstallChanges ==
  {<<f, With(f, Gateway, Gateway)>> :
     f \in {g \in File : /\ files[g] # Unreadable
                         /\ files[g] = Absent => g \in Creatable
                         /\ g \in Installable
                         /\ files[g] = Absent \/ With(g, Gateway, Gateway) # files[g]}}

(* Entries of URLs the gateway serves go, except the gateway's own.        *)
Removable(f, urls) ==
  {n \in Entries(f) \ {Gateway} : Canonical[files[f][n]] \in urls}
PruneChanges(urls) ==
  {<<f, Without(f, Removable(f, urls))>> :
     f \in {g \in File : Removable(g, urls) # {}}}

Begin(command, changes) ==
  /\ cli' = IF changes = {} THEN NoCommand
            ELSE [NoCommand EXCEPT !.pc = "capture", !.command = command,
                    !.plan = SetToSeq(changes)]
  /\ UNCHANGED <<files, backups, torn, died>>

InstallCommand ==
  /\ cli = NoCommand
  /\ Begin("install", InstallChanges)

\* Mutant: any connection counts.
ConnectedUrls == {u \in Url : ConnectionsOf(u) # {}}

\* The statuses that are taken to mean that the gateway can serve the upstream.
SERVING == {"CONNECTED", "CONNECTED_NON_REFRESHABLE", "DEGRADED"}
ServingUrls == {u \in Url : \E c \in ConnectionsOf(u) : connections[c].status \in SERVING}

(* prune asks the gateway first, and reads the files after the answer.     *)
PruneCommand ==
  /\ cli = NoCommand /\ ServingUrls # {}
  /\ cli' = [NoCommand EXCEPT !.pc = "plan", !.command = "prune", !.urls = ServingUrls]
  /\ UNCHANGED <<files, backups, torn, died>>

PlanPrune ==
  /\ cli.pc = "plan"
  /\ Begin("prune", PruneChanges(cli.urls))

(* The copy is made before the file is written, once for each path.        *)
Capture ==
  LET f == cli.plan[1][1] IN
  /\ cli.pc = "capture"
  /\ cli' = [cli EXCEPT !.pc = "write",
               !.entries = IF \E e \in Range(@) : e[1] = f THEN @
                           ELSE Append(@, <<f, files[f]>>)]
  /\ UNCHANGED <<files, backups, torn, died>>

Write ==
  LET change == cli.plan[1] IN
  /\ cli.pc = "write"
  /\ files' = [files EXCEPT ![change[1]] = change[2]]
  /\ cli' = [cli EXCEPT !.plan = Tail(@),
               !.pc = IF Len(cli.plan) = 1 THEN "commit" ELSE "capture"]
  /\ UNCHANGED <<backups, torn, died>>

(* The manifest is what makes a backup count.                              *)
Commit ==
  /\ cli.pc = "commit"
  /\ backups' = Append(backups, cli.entries)
  /\ cli' = NoCommand
  /\ UNCHANGED <<files, torn, died>>

----------------------------------------------------------------------------
(* rollback: the backup named, or the last one, file by file, as far as its*)
(* copies are there; its directory goes when all are restored.             *)

\* Mutant: the backup is dropped before it is restored.
RollbackForgetting(k) ==
  /\ cli = NoCommand /\ k \in DOMAIN backups
  /\ cli' = [NoCommand EXCEPT !.pc = "restore", !.command = k, !.entries = backups[k]]
  /\ backups' = RemoveAt(backups, k)
  /\ UNCHANGED <<files, torn, died>>

RollbackCommand(k) ==
  /\ cli = NoCommand /\ k \in DOMAIN backups
  /\ cli' = [NoCommand EXCEPT !.pc = "restore", !.command = k, !.entries = backups[k]]
  /\ UNCHANGED <<files, backups, torn, died>>

Restore ==
  /\ cli.pc = "restore" /\ cli.entries # <<>>
  /\ files' = [files EXCEPT ![cli.entries[1][1]] = cli.entries[1][2]]
  /\ cli' = [cli EXCEPT !.entries = Tail(@)]
  /\ UNCHANGED <<backups, torn, died>>

(* A copy that is gone cannot be read: the command throws.                 *)
RestoreThrows ==
  /\ cli.pc = "restore" /\ cli.entries = <<>> /\ cli.command \in torn
  /\ cli' = NoCommand
  /\ UNCHANGED <<files, backups, torn, died>>

(* The directory is removed file by file, in no order of its own.          *)
Forget ==
  /\ cli.pc = "restore" /\ cli.entries = <<>> /\ cli.command \notin torn
  /\ cli' = [cli EXCEPT !.pc = "forget"]
  /\ UNCHANGED <<files, backups, torn, died>>

Forgotten ==
  /\ cli.pc = "forget"
  /\ backups' = RemoveAt(backups, cli.command)
  /\ cli' = NoCommand
  /\ UNCHANGED <<files, torn, died>>

(* The removal stops when the manifest is gone, which does as well, or when*)
(* copies are and the manifest is not: the n before the first of them still*)
(* restore.                                                                *)
ForgetDies ==
  /\ cli.pc = "forget"
  /\ \/ backups' = RemoveAt(backups, cli.command) /\ UNCHANGED torn
     \/ \E n \in 0..Len(backups[cli.command]) - 1 :
          /\ backups[cli.command][n + 1][2] # Absent
          /\ backups' = [backups EXCEPT ![cli.command] = SubSeq(@, 1, n)]
          /\ torn' = torn \cup {cli.command}
  /\ cli' = NoCommand
  /\ UNCHANGED <<files, died>>

(* The command is killed, or one of its calls throws: what was not listed  *)
(* in a manifest is not a backup.                                          *)
Die ==
  /\ cli # NoCommand
  /\ died' = (died \/ (cli.pc \in {"capture", "write", "commit"}
                        /\ \E e \in Range(cli.entries) : files[e[1]] # e[2]))
  /\ cli' = NoCommand
  /\ UNCHANGED <<files, backups, torn>>

CommandStep ==
  \/ PlanPrune \/ Capture \/ Write \/ Commit
  \/ Restore \/ RestoreThrows \/ Forget \/ Forgotten

----------------------------------------------------------------------------
(* The backups, and the copies of a command that still writes.             *)
Copies ==
  IF cli.pc \in {"capture", "write", "commit"} THEN Append(backups, cli.entries)
  ELSE backups

(* What a file is once they were applied, the last one first: what the     *)
(* oldest that mentions it holds.                                          *)
Unwound(f) ==
  LET of(b) == {e \in Range(b) : e[1] = f}
      saved == {k \in DOMAIN Copies : of(Copies[k]) # {}}
  IN  IF saved = {} THEN files[f]
      ELSE (CHOOSE e \in of(Copies[Min(saved)]) : TRUE)[2]

(* rollback, run as often as there are backups, puts the machine back      *)
(* exactly as it was, whatever was interrupted, unless a command died in   *)
(* the one window no backup covers: after its first edit and before its    *)
(* manifest (backup.ts:65).                                                *)
UndoIsExact == ~died => \A f \in File : Unwound(f) = Served0[f]

(* The servers that were in a file and are not any more.                   *)
Pruned ==
  UNION {{Canonical[Served0[f][n]] : n \in DOMAIN Served0[f] \ DOMAIN files[f]} :
           f \in {g \in File : Readable(g) /\ Served0[g] # Absent}}

MigrationTypeOK ==
  /\ \A f \in File : Readable(f) => files[f] \in [Entries(f) -> Spelling]
  /\ \A b \in Range(backups) : \A e \in Range(b) : e[1] \in File
  /\ cli.pc \in {"idle", "plan", "capture", "write", "commit", "restore", "forget"}
  /\ died \in BOOLEAN
  /\ torn \subseteq DOMAIN backups
=============================================================================
