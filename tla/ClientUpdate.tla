---------------------------- MODULE ClientUpdate ----------------------------
(***************************************************************************)
(* Packages on an endpoint: the transfer into storage/updates (client_lib, *)
(* _handle_deploy_package_init and process_package_chunk) and the updater  *)
(* each UPDATE_CLIENT spawns (client/updater/updater.py), with its backup  *)
(* and rollback.  Transfers overlap, and so do updaters.                   *)
(*                                                                         *)
(* A file is named by the action that wrote it: an action writes only into *)
(* the file it opened, wherever that file has been moved.  A tree is the   *)
(* version it came from, and whether all of it is there.                   *)
(***************************************************************************)
EXTENDS Naturals, FiniteSets

CONSTANTS
  Actions,       (* deployments of packages to this endpoint                *)
  Packages,
  PackageOf,     (* the package of an action                                *)
  OperationOf,   (* its operation                                           *)
  Contents,      (* of a package: what validation and verification find     *)
  Chunks,        (* frames of a package                                     *)
  LocksOpenFiles,(* Windows: an open file is neither removed nor replaced   *)
  MaxFaults      (* commands, copies and launches that fail (bound)         *)

NoFile == "no file"

ASSUME PackagesAssumption ==
  /\ PackageOf \in [Actions -> Packages]
  /\ OperationOf \in [Actions -> {"UPDATE_CLIENT", "DEPLOY_PACKAGE", "SEND_FILE"}]
  /\ Contents \in [Packages -> {"sound", "invalid", "mislabelled"}]
ASSUME NamesAssumption ==
  NoFile \notin Actions /\ Packages \cap {"first", "unknown", "none", "nothing"} = {}
ASSUME BoundsAssumption ==
  Chunks \in Nat \ {0} /\ LocksOpenFiles \in BOOLEAN /\ MaxFaults \in Nat

Versions == Packages \cup {"first", "unknown"}
NoTree   == [of |-> "nothing", whole |-> FALSE]
Tree(v)  == [of |-> v, whole |-> TRUE]
Part(t)  == [t EXCEPT !.whole = FALSE]

VARIABLES
  (* incoming and sent-files *)
  session,    (* of an action: "new", "open" or how it ended                *)
  received,   (* chunks in the file the action opened                       *)
  part,       (* the file at <package_id>.part                              *)
  final,      (* the file at the destination of a package                   *)
  current,    (* the package extracted and swapped into current/            *)
  (* the installation *)
  app, history,
  agents,     (* running agents: of which version, started by which updater *)
  updater,    (* the updater process of an action                           *)
  faults,
  (* history, read only by the properties *)
  alone,      (* updaters that no other one has overlapped                  *)
  before      (* the tree an updater was spawned from                       *)

files   == <<session, received, part, final, current>>
install == <<app, history, agents>>
past    == <<alone, before>>
vars    == <<files, install, updater, faults, past>>

NotRun == [at |-> "none", old |-> "none", failure |-> "none", result |-> "none"]

FirstAgent == <<"first", "logon">>

Places == {"incoming", "sent-files"}

Init ==
  /\ session  = [a \in Actions |-> "new"]
  /\ received = [a \in Actions |-> 0]
  /\ part     = [p \in Packages |-> NoFile]
  /\ final    = [d \in Places \X Packages |-> NoFile]
  /\ current  = NoFile
  /\ app      = Tree("first")
  /\ history  = [v \in Versions |-> NoTree]
  /\ agents   = {FirstAgent}
  /\ updater  = [a \in Actions |-> NotRun]
  /\ faults   = 0
  /\ alone    = {}
  /\ before   = [a \in Actions |-> NoTree]

-----------------------------------------------------------------------------
(* The transfer.  All of it runs on the receive loop of the agent.          *)

Destination(a) ==
  <<IF OperationOf[a] = "SEND_FILE" THEN "sent-files" ELSE "incoming", PackageOf[a]>>
IsOpen(f)   == f # NoFile /\ session[f] = "open"
Complete(f) == f # NoFile /\ received[f] = Chunks

(* A stale .part of the package is removed first.  An open one stays where  *)
(* the system locks it, and the action is refused.                          *)
Refused_Never(a) == FALSE                                        \* mutant
Refused(a)       == LocksOpenFiles /\ IsOpen(part[PackageOf[a]])

DeployInit(a) ==
  /\ session[a] = "new" /\ agents # {}
  /\ IF Refused(a)
     THEN /\ session' = [session EXCEPT ![a] = "failed"]
          /\ UNCHANGED part
     ELSE /\ session' = [session EXCEPT ![a] = "open"]
          /\ part'    = [part EXCEPT ![PackageOf[a]] = a]
  /\ UNCHANGED <<received, final, current, install, updater, faults, past>>

More(a) == received[a] < Chunks - 1

Chunk(a) ==
  /\ session[a] = "open" /\ More(a)
  /\ received' = [received EXCEPT ![a] = @ + 1]
  /\ UNCHANGED <<session, part, final, current, install, updater, faults, past>>

Fault == faults < MaxFaults /\ faults' = faults + 1

(* A write that fails, or a hash that is not the announced one, removes     *)
(* whatever lies at the .part path, unless it is locked.                    *)
Others(a) == {b \in Actions \ {a} : session[b] = "open"}
Unlinked(p, a) ==
  [part EXCEPT ![p] = IF LocksOpenFiles /\ @ \in Others(a) THEN @ ELSE NoFile]

ChunkFails(a) ==
  /\ session[a] = "open" /\ Fault
  /\ session' = [session EXCEPT ![a] = "failed"]
  /\ part'    = Unlinked(PackageOf[a], a)
  /\ UNCHANGED <<received, final, current, install, updater, past>>

(* The last chunk: the bytes this action wrote have the announced hash, and *)
(* the file at the .part path is moved to its destination.                  *)
Moved(a) == part[PackageOf[a]]

Active == {u \in Actions : updater[u].at \notin {"none", "done"}}

Spawn(a) ==
  /\ updater' = [updater EXCEPT ![a].at = "validate"]
  /\ alone'   = IF Active = {} THEN alone \cup {a} ELSE alone \ Active
  /\ before'  = [before EXCEPT ![a] = app]

LastChunk(a) ==
  /\ session[a] = "open" /\ received[a] = Chunks - 1
  /\ received' = [received EXCEPT ![a] = Chunks]
  /\ part'     = [part EXCEPT ![PackageOf[a]] = NoFile]
  /\ IF Moved(a) = NoFile
     THEN /\ session' = [session EXCEPT ![a] = "failed"]
          /\ UNCHANGED <<final, current, updater, past>>
     ELSE /\ final' = [final EXCEPT ![Destination(a)] = Moved(a)]
          /\ session' = [session EXCEPT ![a] =
               IF OperationOf[a] = "DEPLOY_PACKAGE" /\ ~ (Complete(Moved(a)) \/ Moved(a) = a)
               THEN "failed" ELSE "staged"]
          /\ current' = IF OperationOf[a] = "DEPLOY_PACKAGE" /\ session'[a] = "staged"
                        THEN PackageOf[a] ELSE current
          /\ \/ OperationOf[a] = "UPDATE_CLIENT" /\ Spawn(a)
             \/ OperationOf[a] # "UPDATE_CLIENT" /\ UNCHANGED <<updater, past>>
  /\ UNCHANGED <<install, faults>>

-----------------------------------------------------------------------------
(* The updater: apply_update and _rollback_result.                          *)

Goes(u, step) == updater' = [updater EXCEPT ![u].at = step]

(* Every except clause ends in _rollback_result, which does something only  *)
(* if there is a backup directory.                                          *)
HasBackup(u) == updater[u].old # "none" /\ history[updater[u].old] # NoTree

Fails(u, failure) ==
  updater' = [updater EXCEPT
    ![u].failure = failure,
    ![u].at      = IF HasBackup(u) THEN "clear for rollback" ELSE "done",
    ![u].result  = IF HasBackup(u) THEN @ ELSE "UPDATE_FAILED"]

RollbackFails(u) ==
  updater' = [updater EXCEPT ![u].at = "done", ![u].result = "ROLLBACK"]

(* The package is extracted; the manifest and the hashes are checked.       *)
Readable(u) == Complete(final[Destination(u)])
Valid(u)    == Contents[PackageOf[u]] # "invalid"

(* The backup is named by the version installed now; a tree that is not     *)
(* whole may have lost its version file, or the end of it.                  *)
Installed == IF app.whole THEN {app.of} ELSE Versions \cap {app.of, "unknown"}

Validate(u) ==
  /\ updater[u].at = "validate"
  /\ \/ ~ Readable(u) /\ Fails(u, "APPLICATION_START_FAILED")
     \/ /\ Readable(u) /\ (~ Valid(u) \/ (app # NoTree /\ ~ app.whole))
        /\ Fails(u, "INVALID_PACKAGE")
     \/ /\ Readable(u) /\ Valid(u)
        /\ \E old \in Installed :
             updater' = [updater EXCEPT ![u].at = "stop", ![u].old = old]
  /\ UNCHANGED <<files, install, faults, past>>

(* stop_client_processes: an agent it may not terminate goes on running.    *)
(* With the last agent go the open transfers.                               *)
StopClient(u) ==
  /\ updater[u].at = "stop" /\ Goes(u, "clear backup")
  /\ \E left \in {{}, agents} :
       /\ left # {} => faults < MaxFaults
       /\ faults'  = IF left # {} THEN faults + 1 ELSE faults
       /\ agents'  = left
       /\ session' = [a \in Actions |-> IF left = {} /\ session[a] = "open"
                                        THEN "failed" ELSE session[a]]
  /\ UNCHANGED <<received, part, final, current, app, history, past>>

(* _copy_tree clears the destination and then copies.  Either may fail and  *)
(* leave a part; a copy into a directory that is there again, or from one   *)
(* that is not, fails at once.                                              *)
ClearFails(u) ==
  LET old == updater[u].old IN
  /\ Fault
  /\ \/ /\ updater[u].at = "clear backup" /\ history[old] # NoTree
        /\ history' = [history EXCEPT ![old] = Part(@)] /\ UNCHANGED app
        /\ Fails(u, "APPLICATION_START_FAILED")
     \/ /\ updater[u].at = "clear app" /\ app # NoTree
        /\ app' = Part(app) /\ UNCHANGED history
        /\ Fails(u, "APPLICATION_START_FAILED")
     \/ /\ updater[u].at = "clear for rollback" /\ app # NoTree
        /\ app' = Part(app) /\ UNCHANGED history
        /\ RollbackFails(u)
  /\ UNCHANGED <<files, agents, past>>

ClearBackup(u) ==
  /\ updater[u].at = "clear backup" /\ Goes(u, "backup")
  /\ history' = [history EXCEPT ![updater[u].old] = NoTree]
  /\ UNCHANGED <<files, app, agents, faults, past>>

Backup(u) ==
  LET old == updater[u].old IN
  /\ updater[u].at = "backup" /\ app # NoTree /\ history[old] = NoTree
  /\ history' = [history EXCEPT ![old] = app]
  /\ Goes(u, "clear app")
  /\ UNCHANGED <<files, app, agents, faults, past>>

BackupFails(u) ==
  LET old == updater[u].old IN
  /\ updater[u].at = "backup"
  /\ \/ /\ app # NoTree /\ history[old] = NoTree /\ Fault
        /\ history' = [history EXCEPT ![old] = Part(app)]
        /\ updater' = [updater EXCEPT ![u].failure = "APPLICATION_START_FAILED",
                                      ![u].at = "clear for rollback"]
     \/ /\ IF app # NoTree /\ history[old] = NoTree THEN Fault ELSE UNCHANGED faults
        /\ Fails(u, "APPLICATION_START_FAILED") /\ UNCHANGED history
  /\ UNCHANGED <<files, app, agents, past>>

ClearApp(u) ==
  /\ updater[u].at = "clear app" /\ Goes(u, "replace")
  /\ app' = NoTree
  /\ UNCHANGED <<files, history, agents, faults, past>>

Replace(u) ==
  /\ updater[u].at = "replace" /\ app = NoTree /\ Goes(u, "dependencies")
  /\ app' = Tree(PackageOf[u])
  /\ UNCHANGED <<files, history, agents, faults, past>>

ReplaceFails(u) ==
  /\ updater[u].at = "replace"
  /\ IF app = NoTree
     THEN Fault /\ app' \in {NoTree, Part(Tree(PackageOf[u]))}
     ELSE UNCHANGED <<faults, app>>
  /\ Fails(u, "APPLICATION_START_FAILED")
  /\ UNCHANGED <<files, history, agents, past>>

InstallDependencies(u) ==
  /\ updater[u].at = "dependencies"
  /\ \/ Goes(u, "start") /\ UNCHANGED faults
     \/ Fault /\ Fails(u, "DEPENDENCY_INSTALL_FAILED")
  /\ UNCHANGED <<files, install, past>>

(* The entry script lies outside app/: it is launched whatever app/ holds.  *)
(* Without app/ it exits with an error; on a part it may run or exit.       *)
Launched(u) == agents' = agents \cup {<<app.of, u>>}

Start(u) ==
  /\ updater[u].at = "start" /\ app # NoTree /\ Launched(u) /\ Goes(u, "verify")
  /\ UNCHANGED <<files, app, history, faults, past>>

StartFails(u) ==
  /\ updater[u].at = "start"
  /\ IF app.whole THEN Fault ELSE UNCHANGED faults
  /\ Fails(u, "APPLICATION_START_FAILED")
  /\ UNCHANGED <<files, install, past>>

(* The version file, if there is one, against the manifest.                 *)
Verified_ByStart(u) == TRUE                                      \* mutant
Verified(u) == app.of = PackageOf[u] /\ Contents[PackageOf[u]] = "sound"

Verify(u) ==
  /\ updater[u].at = "verify"
  /\ \/ /\ app.whole => Verified(u)
        /\ updater' = [updater EXCEPT ![u].at = "done", ![u].result = "COMPLETED"]
     \/ /\ app # NoTree /\ ~ (app.whole /\ Verified(u))
        /\ Fails(u, "VERSION_INVALID")
  /\ UNCHANGED <<files, install, faults, past>>

ClearForRollback(u) ==
  /\ updater[u].at = "clear for rollback" /\ Goes(u, "roll back")
  /\ app' = NoTree
  /\ UNCHANGED <<files, history, agents, faults, past>>

RollBack(u) ==
  LET saved == history[updater[u].old] IN
  /\ updater[u].at = "roll back"
  /\ \/ app = NoTree /\ saved # NoTree /\ app' = saved /\ Goes(u, "restart")
     \/ (app # NoTree \/ saved = NoTree) /\ UNCHANGED app /\ RollbackFails(u)
  /\ UNCHANGED <<files, history, agents, faults, past>>

Restart(u) ==
  /\ updater[u].at = "restart"
  /\ \/ /\ app # NoTree /\ Launched(u) /\ UNCHANGED faults
        /\ updater' = [updater EXCEPT ![u].at = "done", ![u].result = "rolled back"]
     \/ /\ IF app.whole THEN Fault ELSE UNCHANGED faults
        /\ RollbackFails(u) /\ UNCHANGED agents
  /\ UNCHANGED <<files, app, history, past>>

Update(u) ==
  \/ Validate(u) \/ StopClient(u) \/ ClearBackup(u) \/ Backup(u) \/ BackupFails(u)
  \/ ClearFails(u) \/ ClearApp(u) \/ Replace(u) \/ ReplaceFails(u) \/ InstallDependencies(u)
  \/ Start(u) \/ StartFails(u) \/ Verify(u)
  \/ ClearForRollback(u) \/ RollBack(u) \/ Restart(u)

Next == \E a \in Actions :
  DeployInit(a) \/ Chunk(a) \/ ChunkFails(a) \/ LastChunk(a) \/ Update(a)

Spec == Init /\ [][Next]_vars

-----------------------------------------------------------------------------
Trees == [of : Versions \cup {"nothing"}, whole : BOOLEAN]
Steps == {"none", "validate", "stop", "clear backup", "backup", "clear app", "replace",
          "dependencies", "start", "verify", "clear for rollback", "roll back", "restart",
          "done"}

(* Every variable stays in its domain.                                      *)
TypeOK ==
  /\ session \in [Actions -> {"new", "open", "staged", "failed"}]
  /\ received \in [Actions -> 0 .. Chunks]
  /\ part \in [Packages -> Actions \cup {NoFile}]
  /\ final \in [Places \X Packages -> Actions \cup {NoFile}]
  /\ current \in Packages \cup {NoFile}
  /\ app \in Trees /\ history \in [Versions -> Trees]
  /\ agents \subseteq Versions \X (Actions \cup {"logon"})
  /\ updater \in [Actions ->
       [at : Steps, old : Versions \cup {"none"},
        failure : {"none", "APPLICATION_START_FAILED", "INVALID_PACKAGE",
                   "DEPENDENCY_INSTALL_FAILED", "VERSION_INVALID"},
        result : {"none", "COMPLETED", "UPDATE_FAILED", "rolled back", "ROLLBACK"}]]
  /\ faults \in 0 .. MaxFaults
  /\ alone \subseteq Actions /\ before \in [Actions -> Trees]

(* Where open files are locked, a file under its final name is the whole    *)
(* package, although the hash that let it be moved is of the bytes an       *)
(* action wrote and not of the file at the path it moves.                   *)
StagedIsVerified == LocksOpenFiles => \A d \in Places \X Packages :
  final[d] # NoFile => Complete(final[d])

(* What the result of an updater that no other one overlapped says is so:   *)
(* COMPLETED, the new tree is there, whole and of the version it claims,    *)
(* and its agent was started; a package that is not valid, nothing was      *)
(* touched; any failure after the backup was whole, the tree of before is   *)
(* back and its agent was started, or a second command failed.              *)
Ends(u) == updater[u].at # "done" /\ updater'[u].at = "done"

BackupIsWhole(u) ==
  /\ updater[u].old # "none" /\ before[u] # NoTree
  /\ history[updater[u].old] = before[u]

HonestResult == [][\A u \in alone' : Ends(u) =>
  LET end == updater'[u] IN
  /\ end.result = "COMPLETED" =>
       /\ app' = Tree(PackageOf[u]) /\ Contents[PackageOf[u]] = "sound"
       /\ <<PackageOf[u], u>> \in agents'
  /\ end.failure = "INVALID_PACKAGE" => UNCHANGED install /\ end.result = "UPDATE_FAILED"
  /\ \/ end.failure \in {"DEPENDENCY_INSTALL_FAILED", "VERSION_INVALID"}
     \/ end.failure = "APPLICATION_START_FAILED" /\ BackupIsWhole(u)'
     => \/ end.result = "rolled back" /\ app' = before[u] /\ <<before[u].of, u>> \in agents'
        \/ end.result = "ROLLBACK" /\ faults' > 0]_vars

(* "the updater then started a second agent" is what the docstring of       *)
(* stop_client_processes says was repaired: when no command has failed and  *)
(* no updaters have overlapped, one agent runs at most.                     *)
OneAgent == faults = 0 /\ (\A u \in Actions : updater[u] # NotRun => u \in alone)
              => Cardinality(agents) <= 1
=============================================================================
