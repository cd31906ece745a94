----------------------------- MODULE Bootstrap -----------------------------
(***************************************************************************)
(* mysqlrouter --bootstrap, run several times for one router instance:     *)
(* its registration and account in the cluster's metadata, with the        *)
(* failover to another member of the group; the keyring with the account's *)
(* password; the configuration file.  Each of the three can fail, and a    *)
(* failure undoes what AutoCleaner was told of, while a crash undoes       *)
(* nothing.                                                                *)
(*                                                                         *)
(* Every attempt to set up the account has a number; the router id, the    *)
(* user name, the password and the master key that it makes are that       *)
(* number.  Number 1 is what was there before.                             *)
(***************************************************************************)
EXTENDS Keyring, FiniteSets

CONSTANTS
  Nodes,     \* members of the replication group
  Initial,   \* the one the bootstrap is told to connect to
  MaxRuns,   \* bound on bootstraps
  Deletions  \* sets of files that the operator may delete between bootstraps

ASSUME BootstrapAssumption ==
  /\ IsFiniteSet(Nodes) /\ Initial \in Nodes /\ MaxRuns \in Nat
  /\ Deletions \subseteq SUBSET {"keyring", "master"}
  /\ MaxNum >= 1 + MaxRuns * (Cardinality(Nodes) + 1)

VARIABLES
  deploy,           \* the kind of deployment
  program,          \* an external program keeps the master key
  pc, runs, force,
  dir, newdir,      \* the directory exists; this bootstrap made it
  config, tmp, bak, \* the configuration file, .tmp and .bak
  bck,              \* .bck, the copy of the master key file
  cleanConfig, cleanKey,   \* what AutoCleaner will do to both files
  cleanProgram,            \* the key its callback will give back to the program
  primary, reg, acct,      \* in the cluster: the writable member, the id of
                           \* this router's row, the accounts' passwords
  at, alive,        \* the session's node; it was not lost
  treg,             \* the row as the open transaction sees it
  fetched, rest,    \* the members were asked for; those left to fail over to
  num,              \* attempts so far
  id, user, pass,   \* router_id, username, password
  oldConfig, oldKeys, oldExt, oldAcct,  \* history: as this bootstrap found them
  orphaned          \* history: the keyring was deleted, and not its master key

fileVars == <<dir, newdir, config, tmp, bak, bck, cleanConfig, cleanKey, cleanProgram>>
serverVars == <<primary, reg, acct>>
sessionVars == <<at, alive, treg, fetched, rest>>
idVars == <<num, id, user, pass>>
historyVars == <<oldConfig, oldKeys, oldExt, oldAcct, orphaned>>
setupVars == <<deploy, program, runs, force>>
vars == <<setupVars, pc, fileVars, serverVars, sessionVars, idVars, historyVars,
          keyringVars, faults>>

Ended == {"idle", "refused", "done", "failed", "crashed"}
Running == pc \notin Ended

\* A configuration file: absent, without a metadata_cache section (as packages
\* install it), of another cluster, of this cluster; or cut by a write error so
\* that it cannot be read at all, before the section with the identity ("empty")
\* or after it.
Config(st, i, u) == [st |-> st, id |-> i, user |-> u]
NoConfig == Config("absent", 0, 0)
PlainConfig == Config("plain", 0, 0)
CutConfig == Config("cut", 0, 0)
EmptyConfig == Config("empty", 0, 0)
Configs == [st : {"absent", "plain", "foreign", "whole", "cut", "empty", "short"}, id : 0..MaxNum, user : 0..MaxNum]
\* What writing part of c leaves.
TornConfigs(c) == {CutConfig, EmptyConfig, [c EXCEPT !.st = IF @ = "whole" THEN "short" ELSE @]}
NoCallback == MaxNum + 1
Orders(S) == {s \in [1..Cardinality(S) -> S] : \A i, j \in DOMAIN s : s[i] = s[j] => i = j}

TypeOK ==
  /\ KeyringTypeOK
  /\ deploy \in {"system", "directory"} /\ {program, force, dir, newdir, alive, fetched, orphaned} \subseteq BOOLEAN
  /\ pc \in Ended \cup {"begin", "check", "register", "drop", "create", "finish",
                        "failover", "copy", "keyring", "config", "backup", "protect",
                        "rename", "clear", "unwind", "unwindConfig", "unwindRest"}
  /\ runs \in 0..MaxRuns
  /\ {config, tmp, bak, oldConfig} \subseteq Configs
  /\ {bck, oldKeys} \subseteq [st : {"absent", "unsigned", "signed"}, entries : Entries]
  /\ cleanConfig \in {"leave", "delete", "revert"} /\ cleanKey \in {"leave", "delete", "revert"}
  /\ cleanProgram \in (0..MaxNum) \cup {NoCallback}
  /\ primary \in Nodes /\ at \in Nodes
  /\ {reg, treg, id, user, pass, num} \subseteq 0..MaxNum
  /\ {acct, oldAcct, oldExt} \subseteq [Num -> 0..MaxNum]
  /\ rest \in Seq(Nodes)

\* The master key file may hold the key of another keyring; in a deployment
\* directory it is the router's own.  The name may be registered already, by a
\* router that is no more; the configuration may be one of another cluster.
Init ==
  /\ deploy \in {"system", "directory"} /\ program \in BOOLEAN
  /\ pc = "idle" /\ runs = 0 /\ force = FALSE
  /\ dir = (deploy = "system") /\ newdir = FALSE
  /\ config \in {NoConfig} \cup (IF dir THEN {PlainConfig, Config("foreign", 1, 1)} ELSE {})
  /\ tmp = NoConfig /\ bak = NoConfig /\ bck = NoMasterKeys
  /\ cleanConfig = "leave" /\ cleanKey = "leave" /\ cleanProgram = NoCallback
  /\ primary \in Nodes /\ reg \in 0..1 /\ acct = [NoPw EXCEPT ![1] = reg]
  /\ at = Initial /\ alive = FALSE /\ treg = 0 /\ fetched = FALSE /\ rest = <<>>
  /\ num = 1 /\ id = 0 /\ user = 0 /\ pass = 0
  /\ kring = NoKeyring /\ kpc = "closed" /\ mem = NoMem
  /\ mkfile \in {NoMasterKeys} \cup
       (IF dir /\ ~program THEN {MasterKeys("signed", <<[ring |-> r, key |-> 1]>>) : r \in Rings \ {Mine}}
        ELSE {})
  /\ ext = NoPw /\ unnoticed = {} /\ faults = 0 /\ orphaned = FALSE
  /\ oldConfig = config /\ oldKeys = mkfile /\ oldExt = ext /\ oldAcct = acct

(***************************************************************************)
(* Around the bootstraps.                                                  *)
(***************************************************************************)

\* Between two bootstraps, the operator deletes files, or the router's row.  With
\* the external program, the keys it keeps take the place of the key file.
OperatorDeletes ==
  /\ ~Running /\ runs < MaxRuns /\ Fault
  /\ \/ \E D \in Deletions :
          /\ kring' = IF "keyring" \in D THEN NoKeyring ELSE kring
          /\ mkfile' = IF "master" \in D THEN NoMasterKeys ELSE mkfile
          /\ ext' = IF "master" \in D THEN NoPw ELSE ext
          /\ <<kring', mkfile', ext'>> # <<kring, mkfile, ext>>
          /\ orphaned' = ("master" \notin D /\ (orphaned \/ (~program /\ "keyring" \in D)))
          /\ UNCHANGED reg
     \/ reg # 0 /\ reg' = 0 /\ UNCHANGED <<kring, mkfile, ext, orphaned>>
  /\ pc' = "idle"
  /\ UNCHANGED <<setupVars, fileVars, primary, acct, sessionVars, idVars,
                 oldConfig, oldKeys, oldExt, oldAcct, kpc, mem, unnoticed>>

\* The group elects another primary; only the statements of an attempt see it.
PrimaryMoves ==
  /\ pc \in {"begin", "check", "register", "drop", "create", "finish", "failover"} /\ Fault
  /\ primary' \in Nodes \ {primary}
  /\ UNCHANGED <<setupVars, pc, fileVars, reg, acct, sessionVars, idVars, historyVars, keyringVars>>

\* The session and the list of members are not used any more.
SessionEnds == at' = Initial /\ alive' = FALSE /\ treg' = 0 /\ fetched' = FALSE /\ rest' = <<>>

\* Nothing that the process only remembers outlives it.
ProcessEnds ==
  /\ cleanConfig' = "leave" /\ cleanKey' = "leave" /\ cleanProgram' = NoCallback
  /\ newdir' = FALSE /\ force' = FALSE
  /\ SessionEnds
  /\ id' = 0 /\ user' = 0 /\ pass' = 0
  /\ mem' = NoMem

\* Copying truncates the file it writes, and the directory is removed file by file.
Crash ==
  /\ Running /\ Fault
  /\ \/ CrashKeyring(pc = "keyring") /\ UNCHANGED <<config, bak, bck>>
     \/ /\ \/ /\ pc = "copy" /\ bck' \in TornMasterKeys(mkfile.entries)
              /\ UNCHANGED <<kring, mkfile, config, bak>>
           \/ /\ pc = "backup" /\ config # NoConfig /\ bak' \in TornConfigs(config)
              /\ UNCHANGED <<kring, mkfile, config, bck>>
           \/ /\ pc = "unwind" /\ cleanKey = "revert"
              /\ mkfile' \in {bck} \cup TornMasterKeys(bck.entries)
              /\ UNCHANGED <<kring, config, bak, bck>>
           \/ /\ pc = "unwindConfig" /\ cleanConfig = "revert"
              /\ config' \in {bak} \cup TornConfigs(bak)
              /\ UNCHANGED <<kring, mkfile, bak, bck>>
           \/ /\ pc = "unwindRest" /\ newdir
              /\ kring' \in {kring, NoKeyring} /\ config' \in {config, NoConfig}
              /\ UNCHANGED <<mkfile, bak, bck>>
        /\ UNCHANGED <<ext, kpc, unnoticed>>
  /\ pc' = "crashed"
  /\ ProcessEnds
  /\ UNCHANGED <<deploy, program, runs, dir, tmp, serverVars, num, historyVars>>

(***************************************************************************)
(* Starting: the directory, .tmp, the cluster's name, the old identity.    *)
(***************************************************************************)

\* bootstrap_directory_deployment() refuses a directory with files in it but no
\* configuration, which a directory that exists always is here.
DirectoryInUse(f) == deploy = "directory" /\ dir /\ config.st = "absent" /\ ~f

\* get_router_id_and_name_from_config(): a configuration that cannot be read, or
\* one of another cluster without --force, is refused.
Identity == IF config.st \in {"whole", "short"} THEN <<config.id, config.user>> ELSE <<0, 0>>
IdentityRefused(f) == config.st = "cut" \/ (config.st = "foreign" /\ ~f)

Start ==
  /\ ~Running /\ runs < MaxRuns
  /\ runs' = runs + 1 /\ force' \in BOOLEAN
  /\ oldConfig' = config /\ oldKeys' = mkfile /\ oldExt' = ext /\ oldAcct' = acct
  /\ unnoticed' = {}
  /\ IF DirectoryInUse(force')
     THEN /\ pc' = "refused"
          /\ UNCHANGED <<dir, newdir, tmp, alive, id, user, faults>>
     ELSE /\ newdir' = ~dir /\ dir' = TRUE /\ tmp' = CutConfig
          /\ alive' = TRUE
          /\ id' = Identity[1] /\ user' = Identity[2]
          /\ \/ /\ pc' = IF IdentityRefused(force') THEN "unwind" ELSE "begin"
                /\ UNCHANGED faults
             \/ Fault /\ pc' = "unwind"     \* fetch_bootstrap_servers() throws
  /\ UNCHANGED <<deploy, program, config, bak, bck, cleanConfig, cleanKey, cleanProgram,
                 serverVars, at, treg, fetched, rest, num, pass, kring, mkfile, ext, kpc, mem,
                 orphaned>>

(***************************************************************************)
(* try_bootstrap_deployment(), one action per statement that matters.      *)
(***************************************************************************)

ReadOnly == at # primary
\* A statement of an attempt throws code 2013, which loses the session, or code
\* 1290 if it writes: both are failed over.  Any other code is not.
QueryFails ==
  \/ Fault /\ alive' = FALSE /\ pc' = "failover"
  \/ Fault /\ pc' = "unwind" /\ UNCHANGED alive
StatementFails ==
  \/ ReadOnly /\ pc' = "failover" /\ UNCHANGED <<alive, faults>>
  \/ QueryFails

attemptUnchanged == <<setupVars, fileVars, primary, at, fetched, rest, historyVars, keyringVars>>

\* Mutant: an attempt forgets what the one before it registered.
BeginAnew ==
  /\ pc = "begin"
  /\ num' = num + 1 /\ treg' = reg
  /\ IF fetched THEN id' = 0 /\ user' = 0 ELSE UNCHANGED <<id, user>>
  /\ pc' = (IF id' = 0 THEN "register" ELSE "check")
  /\ UNCHANGED <<attemptUnchanged, reg, acct, pass, alive, faults>>

Begin ==
  /\ pc = "begin"
  /\ num' = num + 1 /\ treg' = reg
  /\ \/ pc' = (IF id = 0 THEN "register" ELSE "check") /\ UNCHANGED <<alive, faults>>
     \/ QueryFails
  /\ UNCHANGED <<attemptUnchanged, reg, acct, id, user, pass>>

\* ensure_router_id_is_ours(): any exception of the query, a lost connection
\* included, is taken to mean that the id is not ours.
CheckId ==
  /\ pc = "check"
  /\ \/ /\ id = treg /\ pc' = "drop" /\ UNCHANGED <<id, user, alive, faults>>
     \/ /\ id # treg /\ pc' = "register" /\ id' = 0 /\ user' = 0
        /\ UNCHANGED <<alive, faults>>
     \/ /\ Fault /\ alive' = FALSE /\ pc' = "register" /\ id' = 0 /\ user' = 0
  /\ UNCHANGED <<attemptUnchanged, reg, acct, treg, num, pass>>

\* register_router(): the row of this host and name is taken over with --force.
\* A statement on a lost session fails with code 2006, which is not failed over.
Register ==
  /\ pc = "register"
  /\ \/ ~alive /\ pc' = "unwind" /\ UNCHANGED <<alive, faults, id, user, treg>>
     \/ alive /\ StatementFails /\ UNCHANGED <<id, user, treg>>
     \/ /\ alive /\ ~ReadOnly /\ treg # 0 /\ ~force
        /\ pc' = "unwind" /\ UNCHANGED <<alive, faults, id, user, treg>>
     \/ /\ alive /\ ~ReadOnly /\ (treg = 0 \/ force)
        /\ id' = (IF treg = 0 THEN num ELSE treg) /\ treg' = id' /\ user' = num
        /\ pc' = "drop" /\ UNCHANGED <<alive, faults>>
  /\ UNCHANGED <<attemptUnchanged, reg, acct, num, pass>>

\* delete_account_for_all_hosts(): DROP USER also commits the registration.
DeleteAccounts ==
  /\ pc = "drop"
  /\ \/ QueryFails /\ UNCHANGED <<reg, acct>>
     \/ acct[user] # 0 /\ StatementFails /\ UNCHANGED <<reg, acct>>
     \/ acct[user] = 0 /\ pc' = "create" /\ UNCHANGED <<reg, acct, alive, faults>>
     \/ /\ acct[user] # 0 /\ ~ReadOnly
        /\ acct' = [acct EXCEPT ![user] = 0] /\ reg' = treg
        /\ pc' = "create" /\ UNCHANGED <<alive, faults>>
  /\ UNCHANGED <<attemptUnchanged, treg, idVars>>

\* create_router_accounts(): CREATE USER commits the registration, whether or
\* not the account is made; a GRANT that fails leaves the account.  A password
\* that stays too weak ends like any other error.
CreateAccounts ==
  /\ pc = "create"
  /\ \/ StatementFails /\ UNCHANGED <<reg, acct, pass>>
     \/ /\ ~ReadOnly /\ reg' = treg
        /\ \/ /\ StatementFails
              /\ acct' \in {acct, [acct EXCEPT ![user] = num]} /\ UNCHANGED pass
           \/ /\ acct' = [acct EXCEPT ![user] = num] /\ pass' = num
              /\ pc' = "finish" /\ UNCHANGED <<alive, faults>>
  /\ UNCHANGED <<attemptUnchanged, treg, num, id, user>>

\* update_router_info() and COMMIT.
Commit ==
  /\ pc = "finish"
  /\ \/ StatementFails /\ UNCHANGED <<at, treg, fetched, rest>>
     \/ ~ReadOnly /\ pc' = "copy" /\ SessionEnds /\ UNCHANGED faults
  /\ UNCHANGED <<setupVars, fileVars, serverVars, idVars, historyVars, keyringVars>>

(***************************************************************************)
(* failover_on_failure(): the members are asked for once, on the session   *)
(* that just failed, and then tried in their order.                        *)
(***************************************************************************)

\* The initial member is left out unless it was connected to by socket, an
\* option of the bootstrap that nothing else depends on.
GrServers == {Nodes, Nodes \ {Initial}}

\* Mutant: the end of the list is not looked for.
ConnectNextNoEnd(s) ==
  \E k \in DOMAIN s :
    /\ IF k = 1 THEN UNCHANGED faults ELSE Fault
    /\ at' = s[k] /\ rest' = SubSeq(s, k + 1, Len(s))
    /\ alive' = TRUE /\ pc' = "begin"

\* The next member that can be connected to, from the list s.
ConnectNext(s) ==
  \/ \E k \in DOMAIN s :
       /\ IF k = 1 THEN UNCHANGED faults ELSE Fault
       /\ at' = s[k] /\ rest' = SubSeq(s, k + 1, Len(s))
       /\ alive' = TRUE /\ pc' = "begin"
  \/ /\ IF s = <<>> THEN UNCHANGED faults ELSE Fault
     /\ pc' = "unwind" /\ rest' = <<>> /\ UNCHANGED <<at, alive>>

Failover ==
  /\ pc = "failover"
  /\ \/ ~fetched /\ ~alive /\ pc' = "unwind" /\ UNCHANGED <<faults, at, rest, alive>>
     \/ ~fetched /\ alive /\ \E S \in GrServers : \E s \in Orders(S) : ConnectNext(s)
     \/ fetched /\ ConnectNext(rest)
  /\ fetched' = TRUE /\ treg' = 0
  /\ UNCHANGED <<setupVars, fileVars, serverVars, idVars, historyVars, keyringVars>>

(***************************************************************************)
(* The keyring and the configuration.                                      *)
(***************************************************************************)

keyringStepUnchanged == <<setupVars, dir, newdir, config, tmp, bak, cleanConfig,
                          serverVars, sessionVars, idVars, historyVars>>

\* Mutant: nothing is to be done about a file that is not there yet.
EntryForNewKeys == IF mkfile.st = "absent" THEN "leave" ELSE "revert"

\* AutoCleaner::add_file_revert(): without a file to copy, it will delete.
EntryForKeys == IF mkfile.st = "absent" THEN "delete" ELSE "revert"

\* init_keyring_and_master_key() starts with add_file_revert().  copy_file() throws
\* when it cannot open the files, the one it writes first, and does not look at the
\* write.  Without a file to copy, a copy that is left from before is deleted.
CopyKeys ==
  /\ pc = "copy"
  /\ \/ /\ bck' = mkfile /\ cleanKey' = EntryForKeys /\ pc' = "keyring"
        /\ UNCHANGED <<unnoticed, faults>>
     \/ /\ mkfile.st # "absent" /\ Fault
        /\ \/ /\ bck' \in TornMasterKeys(mkfile.entries) /\ cleanKey' = EntryForKeys
              /\ pc' = "keyring" /\ unnoticed' = unnoticed \cup {"bck"}
           \/ /\ bck' \in {bck, NoSignature} /\ pc' = "unwind"
              /\ UNCHANGED <<cleanKey, unnoticed>>
  /\ UNCHANGED <<cleanProgram, kring, mkfile, ext, kpc, mem, keyringStepUnchanged>>

\* Then the key of the external program is read, and if that works, it will be
\* given back.
InitKeyringFile ==
  /\ pc = "keyring" /\ kpc = "closed"
  /\ \/ ~program /\ OpenKeyring(num) /\ UNCHANGED cleanProgram
     \/ program /\ \E copied \in BOOLEAN :
          /\ cleanProgram' = IF copied THEN ext[id] ELSE NoCallback
          /\ OpenWithProgram(id, copied) \/ ProgramFails
  /\ UNCHANGED <<pc, bck, cleanKey, keyringStepUnchanged>>

KeyringWrites ==
  /\ pc = "keyring"
  /\ GenerateMasterKey(id, num) \/ CreateKeyring \/ FlushHeader \/ SaveMasterKeys
  /\ UNCHANGED <<pc, bck, cleanKey, cleanProgram, keyringStepUnchanged>>

StoreInKeyring ==
  /\ pc = "keyring"
  /\ StorePassword(user, pass, "closed")
  /\ pc' = IF kpc' = "threw" THEN "keyring" ELSE "config"
  /\ UNCHANGED <<bck, cleanKey, cleanProgram, keyringStepUnchanged>>

KeyringThrew ==
  /\ pc = "keyring" /\ kpc = "threw"
  /\ pc' = "unwind" /\ kpc' = "closed"
  /\ UNCHANGED <<kring, mkfile, ext, mem, unnoticed, faults, bck, cleanKey, cleanProgram,
                 keyringStepUnchanged>>

configStepUnchanged == <<setupVars, dir, newdir, bck, cleanKey, cleanProgram, serverVars,
                         sessionVars, idVars, historyVars, kring, mkfile, ext, kpc, mem>>

\* create_config() writes .tmp through a stream that nobody asks for errors.
CreateConfig ==
  /\ pc = "config"
  /\ \/ tmp' = Config("whole", id, user) /\ UNCHANGED <<unnoticed, faults>>
     \/ /\ Fault /\ unnoticed' = unnoticed \cup {"tmp"}
        /\ tmp' \in TornConfigs(Config("whole", id, user))
  /\ pc' = "backup"
  /\ UNCHANGED <<config, bak, cleanConfig, configStepUnchanged>>

\* backup_config_file_if_different(), in a system deployment with AutoCleaner; as
\* for the keys, the entry is made after the copy.
BackupConfig ==
  /\ pc = "backup"
  /\ \/ /\ config \in {NoConfig, tmp} /\ pc' = "rename"
        /\ UNCHANGED <<bak, cleanConfig, unnoticed, faults>>
     \/ /\ config \notin {NoConfig, tmp} /\ pc' = "protect"
        /\ cleanConfig' = IF deploy = "system" THEN "revert" ELSE "leave"
        /\ \/ bak' = config /\ UNCHANGED <<unnoticed, faults>>
           \/ /\ Fault /\ bak' \in TornConfigs(config)
              /\ unnoticed' = unnoticed \cup {"bak"}
     \/ /\ config \notin {NoConfig, tmp} /\ Fault /\ pc' = "unwind"
        /\ bak' \in {bak, EmptyConfig} /\ UNCHANGED <<cleanConfig, unnoticed>>
  /\ UNCHANGED <<config, tmp, configStepUnchanged>>

\* Mutant: the caller does not replace the entry.
EntryStaysRevert == IF deploy = "system" THEN "revert" ELSE "leave"

\* AutoCleaner's entry for the configuration once .bak was made.
EntryAfterBackup == IF deploy = "system" THEN "delete" ELSE "leave"

\* The permissions of .bak; then the caller replaces the entry so that .bak outlives
\* AutoCleaner.
ProtectBackup ==
  /\ pc = "protect"
  /\ \/ pc' = "rename" /\ cleanConfig' = EntryAfterBackup /\ UNCHANGED faults
     \/ Fault /\ pc' = "unwind" /\ UNCHANGED cleanConfig
  /\ UNCHANGED <<config, tmp, bak, unnoticed, configStepUnchanged>>

RenameConfig ==
  /\ pc = "rename"
  /\ \/ config' = tmp /\ tmp' = NoConfig /\ pc' = "clear" /\ UNCHANGED faults
     \/ Fault /\ pc' = "unwind" /\ UNCHANGED <<config, tmp>>
  /\ UNCHANGED <<bak, cleanConfig, unnoticed, configStepUnchanged>>

\* The permissions of the file and the scripts, then AutoCleaner::clear(), which
\* deletes the copies of the files it would have reverted.
Clear ==
  /\ pc = "clear"
  /\ \/ /\ pc' = "done"
        /\ bck' = IF cleanKey = "revert" THEN NoMasterKeys ELSE bck
        /\ bak' = IF cleanConfig = "revert" THEN NoConfig ELSE bak
        /\ ProcessEnds /\ UNCHANGED faults
     \/ /\ Fault /\ pc' = "unwind"
        /\ UNCHANGED <<bck, bak, cleanConfig, cleanKey, cleanProgram, newdir, sessionVars,
                       force, id, user, pass, mem>>
  /\ UNCHANGED <<deploy, program, runs, dir, config, tmp, serverVars, num, historyVars,
                 kring, mkfile, ext, kpc, unnoticed>>

\* ~AutoCleaner() goes through the files in descending order of their names: the
\* master key file, .tmp, the configuration, the directory if this bootstrap made
\* it.  It copies back without a look at the write and deletes the copy; an
\* exception of copy_file() leaves the destructor, which ends the process there.
\* What the attempts and the keyring had in memory is gone by then.
UnwindKeys ==
  /\ pc = "unwind"
  /\ \/ /\ cleanKey = "leave" /\ pc' = "unwindConfig"
        /\ UNCHANGED <<mkfile, bck, unnoticed, faults>>
     \/ /\ cleanKey = "delete" /\ pc' = "unwindConfig" /\ mkfile' = NoMasterKeys
        /\ UNCHANGED <<bck, unnoticed, faults>>
     \/ /\ cleanKey = "revert" /\ pc' = "unwindConfig" /\ bck' = NoMasterKeys
        /\ \/ mkfile' = bck /\ UNCHANGED <<unnoticed, faults>>
           \/ /\ Fault /\ mkfile' \in TornMasterKeys(bck.entries)
              /\ unnoticed' = unnoticed \cup {"restored"}
  /\ SessionEnds /\ user' = 0 /\ pass' = 0 /\ mem' = NoMem
  /\ UNCHANGED <<setupVars, dir, newdir, config, tmp, bak, cleanConfig, cleanKey, cleanProgram,
                 serverVars, num, id, historyVars, kring, ext, kpc>>

UnwindConfig ==
  /\ pc = "unwindConfig" /\ pc' = "unwindRest" /\ tmp' = NoConfig
  /\ \/ cleanConfig = "leave" /\ UNCHANGED <<config, bak, unnoticed, faults>>
     \/ /\ cleanConfig = "delete" /\ config' = NoConfig
        /\ UNCHANGED <<bak, unnoticed, faults>>
     \/ /\ cleanConfig = "revert" /\ bak' = NoConfig
        /\ \/ config' = bak /\ UNCHANGED <<unnoticed, faults>>
           \/ /\ Fault /\ config' \in TornConfigs(bak)
              /\ unnoticed' = unnoticed \cup {"config"}
  /\ UNCHANGED <<cleanConfig, configStepUnchanged>>

CopyBackThrows ==
  /\ \/ /\ pc = "unwind" /\ cleanKey = "revert"
        /\ mkfile' \in {mkfile, NoSignature} /\ UNCHANGED <<tmp, config>>
     \/ /\ pc = "unwindConfig" /\ cleanConfig = "revert"
        /\ tmp' = NoConfig /\ config' \in {config, EmptyConfig} /\ UNCHANGED mkfile
  /\ Fault /\ pc' = "crashed"
  /\ ProcessEnds
  /\ UNCHANGED <<deploy, program, runs, dir, bak, bck, serverVars, num, historyVars,
                 kring, ext, kpc, unnoticed>>

\* The directory, and the callback, which is only logged when it fails.
UnwindRest ==
  /\ pc = "unwindRest" /\ pc' = "failed"
  /\ IF newdir THEN /\ config' = NoConfig /\ bak' = NoConfig /\ kring' = NoKeyring
                     /\ mkfile' = NoMasterKeys /\ bck' = NoMasterKeys
     ELSE UNCHANGED <<config, bak, kring, mkfile, bck>>
  /\ dir' = (dir /\ ~newdir)
  /\ \/ /\ ext' = (IF cleanProgram = NoCallback THEN ext ELSE [ext EXCEPT ![id] = cleanProgram])
        /\ UNCHANGED <<unnoticed, faults>>
     \/ /\ cleanProgram # NoCallback /\ Fault /\ unnoticed' = unnoticed \cup {"program"}
        /\ UNCHANGED ext
  /\ ProcessEnds
  /\ UNCHANGED <<deploy, program, runs, tmp, serverVars, num, historyVars, kpc>>

\* What the process does by itself.
Step ==
  \/ Begin \/ CheckId \/ Register \/ DeleteAccounts \/ CreateAccounts \/ Commit \/ Failover
  \/ CopyKeys \/ InitKeyringFile \/ KeyringWrites \/ StoreInKeyring \/ KeyringThrew
  \/ CreateConfig \/ BackupConfig \/ ProtectBackup \/ RenameConfig \/ Clear
  \/ UnwindKeys \/ UnwindConfig \/ UnwindRest

Next == Start \/ Step \/ CopyBackThrows \/ Crash \/ OperatorDeletes \/ PrimaryMoves

Spec == Init /\ [][Next]_vars /\ WF_vars(Step)

(***************************************************************************)
(* Properties.                                                             *)
(***************************************************************************)

\* The id of the configuration is registered, and the keyring, opened the way a
\* starting router opens it, gives the password that the account has.
CanStart ==
  /\ config.st = "whole" /\ config.id = reg
  /\ acct[config.user] # 0
  /\ IF program
     THEN ReadsPasswordWithProgram(config.id, config.user, acct[config.user])
     ELSE ReadsPassword(config.user, acct[config.user])

\* A bootstrap that reports success has left a router that can start and log in,
\* which is what the ids and names carried over from failed attempts, the new
\* password of every attempt and the two files of the keyring are about.  Left out
\* are errors that nobody looked for in writing this configuration (create_config())
\* or the master keys (MasterKeyFile::save()), and a keyring file that was deleted
\* while the master key file was kept (see UsableAfterDeletion).
Usable ==
  pc = "done" /\ unnoticed \cap {"tmp", "master"} = {} /\ ~orphaned => CanStart

\* keyring_manager.cc:226 tells the operator about a keyring file that cannot be
\* used: "Please delete and bootstrap again."  So a bootstrap that succeeds after
\* that should leave a router that can start.  The new key is added behind the old
\* one, MasterKeyFile::get() takes the first, and the router cannot start.
UsableAfterDeletion ==
  pc = "done" /\ unnoticed \cap {"tmp", "master"} = {} => CanStart

\* The configuration that a bootstrap found is not lost: while it runs, and after
\* it has ended in whatever way, a crash or an exception of ~AutoCleaner() included,
\* the old content is in the configuration file or in .bak.  Excepted are copies to
\* .bak or back that were written in part, which copy_file() does not look for.
OldConfigKept ==
  oldConfig.st # "absent" /\ unnoticed \cap {"bak", "config"} = {} =>
    oldConfig \in {config, bak}

\* A bootstrap that fails, at whatever step and after whatever bootstraps before
\* it, leaves the master keys as it found them and no .tmp file behind: those in
\* the key file, whatever became of it meanwhile, unless copy_file() wrote the copy
\* or the copy back in part, and those of the external program, unless that did
\* not let itself be called.
FailureRestores ==
  pc = "failed" =>
    /\ tmp = NoConfig
    /\ unnoticed \cap {"bck", "restored"} = {} => mkfile = oldKeys
    /\ "program" \notin unnoticed => ext = oldExt

\* The key of another router's keyring that was in the master key file is in that
\* file or in its copy, also when a bootstrap dies in the middle of writing either
\* or of copying back, unless one of them was written in part and nobody noticed.
\* And no key that the external program has is ever replaced.
OthersKeyKept ==
  pc # "idle" =>
    /\ \A i \in Num : oldExt[i] # 0 => ext[i] = oldExt[i]
    /\ unnoticed \cap {"master", "bck", "restored"} = {} =>
         \A e \in {oldKeys.entries[i] : i \in DOMAIN oldKeys.entries} :
           e.ring # Mine =>
             \E f \in {mkfile, bck} : \E i \in DOMAIN f.entries : f.entries[i] = e

\* A bootstrap that reports success has made one account, that of its
\* configuration, whatever number of attempts it took, and left all others;
\* unless that configuration was written in part and nobody noticed.
OneAccount ==
  pc = "done" /\ "tmp" \notin unnoticed =>
    \A u \in Num : acct[u] # oldAcct[u] => u = config.user

\* The operator is told sooner or later: failing over from member to member
\* comes to an end, and so does the rest.
BootstrapEnds == [](Running => <>(~Running))
=============================================================================
