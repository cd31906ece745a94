-------------------------- MODULE BootstrapProofs --------------------------
(***************************************************************************)
(* What a bootstrap keeps of what it found, proved for any number of       *)
(* bootstraps, faults, group members and keyrings: the configuration, the  *)
(* master keys in the file and with the external program, and the other    *)
(* accounts of the cluster; and that a router can start after a bootstrap  *)
(* that succeeded.                                                         *)
(***************************************************************************)
EXTENDS Bootstrap, SequenceTheorems, FiniteSetTheorems, TLAPS

\* The attempts to set up the account, with the failover between them.
Attempt == {"begin", "check", "register", "drop", "create", "finish", "failover"}

\* The password and the configuration are being written, or were.
Writing == {"config", "backup", "protect", "rename", "clear"}

\* ~AutoCleaner() is at work, and the places of it behind the master key file.
Unwinding == {"unwind", "unwindConfig", "unwindRest"}
KeysUnwound == {"unwindConfig", "unwindRest"}

\* What the errors that nobody noticed may have spoilt.
ConfigSpoilt == "bak" \in unnoticed \/ "config" \in unnoticed
CopySpoilt == "bck" \in unnoticed \/ "restored" \in unnoticed
KeysSpoilt == CopySpoilt \/ "master" \in unnoticed
ProgramSpoilt == "program" \in unnoticed

KeyEntry == [ring : Rings, key : Nat]
KeyFiles == [st : {"absent", "unsigned", "signed"}, entries : Seq(KeyEntry)]
MemFields == {"entries", "key", "scr", "hdr", "pw"}

\* The part of TypeOK that the arguments below need.  Of what the process knows
\* of the keyring only the entries of the master key file matter.
Types ==
  /\ mkfile \in KeyFiles /\ bck \in KeyFiles /\ oldKeys \in KeyFiles
  /\ mkfile.st = "absent" => mkfile = NoMasterKeys
  /\ bck.st = "absent" => bck = NoMasterKeys
  /\ oldKeys.st = "absent" => oldKeys = NoMasterKeys
  /\ mem = [f \in MemFields |-> mem[f]] /\ mem.entries \in Seq(KeyEntry)
  /\ ext \in [Num -> Nat] /\ oldExt \in [Num -> Nat]
  /\ acct \in [Num -> Nat] /\ oldAcct \in [Num -> Nat]
  /\ num \in Nat \ {0}

\* A directory that is not there has no files, and one that this bootstrap made
\* had none; nothing that the process remembers outlives it.
Directory ==
  /\ Running => dir
  /\ ~Running => ~newdir /\ cleanConfig = "leave" /\ cleanKey = "leave" /\ cleanProgram = NoCallback
  /\ ~dir => config = NoConfig /\ mkfile = NoMasterKeys
  /\ newdir => oldConfig = NoConfig /\ oldKeys = NoMasterKeys

\* Which of the files is the old configuration at each place.
ConfigKept ==
  /\ ConfigSpoilt \/ oldConfig.st = "absent" \/ oldConfig \in {config, bak}
  /\ cleanConfig # "leave" /\ pc # "unwindRest" => "bak" \in unnoticed \/ bak = oldConfig
  /\ cleanConfig = "revert" => pc \in Unwinding \cup {"protect"}
  /\ pc \in Attempt \cup {"copy", "keyring", "config", "backup"} =>
       config = oldConfig /\ cleanConfig = "leave"
  /\ pc = "protect" => config = oldConfig /\ ("bak" \in unnoticed \/ bak = oldConfig)
  /\ pc = "rename" =>
       /\ config = oldConfig
       /\ "bak" \in unnoticed \/ bak = oldConfig \/ config \in {NoConfig, tmp}

\* Which of the files has the old master keys: the file until AutoCleaner knows
\* of it, the copy from then on, and the file again when it was copied back.
KeysKept ==
  /\ pc # "keyring" => kpc = "closed"
  /\ cleanKey \in {"leave", "delete", "revert"}
  /\ pc \in Attempt \cup {"copy"} => cleanKey = "leave"
  /\ Running /\ cleanKey = "leave" =>
       mkfile = oldKeys /\ pc \in Attempt \cup {"copy"} \cup Unwinding
  /\ pc = "keyring" /\ kpc = "closed" => mkfile = oldKeys
  /\ cleanKey # "leave" /\ pc \notin KeysUnwound => "bck" \in unnoticed \/ bck = oldKeys
  /\ cleanKey = "delete" => oldKeys = NoMasterKeys
  /\ cleanKey = "revert" => oldKeys # NoMasterKeys
  /\ pc \in KeysUnwound \cup {"failed"} => CopySpoilt \/ mkfile = oldKeys
  /\ newdir /\ pc \in KeysUnwound => mkfile = NoMasterKeys
  /\ pc \in {"unwindRest", "failed"} => tmp = NoConfig

\* The keys of the external program differ from the old ones at most in that of
\* this router, which was none and which the callback knows of.
ProgramKept ==
  /\ pc \in Attempt \cup {"copy"} \/ (pc = "keyring" /\ kpc = "closed") =>
       ext = oldExt /\ cleanProgram = NoCallback
  /\ Running =>
       /\ \A i \in Num : i # id => ext[i] = oldExt[i]
       /\ cleanProgram # NoCallback => cleanProgram = oldExt[id]
       /\ cleanProgram = NoCallback => ProgramSpoilt \/ ext = oldExt
  /\ kpc = "generate" =>
       oldExt[id] = 0 /\ (ProgramSpoilt \/ cleanProgram # NoCallback)
  /\ pc # "idle" => \A i \in Num : oldExt[i] # 0 => ext[i] = oldExt[i]
  /\ pc = "failed" => ProgramSpoilt \/ ext = oldExt

\* es has all entries of the old master key file, at their places.
HasOldEntries(es) ==
  \A i \in DOMAIN oldKeys.entries : i \in DOMAIN es /\ es[i] = oldKeys.entries[i]

\* The entries that were loaded are in what is written, and in the file unless
\* its copy has them.
EntriesKept ==
  /\ kpc \in {"create", "header", "master"} => HasOldEntries(mem.entries)
  /\ pc \in Writing \/ (pc = "keyring" /\ kpc # "threw") =>
       "master" \in unnoticed \/ HasOldEntries(mkfile.entries)
  /\ pc # "idle" => KeysSpoilt \/ HasOldEntries(mkfile.entries) \/ HasOldEntries(bck.entries)

\* At most the account of the present user was changed, and then the row of the
\* present id was committed with it: the next attempt finds the id to be its own.
Accounts ==
  /\ pc = "check" => treg = reg /\ id # 0
  /\ pc \in {"drop", "create"} => treg = id /\ id # 0
  /\ pc \in {"begin", "check", "drop", "create", "finish", "failover", "copy", "keyring"}
               \cup Writing =>
       \A u \in Num : acct[u] # oldAcct[u] => u = user /\ reg = id /\ id # 0
  /\ pc = "register" /\ alive => \A u \in Num : acct[u] = oldAcct[u]
  /\ pc \in {"backup", "protect", "rename"} => "tmp" \in unnoticed \/ tmp.user = user
  /\ pc = "clear" => "tmp" \in unnoticed \/ config.user = user
  /\ OneAccount

\* What all of them need together.
IInv ==
  /\ Types /\ Directory /\ ConfigKept /\ KeysKept
  /\ ProgramKept /\ EntriesKept /\ Accounts

(***************************************************************************)
(* What the operators of the model return.                                 *)
(***************************************************************************)

\* Truncating and then writing part of the master key file leaves a file with
\* entries, cut at some place.
LEMMA TornTypes ==
  ASSUME NEW es \in Seq(KeyEntry), NEW f \in TornMasterKeys(es)
  PROVE  f \in KeyFiles /\ f.st # "absent"
<1>1. \A n \in 0..(Len(es) - 1) :
        /\ SubSeq(es, 1, n) \in Seq(KeyEntry)
        /\ [es[n + 1] EXCEPT !.key = 0] \in KeyEntry
  <2>1. SUFFICES ASSUME NEW n \in 0..(Len(es) - 1)
                 PROVE  /\ SubSeq(es, 1, n) \in Seq(KeyEntry)
                        /\ [es[n + 1] EXCEPT !.key = 0] \in KeyEntry
    OBVIOUS
  <2>2. \A i \in 1..(n + 1) : es[i] \in KeyEntry
    OBVIOUS
  <2>3. SubSeq(es, 1, n) \in Seq(KeyEntry)
    BY <2>2, SubSeqProperties
  <2>4. [es[n + 1] EXCEPT !.key = 0] \in KeyEntry
    BY <2>2 DEF KeyEntry
  <2>5. QED BY <2>3, <2>4
<1>2. \A n \in 0..(Len(es) - 1) :
        Append(SubSeq(es, 1, n), [es[n + 1] EXCEPT !.key = 0]) \in Seq(KeyEntry)
  BY <1>1, AppendProperties
<1>3. <<>> \in Seq(KeyEntry)
  OBVIOUS
<1>4. \E st \in {"unsigned", "signed"}, s \in Seq(KeyEntry) : f = MasterKeys(st, s)
  BY <1>1, <1>2, <1>3, Zenon DEF TornMasterKeys, NoSignature
<1>5. QED
  BY <1>4 DEF MasterKeys, KeyFiles

\* MasterKeyFile::load() gives the entries of the file, unless it fails.
LEMMA LoadsEntries ==
  ASSUME Types, NEW load \in MasterKeyFileLoads
  PROVE  /\ load.entries \in Seq(KeyEntry)
         /\ load.ok \/ load.enoent => load.entries = mkfile.entries
         /\ load.ok => mkfile.st = "signed"
         /\ load.enoent => load.entries = <<>>
<1>1. \/ /\ mkfile.st = "absent"
         /\ load = [ok |-> FALSE, enoent |-> TRUE, entries |-> <<>>]
      \/ load = [ok |-> FALSE, enoent |-> FALSE, entries |-> <<>>]
      \/ /\ mkfile.st # "absent" /\ mkfile.st # "unsigned"
         /\ \E ok \in BOOLEAN : load = [ok |-> ok, enoent |-> FALSE, entries |-> mkfile.entries]
  BY Zenon DEF MasterKeyFileLoads
<1>2. <<>> \in Seq(KeyEntry) /\ mkfile.entries \in Seq(KeyEntry)
  BY DEF Types, KeyFiles
<1>3. mkfile.st = "absent" => mkfile.entries = <<>>
  BY DEF Types, NoMasterKeys, MasterKeys
<1>4. CASE load = [ok |-> FALSE, enoent |-> TRUE, entries |-> <<>>] /\ mkfile.st = "absent"
  BY <1>2, <1>3, <1>4
<1>5. CASE load = [ok |-> FALSE, enoent |-> FALSE, entries |-> <<>>]
  BY <1>2, <1>5
<1>6. CASE /\ mkfile.st # "absent" /\ mkfile.st # "unsigned"
           /\ \E ok \in BOOLEAN : load = [ok |-> ok, enoent |-> FALSE, entries |-> mkfile.entries]
  BY <1>2, <1>6 DEF Types, KeyFiles
<1>7. QED BY <1>1, <1>4, <1>5, <1>6

\* get_master_key() keeps every entry that was loaded, at its place.
LEMMA KeepsEntries ==
  ASSUME Types, NEW n \in Nat, NEW r \in InitKeyring(TRUE, n)
  PROVE  /\ r.mem = [f \in MemFields |-> r.mem[f]]
         /\ r.mem.entries \in Seq(KeyEntry)
         /\ r.ok => \A i \in DOMAIN mkfile.entries :
                      i \in DOMAIN r.mem.entries /\ r.mem.entries[i] = mkfile.entries[i]
<1>1. PICK load \in MasterKeyFileLoads :
        r = IF load.ok \/ (load.enoent /\ TRUE) THEN GetMasterKey(load, TRUE, n) ELSE Threw
  BY DEF InitKeyring
<1>2. /\ load.entries \in Seq(KeyEntry)
      /\ load.ok \/ load.enoent => load.entries = mkfile.entries
  BY LoadsEntries
<1>3. \/ GetMasterKey(load, TRUE, n) = Threw
      \/ GetMasterKey(load, TRUE, n) = InitKeyringWithKey(kring.hdr, load.entries, TRUE)
      \/ GetMasterKey(load, TRUE, n) =
           InitKeyringWithKey(n, Append(load.entries, [ring |-> Mine, key |-> n]), TRUE)
  BY Zenon DEF GetMasterKey
<1>4. CASE r = Threw
  <2>1. <<>> \in Seq(KeyEntry)
    OBVIOUS
  <2>2. QED BY <1>4, <2>1 DEF Threw, NoMem, MemFields
<1>5. CASE r = InitKeyringWithKey(kring.hdr, load.entries, TRUE) /\ (load.ok \/ load.enoent)
  <2>1. /\ r.mem = [f \in MemFields |-> r.mem[f]]
        /\ r.mem.entries = load.entries
    BY <1>2, <1>5 DEF InitKeyringWithKey, MemFields
  <2>2. QED BY <1>2, <1>5, <2>1
<1>6. CASE /\ r = InitKeyringWithKey(n, Append(load.entries, [ring |-> Mine, key |-> n]), TRUE)
           /\ load.ok \/ load.enoent
  <2>1. [ring |-> Mine, key |-> n] \in KeyEntry
    BY KeyringAssumption DEF KeyEntry
  <2>2. PICK es : es = Append(load.entries, [ring |-> Mine, key |-> n])
    OBVIOUS
  <2>3. /\ es \in Seq(KeyEntry)
        /\ Len(es) = Len(load.entries) + 1
        /\ \A i \in 1..Len(load.entries) : es[i] = load.entries[i]
    BY <1>2, <2>1, <2>2, AppendProperties
  <2>4. /\ r.mem = [f \in MemFields |-> r.mem[f]]
        /\ r.mem.entries = es
    BY <1>6, <2>2, <2>3 DEF InitKeyringWithKey, MemFields
  <2>5. \A i \in DOMAIN load.entries : i \in DOMAIN es /\ es[i] = load.entries[i]
    BY <1>2, <2>3
  <2>6. QED BY <1>2, <1>6, <2>3, <2>4, <2>5
<1>7. QED BY <1>1, <1>3, <1>4, <1>5, <1>6

(***************************************************************************)
(* What groups of actions leave alone.                                     *)
(***************************************************************************)

AttemptStep ==
  \/ Begin \/ CheckId \/ Register \/ DeleteAccounts \/ CreateAccounts \/ Commit \/ Failover

\* An attempt changes no file, and ends with the keyring to come or by unwinding.
LEMMA AttemptFrame ==
  ASSUME AttemptStep
  PROVE  /\ pc \in Attempt /\ pc' \in Attempt \cup {"copy", "unwind"}
         /\ UNCHANGED <<fileVars, historyVars, keyringVars>>
<1>1. CASE Begin
  BY <1>1 DEF Begin, QueryFails, attemptUnchanged, Attempt
<1>2. CASE CheckId
  BY <1>2 DEF CheckId, attemptUnchanged, Attempt
<1>3. CASE Register
  BY <1>3 DEF Register, StatementFails, QueryFails, attemptUnchanged, Attempt
<1>4. CASE DeleteAccounts
  BY <1>4 DEF DeleteAccounts, StatementFails, QueryFails, attemptUnchanged, Attempt
<1>5. CASE CreateAccounts
  BY <1>5 DEF CreateAccounts, StatementFails, QueryFails, attemptUnchanged, Attempt
<1>6. CASE Commit
  BY <1>6 DEF Commit, StatementFails, QueryFails, attemptUnchanged, Attempt
<1>7. CASE Failover
  BY <1>7 DEF Failover, ConnectNext, Attempt
<1>8. QED
  BY <1>1, <1>2, <1>3, <1>4, <1>5, <1>6, <1>7 DEF AttemptStep

KeyringStep == KeyringWrites \/ StoreInKeyring \/ KeyringThrew

\* Between init_keyring_with_key() and the configuration only the keyring, the
\* master key file and the key of the program change.
LEMMA KeyringFrame ==
  ASSUME KeyringStep
  PROVE  /\ pc = "keyring" /\ kpc # "closed"
         /\ pc' \in {"keyring", "config", "unwind"}
         /\ pc' = "keyring" <=> kpc' # "closed"
         /\ UNCHANGED <<keyringStepUnchanged, bck, cleanKey, cleanProgram>>
         /\ unnoticed \subseteq unnoticed'
<1>1. CASE KeyringWrites
  <2>1. CASE GenerateMasterKey(id, num)
    BY <1>1, <2>1 DEF KeyringWrites, GenerateMasterKey, OpenWithKey
  <2>2. CASE CreateKeyring
    BY <1>1, <2>2 DEF KeyringWrites, CreateKeyring, SaveKeyring
  <2>3. CASE FlushHeader
    BY <1>1, <2>3 DEF KeyringWrites, FlushHeader, SaveKeyring
  <2>4. CASE SaveMasterKeys
    BY <1>1, <2>4 DEF KeyringWrites, SaveMasterKeys
  <2>5. QED
    BY <1>1, <2>1, <2>2, <2>3, <2>4 DEF KeyringWrites
<1>2. CASE StoreInKeyring
  BY <1>2 DEF StoreInKeyring, StorePassword, SaveKeyring
<1>3. CASE KeyringThrew
  BY <1>3 DEF KeyringThrew
<1>4. QED
  BY <1>1, <1>2, <1>3 DEF KeyringStep

ConfigStep == CreateConfig \/ BackupConfig \/ ProtectBackup \/ RenameConfig

\* Writing the configuration touches nothing of the keyring.
LEMMA ConfigFrame ==
  ASSUME ConfigStep
  PROVE  /\ pc \in {"config", "backup", "protect", "rename"}
         /\ pc' \in {"backup", "protect", "rename", "clear", "unwind"}
         /\ UNCHANGED configStepUnchanged
         /\ unnoticed \subseteq unnoticed'
<1>1. CASE CreateConfig
  BY <1>1 DEF CreateConfig
<1>2. CASE BackupConfig
  BY <1>2 DEF BackupConfig
<1>3. CASE ProtectBackup
  BY <1>3 DEF ProtectBackup
<1>4. CASE RenameConfig
  BY <1>4 DEF RenameConfig
<1>5. QED
  BY <1>1, <1>2, <1>3, <1>4 DEF ConfigStep

\* The cases of a step.
LEMMA Cases ==
  ASSUME [Next]_vars
  PROVE  \/ Start \/ AttemptStep \/ CopyKeys \/ InitKeyringFile \/ KeyringStep \/ ConfigStep
         \/ Clear \/ UnwindKeys \/ UnwindConfig \/ UnwindRest \/ CopyBackThrows
         \/ Crash \/ OperatorDeletes \/ PrimaryMoves \/ UNCHANGED vars
BY DEF Next, Step, AttemptStep, KeyringStep, ConfigStep

(***************************************************************************)
(* The conjuncts of IInv, one lemma each.                                 *)
(***************************************************************************)

\* Opening a keyring with a key leaves an object without entries.
LEMMA WithKeyMem ==
  ASSUME NEW key, OpenWithKey(key)
  PROVE  /\ mem' = [f \in MemFields |-> mem'[f]]
         /\ mem'.entries = <<>>
BY DEF OpenWithKey, InitKeyringWithKey, MemFields

\* init_keyring_file() always gets somewhere.
LEMMA OpensKeyring ==
  ASSUME InitKeyringFile
  PROVE  kpc' # "closed"
<1>1. CASE OpenKeyring(num)
  BY <1>1, Zenon DEF OpenKeyring
<1>2. CASE \E copied \in BOOLEAN : OpenWithProgram(id, copied)
  BY <1>2 DEF OpenWithProgram, OpenWithKey
<1>3. CASE ProgramFails
  BY <1>3 DEF ProgramFails
<1>4. QED BY <1>1, <1>2, <1>3 DEF InitKeyringFile

\* The files and numbers before the first bootstrap.
LEMMA TypesInit ==
  ASSUME Init
  PROVE  Types
<1>1. <<>> \in Seq(KeyEntry)
  OBVIOUS
<1>2. NoPw \in [Num -> Nat] /\ acct \in [Num -> Nat]
  <2>1. NoPw \in [Num -> Nat]
    BY DEF NoPw
  <2>2. reg \in Nat /\ acct = [NoPw EXCEPT ![1] = reg]
    BY DEF Init
  <2>3. QED BY <2>1, <2>2
<1>3. \A r \in Rings \ {Mine} :
        /\ <<[ring |-> r, key |-> 1]>> \in Seq(KeyEntry)
        /\ MasterKeys("signed", <<[ring |-> r, key |-> 1]>>).st = "signed"
  BY DEF KeyEntry, MasterKeys
<1>4. /\ mkfile \in KeyFiles
      /\ mkfile.st = "absent" => mkfile = NoMasterKeys
  <2>1. CASE mkfile = NoMasterKeys
    BY <1>1, <2>1 DEF KeyFiles, NoMasterKeys, MasterKeys
  <2>2. CASE \E r \in Rings \ {Mine} : mkfile = MasterKeys("signed", <<[ring |-> r, key |-> 1]>>)
    BY <1>3, <2>2 DEF KeyFiles, MasterKeys
  <2>3. QED BY <2>1, <2>2 DEF Init
<1>5. NoMasterKeys \in KeyFiles
  BY <1>1 DEF KeyFiles, NoMasterKeys, MasterKeys
<1>6. mem = [f \in MemFields |-> mem[f]] /\ mem.entries \in Seq(KeyEntry)
  <2>1. mem = NoMem
    BY DEF Init
  <2>2. QED BY <1>1, <2>1 DEF NoMem, MemFields
<1>7. num \in Nat \ {0}
  BY DEF Init
<1>8. QED
  BY <1>4, <1>5, <1>6, <1>7, <1>2 DEF Init, Types

\* Every file that is written has entries, and a file that is absent has none.
LEMMA TypesStep ==
  ASSUME Types, KeysKept, ProgramKept, [Next]_vars
  PROVE  Types'
<1> DEFINE MemOK == mem = [f \in MemFields |-> mem[f]] /\ mem.entries \in Seq(KeyEntry)
<1>1. <<>> \in Seq(KeyEntry) /\ NoPw \in [Num -> Nat]
  BY DEF NoPw
<1>2. NoMasterKeys \in KeyFiles
  BY <1>1 DEF KeyFiles, NoMasterKeys, MasterKeys
<1>3. mem' = NoMem => MemOK'
  BY <1>1 DEF NoMem, MemFields
<1>31. NoSignature \in KeyFiles /\ NoSignature.st # "absent"
  BY <1>1 DEF KeyFiles, NoSignature, MasterKeys
<1>4. CASE Start
  BY <1>4 DEF Start, Types, serverVars
<1>5. CASE AttemptStep
  <2>1. UNCHANGED <<mkfile, bck, oldKeys, mem, ext, oldExt, oldAcct>>
    BY <1>5, AttemptFrame DEF fileVars, historyVars, keyringVars
  <2>2. num' \in Nat \ {0}
    BY <1>5 DEF Types, AttemptStep, Begin, CheckId, Register, DeleteAccounts, CreateAccounts,
                Commit, Failover, idVars
  <2>3. acct' \in [Num -> Nat]
    <3>1. CASE DeleteAccounts
      BY <3>1 DEF Types, DeleteAccounts
    <3>2. CASE CreateAccounts
      BY <3>2 DEF Types, CreateAccounts
    <3>3. CASE ~DeleteAccounts /\ ~CreateAccounts
      BY <1>5, <3>3 DEF Types, AttemptStep, Begin, CheckId, Register, Commit, Failover, serverVars
    <3>4. QED BY <3>1, <3>2, <3>3
  <2>4. QED BY <2>1, <2>2, <2>3 DEF Types
<1>6. CASE InitKeyringFile
  <2>1. UNCHANGED <<mkfile, bck, ext, oldKeys, oldExt, acct, oldAcct, num>>
    BY <1>6 DEF InitKeyringFile, OpenKeyring, OpenWithProgram, ProgramFails, keyringStepUnchanged,
                historyVars, serverVars, idVars
  <2>2. CASE OpenKeyring(num)
    <3>1. PICK r \in InitKeyring(TRUE, num) : mem' = r.mem
      BY <2>2 DEF OpenKeyring
    <3>2. MemOK'
      BY <3>1, KeepsEntries DEF Types
    <3>3. QED BY <2>1, <3>2 DEF Types
  <2>3. CASE \E copied \in BOOLEAN : OpenWithProgram(id, copied)
    <3>1. MemOK'
      <4>1. CASE mem' = NoMem
        BY <1>3, <4>1
      <4>2. CASE OpenWithKey(ext[id])
        BY <1>1, <4>2, WithKeyMem
      <4>3. QED BY <2>3, <4>1, <4>2 DEF OpenWithProgram
    <3>2. QED BY <2>1, <3>1 DEF Types
  <2>4. CASE ProgramFails
    BY <2>1, <2>4 DEF ProgramFails, Types
  <2>5. QED
    BY <1>6, <2>2, <2>3, <2>4 DEF InitKeyringFile
<1>7. CASE KeyringStep
  <2>1. UNCHANGED <<bck, oldKeys, oldExt, acct, oldAcct, num>>
    BY <1>7, KeyringFrame DEF keyringStepUnchanged, historyVars, serverVars, idVars
  <2>2. CASE GenerateMasterKey(id, num)
    <3>1. MemOK'
      <4>1. CASE OpenWithKey(num)
        BY <1>1, <4>1, WithKeyMem
      <4>2. CASE UNCHANGED mem
        BY <4>2 DEF Types
      <4>3. QED BY <2>2, <4>1, <4>2 DEF GenerateMasterKey
    <3>2. ext' \in [Num -> Nat] /\ UNCHANGED mkfile
      BY <2>2 DEF GenerateMasterKey, Types
    <3>3. QED BY <2>1, <3>1, <3>2 DEF Types
  <2>3. CASE CreateKeyring
    BY <2>1, <2>3 DEF CreateKeyring, Types
  <2>4. CASE FlushHeader
    <3>1. MemOK'
      BY <2>4 DEF FlushHeader, MemFields, Types
    <3>2. QED BY <2>1, <2>4, <3>1 DEF FlushHeader, Types
  <2>5. CASE SaveMasterKeys
    <3>1. \/ mkfile' = MasterKeys("signed", mem.entries) \/ mkfile' = mkfile
          \/ mkfile' = NoSignature \/ mkfile' \in TornMasterKeys(mem.entries)
      BY <2>5 DEF SaveMasterKeys
    <3>2. mkfile' \in KeyFiles /\ (mkfile'.st = "absent" => mkfile' = NoMasterKeys)
      <4>1. CASE mkfile' \in TornMasterKeys(mem.entries)
        BY <4>1, TornTypes DEF Types
      <4>2. CASE mkfile' = MasterKeys("signed", mem.entries)
        BY <4>2 DEF MasterKeys, KeyFiles, Types
      <4>3. CASE mkfile' = NoSignature
        BY <1>31, <4>3
      <4>4. QED BY <3>1, <4>1, <4>2, <4>3 DEF Types
    <3>3. QED BY <2>1, <2>5, <3>2 DEF SaveMasterKeys, Types
  <2>6. CASE StoreInKeyring
    <3>1. MemOK'
      BY <2>6 DEF StoreInKeyring, StorePassword, MemFields, Types
    <3>2. QED BY <2>1, <2>6, <3>1 DEF StoreInKeyring, StorePassword, Types
  <2>7. CASE KeyringThrew
    BY <2>1, <2>7 DEF KeyringThrew, Types
  <2>8. QED
    BY <1>7, <2>2, <2>3, <2>4, <2>5, <2>6, <2>7 DEF KeyringStep, KeyringWrites
<1>8. CASE ConfigStep
  BY <1>8, ConfigFrame DEF configStepUnchanged, serverVars, historyVars, idVars, Types
<1>9. CASE Clear
  <2>1. MemOK'
    BY <1>3, <1>9 DEF Clear, ProcessEnds, Types
  <2>2. QED BY <1>2, <1>9, <2>1 DEF Clear, serverVars, historyVars, Types
<1>10. CASE UnwindKeys
  <2>1. MemOK'
    BY <1>3, <1>10 DEF UnwindKeys
  <2>2. \/ mkfile' \in {mkfile, NoMasterKeys, bck}
        \/ mkfile' \in TornMasterKeys(bck.entries)
    BY <1>10 DEF UnwindKeys
  <2>3. mkfile' \in KeyFiles /\ (mkfile'.st = "absent" => mkfile' = NoMasterKeys)
    <3>1. bck.entries \in Seq(KeyEntry)
      BY DEF Types, KeyFiles
    <3>2. CASE mkfile' \in TornMasterKeys(bck.entries)
      BY <3>1, <3>2, TornTypes
    <3>3. CASE mkfile' \in {mkfile, NoMasterKeys, bck}
      BY <1>2, <3>3 DEF Types
    <3>4. QED BY <2>2, <3>2, <3>3
  <2>4. bck' \in {bck, NoMasterKeys}
    BY <1>10 DEF UnwindKeys
  <2>5. QED BY <1>2, <1>10, <2>1, <2>3, <2>4 DEF UnwindKeys, serverVars, historyVars, Types
<1>101. CASE UnwindConfig
  BY <1>101 DEF UnwindConfig, configStepUnchanged, serverVars, historyVars, idVars, Types
<1>102. CASE UnwindRest
  <2>1. MemOK'
    BY <1>3, <1>102 DEF UnwindRest, ProcessEnds
  <2>2. mkfile' \in {mkfile, NoMasterKeys} /\ bck' \in {bck, NoMasterKeys}
    BY <1>102 DEF UnwindRest
  <2>3. ext' \in [Num -> Nat]
    <3>1. cleanProgram # NoCallback => cleanProgram = oldExt[id]
      BY <1>102 DEF UnwindRest, ProgramKept, Running, Ended
    <3>2. QED BY <1>102, <3>1 DEF UnwindRest, Types
  <2>4. QED BY <1>2, <1>102, <2>1, <2>2, <2>3 DEF UnwindRest, serverVars, historyVars, Types
<1>103. CASE CopyBackThrows
  <2>1. MemOK'
    BY <1>3, <1>103 DEF CopyBackThrows, ProcessEnds
  <2>2. mkfile' \in {mkfile, NoSignature}
    BY <1>103 DEF CopyBackThrows
  <2>3. QED BY <1>31, <1>103, <2>1, <2>2 DEF CopyBackThrows, serverVars, historyVars, Types
<1>104. CASE CopyKeys
  <2>1. bck' \in {mkfile, bck, NoSignature} \/ bck' \in TornMasterKeys(mkfile.entries)
    BY <1>104 DEF CopyKeys
  <2>2. bck' \in KeyFiles /\ (bck'.st = "absent" => bck' = NoMasterKeys)
    <3>1. mkfile.entries \in Seq(KeyEntry)
      BY DEF Types, KeyFiles
    <3>2. CASE bck' \in TornMasterKeys(mkfile.entries)
      BY <3>1, <3>2, TornTypes
    <3>3. CASE bck' \in {mkfile, bck, NoSignature}
      BY <1>31, <3>3 DEF Types
    <3>4. QED BY <2>1, <3>2, <3>3
  <2>3. QED
    BY <1>104, <2>2 DEF CopyKeys, keyringStepUnchanged, serverVars, historyVars, idVars, Types
<1>11. CASE Crash
  <2>1. MemOK'
    BY <1>3, <1>11 DEF Crash, ProcessEnds
  <2>2. /\ \/ mkfile' \in {mkfile, bck} \/ mkfile' \in TornMasterKeys(mem.entries)
           \/ mkfile' \in TornMasterKeys(bck.entries)
        /\ bck' = bck \/ bck' \in TornMasterKeys(mkfile.entries)
    BY <1>11 DEF Crash, CrashKeyring
  <2>3. {mkfile.entries, bck.entries, mem.entries} \subseteq Seq(KeyEntry)
    BY DEF Types, KeyFiles
  <2>4. mkfile' \in KeyFiles /\ (mkfile'.st = "absent" => mkfile' = NoMasterKeys)
    <3>1. CASE mkfile' \in TornMasterKeys(mem.entries)
      BY <2>3, <3>1, TornTypes
    <3>2. CASE mkfile' \in TornMasterKeys(bck.entries)
      BY <2>3, <3>2, TornTypes
    <3>3. QED BY <2>2, <3>1, <3>2 DEF Types
  <2>5. bck' \in KeyFiles /\ (bck'.st = "absent" => bck' = NoMasterKeys)
    <3>1. CASE bck' \in TornMasterKeys(mkfile.entries)
      BY <2>3, <3>1, TornTypes
    <3>2. QED BY <2>2, <3>1 DEF Types
  <2>6. QED
    BY <1>11, <2>1, <2>4, <2>5 DEF Crash, CrashKeyring, serverVars, historyVars, Types
<1>12. CASE OperatorDeletes
  BY <1>1, <1>2, <1>12 DEF OperatorDeletes, fileVars, historyVars, idVars, Types
<1>13. CASE PrimaryMoves
  BY <1>13 DEF PrimaryMoves, fileVars, historyVars, idVars, keyringVars, Types
<1>14. CASE UNCHANGED vars
  BY <1>14 DEF vars, fileVars, historyVars, idVars, keyringVars, serverVars, Types
<1>15. QED
  BY <1>4, <1>5, <1>6, <1>7, <1>8, <1>9, <1>10, <1>101, <1>102, <1>103, <1>104, <1>11, <1>12,
     <1>13, <1>14, Cases

\* A step of a bootstrap keeps what is said about its directory.
LEMMA DirectoryStep ==
  ASSUME Directory, KeysKept, [Next]_vars
  PROVE  Directory'
<1> USE DEF Directory, Running, Ended
<1>1. CASE Start
  BY <1>1 DEF Start
<1>2. CASE AttemptStep
  BY <1>2, AttemptFrame DEF fileVars, historyVars, keyringVars, Attempt
<1>3. CASE InitKeyringFile
  BY <1>3 DEF InitKeyringFile, OpenKeyring, OpenWithProgram, ProgramFails, keyringStepUnchanged,
              historyVars
<1>4. CASE KeyringStep
  BY <1>4, KeyringFrame DEF keyringStepUnchanged, historyVars
<1>5. CASE ConfigStep
  BY <1>5, ConfigFrame DEF configStepUnchanged, historyVars
<1>6. CASE Clear
  BY <1>6 DEF Clear, ProcessEnds, historyVars
<1>7. CASE UnwindKeys \/ UnwindConfig
  BY <1>7 DEF UnwindKeys, UnwindConfig, configStepUnchanged, historyVars
<1>71. CASE UnwindRest
  BY <1>71 DEF UnwindRest, ProcessEnds, historyVars
<1>72. CASE CopyBackThrows
  BY <1>72 DEF CopyBackThrows, ProcessEnds, historyVars
<1>73. CASE CopyKeys
  BY <1>73 DEF CopyKeys, keyringStepUnchanged, historyVars
<1>8. CASE Crash
  BY <1>8 DEF Crash, ProcessEnds, historyVars
<1>9. CASE OperatorDeletes
  BY <1>9 DEF OperatorDeletes, fileVars, historyVars
<1>10. CASE PrimaryMoves
  BY <1>10 DEF PrimaryMoves, fileVars, historyVars, keyringVars
<1>11. CASE UNCHANGED vars
  BY <1>11 DEF vars, fileVars, historyVars, keyringVars
<1>12. QED
  BY <1>1, <1>2, <1>3, <1>4, <1>5, <1>6, <1>7, <1>71, <1>72, <1>73, <1>8, <1>9, <1>10, <1>11, Cases

\* The old configuration is copied before the rename, and the copy stays.
LEMMA ConfigStepKept ==
  ASSUME Directory, ConfigKept, [Next]_vars
  PROVE  ConfigKept'
<1> USE DEF ConfigKept, ConfigSpoilt, Attempt, Unwinding
<1>1. CASE Start
  BY <1>1 DEF Start, Directory, Running, Ended
<1>2. CASE AttemptStep
  BY <1>2, AttemptFrame DEF fileVars, historyVars
<1>3. CASE InitKeyringFile
  BY <1>3 DEF InitKeyringFile, keyringStepUnchanged, historyVars
<1>4. CASE KeyringStep
  BY <1>4, KeyringFrame DEF keyringStepUnchanged, historyVars
<1>5. CASE CreateConfig
  BY <1>5 DEF CreateConfig, configStepUnchanged, historyVars
<1>6. CASE BackupConfig
  BY <1>6 DEF BackupConfig, configStepUnchanged, historyVars
<1>61. CASE ProtectBackup
  BY <1>61 DEF ProtectBackup, EntryAfterBackup, configStepUnchanged, historyVars
<1>7. CASE RenameConfig
  BY <1>7 DEF RenameConfig, configStepUnchanged, historyVars, NoConfig, Config
<1>8. CASE Clear
  BY <1>8 DEF Clear, ProcessEnds, historyVars
<1>9. CASE UnwindKeys
  BY <1>9 DEF UnwindKeys, historyVars
<1>91. CASE UnwindConfig
  BY <1>91 DEF UnwindConfig, configStepUnchanged, historyVars
<1>92. CASE UnwindRest
  BY <1>92 DEF UnwindRest, ProcessEnds, historyVars, Directory, NoConfig, Config
<1>93. CASE CopyBackThrows
  BY <1>93 DEF CopyBackThrows, ProcessEnds, historyVars
<1>94. CASE CopyKeys
  BY <1>94 DEF CopyKeys, keyringStepUnchanged, historyVars
<1>10. CASE Crash
  <2>1. /\ UNCHANGED <<oldConfig, unnoticed>> /\ pc' = "crashed" /\ cleanConfig' = "leave"
        /\ \/ UNCHANGED <<config, bak>>
           \/ pc = "backup" /\ UNCHANGED config
           \/ pc = "unwindConfig" /\ cleanConfig = "revert" /\ UNCHANGED bak
           \/ pc = "unwindRest" /\ newdir
    BY <1>10 DEF Crash, CrashKeyring, ProcessEnds, historyVars
  <2>2. QED BY <2>1 DEF Directory, NoConfig, Config
<1>11. CASE OperatorDeletes
  BY <1>11 DEF OperatorDeletes, fileVars, historyVars, Directory, Running, Ended
<1>12. CASE PrimaryMoves
  BY <1>12 DEF PrimaryMoves, fileVars, historyVars
<1>13. CASE UNCHANGED vars
  BY <1>13 DEF vars, fileVars, historyVars, keyringVars
<1>14. QED
  BY <1>1, <1>2, <1>3, <1>4, <1>5, <1>6, <1>61, <1>7, <1>8, <1>9, <1>91, <1>92, <1>93, <1>94,
     <1>10, <1>11, <1>12, <1>13, Cases DEF ConfigStep

\* add_file_revert() copies the master key file before its first write.
LEMMA KeysStepKept ==
  ASSUME Types, Directory, KeysKept, [Next]_vars
  PROVE  KeysKept'
<1> USE DEF KeysKept, CopySpoilt, Attempt, Unwinding, KeysUnwound, Running, Ended
<1>1. CASE Start
  BY <1>1 DEF Start, Directory
<1>2. CASE AttemptStep
  BY <1>2, AttemptFrame DEF fileVars, historyVars, keyringVars
<1>3. CASE CopyKeys
  <2>1. /\ UNCHANGED <<mkfile, tmp, oldKeys, kpc, newdir>>
        /\ pc = "copy" /\ mkfile = oldKeys /\ kpc = "closed" /\ cleanKey = "leave"
    BY <1>3 DEF CopyKeys, keyringStepUnchanged, historyVars
  <2>2. /\ EntryForKeys \in {"delete", "revert"}
        /\ EntryForKeys = "delete" <=> mkfile = NoMasterKeys
    BY DEF EntryForKeys, Types, NoMasterKeys, MasterKeys
  <2>3. \/ pc' = "keyring" /\ cleanKey' = EntryForKeys /\ ("bck" \in unnoticed' \/ bck' = mkfile)
        \/ pc' = "unwind" /\ cleanKey' = "leave"
    BY <1>3, <2>1 DEF CopyKeys
  <2>4. QED BY <2>1, <2>2, <2>3
<1>4. CASE InitKeyringFile
  <2>1. /\ UNCHANGED <<pc, mkfile, tmp, oldKeys, bck, cleanKey, newdir>>
        /\ pc = "keyring" /\ kpc = "closed" /\ unnoticed \subseteq unnoticed'
    BY <1>4 DEF InitKeyringFile, OpenKeyring, OpenWithProgram, ProgramFails, keyringStepUnchanged,
                historyVars
  <2>2. QED BY <2>1
<1>5. CASE KeyringStep
  BY <1>5, KeyringFrame DEF keyringStepUnchanged, historyVars
<1>6. CASE ConfigStep
  BY <1>6, ConfigFrame DEF configStepUnchanged, historyVars
<1>7. CASE Clear
  BY <1>7 DEF Clear, ProcessEnds, historyVars
<1>8. CASE UnwindKeys
  <2>1. /\ UNCHANGED <<tmp, oldKeys, kpc, newdir, cleanKey>>
        /\ pc = "unwind" /\ pc' = "unwindConfig" /\ unnoticed \subseteq unnoticed'
        /\ \/ cleanKey = "leave" /\ mkfile' = mkfile
           \/ cleanKey = "delete" /\ mkfile' = NoMasterKeys
           \/ cleanKey = "revert" /\ ("restored" \in unnoticed' \/ mkfile' = bck)
    BY <1>8 DEF UnwindKeys, historyVars
  <2>2. newdir => cleanKey # "revert" /\ oldKeys = NoMasterKeys
    BY DEF Directory
  <2>3. QED BY <2>1, <2>2
<1>9. CASE UnwindConfig
  <2>1. /\ UNCHANGED <<mkfile, bck, oldKeys, kpc, newdir, cleanKey>>
        /\ pc = "unwindConfig" /\ pc' = "unwindRest" /\ unnoticed \subseteq unnoticed'
        /\ tmp' = NoConfig
    BY <1>9 DEF UnwindConfig, configStepUnchanged, historyVars
  <2>2. QED BY <2>1
<1>10. CASE UnwindRest
  <2>1. /\ UNCHANGED <<oldKeys, kpc, tmp>>
        /\ pc = "unwindRest" /\ pc' = "failed" /\ unnoticed \subseteq unnoticed'
        /\ cleanKey' = "leave" /\ newdir' = FALSE
        /\ mkfile' = mkfile \/ (newdir /\ mkfile' = NoMasterKeys)
    BY <1>10 DEF UnwindRest, ProcessEnds, historyVars
  <2>2. QED BY <2>1 DEF Directory
<1>11. CASE CopyBackThrows
  BY <1>11 DEF CopyBackThrows, ProcessEnds, historyVars
<1>12. CASE Crash
  <2>1. kpc' = "closed"
    BY <1>12 DEF Crash, CrashKeyring
  <2>2. QED BY <1>12, <2>1 DEF Crash, ProcessEnds
<1>13. CASE OperatorDeletes
  BY <1>13 DEF OperatorDeletes, fileVars, Directory
<1>14. CASE PrimaryMoves
  BY <1>14 DEF PrimaryMoves, fileVars, historyVars, keyringVars
<1>15. CASE UNCHANGED vars
  BY <1>15 DEF vars, fileVars, historyVars, keyringVars
<1>16. QED
  BY <1>1, <1>2, <1>3, <1>4, <1>5, <1>6, <1>7, <1>8, <1>9, <1>10, <1>11, <1>12, <1>13, <1>14,
     <1>15, Cases

\* A key is generated only where the program had none, and taken back if the
\* callback was installed.
LEMMA ProgramStepKept ==
  ASSUME Types, Directory, KeysKept, ProgramKept, [Next]_vars
  PROVE  ProgramKept'
<1> USE DEF ProgramKept, ProgramSpoilt, Attempt, Running, Ended
<1>1. CASE Start
  BY <1>1 DEF Start, Directory, KeysKept
<1>2. CASE AttemptStep
  BY <1>2, AttemptFrame DEF fileVars, historyVars, keyringVars, KeysKept
<1>3. CASE InitKeyringFile
  <2>1. /\ UNCHANGED <<pc, ext, oldExt, id>>
        /\ pc = "keyring" /\ kpc = "closed" /\ kpc' # "closed"
    BY <1>3, OpensKeyring DEF InitKeyringFile, OpenKeyring, OpenWithProgram, ProgramFails,
                              keyringStepUnchanged, historyVars, idVars
  <2>2. \/ cleanProgram' = NoCallback
        \/ cleanProgram' = ext[id]
    BY <1>3, <2>1 DEF InitKeyringFile
  <2>3. kpc' = "generate" => ext[id] = 0 /\ (ProgramSpoilt' \/ cleanProgram' = ext[id])
    <3>1. CASE OpenKeyring(num)
      BY <3>1, Zenon DEF OpenKeyring
    <3>2. CASE \E copied \in BOOLEAN :
                 /\ cleanProgram' = IF copied THEN ext[id] ELSE NoCallback
                 /\ OpenWithProgram(id, copied)
      BY <3>2 DEF OpenWithProgram, OpenWithKey
    <3>3. CASE ProgramFails
      BY <3>3 DEF ProgramFails
    <3>4. QED BY <1>3, <3>1, <3>2, <3>3 DEF InitKeyringFile
  <2>4. NoCallback # 0
    BY KeyringAssumption DEF NoCallback
  <2>5. QED BY <2>1, <2>2, <2>3, <2>4
<1>4. CASE KeyringStep
  <2>1. /\ UNCHANGED <<oldExt, id, cleanProgram>>
        /\ pc = "keyring" /\ kpc # "closed"
        /\ pc' \in {"keyring", "config", "unwind"} /\ (pc' = "keyring" <=> kpc' # "closed")
        /\ unnoticed \subseteq unnoticed'
    BY <1>4, KeyringFrame DEF keyringStepUnchanged, historyVars, idVars
  <2>2. CASE GenerateMasterKey(id, num)
    <3>1. /\ \A i \in Num : i # id => ext'[i] = ext[i]
          /\ oldExt[id] = 0 /\ (ProgramSpoilt \/ cleanProgram # NoCallback)
      BY <2>2 DEF GenerateMasterKey, Types
    <3>2. kpc' # "generate"
      BY <2>2 DEF GenerateMasterKey, OpenWithKey
    <3>3. QED BY <2>1, <3>1, <3>2
  <2>3. CASE ~GenerateMasterKey(id, num)
    <3>1. UNCHANGED ext /\ kpc' # "generate"
      BY <1>4, <2>3 DEF KeyringStep, KeyringWrites, CreateKeyring, FlushHeader, SaveKeyring,
                        SaveMasterKeys, StoreInKeyring, StorePassword, KeyringThrew
    <3>2. QED BY <2>1, <3>1
  <2>4. QED BY <2>2, <2>3
<1>5. CASE ConfigStep
  BY <1>5, ConfigFrame DEF configStepUnchanged, historyVars, idVars, KeysKept
<1>6. CASE Clear
  BY <1>6 DEF Clear, historyVars, KeysKept
<1>7. CASE UnwindRest
  <2>1. pc = "unwindRest" /\ pc' = "failed" /\ kpc' = kpc /\ oldExt' = oldExt
    BY <1>7 DEF UnwindRest, historyVars
  <2>2. \/ unnoticed' = unnoticed /\ cleanProgram = NoCallback /\ ext' = ext
        \/ cleanProgram # NoCallback /\ ext' = [ext EXCEPT ![id] = cleanProgram]
        \/ ProgramSpoilt' /\ ext' = ext
    BY <1>7 DEF UnwindRest
  <2>3. CASE cleanProgram # NoCallback /\ ext' = [ext EXCEPT ![id] = cleanProgram]
    <3>1. ext' = oldExt
      BY <2>1, <2>3 DEF Types
    <3>2. QED BY <2>1, <3>1 DEF KeysKept
  <2>4. QED BY <2>1, <2>2, <2>3 DEF KeysKept
<1>71. CASE UnwindKeys \/ UnwindConfig
  <2>1. /\ UNCHANGED <<ext, oldExt, id, cleanProgram, kpc>> /\ unnoticed \subseteq unnoticed'
        /\ pc \in {"unwind", "unwindConfig"} /\ pc' \in {"unwindConfig", "unwindRest"}
    BY <1>71 DEF UnwindKeys, UnwindConfig, configStepUnchanged, historyVars, idVars
  <2>2. QED BY <2>1 DEF KeysKept
<1>72. CASE CopyBackThrows
  BY <1>72 DEF CopyBackThrows, historyVars, KeysKept
<1>73. CASE CopyKeys
  <2>1. /\ UNCHANGED <<ext, oldExt, id, cleanProgram, kpc>> /\ unnoticed \subseteq unnoticed'
        /\ pc = "copy" /\ pc' \in {"keyring", "unwind"} /\ kpc = "closed"
    BY <1>73 DEF CopyKeys, keyringStepUnchanged, historyVars, idVars, KeysKept
  <2>2. QED BY <2>1
<1>8. CASE Crash
  <2>1. /\ UNCHANGED <<ext, oldExt>> /\ pc' = "crashed" /\ kpc' = "closed" /\ pc # "idle"
    BY <1>8 DEF Crash, CrashKeyring, historyVars, KeysKept
  <2>2. QED BY <2>1
<1>9. CASE OperatorDeletes
  BY <1>9 DEF OperatorDeletes, KeysKept
<1>10. CASE PrimaryMoves
  BY <1>10 DEF PrimaryMoves, fileVars, historyVars, keyringVars, idVars
<1>11. CASE UNCHANGED vars
  BY <1>11 DEF vars, fileVars, historyVars, keyringVars, idVars
<1>12. QED
  BY <1>1, <1>2, <1>3, <1>4, <1>5, <1>6, <1>7, <1>71, <1>72, <1>73, <1>8, <1>9, <1>10, <1>11,
     Cases

\* init_keyring() writes back what it loaded.
LEMMA EntriesStepKept ==
  ASSUME Types, Directory, KeysKept, EntriesKept, [Next]_vars
  PROVE  EntriesKept'
<1> USE DEF EntriesKept, HasOldEntries, KeysSpoilt, CopySpoilt, Attempt, Writing
<1>1. CASE Start
  BY <1>1 DEF Start, KeysKept, Running, Ended
<1>2. CASE AttemptStep
  BY <1>2, AttemptFrame DEF fileVars, historyVars, keyringVars, KeysKept, Running, Ended
<1>3. CASE InitKeyringFile
  <2>1. /\ UNCHANGED <<pc, mkfile, oldKeys>>
        /\ pc = "keyring" /\ kpc = "closed" /\ unnoticed \subseteq unnoticed'
    BY <1>3 DEF InitKeyringFile, OpenKeyring, OpenWithProgram, ProgramFails,
                keyringStepUnchanged, historyVars
  <2>2. mkfile = oldKeys
    BY <2>1 DEF KeysKept, Running, Ended
  <2>3. kpc' \in {"create", "header", "master"} => HasOldEntries(mem.entries)'
    <3>1. CASE OpenKeyring(num)
      <4>1. PICK r \in InitKeyring(TRUE, num) :
              /\ kpc' = "create" => r.ok
              /\ kpc' \in {"threw", "open", "create"}
              /\ mem' = r.mem
        BY <3>1, Zenon DEF OpenKeyring
      <4>2. r.ok => \A i \in DOMAIN mkfile.entries :
                      i \in DOMAIN r.mem.entries /\ r.mem.entries[i] = mkfile.entries[i]
        BY KeepsEntries DEF Types
      <4>3. QED BY <2>1, <2>2, <4>1, <4>2
    <3>2. CASE \E copied \in BOOLEAN : OpenWithProgram(id, copied)
      BY <3>2 DEF OpenWithProgram, OpenWithKey
    <3>3. CASE ProgramFails
      BY <3>3 DEF ProgramFails
    <3>4. QED BY <1>3, <3>1, <3>2, <3>3 DEF InitKeyringFile
  <2>4. QED BY <2>1, <2>2, <2>3
<1>4. CASE KeyringStep
  <2>1. /\ UNCHANGED <<oldKeys, bck, cleanKey>>
        /\ pc = "keyring" /\ kpc # "closed"
        /\ pc' \in {"keyring", "config", "unwind"} /\ (pc' = "keyring" <=> kpc' # "closed")
        /\ unnoticed \subseteq unnoticed'
    BY <1>4, KeyringFrame DEF keyringStepUnchanged, historyVars
  <2>2. "bck" \in unnoticed' \/ bck = oldKeys
    BY <2>1 DEF KeysKept, Running, Ended, Unwinding, KeysUnwound
  <2>3. CASE GenerateMasterKey(id, num)
    BY <2>1, <2>2, <2>3 DEF GenerateMasterKey, OpenWithKey
  <2>4. CASE CreateKeyring
    BY <2>1, <2>2, <2>4 DEF CreateKeyring, SaveKeyring
  <2>5. CASE FlushHeader
    <3>1. mem'.entries = mem.entries
      BY <2>5 DEF FlushHeader, Types, MemFields
    <3>2. QED BY <2>1, <2>2, <2>5, <3>1 DEF FlushHeader, SaveKeyring
  <2>6. CASE SaveMasterKeys
    <3>1. CASE mkfile' = MasterKeys("signed", mem.entries)
      <4>1. mkfile'.entries = mem.entries
        BY <3>1 DEF MasterKeys
      <4>2. QED BY <2>1, <2>2, <2>6, <4>1 DEF SaveMasterKeys
    <3>2. CASE kpc' = "threw"
      BY <2>1, <2>2, <2>6, <3>2 DEF SaveMasterKeys
    <3>3. CASE "master" \in unnoticed' /\ kpc' = "open"
      BY <2>1, <2>6, <3>3
    <3>4. QED BY <2>6, <3>1, <3>2, <3>3 DEF SaveMasterKeys
  <2>7. CASE StoreInKeyring
    <3>1. /\ kpc = "open" /\ UNCHANGED <<mkfile, unnoticed>>
          /\ kpc' \in {"closed", "threw"} /\ (kpc' = "closed" <=> pc' = "config")
      BY <2>7 DEF StoreInKeyring, StorePassword, SaveKeyring
    <3>2. QED BY <2>1, <2>2, <3>1
  <2>8. CASE KeyringThrew
    BY <2>1, <2>2, <2>8 DEF KeyringThrew
  <2>9. QED
    BY <1>4, <2>3, <2>4, <2>5, <2>6, <2>7, <2>8 DEF KeyringStep, KeyringWrites
<1>5. CASE ConfigStep
  BY <1>5, ConfigFrame DEF configStepUnchanged, historyVars
<1>6. CASE Clear
  BY <1>6 DEF Clear, ProcessEnds, historyVars, KeysKept
<1>7. CASE UnwindKeys
  <2>1. /\ UNCHANGED <<oldKeys, kpc>> /\ unnoticed \subseteq unnoticed'
        /\ pc = "unwind" /\ pc' = "unwindConfig"
    BY <1>7 DEF UnwindKeys, historyVars
  <2>2. \/ cleanKey = "leave" /\ mkfile' = mkfile
        \/ cleanKey = "delete"
        \/ cleanKey = "revert" /\ mkfile' = bck
        \/ cleanKey = "revert" /\ "restored" \in unnoticed'
    BY <1>7 DEF UnwindKeys
  <2>3. KeysSpoilt' \/ mkfile' = oldKeys \/ oldKeys = NoMasterKeys
    BY <2>1, <2>2 DEF KeysKept, KeysUnwound, Running, Ended
  <2>4. oldKeys = NoMasterKeys => DOMAIN oldKeys.entries = {}
    BY DEF NoMasterKeys, MasterKeys
  <2>5. QED BY <2>1, <2>3, <2>4 DEF KeysKept
<1>71. CASE UnwindConfig
  BY <1>71 DEF UnwindConfig, configStepUnchanged, historyVars, KeysKept
<1>72. CASE UnwindRest
  <2>1. /\ UNCHANGED <<oldKeys, kpc>> /\ unnoticed \subseteq unnoticed'
        /\ pc = "unwindRest" /\ pc' = "failed"
        /\ (newdir /\ mkfile' = NoMasterKeys) \/ UNCHANGED <<mkfile, bck>>
    BY <1>72 DEF UnwindRest, historyVars
  <2>2. newdir => oldKeys = NoMasterKeys
    BY DEF Directory
  <2>3. QED BY <2>1, <2>2 DEF KeysKept
<1>73. CASE CopyBackThrows
  <2>1. /\ UNCHANGED <<oldKeys, kpc, bck, unnoticed>> /\ pc' = "crashed"
        /\ \/ pc = "unwind" /\ cleanKey = "revert"
           \/ pc = "unwindConfig" /\ UNCHANGED mkfile
    BY <1>73 DEF CopyBackThrows, historyVars
  <2>2. QED BY <2>1 DEF KeysKept, KeysUnwound
<1>74. CASE CopyKeys
  <2>1. /\ UNCHANGED <<oldKeys, mkfile, kpc>> /\ unnoticed \subseteq unnoticed'
        /\ pc = "copy" /\ pc' \in {"keyring", "unwind"}
    BY <1>74 DEF CopyKeys, keyringStepUnchanged, historyVars
  <2>2. mkfile = oldKeys /\ kpc = "closed"
    BY <2>1 DEF KeysKept, Running, Ended
  <2>3. QED BY <2>1, <2>2
<1>8. CASE Crash
  <2>1. /\ UNCHANGED <<oldKeys, unnoticed>>
        /\ pc # "idle" /\ pc' = "crashed" /\ kpc' = "closed"
    BY <1>8 DEF Crash, CrashKeyring, historyVars, Running, Ended, KeysKept
  <2>2. \/ UNCHANGED <<mkfile, bck>>
        \/ kpc = "master" /\ bck' = bck
        \/ pc = "copy" /\ mkfile' = mkfile
        \/ pc = "unwind" /\ cleanKey = "revert" /\ bck' = bck
    BY <1>8 DEF Crash, CrashKeyring
  <2>3. kpc = "master" => "bck" \in unnoticed \/ bck = oldKeys
    BY <1>8 DEF KeysKept, Crash, Running, Unwinding, KeysUnwound
  <2>4. pc = "copy" => mkfile = oldKeys
    BY DEF KeysKept, Running, Ended
  <2>5. pc = "unwind" /\ cleanKey = "revert" => "bck" \in unnoticed \/ bck = oldKeys
    BY DEF KeysKept, KeysUnwound
  <2>6. QED BY <2>1, <2>2, <2>3, <2>4, <2>5
<1>9. CASE OperatorDeletes
  BY <1>9 DEF OperatorDeletes, KeysKept, Running, Ended
<1>10. CASE PrimaryMoves
  BY <1>10 DEF PrimaryMoves, fileVars, historyVars, keyringVars
<1>11. CASE UNCHANGED vars
  BY <1>11 DEF vars, fileVars, historyVars, keyringVars
<1>12. QED
  BY <1>1, <1>2, <1>3, <1>4, <1>5, <1>6, <1>7, <1>71, <1>72, <1>73, <1>74, <1>8, <1>9, <1>10,
     <1>11, Cases


\* An attempt changes the account of its user only once the row of its id is
\* committed with it, or was the old one.
LEMMA AccountsStepKept ==
  ASSUME Types, Directory, Accounts, [Next]_vars
  PROVE  Accounts'
<1> USE DEF Accounts, OneAccount, Writing
<1>1. CASE Start
  <2>1. UNCHANGED <<reg, acct, treg>> /\ oldAcct' = acct
    BY <1>1 DEF Start, serverVars
  <2>2. pc' \in {"refused", "unwind", "begin"}
    BY <1>1 DEF Start
  <2>3. QED BY <2>1, <2>2
<1>2. CASE Begin
  BY <1>2 DEF Begin, QueryFails, attemptUnchanged, historyVars
<1>3. CASE CheckId
  BY <1>3 DEF CheckId, attemptUnchanged, historyVars
<1>4. CASE Register
  <2>1. UNCHANGED <<acct, oldAcct, reg>> /\ pc = "register"
    BY <1>4 DEF Register, attemptUnchanged, historyVars
  <2>2. CASE pc' = "drop"
    <3>1. treg' = id' /\ id' # 0 /\ alive
      BY <1>4, <2>2 DEF Register, StatementFails, QueryFails, Types
    <3>2. QED BY <2>1, <2>2, <3>1
  <2>3. CASE pc' = "failover"
    BY <1>4, <2>1, <2>3 DEF Register
  <2>4. CASE pc' = "unwind"
    BY <2>4
  <2>5. QED
    BY <1>4, <2>2, <2>3, <2>4 DEF Register, StatementFails, QueryFails
<1>5. CASE DeleteAccounts
  <2>1. /\ UNCHANGED <<oldAcct, treg, id, user>> /\ pc = "drop"
        /\ pc' \in {"failover", "unwind", "create"}
    BY <1>5 DEF DeleteAccounts, StatementFails, QueryFails, attemptUnchanged, historyVars, idVars
  <2>2. CASE UNCHANGED <<acct, reg>>
    BY <2>1, <2>2
  <2>3. CASE acct' = [acct EXCEPT ![user] = 0] /\ reg' = treg
    <3>1. \A u \in Num : u # user => acct'[u] = acct[u]
      BY <2>3 DEF Types
    <3>2. QED BY <2>1, <2>3, <3>1
  <2>4. QED BY <1>5, <2>2, <2>3 DEF DeleteAccounts
<1>6. CASE CreateAccounts
  <2>1. /\ UNCHANGED <<oldAcct, treg, id, user>> /\ pc = "create"
        /\ pc' \in {"failover", "unwind", "finish"}
    BY <1>6 DEF CreateAccounts, StatementFails, QueryFails, attemptUnchanged, historyVars
  <2>2. CASE UNCHANGED <<acct, reg>>
    BY <2>1, <2>2
  <2>3. CASE acct' \in {acct, [acct EXCEPT ![user] = num]} /\ reg' = treg
    <3>1. \A u \in Num : u # user => acct'[u] = acct[u]
      BY <2>3 DEF Types
    <3>2. QED BY <2>1, <2>3, <3>1
  <2>4. QED BY <1>6, <2>2, <2>3 DEF CreateAccounts
<1>7. CASE Commit
  BY <1>7 DEF Commit, StatementFails, QueryFails, serverVars, historyVars, idVars
<1>8. CASE Failover
  <2>1. /\ UNCHANGED <<acct, oldAcct, reg, id, user>> /\ pc = "failover"
        /\ pc' \in {"begin", "unwind"}
    BY <1>8 DEF Failover, ConnectNext, serverVars, idVars, historyVars
  <2>2. QED BY <2>1
<1>9. CASE InitKeyringFile
  BY <1>9 DEF InitKeyringFile, keyringStepUnchanged, serverVars, idVars, historyVars
<1>10. CASE KeyringStep
  BY <1>10, KeyringFrame DEF keyringStepUnchanged, serverVars, idVars, historyVars
<1>11. CASE CreateConfig
  <2>1. "tmp" \in unnoticed' \/ tmp'.user = user
    BY <1>11 DEF CreateConfig, Config
  <2>2. QED
    BY <1>11, <2>1 DEF CreateConfig, configStepUnchanged, serverVars, idVars, historyVars
<1>12. CASE BackupConfig
  BY <1>12 DEF BackupConfig, configStepUnchanged, serverVars, idVars, historyVars
<1>121. CASE ProtectBackup
  BY <1>121 DEF ProtectBackup, configStepUnchanged, serverVars, idVars, historyVars
<1>122. CASE CopyKeys
  BY <1>122 DEF CopyKeys, keyringStepUnchanged, serverVars, idVars, historyVars
<1>13. CASE RenameConfig
  BY <1>13 DEF RenameConfig, configStepUnchanged, serverVars, idVars, historyVars
<1>14. CASE Clear
  BY <1>14 DEF Clear, serverVars, historyVars
<1>15. CASE UnwindKeys \/ UnwindConfig \/ UnwindRest \/ CopyBackThrows
  BY <1>15 DEF UnwindKeys, UnwindConfig, UnwindRest, CopyBackThrows
<1>16. CASE Crash
  BY <1>16 DEF Crash
<1>17. CASE OperatorDeletes
  BY <1>17 DEF OperatorDeletes
<1>18. CASE PrimaryMoves
  BY <1>18 DEF PrimaryMoves, fileVars, sessionVars, historyVars, keyringVars, idVars
<1>19. CASE UNCHANGED vars
  BY <1>19 DEF vars, fileVars, serverVars, sessionVars, historyVars, keyringVars, idVars
<1>20. QED
  BY <1>1, <1>2, <1>3, <1>4, <1>5, <1>6, <1>7, <1>8, <1>9, <1>10, <1>11, <1>12, <1>121, <1>122,
     <1>13, <1>14, <1>15, <1>16, <1>17, <1>18, <1>19, Cases DEF AttemptStep, ConfigStep

\* The state before the first bootstrap.
LEMMA InitInvariant ==
  ASSUME Init
  PROVE  IInv
<1>1. Types
  BY TypesInit
<1>2. Directory
  BY DEF Init, Directory, Running, Ended
<1>3. ConfigKept
  BY DEF Init, ConfigKept, Attempt
<1>4. KeysKept
  BY DEF Init, KeysKept, KeysUnwound, Attempt, Running, Ended
<1>5. ProgramKept
  BY DEF Init, ProgramKept, Attempt, Running, Ended
<1>6. EntriesKept
  BY DEF Init, EntriesKept, Writing
<1>7. Accounts
  BY DEF Init, Accounts, OneAccount, Writing
<1>8. QED
  BY <1>1, <1>2, <1>3, <1>4, <1>5, <1>6, <1>7 DEF IInv

(***************************************************************************)
(* The theorems.                                                           *)
(***************************************************************************)

\* The inductive invariant of the bootstraps.
THEOREM Invariance == Spec => []IInv
<1>1. Init => IInv
  BY InitInvariant
<1>2. IInv /\ [Next]_vars => IInv'
  BY TypesStep, DirectoryStep, ConfigStepKept, KeysStepKept, ProgramStepKept, EntriesStepKept,
     AccountsStepKept DEF IInv
<1>3. QED BY <1>1, <1>2, PTL DEF Spec

\* The configuration that a bootstrap found is in its place or in .bak, whatever
\* backup_config_file_if_different(), the rename, ~AutoCleaner() and crashes have
\* done since.
THEOREM OldConfigKeptAlways == Spec => []OldConfigKept
<1>1. IInv => OldConfigKept
  BY DEF IInv, ConfigKept, ConfigSpoilt, OldConfigKept
<1>2. QED BY <1>1, Invariance, PTL

\* A bootstrap that fails gives back the master keys, in the file and to the
\* external program, through the entries it made in AutoCleaner.
THEOREM FailureRestoresAlways == Spec => []FailureRestores
<1>1. IInv => FailureRestores
  BY DEF IInv, KeysKept, ProgramKept, CopySpoilt, ProgramSpoilt, FailureRestores
<1>2. QED BY <1>1, Invariance, PTL

\* The keys of other keyrings survive init_keyring(), whose writes truncate the
\* master key file first, and the external program keeps every key it had.
THEOREM OthersKeyKeptAlways == Spec => []OthersKeyKept
<1>1. IInv => OthersKeyKept
  <2>1. SUFFICES ASSUME IInv, pc # "idle"
                 PROVE  /\ \A i \in Num : oldExt[i] # 0 => ext[i] = oldExt[i]
                        /\ unnoticed \cap {"master", "bck", "restored"} = {} =>
                             \A e \in {oldKeys.entries[i] : i \in DOMAIN oldKeys.entries} :
                               e.ring # Mine =>
                                 \E f \in {mkfile, bck} : \E i \in DOMAIN f.entries : f.entries[i] = e
    BY DEF OthersKeyKept
  <2>2. \A i \in Num : oldExt[i] # 0 => ext[i] = oldExt[i]
    BY <2>1 DEF IInv, ProgramKept
  <2>3. unnoticed \cap {"master", "bck", "restored"} = {} =>
          HasOldEntries(mkfile.entries) \/ HasOldEntries(bck.entries)
    BY <2>1 DEF IInv, EntriesKept, KeysSpoilt, CopySpoilt
  <2>4. QED BY <2>2, <2>3 DEF HasOldEntries
<1>2. QED BY <1>1, Invariance, PTL

\* A bootstrap that succeeds has changed the account of its configuration only,
\* however often failover_on_failure() made it begin again: what an attempt has
\* created, the next one recognises by the id.
THEOREM OneAccountAlways == Spec => []OneAccount
<1>1. IInv => OneAccount
  BY DEF IInv, Accounts
<1>2. QED BY <1>1, Invariance, PTL

(***************************************************************************)
(* Usable: that a router can start after a bootstrap that succeeded.  This *)
(* takes more than IInv: the numbers given to ids, users, passwords and    *)
(* keys stay in range and are new, and at each place the two files of the  *)
(* keyring, or the keyring and the program, agree as far as they have to.  *)
(***************************************************************************)

\* The attempts that r bootstraps can make, plus the number that was there.
Bound(r) == 1 + r * (Cardinality(Nodes) + 1)

\* The attempts that the present bootstrap can still make.
ToTry == (IF fetched THEN Len(rest) ELSE 0) + (IF pc = "begin" THEN 1 ELSE 0)

\* The members are asked for once, so that the attempts of a bootstrap are at
\* most one more than the members.
Numbers ==
  /\ runs \in 0..MaxRuns /\ rest \in Seq(Nodes) /\ (~fetched => rest = <<>>)
  /\ num <= Bound(runs)
  /\ ~Running => ~fetched
  /\ Running => runs # 0
  /\ pc \in Attempt =>
       num + ToTry <= Bound(runs - 1) + 1 + (IF fetched THEN Cardinality(Nodes) ELSE 0)

\* The identity in a configuration is one that was given.
IdsOK(c) == c.st \in {"whole", "short"} => c.id \in 1..num /\ c.user \in 1..num
Identities ==
  /\ IdsOK(config) /\ IdsOK(tmp) /\ IdsOK(bak) /\ IdsOK(oldConfig)
  /\ reg \in 0..num /\ treg \in 0..num /\ id \in 0..num /\ user \in 0..num
  /\ id # 0 /\ pc \notin KeysUnwound => user # 0
  /\ pc \in {"drop", "create", "finish", "copy", "keyring"} \cup Writing => id # 0

\* The values of a keyring file and of the keyring object.
KeyringFiles(n) ==
  [st : {"absent", "cut", "damaged", "whole"}, hdr : 0..n, key : 0..n, pw : [Num -> Nat]]
Mems(n) ==
  [entries : Seq(KeyEntry), key : 0..n, scr : 0..n, hdr : 0..n, pw : [Num -> Nat]]

\* The key of a keyring file is older than the attempt that will open it.
KeyNumbers ==
  /\ kring \in KeyringFiles(num) /\ mem \in Mems(num)
  /\ ext \in [Num -> 0..num] /\ oldExt \in [Num -> 0..num]
  /\ pc \in Attempt \ {"begin"} \/ pc = "copy" \/ (pc = "keyring" /\ kpc = "closed") =>
       kring.key < num

\* From the end of the attempts on, the password is that of the account, and the
\* row is that of the id; then the configuration names both.
Credentials ==
  /\ pass \in 0..num
  /\ pc \in {"finish", "copy", "keyring"} \cup Writing =>
       reg = id /\ acct[user] = pass /\ pass # 0
  /\ pc \in {"backup", "protect", "rename"} =>
       "tmp" \in unnoticed \/ tmp = Config("whole", id, user)
  /\ pc = "clear" => "tmp" \in unnoticed \/ config = Config("whole", id, user)
  /\ pc = "done" => \/ "tmp" \in unnoticed
                    \/ config.st = "whole" /\ config.id = reg /\ acct[config.user] # 0

\* MasterKeyFile::get() finds key k for this keyring.
FirstIs(es, k) == MinePlaces(es) # {} /\ FirstMine(es) = k
KeyFileGives(k) == mkfile.st = "signed" /\ FirstIs(mkfile.entries, k)

\* The key that a router finds need not be the one that was added last.
FileSpoilt == "master" \in unnoticed \/ orphaned

\* The keyring has password p for user u, under the key that the master key file,
\* or the program for router i, gives for it.
Stored(i, u, p) ==
  /\ kring.st = "whole" /\ kring.key # 0 /\ kring.pw[u] = p
  /\ IF program THEN kring.key = ext[i]
     ELSE kring.hdr = kring.key /\ (FileSpoilt \/ KeyFileGives(kring.key))

\* A master key file with an entry for this keyring goes with a keyring file, so
\* that an entry that is added is the first one.  That holds until the keyring
\* file alone is deleted.
GoesWithKeyring(f) ==
  program \/ orphaned \/ MinePlaces(f.entries) = {} \/ kring.st # "absent"

KeyringPair ==
  /\ GoesWithKeyring(mkfile)
  /\ cleanKey = "revert" => GoesWithKeyring(bck)
  /\ kpc \in {"create", "header", "master"} =>
       ~program /\ mem.scr = mem.key /\ mem.key # 0 /\ (orphaned \/ FirstIs(mem.entries, mem.key))
  /\ kpc \in {"header", "master"} => kring.st # "absent"
  /\ kpc = "master" => mem.hdr = mem.key
  /\ kpc = "generate" => program
  /\ kpc = "createOnly" => program /\ mem.key = ext[id] /\ mem.key # 0
  /\ kpc = "open" =>
       /\ mem.key # 0
       /\ IF program THEN mem.key = ext[id]
          ELSE mem.hdr = mem.key /\ (FileSpoilt \/ KeyFileGives(mem.key))
  /\ pc \in Writing => Stored(id, user, pass)
  /\ pc = "done" =>
       "tmp" \in unnoticed \/ Stored(config.id, config.user, acct[config.user])

UInv == IInv /\ Numbers /\ Identities /\ KeyNumbers /\ Credentials /\ KeyringPair

\* One more bootstrap is one more attempt than there are members, and MaxNum is
\* enough for all.
LEMMA BoundFacts ==
  ASSUME NEW r \in Nat
  PROVE  /\ Bound(r) \in Nat /\ Cardinality(Nodes) \in Nat
         /\ Bound(r + 1) = Bound(r) + Cardinality(Nodes) + 1
         /\ r <= MaxRuns => Bound(r) <= MaxNum
<1>1. Cardinality(Nodes) \in Nat
  BY BootstrapAssumption, FS_CardinalityType
<1>2. PICK c \in Nat : c = Cardinality(Nodes) + 1
  BY <1>1
<1>3. r * c \in Nat /\ (r + 1) * c = r * c + c
  BY <1>2
<1>4. r <= MaxRuns => r * c <= MaxRuns * c
  <2>1. SUFFICES ASSUME r <= MaxRuns PROVE r * c <= MaxRuns * c
    OBVIOUS
  <2>2. PICK d \in Nat : MaxRuns = r + d
    BY <2>1, BootstrapAssumption
  <2>3. MaxRuns * c = r * c + d * c /\ d * c \in Nat
    BY <2>2
  <2>4. QED BY <1>3, <2>3, BootstrapAssumption
<1>5. MaxNum >= 1 + MaxRuns * c
  BY <1>2, BootstrapAssumption
<1>6. MaxRuns * c \in Nat
  BY <1>2, BootstrapAssumption
<1>7. QED
  BY <1>1, <1>2, <1>3, <1>4, <1>5, <1>6, KeyringAssumption DEF Bound

\* What is left to try is a number.
LEMMA ToTryNat ==
  ASSUME Types, Numbers
  PROVE  ToTry \in Nat
<1>1. Len(rest) \in Nat
  BY DEF Numbers
<1>2. CASE fetched
  BY <1>1, <1>2 DEF ToTry
<1>3. CASE ~fetched
  BY <1>3 DEF ToTry
<1>4. QED BY <1>2, <1>3

\* Every number is in range.
LEMMA NumInRange ==
  ASSUME Types, Numbers
  PROVE  num \in Num
<1>1. runs \in Nat /\ runs <= MaxRuns /\ num \in Nat \ {0} /\ MaxNum \in Nat
  BY BootstrapAssumption, KeyringAssumption DEF Numbers, Types
<1>2. \A r \in Nat : Bound(r) \in Nat /\ (r <= MaxRuns => Bound(r) <= MaxNum)
  BY BoundFacts
<1>3. Bound(runs) \in Nat /\ Bound(runs) <= MaxNum
  BY <1>1, <1>2
<1>4. QED BY <1>1, <1>3 DEF Num, Numbers

\* The lists of members are no longer than the group.
LEMMA OrdersLength ==
  ASSUME NEW S \in GrServers, NEW s \in Orders(S)
  PROVE  s \in Seq(Nodes) /\ Len(s) <= Cardinality(Nodes)
<1>1. S \subseteq Nodes /\ IsFiniteSet(S) /\ Cardinality(S) <= Cardinality(Nodes)
  BY BootstrapAssumption, FS_Subset DEF GrServers
<1>2. Cardinality(S) \in Nat
  BY <1>1, FS_CardinalityType
<1>3. s \in [1..Cardinality(S) -> Nodes]
  BY <1>1 DEF Orders
<1>4. s \in Seq(Nodes) /\ Len(s) = Cardinality(S)
  BY <1>2, <1>3
<1>5. QED BY <1>1, <1>4

\* What is left of a list is shorter by those that were tried.
LEMMA RestLength ==
  ASSUME NEW s \in Seq(Nodes), NEW k \in DOMAIN s
  PROVE  /\ SubSeq(s, k + 1, Len(s)) \in Seq(Nodes)
         /\ Len(SubSeq(s, k + 1, Len(s))) = Len(s) - k
<1>1. \A i \in (k + 1)..Len(s) : s[i] \in Nodes
  OBVIOUS
<1>2. QED BY <1>1, SubSeqProperties

\* A step that begins no attempt leaves no more to try.
LEMMA QuietStep ==
  ASSUME Types, Numbers, UNCHANGED <<runs, num, rest, fetched>>, Running <=> Running',
         pc' \in Attempt => pc \in Attempt, pc' = "begin" => pc = "begin"
  PROVE  Numbers'
<1>1. num \in Nat /\ Len(rest) \in Nat /\ runs \in Nat
  BY DEF Types, Numbers
<1>2. ToTry \in Nat /\ ToTry' \in Nat /\ ToTry' <= ToTry
  <2>1. CASE fetched
    BY <1>1, <2>1 DEF ToTry
  <2>2. CASE ~fetched
    BY <2>2 DEF ToTry
  <2>3. QED BY <2>1, <2>2
<1>3. CASE pc' \notin Attempt
  BY <1>3 DEF Numbers, Bound
<1>4. CASE pc' \in Attempt
  <2>1. PICK r \in Nat : runs - 1 = r
    BY <1>1, <1>4 DEF Numbers, Attempt, Running, Ended
  <2>2. PICK b \in Nat : b = Bound(r) + 1 + (IF fetched THEN Cardinality(Nodes) ELSE 0)
    BY BoundFacts
  <2>3. num + ToTry <= b
    BY <1>4, <2>1, <2>2 DEF Numbers
  <2>4. num' + ToTry' <= b
    BY <1>1, <1>2, <2>2, <2>3
  <2>5. QED BY <1>4, <2>1, <2>2, <2>4 DEF Numbers, Bound
<1>5. QED BY <1>3, <1>4

\* After the session there are no more attempts.
LEMMA NoMoreAttempts ==
  ASSUME Numbers, UNCHANGED <<runs, num>>, ~fetched', rest' = <<>>,
         pc' \notin Attempt, Running' => Running
  PROVE  Numbers'
<1>1. <<>> \in Seq(Nodes)
  OBVIOUS
<1>2. QED BY <1>1 DEF Numbers, Bound

\* Every attempt uses up one of those that were left to try.
LEMMA NumbersStep ==
  ASSUME Types, Numbers, [Next]_vars
  PROVE  Numbers'
<1>1. /\ runs \in Nat /\ runs <= MaxRuns /\ MaxRuns \in Nat /\ num \in Nat
      /\ rest \in Seq(Nodes) /\ Len(rest) \in Nat
  BY BootstrapAssumption DEF Numbers, Types
<1>2. \A r \in Nat : /\ Bound(r) \in Nat /\ Cardinality(Nodes) \in Nat
                     /\ Bound(r + 1) = Bound(r) + Cardinality(Nodes) + 1
  BY BoundFacts
<1>3. <<>> \in Seq(Nodes) /\ Len(<<>>) = 0
  OBVIOUS
<1>4. num <= Bound(runs) /\ ToTry \in Nat
  BY ToTryNat DEF Numbers
<1>5. CASE Start
  <2>1. /\ runs' = runs + 1 /\ runs' \in 0..MaxRuns /\ runs' - 1 = runs
        /\ UNCHANGED <<num, rest, fetched>> /\ ~fetched /\ num <= Bound(runs)
        /\ pc' \in {"refused", "unwind", "begin"}
    BY <1>1, <1>5 DEF Start, Numbers
  <2>2. Bound(runs) \in Nat /\ Bound(runs') = Bound(runs) + Cardinality(Nodes) + 1 /\ Cardinality(Nodes) \in Nat
    BY <1>1, <1>2, <2>1
  <2>3. ToTry' \in 0..1
    BY <2>1 DEF ToTry
  <2>4. num' + ToTry' <= Bound(runs' - 1) + 1 + (IF fetched' THEN Cardinality(Nodes) ELSE 0)
    <3>1. num' + ToTry' <= Bound(runs) + 1 + 0
      BY <1>1, <2>1, <2>2, <2>3
    <3>2. QED BY <2>1, <3>1
  <2>5. num' <= Bound(runs')
    BY <1>1, <2>1, <2>2
  <2>6. rest' \in Seq(Nodes) /\ rest' = <<>> /\ ~fetched'
    BY <1>1, <2>1 DEF Numbers
  <2>7. runs' # 0
    BY <1>1, <2>1
  <2>8. QED BY <2>1, <2>4, <2>5, <2>6, <2>7 DEF Numbers
<1>6. CASE Begin
  <2>1. /\ UNCHANGED <<runs, rest, fetched>> /\ num' = num + 1
        /\ pc = "begin" /\ pc' # "begin" /\ Running /\ Running'
    BY <1>6 DEF Begin, QueryFails, attemptUnchanged, setupVars, Running, Ended
  <2>2. ToTry' = ToTry - 1
    <3>1. CASE fetched
      BY <1>1, <2>1, <3>1 DEF ToTry
    <3>2. CASE ~fetched
      BY <2>1, <3>2 DEF ToTry
    <3>3. QED BY <3>1, <3>2
  <2>3. num' + ToTry' = num + ToTry
    BY <1>1, <1>4, <2>1, <2>2
  <2>4. PICK r \in Nat : runs = r + 1 /\ runs - 1 = r
    BY <1>1, <2>1 DEF Numbers
  <2>5. num + ToTry <= Bound(r) + 1 + (IF fetched THEN Cardinality(Nodes) ELSE 0)
    BY <2>1, <2>4 DEF Numbers, Attempt
  <2>6. /\ Bound(r) \in Nat /\ Cardinality(Nodes) \in Nat
        /\ Bound(runs) = Bound(r) + Cardinality(Nodes) + 1
    BY <1>2, <2>4
  <2>7. ToTry' \in Nat /\ num' \in Nat
    BY <1>1, <1>4, <2>1, <2>2 DEF ToTry
  <2>8. num' <= Bound(runs)
    BY <2>3, <2>5, <2>6, <2>7
  <2>9. num' + ToTry' <= Bound(runs' - 1) + 1 + (IF fetched' THEN Cardinality(Nodes) ELSE 0)
    BY <2>1, <2>3, <2>4, <2>5
  <2>10. QED BY <1>1, <2>1, <2>8, <2>9 DEF Numbers
<1>7. CASE Failover
  <2>1. /\ UNCHANGED <<runs, num>> /\ fetched' /\ pc = "failover" /\ Running
        /\ pc' \in {"begin", "unwind"} /\ Running'
    BY <1>7 DEF Failover, ConnectNext, setupVars, idVars, Running, Ended
  <2>2. /\ rest' \in Seq(Nodes)
        /\ \/ fetched /\ ToTry' <= Len(rest) /\ ToTry = Len(rest)
           \/ ~fetched /\ ToTry' <= Cardinality(Nodes) /\ ToTry = 0
    <3>1. ASSUME NEW s \in Seq(Nodes), ConnectNext(s)
          PROVE  rest' \in Seq(Nodes) /\ ToTry' \in Nat /\ ToTry' <= Len(s)
      <4>1. Len(s) \in Nat
        OBVIOUS
      <4>2. CASE pc' = "unwind" /\ rest' = <<>>
        BY <1>3, <2>1, <4>1, <4>2 DEF ToTry
      <4>3. ASSUME NEW k \in DOMAIN s, rest' = SubSeq(s, k + 1, Len(s)), pc' = "begin"
            PROVE  rest' \in Seq(Nodes) /\ ToTry' \in Nat /\ ToTry' <= Len(s)
        <5>1. rest' \in Seq(Nodes) /\ Len(rest') = Len(s) - k /\ k >= 1 /\ k \in Nat
          BY <4>3, RestLength
        <5>2. ToTry' = Len(rest') + 1
          BY <2>1, <4>3 DEF ToTry
        <5>3. QED BY <4>1, <5>1, <5>2
      <4>4. QED BY <3>1, <4>2, <4>3 DEF ConnectNext
    <3>2. fetched => ToTry = Len(rest)
      BY <1>1, <2>1 DEF ToTry
    <3>3. ~fetched => ToTry = 0
      BY <2>1 DEF ToTry
    <3>4. CASE fetched
      BY <1>1, <1>7, <3>1, <3>2, <3>4 DEF Failover
    <3>5. CASE ~fetched /\ ~alive
      <4>1. rest' = rest /\ pc' = "unwind"
        BY <1>7, <3>5 DEF Failover
      <4>2. rest' = <<>>
        BY <3>5, <4>1 DEF Numbers
      <4>3. ToTry' = 0
        BY <1>3, <2>1, <4>1, <4>2 DEF ToTry
      <4>4. Cardinality(Nodes) \in Nat
        BY <1>2
      <4>5. QED BY <1>3, <3>3, <3>5, <4>2, <4>3, <4>4
    <3>6. CASE ~fetched /\ alive
      <4>1. PICK S \in GrServers : \E s \in Orders(S) : ConnectNext(s)
        BY <1>7, <3>6 DEF Failover
      <4>2. PICK s \in Orders(S) : ConnectNext(s)
        BY <4>1
      <4>3. s \in Seq(Nodes) /\ Len(s) <= Cardinality(Nodes)
        BY OrdersLength
      <4>4. rest' \in Seq(Nodes) /\ ToTry' \in Nat /\ ToTry' <= Len(s)
        BY <3>1, <4>2, <4>3
      <4>5. Len(s) \in Nat /\ Cardinality(Nodes) \in Nat
        BY <1>2, <4>3
      <4>6. ToTry' <= Cardinality(Nodes)
        BY <4>3, <4>4, <4>5
      <4>7. QED BY <3>3, <3>6, <4>4, <4>6
    <3>7. QED BY <3>4, <3>5, <3>6
  <2>3. PICK r \in Nat : runs - 1 = r
    BY <1>1, <2>1 DEF Numbers
  <2>4. /\ Bound(r) \in Nat /\ Cardinality(Nodes) \in Nat
        /\ num + ToTry <= Bound(r) + 1 + (IF fetched THEN Cardinality(Nodes) ELSE 0)
    BY <1>2, <2>1, <2>3 DEF Numbers, Attempt
  <2>5. ToTry' \in Nat
    <3>1. Len(rest') \in Nat
      BY <2>2
    <3>2. QED BY <2>1, <3>1 DEF ToTry
  <2>6. num' + ToTry' <= Bound(r) + 1 + Cardinality(Nodes)
    BY <1>1, <1>4, <2>1, <2>2, <2>4, <2>5
  <2>7. QED BY <1>4, <2>1, <2>2, <2>3, <2>6 DEF Numbers
<1>8. CASE AttemptStep /\ ~Begin /\ ~Failover
  <2>1. pc \in Attempt /\ Running /\ Running'
    BY <1>8, AttemptFrame DEF Attempt, Running, Ended
  <2>2. CASE pc' = "copy"
    <3>1. UNCHANGED <<runs, num>> /\ ~fetched' /\ rest' = <<>>
      BY <1>8, <2>2 DEF AttemptStep, CheckId, Register, DeleteAccounts, CreateAccounts, Commit,
                  SessionEnds, StatementFails, QueryFails, setupVars, idVars
    <3>2. QED BY <2>1, <2>2, <3>1, NoMoreAttempts DEF Attempt
  <2>3. CASE pc' # "copy"
    <3>1. UNCHANGED <<runs, num, rest, fetched>> /\ pc' # "begin"
      BY <1>8, <2>3 DEF AttemptStep, CheckId, Register, DeleteAccounts, CreateAccounts, Commit,
                  StatementFails, QueryFails, attemptUnchanged, setupVars, idVars
    <3>2. QED BY <2>1, <3>1, QuietStep
  <2>4. QED BY <2>2, <2>3
<1>9. CASE CopyKeys \/ InitKeyringFile
  <2>1. /\ UNCHANGED <<runs, num, rest, fetched>> /\ pc \in {"copy", "keyring"}
        /\ pc' \in {"keyring", "unwind"}
    BY <1>9 DEF CopyKeys, InitKeyringFile, keyringStepUnchanged, setupVars, sessionVars, idVars
  <2>2. QED BY <2>1, QuietStep DEF Attempt, Running, Ended
<1>10. CASE KeyringStep
  <2>1. UNCHANGED <<runs, num, rest, fetched>> /\ pc = "keyring" /\ pc' \in {"keyring", "config", "unwind"}
    BY <1>10, KeyringFrame DEF keyringStepUnchanged, setupVars, sessionVars, idVars
  <2>2. QED BY <2>1, QuietStep DEF Attempt, Running, Ended
<1>11. CASE ConfigStep
  <2>1. /\ UNCHANGED <<runs, num, rest, fetched>> /\ pc \in {"config", "backup", "protect", "rename"}
        /\ pc' \in {"backup", "protect", "rename", "clear", "unwind"}
    BY <1>11, ConfigFrame DEF configStepUnchanged, setupVars, sessionVars, idVars
  <2>2. QED BY <2>1, QuietStep DEF Attempt, Running, Ended
<1>12. CASE (Clear /\ pc' = "unwind") \/ UnwindConfig
  <2>1. /\ UNCHANGED <<runs, num, rest, fetched>> /\ pc \in {"clear", "unwindConfig"}
        /\ pc' \in {"unwind", "unwindRest"}
    BY <1>12 DEF Clear, UnwindConfig, ProcessEnds, sessionVars, configStepUnchanged, setupVars, idVars
  <2>2. QED BY <1>12, <2>1, QuietStep DEF Attempt, Running, Ended
<1>13. CASE (Clear /\ pc' = "done") \/ UnwindKeys \/ UnwindRest \/ CopyBackThrows \/ Crash
  <2>1. UNCHANGED <<runs, num>> /\ ~fetched' /\ rest' = <<>>
    BY <1>13 DEF Clear, UnwindKeys, UnwindRest, CopyBackThrows, Crash, ProcessEnds, SessionEnds, setupVars
  <2>2. pc' \in {"done", "unwindConfig", "failed", "crashed"} /\ (pc' = "unwindConfig" => pc = "unwind")
    BY <1>13 DEF Clear, UnwindKeys, UnwindRest, CopyBackThrows, Crash
  <2>3. QED BY <2>1, <2>2, NoMoreAttempts DEF Attempt, Running, Ended
<1>14. CASE OperatorDeletes
  <2>1. UNCHANGED <<runs, num, rest, fetched>> /\ ~Running /\ ~Running' /\ pc' = "idle"
    BY <1>14 DEF OperatorDeletes, setupVars, sessionVars, idVars, Running, Ended
  <2>2. QED BY <2>1, QuietStep DEF Attempt
<1>15. CASE PrimaryMoves
  <2>1. UNCHANGED <<runs, num, rest, fetched, pc>>
    BY <1>15 DEF PrimaryMoves, setupVars, sessionVars, idVars
  <2>2. QED BY <2>1, QuietStep DEF Running
<1>16. CASE UNCHANGED vars
  <2>1. UNCHANGED <<runs, num, rest, fetched, pc>>
    BY <1>16 DEF vars, setupVars, sessionVars, idVars
  <2>2. QED BY <2>1, QuietStep DEF Running
<1>17. Clear => pc' \in {"done", "unwind"}
  BY DEF Clear
<1>18. QED
  BY <1>5, <1>6, <1>7, <1>8, <1>9, <1>10, <1>11, <1>12, <1>13, <1>14, <1>15, <1>16, <1>17, Cases
     DEF AttemptStep

\* The number of attempts never goes down.
LEMMA TypesNum ==
  ASSUME Types, [Next]_vars
  PROVE  num \in Nat \ {0} /\ num' \in Nat \ {0} /\ num <= num'
<1>1. num' = num \/ num' = num + 1
  BY Cases, KeyringFrame, ConfigFrame
     DEF Start, AttemptStep, Begin, CheckId, Register, DeleteAccounts, CreateAccounts, Commit, Failover,
         CopyKeys, InitKeyringFile, keyringStepUnchanged, configStepUnchanged, Clear,
         UnwindKeys, UnwindConfig, UnwindRest, CopyBackThrows, Crash,
         OperatorDeletes, PrimaryMoves, vars, idVars
<1>2. QED BY <1>1 DEF Types

\* Part of a configuration has the same identity or none.
LEMMA TornIds ==
  ASSUME NEW c, IdsOK(c), NEW d \in TornConfigs(c)
  PROVE  IdsOK(d)
<1>1. d \in {CutConfig, EmptyConfig} => d.st \notin {"whole", "short"}
  BY DEF CutConfig, EmptyConfig, Config
<1>2. CASE d = [c EXCEPT !.st = IF @ = "whole" THEN "short" ELSE @]
  <2>1. d.id = c.id /\ d.user = c.user
    BY <1>2
  <2>2. d.st \in {"whole", "short"} => c.st \in {"whole", "short"}
    BY <1>2
  <2>3. QED BY <2>1, <2>2 DEF IdsOK
<1>3. QED BY <1>1, <1>2 DEF TornConfigs, IdsOK

\* The identity of a configuration stays one that was given.
LEMMA IdentitiesStep ==
  ASSUME Types, Accounts, Identities, [Next]_vars
  PROVE  Identities'
<1> USE DEF Identities, IdsOK, Writing, KeysUnwound
<1>1. num \in Nat \ {0} /\ num' \in Nat \ {0}
  BY TypesNum
<1>2. /\ IdsOK(NoConfig) /\ IdsOK(CutConfig) /\ IdsOK(EmptyConfig)
      /\ \A c : IdsOK(c) => \A d \in TornConfigs(c) : IdsOK(d)
  BY TornIds DEF NoConfig, CutConfig, EmptyConfig, Config
<1>3. CASE Start
  <2>1. /\ UNCHANGED <<config, bak, reg, treg, num>> /\ oldConfig' = config
        /\ tmp' = tmp \/ tmp' = CutConfig
        /\ pc' \in {"refused", "begin", "unwind"} /\ pc \notin KeysUnwound
    BY <1>3 DEF Start, serverVars, Running, Ended
  <2>2. IdsOK(tmp)'
    BY <1>2, <2>1 DEF CutConfig, Config
  <2>3. \/ id' = id /\ user' = user
        \/ id' = Identity[1] /\ user' = Identity[2]
    BY <1>3 DEF Start
  <2>4. CASE id' = id /\ user' = user
    BY <2>1, <2>2, <2>4
  <2>5. CASE id' = Identity[1] /\ user' = Identity[2]
    <3>1. id' \in 0..num /\ user' \in 0..num /\ (id' # 0 => user' # 0)
      BY <1>1, <2>5 DEF Identity
    <3>2. QED BY <2>1, <2>2, <3>1
  <2>6. QED BY <2>3, <2>4, <2>5
<1>4. CASE AttemptStep
  <2>1. UNCHANGED <<config, tmp, bak, oldConfig>> /\ pc \notin KeysUnwound
    BY <1>4, AttemptFrame DEF fileVars, historyVars, Attempt
  <2>2. CASE Begin
    <3>1. /\ num' = num + 1 /\ treg' = reg /\ UNCHANGED <<reg, id, user>>
          /\ pc' \in {"register", "check", "failover", "unwind"}
      BY <2>2 DEF Begin, QueryFails
    <3>2. QED BY <1>1, <2>1, <3>1
  <2>3. CASE CheckId
    <3>1. /\ UNCHANGED <<num, reg, treg>> /\ pc' \in {"drop", "register"}
          /\ (pc' = "drop" /\ UNCHANGED <<id, user>>) \/ (pc' = "register" /\ id' = 0 /\ user' = 0)
      BY <2>3 DEF CheckId
    <3>2. pc = "check" => id # 0
      BY DEF Accounts
    <3>3. QED BY <1>1, <2>1, <2>3, <3>1, <3>2 DEF CheckId
  <2>4. CASE Register
    <3>1. UNCHANGED <<num, reg>>
      BY <2>4 DEF Register
    <3>2. CASE UNCHANGED <<id, user, treg>> /\ pc' \in {"unwind", "failover"}
      BY <2>1, <3>1, <3>2
    <3>3. CASE id' = (IF treg = 0 THEN num ELSE treg) /\ treg' = id' /\ user' = num
      BY <1>1, <2>1, <3>1, <3>3
    <3>4. QED BY <2>4, <3>2, <3>3 DEF Register, StatementFails, QueryFails
  <2>5. CASE DeleteAccounts
    <3>1. /\ UNCHANGED <<num, treg, id, user>> /\ pc = "drop" /\ reg' \in {reg, treg}
      BY <2>5 DEF DeleteAccounts, idVars
    <3>2. QED BY <2>1, <3>1
  <2>6. CASE CreateAccounts
    <3>1. /\ UNCHANGED <<num, treg, id, user>> /\ pc = "create" /\ reg' \in {reg, treg}
      BY <2>6 DEF CreateAccounts
    <3>2. QED BY <2>1, <3>1
  <2>7. CASE Commit
    <3>1. UNCHANGED <<num, id, user, reg>> /\ treg' \in {treg, 0} /\ pc = "finish"
      BY <2>7 DEF Commit, SessionEnds, idVars, serverVars
    <3>2. QED BY <1>1, <2>1, <3>1
  <2>8. CASE Failover
    <3>1. UNCHANGED <<num, id, user, reg>> /\ treg' = 0 /\ pc' \in {"begin", "unwind"}
      BY <2>8 DEF Failover, ConnectNext, idVars, serverVars
    <3>2. QED BY <1>1, <2>1, <3>1
  <2>9. QED
    BY <1>4, <2>2, <2>3, <2>4, <2>5, <2>6, <2>7, <2>8 DEF AttemptStep
<1>5. CASE CopyKeys \/ InitKeyringFile
  BY <1>5 DEF CopyKeys, InitKeyringFile, keyringStepUnchanged, serverVars, sessionVars, idVars, historyVars
<1>6. CASE KeyringStep
  BY <1>6, KeyringFrame DEF keyringStepUnchanged, serverVars, sessionVars, idVars, historyVars
<1>7. CASE CreateConfig
  <2>1. UNCHANGED <<config, bak, oldConfig, reg, treg, id, user, num>> /\ pc = "config"
    BY <1>7 DEF CreateConfig, configStepUnchanged, serverVars, sessionVars, idVars, historyVars
  <2>2. PICK c : c = Config("whole", id, user)
    OBVIOUS
  <2>3. IdsOK(c)
    BY <1>1, <2>1, <2>2 DEF Config
  <2>4. tmp' = c \/ tmp' \in TornConfigs(c)
    BY <1>7, <2>2 DEF CreateConfig
  <2>5. IdsOK(tmp)'
    BY <1>2, <2>1, <2>3, <2>4
  <2>6. QED BY <2>1, <2>5
<1>8. CASE BackupConfig
  <2>1. /\ UNCHANGED <<config, tmp, oldConfig, reg, treg, id, user, num>> /\ pc = "backup"
        /\ bak' \in {bak, config, EmptyConfig} \cup TornConfigs(config)
    BY <1>8 DEF BackupConfig, configStepUnchanged, serverVars, sessionVars, idVars, historyVars
  <2>2. IdsOK(bak)'
    BY <1>2, <2>1
  <2>3. QED BY <2>1, <2>2
<1>9. CASE RenameConfig \/ ProtectBackup
  BY <1>2, <1>9 DEF RenameConfig, ProtectBackup, configStepUnchanged, serverVars, sessionVars, idVars, historyVars
<1>10. CASE Clear
  BY <1>1, <1>2, <1>10 DEF Clear, ProcessEnds, SessionEnds, serverVars, sessionVars, historyVars
<1>11. CASE UnwindKeys
  BY <1>1, <1>11 DEF UnwindKeys, SessionEnds, serverVars, historyVars
<1>12. CASE UnwindConfig
  <2>1. /\ UNCHANGED <<oldConfig, reg, treg, id, user, num>> /\ pc' = "unwindRest" /\ tmp' = NoConfig
        /\ bak' \in {bak, NoConfig} /\ config' \in {config, bak, NoConfig} \cup TornConfigs(bak)
    BY <1>12 DEF UnwindConfig, configStepUnchanged, serverVars, sessionVars, idVars, historyVars
  <2>2. IdsOK(config)' /\ IdsOK(tmp)' /\ IdsOK(bak)'
    BY <1>2, <2>1
  <2>3. QED BY <2>1, <2>2
<1>13. CASE UnwindRest \/ CopyBackThrows
  BY <1>1, <1>2, <1>13 DEF UnwindRest, CopyBackThrows, ProcessEnds, SessionEnds, serverVars, historyVars
<1>14. CASE Crash
  <2>1. /\ UNCHANGED <<oldConfig, tmp, reg, num>> /\ treg' = 0 /\ id' = 0 /\ user' = 0 /\ pc' = "crashed"
    BY <1>14 DEF Crash, ProcessEnds, SessionEnds, serverVars, historyVars
  <2>2. /\ bak' \in {bak} \cup TornConfigs(config)
        /\ config' \in {config, bak, NoConfig} \cup TornConfigs(bak)
    BY <1>14 DEF Crash
  <2>3. IdsOK(config)' /\ IdsOK(bak)'
    BY <1>2, <2>1, <2>2
  <2>4. QED BY <1>1, <2>1, <2>3
<1>15. CASE OperatorDeletes
  BY <1>1, <1>15 DEF OperatorDeletes, fileVars, sessionVars, idVars, Running, Ended
<1>16. CASE PrimaryMoves
  BY <1>16 DEF PrimaryMoves, fileVars, sessionVars, idVars, historyVars
<1>17. CASE UNCHANGED vars
  BY <1>17 DEF vars, fileVars, serverVars, sessionVars, idVars, historyVars
<1>18. QED
  BY <1>3, <1>4, <1>5, <1>6, <1>7, <1>8, <1>9, <1>10, <1>11, <1>12, <1>13, <1>14, <1>15, <1>16,
     <1>17, Cases DEF ConfigStep

\* The password and the row once the attempts are over, and the configuration
\* made from them.
LEMMA CredentialsStep ==
  ASSUME Types, Numbers, Identities, Accounts, Credentials, [Next]_vars
  PROVE  Credentials'
<1> USE DEF Credentials, Writing
<1>1. num \in Nat \ {0} /\ num' \in Nat \ {0} /\ num <= num'
  BY TypesNum
<1>2. CASE Start
  BY <1>2 DEF Start
<1>3. CASE AttemptStep
  <2>1. CASE CreateAccounts
    <3>1. CASE pc' = "finish"
      <4>1. acct' = [acct EXCEPT ![user] = num] /\ pass' = num /\ reg' = treg /\ treg = id /\ UNCHANGED <<id, user, num>>
        BY <2>1, <3>1 DEF CreateAccounts, StatementFails, QueryFails, Accounts
      <4>2. user \in Num
        <5>1. pc = "create"
          BY <2>1 DEF CreateAccounts
        <5>2. user \in 1..num
          BY <5>1 DEF Identities, KeysUnwound
        <5>3. QED BY <1>1, <5>2, NumInRange, KeyringAssumption DEF Num
      <4>3. acct'[user'] = num
        BY <4>1, <4>2 DEF Types
      <4>4. QED BY <1>1, <3>1, <4>1, <4>3
    <3>2. CASE pc' # "finish"
      BY <1>1, <2>1, <3>2 DEF CreateAccounts, StatementFails, QueryFails
    <3>3. QED BY <3>1, <3>2
  <2>2. CASE Commit
    BY <1>1, <2>2 DEF Commit, StatementFails, QueryFails, idVars, serverVars
  <2>3. CASE ~CreateAccounts /\ ~Commit
    <3>1. pc' \in {"begin", "check", "register", "drop", "create", "failover", "unwind"} /\ UNCHANGED pass
      BY <1>3, <2>3 DEF AttemptStep, Begin, CheckId, Register, DeleteAccounts, Failover, ConnectNext,
                        StatementFails, QueryFails, idVars
    <3>2. QED BY <1>1, <3>1
  <2>4. QED BY <2>1, <2>2, <2>3
<1>4. CASE CopyKeys \/ InitKeyringFile
  BY <1>4 DEF CopyKeys, InitKeyringFile, keyringStepUnchanged, serverVars, idVars
<1>5. CASE KeyringStep
  BY <1>5, KeyringFrame DEF keyringStepUnchanged, serverVars, idVars
<1>6. CASE CreateConfig
  BY <1>6 DEF CreateConfig, configStepUnchanged, serverVars, idVars
<1>7. CASE BackupConfig
  BY <1>7 DEF BackupConfig, configStepUnchanged, serverVars, idVars
<1>8. CASE RenameConfig \/ ProtectBackup
  BY <1>8 DEF RenameConfig, ProtectBackup, configStepUnchanged, serverVars, idVars
<1>9. CASE Clear
  BY <1>1, <1>9 DEF Clear, ProcessEnds, serverVars, Config
<1>10. CASE UnwindKeys \/ UnwindRest \/ CopyBackThrows
  BY <1>1, <1>10 DEF UnwindKeys, UnwindRest, CopyBackThrows, ProcessEnds
<1>11. CASE UnwindConfig
  BY <1>11 DEF UnwindConfig, configStepUnchanged, idVars
<1>12. CASE Crash
  BY <1>1, <1>12 DEF Crash, ProcessEnds
<1>13. CASE OperatorDeletes
  BY <1>13 DEF OperatorDeletes, idVars
<1>14. CASE PrimaryMoves
  BY <1>14 DEF PrimaryMoves, fileVars, idVars, keyringVars
<1>15. CASE UNCHANGED vars
  BY <1>15 DEF vars, fileVars, serverVars, idVars, keyringVars
<1>16. QED
  BY <1>2, <1>3, <1>4, <1>5, <1>6, <1>7, <1>8, <1>9, <1>10, <1>11, <1>12, <1>13, <1>14, <1>15, Cases
     DEF ConfigStep

\* An entry that is added for a keyring without one is the one that get() finds.
LEMMA FirstAppend ==
  ASSUME NEW es \in Seq(KeyEntry), MinePlaces(es) = {}, NEW n \in Nat,
         NEW fs, fs = Append(es, [ring |-> Mine, key |-> n])
  PROVE  FirstIs(fs, n)
<1>1. [ring |-> Mine, key |-> n] \in KeyEntry
  BY KeyringAssumption DEF KeyEntry
<1>2. /\ fs \in Seq(KeyEntry) /\ Len(fs) = Len(es) + 1 /\ Len(es) \in Nat
      /\ \A i \in 1..Len(es) : fs[i] = es[i]
      /\ fs[Len(es) + 1] = [ring |-> Mine, key |-> n]
  BY <1>1, AppendProperties
<1>3. \A i \in 1..Len(es) : fs[i].ring # Mine
  BY <1>2 DEF MinePlaces
<1>4. DOMAIN fs = 1..(Len(es) + 1)
  BY <1>2
<1>5. fs[Len(es) + 1].ring = Mine /\ fs[Len(es) + 1].key = n
  BY <1>2
<1>6. MinePlaces(fs) = {Len(es) + 1}
  BY <1>2, <1>3, <1>4, <1>5 DEF MinePlaces
<1>7. (CHOOSE i \in MinePlaces(fs) : \A j \in MinePlaces(fs) : i <= j) = Len(es) + 1
  BY <1>2, <1>6
<1>8. QED BY <1>5, <1>6, <1>7 DEF FirstIs, FirstMine

\* What init_keyring() ends with, up to its first write: an error, or a key that
\* get() will find for the keyring, and which the keyring that existed has.
LEMMA OpenResult ==
  ASSUME Types, kring \in KeyringFiles(num), kring.key < num,
         ~program, GoesWithKeyring(mkfile),
         NEW r \in InitKeyring(TRUE, num)
  PROVE  \/ r = Threw
         \/ /\ r.ok /\ r.mem \in Mems(num)
            /\ orphaned \/ FirstIs(r.mem.entries, r.mem.key)
            /\ r.mem.key # 0 /\ r.mem.scr = r.mem.key
            /\ r.existed => r.mem.hdr = r.mem.key /\ KeyFileGives(r.mem.key)
<1>1. PICK load \in MasterKeyFileLoads :
        r = IF load.ok \/ (load.enoent /\ TRUE) THEN GetMasterKey(load, TRUE, num) ELSE Threw
  BY DEF InitKeyring
<1>2. /\ load.entries \in Seq(KeyEntry)
      /\ load.ok \/ load.enoent => load.entries = mkfile.entries
      /\ load.ok => mkfile.st = "signed"
      /\ load.enoent => load.entries = <<>>
  BY LoadsEntries
<1>3. \/ GetMasterKey(load, TRUE, num) = Threw
      \/ /\ kring.hdr # 0 /\ MinePlaces(load.entries) # {} /\ FirstMine(load.entries) = kring.hdr
         /\ GetMasterKey(load, TRUE, num) = InitKeyringWithKey(kring.hdr, load.entries, TRUE)
      \/ /\ kring.hdr = 0 => load.enoent \/ kring.st = "absent"
         /\ kring.hdr # 0 => MinePlaces(load.entries) = {}
         /\ GetMasterKey(load, TRUE, num) =
              InitKeyringWithKey(num, Append(load.entries, [ring |-> Mine, key |-> num]), TRUE)
  BY Zenon DEF GetMasterKey
<1>4. num \in Nat \ {0} /\ NoPw \in [Num -> Nat] /\ kring.hdr \in 0..num /\ kring.pw \in [Num -> Nat]
  BY DEF Types, NoPw, KeyringFiles
<1>5. CASE r = Threw
  BY <1>5
<1>6. CASE /\ load.ok \/ load.enoent
           /\ kring.hdr # 0 /\ MinePlaces(load.entries) # {} /\ FirstMine(load.entries) = kring.hdr
           /\ r = InitKeyringWithKey(kring.hdr, load.entries, TRUE)
  <2>1. /\ r.ok /\ r.mem.entries = load.entries /\ r.mem.key = kring.hdr /\ r.mem.scr = kring.hdr
        /\ r.mem.hdr = kring.hdr
    BY <1>6 DEF InitKeyringWithKey
  <2>2. r.mem \in Mems(num)
    BY <1>2, <1>4, <1>6 DEF InitKeyringWithKey, Mems
  <2>3. load.ok
    <3>1. MinePlaces(<<>>) = {}
      BY DEF MinePlaces
    <3>2. QED BY <1>2, <1>6, <3>1
  <2>4. QED BY <1>2, <1>6, <2>1, <2>2, <2>3 DEF FirstIs, KeyFileGives
<1>7. CASE /\ load.ok \/ load.enoent
           /\ kring.hdr = 0 => load.enoent \/ kring.st = "absent"
           /\ kring.hdr # 0 => MinePlaces(load.entries) = {}
           /\ r = InitKeyringWithKey(num, Append(load.entries, [ring |-> Mine, key |-> num]), TRUE)
  <2>1. orphaned \/ MinePlaces(load.entries) = {}
    <3>1. MinePlaces(<<>>) = {}
      BY DEF MinePlaces
    <3>2. QED BY <1>2, <1>7, <3>1 DEF GoesWithKeyring
  <2>2. PICK es : es = Append(load.entries, [ring |-> Mine, key |-> num])
    OBVIOUS
  <2>3. orphaned \/ FirstIs(es, num)
    BY <1>2, <1>4, <2>1, <2>2, FirstAppend
  <2>4. es \in Seq(KeyEntry)
    <3>1. [ring |-> Mine, key |-> num] \in KeyEntry
      BY <1>4, KeyringAssumption DEF KeyEntry
    <3>2. QED BY <1>2, <2>2, <3>1, AppendProperties
  <2>5. r = InitKeyringWithKey(num, es, TRUE)
    BY <1>7, <2>2
  <2>6. /\ r.ok /\ r.mem.entries = es /\ r.mem.key = num /\ r.mem.scr = num
        /\ ~r.existed
    <3>1. kring.key # num
      BY <1>4 DEF KeyringFiles
    <3>2. r.existed = (kring.st = "whole" /\ kring.key = num)
      BY <2>5 DEF InitKeyringWithKey
    <3>3. r.ok /\ r.mem.entries = es /\ r.mem.key = num /\ r.mem.scr = num
      BY <2>5 DEF InitKeyringWithKey
    <3>4. QED BY <3>1, <3>2, <3>3
  <2>7. r.mem \in Mems(num)
    BY <1>4, <2>4, <2>5 DEF InitKeyringWithKey, Mems
  <2>8. QED BY <1>4, <2>3, <2>6, <2>7
<1>8. QED BY <1>1, <1>3, <1>5, <1>6, <1>7

\* A router that starts finds the password that was stored.
LEMMA StartReads ==
  ASSUME Types, NEW u, NEW p, kring.st = "whole", kring.key # 0, kring.hdr = kring.key,
         kring.pw[u] = p, KeyFileGives(kring.key)
  PROVE  ReadsPassword(u, p)
<1>1. SUFFICES ASSUME NEW r \in InitKeyring(FALSE, 0)
               PROVE  r.ok /\ r.mem.pw[u] = p
  BY DEF ReadsPassword
<1>2. PICK load \in MasterKeyFileLoads :
        r = IF load.ok \/ (load.enoent /\ FALSE) THEN GetMasterKey(load, FALSE, 0) ELSE Threw
  BY DEF InitKeyring
<1>3. mkfile.entries # <<>>
  BY DEF KeyFileGives, FirstIs, MinePlaces
<1>4. load = [ok |-> TRUE, enoent |-> FALSE, entries |-> mkfile.entries]
  <2>1. mkfile.st # "absent" /\ mkfile.st # "unsigned"
    BY DEF KeyFileGives
  <2>2. \E ok \in (IF mkfile.entries = <<>> THEN BOOLEAN ELSE {TRUE}) :
          load = [ok |-> ok, enoent |-> FALSE, entries |-> mkfile.entries]
    BY <2>1, Zenon DEF MasterKeyFileLoads
  <2>3. QED BY <1>3, <2>2
<1>5. load.ok /\ load.entries = mkfile.entries
  BY <1>4
<1>6. r = GetMasterKey(load, FALSE, 0)
  BY <1>2, <1>5
<1>7. kring.hdr # 0 /\ MinePlaces(load.entries) # {} /\ FirstMine(load.entries) = kring.hdr
  BY <1>5 DEF KeyFileGives, FirstIs
<1>8. GetMasterKey(load, FALSE, 0) = InitKeyringWithKey(kring.hdr, load.entries, FALSE)
  BY <1>7, Zenon DEF GetMasterKey
<1>9. r = InitKeyringWithKey(kring.hdr, load.entries, FALSE)
  BY <1>6, <1>8
<1>10. QED BY <1>9 DEF InitKeyringWithKey

\* Part of a keyring file is a file.
LEMMA TornKeyringTypes ==
  ASSUME NEW n \in Nat, NEW f, f.hdr \in 0..n, NEW g \in TornKeyrings(f)
  PROVE  g \in KeyringFiles(n) /\ g.st # "absent"
<1>1. NoPw \in [Num -> Nat]
  BY DEF NoPw
<1>2. QED BY <1>1 DEF TornKeyrings, CutKeyring, KeyringFile, KeyringFiles

\* Part of a master key file has no entry for the keyring unless the whole has one.
LEMMA TornMine ==
  ASSUME NEW es \in Seq(KeyEntry), NEW f \in TornMasterKeys(es), MinePlaces(es) = {}
  PROVE  MinePlaces(f.entries) = {}
<1>1. \A i \in 1..Len(es) : es[i].ring # Mine /\ es[i] \in KeyEntry
  BY DEF MinePlaces
<1>2. CASE f = NoSignature
  BY <1>2 DEF NoSignature, MasterKeys, MinePlaces
<1>3. ASSUME NEW n \in 0..(Len(es) - 1)
      PROVE  /\ SubSeq(es, 1, n) \in Seq(KeyEntry) /\ Len(SubSeq(es, 1, n)) = n
             /\ \A i \in 1..n : SubSeq(es, 1, n)[i] = es[i]
  <2>1. \A i \in 1..n : es[i] \in KeyEntry
    BY <1>1
  <2>2. QED BY <2>1, SubSeqProperties
<1>4. ASSUME NEW n \in 0..(Len(es) - 1), f = MasterKeys("signed", SubSeq(es, 1, n))
      PROVE  MinePlaces(f.entries) = {}
  <2>1. PICK s : s = SubSeq(es, 1, n)
    OBVIOUS
  <2>2. s \in Seq(KeyEntry) /\ Len(s) = n /\ \A i \in 1..n : s[i] = es[i]
    BY <1>3, <2>1
  <2>3. DOMAIN s = 1..n
    BY <2>2
  <2>4. f.entries = s
    BY <1>4, <2>1 DEF MasterKeys
  <2>5. QED BY <1>1, <2>2, <2>3, <2>4 DEF MinePlaces
<1>5. ASSUME NEW n \in 0..(Len(es) - 1),
             f = MasterKeys("signed", Append(SubSeq(es, 1, n), [es[n + 1] EXCEPT !.key = 0]))
      PROVE  MinePlaces(f.entries) = {}
  <2>1. PICK s : s = SubSeq(es, 1, n)
    OBVIOUS
  <2>2. PICK e : e = [es[n + 1] EXCEPT !.key = 0]
    OBVIOUS
  <2>3. PICK a : a = Append(s, e)
    OBVIOUS
  <2>4. s \in Seq(KeyEntry) /\ Len(s) = n /\ \A i \in 1..n : s[i] = es[i]
    BY <1>3, <2>1
  <2>5. e \in KeyEntry /\ e.ring # Mine
    BY <1>1, <2>2 DEF KeyEntry
  <2>6. /\ a \in Seq(KeyEntry) /\ Len(a) = n + 1
        /\ \A i \in 1..n : a[i] = s[i]
        /\ a[n + 1] = e
    BY <2>3, <2>4, <2>5, AppendProperties
  <2>7. DOMAIN a = 1..(n + 1)
    BY <2>6
  <2>8. \A i \in DOMAIN a : a[i].ring # Mine
    BY <1>1, <2>4, <2>5, <2>6, <2>7
  <2>9. f.entries = a
    BY <1>5, <2>1, <2>2, <2>3 DEF MasterKeys
  <2>10. QED BY <2>8, <2>9 DEF MinePlaces
<1>6. QED BY <1>2, <1>4, <1>5 DEF TornMasterKeys

\* A copy of a file that goes with the keyring does so too, also part of it.
LEMMA CopyGoesWithKeyring ==
  ASSUME NEW f \in KeyFiles, GoesWithKeyring(f), NEW g \in {f} \cup TornMasterKeys(f.entries)
  PROVE  GoesWithKeyring(g)
<1>1. f.entries \in Seq(KeyEntry)
  BY DEF KeyFiles
<1>2. MinePlaces(f.entries) = {} => MinePlaces(g.entries) = {}
  BY <1>1, TornMine
<1>3. QED BY <1>2 DEF GoesWithKeyring

\* Ids, users, passwords and keys are numbers of attempts that were made.
LEMMA KeyNumbersStep ==
  ASSUME UInv, [Next]_vars
  PROVE  KeyNumbers'
<1>1. num \in Nat \ {0} /\ num' \in Nat \ {0} /\ num <= num' /\ num \in Num
  BY TypesNum, NumInRange DEF UInv, IInv
<1>2. NoPw \in [Num -> Nat] /\ <<>> \in Seq(KeyEntry)
  BY DEF NoPw
<1>3. NoMem \in Mems(num) /\ NoKeyring \in KeyringFiles(num) /\ NoPw \in [Num -> 0..num]
  BY <1>1, <1>2 DEF NoMem, Mems, NoKeyring, KeyringFile, KeyringFiles, NoPw
<1>4. /\ kring \in KeyringFiles(num) /\ mem \in Mems(num)
      /\ ext \in [Num -> 0..num] /\ oldExt \in [Num -> 0..num]
      /\ pc \in Attempt \ {"begin"} \/ pc = "copy" \/ (pc = "keyring" /\ kpc = "closed") =>
           kring.key < num
  BY DEF UInv, KeyNumbers
<1>5. pc = "keyring" => id \in Num /\ user \in Num /\ pass \in Nat
  <2>1. pc = "keyring" => id \in 1..num /\ user \in 1..num /\ pass \in Nat
    BY DEF UInv, Identities, Credentials, KeysUnwound
  <2>2. QED BY <1>1, <2>1, KeyringAssumption DEF Num
<1>6. pc # "keyring" => kpc = "closed"
  BY DEF UInv, IInv, KeysKept
<1>7. CASE Start
  <2>1. UNCHANGED <<kring, mem, ext, num, kpc>> /\ oldExt' = ext /\ pc' \in {"refused", "begin", "unwind"}
    BY <1>7 DEF Start
  <2>2. QED BY <1>4, <2>1 DEF KeyNumbers, Attempt
<1>8. CASE AttemptStep
  <2>1. /\ UNCHANGED <<kring, mem, ext, kpc, oldExt>> /\ pc \in Attempt
        /\ pc' \in Attempt \cup {"copy", "unwind"}
    BY <1>8, AttemptFrame DEF keyringVars, historyVars
  <2>2. kring \in KeyringFiles(num') /\ mem \in Mems(num') /\ ext \in [Num -> 0..num'] /\ oldExt \in [Num -> 0..num']
    <3>1. 0..num \subseteq 0..num'
      BY <1>1
    <3>2. kring \in KeyringFiles(num')
      BY <1>4, <3>1 DEF KeyringFiles
    <3>3. mem \in Mems(num')
      BY <1>4, <3>1 DEF Mems
    <3>4. ext \in [Num -> 0..num'] /\ oldExt \in [Num -> 0..num']
      BY <1>4, <3>1
    <3>5. QED BY <3>2, <3>3, <3>4
  <2>3. CASE Begin
    <3>1. num' = num + 1
      BY <2>3 DEF Begin
    <3>2. kring.key < num'
      BY <1>1, <1>4, <3>1 DEF KeyringFiles
    <3>3. QED BY <2>1, <2>2, <3>2 DEF KeyNumbers
  <2>4. CASE ~Begin
    <3>1. num' = num /\ pc # "begin"
      BY <1>8, <2>4 DEF AttemptStep, CheckId, Register, DeleteAccounts, CreateAccounts, Commit, Failover, idVars
    <3>2. kring.key < num'
      BY <1>4, <2>1, <3>1
    <3>3. QED BY <2>1, <2>2, <3>2 DEF KeyNumbers
  <2>5. QED BY <2>3, <2>4
<1>9. CASE InitKeyringFile
  <2>1. /\ UNCHANGED <<kring, ext, oldExt, num, pc>> /\ pc = "keyring" /\ kpc = "closed" /\ kpc' # "closed"
    BY <1>9, OpensKeyring
       DEF InitKeyringFile, OpenKeyring, OpenWithProgram, ProgramFails, keyringStepUnchanged, idVars, historyVars
  <2>2. mem' \in Mems(num)
    <3>1. CASE OpenKeyring(num) /\ ~program
      <4>1. PICK r \in InitKeyring(TRUE, num) : mem' = r.mem
        BY <3>1 DEF OpenKeyring
      <4>2. r = Threw \/ r.mem \in Mems(num)
        BY <1>4, <2>1, <3>1, OpenResult DEF UInv, IInv, KeyringPair
      <4>3. QED BY <1>3, <4>1, <4>2 DEF Threw
    <3>2. CASE \E copied \in BOOLEAN : OpenWithProgram(id, copied)
      <4>1. CASE OpenWithKey(ext[id])
        BY <1>1, <1>2, <1>4, <1>5, <2>1, <4>1 DEF OpenWithKey, InitKeyringWithKey, Mems, KeyringFiles
      <4>2. CASE mem' = NoMem
        BY <1>3, <4>2
      <4>3. QED BY <3>2, <4>1, <4>2 DEF OpenWithProgram
    <3>3. CASE ProgramFails
      BY <1>4, <3>3 DEF ProgramFails
    <3>4. QED BY <1>9, <3>1, <3>2, <3>3 DEF InitKeyringFile
  <2>3. QED BY <1>4, <2>1, <2>2 DEF KeyNumbers, Attempt
<1>10. CASE KeyringStep
  <2>1. /\ UNCHANGED <<oldExt, num>> /\ pc = "keyring"
        /\ pc' \in {"keyring", "config", "unwind"} /\ (pc' = "keyring" <=> kpc' # "closed")
    BY <1>10, KeyringFrame DEF keyringStepUnchanged, historyVars, idVars
  <2>2. kring' \in KeyringFiles(num) /\ mem' \in Mems(num) /\ ext' \in [Num -> 0..num]
    <3>1. CASE GenerateMasterKey(id, num)
      <4>1. ext' \in [Num -> 0..num] /\ UNCHANGED kring
        BY <1>1, <1>4, <3>1 DEF GenerateMasterKey
      <4>2. CASE OpenWithKey(num)
        <5>1. kring.hdr \in 0..num /\ kring.pw \in [Num -> Nat] /\ num \in 0..num
          BY <1>1, <1>4 DEF KeyringFiles
        <5>2. mem' \in Mems(num)
          BY <1>2, <4>2, <5>1 DEF OpenWithKey, InitKeyringWithKey, Mems
        <5>3. QED BY <1>4, <4>1, <5>2
      <4>3. CASE UNCHANGED mem
        BY <1>4, <4>1, <4>3
      <4>4. QED BY <1>4, <3>1, <4>1, <4>2, <4>3 DEF GenerateMasterKey
    <3>2. ASSUME NEW h \in 0..num, NEW pw \in [Num -> Nat], NEW next,
                 SaveKeyring(KeyringFile("whole", h, mem.key, pw), next)
          PROVE  kring' \in KeyringFiles(num)
      <4>1. PICK f : f = KeyringFile("whole", h, mem.key, pw)
        OBVIOUS
      <4>2. f \in KeyringFiles(num) /\ f.hdr \in 0..num
        BY <1>1, <1>4, <4>1 DEF KeyringFile, KeyringFiles, Mems
      <4>3. kring' = f \/ kring' \in TornKeyrings(f) \/ kring' = kring
        BY <3>2, <4>1 DEF SaveKeyring
      <4>4. QED BY <1>1, <1>4, <4>2, <4>3, TornKeyringTypes
    <3>3. mem.hdr \in 0..num /\ mem.scr \in 0..num /\ mem.pw \in [Num -> Nat]
      BY <1>4 DEF Mems
    <3>4. CASE CreateKeyring
      BY <1>4, <3>2, <3>3, <3>4 DEF CreateKeyring
    <3>5. CASE FlushHeader
      <4>1. mem' \in Mems(num)
        BY <1>4, <3>5 DEF FlushHeader, Mems
      <4>2. QED BY <1>4, <3>2, <3>3, <3>5, <4>1 DEF FlushHeader
    <3>6. CASE SaveMasterKeys
      BY <1>4, <3>6 DEF SaveMasterKeys
    <3>7. CASE StoreInKeyring
      <4>1. mem' \in Mems(num)
        BY <1>4, <1>5, <2>1, <3>7 DEF StoreInKeyring, StorePassword, Mems
      <4>2. mem'.pw \in [Num -> Nat]
        BY <4>1 DEF Mems
      <4>3. QED BY <1>4, <3>2, <3>3, <3>7, <4>1, <4>2 DEF StoreInKeyring, StorePassword
    <3>8. CASE KeyringThrew
      BY <1>4, <3>8 DEF KeyringThrew
    <3>9. QED
      BY <1>10, <3>1, <3>4, <3>5, <3>6, <3>7, <3>8 DEF KeyringStep, KeyringWrites
  <2>3. QED BY <1>4, <2>1, <2>2 DEF KeyNumbers, Attempt
<1>11. CASE ConfigStep
  <2>1. UNCHANGED <<kring, mem, ext, oldExt, num>> /\ pc' \in {"backup", "protect", "rename", "clear", "unwind"}
    BY <1>11, ConfigFrame DEF configStepUnchanged, historyVars, idVars
  <2>2. QED BY <1>4, <2>1 DEF KeyNumbers, Attempt
<1>12. CASE Clear
  <2>1. /\ UNCHANGED <<kring, ext, oldExt, num>> /\ mem' \in {mem, NoMem}
        /\ pc' \in {"done", "unwind"}
    BY <1>12 DEF Clear, ProcessEnds, historyVars
  <2>2. QED BY <1>3, <1>4, <2>1 DEF KeyNumbers, Attempt
<1>13. CASE UnwindRest
  <2>1. /\ UNCHANGED <<oldExt, num>> /\ mem' = NoMem /\ kring' \in {kring, NoKeyring} /\ pc' = "failed"
    BY <1>13 DEF UnwindRest, ProcessEnds, historyVars
  <2>2. cleanProgram # NoCallback => cleanProgram = oldExt[id]
    BY <1>13 DEF UnwindRest, UInv, IInv, ProgramKept, Running, Ended
  <2>3. ext' \in [Num -> 0..num]
    BY <1>4, <1>13, <2>2 DEF UnwindRest
  <2>4. QED BY <1>3, <1>4, <2>1, <2>3 DEF KeyNumbers, Attempt
<1>14. CASE Crash
  <2>1. UNCHANGED <<ext, oldExt, num>> /\ mem' = NoMem /\ pc' = "crashed"
    BY <1>14 DEF Crash, CrashKeyring, ProcessEnds, historyVars
  <2>2. PICK f : /\ f = [kring EXCEPT !.hdr = IF kpc = "header" THEN mem.scr ELSE mem.hdr]
                 /\ kring' \in {kring, NoKeyring} \cup TornKeyrings(f)
    BY <1>14 DEF Crash, CrashKeyring
  <2>3. f.hdr \in 0..num
    BY <1>4, <2>2 DEF KeyringFiles, Mems
  <2>4. kring' \in KeyringFiles(num)
    BY <1>1, <1>3, <1>4, <2>2, <2>3, TornKeyringTypes
  <2>5. QED BY <1>3, <1>4, <2>1, <2>4 DEF KeyNumbers, Attempt
<1>15. CASE OperatorDeletes
  <2>1. /\ UNCHANGED <<oldExt, num, mem>> /\ kring' \in {kring, NoKeyring} /\ ext' \in {ext, NoPw} /\ pc' = "idle"
    BY <1>15 DEF OperatorDeletes, historyVars, idVars
  <2>2. QED BY <1>3, <1>4, <2>1 DEF KeyNumbers, Attempt
<1>16. CASE PrimaryMoves \/ UNCHANGED vars
  <2>1. UNCHANGED <<kring, mem, ext, oldExt, num, pc, kpc>>
    BY <1>16 DEF PrimaryMoves, vars, keyringVars, historyVars, idVars
  <2>2. QED BY <1>4, <2>1 DEF KeyNumbers
<1>17. CASE CopyKeys \/ UnwindKeys \/ UnwindConfig \/ CopyBackThrows
  <2>1. UNCHANGED <<kring, ext, oldExt, num, kpc>> /\ mem' \in {mem, NoMem}
    BY <1>17 DEF CopyKeys, UnwindKeys, UnwindConfig, CopyBackThrows, ProcessEnds, historyVars, idVars,
                 keyringStepUnchanged, configStepUnchanged
  <2>2. pc' = "keyring" => pc = "copy"
    BY <1>17 DEF CopyKeys, UnwindKeys, UnwindConfig, CopyBackThrows
  <2>3. pc' \in {"keyring", "unwind", "unwindConfig", "unwindRest", "crashed"}
    BY <1>17 DEF CopyKeys, UnwindKeys, UnwindConfig, CopyBackThrows
  <2>4. QED BY <1>3, <1>4, <2>1, <2>2, <2>3 DEF KeyNumbers, Attempt
<1>18. QED
  BY <1>7, <1>8, <1>9, <1>10, <1>11, <1>12, <1>13, <1>14, <1>15, <1>16, <1>17, Cases

\* The files of the keyring agree after every step as far as the next one needs.
LEMMA KeyringPairStep ==
  ASSUME UInv, [Next]_vars
  PROVE  KeyringPair'
<1> USE DEF Writing, GoesWithKeyring
<1>1. KeyringPair /\ Types /\ KeysKept
  BY DEF UInv, IInv
<1>2. /\ kring \in KeyringFiles(num) /\ mem \in Mems(num)
      /\ ext \in [Num -> 0..num] /\ num \in Nat \ {0}
  BY DEF UInv, IInv, KeyNumbers, Types
<1>3. pc = "keyring" => id \in Num /\ user \in Num
  <2>1. pc = "keyring" => id \in 1..num /\ user \in 1..num
    BY DEF UInv, Identities, KeysUnwound
  <2>2. num \in Num
    BY NumInRange DEF UInv, IInv
  <2>3. QED BY <1>2, <2>1, <2>2, KeyringAssumption DEF Num
<1>4. MinePlaces(NoMasterKeys.entries) = {} /\ MinePlaces(NoSignature.entries) = {}
  BY DEF MinePlaces, NoMasterKeys, NoSignature, MasterKeys
<1>5. CASE Start
  <2>1. /\ UNCHANGED <<kring, mkfile, bck, cleanKey, kpc, program, orphaned>> /\ kpc = "closed"
        /\ pc' \in {"refused", "begin", "unwind"}
    BY <1>1, <1>5 DEF Start, KeysKept, Running, Ended
  <2>2. QED BY <1>1, <2>1 DEF KeyringPair
<1>6. CASE AttemptStep
  <2>1. /\ UNCHANGED <<kring, mkfile, bck, cleanKey, kpc, orphaned>> /\ kpc = "closed"
        /\ pc' \in Attempt \cup {"copy", "unwind"}
    BY <1>1, <1>6, AttemptFrame DEF keyringVars, historyVars, fileVars, KeysKept, Attempt
  <2>2. UNCHANGED program
    BY <1>6 DEF AttemptStep, Begin, CheckId, Register, DeleteAccounts, CreateAccounts, Commit, Failover,
                attemptUnchanged, setupVars
  <2>3. QED BY <1>1, <2>1, <2>2 DEF KeyringPair, Attempt
<1>7. CASE InitKeyringFile
  <2>1. /\ UNCHANGED <<kring, mkfile, ext, bck, cleanKey, orphaned, pc, program, id>>
        /\ pc = "keyring" /\ kpc = "closed"
    BY <1>7 DEF InitKeyringFile, OpenKeyring, OpenWithProgram, ProgramFails, keyringStepUnchanged,
                historyVars, setupVars, idVars
  <2>2. kring.key < num
    BY <2>1 DEF UInv, KeyNumbers
  <2>3. CASE OpenKeyring(num) /\ ~program
    <3>1. PICK r \in InitKeyring(TRUE, num) :
            /\ kpc' \in {"threw", "open", "create"}
            /\ kpc' = "create" => r.ok
            /\ kpc' = "open" => r.existed
            /\ mem' = r.mem
      BY <2>3, Zenon DEF OpenKeyring
    <3>2. \/ r = Threw
          \/ /\ r.ok /\ r.mem \in Mems(num)
             /\ orphaned \/ FirstIs(r.mem.entries, r.mem.key)
             /\ r.mem.key # 0 /\ r.mem.scr = r.mem.key
             /\ r.existed => r.mem.hdr = r.mem.key /\ KeyFileGives(r.mem.key)
      BY <1>1, <1>2, <2>2, <2>3, OpenResult DEF KeyringPair
    <3>3. CASE r = Threw
      <4>1. kpc' = "threw"
        BY <3>1, <3>3 DEF Threw
      <4>2. QED BY <1>1, <2>1, <4>1 DEF KeyringPair, Running
    <3>4. CASE kpc' = "open" /\ r # Threw
      <4>1. mem'.hdr = mem'.key /\ mem'.key # 0 /\ KeyFileGives(mem.key)'
        BY <2>1, <3>1, <3>2, <3>4 DEF KeyFileGives
      <4>2. QED BY <1>1, <2>1, <2>3, <3>4, <4>1 DEF KeyringPair, Running
    <3>5. CASE kpc' = "create" /\ r # Threw
      <4>1. /\ (orphaned \/ FirstIs(mem.entries, mem.key))'
            /\ mem'.scr = mem'.key /\ mem'.key # 0
        BY <2>1, <3>1, <3>2, <3>5
      <4>2. QED BY <1>1, <2>1, <2>3, <3>5, <4>1 DEF KeyringPair, Running
    <3>6. CASE kpc' = "threw"
      BY <1>1, <2>1, <3>6 DEF KeyringPair, Running
    <3>7. QED BY <3>1, <3>3, <3>4, <3>5, <3>6
  <2>4. CASE program /\ \E copied \in BOOLEAN : OpenWithProgram(id, copied)
    <3>1. CASE ext[id] = 0
      <4>1. kpc' = "generate"
        BY <2>4, <3>1 DEF OpenWithProgram
      <4>2. QED BY <1>1, <2>1, <2>4, <4>1 DEF KeyringPair, Running
    <3>2. CASE ext[id] # 0 /\ OpenWithKey(ext[id])
      <4>1. kpc' \in {"open", "createOnly"} /\ mem'.key = ext[id]
        BY <3>2 DEF OpenWithKey, InitKeyringWithKey
      <4>2. QED BY <1>1, <2>1, <2>4, <3>2, <4>1 DEF KeyringPair, Running
    <3>3. QED BY <2>4, <3>1, <3>2 DEF OpenWithProgram
  <2>5. CASE ProgramFails
    BY <1>1, <2>1, <2>5 DEF ProgramFails, KeyringPair, Running
  <2>6. QED BY <1>7, <2>3, <2>4, <2>5 DEF InitKeyringFile
<1>8. CASE KeyringStep
  <2>1. /\ UNCHANGED <<bck, cleanKey, orphaned, program, id, user, pass>> /\ pc = "keyring"
        /\ pc' \in {"keyring", "config", "unwind"} /\ (pc' = "keyring" <=> kpc' # "closed")
        /\ FileSpoilt => FileSpoilt'
    BY <1>8, KeyringFrame DEF keyringStepUnchanged, historyVars, setupVars, idVars, FileSpoilt
  <2>2. CASE GenerateMasterKey(id, num)
    <3>1. UNCHANGED <<kring, mkfile, pc>> /\ program /\ kpc' # "closed"
      BY <1>1, <1>8, <2>1, <2>2 DEF GenerateMasterKey, OpenWithKey, KeyringPair
    <3>2. CASE kpc' = "threw"
      BY <1>1, <2>1, <3>1, <3>2 DEF KeyringPair, Running
    <3>3. CASE OpenWithKey(num) /\ ext' = [ext EXCEPT ![id] = num]
      <4>1. kpc' \in {"open", "createOnly"} /\ mem'.key = num
        BY <3>3 DEF OpenWithKey, InitKeyringWithKey
      <4>2. ext'[id] = num /\ num # 0
        BY <1>2, <1>3, <2>1, <3>3
      <4>3. QED BY <1>1, <2>1, <3>1, <4>1, <4>2 DEF KeyringPair, Running
    <3>4. QED BY <2>2, <3>2, <3>3 DEF GenerateMasterKey
  <2>3. ASSUME NEW f, NEW next, SaveKeyring(f, next), f.st = "whole"
        PROVE  /\ kring.st # "absent" => kring'.st # "absent"
               /\ kpc' = "threw" \/ (kpc' = next /\ kring' = f)
    BY <2>3 DEF SaveKeyring, TornKeyrings, CutKeyring, KeyringFile
  <2>4. \A h, k, pw : KeyringFile("whole", h, k, pw).st = "whole"
    BY DEF KeyringFile
  <2>5. CASE CreateKeyring
    <3>1. /\ UNCHANGED <<mkfile, mem, ext>> /\ kpc \in {"create", "createOnly"} /\ pc' = pc
          /\ kring.st # "absent" => kring'.st # "absent"
          /\ \/ kpc' = "threw"
             \/ kring'.st = "whole" /\ kpc' = IF kpc = "create" THEN "header" ELSE "open"
      BY <1>8, <2>1, <2>3, <2>4, <2>5 DEF CreateKeyring
    <3>2. QED BY <1>1, <2>1, <3>1 DEF KeyringPair, Running
  <2>6. CASE FlushHeader
    <3>1. /\ UNCHANGED <<mkfile, ext>> /\ kpc = "header" /\ pc' = pc
          /\ kring.st # "absent" => kring'.st # "absent"
          /\ kpc' \in {"threw", "master"}
      BY <1>8, <2>1, <2>3, <2>4, <2>6 DEF FlushHeader
    <3>2. mem'.entries = mem.entries /\ mem'.key = mem.key /\ mem'.scr = mem.scr /\ mem'.hdr = mem.scr
      BY <1>2, <2>6 DEF FlushHeader, Mems
    <3>3. /\ (orphaned \/ FirstIs(mem.entries, mem.key))'
          /\ mem'.key # 0 /\ mem'.scr = mem'.key /\ mem'.hdr = mem'.key
      BY <1>1, <2>1, <3>1, <3>2 DEF KeyringPair
    <3>4. ~program' /\ kring'.st # "absent"
      BY <1>1, <2>1, <3>1 DEF KeyringPair
    <3>5. QED BY <1>1, <2>1, <3>1, <3>3, <3>4 DEF KeyringPair, Running
  <2>7. CASE SaveMasterKeys
    <3>1. /\ UNCHANGED <<kring, ext, mem>> /\ kpc = "master" /\ pc' = pc /\ ~program'
          /\ kring.st # "absent" /\ mem.key # 0 /\ mem.hdr = mem.key
          /\ orphaned \/ FirstIs(mem.entries, mem.key)
      BY <1>1, <1>8, <2>1, <2>7 DEF SaveMasterKeys, KeyringPair
    <3>2. CASE kpc' = "threw"
      BY <2>1, <3>1, <3>2 DEF KeyringPair
    <3>3. CASE kpc' = "open"
      <4>1. FileSpoilt' \/ KeyFileGives(mem.key)'
        <5>1. FileSpoilt' \/ mkfile' = MasterKeys("signed", mem.entries)
          BY <2>7, <3>3 DEF SaveMasterKeys, FileSpoilt
        <5>2. CASE mkfile' = MasterKeys("signed", mem.entries)
          <6>1. mkfile'.st = "signed" /\ mkfile'.entries = mem.entries
            BY <5>2 DEF MasterKeys
          <6>2. QED BY <2>1, <3>1, <6>1 DEF KeyFileGives, FileSpoilt
        <5>3. QED BY <5>1, <5>2
      <4>2. QED BY <2>1, <3>1, <3>3, <4>1 DEF KeyringPair
    <3>4. QED BY <2>7, <3>2, <3>3 DEF SaveMasterKeys
  <2>8. CASE StoreInKeyring
    <3>1. /\ UNCHANGED <<mkfile, ext, unnoticed>> /\ kpc = "open"
          /\ SaveKeyring(KeyringFile("whole", mem.hdr, mem.key, mem'.pw), "closed")
          /\ mem' = [mem EXCEPT !.pw[user] = pass]
          /\ kpc' = "threw" => pc' = "keyring"
      BY <2>8 DEF StoreInKeyring, StorePassword
    <3>2. /\ kring.st # "absent" => kring'.st # "absent"
          /\ \/ kpc' = "threw"
             \/ kpc' = "closed" /\ kring' = KeyringFile("whole", mem.hdr, mem.key, mem'.pw)
      BY <2>3, <2>4, <3>1
    <3>3. CASE kpc' = "threw"
      BY <1>1, <2>1, <3>1, <3>2, <3>3 DEF KeyringPair, Running
    <3>4. CASE kpc' = "closed" /\ kring' = KeyringFile("whole", mem.hdr, mem.key, mem'.pw)
      <4>1. mem'.pw[user] = pass
        BY <1>2, <1>3, <2>1, <3>1 DEF Mems
      <4>2. /\ kring'.st = "whole" /\ kring'.hdr = mem.hdr /\ kring'.key = mem.key
            /\ kring'.pw[user] = pass
        BY <3>4, <4>1 DEF KeyringFile
      <4>3. /\ mem.key # 0
            /\ program => mem.key = ext[id]
            /\ ~program => mem.hdr = mem.key /\ (FileSpoilt \/ KeyFileGives(mem.key))
        BY <1>1, <3>1 DEF KeyringPair
      <4>4. Stored(id, user, pass)'
        BY <2>1, <3>1, <4>2, <4>3 DEF Stored, KeyFileGives
      <4>5. QED BY <1>1, <2>1, <3>1, <3>2, <3>4, <4>4 DEF KeyringPair, Running, Ended
    <3>5. QED BY <3>2, <3>3, <3>4
  <2>9. CASE KeyringThrew
    BY <1>1, <2>1, <2>9 DEF KeyringThrew, KeyringPair, Running, Ended
  <2>10. QED
    BY <1>8, <2>2, <2>5, <2>6, <2>7, <2>8, <2>9 DEF KeyringStep, KeyringWrites
<1>9. CASE ConfigStep
  <2>1. /\ UNCHANGED <<kring, mkfile, ext, kpc, bck, cleanKey, orphaned, program, id, user, pass>>
        /\ pc \in {"config", "backup", "protect", "rename"}
        /\ pc' \in {"backup", "protect", "rename", "clear", "unwind"}
        /\ FileSpoilt => FileSpoilt'
    BY <1>9, ConfigFrame DEF configStepUnchanged, setupVars, historyVars, idVars, FileSpoilt
  <2>2. kpc = "closed" /\ Running
    BY <1>1, <2>1 DEF KeysKept, Running, Ended
  <2>3. Stored(id, user, pass)'
    BY <1>1, <2>1 DEF KeyringPair, Stored, KeyFileGives
  <2>4. QED BY <1>1, <2>1, <2>2, <2>3 DEF KeyringPair
<1>10. CASE Clear
  <2>1. /\ UNCHANGED <<kring, mkfile, ext, kpc, orphaned, program, config, acct, unnoticed>>
        /\ pc = "clear" /\ pc' \in {"done", "unwind"}
        /\ cleanKey' # "leave" => UNCHANGED <<cleanKey, bck>>
    BY <1>10 DEF Clear, ProcessEnds, serverVars, historyVars
  <2>2. kpc = "closed" /\ Running
    BY <1>1, <2>1 DEF KeysKept, Running, Ended
  <2>3. "tmp" \in unnoticed \/ (config.id = id /\ config.user = user /\ acct[user] = pass)
    BY <2>1 DEF UInv, Credentials, Config
  <2>4. "tmp" \in unnoticed \/ Stored(config.id, config.user, acct[config.user])
    BY <1>1, <2>1, <2>3 DEF KeyringPair
  <2>5. ("tmp" \in unnoticed \/ Stored(config.id, config.user, acct[config.user]))'
    BY <2>1, <2>4 DEF Stored, KeyFileGives, FileSpoilt
  <2>6. QED BY <1>1, <2>1, <2>2, <2>5 DEF KeyringPair
<1>11. CASE CopyKeys
  <2>1. /\ UNCHANGED <<kring, mkfile, kpc, orphaned, program>> /\ kpc = "closed"
        /\ pc' \in {"keyring", "unwind"}
    BY <1>1, <1>11 DEF CopyKeys, KeysKept, keyringStepUnchanged, historyVars, setupVars
  <2>2. cleanKey' = "revert" => GoesWithKeyring(bck)'
    <3>1. cleanKey = "leave"
      BY <1>1, <1>11 DEF CopyKeys, KeysKept
    <3>2. cleanKey' = "revert" => bck' \in {mkfile} \cup TornMasterKeys(mkfile.entries)
      BY <1>11, <3>1 DEF CopyKeys
    <3>3. mkfile \in KeyFiles
      BY <1>1 DEF Types
    <3>4. cleanKey' = "revert" => GoesWithKeyring(bck')
      BY <1>1, <3>2, <3>3, CopyGoesWithKeyring DEF KeyringPair
    <3>5. QED BY <2>1, <3>4
  <2>3. QED BY <1>1, <2>1, <2>2 DEF KeyringPair
<1>12. CASE UnwindKeys \/ CopyBackThrows \/ (Crash /\ pc = "unwind")
  <2>1. /\ UNCHANGED <<orphaned, program>> /\ kpc = "closed" /\ kpc' = "closed"
        /\ kring' = kring /\ pc' \in {"unwindConfig", "crashed"}
    BY <1>1, <1>12 DEF UnwindKeys, CopyBackThrows, Crash, CrashKeyring, KeysKept, setupVars, historyVars
  <2>2. /\ cleanKey' = "revert" => bck' = NoMasterKeys
        /\ \/ mkfile' \in {mkfile, NoSignature, NoMasterKeys}
           \/ cleanKey = "revert" /\ mkfile' \in {bck} \cup TornMasterKeys(bck.entries)
    BY <1>1, <1>12 DEF UnwindKeys, CopyBackThrows, Crash, CrashKeyring, ProcessEnds, KeysKept
  <2>3. bck \in KeyFiles
    BY <1>1 DEF Types
  <2>4. GoesWithKeyring(mkfile')
    BY <1>1, <1>4, <2>2, <2>3, CopyGoesWithKeyring DEF KeyringPair
  <2>5. QED BY <1>1, <1>4, <2>1, <2>2, <2>4 DEF KeyringPair
<1>13. CASE UnwindConfig
  <2>1. UNCHANGED <<kring, mkfile, kpc, bck, cleanKey, orphaned, program>> /\ pc' = "unwindRest" /\ kpc = "closed"
    BY <1>1, <1>13 DEF UnwindConfig, configStepUnchanged, KeysKept, setupVars, historyVars
  <2>2. QED BY <1>1, <2>1 DEF KeyringPair
<1>14. CASE UnwindRest
  <2>1. /\ UNCHANGED <<kpc, orphaned, program>> /\ kpc = "closed" /\ pc' = "failed"
        /\ \/ mkfile' = NoMasterKeys
           \/ UNCHANGED <<mkfile, kring>>
        /\ cleanKey' = "leave"
    BY <1>1, <1>14 DEF UnwindRest, ProcessEnds, KeysKept, historyVars
  <2>2. QED BY <1>1, <1>4, <2>1 DEF KeyringPair
<1>15. CASE Crash /\ pc # "unwind"
  <2>1. /\ UNCHANGED <<orphaned, program>> /\ kpc' = "closed" /\ pc' = "crashed" /\ cleanKey' = "leave"
    BY <1>1, <1>15 DEF Crash, CrashKeyring, ProcessEnds, KeysKept, historyVars
  <2>2. \/ /\ kring' = kring \/ kring'.st # "absent"
           /\ mkfile' = mkfile \/ kpc = "master"
        \/ pc = "unwindRest" /\ newdir /\ mkfile' = mkfile
    BY <1>15 DEF Crash, CrashKeyring, TornKeyrings, CutKeyring, KeyringFile
  <2>3. newdir /\ pc = "unwindRest" => mkfile = NoMasterKeys
    BY <1>1 DEF KeysKept, KeysUnwound
  <2>4. QED BY <1>1, <1>4, <2>1, <2>2, <2>3 DEF KeyringPair
<1>16. CASE OperatorDeletes
  <2>1. kpc' = kpc /\ kpc = "closed" /\ pc' = "idle" /\ UNCHANGED <<program, cleanKey, bck>>
    BY <1>1, <1>16 DEF OperatorDeletes, KeysKept, setupVars, fileVars, Running, Ended
  <2>2. cleanKey = "leave"
    BY <1>16 DEF OperatorDeletes, UInv, IInv, Directory
  <2>3. \/ mkfile' = NoMasterKeys
        \/ mkfile' = mkfile /\ kring' = kring /\ orphaned' = orphaned
        \/ mkfile' = mkfile /\ (program \/ orphaned')
    BY <1>16 DEF OperatorDeletes
  <2>4. QED BY <1>1, <1>4, <2>1, <2>2, <2>3 DEF KeyringPair
<1>17. CASE PrimaryMoves \/ UNCHANGED vars
  <2>1. UNCHANGED <<kring, mkfile, ext, kpc, mem, unnoticed, pc, bck, cleanKey, orphaned, program, id, user,
                    pass, config, acct>>
    BY <1>17 DEF PrimaryMoves, vars, keyringVars, historyVars, idVars, setupVars, fileVars, serverVars
  <2>2. QED BY <1>1, <2>1 DEF KeyringPair, Stored, KeyFileGives, FirstIs, FileSpoilt
<1>18. QED
  BY <1>5, <1>6, <1>7, <1>8, <1>9, <1>10, <1>11, <1>12, <1>13, <1>14, <1>15, <1>16, <1>17, Cases

\* The same of the stronger invariant.
LEMMA UsableInit ==
  ASSUME Init
  PROVE  UInv
<1>1. IInv
  BY InitInvariant
<1>2. <<>> \in Seq(Nodes) /\ <<>> \in Seq(KeyEntry) /\ NoPw \in [Num -> Nat] /\ NoPw \in [Num -> 0..1]
  BY DEF NoPw
<1>3. Numbers
  <2>1. runs = 0 /\ pc = "idle" /\ ~fetched /\ num = 1 /\ rest = <<>> /\ ~Running
    BY DEF Init, Running, Ended
  <2>2. Bound(0) = 1 /\ pc \notin Attempt
    <3>1. Cardinality(Nodes) \in Nat
      BY BootstrapAssumption, FS_CardinalityType
    <3>2. QED BY <2>1, <3>1 DEF Bound, Attempt
  <2>3. MaxRuns \in Nat
    BY BootstrapAssumption
  <2>4. QED BY <1>2, <2>1, <2>2, <2>3 DEF Numbers
<1>4. Identities
  <2>1. num = 1 /\ pc = "idle" /\ reg \in 0..1 /\ treg = 0 /\ id = 0 /\ user = 0
    BY DEF Init
  <2>2. config.st \notin {"whole", "short"} /\ oldConfig = config /\ tmp = NoConfig /\ bak = NoConfig
    BY DEF Init, NoConfig, PlainConfig, Config
  <2>3. QED BY <2>1, <2>2 DEF Identities, IdsOK, NoConfig, Config, Writing
<1>5. KeyNumbers
  <2>1. num = 1 /\ pc = "idle" /\ kring = NoKeyring /\ mem = NoMem /\ ext = NoPw /\ oldExt = NoPw
    BY DEF Init
  <2>2. NoKeyring \in KeyringFiles(1) /\ NoMem \in Mems(1)
    BY <1>2 DEF NoKeyring, KeyringFile, KeyringFiles, NoMem, Mems
  <2>3. QED BY <1>2, <2>1, <2>2 DEF KeyNumbers, Attempt
<1>6. Credentials
  BY DEF Init, Credentials, Writing
<1>7. KeyringPair
  <2>1. pc = "idle" /\ kpc = "closed" /\ ~Running
    BY DEF Init, Running, Ended
  <2>2. MinePlaces(mkfile.entries) = {}
    <3>1. CASE mkfile = NoMasterKeys
      BY <3>1 DEF MinePlaces, NoMasterKeys, MasterKeys
    <3>2. CASE \E r \in Rings \ {Mine} : mkfile = MasterKeys("signed", <<[ring |-> r, key |-> 1]>>)
      <4>1. PICK r \in Rings \ {Mine} : mkfile = MasterKeys("signed", <<[ring |-> r, key |-> 1]>>)
        BY <3>2
      <4>2. mkfile.entries = <<[ring |-> r, key |-> 1]>>
        BY <4>1 DEF MasterKeys
      <4>3. \A i \in DOMAIN mkfile.entries : mkfile.entries[i].ring = r
        BY <4>2
      <4>4. QED BY <4>3 DEF MinePlaces
    <3>3. QED BY <3>1, <3>2 DEF Init
  <2>3. cleanKey = "leave"
    BY DEF Init
  <2>4. QED BY <2>1, <2>2, <2>3 DEF KeyringPair, GoesWithKeyring, Writing
<1>8. QED BY <1>1, <1>3, <1>4, <1>5, <1>6, <1>7 DEF UInv

\* A bootstrap that reports success has left a router that can start and log in,
\* after whatever bootstraps, failures, crashes, failovers and deletions before it.
\* Usable itself says what is excepted: errors that nobody looked for in writing
\* the configuration or the master keys, and a keyring file that was deleted while
\* its master key was kept.
THEOREM UsableAlways == Spec => []Usable
<1>1. Init => UInv
  BY UsableInit
<1>2. UInv /\ [Next]_vars => UInv'
  <2>1. SUFFICES ASSUME UInv, [Next]_vars PROVE UInv'
    OBVIOUS
  <2>2. IInv'
    BY <2>1, TypesStep, DirectoryStep, ConfigStepKept, KeysStepKept, ProgramStepKept,
       EntriesStepKept, AccountsStepKept DEF UInv, IInv
  <2>3. Numbers' /\ Identities' /\ Credentials'
    BY <2>1, NumbersStep, IdentitiesStep, CredentialsStep DEF UInv, IInv
  <2>4. KeyNumbers' /\ KeyringPair'
    BY <2>1, KeyNumbersStep, KeyringPairStep
  <2>5. QED BY <2>2, <2>3, <2>4 DEF UInv
<1>3. UInv => Usable
  <2>1. SUFFICES ASSUME UInv, pc = "done", "tmp" \notin unnoticed, "master" \notin unnoticed, ~orphaned
                 PROVE  CanStart
    BY DEF Usable
  <2>2. config.st = "whole" /\ config.id = reg /\ acct[config.user] # 0
    BY <2>1 DEF UInv, Credentials
  <2>3. Stored(config.id, config.user, acct[config.user])
    BY <2>1 DEF UInv, KeyringPair
  <2>4. program => ReadsPasswordWithProgram(config.id, config.user, acct[config.user])
    BY <2>3 DEF Stored, ReadsPasswordWithProgram, InitKeyringWithKey
  <2>5. ~program => ReadsPassword(config.user, acct[config.user])
    BY <2>1, <2>3, StartReads DEF Stored, FileSpoilt, UInv, IInv
  <2>6. QED BY <2>2, <2>4, <2>5 DEF CanStart
<1>4. QED BY <1>1, <1>2, <1>3, PTL DEF Spec

=============================================================================
