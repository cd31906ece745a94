------------------------------ MODULE Keyring ------------------------------
(***************************************************************************)
(* The keyring of one router: the keyring file, which holds the passwords  *)
(* under a key, and the master key file, which holds the keys of several   *)
(* keyrings, each under a scramble that is the header of its keyring file. *)
(* init_keyring() joins the two; every write truncates the file first, so  *)
(* that a failing write or a crash leaves part of it.  Instead of the      *)
(* master key file, an external program may keep the key, by router id.    *)
(*                                                                         *)
(* A key and its scramble are made together and are one number.  A         *)
(* password is a number, a user is a number, 0 is none.  A file that is    *)
(* written is not lost by a crash of the process.                          *)
(***************************************************************************)
EXTENDS Naturals, Sequences

CONSTANTS
  Rings,      \* keyring files that may share the master key file
  Mine,       \* the one of this router
  MaxNum,     \* bound on users, passwords, keys
  MaxFaults   \* bound on what goes wrong

ASSUME KeyringAssumption ==
  Mine \in Rings /\ MaxNum \in Nat /\ MaxFaults \in Nat

VARIABLES
  kring,      \* the keyring file
  mkfile,     \* the master key file
  ext,        \* the keys that the external program keeps
  kpc,        \* where init_keyring() is
  mem,        \* what the process knows of both files
  unnoticed,  \* what failed while the code went on as if it had not
  faults      \* things gone wrong so far

keyringVars == <<kring, mkfile, ext, kpc, mem, unnoticed>>

Num == 1..MaxNum
NoPw == [u \in Num |-> 0]

\* A keyring file: absent, cut (its header cannot be read), damaged (the header
\* can be read, the data cannot be decrypted) or whole.
KeyringFile(st, hdr, key, pw) == [st |-> st, hdr |-> hdr, key |-> key, pw |-> pw]
NoKeyring == KeyringFile("absent", 0, 0, NoPw)
CutKeyring == KeyringFile("cut", 0, 0, NoPw)
\* A master key file: absent, unsigned or signed.
MasterKeys(st, entries) == [st |-> st, entries |-> entries]
NoMasterKeys == MasterKeys("absent", <<>>)

Entries == Seq([ring : Rings, key : 0..MaxNum])
\* Files written in part, and calls of the external program.
Unnoticed == {"tmp", "bak", "config", "master", "bck", "restored", "program"}
NoMem == [entries |-> <<>>, key |-> 0, scr |-> 0, hdr |-> 0, pw |-> NoPw]

KeyringTypeOK ==
  /\ kring \in [st : {"absent", "cut", "damaged", "whole"}, hdr : 0..MaxNum,
                key : 0..MaxNum, pw : [Num -> 0..MaxNum]]
  /\ mkfile \in [st : {"absent", "unsigned", "signed"}, entries : Entries]
  /\ ext \in [Num -> 0..MaxNum]
  /\ kpc \in {"closed", "generate", "create", "createOnly", "header", "master", "open", "threw"}
  /\ mem \in [entries : Entries, key : 0..MaxNum, scr : 0..MaxNum,
              hdr : 0..MaxNum, pw : [Num -> 0..MaxNum]]
  /\ unnoticed \subseteq Unnoticed /\ faults \in 0..MaxFaults

\* What truncating and then writing part of a file leaves of it.
TornKeyrings(f) ==
  {CutKeyring, KeyringFile("damaged", f.hdr, 0, NoPw)}
NoSignature == MasterKeys("unsigned", <<>>)
TornMasterKeys(es) ==
  {NoSignature}
    \cup {MasterKeys("signed", SubSeq(es, 1, n)) : n \in 0..(Len(es) - 1)}
    \cup {MasterKeys("signed", Append(SubSeq(es, 1, n), [es[n + 1] EXCEPT !.key = 0])) :
            n \in 0..(Len(es) - 1)}

Fault == faults < MaxFaults /\ faults' = faults + 1

(***************************************************************************)
(* Reading.  The outcomes of init_keyring() up to its first write.         *)
(***************************************************************************)

\* Mutant: the entries are not kept.
MasterKeyFileLoadsNothing ==
  {[ok |-> mkfile.st = "signed", enoent |-> mkfile.st = "absent", entries |-> <<>>]}

\* MasterKeyFile::load().  A file with a signature and nothing else is read as
\* an entry whose length was never set: that throws, or adds an entry without a
\* name, as every load does after the last entry; such entries are never found.
MasterKeyFileLoads ==
  CASE mkfile.st = "absent"   -> {[ok |-> FALSE, enoent |-> TRUE, entries |-> <<>>]}
    [] mkfile.st = "unsigned" -> {[ok |-> FALSE, enoent |-> FALSE, entries |-> <<>>]}
    [] OTHER -> {[ok |-> ok, enoent |-> FALSE, entries |-> mkfile.entries] :
                   ok \in IF mkfile.entries = <<>> THEN BOOLEAN ELSE {TRUE}}

\* MasterKeyFile::get(): the first entry of the ring decides.
MinePlaces(es) == {i \in DOMAIN es : es[i].ring = Mine}
FirstMine(es) == es[CHOOSE i \in MinePlaces(es) : \A j \in MinePlaces(es) : i <= j].key

Threw == [ok |-> FALSE, existed |-> FALSE, mem |-> NoMem]
\* init_keyring_with_key(): a keyring that cannot be read with the key is
\* created again, with the header the failed load() left in the object.
InitKeyringWithKey(key, entries, create) ==
  LET existed == kring.st = "whole" /\ kring.key = key
  IN IF existed \/ create
     THEN [ok |-> TRUE, existed |-> existed,
           mem |-> [entries |-> entries, key |-> key, scr |-> key, hdr |-> kring.hdr,
                    pw |-> IF existed THEN kring.pw ELSE NoPw]]
     ELSE Threw

\* get_master_key(), n being the key that is generated if one is needed.  An
\* error of read_header() is forgiven when errno says ENOENT, be it from the
\* keyring file or still from the master key file.
GetMasterKey(load, create, n) ==
  LET hdr == kring.hdr
      forgiven == create /\ (load.enoent \/ kring.st = "absent")
  IN CASE hdr = 0 /\ ~forgiven -> Threw
       [] hdr # 0 /\ MinePlaces(load.entries) # {} ->
            IF FirstMine(load.entries) = hdr
              THEN InitKeyringWithKey(hdr, load.entries, create)
              ELSE Threw
       [] OTHER ->
            IF create
              THEN InitKeyringWithKey(
                     n, Append(load.entries, [ring |-> Mine, key |-> n]), create)
              ELSE Threw

InitKeyring(create, n) ==
  {IF load.ok \/ (load.enoent /\ create) THEN GetMasterKey(load, create, n) ELSE Threw :
     load \in MasterKeyFileLoads}

\* A router that starts with these files reads this password of user u.
ReadsPassword(u, p) ==
  \A r \in InitKeyring(FALSE, 0) : r.ok /\ r.mem.pw[u] = p
\* And one that has the id i and asks the external program.
ReadsPasswordWithProgram(i, u, p) ==
  LET r == InitKeyringWithKey(ext[i], <<>>, FALSE)
  IN ext[i] # 0 /\ r.ok /\ r.mem.pw[u] = p

(***************************************************************************)
(* Writing, one action per file written.                                   *)
(***************************************************************************)

\* KeyringFile::save() throws when it cannot open, protect or write the file.
SaveKeyring(f, next) ==
  \/ kring' = f /\ kpc' = next /\ UNCHANGED faults
  \/ Fault /\ kring' \in TornKeyrings(f) \cup {kring} /\ kpc' = "threw"

OpenKeyring(n) ==
  /\ kpc = "closed"
  /\ \E r \in InitKeyring(TRUE, n) :
       /\ kpc' = CASE ~r.ok -> "threw" [] r.existed -> "open" [] OTHER -> "create"
       /\ mem' = r.mem
  /\ UNCHANGED <<kring, mkfile, ext, unnoticed, faults>>

\* init_keyring_with_key() with the key of the external program, and nothing
\* after it.
OpenWithKey(key) ==
  LET r == InitKeyringWithKey(key, <<>>, TRUE)
  IN kpc' = (IF r.existed THEN "open" ELSE "createOnly") /\ mem' = r.mem

\* The branch of init_keyring_file() for the external program of router i, up to
\* read_master_key(), which is called once more before it, for a copy to restore.
OpenWithProgram(i, copied) ==
  /\ kpc = "closed"
  /\ \/ copied /\ UNCHANGED <<unnoticed, faults>>
     \/ ~copied /\ Fault /\ unnoticed' = unnoticed \cup {"program"}
  /\ IF ext[i] = 0 THEN kpc' = "generate" /\ mem' = NoMem ELSE OpenWithKey(ext[i])
  /\ UNCHANGED <<kring, mkfile, ext>>
ProgramFails ==
  /\ kpc = "closed" /\ Fault /\ kpc' = "threw"
  /\ UNCHANGED <<kring, mkfile, ext, mem, unnoticed>>

\* generate_master_key() and write_master_key().
GenerateMasterKey(i, n) ==
  /\ kpc = "generate"
  /\ \/ ext' = [ext EXCEPT ![i] = n] /\ OpenWithKey(n) /\ UNCHANGED faults
     \/ /\ Fault /\ kpc' = "threw" /\ UNCHANGED mem
        /\ ext' \in {ext, [ext EXCEPT ![i] = n]}
  /\ UNCHANGED <<kring, mkfile, unnoticed>>

CreateKeyring ==
  /\ kpc \in {"create", "createOnly"}
  /\ SaveKeyring(KeyringFile("whole", mem.hdr, mem.key, mem.pw),
                 IF kpc = "create" THEN "header" ELSE "open")
  /\ UNCHANGED <<mkfile, ext, mem, unnoticed>>

\* Mutant: the header is not set.
FlushNoHeader ==
  /\ kpc = "header"
  /\ SaveKeyring(KeyringFile("whole", mem.hdr, mem.key, mem.pw), "master")
  /\ UNCHANGED <<mkfile, ext, mem, unnoticed>>

FlushHeader ==
  /\ kpc = "header"
  /\ mem' = [mem EXCEPT !.hdr = mem.scr]
  /\ SaveKeyring(KeyringFile("whole", mem.scr, mem.key, mem.pw), "master")
  /\ UNCHANGED <<mkfile, ext, unnoticed>>

\* MasterKeyFile::save() checks that the file opens and can be protected, and
\* nothing after that.
SaveMasterKeys ==
  /\ kpc = "master"
  /\ \/ mkfile' = MasterKeys("signed", mem.entries) /\ kpc' = "open"
        /\ UNCHANGED <<unnoticed, faults>>
     \/ Fault /\ mkfile' \in {mkfile, NoSignature} /\ kpc' = "threw"
        /\ UNCHANGED unnoticed
     \/ Fault /\ mkfile' \in TornMasterKeys(mem.entries) /\ kpc' = "open"
        /\ unnoticed' = unnoticed \cup {"master"}
  /\ UNCHANGED <<kring, ext, mem>>

\* Keyring::store() and flush_keyring().
StorePassword(u, p, next) ==
  /\ kpc = "open"
  /\ mem' = [mem EXCEPT !.pw[u] = p]
  /\ SaveKeyring(KeyringFile("whole", mem.hdr, mem.key, mem'.pw), next)
  /\ UNCHANGED <<mkfile, ext, unnoticed>>

\* The process dies, possibly in the middle of a write.
CrashKeyring(storing) ==
  /\ kring' \in {kring} \cup
       (IF kpc \in {"create", "createOnly", "header"} \/ (kpc = "open" /\ storing)
          THEN TornKeyrings([kring EXCEPT !.hdr = IF kpc = "header" THEN mem.scr ELSE mem.hdr])
          ELSE {})
  /\ mkfile' \in {mkfile} \cup
       (IF kpc = "master" THEN TornMasterKeys(mem.entries) ELSE {})
  /\ kpc' = "closed"
  /\ UNCHANGED <<ext, unnoticed>>
=============================================================================
