------------------------------- MODULE Wallet --------------------------------
(***************************************************************************)
(* The wallet and its files (wallet/wallet.go).  A wallet has a secret key *)
(* for each of the two signature schemes.  It is kept in two directories   *)
(* named after the schemes, each with a JSON file and a LevelDB database   *)
(* that hold the whole wallet; Store works through them file by file and   *)
(* a crash may come between any two of its steps.                          *)
(*                                                                         *)
(* A public key stands with its secret key, so a loaded wallet is in order *)
(* when its public keys are the secret ones.                               *)
(***************************************************************************)
EXTENDS Integers

CONSTANTS
  Schemes,       \* names of signature schemes
  Default,       \* <<primary, secondary>>: the schemes a process starts with
  Passwords,
  MaxKeys        \* bound: keys generated

NoFile == [k1 |-> 0, k2 |-> 0, pw |-> "", old |-> Default]
Absent == [exists |-> FALSE, json |-> NoFile, ldb |-> NoFile]
NoWallet == [k1 |-> 0, k2 |-> 0, pub |-> <<0, 0>>, pw |-> "", home |-> Default, old |-> Default]

VARIABLES
  wallet,        \* the wallet in memory
  disk,          \* the directories by name
  backups,       \* what was renamed to <name>_backup1, _backup2 and so on
  keys,          \* keys generated so far
  pc,            \* where Store is, "idle" when it does not run
  makeBackup,    \* its parameter
  failures,      \* how often it returned an error
  saved,         \* keys of the wallets that were stored to the end
  locked         \* ChangePassword holds globalMutex

vars == <<wallet, disk, backups, keys, pc, makeBackup, failures, saved, locked>>

\* What json.Marshal keeps of the wallet; the secret keys are encrypted with pw.
Marshalled == [k1 |-> wallet.k1, k2 |-> wallet.k2, pw |-> wallet.pw, old |-> wallet.old]

StartStore(backup) == pc' = "json1" /\ makeBackup' = backup /\ UNCHANGED <<failures, saved>>

Init ==
  /\ wallet = NoWallet /\ keys = 0 /\ saved = {}
  /\ disk = [p \in Schemes |-> Absent] /\ backups = [p \in Schemes |-> {}]
  /\ pc = "idle" /\ makeBackup = FALSE /\ failures = 0 /\ locked = FALSE

-----------------------------------------------------------------------------
\* os.MkdirAll, leveldb.OpenFile: the directory is there.
Mkdir(d, p) == [d EXCEPT ![p].exists = TRUE]

\* GenerateNewWallet and the commands that call it, which make the directories
\* and store the wallet with a backup.
GenerateNewWallet(pw) ==
  /\ pc = "idle" /\ keys + 2 <= MaxKeys
  /\ keys' = keys + 2
  /\ wallet' = [NoWallet EXCEPT !.k1 = keys + 1, !.k2 = keys + 2, !.pub = <<keys + 1, keys + 2>>, !.pw = pw]
  /\ disk' = Mkdir(Mkdir(disk, Default[1]), Default[2])
  /\ StartStore(TRUE)
  /\ UNCHANGED <<backups, locked>>

\* AddNewPubKeyToActiveWallet, when the chain changes a scheme: a new key and a
\* Store with a backup; HomePathOld, or HomePath2Old, is the directory so far.
AddNewEncryptionToActiveWallet(i, name) ==
  /\ pc = "idle" /\ wallet # NoWallet /\ keys < MaxKeys
  /\ name \notin {wallet.home[1], wallet.home[2]}
  /\ keys' = keys + 1
  /\ wallet' = [wallet EXCEPT !.k1 = IF i = 1 THEN keys + 1 ELSE @,
                              !.k2 = IF i = 2 THEN keys + 1 ELSE @,
                              !.pub[i] = keys + 1,
                              !.old[i] = wallet.home[i], !.home[i] = name]
  /\ StartStore(TRUE)
  /\ UNCHANGED <<disk, backups, locked>>

\* SetPassword and Store(false), as the user interface changes a password;
\* AddNewPubKeyToActiveWallet stores so too when it has the scheme already.
SetPassword(pw) ==
  /\ pc = "idle" /\ wallet # NoWallet
  /\ wallet' = [wallet EXCEPT !.pw = pw]
  /\ StartStore(FALSE)
  /\ UNCHANGED <<disk, backups, keys, locked>>

\* ChangePassword holds globalMutex while it stores a copy of the wallet, and
\* Store takes it again after the JSON files are written.
ChangePassword(pw) ==
  /\ pc = "idle" /\ wallet # NoWallet
  /\ wallet' = [wallet EXCEPT !.pw = pw]
  /\ StartStore(FALSE)
  /\ locked' = TRUE
  /\ UNCHANGED <<disk, backups, keys>>

-----------------------------------------------------------------------------
Go(next) == pc' = next /\ UNCHANGED <<wallet, keys, makeBackup, failures, saved, locked>>

\* Store returns: with an error, or the wallet is stored to the end.
Return(error) ==
  /\ pc' = "idle" /\ failures' = IF error THEN failures + 1 ELSE failures
  /\ saved' = IF error THEN saved ELSE saved \cup {wallet.k1, wallet.k2}
  /\ UNCHANGED <<wallet, keys, makeBackup, locked>>

\* Mutant: the number of the backup is always 1.
BackupOld_Number1(i, next) ==
  LET old == wallet.old[i]
  IN  IF ~makeBackup
        THEN Go(next) /\ UNCHANGED <<disk, backups>>
        ELSE /\ disk[old].exists
             /\ disk' = [disk EXCEPT ![old] = Absent]
             /\ backups' = [backups EXCEPT ![old] = {disk[old]}]
             /\ Go(next)

\* os.Rename of HomePathOld, or of HomePath2Old, to the first number that is free;
\* it fails when there is no such directory.
BackupOld(i, next) ==
  LET old == wallet.old[i]
  IN  IF ~makeBackup
        THEN Go(next) /\ UNCHANGED <<disk, backups>>
      ELSE IF ~disk[old].exists
        THEN Return(TRUE) /\ UNCHANGED <<disk, backups>>
        ELSE /\ disk' = [disk EXCEPT ![old] = Absent]
             /\ backups' = [backups EXCEPT ![old] = @ \cup {disk[old]}]
             /\ Go(next)

\* StoreJSON writes the file of the i-th directory.
WriteJSON(i, next) ==
  /\ disk' = [Mkdir(disk, wallet.home[i]) EXCEPT ![wallet.home[i]].json = Marshalled]
  /\ Go(next) /\ UNCHANGED backups

OpenDB(i, next) ==
  /\ disk' = Mkdir(disk, wallet.home[i])
  /\ Go(next) /\ UNCHANGED backups

PutDB(i) ==
  /\ disk' = [disk EXCEPT ![wallet.home[i]].ldb = Marshalled]
  /\ UNCHANGED backups

StoreJSON ==
  \/ pc = "json1" /\ BackupOld(1, "json2")
  \/ pc = "json2" /\ BackupOld(2, "write1")
  \/ pc = "write1" /\ WriteJSON(1, "write2")
  \/ pc = "write2" /\ WriteJSON(2, "lock")

\* The databases, under globalMutex: both are opened before either is written.
StoreDB ==
  \/ pc = "lock" /\ ~locked /\ BackupOld(1, "open1")
  \/ pc = "open1" /\ OpenDB(1, "back2")
  \/ pc = "back2" /\ BackupOld(2, "open2")
  \/ pc = "open2" /\ OpenDB(2, "put1")
  \/ pc = "put1" /\ PutDB(1) /\ Go("put2")
  \/ pc = "put2" /\ PutDB(2) /\ Return(FALSE)

-----------------------------------------------------------------------------
\* Load when a process starts: the first database gives the first secret key, the
\* second one the second secret key and everything else.
Load(pw) ==
  LET one == disk[Default[1]].ldb
      two == disk[Default[2]].ldb
      ok1 == one # NoFile /\ one.pw = pw
      ok2 == two # NoFile /\ two.pw = pw
  IN  /\ pc = "idle" /\ wallet = NoWallet
      /\ disk' = IF ok1 THEN Mkdir(Mkdir(disk, Default[1]), Default[2]) ELSE Mkdir(disk, Default[1])
      /\ wallet' = IF ok1 /\ ok2
                   THEN [k1 |-> one.k1, k2 |-> two.k2, pub |-> <<two.k1, two.k2>>, pw |-> pw,
                         home |-> Default, old |-> two.old]
                   ELSE NoWallet
      /\ UNCHANGED <<backups, keys, pc, makeBackup, failures, saved, locked>>

\* LoadJSON takes everything from the first file once it has found the second.
LoadJSON(pw) ==
  LET one == disk[Default[1]].json
  IN  /\ pc = "idle" /\ wallet = NoWallet
      /\ one # NoFile /\ one.pw = pw /\ disk[Default[2]].json # NoFile
      /\ wallet' = [k1 |-> one.k1, k2 |-> one.k2, pub |-> <<one.k1, one.k2>>, pw |-> pw,
                    home |-> Default, old |-> one.old]
      /\ UNCHANGED <<disk, backups, keys, pc, makeBackup, failures, saved, locked>>

\* The process ends, in the middle of Store or not.
Stop ==
  /\ wallet # NoWallet
  /\ wallet' = NoWallet /\ pc' = "idle" /\ locked' = FALSE
  /\ UNCHANGED <<disk, backups, keys, makeBackup, failures, saved>>

Next ==
  \/ \E pw \in Passwords :
       GenerateNewWallet(pw) \/ SetPassword(pw) \/ ChangePassword(pw) \/ Load(pw) \/ LoadJSON(pw)
  \/ \E i \in {1, 2}, name \in Schemes : AddNewEncryptionToActiveWallet(i, name)
  \/ StoreJSON \/ StoreDB \/ Stop

Spec == Init /\ [][Next]_vars

-----------------------------------------------------------------------------
Files == {disk[p].json : p \in Schemes} \cup {disk[p].ldb : p \in Schemes}
         \cup UNION {{d.json : d \in backups[p]} \cup {d.ldb : d \in backups[p]} : p \in Schemes}

\* Until the third Store has returned an error, as it does on every change of a
\* scheme (the second renaming of HomePathOld finds nothing), no secret key of a
\* wallet that was once stored is lost from the files and their backups, whatever is
\* stored over it and wherever a Store stops.
KeysOnDisk == failures <= 2 => \A k \in saved : \E f \in Files : k \in {f.k1, f.k2}

\* As long, a wallet that loads has the public keys of its secret keys, although
\* they come from two databases and a Store may have stopped between them.
LoadedInOrder == failures <= 2 => wallet.pub = <<wallet.k1, wallet.k2>>
=============================================================================
