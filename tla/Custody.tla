------------------------------- MODULE Custody -------------------------------
(***************************************************************************)
(* The long-lived seeds of one installation across its runs: the shell      *)
(* resolves them from the OS keychain before it builds the engine           *)
(* (electron/main.js, mobile/src/custody.js), and what the shell could not   *)
(* inject the engine takes from plaintext files of its own                  *)
(* (loadOrCreateSwarmSeed, createCashuWallet).                              *)
(*                                                                         *)
(* A seed is a number nothing else has when it is drawn.  The app may be     *)
(* killed between any two steps, and in the middle of the write of a blob.   *)
(***************************************************************************)
EXTENDS Naturals

CONSTANTS
  Shells,     \* the shells the installation may be: "desktop", "mobile"
  MayFail,    \* the kinds of seed the keychain or the disk may fail on
  MaxSeeds    \* bound on the seeds that are around at a time

\* At most 13 seeds are in use at a time: there is always one to draw.
ASSUME CustodyAssumption ==
  /\ Shells \subseteq {"desktop", "mobile"}
  /\ MayFail \subseteq {"wallet", "swarm"}
  /\ MaxSeeds \in Nat /\ MaxSeeds > 13

VARIABLES
  shell,   \* which shell it is, for good
  run,     \* the current run: how far its start is and the seeds resolved for it
  disk,    \* what survives a run: the keychain's blobs and the plaintext files
  history  \* history: the seeds of earlier runs, and those the keychain or the disk failed

custodyVars == <<shell, run, disk, history>>

Kind == {"wallet", "swarm"}
None == 0
Seed == 1 .. MaxSeeds
Torn == MaxSeeds + 1                        \* a blob whose write was cut short
Legacy(k) == IF k = "wallet" THEN 1 ELSE 2  \* the seed of an older build
Side == {"keychain", "file"}

\* The plaintext file the desktop takes over into the keychain, and the one the engine
\* falls back to, which the Cashu wallet names otherwise.
Plain == {"wallet.seed", "swarm.seed", "cashu.seed"}
plainFile(k) == IF k = "wallet" THEN "wallet.seed" ELSE "swarm.seed"
seedFile(k) == IF k = "wallet" THEN "cashu.seed" ELSE "swarm.seed"

\* The stages of a start, and the one after a seed is resolved.
Resolving(k) == IF k = "wallet" THEN "wallet" ELSE "swarm"
Removing(k) == IF k = "wallet" THEN "rm-wallet" ELSE "rm-swarm"
After(k) == IF k = "wallet" THEN "swarm" ELSE "create-swarm"
Creating(k) == IF k = "wallet" THEN "create-wallet" ELSE "create-swarm"
Created(k) == IF k = "wallet" THEN "up" ELSE "create-wallet"
Stage == {"off", "wallet", "rm-wallet", "swarm", "rm-swarm", "create-swarm",
          "create-wallet", "up"}

NoSeeds == [k \in Kind |-> None]
Off == [at |-> "off", secure |-> FALSE, injected |-> NoSeeds, use |-> NoSeeds]

-----------------------------------------------------------------------------
\* crypto.randomBytes: a seed that was never drawn before, or is gone for good.
InUse ==
  (UNION {{run.injected[k], run.use[k], disk.blob[k], history.root[k]["keychain"],
           history.root[k]["file"]} : k \in Kind}) \cup {disk.file[f] : f \in Plain}

Drawn == CHOOSE n \in Seed : n \notin InUse

\* The keychain or the disk failed on the seed of kind k, whose runs are not compared
\* any more.
Spoiled(h, k) == [h EXCEPT !.spoiled = @ \cup {k}, !.root[k] = [s \in Side |-> None]]

\* history: a side has its seed from the first one of it on.  The keychain's first seed is
\* the file's where the shell takes that file over.
side == IF run.secure THEN "keychain" ELSE "file"

Rooted(h, k, seed) ==
  IF k \in h.spoiled \/ h.root[k][side] # None THEN h
  ELSE [h EXCEPT !.root[k][side] =
          IF side = "keychain" /\ shell = "desktop" /\ seedFile(k) = plainFile(k)
               /\ h.root[k]["file"] # None
          THEN h.root[k]["file"] ELSE seed]

\* The app starts; encryptionSecure() asks the OS, which is in trouble when it stops
\* answering.  Without it nothing is injected.
Launch ==
  /\ run.at = "off"
  /\ \E secure \in BOOLEAN :
       run' = [Off EXCEPT !.secure = secure,
                          !.at = IF secure THEN "wallet" ELSE "create-swarm"]
  /\ UNCHANGED <<shell, disk, history>>

\* resolveSeed: the blob of an earlier run.
Readable(k) == disk.blob[k] \in Seed

Decrypt(k) ==
  /\ run.at = Resolving(k)
  /\ Readable(k)
  /\ run' = [run EXCEPT !.injected[k] = disk.blob[k], !.at = After(k)]
  /\ UNCHANGED <<shell, disk, history>>

\* No blob, or one that does not decrypt: the desktop takes the plaintext seed of an older
\* build over, and else a new seed is drawn; either is written as the blob.
Adopted(k) ==
  IF shell = "desktop" /\ disk.file[plainFile(k)] # None
  THEN disk.file[plainFile(k)] ELSE Drawn

NoBlob(k) ==
  /\ run.at = Resolving(k)
  /\ ~Readable(k) \/ (shell = "desktop" /\ k \in MayFail)

Lost(k) == IF Readable(k) THEN Spoiled(history, k) ELSE history

\* Bug: a new seed is stored without adopting the plaintext one.
BugStoreBlob(k) ==
  /\ NoBlob(k)
  /\ run' = [run EXCEPT !.injected[k] = Drawn, !.at = After(k)]
  /\ disk' = [disk EXCEPT !.blob[k] = Drawn]
  /\ history' = Rooted(Lost(k), k, Drawn)
  /\ UNCHANGED shell

StoreBlob(k) ==
  /\ NoBlob(k)
  /\ run' = [run EXCEPT !.injected[k] = Adopted(k),
                        !.at = IF Adopted(k) = Drawn THEN After(k) ELSE Removing(k)]
  /\ disk' = [disk EXCEPT !.blob[k] = Adopted(k)]
  /\ history' = Rooted(Lost(k), k, Adopted(k))
  /\ UNCHANGED shell

\* The write of the desktop's blob fails, and the seed is used all the same.
BlobNotStored(k) ==
  /\ NoBlob(k)
  /\ shell = "desktop" /\ k \in MayFail
  /\ run' = [run EXCEPT !.injected[k] = Adopted(k), !.at = After(k)]
  /\ history' = Spoiled(Lost(k), k)
  /\ UNCHANGED <<shell, disk>>

\* ... or is cut short by the end of the app.
BlobTorn(k) ==
  /\ NoBlob(k)
  /\ shell = "desktop"
  /\ disk' = [disk EXCEPT !.blob[k] = Torn]
  /\ history' = Lost(k)
  /\ run' = Off
  /\ UNCHANGED shell

\* The plaintext copy goes once the blob is there, if it can be removed.
RemovePlain(k) ==
  /\ run.at = Removing(k)
  /\ run' = [run EXCEPT !.at = After(k)]
  /\ \/ UNCHANGED <<disk, history>>
     \/ /\ disk' = [disk EXCEPT !.file[plainFile(k)] = None]
        /\ history' = IF seedFile(k) = plainFile(k)
                      THEN [history EXCEPT !.root[k]["file"] = None] ELSE history
  /\ UNCHANGED shell

\* The phone's keychain throws on either seed: resolveSeeds injects neither.
KeychainThrows(k) ==
  /\ run.at = Resolving(k)
  /\ shell = "mobile"
  /\ run' = [run EXCEPT !.secure = FALSE, !.injected = NoSeeds, !.at = "create-swarm"]
  /\ UNCHANGED <<shell, disk, history>>

-----------------------------------------------------------------------------
\* The engine takes the seed: injected, else of its file, else a new one it writes.

FileSeed(k) == IF disk.file[seedFile(k)] # None THEN disk.file[seedFile(k)] ELSE Drawn

Takes(k, seed) == run' = [run EXCEPT !.use[k] = seed, !.at = Created(k)]

Injected(k) ==
  /\ run.at = Creating(k) /\ run.injected[k] # None
  /\ Takes(k, run.injected[k])
  /\ UNCHANGED <<shell, disk, history>>

FromFile(k) ==
  /\ run.at = Creating(k) /\ run.injected[k] = None
  /\ Takes(k, FileSeed(k))
  /\ disk' = [disk EXCEPT !.file[seedFile(k)] = FileSeed(k)]
  /\ history' = Rooted(history, k, FileSeed(k))
  /\ UNCHANGED shell

\* A new seed that cannot be written: the swarm goes on with it, the wallet has none.
FileNotWritten(k) ==
  /\ run.at = Creating(k) /\ run.injected[k] = None
  /\ FileSeed(k) = Drawn /\ k \in MayFail
  /\ Takes(k, IF k = "swarm" THEN Drawn ELSE None)
  /\ history' = Spoiled(history, k)
  /\ UNCHANGED <<shell, disk>>

\* The app is quit or killed.
Killed ==
  /\ run.at # "off"
  /\ run' = Off
  /\ UNCHANGED <<shell, disk, history>>

-----------------------------------------------------------------------------
CustodyInit ==
  /\ shell \in Shells
  /\ run = Off
  /\ \E old \in IF shell = "desktop" THEN SUBSET Kind ELSE {{}} :
       /\ disk = [blob |-> NoSeeds,
                  file |-> [f \in Plain |->
                    IF \E k \in old : f = plainFile(k)
                    THEN Legacy(CHOOSE k \in old : f = plainFile(k)) ELSE None]]
       /\ history = [spoiled |-> {},
                     root |-> [k \in Kind |-> [s \in Side |->
                       IF k \in old /\ s = (IF k = "wallet" THEN "keychain" ELSE "file")
                       THEN Legacy(k) ELSE None]]]

StartStep ==
  \E k \in Kind :
    \/ Decrypt(k) \/ StoreBlob(k) \/ BlobNotStored(k) \/ BlobTorn(k) \/ RemovePlain(k)
    \/ KeychainThrows(k) \/ Injected(k) \/ FromFile(k) \/ FileNotWritten(k)

CustodyTypeOK ==
  /\ shell \in Shells
  /\ run \in [at : Stage, secure : BOOLEAN, injected : [Kind -> Seed \cup {None}],
              use : [Kind -> Seed \cup {None}]]
  /\ disk \in [blob : [Kind -> Seed \cup {None, Torn}], file : [Plain -> Seed \cup {None}]]
  /\ history \in [spoiled : SUBSET Kind, root : [Kind -> [Side -> Seed \cup {None}]]]

\* A peer keeps its money and its ring seat: every run has the seeds of the first run on
\* the same side of the keychain, and the first run with a keychain has the swarm seed of
\* the plaintext file before it, wherever the app was killed, as long as no blob of that
\* kind failed to decrypt and no write of it failed.
SeedsKept ==
  \A k \in Kind : run.use[k] # None /\ k \notin history.spoiled
                    => run.use[k] = history.root[k][side]

=============================================================================
