----------------------------- MODULE ShellProofs -----------------------------
(***************************************************************************)
(* Theorems about Custody and the Shell around it, for every shell, every  *)
(* set of kinds whose storage may fail, every set of mints and every       *)
(* bound: seeds are kept, whatever Shell does with the engine that uses    *)
(* them, and the types of both.                                            *)
(*                                                                         *)
(* The type of the panel counts the codes being painted.  Each is of an    *)
(* invoice, each invoice of a quote, each quote of a command: none of them *)
(* is made twice, so all that are under way were asked for by the user.    *)
(***************************************************************************)
EXTENDS Shell, FiniteSetTheorems, TLAPS

-----------------------------------------------------------------------------
\* The inductive invariant.

\* How far the start is tells what is resolved.
Stages ==
  /\ run.at = "off" => run = Off
  /\ ~run.secure => run.injected = NoSeeds
  /\ run.at \in {"wallet", "rm-wallet", "swarm", "rm-swarm"} =>
       run.secure /\ run.use = NoSeeds
  /\ run.secure /\ run.at \notin {"off", "wallet"} => run.injected["wallet"] # None
  /\ run.secure /\ run.at \notin {"off", "wallet", "rm-wallet", "swarm"} =>
       run.injected["swarm"] # None
  /\ \A k \in Kind : run.at = Removing(k) => Readable(k)

\* What is on disk, injected and in use for kind k is the first seed of its side.  A blob
\* that was never written or cut short leaves only the wallet's old plaintext seed behind.
Rooted1(k) ==
  /\ disk.file[seedFile(k)] = history.root[k]["file"]
  /\ Readable(k) => disk.blob[k] = history.root[k]["keychain"]
  /\ ~Readable(k) /\ history.root[k]["keychain"] # None =>
       /\ shell = "desktop" /\ k = "wallet"
       /\ history.root[k]["keychain"] = disk.file[plainFile(k)]
  /\ run.injected[k] # None => run.injected[k] = history.root[k]["keychain"]
  /\ run.use[k] # None => run.use[k] = history.root[k][side]

Roots == \A k \in Kind : k \notin history.spoiled => Rooted1(k)

IInv == CustodyTypeOK /\ Stages /\ Roots

-----------------------------------------------------------------------------
\* There is always a seed to draw.

LEMMA OneMore ==
  ASSUME NEW S, NEW n \in Nat, IsFiniteSet(S) /\ Cardinality(S) <= n, NEW x
  PROVE  IsFiniteSet(S \cup {x}) /\ Cardinality(S \cup {x}) <= n + 1
<1>1. Cardinality(S) \in Nat
  BY FS_CardinalityType
<1> QED
  BY <1>1, FS_AddElement

LEMMA FiveMore ==
  ASSUME NEW S, NEW n \in Nat, IsFiniteSet(S) /\ Cardinality(S) <= n,
         NEW a, NEW b, NEW c, NEW d, NEW e
  PROVE  LET T == S \cup {a, b, c, d, e}
         IN  IsFiniteSet(T) /\ Cardinality(T) <= n + 5
<1> DEFINE A == S \cup {a}
           B == A \cup {b}
           C == B \cup {c}
           D == C \cup {d}
           E == D \cup {e}
<1>1. n + 1 \in Nat /\ n + 2 \in Nat /\ n + 3 \in Nat /\ n + 4 \in Nat
  OBVIOUS
<1>2. IsFiniteSet(A) /\ Cardinality(A) <= n + 1
  BY OneMore
<1>3. IsFiniteSet(B) /\ Cardinality(B) <= (n + 1) + 1
  <2> HIDE DEF A
  <2> QED
    BY <1>1, <1>2, OneMore
<1>4. IsFiniteSet(C) /\ Cardinality(C) <= (n + 2) + 1
  <2> HIDE DEF B
  <2>1. IsFiniteSet(B) /\ Cardinality(B) <= n + 2
    BY <1>3
  <2> QED
    BY <1>1, <2>1, OneMore
<1>5. IsFiniteSet(D) /\ Cardinality(D) <= (n + 3) + 1
  <2> HIDE DEF C
  <2>1. IsFiniteSet(C) /\ Cardinality(C) <= n + 3
    BY <1>4
  <2> QED
    BY <1>1, <2>1, OneMore
<1>6. IsFiniteSet(E) /\ Cardinality(E) <= (n + 4) + 1
  <2> HIDE DEF D
  <2>1. IsFiniteSet(D) /\ Cardinality(D) <= n + 4
    BY <1>5
  <2> QED
    BY <1>1, <2>1, OneMore
<1>7. E = S \cup {a, b, c, d, e}
  OBVIOUS
<1> HIDE DEF E
<1> QED
  BY <1>6, <1>7

LEMMA SeedToDraw == CustodyTypeOK => Drawn \in Seed /\ Drawn # None
<1> SUFFICES ASSUME CustodyTypeOK PROVE \E n \in Seed : n \notin InUse
  BY DEF Drawn, Seed, None
<1> DEFINE Used(k) == {run.injected[k], run.use[k], disk.blob[k],
                       history.root[k]["keychain"], history.root[k]["file"]}
           w == {} \cup Used("wallet")
           s == w \cup Used("swarm")
           a == s \cup {disk.file["wallet.seed"]}
           b == a \cup {disk.file["swarm.seed"]}
           c == b \cup {disk.file["cashu.seed"]}
<1>1. InUse = c
  <2> DEFINE u == UNION {Used(k) : k \in Kind}
             v == {disk.file[f] : f \in Plain}
  <2>1. InUse = u \cup v
    BY DEF InUse
  <2>2. u = s
    <3> HIDE DEF Used
    <3> QED
      BY DEF Kind
  <2>3. v = {disk.file["wallet.seed"], disk.file["swarm.seed"], disk.file["cashu.seed"]}
    BY DEF Plain
  <2> HIDE DEF s, u, v
  <2> QED
    BY <2>1, <2>2, <2>3
<1>2. IsFiniteSet(w) /\ Cardinality(w) <= 0 + 5
  <2> DEFINE z == {}
  <2>1. IsFiniteSet(z) /\ Cardinality(z) <= 0
    BY FS_EmptySet
  <2> HIDE DEF z
  <2>2. IsFiniteSet(z \cup Used("wallet")) /\ Cardinality(z \cup Used("wallet")) <= 0 + 5
    BY <2>1, FiveMore
  <2> QED
    BY <2>2 DEF z
<1> HIDE DEF w
<1>3. IsFiniteSet(s) /\ Cardinality(s) <= 10
  <2>1. IsFiniteSet(w) /\ Cardinality(w) <= 5
    BY <1>2
  <2>2. \A n \in Nat : Cardinality(w) <= n => IsFiniteSet(s) /\ Cardinality(s) <= n + 5
    BY <1>2, FiveMore
  <2> HIDE DEF s
  <2> QED
    BY <2>1, <2>2
<1> HIDE DEF s
<1>4. IsFiniteSet(a) /\ Cardinality(a) <= 11
  <2>1. \A n \in Nat : Cardinality(s) <= n => IsFiniteSet(a) /\ Cardinality(a) <= n + 1
    BY <1>3, OneMore
  <2> HIDE DEF a
  <2> QED
    BY <1>3, <2>1
<1> HIDE DEF a
<1>5. IsFiniteSet(b) /\ Cardinality(b) <= 12
  <2>1. \A n \in Nat : Cardinality(a) <= n => IsFiniteSet(b) /\ Cardinality(b) <= n + 1
    BY <1>4, OneMore
  <2> HIDE DEF b
  <2> QED
    BY <1>4, <2>1
<1> HIDE DEF b
<1>6. IsFiniteSet(c) /\ Cardinality(c) <= 13
  <2>1. \A n \in Nat : Cardinality(b) <= n => IsFiniteSet(c) /\ Cardinality(c) <= n + 1
    BY <1>5, OneMore
  <2> HIDE DEF c
  <2> QED
    BY <1>5, <2>1
<1> HIDE DEF c
<1>7. Cardinality(Seed) = MaxSeeds /\ MaxSeeds \in Nat /\ MaxSeeds > 13
  BY CustodyAssumption, FS_Interval DEF Seed
<1>8. ASSUME Seed \subseteq c
      PROVE  FALSE
  <2>1. Cardinality(Seed) <= Cardinality(c) /\ Cardinality(c) \in Nat
    BY <1>6, <1>8, FS_Subset, FS_CardinalityType
  <2> QED
    BY <1>6, <1>7, <2>1
<1> QED
  BY <1>1, <1>8

-----------------------------------------------------------------------------
\* The records of Custody, and what its helpers make of them.

Run == [at : Stage, secure : BOOLEAN, injected : [Kind -> Seed \cup {None}],
        use : [Kind -> Seed \cup {None}]]
Disk == [blob : [Kind -> Seed \cup {None, Torn}], file : [Plain -> Seed \cup {None}]]
History == [spoiled : SUBSET Kind, root : [Kind -> [Side -> Seed \cup {None}]]]

LEMMA Kinds ==
  /\ Kind = {"wallet", "swarm"} /\ Side = {"keychain", "file"}
  /\ plainFile("wallet") = "wallet.seed" /\ plainFile("swarm") = "swarm.seed"
  /\ seedFile("wallet") = "cashu.seed" /\ seedFile("swarm") = "swarm.seed"
  /\ \A k \in Kind : /\ plainFile(k) \in Plain /\ seedFile(k) \in Plain
                     /\ Resolving(k) = k /\ {After(k), Created(k), Creating(k)} \subseteq Stage
                     /\ Removing(k) \in Stage
  /\ Removing("wallet") = "rm-wallet" /\ Removing("swarm") = "rm-swarm"
  /\ After("wallet") = "swarm" /\ After("swarm") = "create-swarm"
  /\ Creating("wallet") = "create-wallet" /\ Creating("swarm") = "create-swarm"
  /\ Created("wallet") = "up" /\ Created("swarm") = "create-wallet"
BY DEF Kind, Side, plainFile, seedFile, Plain, Resolving, After, Created, Creating, Removing,
       Stage

LEMMA Seeds == None \notin Seed /\ Torn \notin Seed /\ Torn # None
BY CustodyAssumption DEF None, Seed, Torn

\* Only the history of kind k is spoiled.
LEMMA SpoiledIs ==
  ASSUME NEW h \in History, NEW k \in Kind
  PROVE  /\ Spoiled(h, k) \in History /\ Spoiled(h, k).spoiled = h.spoiled \cup {k}
         /\ \A j \in Kind \ {k} : Spoiled(h, k).root[j] = h.root[j]
<1> DEFINE none == [s \in Side |-> None]
<1>1. none \in [Side -> Seed \cup {None}]
  OBVIOUS
<1>2. Spoiled(h, k) = [h EXCEPT !.spoiled = h.spoiled \cup {k}, !.root = [h.root EXCEPT ![k] = none]]
  BY DEF Spoiled, History
<1> HIDE DEF none
<1> QED
  BY <1>1, <1>2 DEF History

\* A side gets its seed once.
LEMMA RootedIs ==
  ASSUME NEW h \in History, NEW k \in Kind, NEW seed \in Seed
  PROVE  LET r == Rooted(h, k, seed)
             first == IF side = "keychain" /\ shell = "desktop" /\ seedFile(k) = plainFile(k)
                         /\ h.root[k]["file"] # None
                      THEN h.root[k]["file"] ELSE seed
         IN  /\ r \in History /\ r.spoiled = h.spoiled
             /\ \A j \in Kind \ {k} : r.root[j] = h.root[j]
             /\ k \notin h.spoiled =>
                  /\ r.root[k][side] = IF h.root[k][side] # None THEN h.root[k][side] ELSE first
                  /\ \A s \in Side \ {side} : r.root[k][s] = h.root[k][s]
<1> DEFINE first == IF side = "keychain" /\ shell = "desktop" /\ seedFile(k) = plainFile(k)
                         /\ h.root[k]["file"] # None
                    THEN h.root[k]["file"] ELSE seed
           new == [h EXCEPT !.root = [h.root EXCEPT ![k] = [h.root[k] EXCEPT ![side] = first]]]
<1>1. side \in Side /\ "file" \in Side
  BY DEF side, Side
<1>2. first \in Seed \cup {None}
  BY <1>1 DEF History
<1>3. Rooted(h, k, seed) = IF k \in h.spoiled \/ h.root[k][side] # None THEN h ELSE new
  BY DEF Rooted, History
<1> HIDE DEF first
<1>4. [h.root[k] EXCEPT ![side] = first] \in [Side -> Seed \cup {None}]
  BY <1>1, <1>2 DEF History
<1>5. /\ new \in History /\ new.spoiled = h.spoiled
      /\ \A j \in Kind \ {k} : new.root[j] = h.root[j]
      /\ new.root[k] = [h.root[k] EXCEPT ![side] = first]
  BY <1>4 DEF History
<1>6. /\ new.root[k][side] = first
      /\ \A s \in Side \ {side} : new.root[k][s] = h.root[k][s]
  BY <1>1, <1>5 DEF History
<1> HIDE DEF new
<1> QED
  BY <1>3, <1>5, <1>6 DEF first

-----------------------------------------------------------------------------
\* The steps.

LEMMA Fields ==
  ASSUME CustodyTypeOK
  PROVE  /\ run \in Run /\ disk \in Disk /\ history \in History /\ shell \in Shells
         /\ run.at \in Stage /\ run.secure \in BOOLEAN
         /\ run.injected \in [Kind -> Seed \cup {None}] /\ run.use \in [Kind -> Seed \cup {None}]
         /\ disk.blob \in [Kind -> Seed \cup {None, Torn}]
         /\ disk.file \in [Plain -> Seed \cup {None}]
         /\ history.spoiled \subseteq Kind /\ history.root \in [Kind -> [Side -> Seed \cup {None}]]
BY DEF CustodyTypeOK, Run, Disk, History

\* Nothing a kind's seed depends on changes, except perhaps the run, which starts over.
LEMMA SameRoots ==
  ASSUME CustodyTypeOK, Roots, NEW k \in Kind, k \notin history.spoiled,
         history'.root[k] = history.root[k], shell' = shell,
         disk'.blob[k] = disk.blob[k], disk'.file[seedFile(k)] = disk.file[seedFile(k)],
         disk'.file[plainFile(k)] = disk.file[plainFile(k)],
         run'.injected[k] \in {None, run.injected[k]},
         run'.use[k] = None \/ (run'.use[k] = run.use[k] /\ run'.secure = run.secure)
  PROVE  Rooted1(k)'
BY DEF Roots, Rooted1, Readable, side

\* A step that ends or starts a run.
LEMMA RunReset ==
  ASSUME IInv, run' \in Run, run'.injected = NoSeeds, run'.use = NoSeeds,
         shell' = shell, disk' = disk, history' = history, Stages'
  PROVE  IInv'
<1>1. CustodyTypeOK'
  BY DEF IInv, CustodyTypeOK, Run
<1>2. \A k \in Kind : k \notin history'.spoiled => Rooted1(k)'
  BY SameRoots DEF IInv, NoSeeds
<1> QED
  BY <1>1, <1>2 DEF IInv, Roots

LEMMA OffIs ==
  /\ Off \in Run /\ Off.at = "off" /\ Off.secure = FALSE /\ Off.injected = NoSeeds
  /\ Off.use = NoSeeds /\ NoSeeds \in [Kind -> Seed \cup {None}]
  /\ \A k \in Kind : NoSeeds[k] = None
BY DEF Off, Run, NoSeeds, Stage

LEMMA KilledKeeps == IInv /\ (Killed \/ (run' = Off /\ UNCHANGED <<shell, disk, history>>)) => IInv'
<1> SUFFICES ASSUME IInv, Killed \/ (run' = Off /\ UNCHANGED <<shell, disk, history>>)
             PROVE  IInv'
  OBVIOUS
<1>1. run' = Off /\ UNCHANGED <<shell, disk, history>>
  BY DEF Killed
<1>2. Stages'
  BY <1>1, OffIs, Kinds DEF Stages
<1> QED
  BY <1>1, <1>2, OffIs, RunReset

LEMMA LaunchKeeps == IInv /\ Launch => IInv'
<1> SUFFICES ASSUME IInv, Launch PROVE IInv'
  OBVIOUS
<1>1. PICK secure \in BOOLEAN :
        run' = [Off EXCEPT !.secure = secure, !.at = IF secure THEN "wallet" ELSE "create-swarm"]
  BY DEF Launch
<1>2. /\ run' \in Run /\ run'.injected = NoSeeds /\ run'.use = NoSeeds
      /\ run'.secure = secure /\ run'.at = IF secure THEN "wallet" ELSE "create-swarm"
  BY <1>1, OffIs DEF Run, Stage
<1>3. Stages'
  BY <1>2, Kinds DEF Stages
<1> QED
  BY <1>2, <1>3, RunReset DEF Launch

LEMMA ThrowsKeeps == \A k \in Kind : IInv /\ KeychainThrows(k) => IInv'
<1> SUFFICES ASSUME IInv, NEW k \in Kind, KeychainThrows(k) PROVE IInv'
  OBVIOUS
<1>1. run \in Run
  BY Fields DEF IInv
<1>2. run' = [run EXCEPT !.secure = FALSE, !.injected = NoSeeds, !.at = "create-swarm"]
  BY DEF KeychainThrows
<1>3. /\ run' \in Run /\ run'.injected = NoSeeds /\ run'.use = run.use
      /\ run'.secure = FALSE /\ run'.at = "create-swarm"
  BY <1>1, <1>2, OffIs DEF Run, Stage
<1>4. run.use = NoSeeds
  BY Kinds DEF IInv, Stages, KeychainThrows
<1>5. Stages'
  BY <1>3, Kinds DEF Stages
<1> QED
  BY <1>3, <1>4, <1>5, RunReset DEF KeychainThrows

\* What a step of kind k leaves alone is the other kind's.
LEMMA OtherKind ==
  ASSUME CustodyTypeOK, Roots, NEW k \in Kind, NEW j \in Kind \ {k}, j \notin history.spoiled,
         history'.root[j] = history.root[j], shell' = shell,
         disk'.blob[j] = disk.blob[j],
         \A f \in Plain : disk'.file[f] # disk.file[f] => f \in {seedFile(k), plainFile(k)},
         run'.injected[j] = run.injected[j], run'.use[j] = run.use[j],
         run'.secure = run.secure
  PROVE  Rooted1(j)'
<1>1. disk'.file[seedFile(j)] = disk.file[seedFile(j)]
      /\ disk'.file[plainFile(j)] = disk.file[plainFile(j)]
  BY Kinds
<1> QED
  BY <1>1, SameRoots

LEMMA DecryptKeeps == \A k \in Kind : IInv /\ Decrypt(k) => IInv'
<1> SUFFICES ASSUME IInv, NEW k \in Kind, Decrypt(k) PROVE IInv'
  OBVIOUS
<1> DEFINE inj == [run.injected EXCEPT ![k] = disk.blob[k]]
<1>1. /\ run.at = Resolving(k) /\ disk.blob[k] \in Seed /\ UNCHANGED <<shell, disk, history>>
      /\ run' = [run EXCEPT !.injected = inj, !.at = After(k)]
  BY Fields DEF Decrypt, Readable, IInv, Run
<1>2. inj \in [Kind -> Seed \cup {None}] /\ inj[k] = disk.blob[k]
      /\ \A j \in Kind \ {k} : inj[j] = run.injected[j]
  BY <1>1, Fields DEF IInv
<1> HIDE DEF inj
<1>3. /\ run' \in Run /\ run'.injected = inj /\ run'.use = run.use /\ run'.secure = run.secure
      /\ run'.at = After(k)
  BY <1>1, <1>2, Fields, Kinds DEF IInv, Run
<1>4. CustodyTypeOK'
  BY <1>1, <1>3 DEF IInv, CustodyTypeOK, Run
<1>5. Stages'
  BY <1>1, <1>2, <1>3, Kinds, Seeds DEF IInv, Stages
<1>6. ASSUME k \notin history.spoiled PROVE Rooted1(k)'
  BY <1>1, <1>2, <1>3, <1>6 DEF IInv, Roots, Rooted1, Readable, side
<1>7. ASSUME NEW j \in Kind \ {k}, j \notin history.spoiled PROVE Rooted1(j)'
  BY <1>1, <1>2, <1>3, <1>7, OtherKind DEF IInv
<1> QED
  BY <1>1, <1>4, <1>5, <1>6, <1>7 DEF IInv, Roots

LEMMA AdoptedIs ==
  ASSUME CustodyTypeOK, NEW k \in Kind
  PROVE  Adopted(k) \in Seed /\ FileSeed(k) \in Seed
BY SeedToDraw, Fields, Kinds DEF Adopted, FileSeed, None

LEMMA LostIs ==
  ASSUME CustodyTypeOK, NEW k \in Kind
  PROVE  /\ Lost(k) \in History /\ history.spoiled \subseteq Lost(k).spoiled
         /\ Lost(k).spoiled \subseteq history.spoiled \cup {k}
         /\ \A j \in Kind \ {k} : Lost(k).root[j] = history.root[j]
         /\ k \notin Lost(k).spoiled => ~Readable(k) /\ Lost(k) = history
<1>1. /\ Spoiled(history, k) \in History /\ Spoiled(history, k).spoiled = history.spoiled \cup {k}
      /\ \A j \in Kind \ {k} : Spoiled(history, k).root[j] = history.root[j]
  BY Fields, SpoiledIs
<1>2. history \in History /\ history.spoiled \subseteq Kind
  BY Fields
<1>3. CASE Readable(k)
  BY <1>1, <1>2, <1>3 DEF Lost
<1>4. CASE ~Readable(k)
  BY <1>1, <1>2, <1>4 DEF Lost
<1> QED
  BY <1>3, <1>4

LEMMA StoreKeeps == \A k \in Kind : IInv /\ StoreBlob(k) => IInv'
<1> SUFFICES ASSUME IInv, NEW k \in Kind, StoreBlob(k) PROVE IInv'
  OBVIOUS
<1> DEFINE seed == Adopted(k)
           inj == [run.injected EXCEPT ![k] = seed]
           blob == [disk.blob EXCEPT ![k] = seed]
           stage == IF seed = Drawn THEN After(k) ELSE Removing(k)
<1>1. /\ run.at = Resolving(k) /\ UNCHANGED shell
      /\ run' = [run EXCEPT !.injected = inj, !.at = stage]
      /\ disk' = [disk EXCEPT !.blob = blob]
      /\ history' = Rooted(Lost(k), k, seed)
  BY Fields DEF StoreBlob, NoBlob, IInv, Run, Disk
<1>2. seed \in Seed
  BY AdoptedIs DEF IInv
<1>s. seed = IF shell = "desktop" /\ disk.file[plainFile(k)] # None
             THEN disk.file[plainFile(k)] ELSE Drawn
  BY DEF Adopted
<1> HIDE DEF seed
<1>3. inj \in [Kind -> Seed \cup {None}] /\ inj[k] = seed
      /\ \A j \in Kind \ {k} : inj[j] = run.injected[j]
  BY <1>2, Fields DEF IInv
<1>4. blob \in [Kind -> Seed \cup {None, Torn}] /\ blob[k] = seed
      /\ \A j \in Kind \ {k} : blob[j] = disk.blob[j]
  BY <1>2, Fields DEF IInv
<1>5. stage \in Stage /\ (stage = After(k) \/ stage = Removing(k))
  BY Kinds
<1> HIDE DEF inj, blob, stage
<1>6. /\ run' \in Run /\ run'.injected = inj /\ run'.use = run.use /\ run'.secure = run.secure
      /\ run'.at = stage
  BY <1>1, <1>3, <1>5, Fields DEF IInv, Run
<1>7. disk' \in Disk /\ disk'.blob = blob /\ disk'.file = disk.file
  BY <1>1, <1>4, Fields DEF IInv, Disk
<1> DEFINE h == Lost(k)
           first == IF side = "keychain" /\ shell = "desktop" /\ seedFile(k) = plainFile(k)
                         /\ h.root[k]["file"] # None
                    THEN h.root[k]["file"] ELSE seed
<1>8. /\ h \in History /\ history.spoiled \subseteq h.spoiled
      /\ h.spoiled \subseteq history.spoiled \cup {k}
      /\ \A j \in Kind \ {k} : h.root[j] = history.root[j]
      /\ k \notin h.spoiled => ~Readable(k) /\ h = history
  BY LostIs DEF IInv
<1> HIDE DEF h
<1>9. /\ history' \in History /\ history'.spoiled = h.spoiled
      /\ \A j \in Kind \ {k} : history'.root[j] = h.root[j]
      /\ k \notin h.spoiled =>
           /\ history'.root[k][side] = IF h.root[k][side] # None THEN h.root[k][side] ELSE first
           /\ \A s \in Side \ {side} : history'.root[k][s] = h.root[k][s]
  <2>1. history' = Rooted(h, k, seed)
    BY <1>1 DEF h
  <2> QED
    BY <1>2, <1>8, <2>1, RootedIs
<1>10. CustodyTypeOK'
  BY <1>1, <1>6, <1>7, <1>9, Fields DEF IInv, CustodyTypeOK, Run, Disk, History
<1>11. Stages'
  BY <1>1, <1>2, <1>3, <1>4, <1>5, <1>6, <1>7, Kinds, Seeds DEF IInv, Stages, Readable
<1>12. ASSUME k \notin history'.spoiled PROVE Rooted1(k)'
  <2>1. k \notin history.spoiled /\ ~Readable(k) /\ h = history
    BY <1>8, <1>9, <1>12
  <2>2. run.secure /\ side = "keychain" /\ run.use[k] = None
    BY <1>1, Kinds DEF IInv, Stages, NoSeeds, side
  <2>3. Rooted1(k)
    BY <2>1 DEF IInv, Roots
  <2>4. history'.root[k]["file"] = history.root[k]["file"]
    BY <1>9, <1>12, <2>1, <2>2, Kinds
  <2>5. history'.root[k]["keychain"] = seed
    <3>1. CASE history.root[k]["keychain"] # None
      <4>1. shell = "desktop" /\ history.root[k]["keychain"] = disk.file[plainFile(k)]
        BY <2>1, <2>3, <3>1 DEF Rooted1
      <4> QED
        BY <1>9, <1>12, <1>s, <2>1, <2>2, <3>1, <4>1
    <3>2. CASE history.root[k]["keychain"] = None
      <4>1. disk.file[seedFile(k)] = history.root[k]["file"]
        BY <2>3 DEF Rooted1
      <4> QED
        BY <1>9, <1>12, <1>s, <2>1, <2>2, <3>2, <4>1
    <3> QED
      BY <3>1, <3>2
  <2> QED
    BY <1>1, <1>2, <1>3, <1>4, <1>6, <1>7, <2>2, <2>3, <2>4, <2>5, Seeds DEF Rooted1, Readable
<1>13. ASSUME NEW j \in Kind \ {k}, j \notin history'.spoiled PROVE Rooted1(j)'
  BY <1>1, <1>3, <1>4, <1>6, <1>7, <1>8, <1>9, <1>13, OtherKind DEF IInv
<1> QED
  BY <1>10, <1>11, <1>12, <1>13 DEF IInv, Roots

LEMMA NotStoredKeeps == \A k \in Kind : IInv /\ BlobNotStored(k) => IInv'
<1> SUFFICES ASSUME IInv, NEW k \in Kind, BlobNotStored(k) PROVE IInv'
  OBVIOUS
<1> DEFINE seed == Adopted(k)
           inj == [run.injected EXCEPT ![k] = seed]
           h == Lost(k)
<1>1. /\ run.at = Resolving(k) /\ UNCHANGED <<shell, disk>>
      /\ run' = [run EXCEPT !.injected = inj, !.at = After(k)]
      /\ history' = Spoiled(h, k)
  BY Fields DEF BlobNotStored, NoBlob, IInv, Run
<1>2. seed \in Seed
  BY AdoptedIs DEF IInv
<1> HIDE DEF seed
<1>3. inj \in [Kind -> Seed \cup {None}] /\ inj[k] = seed
      /\ \A j \in Kind \ {k} : inj[j] = run.injected[j]
  BY <1>2, Fields DEF IInv
<1> HIDE DEF inj
<1>4. /\ run' \in Run /\ run'.injected = inj /\ run'.use = run.use /\ run'.secure = run.secure
      /\ run'.at = After(k)
  BY <1>1, <1>3, Fields, Kinds DEF IInv, Run
<1>5. /\ h \in History /\ history.spoiled \subseteq h.spoiled
      /\ \A j \in Kind \ {k} : h.root[j] = history.root[j]
  BY LostIs DEF IInv
<1> HIDE DEF h
<1>6. /\ history' \in History /\ history'.spoiled = h.spoiled \cup {k}
      /\ \A j \in Kind \ {k} : history'.root[j] = h.root[j]
  BY <1>1, <1>5, SpoiledIs
<1>7. CustodyTypeOK'
  BY <1>1, <1>4, <1>6 DEF IInv, CustodyTypeOK, Run, History
<1>8. Stages'
  BY <1>1, <1>2, <1>3, <1>4, Kinds, Seeds DEF IInv, Stages
<1>9. ASSUME NEW j \in Kind, j \notin history'.spoiled PROVE Rooted1(j)'
  BY <1>1, <1>3, <1>4, <1>5, <1>6, <1>9, OtherKind DEF IInv
<1> QED
  BY <1>7, <1>8, <1>9 DEF IInv, Roots

LEMMA TornKeeps == \A k \in Kind : IInv /\ BlobTorn(k) => IInv'
<1> SUFFICES ASSUME IInv, NEW k \in Kind, BlobTorn(k) PROVE IInv'
  OBVIOUS
<1> DEFINE blob == [disk.blob EXCEPT ![k] = Torn]
           h == Lost(k)
<1>1. /\ UNCHANGED shell /\ run' = Off /\ disk' = [disk EXCEPT !.blob = blob] /\ history' = h
  BY Fields DEF BlobTorn, IInv, Disk
<1>2. blob \in [Kind -> Seed \cup {None, Torn}] /\ blob[k] = Torn
      /\ \A j \in Kind \ {k} : blob[j] = disk.blob[j]
  BY Fields DEF IInv
<1> HIDE DEF blob
<1>3. disk' \in Disk /\ disk'.blob = blob /\ disk'.file = disk.file
  BY <1>1, <1>2, Fields DEF IInv, Disk
<1>4. /\ h \in History /\ history.spoiled \subseteq h.spoiled
      /\ \A j \in Kind \ {k} : h.root[j] = history.root[j]
      /\ k \notin h.spoiled => ~Readable(k) /\ h = history
  BY LostIs DEF IInv
<1> HIDE DEF h
<1>5. CustodyTypeOK'
  BY <1>1, <1>3, <1>4, OffIs DEF IInv, CustodyTypeOK, Run, Disk, History
<1>6. Stages'
  BY <1>1, OffIs, Kinds DEF Stages
<1>7. ASSUME k \notin history'.spoiled PROVE Rooted1(k)'
  <2>1. Rooted1(k) /\ ~Readable(k) /\ history' = history
    BY <1>1, <1>4, <1>7 DEF IInv, Roots
  <2> QED
    BY <1>1, <1>2, <1>3, <2>1, OffIs, Seeds DEF Rooted1, Readable
<1>8. ASSUME NEW j \in Kind \ {k}, j \notin history'.spoiled PROVE Rooted1(j)'
  BY <1>1, <1>2, <1>3, <1>4, <1>8, OffIs, SameRoots DEF IInv
<1> QED
  BY <1>5, <1>6, <1>7, <1>8 DEF IInv, Roots

LEMMA RemoveKeeps == \A k \in Kind : IInv /\ RemovePlain(k) => IInv'
<1> SUFFICES ASSUME IInv, NEW k \in Kind, RemovePlain(k) PROVE IInv'
  OBVIOUS
<1> DEFINE file == [disk.file EXCEPT ![plainFile(k)] = None]
           root == [history.root EXCEPT ![k] = [history.root[k] EXCEPT !["file"] = None]]
<1>1. /\ run.at = Removing(k) /\ UNCHANGED shell /\ run' = [run EXCEPT !.at = After(k)]
      /\ \/ UNCHANGED <<disk, history>>
         \/ /\ disk' = [disk EXCEPT !.file = file]
            /\ history' = IF seedFile(k) = plainFile(k)
                          THEN [history EXCEPT !.root = root] ELSE history
  BY Fields DEF RemovePlain, IInv, Disk, History
<1>2. run' \in Run /\ run'.injected = run.injected /\ run'.use = run.use
      /\ run'.secure = run.secure /\ run'.at = After(k)
  BY <1>1, Fields, Kinds DEF IInv, Run
<1>3. run.secure /\ run.use = NoSeeds /\ Readable(k)
  BY <1>1, Kinds DEF IInv, Stages
<1>4. Stages'
  BY <1>1, <1>2, <1>3, Kinds DEF IInv, Stages
<1>5. CASE UNCHANGED <<disk, history>>
  <2>1. CustodyTypeOK'
    BY <1>1, <1>2, <1>5 DEF IInv, CustodyTypeOK, Run
  <2>2. \A j \in Kind : j \notin history'.spoiled => Rooted1(j)'
    BY <1>1, <1>2, <1>5, SameRoots DEF IInv
  <2> QED
    BY <1>4, <2>1, <2>2 DEF IInv, Roots
<1>6. CASE /\ disk' = [disk EXCEPT !.file = file]
           /\ history' = IF seedFile(k) = plainFile(k)
                         THEN [history EXCEPT !.root = root] ELSE history
  <2>1. file \in [Plain -> Seed \cup {None}] /\ file[plainFile(k)] = None
        /\ \A f \in Plain \ {plainFile(k)} : file[f] = disk.file[f]
    BY Fields, Kinds DEF IInv
  <2>2. /\ root \in [Kind -> [Side -> Seed \cup {None}]] /\ root[k]["file"] = None
        /\ root[k]["keychain"] = history.root[k]["keychain"]
        /\ \A j \in Kind \ {k} : root[j] = history.root[j]
    <3>1. [history.root[k] EXCEPT !["file"] = None] \in [Side -> Seed \cup {None}]
      BY Fields DEF IInv
    <3> QED
      BY <3>1, Fields, Kinds DEF IInv
  <2> HIDE DEF file, root
  <2>3. disk' \in Disk /\ disk'.blob = disk.blob /\ disk'.file = file
    BY <1>6, <2>1, Fields DEF IInv, Disk
  <2>4. /\ history' \in History /\ history'.spoiled = history.spoiled
        /\ history'.root = IF seedFile(k) = plainFile(k) THEN root ELSE history.root
    BY <1>6, <2>2, Fields DEF IInv, History
  <2>5. CustodyTypeOK'
    BY <1>1, <1>2, <2>3, <2>4, Fields DEF IInv, CustodyTypeOK, Run, Disk, History
  <2>6. ASSUME k \notin history'.spoiled PROVE Rooted1(k)'
    <3>1. Rooted1(k)
      BY <2>4, <2>6 DEF IInv, Roots
    <3>2. disk'.file[seedFile(k)] = history'.root[k]["file"]
      <4>1. CASE seedFile(k) = plainFile(k)
        BY <2>1, <2>2, <2>3, <2>4, <4>1
      <4>2. CASE seedFile(k) # plainFile(k)
        BY <2>1, <2>3, <2>4, <3>1, <4>2, Kinds DEF Rooted1
      <4> QED
        BY <4>1, <4>2
    <3>3. history'.root[k]["keychain"] = history.root[k]["keychain"]
      BY <2>2, <2>4
    <3> QED
      BY <1>1, <1>2, <1>3, <2>3, <3>1, <3>2, <3>3 DEF Rooted1, Readable, NoSeeds
  <2>7. ASSUME NEW j \in Kind \ {k}, j \notin history'.spoiled PROVE Rooted1(j)'
    <3>1. \A f \in Plain : disk'.file[f] # disk.file[f] => f \in {seedFile(k), plainFile(k)}
      BY <2>1, <2>3
    <3>2. history'.root[j] = history.root[j]
      BY <2>2, <2>4
    <3> QED
      BY <1>1, <1>2, <2>3, <2>4, <2>7, <3>1, <3>2, OtherKind DEF IInv
  <2> QED
    BY <1>4, <2>5, <2>6, <2>7 DEF IInv, Roots
<1> QED
  BY <1>1, <1>5, <1>6

\* The engine's part: a kind's seed is taken into use.
LEMMA TakesIs ==
  ASSUME IInv, NEW k \in Kind, NEW seed \in Seed \cup {None}, run.at = Creating(k),
         Takes(k, seed)
  PROVE  /\ run' \in Run /\ run'.injected = run.injected /\ run'.secure = run.secure
         /\ run'.at = Created(k) /\ run'.use[k] = seed
         /\ \A j \in Kind \ {k} : run'.use[j] = run.use[j]
<1> DEFINE use == [run.use EXCEPT ![k] = seed]
<1>1. run' = [run EXCEPT !.use = use, !.at = Created(k)]
  BY Fields DEF Takes, IInv, Run
<1>2. use \in [Kind -> Seed \cup {None}] /\ use[k] = seed
      /\ \A j \in Kind \ {k} : use[j] = run.use[j]
  BY Fields DEF IInv
<1> HIDE DEF use
<1>3. run' \in Run /\ run'.injected = run.injected /\ run'.secure = run.secure
      /\ run'.at = Created(k) /\ run'.use = use
  BY <1>1, <1>2, Fields, Kinds DEF IInv, Run
<1> QED
  BY <1>2, <1>3

LEMMA CreatedStages ==
  ASSUME IInv, NEW k \in Kind, run.at = Creating(k), run'.at = Created(k),
         run'.injected = run.injected, run'.secure = run.secure
  PROVE  Stages'
BY Kinds DEF IInv, Stages

LEMMA InjectedKeeps == \A k \in Kind : IInv /\ Injected(k) => IInv'
<1> SUFFICES ASSUME IInv, NEW k \in Kind, Injected(k) PROVE IInv'
  OBVIOUS
<1>1. /\ run.at = Creating(k) /\ run.injected[k] # None /\ UNCHANGED <<shell, disk, history>>
      /\ Takes(k, run.injected[k])
  BY DEF Injected
<1>2. /\ run' \in Run /\ run'.injected = run.injected /\ run'.secure = run.secure
      /\ run'.at = Created(k) /\ run'.use[k] = run.injected[k]
      /\ \A j \in Kind \ {k} : run'.use[j] = run.use[j]
  BY <1>1, TakesIs, Fields DEF IInv
<1>3. CustodyTypeOK'
  BY <1>1, <1>2 DEF IInv, CustodyTypeOK, Run
<1>4. Stages'
  BY <1>1, <1>2, CreatedStages
<1>5. run.secure
  BY <1>1 DEF IInv, Stages, NoSeeds
<1>6. ASSUME k \notin history'.spoiled PROVE Rooted1(k)'
  <2>1. Rooted1(k)
    BY <1>1, <1>6 DEF IInv, Roots
  <2> QED
    BY <1>1, <1>2, <1>5, <2>1 DEF Rooted1, Readable, side
<1>7. ASSUME NEW j \in Kind \ {k}, j \notin history'.spoiled PROVE Rooted1(j)'
  BY <1>1, <1>2, <1>7, OtherKind DEF IInv
<1> QED
  BY <1>1, <1>3, <1>4, <1>6, <1>7 DEF IInv, Roots

LEMMA FromFileKeeps == \A k \in Kind : IInv /\ FromFile(k) => IInv'
<1> SUFFICES ASSUME IInv, NEW k \in Kind, FromFile(k) PROVE IInv'
  OBVIOUS
<1> DEFINE seed == FileSeed(k)
           file == [disk.file EXCEPT ![seedFile(k)] = seed]
           first == IF side = "keychain" /\ shell = "desktop" /\ seedFile(k) = plainFile(k)
                         /\ history.root[k]["file"] # None
                    THEN history.root[k]["file"] ELSE seed
<1>1. /\ run.at = Creating(k) /\ run.injected[k] = None /\ UNCHANGED shell
      /\ Takes(k, seed) /\ disk' = [disk EXCEPT !.file = file]
      /\ history' = Rooted(history, k, seed)
  BY Fields DEF FromFile, IInv, Disk
<1>2. seed \in Seed /\ seed # None
  BY AdoptedIs, Seeds DEF IInv
<1>s. disk.file[seedFile(k)] # None => seed = disk.file[seedFile(k)]
  BY DEF FileSeed
<1> HIDE DEF seed
<1>3. /\ run' \in Run /\ run'.injected = run.injected /\ run'.secure = run.secure
      /\ run'.at = Created(k) /\ run'.use[k] = seed
      /\ \A j \in Kind \ {k} : run'.use[j] = run.use[j]
  BY <1>1, <1>2, TakesIs
<1>4. file \in [Plain -> Seed \cup {None}] /\ file[seedFile(k)] = seed
      /\ \A f \in Plain \ {seedFile(k)} : file[f] = disk.file[f]
  BY <1>2, Fields, Kinds DEF IInv
<1> HIDE DEF file
<1>5. disk' \in Disk /\ disk'.blob = disk.blob /\ disk'.file = file
  BY <1>1, <1>4, Fields DEF IInv, Disk
<1>6. /\ history' \in History /\ history'.spoiled = history.spoiled
      /\ \A j \in Kind \ {k} : history'.root[j] = history.root[j]
      /\ k \notin history.spoiled =>
           /\ history'.root[k][side] = IF history.root[k][side] # None
                                       THEN history.root[k][side] ELSE first
           /\ \A s \in Side \ {side} : history'.root[k][s] = history.root[k][s]
  <2>1. history \in History
    BY Fields DEF IInv
  <2> QED
    BY <1>1, <1>2, <2>1, RootedIs
<1>7. CustodyTypeOK'
  BY <1>1, <1>3, <1>5, <1>6 DEF IInv, CustodyTypeOK, Run, Disk, History
<1>8. Stages'
  BY <1>1, <1>3, CreatedStages
\* Without an injected seed there is no keychain.
<1>9. ~run.secure /\ side = "file"
  <2>1. run.at # "off"
    BY <1>1, Kinds
  <2>2. run.secure => run.injected[k] # None
    BY <1>1, Kinds DEF IInv, Stages
  <2> QED
    BY <1>1, <2>2 DEF side
<1>10. ASSUME k \notin history'.spoiled PROVE Rooted1(k)'
  <2>1. Rooted1(k) /\ k \notin history.spoiled
    BY <1>6, <1>10 DEF IInv, Roots
  <2>2. history'.root[k]["file"] = seed /\ history'.root[k]["keychain"] = history.root[k]["keychain"]
    BY <1>2, <1>6, <1>9, <1>s, <2>1, Kinds DEF Rooted1
  <2>3. ~Readable(k) /\ history.root[k]["keychain"] # None => disk'.file[plainFile(k)] = disk.file[plainFile(k)]
    BY <1>4, <1>5, <2>1, Kinds DEF Rooted1
  <2> QED
    BY <1>1, <1>3, <1>4, <1>5, <1>9, <2>1, <2>2, <2>3 DEF Rooted1, Readable, side
<1>11. ASSUME NEW j \in Kind \ {k}, j \notin history'.spoiled PROVE Rooted1(j)'
  BY <1>1, <1>3, <1>4, <1>5, <1>6, <1>11, OtherKind DEF IInv
<1> QED
  BY <1>7, <1>8, <1>10, <1>11 DEF IInv, Roots

LEMMA NotWrittenKeeps == \A k \in Kind : IInv /\ FileNotWritten(k) => IInv'
<1> SUFFICES ASSUME IInv, NEW k \in Kind, FileNotWritten(k) PROVE IInv'
  OBVIOUS
<1> DEFINE seed == IF k = "swarm" THEN Drawn ELSE None
<1>1. /\ run.at = Creating(k) /\ UNCHANGED <<shell, disk>>
      /\ Takes(k, seed) /\ history' = Spoiled(history, k)
  BY DEF FileNotWritten
<1>2. seed \in Seed \cup {None}
  BY SeedToDraw DEF IInv
<1> HIDE DEF seed
<1>3. /\ run' \in Run /\ run'.injected = run.injected /\ run'.secure = run.secure
      /\ run'.at = Created(k)
      /\ \A j \in Kind \ {k} : run'.use[j] = run.use[j]
  BY <1>1, <1>2, TakesIs
<1>4. /\ history' \in History /\ history'.spoiled = history.spoiled \cup {k}
      /\ \A j \in Kind \ {k} : history'.root[j] = history.root[j]
  BY <1>1, Fields, SpoiledIs DEF IInv
<1>5. CustodyTypeOK'
  BY <1>1, <1>3, <1>4 DEF IInv, CustodyTypeOK, Run, History
<1>6. Stages'
  BY <1>1, <1>3, CreatedStages
<1>7. ASSUME NEW j \in Kind, j \notin history'.spoiled PROVE Rooted1(j)'
  BY <1>1, <1>3, <1>4, <1>7, OtherKind DEF IInv
<1> QED
  BY <1>5, <1>6, <1>7 DEF IInv, Roots

\* The wallet is dropped, to be built again from the same seed.
LEMMA SetMintKeeps == IInv /\ HandleSetMint => IInv'
<1> SUFFICES ASSUME IInv, HandleSetMint PROVE IInv'
  OBVIOUS
<1> DEFINE use == [run.use EXCEPT !["wallet"] = None]
<1>1. /\ run.at \in {"create-wallet", "up"} /\ UNCHANGED <<shell, disk, history>>
      /\ run' = [run EXCEPT !.at = "create-wallet", !.use = use]
  BY Fields DEF HandleSetMint, EngineUp, IInv, Run
<1>2. use \in [Kind -> Seed \cup {None}] /\ \A j \in Kind : use[j] = None \/ use[j] = run.use[j]
  BY Fields DEF IInv
<1> HIDE DEF use
<1>3. /\ run' \in Run /\ run'.injected = run.injected /\ run'.secure = run.secure
      /\ run'.at = "create-wallet" /\ run'.use = use
  BY <1>1, <1>2, Fields DEF IInv, Run, Stage
<1>4. CustodyTypeOK'
  BY <1>1, <1>3 DEF IInv, CustodyTypeOK, Run
<1>5. Stages'
  BY <1>1, <1>3, Kinds DEF IInv, Stages
<1>6. ASSUME NEW j \in Kind, j \notin history'.spoiled PROVE Rooted1(j)'
  BY <1>1, <1>2, <1>3, <1>6, SameRoots DEF IInv
<1> QED
  BY <1>1, <1>4, <1>5, <1>6 DEF IInv, Roots

-----------------------------------------------------------------------------
\* The types of Shell.

Command == [type : {"set-mint"}, mint : Mint] \cup [type : {"fund"}, quote : Topup]
Report == [type : {"wallet"}, mint : Mint] \cup
          [type : {"fund"}, out : {"pending", "minted", "unpaid", "error"}]

Funds == {c \in Command : c.type = "fund"}
Invoices == {r \in Report : r.type = "fund" /\ r.out = "pending"}

\* Where members of M are in s, and how many.
At(s, M) == {i \in DOMAIN s : s[i] \in M}
Count(s, M) == Cardinality(At(s, M))
Quoting(qs) == {q \in Topup : qs[q] = "quoting"}

EngineType == [mint : Mint \cup {NoMint}, want : Mint \cup {NoMint}, reads : SUBSET Mint]
QuotesType == [Topup -> {"none", "quoting", "polling"}]
PanelType == [mint : Mint \cup {NoMint}, show : {"hidden", "loading", "invoice", "error"},
              busy : BOOLEAN, painting : Nat]

\* A run knows the mint its wallet is to be built for.
Typed ==
  /\ mintFile \in Mint \cup {NoMint}
  /\ engine \in EngineType
  /\ run.at # "off" => engine.want \in Mint
  /\ quotes \in QuotesType
  /\ toEngine \in Seq(Command) /\ toHost \in Seq(Report)
  /\ panel \in PanelType
  /\ asked \in [switches : 0 .. MaxSwitches, topups : 0 .. MaxTopups]

\* Every top-up under way was asked for: a command, a quote, an invoice or a code painted.
AskedFor(p, h, qs, e) ==
  p.painting + Count(h, Invoices) + Cardinality(Quoting(qs)) + Count(e, Funds)

ShellInv == Typed /\ AskedFor(panel, toHost, quotes, toEngine) <= asked.topups

\* What is counted is finite, and counts add up along a queue.
LEMMA CountType ==
  ASSUME NEW S, NEW s \in Seq(S), NEW M
  PROVE  IsFiniteSet(At(s, M)) /\ Count(s, M) \in Nat
<1>1. IsFiniteSet(DOMAIN s)
  BY FS_Interval
<1>2. IsFiniteSet(At(s, M))
  BY <1>1, FS_Subset DEF At
<1> QED
  BY <1>2, FS_CardinalityType DEF Count

LEMMA CountAppend ==
  ASSUME NEW S, NEW s \in Seq(S), NEW M, NEW x \in S
  PROVE  Count(Append(s, x), M) = IF x \in M THEN Count(s, M) + 1 ELSE Count(s, M)
<1> DEFINE t == Append(s, x)
<1>1. IsFiniteSet(At(s, M))
  BY CountType
<1>n. Len(s) + 1 \notin At(s, M)
  BY DEF At
<1>2. /\ DOMAIN t = DOMAIN s \cup {Len(s) + 1} /\ t[Len(s) + 1] = x
      /\ \A i \in DOMAIN s : t[i] = s[i]
  OBVIOUS
<1> HIDE DEF t
<1>3. At(t, M) = IF x \in M THEN At(s, M) \cup {Len(s) + 1} ELSE At(s, M)
  BY <1>2 DEF At
<1> QED
  BY <1>1, <1>n, <1>3, FS_AddElement DEF Count, t

LEMMA CountTail ==
  ASSUME NEW S, NEW s \in Seq(S), NEW M, s # << >>
  PROVE  Count(s, M) = IF Head(s) \in M THEN Count(Tail(s), M) + 1 ELSE Count(Tail(s), M)
<1> DEFINE t == Tail(s)
           f == [i \in At(t, M) |-> i + 1]
<1>1. /\ t \in Seq(S) /\ Len(t) = Len(s) - 1 /\ Len(s) \in Nat /\ Len(s) >= 1 /\ Head(s) = s[1]
      /\ DOMAIN s = 1 .. Len(s) /\ DOMAIN t = 1 .. Len(t) /\ \A i \in DOMAIN t : t[i] = s[i + 1]
  OBVIOUS
<1> HIDE DEF t
<1>2. IsFiniteSet(At(t, M)) /\ IsFiniteSet(At(s, M))
  BY <1>1, CountType
<1>3. \A i \in At(t, M) : i \in Nat /\ i >= 1 /\ i + 1 \in At(s, M) \ {1}
  BY <1>1 DEF At
<1>4. \A j \in At(s, M) \ {1} : j - 1 \in At(t, M) /\ j \in Nat /\ (j - 1) + 1 = j
  BY <1>1 DEF At
<1>5. f \in Bijection(At(t, M), At(s, M) \ {1})
  <2>1. f \in Injection(At(t, M), At(s, M) \ {1})
    BY <1>3 DEF Injection, IsInjective
  <2>2. f \in Surjection(At(t, M), At(s, M) \ {1})
    BY <1>3, <1>4 DEF Surjection
  <2> QED
    BY <2>1, <2>2 DEF Bijection
<1>6. Cardinality(At(s, M) \ {1}) = Count(t, M)
  BY <1>2, <1>5, FS_Bijection DEF ExistsBijection, Count
<1>7. 1 \in At(s, M) <=> Head(s) \in M
  BY <1>1 DEF At
<1>8. Count(s, M) \in Nat /\ Count(t, M) \in Nat
  BY <1>1, CountType
<1>9. Cardinality(At(s, M) \ {1}) = IF 1 \in At(s, M) THEN Count(s, M) - 1 ELSE Count(s, M)
  BY <1>2, FS_RemoveElement DEF Count
<1> QED
  BY <1>6, <1>7, <1>8, <1>9 DEF t

LEMMA CountNone ==
  ASSUME NEW M
  PROVE  Count(<< >>, M) = 0
<1>1. At(<< >>, M) = {}
  BY DEF At
<1> QED
  BY <1>1, FS_EmptySet DEF Count

\* Quotes that are made, answered and forgotten.
LEMMA QuotingType ==
  ASSUME NEW qs
  PROVE  IsFiniteSet(Quoting(qs)) /\ Cardinality(Quoting(qs)) \in Nat
<1>1. IsFiniteSet(Topup)
  BY FS_Interval, ShellAssumption DEF Topup
<1>2. IsFiniteSet(Quoting(qs))
  BY <1>1, FS_Subset DEF Quoting
<1> QED
  BY <1>2, FS_CardinalityType

LEMMA QuotingSet ==
  ASSUME NEW qs \in QuotesType, NEW q \in Topup, NEW st \in {"none", "quoting", "polling"}
  PROVE  LET n == Cardinality(Quoting(qs))
             m == Cardinality(Quoting([qs EXCEPT ![q] = st]))
         IN  /\ [qs EXCEPT ![q] = st] \in QuotesType
             /\ st = "quoting" => m <= n + 1
             /\ st # "quoting" => m = IF qs[q] = "quoting" THEN n - 1 ELSE n
<1>1. [qs EXCEPT ![q] = st] \in QuotesType
  BY DEF QuotesType
<1>2. CASE st = "quoting"
  <2>1. Quoting([qs EXCEPT ![q] = st]) = Quoting(qs) \cup {q}
    BY <1>2 DEF Quoting, QuotesType
  <2>2. IsFiniteSet(Quoting(qs)) /\ Cardinality(Quoting(qs)) \in Nat
    BY QuotingType
  <2> DEFINE n == Cardinality(Quoting(qs))
             m == Cardinality(Quoting(qs) \cup {q})
  <2>4. m = IF q \in Quoting(qs) THEN n ELSE n + 1
    BY <2>2, FS_AddElement
  <2> HIDE DEF m, n
  <2>5. m <= n + 1
    BY <2>2, <2>4 DEF n
  <2>3. Cardinality(Quoting(qs) \cup {q}) <= Cardinality(Quoting(qs)) + 1
    BY <2>5 DEF m, n
  <2> QED
    BY <1>1, <1>2, <2>1, <2>3
<1>3. CASE st # "quoting"
  <2>1. Quoting([qs EXCEPT ![q] = st]) = Quoting(qs) \ {q}
    BY <1>3 DEF Quoting, QuotesType
  <2>2. q \in Quoting(qs) <=> qs[q] = "quoting"
    BY DEF Quoting
  <2>3. IsFiniteSet(Quoting(qs)) /\ Cardinality(Quoting(qs)) \in Nat
    BY QuotingType
  <2>4. Cardinality(Quoting(qs) \ {q}) =
          IF q \in Quoting(qs) THEN Cardinality(Quoting(qs)) - 1 ELSE Cardinality(Quoting(qs))
    BY <2>3, FS_RemoveElement
  <2> QED
    BY <1>1, <1>3, <2>1, <2>2, <2>4
<1> QED
  BY <1>2, <1>3

\* The steps of the run: a start knows which mint to build for, and an end forgets all.
LEMMA AskedForType ==
  ASSUME Typed
  PROVE  /\ AskedFor(panel, toHost, quotes, toEngine) \in Nat
         /\ Count(toHost, Invoices) \in Nat /\ Count(toEngine, Funds) \in Nat
         /\ Cardinality(Quoting(quotes)) \in Nat /\ panel.painting \in Nat
         /\ asked.topups \in 0 .. MaxTopups /\ MaxTopups \in Nat
<1>1. Count(toHost, Invoices) \in Nat /\ Count(toEngine, Funds) \in Nat
  BY CountType DEF Typed
<1>2. panel.painting \in Nat /\ asked.topups \in 0 .. MaxTopups /\ MaxTopups \in Nat
  BY ShellAssumption DEF Typed, PanelType
<1> QED
  BY <1>1, <1>2, QuotingType DEF AskedFor

LEMMA NothingAsked ==
  /\ NoPanel \in PanelType /\ NoQuotes \in QuotesType /\ NoEngine \in EngineType
  /\ AskedFor(NoPanel, << >>, NoQuotes, << >>) = 0
<1>1. Quoting(NoQuotes) = {}
  BY DEF Quoting, NoQuotes
<1>2. NoPanel \in PanelType /\ NoPanel.painting = 0
  BY DEF NoPanel, PanelType
<1>3. Count(<< >>, Invoices) = 0 /\ Count(<< >>, Funds) = 0
  BY CountNone
<1>4. Cardinality(Quoting(NoQuotes)) = 0
  BY <1>1, FS_EmptySet
<1>5. NoQuotes \in QuotesType /\ NoEngine \in EngineType
  BY DEF NoQuotes, QuotesType, NoEngine, EngineType
<1> QED
  BY <1>2, <1>3, <1>4, <1>5 DEF AskedFor

LEMMA StartsShell == ShellInv /\ Starts => ShellInv'
<1> SUFFICES ASSUME ShellInv, Starts PROVE ShellInv'
  OBVIOUS
<1>1. engine' = [NoEngine EXCEPT !.want = IF mintFile = NoMint THEN DefaultMint ELSE mintFile]
  BY DEF Starts
<1>2. (IF mintFile = NoMint THEN DefaultMint ELSE mintFile) \in Mint
  BY ShellAssumption DEF ShellInv, Typed
<1>3. engine' \in EngineType /\ engine'.want \in Mint
  BY <1>1, <1>2 DEF NoEngine, EngineType
<1> QED
  BY <1>3 DEF ShellInv, Typed, Starts

\* Only a start and a switch of the mint turn a run on.
LEMMA StartStepAt ==
  ASSUME StartStep, CustodyTypeOK
  PROVE  run.at # "off"
BY DEF StartStep, Decrypt, StoreBlob, NoBlob, BlobNotStored, BlobTorn, RemovePlain,
       KeychainThrows, Injected, FromFile, FileNotWritten, Resolving, Removing, Creating

LEMMA ReportedType ==
  ASSUME Typed, NEW m \in Mint
  PROVE  Reported(m) \in EngineType /\ Reported(m).want = engine.want
BY DEF Reported, Typed, EngineType

LEMMA PushedType ==
  ASSUME Typed
  PROVE  Pushed \in EngineType /\ Pushed.want = engine.want
<1>1. engine.mint = NoMint \/ engine.mint \in Mint
  BY DEF Typed, EngineType
<1> QED
  BY <1>1, ReportedType DEF Pushed, Typed

LEMMA ProgressShell == CustodyTypeOK /\ ShellInv /\ Progress => ShellInv'
<1> SUFFICES ASSUME CustodyTypeOK, ShellInv, Progress PROVE ShellInv'
  OBVIOUS
<1>1. Typed /\ engine.want \in Mint
  BY StartStepAt DEF Progress, ShellInv, Typed
<1>2. engine' \in EngineType /\ (run'.at # "off" => engine'.want \in Mint)
  BY <1>1, NothingAsked, ReportedType DEF Progress, Typed
<1> QED
  BY <1>2 DEF ShellInv, Typed, Progress

LEMMA EndsShell == ShellInv /\ Ends => ShellInv'
<1> SUFFICES ASSUME ShellInv, Ends PROVE ShellInv'
  OBVIOUS
<1>1. /\ engine' = NoEngine /\ quotes' = NoQuotes /\ toEngine' = << >> /\ toHost' = << >>
      /\ panel' = NoPanel /\ UNCHANGED <<mintFile, asked>> /\ run' = Off
  BY DEF Ends, Killed
<1>2. Typed'
  BY <1>1, NothingAsked, OffIs DEF ShellInv, Typed
<1>3. asked'.topups \in 0 .. MaxTopups /\ MaxTopups \in Nat
  BY <1>1, AskedForType DEF ShellInv
<1> QED
  BY <1>1, <1>2, <1>3, NothingAsked DEF ShellInv

\* The steps of the engine.
LEMMA Messages ==
  /\ \A m \in Mint : /\ WalletMessage(m) \in Report /\ WalletMessage(m) \notin Invoices
                     /\ SetMint(m) \in Command /\ SetMint(m) \notin Funds
  /\ \A out \in {"pending", "minted", "unpaid", "error"} :
       FundResult(out) \in Report /\ (FundResult(out) \in Invoices <=> out = "pending")
  /\ \A q \in Topup : Fund(q) \in Command /\ Fund(q) \in Funds
  /\ \A c \in Command : /\ c.type = "set-mint" => c.mint \in Mint /\ c \notin Funds
                        /\ c.type = "fund" => c.quote \in Topup /\ c \in Funds
  /\ \A r \in Report :
       /\ r.type = "wallet" => r.mint \in Mint /\ r \notin Invoices
       /\ r.type = "fund" => /\ r.out \in {"pending", "minted", "unpaid", "error"}
                             /\ r \in Invoices <=> r.out = "pending"
BY DEF WalletMessage, SetMint, FundResult, Fund, Report, Command, Funds, Invoices

LEMMA HeadTail ==
  ASSUME NEW S, NEW s \in Seq(S), s # << >>
  PROVE  Head(s) \in S /\ Tail(s) \in Seq(S)
OBVIOUS

LEMMA SetMintShell == ShellInv /\ HandleSetMint => ShellInv'
<1> SUFFICES ASSUME ShellInv, HandleSetMint PROVE ShellInv'
  OBVIOUS
<1> DEFINE c == Head(toEngine)
<1>1. /\ c \in Command /\ c.type = "set-mint" /\ toEngine # << >>
      /\ toEngine' \in Seq(Command) /\ toEngine' = Tail(toEngine)
  BY HeadTail DEF HandleSetMint, ShellInv, Typed
<1>2. engine' \in EngineType /\ engine'.want \in Mint
  BY <1>1, Messages DEF HandleSetMint, ShellInv, Typed, EngineType
<1>3. Count(toEngine', Funds) = Count(toEngine, Funds)
  BY <1>1, Messages, CountTail DEF ShellInv, Typed
<1>4. Typed'
  BY <1>1, <1>2 DEF HandleSetMint, ShellInv, Typed
<1> QED
  BY <1>3, <1>4 DEF HandleSetMint, ShellInv, AskedFor

LEMMA FundShell == ShellInv /\ HandleFund => ShellInv'
<1> SUFFICES ASSUME ShellInv, HandleFund PROVE ShellInv'
  OBVIOUS
<1> DEFINE c == Head(toEngine)
<1>t. Typed
  BY DEF ShellInv
<1>1. /\ c \in Command /\ c.type = "fund" /\ toEngine # << >>
      /\ toEngine' \in Seq(Command) /\ toEngine' = Tail(toEngine)
  BY <1>t, HeadTail DEF HandleFund, Typed
<1>2. Count(toEngine, Funds) = Count(toEngine', Funds) + 1 /\ Count(toEngine', Funds) \in Nat
  BY <1>1, <1>t, Messages, CountTail, CountType DEF Typed
<1>3. c.quote \in Topup
  BY <1>1, Messages
<1>4. UNCHANGED <<run, mintFile, engine, panel, asked>>
  BY DEF HandleFund, custodyVars
<1>5. CASE Paying
  <2>1. quotes' = [quotes EXCEPT ![c.quote] = "quoting"] /\ toHost' = toHost
    BY <1>5 DEF HandleFund
  <2>2. quotes' \in QuotesType /\ Cardinality(Quoting(quotes')) <= Cardinality(Quoting(quotes)) + 1
    BY <1>3, <1>t, <2>1, QuotingSet DEF Typed
  <2>3. Typed'
    BY <1>1, <1>4, <1>t, <2>1, <2>2 DEF Typed
  <2>4. Cardinality(Quoting(quotes')) \in Nat
    BY QuotingType
  <2> QED
    BY <1>2, <1>4, <1>t, <2>1, <2>2, <2>3, <2>4, AskedForType DEF ShellInv, AskedFor
<1>6. CASE ~Paying
  <2>1. quotes' = quotes /\ toHost' = Append(toHost, FundResult("error"))
    BY <1>6 DEF HandleFund
  <2>2. FundResult("error") \in Report /\ FundResult("error") \notin Invoices
    BY Messages
  <2>3. Count(toHost', Invoices) = Count(toHost, Invoices) /\ toHost' \in Seq(Report)
    BY <1>t, <2>1, <2>2, CountAppend DEF Typed
  <2>4. Typed'
    BY <1>1, <1>4, <1>t, <2>1, <2>3 DEF Typed
  <2> QED
    BY <1>2, <1>4, <1>t, <2>1, <2>3, <2>4, AskedForType DEF ShellInv, AskedFor
<1> QED
  BY <1>5, <1>6

LEMMA InvoiceShell == \A q \in Topup : ShellInv /\ Invoice(q) => ShellInv'
<1> SUFFICES ASSUME ShellInv, NEW q \in Topup, Invoice(q) PROVE ShellInv'
  OBVIOUS
<1>t. Typed
  BY DEF ShellInv
<1>1. /\ quotes[q] = "quoting" /\ quotes' = [quotes EXCEPT ![q] = "polling"]
      /\ toHost' = Append(toHost, FundResult("pending"))
      /\ UNCHANGED <<run, mintFile, engine, toEngine, panel, asked>>
  BY DEF Invoice, custodyVars
<1>2. /\ quotes' \in QuotesType
      /\ Cardinality(Quoting(quotes')) = Cardinality(Quoting(quotes)) - 1
  BY <1>1, <1>t, QuotingSet DEF Typed
<1>3. Count(toHost', Invoices) = Count(toHost, Invoices) + 1 /\ toHost' \in Seq(Report)
  BY <1>1, <1>t, Messages, CountAppend DEF Typed
<1>4. Typed'
  BY <1>1, <1>2, <1>3, <1>t DEF Typed
<1> QED
  BY <1>1, <1>2, <1>3, <1>4, <1>t, AskedForType DEF ShellInv, AskedFor

LEMMA FundEndsShell == \A q \in Topup : ShellInv /\ FundEnds(q) => ShellInv'
<1> SUFFICES ASSUME ShellInv, NEW q \in Topup, FundEnds(q) PROVE ShellInv'
  OBVIOUS
<1>t. Typed
  BY DEF ShellInv
<1>1. PICK out \in {"minted", "unpaid", "error"} : toHost' = Append(toHost, FundResult(out))
  BY DEF FundEnds
<1>2. /\ quotes' = [quotes EXCEPT ![q] = "none"]
      /\ engine' \in {engine, Pushed}
      /\ UNCHANGED <<run, mintFile, toEngine, panel, asked>>
  BY DEF FundEnds, custodyVars
<1>3. quotes' \in QuotesType
  BY <1>2, <1>t, QuotingSet DEF Typed
<1>4. Cardinality(Quoting(quotes')) <= Cardinality(Quoting(quotes))
  <2>1. Cardinality(Quoting(quotes')) =
          IF quotes[q] = "quoting" THEN Cardinality(Quoting(quotes)) - 1
                                   ELSE Cardinality(Quoting(quotes))
    BY <1>2, <1>t, QuotingSet DEF Typed
  <2> QED
    BY <2>1, QuotingType
<1>5. Count(toHost', Invoices) = Count(toHost, Invoices) /\ toHost' \in Seq(Report)
  BY <1>1, <1>t, Messages, CountAppend DEF Typed
<1>6. Typed'
  BY <1>2, <1>3, <1>5, <1>t, PushedType DEF Typed
<1>7. Cardinality(Quoting(quotes')) \in Nat
  BY QuotingType
<1> QED
  BY <1>2, <1>4, <1>5, <1>6, <1>7, <1>t, AskedForType DEF ShellInv, AskedFor

LEMMA BalanceShell ==
  ShellInv /\ (BalancePoll \/ \E m \in Mint : BalanceRead(m)) => ShellInv'
<1> SUFFICES ASSUME ShellInv, BalancePoll \/ \E m \in Mint : BalanceRead(m) PROVE ShellInv'
  OBVIOUS
<1>t. Typed
  BY DEF ShellInv
<1>1. CASE BalancePoll
  <2>1. Typed'
    BY <1>1, <1>t, PushedType DEF BalancePoll, Typed, custodyVars
  <2> QED
    BY <1>1, <2>1 DEF ShellInv, BalancePoll, AskedFor
<1>2. ASSUME NEW m \in Mint, BalanceRead(m) PROVE ShellInv'
  <2>1. engine' \in EngineType /\ engine'.want = engine.want
    BY <1>2, <1>t DEF BalanceRead, Typed, EngineType
  <2>2. Count(toHost', Invoices) = Count(toHost, Invoices) /\ toHost' \in Seq(Report)
    BY <1>2, <1>t, Messages, CountAppend DEF BalanceRead, Typed
  <2>3. Typed'
    BY <1>2, <1>t, <2>1, <2>2 DEF BalanceRead, Typed, custodyVars
  <2> QED
    BY <1>2, <2>2, <2>3 DEF ShellInv, BalanceRead, AskedFor
<1> QED
  BY <1>1, <1>2

\* The steps of the UI.
LEMMA HandleWalletShell == ShellInv /\ HandleWallet => ShellInv'
<1> SUFFICES ASSUME ShellInv, HandleWallet PROVE ShellInv'
  OBVIOUS
<1> DEFINE r == Head(toHost)
<1>t. Typed
  BY DEF ShellInv
<1>1. /\ r \in Report /\ r.type = "wallet" /\ toHost # << >>
      /\ toHost' \in Seq(Report) /\ toHost' = Tail(toHost)
  BY <1>t, HeadTail DEF HandleWallet, Typed
<1>2. r.mint \in Mint /\ r \notin Invoices
  BY <1>1, Messages
<1>3. Count(toHost', Invoices) = Count(toHost, Invoices)
  BY <1>1, <1>2, <1>t, CountTail DEF Typed
<1>4. /\ mintFile' = r.mint /\ panel' = [panel EXCEPT !.mint = r.mint, !.busy = FALSE]
      /\ UNCHANGED <<run, engine, quotes, toEngine, asked>>
  BY DEF HandleWallet, Keeps, custodyVars
<1>5. panel' \in PanelType /\ panel'.painting = panel.painting
  BY <1>2, <1>4, <1>t DEF Typed, PanelType
<1>6. Typed'
  BY <1>1, <1>2, <1>4, <1>5, <1>t DEF Typed
<1> QED
  BY <1>3, <1>4, <1>5, <1>6 DEF ShellInv, AskedFor

LEMMA HandleFundResultShell == ShellInv /\ HandleFundResult => ShellInv'
<1> SUFFICES ASSUME ShellInv, HandleFundResult PROVE ShellInv'
  OBVIOUS
<1> DEFINE r == Head(toHost)
<1>t. Typed
  BY DEF ShellInv
<1>1. /\ r \in Report /\ r.type = "fund" /\ toHost # << >>
      /\ toHost' \in Seq(Report) /\ toHost' = Tail(toHost)
  BY <1>t, HeadTail DEF HandleFundResult, Typed
<1>2. r.out \in {"pending", "minted", "unpaid", "error"} /\ (r \in Invoices <=> r.out = "pending")
  BY <1>1, Messages
<1>3. /\ Count(toHost, Invoices) =
           IF r.out = "pending" THEN Count(toHost', Invoices) + 1 ELSE Count(toHost', Invoices)
      /\ Count(toHost', Invoices) \in Nat
  BY <1>1, <1>2, <1>t, CountTail, CountType DEF Typed
<1>4. /\ panel' = CASE r.out = "pending" /\ AutoPays -> panel
                    [] r.out = "pending" /\ ~AutoPays ->
                         [panel EXCEPT !.busy = FALSE, !.painting = @ + 1]
                    [] r.out = "minted" -> HideTopup([panel EXCEPT !.busy = FALSE])
                    [] OTHER -> [panel EXCEPT !.busy = FALSE, !.show = "error"]
      /\ UNCHANGED <<run, mintFile, engine, quotes, toEngine, asked>>
  BY DEF HandleFundResult, custodyVars
<1>5. panel \in PanelType
  BY <1>t DEF Typed
<1>6. /\ panel' \in PanelType
      /\ r.out = "pending" => panel'.painting <= panel.painting + 1
      /\ r.out # "pending" => panel'.painting = panel.painting
  <2>1. CASE r.out = "pending"
    <3>1. panel.painting \in Nat
      BY <1>5 DEF PanelType
    <3>2. CASE AutoPays
      BY <1>4, <1>5, <2>1, <3>1, <3>2
    <3>3. CASE ~AutoPays
      <4> DEFINE n == panel.painting + 1
      <4>1. panel' = [panel EXCEPT !.busy = FALSE, !.painting = n]
        BY <1>4, <2>1, <3>3
      <4>2. n \in Nat
        BY <3>1
      <4> HIDE DEF n
      <4>3. panel' \in PanelType /\ panel'.painting = n
        BY <1>5, <4>1, <4>2 DEF PanelType
      <4> QED
        BY <2>1, <3>1, <4>3 DEF n
    <3> QED
      BY <3>2, <3>3
  <2>2. CASE r.out = "minted"
    <3>1. [panel EXCEPT !.busy = FALSE] \in PanelType
          /\ [panel EXCEPT !.busy = FALSE].painting = panel.painting
      BY <1>5 DEF PanelType
    <3>2. \A p \in PanelType : HideTopup(p) \in PanelType /\ HideTopup(p).painting = p.painting
      BY DEF HideTopup, PanelType
    <3>3. panel' = HideTopup([panel EXCEPT !.busy = FALSE])
      BY <1>4, <2>2
    <3> QED
      BY <2>2, <3>1, <3>2, <3>3
  <2>3. CASE r.out \in {"unpaid", "error"}
    BY <1>4, <1>5, <2>3 DEF PanelType
  <2> QED
    BY <1>2, <2>1, <2>2, <2>3
<1>7. Typed'
  BY <1>1, <1>4, <1>6, <1>t DEF Typed
<1>8. panel'.painting \in Nat
  BY <1>6 DEF PanelType
<1> QED
  BY <1>2, <1>3, <1>4, <1>6, <1>7, <1>8, <1>t, AskedForType DEF ShellInv, AskedFor

LEMMA PanelShell == ShellInv /\ (Painted \/ Dismiss) => ShellInv'
<1> SUFFICES ASSUME ShellInv, Painted \/ Dismiss PROVE ShellInv'
  OBVIOUS
<1>t. Typed /\ panel \in PanelType
  BY DEF ShellInv, Typed
<1>1. panel' \in PanelType /\ panel'.painting <= panel.painting
  <2>1. CASE Painted
    <3>1. PICK show \in {"invoice", "hidden"} :
            panel' = [panel EXCEPT !.painting = panel.painting - 1, !.show = show]
      BY <2>1 DEF Painted
    <3>2. panel.painting \in Nat /\ panel.painting - 1 \in Nat
      BY <1>t, <2>1 DEF Painted, PanelType
    <3>3. panel' \in PanelType /\ panel'.painting = panel.painting - 1
      BY <1>t, <3>1, <3>2 DEF PanelType
    <3> QED
      BY <3>2, <3>3
  <2>2. CASE Dismiss
    <3>1. panel' \in PanelType /\ panel'.painting = panel.painting
      BY <1>t, <2>2 DEF Dismiss, HideTopup, PanelType
    <3> QED
      BY <1>t, <3>1 DEF PanelType
  <2> QED
    BY <2>1, <2>2
<1>2. UNCHANGED <<run, mintFile, engine, quotes, toEngine, toHost, asked>>
  BY DEF Painted, Dismiss, custodyVars
<1>3. Typed'
  BY <1>t, <1>1, <1>2 DEF Typed
<1>4. panel'.painting \in Nat
  BY <1>1 DEF PanelType
<1> QED
  BY <1>1, <1>2, <1>3, <1>4, <1>t, AskedForType DEF ShellInv, AskedFor

LEMMA PickMintShell == \A m \in Mint : ShellInv /\ PickMint(m) => ShellInv'
<1> SUFFICES ASSUME ShellInv, NEW m \in Mint, PickMint(m) PROVE ShellInv'
  OBVIOUS
<1>t. Typed /\ panel \in PanelType
  BY DEF ShellInv, Typed
<1>1. panel' \in PanelType /\ panel'.painting = panel.painting
  BY <1>t DEF PickMint, HideTopup, PanelType
<1>2. Count(toEngine', Funds) = Count(toEngine, Funds) /\ toEngine' \in Seq(Command)
  BY <1>t, Messages, CountAppend DEF PickMint, Typed
<1>3. /\ asked' \in [switches : 0 .. MaxSwitches, topups : 0 .. MaxTopups]
      /\ asked'.topups = asked.topups
  BY <1>t, ShellAssumption DEF PickMint, Typed
<1>4. UNCHANGED <<run, mintFile, engine, quotes, toHost>>
  BY DEF PickMint, custodyVars
<1>5. Typed'
  BY <1>t, <1>1, <1>2, <1>3, <1>4 DEF Typed
<1> QED
  BY <1>1, <1>2, <1>3, <1>4, <1>5 DEF ShellInv, AskedFor

LEMMA TopUpShell == ShellInv /\ TopUp => ShellInv'
<1> SUFFICES ASSUME ShellInv, TopUp PROVE ShellInv'
  OBVIOUS
<1> DEFINE q == asked.topups + 1
<1>t. Typed /\ panel \in PanelType
  BY DEF ShellInv, Typed
<1>1. q \in Topup /\ q \in 0 .. MaxTopups
  BY <1>t, AskedForType DEF TopUp, Topup
<1>2. panel' \in PanelType /\ panel'.painting = panel.painting
  BY <1>t DEF TopUp, PanelType
<1>3. Count(toEngine', Funds) = Count(toEngine, Funds) + 1 /\ toEngine' \in Seq(Command)
  <2>1. toEngine' = Append(toEngine, Fund(q)) /\ Fund(q) \in Command /\ Fund(q) \in Funds
    BY <1>1, Messages DEF TopUp
  <2> QED
    BY <1>t, <2>1, CountAppend DEF Typed
<1>4. /\ asked' \in [switches : 0 .. MaxSwitches, topups : 0 .. MaxTopups]
      /\ asked'.topups = q
  BY <1>t, <1>1 DEF TopUp, Typed
<1>5. UNCHANGED <<run, mintFile, engine, quotes, toHost>>
  BY DEF TopUp, custodyVars
<1>6. Typed'
  BY <1>t, <1>2, <1>3, <1>4, <1>5 DEF Typed
<1> QED
  BY <1>2, <1>3, <1>4, <1>5, <1>6, <1>t, AskedForType DEF ShellInv, AskedFor

-----------------------------------------------------------------------------
\* The theorems.

LEMMA InitIInv == Init => IInv
<1> SUFFICES ASSUME CustodyInit PROVE IInv
  BY DEF Init
<1>1. PICK old \in SUBSET Kind :
        /\ shell = "desktop" \/ old = {}
        /\ disk = [blob |-> NoSeeds,
                   file |-> [f \in Plain |->
                     IF \E k \in old : f = plainFile(k)
                     THEN Legacy(CHOOSE k \in old : f = plainFile(k)) ELSE None]]
        /\ history = [spoiled |-> {},
                      root |-> [k \in Kind |-> [s \in Side |->
                        IF k \in old /\ s = (IF k = "wallet" THEN "keychain" ELSE "file")
                        THEN Legacy(k) ELSE None]]]
  BY DEF CustodyInit
<1>2. shell \in Shells /\ run = Off
  BY DEF CustodyInit
<1>3. Legacy("wallet") \in Seed /\ Legacy("swarm") \in Seed
  BY CustodyAssumption DEF Legacy, Seed
<1>4. /\ disk.blob = NoSeeds /\ disk.file \in [Plain -> Seed \cup {None}]
      /\ disk.file["wallet.seed"] = IF "wallet" \in old THEN Legacy("wallet") ELSE None
      /\ disk.file["swarm.seed"] = IF "swarm" \in old THEN Legacy("swarm") ELSE None
      /\ disk.file["cashu.seed"] = None
  <2> DEFINE file == [f \in Plain |->
                     IF \E k \in old : f = plainFile(k)
                     THEN Legacy(CHOOSE k \in old : f = plainFile(k)) ELSE None]
  <2>1. \A k \in old : (CHOOSE j \in old : plainFile(k) = plainFile(j)) = k
    BY Kinds
  <2>2. "wallet" \in old => file["wallet.seed"] = Legacy("wallet")
    BY <2>1, Kinds DEF Plain
  <2>3. "swarm" \in old => file["swarm.seed"] = Legacy("swarm")
    BY <2>1, Kinds DEF Plain
  <2>4. /\ "wallet" \notin old => file["wallet.seed"] = None
        /\ "swarm" \notin old => file["swarm.seed"] = None
        /\ file["cashu.seed"] = None
    BY Kinds DEF Plain
  <2>5. file = [f \in Plain |-> file[f]]
    OBVIOUS
  <2>6. disk.blob = NoSeeds /\ disk.file = file
    BY <1>1
  <2> HIDE DEF file
  <2>7. \A f \in Plain : file[f] \in Seed \cup {None}
    BY <1>3, <2>2, <2>3, <2>4 DEF Plain
  <2> QED
    BY <2>2, <2>3, <2>4, <2>5, <2>6, <2>7
<1>5. /\ history.spoiled = {} /\ history.root \in [Kind -> [Side -> Seed \cup {None}]]
      /\ history \in History
      /\ history.root["wallet"]["file"] = None /\ history.root["swarm"]["keychain"] = None
      /\ history.root["wallet"]["keychain"] = IF "wallet" \in old THEN Legacy("wallet") ELSE None
      /\ history.root["swarm"]["file"] = IF "swarm" \in old THEN Legacy("swarm") ELSE None
  BY <1>1, <1>3, Kinds DEF History
<1>6. CustodyTypeOK
  BY <1>1, <1>2, <1>4, <1>5, OffIs DEF CustodyTypeOK, Run, History
<1>7. Stages
  BY <1>2, OffIs, Kinds DEF Stages
<1>8. Roots
  BY <1>1, <1>2, <1>4, <1>5, OffIs, Kinds, Seeds DEF Roots, Rooted1, Readable
<1> QED
  BY <1>6, <1>7, <1>8 DEF IInv

LEMMA NextIInv == IInv /\ [Next]_vars => IInv'
<1> SUFFICES ASSUME IInv, [Next]_vars PROVE IInv'
  OBVIOUS
<1>1. CASE StartStep
  BY <1>1, DecryptKeeps, StoreKeeps, NotStoredKeeps, TornKeeps, RemoveKeeps, ThrowsKeeps,
     InjectedKeeps, FromFileKeeps, NotWrittenKeeps DEF StartStep
<1>2. CASE UNCHANGED custodyVars
  BY <1>2 DEF custodyVars, IInv, CustodyTypeOK, Stages, Roots, Rooted1, Readable, side
<1>3. Launch \/ Killed \/ StartStep \/ HandleSetMint \/ UNCHANGED custodyVars
  BY DEF Next, RunStep, EngineStep, UIStep, Starts, Progress, Ends, HandleFund, BalancePoll,
         Invoice, FundEnds, BalanceRead, HandleWallet, HandleFundResult, Painted, Dismiss,
         TopUp, PickMint, vars
<1> QED
  BY <1>1, <1>2, <1>3, LaunchKeeps, KilledKeeps, SetMintKeeps

\* Everything said here about seeds holds from the first run on and through every step: of
\* a start, of the engine that takes the seeds, of the wallet's rebuilding, of a kill.
THEOREM SeedInvariance == Spec => []IInv
BY InitIInv, NextIInv, PTL DEF Spec

\* The records of custody keep their types: in particular there is always a fresh seed to
\* draw, and what is injected or in use is a seed, never a torn blob.
THEOREM CustodyTypes == Spec => []CustodyTypeOK
BY SeedInvariance, PTL DEF IInv

\* A peer keeps its money and its ring seat: every run uses the first seed of its side of the
\* keychain, and the keychain's swarm seed is that of the plaintext file before it, wherever
\* the app was killed (resolveSeed of electron/main.js, resolveSeeds of custody.js,
\* loadOrCreateSwarmSeed), unless storage failed on a seed of that kind.
THEOREM SeedsAreKept == Spec => []SeedsKept
<1>1. IInv => SeedsKept
  BY Fields DEF IInv, Roots, Rooted1, SeedsKept
<1> QED
  BY <1>1, SeedInvariance, PTL

LEMMA InitShellInv == Init => ShellInv
<1> SUFFICES ASSUME Init PROVE ShellInv
  OBVIOUS
<1>1. run = Off /\ engine = NoEngine
  BY DEF Init, CustodyInit
<1>2. Typed
  BY <1>1, NothingAsked, OffIs, ShellAssumption DEF Init, Typed
<1>3. AskedFor(panel, toHost, quotes, toEngine) = 0 /\ asked.topups = 0
  BY NothingAsked DEF Init
<1> QED
  BY <1>2, <1>3 DEF ShellInv

LEMMA NextShellInv == CustodyTypeOK /\ ShellInv /\ [Next]_vars => ShellInv'
<1> SUFFICES ASSUME CustodyTypeOK, ShellInv, [Next]_vars PROVE ShellInv'
  OBVIOUS
<1>1. CASE RunStep
  BY <1>1, StartsShell, ProgressShell, EndsShell DEF RunStep
<1>2. CASE EngineStep
  BY <1>2, SetMintShell, FundShell, InvoiceShell, FundEndsShell, BalanceShell DEF EngineStep
<1>3. CASE UIStep
  BY <1>3, HandleWalletShell, HandleFundResultShell, PanelShell, PickMintShell, TopUpShell
     DEF UIStep
<1>4. CASE UNCHANGED vars
  BY <1>4 DEF vars, custodyVars, shellVars, ShellInv, Typed, AskedFor
<1> QED
  BY <1>1, <1>2, <1>3, <1>4 DEF Next

\* Whatever starts, ends, switches and top-ups meet, a run knows the mint its wallet is to be
\* built for, and no more top-ups are under way than the user asked for.
THEOREM ShellInvariance == Spec => []ShellInv
BY InitShellInv, NextShellInv, CustodyTypes, PTL DEF Spec

\* The shell, its engine, its pipe and its panel keep their types; the panel paints no more
\* codes at a time than there were top-ups (showTopupQr of renderer/lib/wallet.js).
THEOREM TypeCorrect == Spec => []TypeOK
<1>1. CustodyTypeOK /\ ShellInv => TypeOK
  <2> SUFFICES ASSUME CustodyTypeOK, ShellInv PROVE TypeOK
    OBVIOUS
  <2>1. panel.painting \in 0 .. MaxTopups /\ panel \in PanelType
    BY AskedForType DEF ShellInv, AskedFor, Typed
  <2>2. panel \in [mint : Mint \cup {NoMint}, show : {"hidden", "loading", "invoice", "error"},
                   busy : BOOLEAN, painting : 0 .. MaxTopups]
    BY <2>1 DEF PanelType
  <2> QED
    BY <2>2 DEF ShellInv, Typed, TypeOK, EngineType, QuotesType, Command, Report
<1> QED
  BY <1>1, ShellInvariance, CustodyTypes, PTL

=============================================================================
