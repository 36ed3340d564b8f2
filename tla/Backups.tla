------------------------------ MODULE Backups ------------------------------
(***************************************************************************)
(* The disaster-recovery scripts.  A backup dumps the services' databases  *)
(* one after the other while transfers settle, stages the encrypted dumps  *)
(* and publishes the set by one rename.  A restore selects a set, verifies *)
(* it, restores every entry into a disposable database and cleans up.      *)
(* Dumps and manifests may be damaged or exchanged at any time and every   *)
(* external command may fail.                                              *)
(***************************************************************************)
EXTENDS Integers, Sequences, SequencesExt, FiniteSets

CONSTANTS Scope,       \* BACKUP_SCOPE, a sequence of services
          Sets,        \* runs of backup.mjs, each naming its set
          Latest,      \* restores run with --latest
          Explicit,    \* [restores run with --set -> the set they name]
          Transfers,   \* customer transfers settling meanwhile
          MaxTime,     \* bound on the clock that dates the sets
          MaxDamage    \* bound on the times a file is damaged

Restores == Latest \union DOMAIN Explicit

ConstantsOK == /\ {"ledger", "payments"} \subseteq Range(Scope)
               /\ Scope \in Seq(Range(Scope))
               /\ \A i, j \in DOMAIN Scope : Scope[i] = Scope[j] => i = j
               /\ "none" \notin Sets /\ \A r \in DOMAIN Explicit : Explicit[r] \in Sets
               /\ MaxTime \in Nat /\ MaxDamage \in Nat

VARIABLES now,
          posted, completed,  \* what Ledger and Payments hold
          before,      \* [Sets -> transfers completed when it started]
          createdAt,   \* [Sets -> its date]
          dumps,       \* [Sets -> services staged or published -> contents]
          bpc,         \* [Sets -> "idle", "dumping", "published", "failed"]
          file,        \* [Sets -> services -> the dump in its file, or Broken]
          manifest,    \* [Sets -> the date in its manifest, or Unreadable]
          touched,     \* sets whose manifest was changed or lost
          exchanged,   \* <<restore, service>>: another dump was put in the
                       \* file after the restore had verified it
          harm,        \* times a file was damaged
          rpc,         \* [Restores -> step]
          chosen,      \* [Restores -> set]
          rivals,      \* [Restores -> sets with their own manifest when it chose]
          databases,   \* <<restore, service>> disposable databases
          plain,       \* <<restore, service, dump>> decrypted dumps on disk
          restored,    \* [Restores -> services -> dump]
          code         \* [Restores -> exit code, 0 until an error]

vars == <<now, posted, completed, before, createdAt, dumps, bpc, file, manifest,
          touched, exchanged, harm, rpc, chosen, rivals, databases, plain,
          restored, code>>
live    == <<posted, completed>>
backups == <<before, createdAt, dumps, bpc>>
disk    == <<file, manifest, touched, exchanged, harm>>
restore == <<rpc, chosen, rivals, databases, plain, restored, code>>

\* A dump is named by the set and the service it was taken for.
Broken == <<"none", "none">>
Unreadable == -1

Nothing == [v \in {} |-> {}]
Added(f, v, c) == [s \in DOMAIN f \union {v} |-> IF s = v THEN c ELSE f[s]]

Init == /\ now = 0 /\ posted = {} /\ completed = {}
        /\ file = [b \in Sets |-> [v \in Range(Scope) |-> <<b, v>>]]
        /\ manifest = [b \in Sets |-> Unreadable]
        /\ touched = {} /\ exchanged = {} /\ harm = 0
        /\ before = [b \in Sets |-> {}] /\ createdAt = [b \in Sets |-> 0]
        /\ dumps = [b \in Sets |-> Nothing] /\ bpc = [b \in Sets |-> "idle"]
        /\ rpc = [r \in Restores |-> "idle"]
        /\ chosen = [r \in Restores |-> "none"]
        /\ rivals = [r \in Restores |-> {}]
        /\ databases = {} /\ plain = {}
        /\ restored = [r \in Restores |-> Nothing]
        /\ code = [r \in Restores |-> 0]

Published == {b \in Sets : bpc[b] = "published"}
Dumps == Published \X Range(Scope)

-----------------------------------------------------------------------------
\* external: a transfer is posted by Ledger and then completed by Payments.
Settle(t) ==
  /\ t \notin completed
  /\ IF t \in posted THEN completed' = completed \union {t} /\ UNCHANGED posted
                     ELSE posted' = posted \union {t} /\ UNCHANGED completed
  /\ UNCHANGED <<now, backups, disk, restore>>

StartBackup(b) ==
  /\ bpc[b] = "idle"
  /\ bpc' = [bpc EXCEPT ![b] = "dumping"]
  /\ createdAt' = [createdAt EXCEPT ![b] = now]
  /\ before' = [before EXCEPT ![b] = completed]
  /\ UNCHANGED <<now, live, dumps, disk, restore>>

Contents(v) == IF v = "ledger" THEN posted ELSE IF v = "payments" THEN completed ELSE {}

\* pg_dump, encryption and checksum of the next service, into the staging
\* directory.
Dump(b) ==
  LET v == Scope[Cardinality(DOMAIN dumps[b]) + 1] IN
  /\ bpc[b] = "dumping" /\ Cardinality(DOMAIN dumps[b]) < Len(Scope)
  /\ dumps' = [dumps EXCEPT ![b] = Added(@, v, Contents(v))]
  /\ UNCHANGED <<now, live, before, createdAt, bpc, disk, restore>>

\* (the mutant) dumps are written where readers look for them
PublishesEarly(b) == DOMAIN dumps[b] # {}
Staged(b) == DOMAIN dumps[b] = Range(Scope)

\* The manifest with the date of the start, and the rename.
Publish(b) ==
  /\ bpc[b] = "dumping" /\ Staged(b)
  /\ bpc' = [bpc EXCEPT ![b] = "published"]
  /\ manifest' = [manifest EXCEPT ![b] = createdAt[b]]
  /\ UNCHANGED <<now, live, before, createdAt, dumps, file, touched, exchanged,
                 harm, restore>>

\* A command fails or the process is killed: the staging directory is removed
\* or stays where no reader looks.
FailBackup(b) ==
  /\ bpc[b] = "dumping"
  /\ bpc' = [bpc EXCEPT ![b] = "failed"]
  /\ dumps' = [dumps EXCEPT ![b] = Nothing]
  /\ UNCHANGED <<now, live, before, createdAt, disk, restore>>

\* Restores that have verified set b and are still reading it.
Reading(b) == {r \in Restores : chosen[r] = b /\ rpc[r] \in {"restore", "loaded"}}

\* external: a published file is changed or lost, or holds another dump made
\* with the same key (the cipher authenticates only magic and version, not
\* which dump it is), or its own again.
Damage(b, v, f) ==
  /\ b \in Published /\ harm < MaxDamage /\ harm' = harm + 1
  /\ file' = [file EXCEPT ![b] = [@ EXCEPT ![v] = f]]
  /\ exchanged' = IF f \in {Broken, <<b, v>>} THEN exchanged
                  ELSE exchanged \union {<<r, v>> : r \in Reading(b)}
  /\ UNCHANGED <<now, live, backups, manifest, touched, restore>>

\* external: the manifest, which nothing signs, is lost or given another date.
DamageManifest(b, date) ==
  /\ b \in Published /\ harm < MaxDamage /\ harm' = harm + 1
  /\ manifest' = [manifest EXCEPT ![b] = date]
  /\ touched' = touched \union {b}
  /\ UNCHANGED <<now, live, backups, file, exchanged, restore>>

Tick == /\ now < MaxTime
        /\ now' = now + 1
        /\ UNCHANGED <<live, backups, disk, restore>>

-----------------------------------------------------------------------------
Goto(r, place) == rpc' = [rpc EXCEPT ![r] = place]

\* listBackupSets: a set without a readable manifest is skipped.
Listed == {b \in Published : manifest[b] # Unreadable}

\* (the mutant) the newest is taken without looking for a tie
AnyNewest(b) == \A c \in Listed : manifest[c] <= manifest[b]
SoleNewest(b) == \A c \in Listed \ {b} : manifest[c] < manifest[b]

Selectable(r) == IF r \in Latest THEN {b \in Listed : SoleNewest(b)}
                                 ELSE {Explicit[r]} \intersect Listed

\* resolveBackupSet: no set, or two newest, is an error.
Select(r) ==
  /\ rpc[r] = "idle"
  /\ rivals' = [rivals EXCEPT ![r] = Published \ touched]
  /\ IF Selectable(r) = {}
     THEN Goto(r, "cleanup") /\ code' = [code EXCEPT ![r] = 1] /\ UNCHANGED chosen
     ELSE /\ \E b \in Selectable(r) : chosen' = [chosen EXCEPT ![r] = b]
          /\ Goto(r, "verify") /\ UNCHANGED code
  /\ UNCHANGED <<now, live, backups, disk, databases, plain, restored>>

Fail(r) == Goto(r, "cleanup") /\ code' = [code EXCEPT ![r] = 1]

\* (the mutant) decryption stands for the checksum
OnlyDecrypts(b) == manifest[b] # Unreadable /\ \A v \in Range(Scope) : file[b][v] # Broken

\* verifyBackupSet: manifest, scope, sizes, checksums and keys, before any
\* database; a key that is missing or wrong fails as a damaged file does.
Intact(b) == manifest[b] # Unreadable /\ \A v \in Range(Scope) : file[b][v] = <<b, v>>
Verify(r) ==
  /\ rpc[r] = "verify"
  /\ \/ Intact(chosen[r]) /\ Goto(r, "restore") /\ UNCHANGED code
     \/ Fail(r)
  /\ UNCHANGED <<now, live, backups, disk, chosen, rivals, databases, plain, restored>>

\* (the mutant) the file was verified, so it is used as it is read
TrustsVerified(b, v) == TRUE
Decrypts(b, v) == file[b][v] # Broken

Made(r) == Cardinality({d \in databases : d[1] = r})

\* CREATE DATABASE for the next entry, then its file is read again and
\* decrypted, without its checksum: any dump made with the key decrypts.
Load(r) ==
  /\ rpc[r] = "restore" /\ Made(r) < Len(Scope)
  /\ LET v == Scope[Made(r) + 1]
     IN \/ /\ databases' = databases \union {<<r, v>>}
           /\ IF Decrypts(chosen[r], v)
              THEN /\ plain' = plain \union {<<r, v, file[chosen[r]][v]>>}
                   /\ Goto(r, "loaded") /\ UNCHANGED code
              ELSE Fail(r) /\ UNCHANGED plain
        \/ Fail(r) /\ UNCHANGED <<databases, plain>>    \* CREATE DATABASE fails
  /\ UNCHANGED <<now, live, backups, disk, chosen, rivals, restored>>

\* pg_restore, the plaintext removed, and the table count.
Apply(r) ==
  /\ rpc[r] = "loaded"
  /\ \/ \E f \in {f \in plain : f[1] = r} :
          /\ restored' = [restored EXCEPT ![r] = Added(@, f[2], f[3])]
          /\ plain' = plain \ {f}
          /\ Goto(r, "restore")
          /\ UNCHANGED code
     \/ Fail(r) /\ UNCHANGED <<plain, restored>>
  /\ UNCHANGED <<now, live, backups, disk, chosen, rivals, databases>>

Finish(r) ==
  /\ rpc[r] = "restore" /\ Made(r) = Len(Scope)
  /\ Goto(r, "cleanup")
  /\ UNCHANGED <<now, live, backups, disk, chosen, rivals, databases, plain, restored, code>>

\* (the mutant) a failed DROP is only logged
OnlyLogged(r) == code
DropFailed(r) == [code EXCEPT ![r] = 1]

\* The finally block: every database dropped, each DROP may fail; then the
\* workspace with whatever plaintext is left.
Cleanup(r) ==
  /\ rpc[r] = "cleanup"
  /\ \E left \in SUBSET {d \in databases : d[1] = r} :
       /\ databases' = {d \in databases : d[1] # r} \union left
       /\ code' = IF left = {} THEN code ELSE DropFailed(r)
  /\ plain' = {f \in plain : f[1] # r}
  /\ Goto(r, "exited")
  /\ UNCHANGED <<now, live, backups, disk, chosen, rivals, restored>>

Next == \/ Tick
        \/ \E t \in Transfers : Settle(t)
        \/ \E b \in Sets : \/ StartBackup(b) \/ Dump(b) \/ Publish(b)
                           \/ FailBackup(b)
                           \/ \E v \in Range(Scope), f \in Dumps \union {Broken} :
                                 Damage(b, v, f)
                           \/ \E date \in 0 .. MaxTime \union {Unreadable} :
                                 DamageManifest(b, date)
        \/ \E r \in Restores : \/ Select(r) \/ Verify(r) \/ Load(r) \/ Apply(r)
                               \/ Finish(r) \/ Cleanup(r)

Spec == Init /\ [][Next]_vars

Passed(r) == rpc[r] = "exited" /\ code[r] = 0
-----------------------------------------------------------------------------
\* A set a reader can see holds, in both databases, every transfer that was
\* complete when the backup began: a failed or killed backup shows nothing.
PublishedIsWhole ==
  \A b \in Published : /\ DOMAIN dumps[b] = Range(Scope)
                       /\ before[b] \subseteq dumps[b]["ledger"]
                       /\ before[b] \subseteq dumps[b]["payments"]

\* A restore that passed restored, for every service in scope, the dump its set
\* was published with.  Only a file exchanged while the restore, having
\* verified it, was still reading can put another dump there, and that one too
\* was published: bytes nobody dumped are never restored.
Own(r, v) == restored[r][v] = <<chosen[r], v>>
Swapped(r, v) == <<r, v>> \in exchanged /\ restored[r][v] \in Dumps
PassedIsAuthentic ==
  \A r \in Restores : Passed(r) =>
    /\ DOMAIN restored[r] = Range(Scope)
    /\ \A v \in Range(Scope) : Own(r, v) \/ Swapped(r, v)

\* A restore exits 0 only with nothing left behind: no disposable database
\* and no decrypted dump.  A failure leaves no decrypted dump either.
NothingLeftBehind ==
  \A r \in Restores : rpc[r] = "exited" =>
    /\ ~\E f \in plain : f[1] = r
    /\ code[r] = 0 => ~\E d \in databases : d[1] = r

\* --latest means one set: among the sets whose manifest was as published when
\* the restore chose, one of them chosen is newer than every other, however
\* the backups overlapped.  (A set whose manifest is lost is passed over.)
LatestIsNewest ==
  \A r \in Latest : chosen[r] \in rivals[r] =>
    \A b \in rivals[r] \ {chosen[r]} : createdAt[b] < createdAt[chosen[r]]

-----------------------------------------------------------------------------
(* The inductive invariant behind the properties *)

IsMap(f) == f = [s \in DOMAIN f |-> f[s]]

Shaped ==
  /\ now \in Nat /\ completed \subseteq posted
  /\ before \in [Sets -> SUBSET completed] /\ createdAt \in [Sets -> Nat]
  /\ dumps = [b \in Sets |-> dumps[b]] /\ \A b \in Sets : IsMap(dumps[b])
  /\ bpc \in [Sets -> {"idle", "dumping", "published", "failed"}]
  /\ file \in [Sets -> [Range(Scope) -> {Broken} \union (Sets \X Range(Scope))]]
  /\ manifest \in [Sets -> Int] /\ touched \subseteq Published
  /\ rpc \in [Restores -> {"idle", "verify", "restore", "loaded", "cleanup", "exited"}]
  /\ chosen = [r \in Restores |-> chosen[r]]
  /\ rivals \in [Restores -> SUBSET Published]
  /\ restored = [r \in Restores |-> restored[r]]
  /\ \A r \in Restores : IsMap(restored[r])
  /\ code \in [Restores -> {0, 1}] /\ IsFiniteSet(databases)

\* What a set holds was dumped after its start, and nothing of it is there
\* before.
DumpedSince ==
  \A b \in Sets :
    /\ bpc[b] = "idle" => dumps[b] = Nothing
    /\ bpc[b] = "published" => DOMAIN dumps[b] = Range(Scope)
    /\ \A v \in DOMAIN dumps[b] \intersect {"ledger", "payments"} :
          before[b] \subseteq dumps[b][v]

\* A manifest nobody touched has its set's date; the files of a published set
\* hold published dumps, those of another only their own.
AsPublished ==
  /\ \A b \in Published \ touched : manifest[b] = createdAt[b]
  /\ \A b \in Sets, v \in Range(Scope) :
        \/ file[b][v] = <<b, v>>
        \/ b \in Published /\ file[b][v] \in {Broken} \union Dumps

\* What restore r may find in the file of service v after verification.
Readable(r, v) == file[chosen[r]][v] \in {Broken, <<chosen[r], v>>} \/ <<r, v>> \in exchanged

Good(r) == \/ rpc[r] \in {"verify", "restore", "loaded"}
           \/ rpc[r] \in {"cleanup", "exited"} /\ code[r] = 0
Chose(r) == /\ Good(r) \/ chosen[r] # "none" => chosen[r] \in Published
            /\ rpc[r] = "idle" => chosen[r] = "none"
            /\ code[r] = 1 => rpc[r] \in {"cleanup", "exited"}

Upto(n) == {Scope[i] : i \in 1 .. n}
Owned(r) == {d \in databases : d[1] = r}
Files(r) == {f \in plain : f[1] = r}

\* A restore has made the databases of the first entries of the scope, and
\* restored them all but the one whose dump is decrypted.
Entries(r) ==
  /\ rpc[r] \in {"idle", "verify"} =>
        Owned(r) = {} /\ Files(r) = {} /\ restored[r] = Nothing
  /\ rpc[r] \in {"restore", "loaded"} =>
        /\ Made(r) \in 0 .. Len(Scope)
        /\ Owned(r) = {<<r, v>> : v \in Upto(Made(r))}
        /\ \A v \in Range(Scope) : Readable(r, v)
  /\ rpc[r] = "restore" => Files(r) = {} /\ DOMAIN restored[r] = Upto(Made(r))
  /\ rpc[r] = "loaded" =>
        /\ Made(r) > 0 /\ DOMAIN restored[r] = Upto(Made(r) - 1)
        /\ \E d \in Dumps : /\ Files(r) = {<<r, Scope[Made(r)], d>>}
                            /\ \/ d = <<chosen[r], Scope[Made(r)]>>
                               \/ <<r, Scope[Made(r)]>> \in exchanged
  /\ rpc[r] \in {"cleanup", "exited"} /\ code[r] = 0 =>
        DOMAIN restored[r] = Range(Scope)
  /\ Good(r) => \A s \in DOMAIN restored[r] : Own(r, s) \/ Swapped(r, s)

IInv == /\ Shaped /\ DumpedSince /\ AsPublished
        /\ \A r \in Restores : Chose(r) /\ Entries(r)
        /\ NothingLeftBehind /\ LatestIsNewest
=============================================================================
