------------------------------- MODULE Instance -------------------------------
(***************************************************************************)
(* How a session comes to manage a torrents directory, and stops doing so   *)
(* (newWithClientConfig and Close, internal/session/session.go; identity.go;*)
(* resolveStreamSigner, stream.go).  Several processes may be started on    *)
(* one directory; instance.lock admits one.  Under it the session finds or  *)
(* generates the peer ID its client announces and the key its stream links  *)
(* are signed with.  Both files lie in .metadata, so one sync is for both.  *)
(*                                                                          *)
(* main exits when New fails, which is when a lock New has left behind goes *)
(* away.                                                                    *)
(***************************************************************************)
EXTENDS StateFile, FiniteSets

CONSTANTS
    Processes,
    PeerPrefixes,  \* identity.peer_id_prefix, or the default of the client library
    Randoms,       \* what a generator may come up with
    None

VARIABLES
    pc,               \* stage of each process
    config,           \* of each process: prefix, and whether it signs links
    lock,             \* who holds instance.lock
    idFile, keyFile,  \* peer_id, stream key
    memory            \* of each process: its peer ID and key, and whether a file it
                      \* took them from had not been synced by an earlier start

vars == <<pc, config, lock, idFile, keyFile, memory>>

NoMemory == [id |-> None, key |-> None, unsynced |-> FALSE]
NoConfig == [prefix |-> None, signs |-> FALSE]

Init ==
    /\ pc = [p \in Processes |-> "down"]
    /\ config = [p \in Processes |-> NoConfig]
    /\ memory = [p \in Processes |-> NoMemory]
    /\ lock = None /\ idFile = FileOf(None) /\ keyFile = FileOf(None)

-----------------------------------------------------------------------------
Goes(p, stage) == pc' = [pc EXCEPT ![p] = stage]

(* lockInstance, which does not wait *)
LockInstance(p, c) ==
    /\ pc[p] = "down" /\ lock = None
    /\ lock' = p /\ Goes(p, "settings")
    /\ config' = [config EXCEPT ![p] = c]
    /\ UNCHANGED <<idFile, keyFile, memory>>

(* a stage that returns an error releases the lock, but the one that         *)
(* configures the proxy does not                                             *)
Fail(p) ==
    /\ lock' = IF pc[p] = "proxy" THEN lock ELSE None
    /\ Goes(p, "failed")

(* the stages that only succeed or fail: settings, subtitle store, proxy,    *)
(* client                                                                    *)
StageAfter(p) ==
    CASE pc[p] = "settings" -> IF config[p].signs THEN "key" ELSE "store"
      [] pc[p] = "store" -> "proxy"
      [] pc[p] = "proxy" -> "identity"
      [] pc[p] = "client" -> "restore"

Stage(p, ok) ==
    /\ pc[p] \in {"settings", "store", "proxy", "client"}
    /\ IF ok THEN Goes(p, StageAfter(p)) /\ UNCHANGED lock ELSE Fail(p)
    /\ UNCHANGED <<config, idFile, keyFile, memory>>

(* faulty: what was renamed into place is used, synced or not *)
AdoptedUnsynced(o) == o # "failed"

(* A generated value is written with outcome o and used only if that is ok.  *)
(* The write that syncs its directory syncs the other file, too.             *)
Adopted(o) == o = "ok"

OtherSynced(f, o) == IF o = "ok" THEN Synced(f) ELSE f

(* resolveStreamSigner *)
ResolveStreamSigner(p, n, o) ==
    /\ pc[p] = "key"
    /\ IF keyFile.now # None
       THEN /\ memory' = [memory EXCEPT ![p].key = keyFile.now,
                                        ![p].unsynced = @ \/ keyFile.older # {}]
            /\ Goes(p, "store")
            /\ UNCHANGED <<lock, idFile, keyFile>>
       ELSE /\ keyFile' = Written(keyFile, n, o) /\ idFile' = OtherSynced(idFile, o)
            /\ IF Adopted(o)
               THEN memory' = [memory EXCEPT ![p].key = n] /\ Goes(p, "store") /\ UNCHANGED lock
               ELSE Fail(p) /\ UNCHANGED memory
    /\ UNCHANGED config

(* resolvePeerID, of a client configuration without a peer ID; a random ID   *)
(* has no prefix but the one it was generated with                           *)
HasPrefix(id, prefix) == id.prefix = prefix

ResolvePeerID(p, n, o) ==
    LET prefix == config[p].prefix
        id == [prefix |-> prefix, random |-> n]
    IN  /\ pc[p] = "identity"
        /\ IF idFile.now # None /\ HasPrefix(idFile.now, prefix)
           THEN /\ memory' = [memory EXCEPT ![p].id = idFile.now,
                                            ![p].unsynced = @ \/ idFile.older # {}]
                /\ Goes(p, "client")
                /\ UNCHANGED <<lock, idFile, keyFile>>
           ELSE /\ id \notin {idFile.now} \cup idFile.older
                /\ idFile' = Written(idFile, id, o) /\ keyFile' = OtherSynced(keyFile, o)
                /\ IF Adopted(o)
                   THEN memory' = [memory EXCEPT ![p].id = id] /\ Goes(p, "client") /\ UNCHANGED lock
                   ELSE Fail(p) /\ UNCHANGED memory
        /\ UNCHANGED config

Restored(p) ==
    /\ pc[p] = "restore"
    /\ Goes(p, "active")
    /\ UNCHANGED <<config, lock, idFile, keyFile, memory>>

-----------------------------------------------------------------------------
(* faulty: the lock is released while the client still runs *)
CloseUnlocking(p) ==
    /\ pc[p] \in {"restore", "active"}
    /\ lock' = None /\ Goes(p, "closing")
    /\ UNCHANGED <<config, idFile, keyFile, memory>>

(* Close, called by main or because the restore failed: client and stores    *)
(* first,                                                                    *)
Close(p) ==
    /\ pc[p] \in {"restore", "active"}
    /\ Goes(p, "closing")
    /\ UNCHANGED <<config, lock, idFile, keyFile, memory>>

CloseClient(p) ==
    /\ pc[p] = "closing"
    /\ Goes(p, "unlock")
    /\ UNCHANGED <<config, lock, idFile, keyFile, memory>>

(* the session is gone, and so is what it knew *)
Gone(p) ==
    /\ Goes(p, "down")
    /\ config' = [config EXCEPT ![p] = NoConfig]
    /\ memory' = [memory EXCEPT ![p] = NoMemory]
    /\ UNCHANGED <<idFile, keyFile>>

(* then the lock *)
ReleaseInstanceLock(p) ==
    /\ pc[p] = "unlock"
    /\ lock' = None /\ Gone(p)

(* the process ends, after a failed start or by a crash *)
Exit(p) ==
    /\ pc[p] # "down"
    /\ lock' = IF lock = p THEN None ELSE lock
    /\ Gone(p)

PowerFailure ==
    /\ pc' = [p \in Processes |-> "down"] /\ lock' = None
    /\ config' = [p \in Processes |-> NoConfig] /\ memory' = [p \in Processes |-> NoMemory]
    /\ idFile' \in AfterPowerFailure(idFile) /\ keyFile' \in AfterPowerFailure(keyFile)

-----------------------------------------------------------------------------
Next ==
    \/ PowerFailure
    \/ \E p \in Processes :
         \/ \E c \in [prefix : PeerPrefixes, signs : BOOLEAN] : LockInstance(p, c)
         \/ \E ok \in BOOLEAN : Stage(p, ok)
         \/ \E n \in Randoms, o \in {"ok", "failed", "unsynced"} :
              ResolveStreamSigner(p, n, o) \/ ResolvePeerID(p, n, o)
         \/ Restored(p) \/ Close(p) \/ CloseClient(p) \/ ReleaseInstanceLock(p) \/ Exit(p)

Spec == Init /\ [][Next]_vars

-----------------------------------------------------------------------------
(* Correctness *)

HasClient(p) == pc[p] \in {"restore", "active", "closing"}

Stages ==
    {"down", "failed", "settings", "key", "store", "proxy", "identity", "client", "restore",
     "active", "closing", "unlock"}

Ids == [prefix : PeerPrefixes \cup {None}, random : Randoms] \cup {None}
Keys == Randoms \cup {None}

TypeOK ==
    /\ pc \in [Processes -> Stages]
    /\ config \in [Processes -> [prefix : PeerPrefixes \cup {None}, signs : BOOLEAN]]
    /\ memory \in [Processes -> [id : Ids, key : Keys, unsynced : BOOLEAN]]
    /\ lock \in Processes \cup {None}
    /\ idFile \in [now : Ids, older : SUBSET Ids]
    /\ keyFile \in [now : Keys, older : SUBSET Keys]

(* No two processes manage the directory at once: none reads or writes its   *)
(* state, runs a client on it, or is still closing one, while another does   *)
(* ("Two instances sharing one torrents directory would fight over the same  *)
(* metadata, registries, and ... the same peer identity"; "Nothing else      *)
(* touches the torrents directory once the client is closed, so the instance *)
(* lock is safe to release").                                                *)
OneManager ==
    \A p, q \in Processes : p # q => {pc[p], pc[q]} \cap {"down", "failed"} # {}

(* A client announces an ID, and signs with a key, that every later start    *)
(* will find again, a start after a power failure included: "every restart   *)
(* would look like a brand-new peer", and a new key "would silently revoke   *)
(* every previously generated STRM link".  Files that an earlier, failed     *)
(* start could not sync are the exception.                                   *)
IdentityDurable ==
    \A p \in Processes :
        HasClient(p) /\ ~memory[p].unsynced =>
            /\ idFile = FileOf(memory[p].id)
            /\ config[p].signs => keyFile = FileOf(memory[p].key)

-----------------------------------------------------------------------------
(* Why: who is past the lock holds it, and what each stage has settled no    *)
(* other process can unsettle, because the lock keeps it out.                *)
Idle == {"down", "failed"}
HasKey == {"store", "proxy", "identity", "client", "restore", "active", "closing"}
HasId == {"client", "restore", "active", "closing"}

LockHeld == \A p \in Processes : pc[p] \notin Idle => lock = p

KeySettled ==
    \A p \in Processes :
        pc[p] \in HasKey /\ ~memory[p].unsynced /\ config[p].signs =>
            keyFile = FileOf(memory[p].key)

IdSettled ==
    \A p \in Processes :
        pc[p] \in HasId /\ ~memory[p].unsynced => idFile = FileOf(memory[p].id)

Inductive == TypeOK /\ LockHeld /\ KeySettled /\ IdSettled

=============================================================================
