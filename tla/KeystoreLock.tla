---------------------------- MODULE KeystoreLock ----------------------------
(***************************************************************************)
(* Locking and unlocking of the keystore's age identities (keystore.rs):   *)
(* the `walletpassphrase` and `walletlock` RPC methods, the re-lock task   *)
(* that an unlock spawns, and the `decrypt_*` methods that read the        *)
(* identities.                                                             *)
(*                                                                         *)
(* Calls are the `walletpassphrase`/`walletlock` requests; an unlock call  *)
(* also names the re-lock task it spawns and the identities it loads, so   *)
(* `identities = c` says that the key material now in memory is the one    *)
(* call c put there.  Time is left out: a sleeping task may wake at any    *)
(* moment.  An aborted tokio task stops at an await, so until the runtime  *)
(* has dropped it the task may still complete.                             *)
(***************************************************************************)
EXTENDS Naturals

CONSTANTS Calls,        \* walletpassphrase / walletlock requests
          Readers,      \* requests that decrypt key material
          NoCall,       \* not a call: locked / no task / mutex free
          FromFile,     \* identities loaded by KeyStore::new
          Encrypted     \* uses_encrypted_identities()

ASSUME CallsAssumption == NoCall \notin Calls /\ FromFile \notin Calls \cup {NoCall}
ASSUME EncryptedAssumption == Encrypted \in BOOLEAN

VARIABLES
  at,          \* progress of each call
  kind,        \* "unlock" or "lock"
  identities,  \* KeyStore::identities
  mutex,       \* holder of the `relock_task` mutex
  slot,        \* the task stored in `relock_task`
  task,        \* life of each re-lock task
  killed,      \* tasks whose abort() was called
  old,         \* the task a call took out of the slot and awaits
  reading      \* requests holding the read lock on the identities

lockVars == <<at, kind, identities, mutex, slot, task, killed, old, reading>>
taskVars == <<task, killed>>

\* A task that has not finished: JoinHandle::is_finished() is false.
Running(c) == task[c] \in {"sleeping", "waking"}

\* KeyStore::is_locked.
IsLocked == identities = NoCall

\* KeyStore::unlocked_until returns Some: the slot holds an unfinished task.
HasDeadline == slot # NoCall /\ Running(slot)

LockInit ==
  /\ at = [c \in Calls |-> "idle"]
  /\ kind = [c \in Calls |-> "unlock"]
  /\ identities = IF Encrypted THEN NoCall ELSE FromFile
  /\ mutex = NoCall
  /\ slot = NoCall
  /\ task = [c \in Calls |-> "none"]
  /\ killed = {}
  /\ old = [c \in Calls |-> NoCall]
  /\ reading = {}

-----------------------------------------------------------------------------
(* walletpassphrase and walletlock.                                        *)

\* The request is refused before it touches any state: the wallet is not
\* encrypted, the timeout overflows, or the passphrase is wrong.
Refuse(c) ==
  /\ at[c] = "idle"
  /\ at' = [at EXCEPT ![c] = "refused"]
  /\ UNCHANGED <<kind, identities, mutex, slot, taskVars, old, reading>>

\* An unlock has decrypted the identity file, a lock has nothing to check.
Begin(c) ==
  /\ at[c] = "idle"
  /\ Encrypted
  /\ \E k \in {"unlock", "lock"} : kind' = [kind EXCEPT ![c] = k]
  /\ at' = [at EXCEPT ![c] = "mutex"]
  /\ UNCHANGED <<identities, mutex, slot, taskVars, old, reading>>

\* A variant of TakeSlot that does not wait for the aborted task.
TakeSlotNoWait(c) ==
  /\ at[c] = "mutex"
  /\ mutex = NoCall
  /\ mutex' = c
  /\ slot' = NoCall
  /\ killed' = IF slot = NoCall THEN killed ELSE killed \cup {slot}
  /\ at' = [at EXCEPT ![c] = "write"]
  /\ UNCHANGED <<kind, identities, task, old, reading>>

\* The call owns `relock_task`: an existing task is taken out and aborted.
TakeSlot(c) ==
  /\ at[c] = "mutex"
  /\ mutex = NoCall
  /\ mutex' = c
  /\ slot' = NoCall
  /\ old' = [old EXCEPT ![c] = slot]
  /\ killed' = IF slot = NoCall THEN killed ELSE killed \cup {slot}
  /\ at' = [at EXCEPT ![c] = IF slot = NoCall THEN "write" ELSE "join"]
  /\ UNCHANGED <<kind, identities, task, reading>>

\* `existing_timeout.await`: the old task has finished or was dropped.
Join(c) ==
  /\ at[c] = "join"
  /\ ~Running(old[c])
  /\ at' = [at EXCEPT ![c] = "write"]
  /\ UNCHANGED <<kind, identities, mutex, slot, taskVars, old, reading>>

\* A variant of UnlockWrite that spawns no re-lock task.
UnlockWriteNoRelock(c) ==
  /\ at[c] = "write" /\ kind[c] = "unlock" /\ reading = {}
  /\ identities' = c
  /\ mutex' = NoCall
  /\ at' = [at EXCEPT ![c] = "done"]
  /\ UNCHANGED <<kind, slot, taskVars, old, reading>>

\* The write lock is granted: load the identities, spawn the re-lock task,
\* store it, release the mutex.  There is no await between these.
UnlockWrite(c) ==
  /\ at[c] = "write"
  /\ kind[c] = "unlock"
  /\ reading = {}
  /\ identities' = c
  /\ task' = [task EXCEPT ![c] = "sleeping"]
  /\ slot' = c
  /\ mutex' = NoCall
  /\ at' = [at EXCEPT ![c] = "done"]
  /\ UNCHANGED <<kind, killed, old, reading>>

\* A variant of LockWrite that never drops its guard on the mutex.
LockWriteHolding(c) ==
  /\ at[c] = "write" /\ kind[c] = "lock" /\ reading = {}
  /\ identities' = NoCall
  /\ at' = [at EXCEPT ![c] = "done"]
  /\ UNCHANGED <<kind, mutex, slot, taskVars, old, reading>>

\* KeyStore::lock, the write lock granted.
LockWrite(c) ==
  /\ at[c] = "write"
  /\ kind[c] = "lock"
  /\ reading = {}
  /\ identities' = NoCall
  /\ mutex' = NoCall
  /\ at' = [at EXCEPT ![c] = "done"]
  /\ UNCHANGED <<kind, slot, taskVars, old, reading>>

\* A variant of CallDropped that leaves the mutex with the dropped request.
CallDroppedHolding(c) ==
  /\ at[c] \in {"mutex", "join", "write"}
  /\ at' = [at EXCEPT ![c] = IF @ = "mutex" THEN "timedout" ELSE "dropped"]
  /\ UNCHANGED <<kind, identities, mutex, slot, taskVars, old, reading>>

\* The middleware drops the request's future at one of its awaits: while it
\* waits for the mutex ("timedout"), or with the mutex held ("dropped"), when
\* the guard goes with it and so does a task handle taken out of the slot.
CallDropped(c) ==
  /\ at[c] \in {"mutex", "join", "write"}
  /\ at' = [at EXCEPT ![c] = IF @ = "mutex" THEN "timedout" ELSE "dropped"]
  /\ mutex' = IF mutex = c THEN NoCall ELSE mutex
  /\ UNCHANGED <<kind, identities, slot, taskVars, old, reading>>

-----------------------------------------------------------------------------
(* The re-lock task.                                                       *)

\* time::sleep returns.
Wake(c) ==
  /\ task[c] = "sleeping"
  /\ task' = [task EXCEPT ![c] = "waking"]
  /\ UNCHANGED <<at, kind, identities, mutex, slot, killed, old, reading>>

\* A variant of Relock that does not wait for the readers.
RelockAtOnce(c) ==
  /\ task[c] = "waking"
  /\ identities' = NoCall
  /\ task' = [task EXCEPT ![c] = "finished"]
  /\ UNCHANGED <<at, kind, mutex, slot, killed, old, reading>>

\* The write lock is granted and the identities are cleared.
Relock(c) ==
  /\ task[c] = "waking"
  /\ reading = {}
  /\ identities' = NoCall
  /\ task' = [task EXCEPT ![c] = "finished"]
  /\ UNCHANGED <<at, kind, mutex, slot, killed, old, reading>>

\* The runtime drops an aborted task.
Cancelled(c) ==
  /\ c \in killed
  /\ Running(c)
  /\ task' = [task EXCEPT ![c] = "finished"]
  /\ UNCHANGED <<at, kind, identities, mutex, slot, killed, old, reading>>

-----------------------------------------------------------------------------
(* decrypt_mnemonic, decrypt_seed, ...: the read lock is held from the     *)
(* emptiness check until the key material is decrypted.                    *)

\* tokio's RwLock queues a reader behind a writer that waits.
WriterWaits == \E c \in Calls : at[c] = "write" \/ task[c] = "waking"

ReadBegin(r) ==
  /\ r \notin reading
  /\ ~WriterWaits
  /\ ~IsLocked
  /\ reading' = reading \cup {r}
  /\ UNCHANGED <<at, kind, identities, mutex, slot, taskVars, old>>

ReadEnd(r) ==
  /\ r \in reading
  /\ reading' = reading \ {r}
  /\ UNCHANGED <<at, kind, identities, mutex, slot, taskVars, old>>

-----------------------------------------------------------------------------
Call(c) == \/ TakeSlot(c) \/ Join(c) \/ UnlockWrite(c) \/ LockWrite(c)
Timer(c) == Wake(c) \/ Relock(c)

LockNext ==
  \/ \E c \in Calls : \/ Refuse(c) \/ Begin(c) \/ Call(c) \/ CallDropped(c)
                      \/ Timer(c) \/ Cancelled(c)
  \/ \E r \in Readers : ReadBegin(r) \/ ReadEnd(r)

LockSpec == LockInit /\ [][LockNext]_lockVars

\* Every started call and every re-lock task is polled, and tokio's Mutex is
\* FIFO, so that a waiting call gets it.
LockFairness ==
  /\ \A c \in Calls : SF_lockVars(Call(c)) /\ SF_lockVars(Timer(c)) /\ WF_lockVars(Cancelled(c))
  /\ \A r \in Readers : WF_lockVars(ReadEnd(r))

LockFairSpec == LockSpec /\ LockFairness

-----------------------------------------------------------------------------
(* Properties.                                                             *)

\* The state of KeyStore::unlock, lock and the re-lock tasks is well formed,
\* and only a call inside its critical section holds the relock_task mutex.
LockTypeOK ==
  /\ at \in [Calls -> {"idle", "refused", "mutex", "join", "write", "done", "timedout",
                    "dropped"}]
  /\ kind \in [Calls -> {"unlock", "lock"}]
  /\ identities \in Calls \cup {NoCall, FromFile}
  /\ mutex \in {c \in Calls : at[c] \in {"join", "write"}} \cup {NoCall}
  /\ slot \in Calls \cup {NoCall}
  /\ task \in [Calls -> {"none", "sleeping", "waking", "finished"}]
  /\ killed \subseteq Calls
  /\ old \in [Calls -> Calls \cup {NoCall}]
  /\ reading \subseteq Readers

\* No request's future was dropped between its taking the re-lock task out of
\* the slot and its writing the identities.
NoneDropped == \A c \in Calls : at[c] # "dropped"

\* "If uses_encrypted_identities returns true, is_locked returns true when
\* unlocked_until returns None" (keystore.rs:310): whenever the relock_task
\* mutex is free, so that unlocked_until can answer, unlocked key material
\* has a live re-lock task that will clear it, unless a request that held the
\* mutex was dropped.
UnlockedHasDeadline ==
  (Encrypted /\ NoneDropped /\ mutex = NoCall /\ ~IsLocked) =>
    (HasDeadline /\ slot = identities)

\* The same sentence of the documentation as it stands, with requests of
\* walletpassphrase and walletlock that the RPC timeout may drop anywhere.
LockedWithoutDeadline == (Encrypted /\ mutex = NoCall /\ ~HasDeadline) => IsLocked

\* "zero possibility of the `decrypted_identities` write below being cleared"
\* (keystore.rs:403): what one unlock loaded is taken away only by its own
\* timeout or by an explicit walletlock, never by the timer of an earlier
\* unlock, however the abort races with the timer.
OnlyOwnTimeoutLocks ==
  [][(NoneDropped /\ ~IsLocked /\ IsLocked') =>
       \/ task[identities] = "waking" /\ task'[identities] = "finished"
       \/ \E c \in Calls : kind[c] = "lock" /\ at[c] = "write" /\ at'[c] = "done"]_lockVars

\* A decryption in progress never has the identities swapped or cleared under
\* it by a lock, an unlock or a timer.
DecryptionUndisturbed == [][reading # {} => identities' = identities]_lockVars

\* Nobody's session is disturbed: no lock comes early, and none during a
\* decryption.
SessionsUndisturbed == OnlyOwnTimeoutLocks /\ DecryptionUndisturbed

\* The keystore does not stay unlocked for ever: once no further call comes,
\* the timer of the last unlock locks it again.
EventuallyRelocked == Encrypted => <>[](NoneDropped => IsLocked)

\* Every call that got past its checks is answered, although it waits for the
\* mutex, an aborted task and readers, and although the holder of the mutex
\* may itself be dropped by the RPC timeout.
CallsAnswered ==
  \A c \in Calls : (at[c] = "mutex") ~> (at[c] \in {"done", "timedout", "dropped"})
=============================================================================
