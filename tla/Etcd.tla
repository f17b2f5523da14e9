-------------------------------- MODULE Etcd -------------------------------
(***************************************************************************)
(* The keys ogorod keeps in etcd for one repository, and the transactions  *)
(* etcd.go runs on them.  Each operator below is one etcd request, so it   *)
(* is atomic; what is not atomic in the code (BumpVersion reads, then      *)
(* writes) is two requests in the modules that use this one.  An operator  *)
(* constrains the key it writes; its user says what stays.                 *)
(***************************************************************************)
EXTENDS Git

CONSTANTS
  Pushers,     \* who can own the lock, one session at a time each
  NoOwner,     \* the value of a free lock
  DeadSession  \* the owner of a key nobody will delete: its lease must expire

ASSUME OwnerAssumption ==
  NoOwner \notin Pushers /\ DeadSession \notin Pushers /\ NoOwner # DeadSession

VARIABLES
  refs,      \* /ogorod/refs/<repo>/<ref>
  head,      \* /ogorod/refs/<repo>/HEAD
  version,   \* /ogorod/version/<repo>, 0 when unset
  lock       \* the owner of the first key under /ogorod/lock/<repo>

etcdVars == <<refs, head, version, lock>>

EtcdTypeOK ==
  /\ refs \in RefMap
  /\ head \in Head
  /\ version \in Nat
  /\ lock \in Pushers \cup {NoOwner, DeadSession}

EtcdInit ==
  /\ refs = NoRefs
  /\ head = NoRef
  /\ version = 0
  /\ lock = NoOwner

-----------------------------------------------------------------------------

\* The transaction of an update of the refs in rs, from old to new.  Its
\* If-clauses: OldSha "" compares the create revision with 0, any other
\* OldSha compares the value.
Compares(rs, old) == \A r \in rs : refs[r] = old[r]

\* Its Then-clause: NewSha "" deletes the key.
Puts(rs, new) == refs' = [r \in Refs |-> IF r \in rs THEN new[r] ELSE refs[r]]

\* A transaction that puts without comparing.
UncheckedUpdate(rs, old, new) == Puts(rs, new)

\* The successful transaction; it fails when ~Compares(rs, old).
UpdateRefsCAS(rs, old, new) == Compares(rs, old) /\ Puts(rs, new)

PutRefForce(r, v) == refs' = [refs EXCEPT ![r] = v]

\* A HEAD that every push overwrites.
OverwriteHEAD(r) == head' = r

PutHEADIfMissing(r) == head' = IF head = NoRef THEN r ELSE head

PutVersion(v) == version' = v

\* A lock that does not wait for its owner.
StealLock(c) == lock' = c

\* Each request opens its own session, so a key left by an earlier one is
\* waited for like anybody else's.
AcquireLock(c) == lock = NoOwner /\ lock' = c

\* An Unlock that closes nothing.
KeepLock(c) == lock' = lock

\* Deletes the session's own key, which may be gone already.
Unlock(c) == lock' = IF lock = c THEN NoOwner ELSE lock

\* Unlock under a cancelled context: the delete is never sent, Close stops
\* the keepalive, and the key stays until the lease runs out.
Abandon(c) == lock' = IF lock = c THEN DeadSession ELSE lock

\* etcd drops the keys of a lease that was not kept alive.
Expire == lock' = NoOwner
=============================================================================
