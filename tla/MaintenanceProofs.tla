-------------------------- MODULE MaintenanceProofs ------------------------
(***************************************************************************)
(* Users, gcs and repacks on one bucket, any number of each, started and   *)
(* stopped at will and without a lock.  repack deletes nothing it has not  *)
(* packed; and if operators check first and users run no git gc, whatever  *)
(* a ref reaches stays readable, and fetches that nothing overtakes find   *)
(* it all.                                                                 *)
(***************************************************************************)
EXTENDS Maintenance, HelperProofs

\* How far a repack has brought what is left of the objects it listed.
RepackInv(j) ==
  /\ task[j] = "repackGet" =>
       (listed[j] \ pending[j]) \cap looseKeys \subseteq marked[j]
  /\ task[j] = "repackIdx" =>
       listed[j] \cap looseKeys \subseteq marked[j] /\ marked[j] \in packKeys
  /\ task[j] = "repackDelete" => pending[j] \cap looseKeys \subseteq Stored

JobsInv ==
  /\ \A f \in {task, listed, pending, marked} : DOMAIN f = Jobs
  /\ \A j \in Jobs : RepackInv(j)

\* Nothing is ever written to the loose area, or taken out of the packs.
Onward ==
  /\ looseKeys' \subseteq looseKeys
  /\ packKeys \subseteq packKeys' /\ idxKeys \subseteq idxKeys'

LEMMA UserOnward ==
  ASSUME NEW u \in Users, User(u) PROVE Onward /\ UNCHANGED jobVars
<1>1. CASE List(u)
  <2>1. Step(u)
    BY <1>1 DEF List, Step
  <2> QED BY <1>1, <2>1, BucketGrows DEF List, Onward, jobVars
<1>2. CASE GetLoose(u) \/ GetMissing(u)
  BY <1>2 DEF GetLoose, GetMissing, Onward, legacyVars, jobVars, s3Vars
<1>3. CASE /\ \/ Commit(u) \/ CollectGarbage(u)
              \/ HandleFetch(u) \/ HandlePush(u) \/ HandleEOF(u)
              \/ LoadListPacks(u) \/ LoadPack(u) \/ WalkFetched(u)
              \/ RunPushes(u) \/ Die(u)
           /\ UNCHANGED legacyVars
  <2>1. Step(u)
    BY <1>3 DEF Step, RunFetches, WalkFetched
  <2> QED BY <1>3, <2>1, BucketGrows DEF Onward, legacyVars, jobVars
<1> QED BY <1>1, <1>2, <1>3 DEF User

\* A job that takes no step keeps what it has reached.
LEMMA JobFrame ==
  ASSUME NEW j, RepackInv(j), Onward,
         task'[j] = task[j], listed'[j] = listed[j],
         pending'[j] = pending[j], marked'[j] = marked[j]
  PROVE  RepackInv(j)'
  BY StoredGrows DEF RepackInv, Onward

\* What the steps of one job leave alone.
LEMMA JobStep ==
  ASSUME JobsInv, NEW j \in Jobs, Gc(j) \/ Repack(j) \/ Stop(j)
  PROVE  /\ Onward
         /\ \A f \in {task', listed', pending', marked'} : DOMAIN f = Jobs
         /\ \A i \in Jobs \ {j} : /\ task'[i] = task[i] /\ listed'[i] = listed[i]
                                  /\ pending'[i] = pending[i] /\ marked'[i] = marked[i]
<1> USE DEF JobsInv, Onward
<1>1. CASE GcListRefs(j) \/ GcVisit(j) \/ GcListAll(j)
  BY <1>1 DEF GcListRefs, GcVisit, GcListAll, Rest, Finish, vars, s3Vars
<1>2. CASE DeleteNext(j)
  BY <1>2 DEF DeleteNext, Rest, Finish, Delete, vars, s3Vars
<1>3. CASE RepackListAll(j) \/ RepackGet(j) \/ Stop(j)
  BY <1>3 DEF RepackListAll, RepackGet, Stop, Rest, Finish, vars, s3Vars
<1>4. CASE RepackPutPack(j) \/ RepackPutIdx(j)
  BY <1>4 DEF RepackPutPack, RepackPutIdx, PutPackKey, PutIdxKey
<1> QED
  BY <1>1, <1>2, <1>3, <1>4 DEF Gc, Repack, GcDelete, RepackDelete

\* And how far the job itself gets.
LEMMA RepackStep ==
  ASSUME JobsInv, NEW j \in Jobs, Gc(j) \/ Repack(j) \/ Stop(j)
  PROVE  RepackInv(j)'
<1> USE DEF JobsInv, RepackInv
<1>1. CASE GcListRefs(j) \/ GcVisit(j) \/ GcListAll(j) \/ Stop(j)
  BY <1>1 DEF GcListRefs, GcVisit, GcListAll, Stop, Rest, Finish
<1>2. CASE GcDelete(j)
  BY <1>2 DEF GcDelete, DeleteNext, Rest, Finish
<1>3. CASE RepackListAll(j)
  BY <1>3 DEF RepackListAll
<1>4. CASE RepackGet(j)
  BY <1>4 DEF RepackGet, Rest
<1>5. CASE RepackPutPack(j)
  BY <1>5 DEF RepackPutPack, PutPackKey
<1>6. CASE RepackPutIdx(j)
  <2>1. marked[j] \subseteq Stored'
    BY <1>6 DEF RepackPutIdx, PutIdxKey, Stored, Whole
  <2> QED BY <1>6, <2>1 DEF RepackPutIdx
<1>7. CASE RepackDelete(j)
  <2>1. Stored' = Stored
    BY <1>7 DEF RepackDelete, DeleteNext, vars, s3Vars, Stored, Whole
  <2> QED BY <1>7, <2>1 DEF RepackDelete, DeleteNext, Delete, Rest, Finish
<1> QED
  BY <1>1, <1>2, <1>3, <1>4, <1>5, <1>6, <1>7 DEF Gc, Repack

LEMMA JobsInit == LegacyInit => JobsInv
  BY DEF LegacyInit, JobsInv, RepackInv

LEMMA JobsNext ==
  ASSUME JobsInv, [MaintenanceNext]_allVars PROVE JobsInv'
<1>1. ASSUME NEW u \in Users, User(u) PROVE JobsInv'
  BY <1>1, UserOnward, JobFrame DEF JobsInv, jobVars
<1>2. ASSUME NEW j \in Jobs, Gc(j) \/ Repack(j) \/ Stop(j) PROVE JobsInv'
  BY <1>2, JobStep, RepackStep, JobFrame DEF JobsInv
<1>3. CASE UNCHANGED allVars
  BY <1>3, JobFrame DEF JobsInv, Onward, allVars, legacyVars, jobVars, vars, s3Vars
<1> QED BY <1>1, <1>2, <1>3 DEF MaintenanceNext

\* An object that repackMain deletes can still be read from a pack, whatever
\* gcs, other repacks and users do meanwhile and wherever any of them stops:
\* what it could not read when its turn came was gone for good.
THEOREM RepackKeepsAll == MaintenanceSpec => RepackLosesNothing
<1>1. JobsInv /\ [MaintenanceNext]_allVars => JobsInv'
  BY JobsNext
<1>2. JobsInv /\ [MaintenanceNext]_allVars =>
        [\A j \in Jobs : task[j] = "repackDelete" /\ looseKeys' # looseKeys
           /\ pending'[j] # pending[j] => Readable \subseteq Readable']_allVars
  <2> SUFFICES ASSUME JobsInv, [MaintenanceNext]_allVars,
                      NEW j \in Jobs, task[j] = "repackDelete",
                      looseKeys' # looseKeys, pending'[j] # pending[j]
               PROVE  Readable \subseteq Readable'
    OBVIOUS
  <2>1. PICK i \in Jobs : Gc(i) \/ Repack(i) \/ Stop(i)
    BY UserOnward DEF MaintenanceNext, jobVars, allVars, legacyVars
  <2>2. i = j
    BY <2>1, JobStep
  <2>3. RepackDelete(j)
    BY <2>1, <2>2
    DEF Gc, GcListRefs, GcVisit, GcListAll, GcDelete, Repack, RepackListAll,
        RepackGet, RepackPutPack, RepackPutIdx, Stop
  <2>4. PICK c \in pending[j] : looseKeys' = looseKeys \ {c}
    BY <2>3 DEF RepackDelete, DeleteNext, Delete
  <2>5. c \in looseKeys => c \in Stored
    BY <2>4 DEF JobsInv, RepackInv
  <2>6. Stored' = Stored
    BY <2>3 DEF RepackDelete, DeleteNext, vars, s3Vars, Stored, Whole
  <2> QED BY <2>4, <2>5, <2>6 DEF Readable
<1> QED
  BY <1>1, <1>2, JobsInit, PTL DEF MaintenanceSpec, RepackLosesNothing

-----------------------------------------------------------------------------
(* Types.                                                                  *)

\* The step of a user is one of Helper's, or one of the two that ask for a
\* loose object; only a new list forgets what was deleted.
LEMMA UserStep ==
  ASSUME NEW u \in Users, User(u)
  PROVE  /\ Step(u) \/ GetLoose(u) \/ GetMissing(u)
         /\ UNCHANGED <<looseKeys, task, listed, pending, marked>>
         /\ \/ raced' = raced
            \/ HandleList(u) /\ raced' = [raced EXCEPT ![u] = FALSE]
<1>1. CASE List(u)
  BY <1>1 DEF List, Step, jobVars
<1>2. CASE GetLoose(u) \/ GetMissing(u)
  BY <1>2 DEF GetLoose, GetMissing, legacyVars
<1>3. CASE /\ \/ Commit(u) \/ CollectGarbage(u)
              \/ HandleFetch(u) \/ HandlePush(u) \/ HandleEOF(u)
              \/ LoadListPacks(u) \/ LoadPack(u) \/ WalkFetched(u)
              \/ RunPushes(u) \/ Die(u)
           /\ UNCHANGED legacyVars
  BY <1>3 DEF Step, RunFetches, WalkFetched, legacyVars
<1> QED BY <1>1, <1>2, <1>3 DEF User

LEMMA UserType ==
  ASSUME MaintenanceTypeOK, NEW u \in Users, User(u)
  PROVE  MaintenanceTypeOK'
<1>1. TypeOK'
  <2>1. CASE Step(u)
    BY <2>1, TypeStep DEF MaintenanceTypeOK, Next, Step
  <2>2. CASE GetLoose(u)
    <3>1. PICK c \in Commits : loose' = [loose EXCEPT ![u] = @ \cup {c}]
      BY <2>2 DEF GetLoose, Has, MaintenanceTypeOK, LooseTypeOK
    <3> QED
      BY <2>2, <3>1
      DEF MaintenanceTypeOK, TypeOK, EtcdTypeOK, S3TypeOK, GetLoose, etcdVars,
          s3Vars, gitVars, pushVars
  <2>3. CASE GetMissing(u)
    BY <2>3, ExitType
    DEF MaintenanceTypeOK, TypeOK, EtcdTypeOK, GetMissing, etcdVars
  <2> QED BY <2>1, <2>2, <2>3, UserStep
<1>2. LooseTypeOK' /\ raced' \in [Users -> BOOLEAN]
  BY UserStep DEF MaintenanceTypeOK, LooseTypeOK
<1> QED BY <1>1, <1>2, UserStep DEF MaintenanceTypeOK

LEMMA FinishType ==
  ASSUME MaintenanceTypeOK, NEW j \in Jobs, Finish(j)
  PROVE  /\ task' \in [Jobs -> {"idle"} \cup GcSteps \cup RepackSteps]
         /\ listed' \in [Jobs -> SUBSET Commits]
         /\ pending' \in [Jobs -> SUBSET Commits]
         /\ marked' \in [Jobs -> SUBSET Commits]
  BY DEF MaintenanceTypeOK, Finish

LEMMA StillType ==
  ASSUME MaintenanceTypeOK, UNCHANGED vars PROVE TypeOK'
  BY DEF MaintenanceTypeOK, TypeOK, EtcdTypeOK, S3TypeOK, vars, etcdVars,
         s3Vars, localVars, gitVars, pushVars

LEMMA DeleteType ==
  ASSUME MaintenanceTypeOK, NEW j \in Jobs, DeleteNext(j)
  PROVE  MaintenanceTypeOK'
<1>1. PICK c \in pending[j] :
        /\ looseKeys' = looseKeys \ {c}
        /\ raced' = [u \in Users |-> raced[u] \/ Has(c)]
        /\ IF pending[j] = {c} THEN Finish(j)
                               ELSE Rest(j, pending[j] \ {c}) /\ UNCHANGED marked
  BY DEF DeleteNext, Delete
<1>2. LooseTypeOK' /\ raced' \in [Users -> BOOLEAN]
  BY <1>1 DEF MaintenanceTypeOK, LooseTypeOK, Has
<1>3. CASE pending[j] = {c}
  BY <1>1, <1>2, <1>3, FinishType, StillType DEF MaintenanceTypeOK, DeleteNext
<1>4. CASE pending[j] # {c}
  BY <1>1, <1>2, <1>4, StillType DEF MaintenanceTypeOK, DeleteNext, Rest
<1> QED BY <1>3, <1>4

LEMMA JobType ==
  ASSUME MaintenanceTypeOK, NEW j \in Jobs, Gc(j) \/ Repack(j) \/ Stop(j)
  PROVE  MaintenanceTypeOK'
<1> USE DEF LooseTypeOK, ListAll
<1>1. CASE DeleteNext(j)
  BY <1>1, DeleteType
<1>2. CASE Stop(j)
  BY <1>2, FinishType, StillType DEF MaintenanceTypeOK, Stop
<1>3. CASE GcListRefs(j)
  <2>1. Roots \in SUBSET Commits
    BY DEF Roots, MaintenanceTypeOK, TypeOK, EtcdTypeOK, RefMap, Sha
  <2> QED
    BY <1>3, <2>1, StillType DEF MaintenanceTypeOK, GcListRefs, GcSteps
<1>4. CASE GcVisit(j)
  <2>1. PICK c \in pending[j] :
          LET seen     == marked[j] \cup {c}
              children == IF Has(c) THEN Parents[c] ELSE {}
          IN  /\ marked' = [marked EXCEPT ![j] = seen]
              /\ Rest(j, (pending[j] \cup children) \ seen)
    BY <1>4 DEF GcVisit
  <2>2. c \in Commits /\ Parents[c] \in SUBSET Commits
    BY <2>1, ParentsAssumption DEF MaintenanceTypeOK
  <2>3. marked' \in [Jobs -> SUBSET Commits] /\ pending' \in [Jobs -> SUBSET Commits]
    BY <2>1, <2>2 DEF MaintenanceTypeOK, Rest
  <2> QED
    BY <1>4, <2>1, <2>3, StillType DEF MaintenanceTypeOK, GcVisit, Rest
<1>5. CASE GcListAll(j)
  <2>1. CASE Finish(j)
    BY <1>5, <2>1, FinishType, StillType DEF MaintenanceTypeOK, GcListAll
  <2>2. CASE ~Finish(j)
    BY <1>5, <2>2, StillType DEF MaintenanceTypeOK, GcListAll, GcSteps
  <2> QED BY <2>1, <2>2
<1>6. CASE RepackListAll(j)
  BY <1>6, StillType DEF MaintenanceTypeOK, RepackListAll, RepackSteps
<1>7. CASE RepackGet(j)
  <2>1. PICK c \in pending[j] :
          /\ marked' = [marked EXCEPT ![j] = @ \cup ({c} \cap looseKeys)]
          /\ Rest(j, pending[j] \ {c})
    BY <1>7 DEF RepackGet
  <2> QED
    BY <1>7, <2>1, StillType DEF MaintenanceTypeOK, RepackGet, Rest
<1>8. CASE RepackPutPack(j) \/ RepackPutIdx(j)
  <2>1. S3TypeOK'
    BY <1>8
    DEF MaintenanceTypeOK, TypeOK, S3TypeOK, RepackPutPack, RepackPutIdx,
        PutPackKey, PutIdxKey, Pack
  <2>2. TypeOK'
    BY <1>8, <2>1
    DEF MaintenanceTypeOK, TypeOK, EtcdTypeOK, RepackPutPack, RepackPutIdx,
        etcdVars, localVars, gitVars, pushVars
  <2> QED
    BY <1>8, <2>2
    DEF MaintenanceTypeOK, RepackPutPack, RepackPutIdx, RepackSteps
<1> QED
  BY <1>1, <1>2, <1>3, <1>4, <1>5, <1>6, <1>7, <1>8
  DEF Gc, Repack, GcDelete, RepackDelete

LEMMA LegacyInitType == LegacyInit => MaintenanceTypeOK
<1> SUFFICES ASSUME LegacyInit PROVE MaintenanceTypeOK
  OBVIOUS
<1>1. EtcdTypeOK /\ S3TypeOK
  BY DEF LegacyInit, EtcdTypeOK, S3Init, S3TypeOK, Head
<1>2. at \in [Users -> Steps] /\ up \in [Users -> Pack]
  BY DEF LegacyInit, UsersInit, Steps, Pack
<1>3. TypeOK
  BY <1>1, <1>2, NoRefsType DEF LegacyInit, UsersInit, TypeOK, Head, Pack
<1> QED
  BY <1>3 DEF LegacyInit, MaintenanceTypeOK, LooseTypeOK

LEMMA MaintenanceTypeStep ==
  ASSUME MaintenanceTypeOK, [MaintenanceNext]_allVars PROVE MaintenanceTypeOK'
<1>1. CASE UNCHANGED allVars
  BY <1>1, StillType DEF MaintenanceTypeOK, LooseTypeOK, allVars, legacyVars, jobVars
<1> QED BY <1>1, UserType, JobType DEF MaintenanceNext

\* Users, gcs and repacks keep every variable in its type, in whatever order
\* they run, careful or not.
THEOREM MaintenanceTypeCorrect == MaintenanceSpec => []MaintenanceTypeOK
  BY LegacyInitType, MaintenanceTypeStep, PTL DEF MaintenanceSpec

-----------------------------------------------------------------------------
(* One user's push, in a bucket with loose objects.                        *)

\* What an upload may rest on besides its own pack: the packs on S3, and the
\* values the snapshot of the push has for the refs, packed or loose.
OldTips(u) == {old[u][r] : r \in Refs} \ {NoSha}
Known(u)   == Stored \cup OldTips(u)

\* The packs of a repository are whole on S3, and only a push has a snapshot.
CloneInv(u) ==
  /\ packs[u] \subseteq Whole
  /\ at[u] = "snapshot" => Commands(u) # {}
  /\ old[u] # NoRefs => at[u] \in PushSteps /\ Commands(u) # {}

\* What is left to upload and to force, and that the repository has it.
QueueInv(u) ==
  /\ at[u] \in Uploading =>
       \A r \in ToUpload(u) : Reach[want[u][r]] \subseteq Objects(u)
  /\ at[u] \in {"listPacks", "download"} => queue[u] = ToUpload(u)
  /\ at[u] \in {"upload", "putIdx"} => queue[u] \subseteq ToUpload(u)
  /\ at[u] = "force" => queue[u] \subseteq Forced(u)
  /\ at[u] \in {"idle", "listed"} => Commands(u) = {} /\ queue[u] = {}

\* The new value of a ref that has left the queue is known or under way.
CoveredInv(u) ==
  /\ at[u] \in {"upload", "putIdx"} =>
       \A r \in ToUpload(u) \ queue[u] : want[u][r] \in Known(u) \cup up[u]
  /\ at[u] \in Uploaded => \A r \in ToUpload(u) : want[u][r] \in Known(u)

\* A pack between its two PUTs has the parents of all it holds, or they are
\* known.
HalfPutInv(u) ==
  /\ IF at[u] = "putIdx" THEN up[u] \in packKeys ELSE up[u] = {}
  /\ \A c \in up[u] : Parents[c] \subseteq Known(u) \cup up[u]

PusherInv(u) == CloneInv(u) /\ QueueInv(u) /\ CoveredInv(u) /\ HalfPutInv(u)

LEMMA PusherFrame ==
  ASSUME NEW v, PusherInv(v), Same(v),
         packKeys \subseteq packKeys', idxKeys \subseteq idxKeys'
  PROVE  PusherInv(v)'
<1>1. Whole \subseteq Whole' /\ Stored \subseteq Stored'
  BY StoredGrows
<1>2. /\ Commands(v)' = Commands(v) /\ ToUpload(v)' = ToUpload(v)
      /\ Forced(v)' = Forced(v) /\ Objects(v)' = Objects(v)
      /\ Known(v) \subseteq Known(v)'
  BY <1>1, SameAsked DEF Same, Objects, Known, OldTips
<1>3. CloneInv(v)' /\ QueueInv(v)'
  BY <1>1, <1>2 DEF PusherInv, CloneInv, QueueInv, Same
<1>4. CoveredInv(v)' /\ HalfPutInv(v)'
  BY <1>2 DEF PusherInv, CoveredInv, HalfPutInv, Same
<1> QED BY <1>3, <1>4 DEF PusherInv

LEMMA PusherExit ==
  ASSUME TypeOK, NEW u \in Users, PusherInv(u), Exit(u),
         UNCHANGED <<packKeys, idxKeys, loose, packs>>
  PROVE  PusherInv(u)'
<1>1. /\ at'[u] = "idle" /\ adv'[u] = NoRefs /\ want'[u] = NoRefs
      /\ old'[u] = NoRefs /\ up'[u] = {} /\ queue'[u] = {}
  BY DEF TypeOK, Exit, Goto
<1>2. Whole' = Whole /\ Commands(u)' = {}
  BY <1>1 DEF Whole, Commands, Changed
<1>3. CloneInv(u)' /\ QueueInv(u)'
  BY <1>1, <1>2 DEF PusherInv, CloneInv, QueueInv, Uploading
<1> QED
  BY <1>1, <1>3 DEF PusherInv, CoveredInv, HalfPutInv, Uploaded

LEMMA PusherGit ==
  ASSUME TypeOK, NEW u \in Users, PusherInv(u),
         \/ Commit(u) \/ HandleList(u) \/ HandleFetch(u) \/ HandlePush(u)
         \/ GetLoose(u)
  PROVE  PusherInv(u)'
<1> USE DEF s3Vars, gitVars, pushVars, localVars, PushSteps
<1>1. /\ UNCHANGED <<packKeys, idxKeys, packs, old, up, queue>>
      /\ Whole' = Whole /\ up[u] = {}
  BY DEF Commit, HandleList, HandleFetch, HandlePush, GetLoose, Whole,
         PusherInv, HalfPutInv
<1>2. CASE HandlePush(u)
  <2>1. /\ at'[u] = "snapshot" /\ Objects(u)' = Objects(u) /\ old[u] = NoRefs
    BY <1>1, <1>2 DEF TypeOK, HandlePush, Goto, Objects, PusherInv, CloneInv
  <2>2. PICK new \in RefMap :
          /\ want'[u] = new /\ adv'[u] = adv[u] /\ new # adv[u]
          /\ \A r \in Changed(adv[u], new) :
               new[r] # NoSha => Complete(u, new[r])
    BY <1>2 DEF TypeOK, HandlePush
  <2>3. \A r \in ToUpload(u)' : Reach[want'[u][r]] \subseteq Objects(u)
    BY <2>2 DEF ToUpload, Deleted, Commands, Complete
  <2>4. Commands(u)' # {}
    <3>1. adv[u] \in RefMap
      BY DEF TypeOK
    <3> QED
      BY <2>2, <3>1 DEF Commands, Changed, RefMap
  <2>5. CloneInv(u)' /\ QueueInv(u)'
    BY <1>1, <2>1, <2>3, <2>4 DEF PusherInv, CloneInv, QueueInv, Uploading
  <2> QED
    BY <1>1, <2>1, <2>5 DEF PusherInv, CoveredInv, HalfPutInv, Uploaded
<1>3. CASE ~HandlePush(u)
  <2>1. /\ Commands(u)' = Commands(u) \/ Commands(u)' = {}
        /\ at[u] # "walk" => Commands(u) = {} /\ queue[u] = {}
        /\ at[u] \in {"idle", "listed", "walk"}
        /\ at'[u] \in {"idle", "listed", "listPacks", "walk"}
        /\ at'[u] # "walk" <=> at[u] # "walk"
    <3>1. CASE HandleList(u)
      BY <3>1 DEF TypeOK, HandleList, Goto, Commands, Changed, PusherInv, QueueInv
    <3>2. CASE Commit(u) \/ HandleFetch(u) \/ GetLoose(u)
      BY <3>2
      DEF TypeOK, Commit, HandleFetch, GetLoose, Goto, Commands, Changed,
          PusherInv, QueueInv
    <3> QED BY <1>3, <3>1, <3>2
  <2>2. old[u] = NoRefs
    BY <2>1 DEF PusherInv, CloneInv
  <2>3. at'[u] # "walk" => ToUpload(u)' = {} /\ Commands(u)' = {}
    BY <2>1 DEF ToUpload
  <2>4. CloneInv(u)' /\ QueueInv(u)'
    BY <1>1, <2>1, <2>2, <2>3 DEF PusherInv, CloneInv, QueueInv, Uploading
  <2> QED
    BY <1>1, <2>1, <2>4 DEF PusherInv, CoveredInv, HalfPutInv, Uploaded
<1> QED BY <1>2, <1>3

LEMMA PusherLoad ==
  ASSUME TypeOK, NEW u \in Users, PusherInv(u), LoadListPacks(u) \/ LoadPack(u)
  PROVE  PusherInv(u)'
<1>0. /\ UNCHANGED <<packKeys, idxKeys, loose, adv, want, force, old, up, queue>>
      /\ Whole' = Whole /\ Known(u)' = Known(u)
      /\ at[u] \in {"listPacks", "download"} /\ up[u] = {} /\ queue[u] = ToUpload(u)
  BY DEF LoadListPacks, LoadPack, Whole, Known, Stored, OldTips, PusherInv,
         HalfPutInv, QueueInv, s3Vars, gitVars, localVars, pushVars
<1>1. PICK rest : at'[u] = AfterDownload(u, rest)
  <2>1. \E rest : Goto(u, AfterDownload(u, rest))
    BY DEF LoadListPacks, LoadPack
  <2> QED
    BY <2>1 DEF TypeOK, Goto
<1>2. packs'[u] \subseteq Whole /\ Objects(u) \subseteq Objects(u)'
  <2>1. \/ packs' = packs
        \/ \E p \in Whole : packs' = [packs EXCEPT ![u] = @ \cup {p}]
    BY DEF TypeOK, LoadListPacks, LoadPack, localVars
  <2> QED
    BY <1>0, <2>1 DEF TypeOK, Objects, PusherInv, CloneInv
<1>3. ToUpload(u)' = ToUpload(u) /\ Commands(u)' = Commands(u)
  BY <1>0, SameAsked
<1>4. /\ at'[u] \in {"download", "walk", "upload", "cas"}
      /\ at'[u] = "cas" => ToUpload(u) = {}
      /\ at'[u] = "walk" => Commands(u) = {}
  BY <1>1 DEF AfterDownload, AfterUpload
<1>5. CloneInv(u)'
  BY <1>0, <1>2, <1>3, <1>4 DEF PusherInv, CloneInv, PushSteps
<1>6. QueueInv(u)'
  <2>1. \A r \in ToUpload(u) : Reach[want[u][r]] \subseteq Objects(u)
    BY <1>0 DEF PusherInv, QueueInv, Uploading
  <2> QED
    BY <1>0, <1>2, <1>3, <1>4, <2>1 DEF QueueInv
<1>7. CoveredInv(u)' /\ HalfPutInv(u)'
  BY <1>0, <1>3, <1>4 DEF CoveredInv, HalfPutInv, Uploaded
<1> QED BY <1>5, <1>6, <1>7 DEF PusherInv

LEMMA PusherSnapshot ==
  ASSUME TypeOK, NEW u \in Users, PusherInv(u), Snapshot(u)
  PROVE  PusherInv(u)'
<1>0. /\ UNCHANGED <<packKeys, idxKeys, loose, packs, adv, want, force, up>>
      /\ Whole' = Whole /\ at[u] = "snapshot" /\ up[u] = {}
      /\ at'[u] = "listPacks" /\ queue'[u] = ToUpload(u)
  BY DEF TypeOK, Snapshot, Goto, Whole, PusherInv, HalfPutInv, s3Vars, gitVars,
         localVars
<1>1. /\ ToUpload(u)' = ToUpload(u) /\ Commands(u)' = Commands(u)
      /\ Objects(u)' = Objects(u)
  BY <1>0, SameAsked DEF Objects
<1>2. CloneInv(u)' /\ QueueInv(u)'
  BY <1>0, <1>1 DEF PusherInv, CloneInv, QueueInv, Uploading, PushSteps
<1>3. CoveredInv(u)' /\ HalfPutInv(u)'
  BY <1>0 DEF CoveredInv, HalfPutInv, Uploaded
<1> QED BY <1>2, <1>3 DEF PusherInv

\* The edges of what uploadReachable finds: it stops only at what is known.
LEMMA UploadEdges ==
  ASSUME TypeOK, NEW u \in Users, packs[u] \subseteq Whole,
         NEW root \in Commits, Reach[root] \subseteq Objects(u)
  PROVE  /\ root \in NewObjects(u, root) \cup Known(u)
         /\ \A c \in NewObjects(u, root) :
              Parents[c] \subseteq NewObjects(u, root) \cup Known(u)
<1> DEFINE open == Objects(u) \ StopAt(u)
<1>1. ASSUME NEW c \in Reach[root], c \notin open PROVE c \in Known(u)
  <2>1. c \in StopAt(u) /\ c \in Commits
    BY <1>1, ReachAssumption
  <2> QED
    BY <2>1, NoShaAssumption
    DEF StopAt, RemotePackHashes, Known, Stored, OldTips
<1>2. root \in Reach[root] /\ (root \in open => root \in NewObjects(u, root))
  BY ReachAssumption DEF NewObjects
<1>3. ASSUME NEW c \in NewObjects(u, root), NEW d \in Parents[c]
      PROVE  d \in NewObjects(u, root) \cup Known(u)
  <2>1. d \in Reach[root]
    BY UploadReachable, ReachAssumption, ParentsAssumption
  <2>2. d \in open => d \in NewObjects(u, root)
    BY DEF NewObjects
  <2> QED BY <1>1, <2>1, <2>2
<1> QED BY <1>1, <1>2, <1>3

LEMMA PusherUpload ==
  ASSUME TypeOK, NEW u \in Users, PusherInv(u), Upload(u)
  PROVE  PusherInv(u)'
<1>0. /\ UNCHANGED <<adv, want, force, old, loose, packs>>
      /\ at[u] = "upload" /\ up[u] = {}
  BY DEF Upload, PusherInv, HalfPutInv, gitVars, localVars
<1>1. PICK r \in queue[u] :
        /\ queue'[u] = queue[u] \ {r}
        /\ IF NewObjects(u, want[u][r]) = {}
             THEN /\ at'[u] = AfterUpload(queue[u] \ {r})
                  /\ UNCHANGED <<packKeys, idxKeys, up>>
             ELSE /\ at'[u] = "putIdx"
                  /\ PutPackKey(NewObjects(u, want[u][r]))
                  /\ up'[u] = NewObjects(u, want[u][r])
  BY DEF Upload, TypeOK, Goto, s3Vars
<1> DEFINE root == want[u][r]
           new  == NewObjects(u, root)
<1>2. r \in ToUpload(u) /\ root \in Commits /\ Reach[root] \subseteq Objects(u)
  BY <1>0, BackedValue DEF PusherInv, QueueInv, Uploading
<1>3. /\ root \in new \cup Known(u)
      /\ \A c \in new : Parents[c] \subseteq new \cup Known(u)
  BY <1>2, UploadEdges DEF PusherInv, CloneInv
<1>4. packKeys \subseteq packKeys' /\ idxKeys \subseteq idxKeys'
  BY <1>1 DEF PutPackKey
<1>5. Whole \subseteq Whole' /\ Known(u) \subseteq Known(u)'
  BY <1>0, <1>4, StoredGrows DEF Known, OldTips
<1>6. /\ ToUpload(u)' = ToUpload(u) /\ Commands(u)' = Commands(u)
      /\ Forced(u)' = Forced(u) /\ Objects(u)' = Objects(u)
  BY <1>0, SameAsked DEF Objects
<1>7. /\ at'[u] \in {"upload", "putIdx", "cas"}
      /\ at'[u] = "cas" => queue'[u] = {}
      /\ at'[u] = "putIdx" => up'[u] = new /\ new \in packKeys'
      /\ at'[u] # "putIdx" => up'[u] = {} /\ new = {}
  BY <1>0, <1>1 DEF AfterUpload, PutPackKey
<1>8. CloneInv(u)' /\ QueueInv(u)'
  BY <1>0, <1>1, <1>5, <1>6, <1>7
  DEF PusherInv, CloneInv, QueueInv, Uploading, PushSteps
<1>9. CoveredInv(u)'
  <2>1. \A q \in ToUpload(u) \ queue'[u] : want[u][q] \in Known(u) \cup new
    BY <1>0, <1>1, <1>3 DEF PusherInv, CoveredInv
  <2> QED
    BY <1>0, <1>5, <1>6, <1>7, <2>1 DEF CoveredInv, Uploaded
<1>10. HalfPutInv(u)'
  BY <1>3, <1>5, <1>7 DEF HalfPutInv
<1> QED BY <1>8, <1>9, <1>10 DEF PusherInv

LEMMA PusherUploadIdx ==
  ASSUME TypeOK, NEW u \in Users, PusherInv(u), UploadIdx(u)
  PROVE  PusherInv(u)' /\ Stored' = Stored \cup up[u]
<1>0. /\ UNCHANGED <<adv, want, force, old, loose, packs, queue>>
      /\ at[u] = "putIdx" /\ packKeys' = packKeys
      /\ idxKeys' = idxKeys \cup {up[u]} /\ up[u] \in packKeys
      /\ up'[u] = {} /\ at'[u] = AfterUpload(queue[u])
  BY DEF TypeOK, UploadIdx, PutIdxKey, Goto, PusherInv, HalfPutInv, gitVars,
         localVars
<1>1. Whole' = Whole \cup {up[u]}
  BY <1>0 DEF Whole
<1>2. Stored' = Stored \cup up[u] /\ Known(u)' = Known(u) \cup up[u]
  BY <1>0, <1>1 DEF Stored, Known, OldTips
<1>3. /\ ToUpload(u)' = ToUpload(u) /\ Commands(u)' = Commands(u)
      /\ Objects(u)' = Objects(u)
  BY <1>0, SameAsked DEF Objects
<1>4. at'[u] \in {"upload", "cas"} /\ (at'[u] = "cas" => queue[u] = {})
  BY <1>0 DEF AfterUpload
<1>5. CloneInv(u)' /\ QueueInv(u)'
  BY <1>0, <1>1, <1>3, <1>4
  DEF PusherInv, CloneInv, QueueInv, Uploading, PushSteps
<1>6. CoveredInv(u)' /\ HalfPutInv(u)'
  BY <1>0, <1>2, <1>3, <1>4
  DEF PusherInv, CoveredInv, HalfPutInv, Uploaded
<1> QED BY <1>2, <1>5, <1>6 DEF PusherInv

\* The writes of a push put values that are known.
LEMMA PusherWrite ==
  ASSUME TypeOK, NEW u \in Users, PusherInv(u),
         CasRefs(u) \/ CasRejected(u) \/ ForceRef(u) \/ InitHead(u)
  PROVE  /\ PusherInv(u)'
         /\ \A r \in Refs : refs'[r] \in {refs[r], NoSha} \cup Known(u)
<1>0. /\ UNCHANGED <<packKeys, idxKeys, loose, packs, adv, want, force, old, up>>
      /\ at[u] \in {"cas", "force", "initHead"} /\ up[u] = {}
      /\ Whole' = Whole /\ Known(u)' = Known(u)
  BY DEF CasRefs, CasRejected, ForceRef, InitHead, PusherInv, HalfPutInv, Whole,
         Known, Stored, OldTips, s3Vars, gitVars, localVars, pushVars
<1>1. \A r \in ToUpload(u) : want[u][r] \in Known(u)
  BY <1>0 DEF PusherInv, CoveredInv, Uploaded
<1>2. /\ at'[u] \in {"force", "initHead", "report"}
      /\ at'[u] = "force" => queue'[u] \subseteq Forced(u)
  <2>1. CASE CasRefs(u) \/ CasRejected(u)
    BY <2>1, NextStepType DEF TypeOK, CasRefs, CasRejected, Goto
  <2>2. CASE ForceRef(u)
    <3>1. queue[u] \subseteq Forced(u)
      BY <2>2 DEF PusherInv, QueueInv, ForceRef
    <3>2. PICK r \in queue[u] : /\ queue' = [queue EXCEPT ![u] = @ \ {r}]
                                /\ at' = [at EXCEPT ![u] = AfterCas(queue[u] \ {r})]
      BY <2>2 DEF ForceRef, Goto
    <3> QED
      BY <3>1, <3>2, NextStepType DEF TypeOK
  <2>3. CASE InitHead(u)
    BY <2>3 DEF TypeOK, InitHead, Goto
  <2> QED BY <2>1, <2>2, <2>3
<1>3. /\ ToUpload(u)' = ToUpload(u) /\ Forced(u)' = Forced(u)
      /\ Commands(u)' = Commands(u)
  BY <1>0, SameAsked
<1>4. CloneInv(u)' /\ QueueInv(u)'
  BY <1>0, <1>2, <1>3 DEF PusherInv, CloneInv, QueueInv, Uploading, PushSteps
<1>5. CoveredInv(u)' /\ HalfPutInv(u)'
  BY <1>0, <1>1, <1>2, <1>3 DEF CoveredInv, HalfPutInv
<1>6. ASSUME NEW r \in Refs
      PROVE  \/ refs'[r] \in {refs[r], NoSha}
             \/ r \in ToUpload(u) /\ refs'[r] = want[u][r]
  <2>1. CASE CasRefs(u)
    <3>1. refs'[r] = IF r \in Compared(u) THEN want[u][r] ELSE refs[r]
      BY <2>1 DEF CasRefs, UpdateRefsCAS, Puts
    <3> QED
      BY <3>1 DEF Compared, ToUpload, Deleted
  <2>2. CASE CasRejected(u) \/ InitHead(u)
    BY <2>2 DEF CasRejected, InitHead, etcdVars
  <2>3. CASE ForceRef(u)
    <3>1. PICK q \in queue[u] : refs' = [refs EXCEPT ![q] = want[u][q]]
      BY <2>3 DEF ForceRef, PutRefForce
    <3>2. q \in ToUpload(u)
      BY <2>3 DEF PusherInv, QueueInv, ForceRef, Forced, ToUpload
    <3> QED
      BY <3>1, <3>2 DEF TypeOK, EtcdTypeOK, RefMap
  <2> QED BY <2>1, <2>2, <2>3
<1> QED BY <1>1, <1>4, <1>5, <1>6 DEF PusherInv

-----------------------------------------------------------------------------
(* What a step of a user does to etcd and the bucket.                      *)

\* The objects whose histories must stay readable: what is packed, the values
\* of the refs, and those a push has in its snapshot and may build upon.
Seeds  == Stored \cup Roots \cup UNION {OldTips(u) : u \in Users}
Needed == UNION {Reach[c] : c \in Seeds}

BucketInv == TypeOK /\ idxKeys \subseteq packKeys /\ \A u \in Users : PusherInv(u)

LEMMA LooseOthersKeep ==
  ASSUME TypeOK, NEW u \in Users, User(u)
  PROVE  \A v \in Users \ {u} : Same(v)
<1>1. CASE Step(u)
  BY <1>1, OthersKeep
<1>2. CASE GetLoose(u)
  BY <1>2 DEF TypeOK, GetLoose, Same, gitVars, pushVars
<1>3. CASE GetMissing(u)
  BY <1>3, ExitKeeps DEF GetMissing
<1> QED BY <1>1, <1>2, <1>3, UserStep

\* The steps of u that put no pack, snapshot nothing and write no ref.
LEMMA QuietUser ==
  ASSUME BucketInv, NEW u \in Users,
         \/ Commit(u) \/ HandleList(u) \/ HandleFetch(u) \/ HandlePush(u)
         \/ GetLoose(u) \/ LoadListPacks(u) \/ LoadPack(u)
         \/ Exit(u) /\ UNCHANGED <<etcdVars, s3Vars, localVars>>
  PROVE  /\ PusherInv(u)'
         /\ UNCHANGED <<refs, packKeys, idxKeys>>
         /\ old'[u] \in {old[u], NoRefs}
<1>1. PusherInv(u)'
  BY PusherGit, PusherLoad, PusherExit DEF BucketInv, s3Vars, localVars
<1>2. CASE Exit(u) /\ UNCHANGED <<etcdVars, s3Vars, localVars>>
  BY <1>1, <1>2 DEF BucketInv, TypeOK, Exit, etcdVars, s3Vars
<1>3. CASE ~(Exit(u) /\ UNCHANGED <<etcdVars, s3Vars, localVars>>)
  BY <1>1, <1>3
  DEF Commit, HandleList, HandleFetch, HandlePush, GetLoose, LoadListPacks,
      LoadPack, etcdVars, s3Vars, pushVars
<1> QED BY <1>2, <1>3

LEMMA UserMoves ==
  ASSUME BucketInv, LocalGC = "never", NEW u \in Users, User(u)
  PROVE  /\ PusherInv(u)' /\ idxKeys' \subseteq packKeys'
         /\ Stored' \in {Stored, Stored \cup up[u]}
         /\ \A r \in Refs : refs'[r] \in {refs[r], NoSha} \cup Known(u)
         /\ \A r \in Refs : old'[u][r] \in {old[u][r], NoSha, refs[r]}
<1>1. CASE \/ Commit(u) \/ HandleList(u) \/ HandleFetch(u) \/ HandlePush(u)
           \/ GetLoose(u) \/ LoadListPacks(u) \/ LoadPack(u)
           \/ Exit(u) /\ UNCHANGED <<etcdVars, s3Vars, localVars>>
  <2>1. Stored' = Stored
    BY <1>1, QuietUser DEF Stored, Whole
  <2> QED
    BY <1>1, <2>1, QuietUser DEF BucketInv, NoRefs
<1>2. CASE Snapshot(u)
  BY <1>2, PusherSnapshot
  DEF BucketInv, TypeOK, Snapshot, Stored, Whole, etcdVars, s3Vars
<1>3. CASE Upload(u)
  <2>1. refs' = refs /\ old' = old /\ PusherInv(u)'
    BY <1>3, PusherUpload DEF BucketInv, Upload, etcdVars
  <2>2. /\ idxKeys' = idxKeys
        /\ \/ packKeys' = packKeys
           \/ \E p : packKeys' = packKeys \cup {p}
    BY <1>3 DEF Upload, PutPackKey, s3Vars
  <2>3. Whole' = Whole
    BY <2>2 DEF BucketInv, Whole
  <2> QED
    BY <2>1, <2>2, <2>3 DEF BucketInv, Stored
<1>4. CASE UploadIdx(u)
  BY <1>4, PusherUploadIdx
  DEF BucketInv, UploadIdx, PutIdxKey, PusherInv, HalfPutInv, etcdVars
<1>5. CASE CasRefs(u) \/ CasRejected(u) \/ ForceRef(u) \/ InitHead(u)
  <2>1. UNCHANGED <<packKeys, idxKeys, old>>
    BY <1>5 DEF CasRefs, CasRejected, ForceRef, InitHead, s3Vars, pushVars
  <2> QED
    BY <1>5, <2>1, PusherWrite DEF BucketInv, Stored, Whole
<1> QED
  <2>1. ~CollectGarbage(u)
    BY DEF CollectGarbage
  <2> QED
    BY <1>1, <1>2, <1>3, <1>4, <1>5, <2>1, UserStep
    DEF Step, RunFetches, RunPushes, HandleEOF, Walk, Report,
        Die, GetMissing

\* Packs bring the objects P, with their parents or onto what is needed; the
\* refs and the snapshots move among what is needed.
Brings(P) ==
  /\ Stored' = Stored \cup P
  /\ Seeds' \subseteq Seeds \cup P
  /\ \A c \in P : Parents[c] \subseteq Seeds \cup P

LEMMA SeedsType == TypeOK => Seeds \subseteq Commits
  BY DEF TypeOK, EtcdTypeOK, S3TypeOK, Pack, RefMap, Sha, Seeds, Stored, Whole,
         Roots, OldTips

LEMMA UserBrings ==
  ASSUME BucketInv, LocalGC = "never", NEW u \in Users, User(u)
  PROVE  \E P \in SUBSET Commits : Brings(P)
<1>1. PICK P \in {{}, up[u]} : Stored' = Stored \cup P
  BY UserMoves
<1>2. P \in SUBSET Commits
  BY <1>1 DEF BucketInv, TypeOK, Pack
<1>3. Known(u) \subseteq Seeds
  BY DEF Known, Seeds
<1>4. \A c \in P : Parents[c] \subseteq Seeds \cup P
  BY <1>1, <1>3 DEF BucketInv, PusherInv, HalfPutInv
<1>5. Roots' \subseteq Seeds
  BY <1>3, UserMoves DEF Roots, Seeds
<1>6. ASSUME NEW v \in Users PROVE OldTips(v)' \subseteq Seeds
  <2>1. CASE v = u
    BY <2>1, UserMoves DEF OldTips, Seeds, Roots
  <2>2. CASE v # u
    BY <2>2, LooseOthersKeep DEF BucketInv, Same, OldTips, Seeds
  <2> QED BY <2>1, <2>2
<1>7. Seeds' \subseteq Seeds \cup P
  BY <1>1, <1>5, <1>6 DEF Seeds
<1> QED BY <1>1, <1>2, <1>4, <1>7 DEF Brings

LEMMA BucketUser ==
  ASSUME BucketInv, TypeOK', LocalGC = "never", NEW u \in Users, User(u)
  PROVE  BucketInv'
  BY UserMoves, UserOnward, LooseOthersKeep, PusherFrame DEF BucketInv, Onward

LEMMA JobUsers ==
  ASSUME NEW j \in Jobs, Gc(j) \/ Repack(j) \/ Stop(j)
  PROVE  \A v \in Users : Same(v)
  BY DEF Gc, GcListRefs, GcVisit, GcListAll, GcDelete, DeleteNext, Repack,
         RepackListAll, RepackGet, RepackPutPack, RepackPutIdx, RepackDelete, Stop,
         Same, vars, localVars, gitVars, pushVars

LEMMA BucketJob ==
  ASSUME BucketInv, TypeOK', JobsInv, NEW j \in Jobs, Gc(j) \/ Repack(j) \/ Stop(j)
  PROVE  BucketInv'
<1>1. \A v \in Users : Same(v)
  BY JobUsers
<1>2. idxKeys' \subseteq packKeys'
  <2>1. CASE RepackPutPack(j) \/ RepackPutIdx(j)
    BY <2>1
    DEF BucketInv, JobsInv, RepackInv, RepackPutPack, RepackPutIdx, PutPackKey,
        PutIdxKey
  <2>2. CASE ~(RepackPutPack(j) \/ RepackPutIdx(j))
    BY <2>2
    DEF BucketInv, Gc, GcListRefs, GcVisit, GcListAll, GcDelete, DeleteNext,
        Repack, RepackListAll, RepackGet, RepackDelete, Stop, vars, s3Vars
  <2> QED BY <2>1, <2>2
<1> QED BY <1>1, <1>2, JobStep, PusherFrame DEF BucketInv, Onward

-----------------------------------------------------------------------------
(* What gc and repack leave of it.                                         *)

\* What a gc has come to, and what no gc deletes.
Walked(j) == Stored \cup marked[j] \cup pending[j]

\* All seeds, and all parents of what was seen, are walked or to be walked;
\* and nothing of that is broken.
WalkInv(j) == task[j] = "gcWalk" =>
  /\ Seeds \subseteq Walked(j)
  /\ \A c \in Stored \cup (marked[j] \cap looseKeys) : Parents[c] \subseteq Walked(j)
  /\ \A c \in marked[j] \cup pending[j] : Reach[c] \subseteq Readable

\* Nothing is needed that is about to be deleted.
SweepInv(j) ==
  task[j] = "gcDelete" => Needed \subseteq Stored \cup (looseKeys \ pending[j])

\* A repack packs what can be read, and no packed object lacks its parents.
PackInv(j) ==
  task[j] \in RepackSteps => Closed(Readable) /\ marked[j] \subseteq Readable

JobInv(j) == WalkInv(j) /\ SweepInv(j) /\ PackInv(j)

\* A gc runs alone, and a job starts with nothing marked.
AloneInv ==
  /\ \A i, j \in Jobs : i # j /\ task[j] \in GcSteps => task[i] = "idle"
  /\ \A j \in Jobs : task[j] = "idle" => marked[j] = {}

ReadableInv ==
  /\ MaintenanceTypeOK /\ BucketInv /\ JobsInv /\ AloneInv
  /\ Needed \subseteq Readable
  /\ \A j \in Jobs : JobInv(j)

LEMMA ClosedReach ==
  ASSUME NEW S \in SUBSET Commits, Closed(S), NEW c \in S
  PROVE  Reach[c] \subseteq S
  BY ParentsAssumption DEF Closed

LEMMA NeededClosed ==
  ASSUME TypeOK
  PROVE  /\ Seeds \subseteq Needed /\ Needed \in SUBSET Commits
         /\ \A c \in Needed : Parents[c] \subseteq Needed
<1>1. Seeds \subseteq Needed /\ Needed \in SUBSET Commits
  BY SeedsType, ReachAssumption DEF Needed
<1>2. ASSUME NEW c \in Needed PROVE Parents[c] \subseteq Needed
  <2>1. PICK s \in Seeds : c \in Reach[s]
    BY DEF Needed
  <2>2. Parents[c] \subseteq Reach[c] /\ Reach[c] \subseteq Reach[s]
    BY <2>1, <1>1, SeedsType, ReachAssumption, ParentsAssumption
  <2> QED BY <2>1, <2>2 DEF Needed
<1> QED BY <1>1, <1>2

LEMMA NeededGrows ==
  ASSUME TypeOK, NEW P \in SUBSET Commits, Brings(P)
  PROVE  Needed' \subseteq Needed \cup P
<1> DEFINE S == Needed \cup P
<1>1. Closed(S) /\ S \in SUBSET Commits
  BY NeededClosed DEF Brings, Closed
<1>2. Seeds' \subseteq S
  BY NeededClosed DEF Brings
<1> QED BY <1>1, <1>2, ClosedReach DEF Needed

\* The steps of users, and of jobs that leave the bucket alone.
LEMMA JobInvFrame ==
  ASSUME ReadableInv, NEW P \in SUBSET Commits, Brings(P), looseKeys' = looseKeys,
         NEW j \in Jobs, task'[j] = task[j], pending'[j] = pending[j],
         marked'[j] = marked[j]
  PROVE  JobInv(j)'
<1>1. Readable' = Readable \cup P
  BY DEF Brings, Readable
<1>2. Seeds \subseteq Needed /\ Needed \subseteq Readable
  BY NeededClosed DEF ReadableInv, BucketInv
<1>3. WalkInv(j)'
  BY <1>1 DEF ReadableInv, JobInv, WalkInv, Walked, Brings
<1>4. SweepInv(j)'
  BY NeededGrows DEF ReadableInv, BucketInv, JobInv, SweepInv, Brings
<1>5. PackInv(j)'
  BY <1>1, <1>2 DEF ReadableInv, JobInv, PackInv, Closed, Brings
<1> QED BY <1>3, <1>4, <1>5 DEF JobInv

LEMMA ReadableUser ==
  ASSUME ReadableInv, LocalGC = "never", NEW u \in Users, User(u)
  PROVE  ReadableInv'
<1>1. PICK P \in SUBSET Commits : Brings(P)
  BY UserBrings DEF ReadableInv
<1>2. UNCHANGED <<looseKeys, task, listed, pending, marked>>
  BY UserStep
<1>3. Needed' \subseteq Readable'
  BY <1>1, <1>2, NeededGrows DEF ReadableInv, BucketInv, Brings, Readable
<1>4. MaintenanceTypeOK' /\ BucketInv'
  BY UserType, BucketUser DEF ReadableInv, MaintenanceTypeOK
<1>5. JobsInv' /\ AloneInv'
  BY <1>2, UserOnward, JobFrame DEF ReadableInv, JobsInv, AloneInv
<1>6. \A j \in Jobs : JobInv(j)'
  BY <1>1, <1>2, JobInvFrame
<1> QED BY <1>3, <1>4, <1>5, <1>6 DEF ReadableInv

LEMMA AloneStep ==
  ASSUME ReadableInv, Careful, NEW j \in Jobs, Gc(j) \/ Repack(j) \/ Stop(j)
  PROVE  AloneInv'
<1> USE DEF ReadableInv, JobsInv, AloneInv
<1>1. CASE GcListRefs(j)
  BY <1>1, JobStep DEF GcListRefs, GcAllowed, GcSteps
<1>2. CASE RepackListAll(j)
  BY <1>2, JobStep DEF RepackListAll, RepackAllowed, GcSteps
<1>3. CASE ~(GcListRefs(j) \/ RepackListAll(j))
  <2>1. /\ task'[j] = "idle" \/ (task'[j] # "idle" /\ task[j] # "idle")
        /\ task'[j] \in GcSteps => task[j] \in GcSteps
        /\ task'[j] = "idle" => marked'[j] = {}
    BY <1>3
    DEF Gc, GcVisit, GcListAll, GcDelete, DeleteNext, Repack, RepackGet,
        RepackPutPack, RepackPutIdx, RepackDelete, Stop, Rest, Finish, GcSteps
  <2> QED BY <1>3, <2>1, JobStep
<1> QED BY <1>1, <1>2, <1>3

\* A step of a gc: the others stand still, and only garbage goes.
LEMMA GcKeeps ==
  ASSUME ReadableInv, Careful, NEW j \in Jobs, Gc(j)
  PROVE  Needed' \subseteq Readable' /\ \A i \in Jobs : JobInv(i)'
<1>1. UNCHANGED vars
  BY DEF Gc, GcListRefs, GcVisit, GcListAll, GcDelete, DeleteNext
<1>2. Stored' = Stored /\ Seeds' = Seeds /\ Needed' = Needed
  BY <1>1
  DEF Stored, Whole, Seeds, Roots, OldTips, Needed, vars, etcdVars, s3Vars, pushVars
<1>3. ASSUME NEW i \in Jobs \ {j} PROVE JobInv(i)'
  <2>1. task[i] = "idle"
    BY DEF Gc, GcListRefs, GcVisit, GcListAll, GcDelete, GcAllowed, GcSteps,
           ReadableInv, AloneInv
  <2>2. task'[i] = "idle"
    BY <2>1, JobStep DEF ReadableInv
  <2> QED
    BY <2>2 DEF JobInv, WalkInv, SweepInv, PackInv, RepackSteps
<1>4. CASE GcListRefs(j)
  <2>1. /\ looseKeys' = looseKeys /\ task'[j] = "gcWalk"
        /\ pending'[j] = Roots /\ marked'[j] = {}
    BY <1>4 DEF GcListRefs, ReadableInv, JobsInv, AloneInv
  <2>2. \A u \in Users : OldTips(u) = {}
    BY <1>4
    DEF GcListRefs, GcAllowed, Pushing, ReadableInv, BucketInv, PusherInv,
        CloneInv, OldTips, NoRefs
  <2>3. Readable' = Readable /\ Walked(j)' = Stored \cup Roots
    BY <1>2, <2>1 DEF Readable, Walked
  <2>4. Seeds = Stored \cup Roots /\ Closed(Stored)
    BY <1>4, <2>2 DEF Seeds, GcListRefs, GcAllowed
  <2>5. \A c \in Roots : Reach[c] \subseteq Readable
    BY <2>4 DEF Needed, ReadableInv
  <2> QED
    BY <1>2, <1>3, <2>1, <2>3, <2>4, <2>5
    DEF JobInv, WalkInv, SweepInv, PackInv, RepackSteps, Closed, ReadableInv
<1>5. CASE GcVisit(j)
  <2>1. PICK c \in pending[j] :
          /\ marked'[j] = marked[j] \cup {c}
          /\ pending'[j] = (pending[j] \cup (IF Has(c) THEN Parents[c] ELSE {}))
                             \ (marked[j] \cup {c})
          /\ looseKeys' = looseKeys /\ task'[j] = "gcWalk" /\ task[j] = "gcWalk"
    BY <1>5 DEF GcVisit, Rest, ReadableInv, JobsInv
  <2>2. c \in Commits
    BY <2>1 DEF ReadableInv, MaintenanceTypeOK
  <2>3. Readable' = Readable
    BY <1>2, <2>1 DEF Readable
  <2>4. Walked(j)' = Walked(j) \cup (IF Has(c) THEN Parents[c] ELSE {})
    BY <1>2, <2>1 DEF Walked
  <2>5. \A d \in marked'[j] \cup pending'[j] : Reach[d] \subseteq Readable
    <3>1. \A d \in Parents[c] : Reach[d] \subseteq Reach[c]
      BY <2>2, ReachAssumption, ParentsAssumption
    <3>2. \A d \in marked[j] \cup pending[j] : Reach[d] \subseteq Readable
      BY <2>1 DEF ReadableInv, JobInv, WalkInv
    <3> QED BY <2>1, <3>1, <3>2
  <2>6. WalkInv(j)'
    BY <1>2, <2>1, <2>3, <2>4, <2>5 DEF ReadableInv, JobInv, WalkInv, Has
  <2> QED
    BY <1>2, <1>3, <2>1, <2>3, <2>6
    DEF JobInv, SweepInv, PackInv, RepackSteps, ReadableInv
<1>6. CASE GcListAll(j)
  <2>1. /\ task[j] = "gcWalk" /\ pending[j] = {} /\ looseKeys' = looseKeys
        /\ task'[j] \in {"idle", "gcDelete"}
        /\ task'[j] = "gcDelete" => pending'[j] = looseKeys \ marked[j]
    BY <1>6 DEF GcListAll, Finish, ListAll, ReadableInv, JobsInv
  <2>2. Readable' = Readable
    BY <1>2, <2>1 DEF Readable
  <2>3. /\ Seeds \subseteq Walked(j) /\ Walked(j) = Stored \cup marked[j]
        /\ marked[j] \subseteq Commits
        /\ \A c \in Stored \cup (marked[j] \cap looseKeys) : Parents[c] \subseteq Walked(j)
        /\ \A c \in marked[j] : Reach[c] \subseteq Readable
    BY <2>1 DEF ReadableInv, MaintenanceTypeOK, JobInv, WalkInv, Walked
  <2>4. marked[j] \subseteq Stored \cup looseKeys
    BY <2>3, ReachAssumption DEF Readable
  <2>5. Closed(Walked(j)) /\ Walked(j) \in SUBSET Commits
    <3>1. Stored \subseteq Commits
      BY SeedsType DEF Seeds, ReadableInv, BucketInv
    <3> QED BY <2>3, <2>4, <3>1 DEF Closed
  <2>6. Needed \subseteq Walked(j)
    BY <2>3, <2>5, ClosedReach DEF Needed
  <2>7. Needed \subseteq Stored \cup (looseKeys \ (looseKeys \ marked[j]))
    BY <2>3, <2>4, <2>6
  <2> QED
    BY <1>2, <1>3, <2>1, <2>2, <2>7
    DEF JobInv, WalkInv, SweepInv, PackInv, RepackSteps, ReadableInv
<1>7. CASE GcDelete(j)
  <2>1. PICK c \in pending[j] :
          /\ looseKeys' = looseKeys \ {c} /\ task[j] = "gcDelete"
          /\ \/ task'[j] = "gcDelete" /\ pending'[j] = pending[j] \ {c}
             \/ task'[j] = "idle"
    BY <1>7 DEF GcDelete, DeleteNext, Delete, Rest, Finish, ReadableInv, JobsInv
  <2>2. Needed \subseteq Stored \cup (looseKeys \ pending[j])
    BY <2>1 DEF ReadableInv, JobInv, SweepInv
  <2> QED
    BY <1>2, <1>3, <2>1, <2>2
    DEF JobInv, WalkInv, SweepInv, PackInv, RepackSteps, Readable
<1> QED BY <1>4, <1>5, <1>6, <1>7 DEF Gc

\* A step of a repack moves objects from the loose area into packs.
LEMMA RepackMoves ==
  ASSUME ReadableInv, NEW j \in Jobs, Repack(j), task[j] \in RepackSteps
  PROVE  /\ Readable' = Readable /\ Seeds' \subseteq Seeds \cup marked[j]
         /\ task'[j] \in RepackSteps \cup {"idle"}
         /\ marked'[j] \subseteq marked[j] \cup looseKeys
<1> USE DEF RepackSteps
<1>0. UNCHANGED <<refs, old>>
  BY DEF Repack, RepackListAll, RepackGet, RepackPutPack, RepackPutIdx,
         RepackDelete, DeleteNext, vars, etcdVars, pushVars
<1>1. /\ task'[j] \in RepackSteps \cup {"idle"}
      /\ marked'[j] \subseteq marked[j] \cup looseKeys
  BY DEF Repack, RepackListAll, RepackGet, RepackPutPack, RepackPutIdx,
         RepackDelete, DeleteNext, Rest, Finish, ReadableInv, JobsInv
<1>2. /\ Stored' \subseteq Stored \cup marked[j]
      /\ Readable' = Readable
  <2>1. CASE RepackGet(j)
    BY <2>1 DEF RepackGet, Stored, Whole, Readable, vars, s3Vars
  <2>2. CASE RepackPutPack(j)
    <3>1. Whole' = Whole
      BY <2>2 DEF RepackPutPack, PutPackKey, Whole, ReadableInv, BucketInv
    <3> QED
      BY <2>2, <3>1 DEF RepackPutPack, Stored, Readable
  <2>3. CASE RepackPutIdx(j)
    <3>1. Whole' = Whole \cup {marked[j]}
      BY <2>3 DEF RepackPutIdx, PutIdxKey, Whole, ReadableInv, JobsInv, RepackInv
    <3>2. Stored' = Stored \cup marked[j]
      BY <3>1 DEF Stored
    <3>3. marked[j] \subseteq Readable
      BY DEF ReadableInv, JobInv, PackInv
    <3> QED
      BY <2>3, <3>2, <3>3 DEF RepackPutIdx, Readable
  <2>4. CASE RepackDelete(j)
    <3>1. PICK c \in pending[j] : looseKeys' = looseKeys \ {c}
      BY <2>4 DEF RepackDelete, DeleteNext, Delete
    <3>2. c \in looseKeys => c \in Stored
      BY <2>4, <3>1 DEF RepackDelete, ReadableInv, JobsInv, RepackInv
    <3>3. Stored' = Stored
      BY <2>4 DEF RepackDelete, DeleteNext, Stored, Whole, vars, s3Vars
    <3> QED BY <3>1, <3>2, <3>3 DEF Readable
  <2> QED
    BY <2>1, <2>2, <2>3, <2>4 DEF Repack, RepackListAll
<1> QED BY <1>0, <1>1, <1>2 DEF Seeds, Roots, OldTips

LEMMA RepackKeeps ==
  ASSUME ReadableInv, Careful, NEW j \in Jobs, Repack(j)
  PROVE  Needed' \subseteq Readable' /\ \A i \in Jobs : JobInv(i)'
<1>1. CASE RepackListAll(j)
  <2>1. UNCHANGED <<refs, old, packKeys, idxKeys, looseKeys>>
    BY <1>1 DEF RepackListAll, vars, etcdVars, s3Vars, pushVars
  <2>2. Stored' = Stored /\ Seeds' = Seeds /\ Needed' = Needed /\ Readable' = Readable
    BY <2>1 DEF Stored, Whole, Seeds, Roots, OldTips, Needed, Readable
  <2>3. ASSUME NEW i \in Jobs \ {j} PROVE JobInv(i)'
    <3>1. Brings({})
      BY <2>2 DEF Brings
    <3> QED
      BY <2>1, <3>1, JobStep, JobInvFrame DEF ReadableInv
  <2>4. /\ task'[j] = "repackGet" /\ marked'[j] = {} /\ Closed(Readable)
    BY <1>1 DEF RepackListAll, RepackAllowed, ReadableInv, JobsInv, AloneInv
  <2> QED
    BY <2>2, <2>3, <2>4 DEF JobInv, WalkInv, SweepInv, PackInv, ReadableInv, RepackSteps
<1>2. CASE ~RepackListAll(j)
  <2>1. task[j] \in RepackSteps
    BY <1>2
    DEF Repack, RepackGet, RepackPutPack, RepackPutIdx, RepackDelete, RepackSteps
  <2>2. /\ Readable' = Readable /\ Seeds' \subseteq Seeds \cup marked[j]
        /\ task'[j] \in RepackSteps \cup {"idle"}
        /\ marked'[j] \subseteq marked[j] \cup looseKeys
    BY <2>1, RepackMoves
  <2>3. Closed(Readable) /\ marked[j] \subseteq Readable
    BY <2>1 DEF ReadableInv, JobInv, PackInv
  <2>4. Seeds \subseteq Readable /\ Readable \in SUBSET Commits
    BY NeededClosed, SeedsType
    DEF ReadableInv, BucketInv, MaintenanceTypeOK, LooseTypeOK, Readable, Seeds
  <2>5. Needed' \subseteq Readable'
    BY <2>2, <2>3, <2>4, ClosedReach DEF Needed
  <2>6. looseKeys \subseteq Readable
    BY DEF Readable
  <2>7. JobInv(j)'
    BY <2>2, <2>3, <2>6
    DEF JobInv, WalkInv, SweepInv, PackInv, RepackSteps
  <2>8. ASSUME NEW i \in Jobs \ {j} PROVE JobInv(i)'
    <3>1. task'[i] = task[i] /\ marked'[i] = marked[i]
      BY JobStep DEF ReadableInv
    <3>2. task[i] \notin GcSteps
      BY <2>1 DEF ReadableInv, AloneInv, RepackSteps
    <3> QED
      BY <2>2, <3>1, <3>2
      DEF ReadableInv, JobInv, WalkInv, SweepInv, PackInv, GcSteps
  <2> QED BY <2>5, <2>7, <2>8
<1> QED BY <1>1, <1>2

LEMMA StopKeeps ==
  ASSUME ReadableInv, NEW j \in Jobs, Stop(j)
  PROVE  Needed' \subseteq Readable' /\ \A i \in Jobs : JobInv(i)'
<1>1. UNCHANGED <<refs, old, packKeys, idxKeys, looseKeys>>
  BY DEF Stop, vars, etcdVars, s3Vars, pushVars
<1>2. Stored' = Stored /\ Seeds' = Seeds /\ Needed' = Needed /\ Readable' = Readable
  BY <1>1 DEF Stored, Whole, Seeds, Roots, OldTips, Needed, Readable
<1>3. ASSUME NEW i \in Jobs \ {j} PROVE JobInv(i)'
  <2>1. Brings({})
    BY <1>2 DEF Brings
  <2> QED
    BY <1>1, <2>1, JobStep, JobInvFrame DEF ReadableInv
<1>4. task'[j] = "idle"
  BY DEF Stop, Finish, ReadableInv, JobsInv
<1> QED
  BY <1>2, <1>3, <1>4 DEF JobInv, WalkInv, SweepInv, PackInv, ReadableInv, RepackSteps

LEMMA ReadableJob ==
  ASSUME ReadableInv, Careful, NEW j \in Jobs, Gc(j) \/ Repack(j) \/ Stop(j)
  PROVE  ReadableInv'
<1>1. MaintenanceTypeOK' /\ TypeOK'
  BY JobType DEF ReadableInv, MaintenanceTypeOK
<1>2. BucketInv' /\ JobsInv'
  <2>1. [MaintenanceNext]_allVars
    BY DEF MaintenanceNext
  <2> QED
    BY <1>1, <2>1, BucketJob, JobsNext DEF ReadableInv
<1> QED
  BY <1>1, <1>2, AloneStep, GcKeeps, RepackKeeps, StopKeeps DEF ReadableInv

LEMMA ReadableInit == LegacyInit => ReadableInv
<1> SUFFICES ASSUME LegacyInit PROVE ReadableInv
  OBVIOUS
<1>1. Stored = {} /\ idxKeys \subseteq packKeys /\ MaintenanceTypeOK
  BY LegacyInitType DEF LegacyInit, S3Init, Stored, Whole
<1>2. ASSUME NEW u \in Users PROVE PusherInv(u)
  <2>1. /\ at[u] = "idle" /\ adv[u] = NoRefs /\ want[u] = NoRefs
        /\ old[u] = NoRefs /\ packs[u] = {} /\ up[u] = {} /\ queue[u] = {}
    BY DEF LegacyInit, UsersInit
  <2>2. Commands(u) = {}
    BY <2>1 DEF Commands, Changed
  <2> QED
    BY <2>1, <2>2
    DEF PusherInv, CloneInv, QueueInv, CoveredInv, HalfPutInv, Uploading, Uploaded
<1>3. Needed \subseteq looseKeys
  <2>1. \A u \in Users : OldTips(u) = {}
    BY DEF LegacyInit, UsersInit, OldTips, NoRefs
  <2>2. Seeds = Roots
    BY <1>1, <2>1 DEF Seeds
  <2>3. HistoryOf(refs) \subseteq looseKeys
    BY DEF LegacyInit
  <2>4. \A r \in Refs : refs[r] # NoSha => Reach[refs[r]] \subseteq looseKeys
    BY <2>3 DEF HistoryOf, History
  <2> QED BY <2>2, <2>4 DEF Needed, Roots
<1>4. AloneInv /\ \A j \in Jobs : JobInv(j)
  BY DEF LegacyInit, AloneInv, JobInv, WalkInv, SweepInv, PackInv, GcSteps, RepackSteps
<1> QED
  BY <1>1, <1>2, <1>3, <1>4, JobsInit
  DEF ReadableInv, BucketInv, MaintenanceTypeOK, Readable

LEMMA ReadableStep ==
  ASSUME ReadableInv, [MaintenanceNext]_allVars, Careful, LocalGC = "never"
  PROVE  ReadableInv'
<1>1. CASE UNCHANGED allVars
  <2>1. UNCHANGED <<refs, old, packKeys, idxKeys, looseKeys, task, pending, marked>>
    BY <1>1 DEF allVars, vars, legacyVars, jobVars, etcdVars, s3Vars, pushVars
  <2>2. Stored' = Stored /\ Seeds' = Seeds /\ Needed' = Needed /\ Readable' = Readable
    BY <2>1 DEF Stored, Whole, Seeds, Roots, OldTips, Needed, Readable
  <2>3. MaintenanceTypeOK' /\ TypeOK' /\ JobsInv'
    BY MaintenanceTypeStep, JobsNext DEF ReadableInv, MaintenanceTypeOK
  <2>4. \A v \in Users : Same(v)
    BY <1>1 DEF allVars, vars, localVars, gitVars, pushVars, Same
  <2>5. BucketInv'
    BY <2>1, <2>3, <2>4, PusherFrame DEF ReadableInv, BucketInv
  <2>6. \A j \in Jobs : JobInv(j)'
    <3>1. Brings({})
      BY <2>2 DEF Brings
    <3> QED BY <2>1, <3>1, JobInvFrame
  <2> QED
    BY <2>1, <2>2, <2>3, <2>5, <2>6 DEF ReadableInv, AloneInv
<1> QED BY <1>1, ReadableUser, ReadableJob DEF MaintenanceNext

LEMMA ReadableRefs == ReadableInv => RefsReadable
<1> SUFFICES ASSUME ReadableInv, NEW r \in Refs, refs[r] # NoSha
             PROVE  Reach[refs[r]] \subseteq Readable
  BY DEF RefsReadable, HistoryOf, History
<1> QED BY DEF ReadableInv, Needed, Seeds, Roots

\* With operators who check first, and users who run no git gc of their own,
\* every object a ref reaches can be fetched at every moment, although gc and
\* repack take no lock: pushes run on while a gc walks and deletes, and any
\* job can be stopped after any of its requests.
THEOREM RefsStayReadable ==
  ASSUME Careful, LocalGC = "never"
  PROVE  MaintenanceSpec => []RefsReadable
<1>1. ReadableInv /\ [MaintenanceNext]_allVars => ReadableInv'
  BY ReadableStep
<1> QED
  BY <1>1, ReadableRefs, ReadableInit, PTL DEF MaintenanceSpec

-----------------------------------------------------------------------------
(* The fetches beside them.                                                *)

\* The packs loaded and to load.
Loading(u) == packs[u] \cup (todo[u] \cap Whole)

\* Where the history of what `list` printed is, as long as nothing has been
\* deleted since.
FetchInv(u) == ~raced[u] =>
  /\ at[u] \in {"listed", "snapshot", "listPacks"} => HistoryOf(adv[u]) \subseteq Readable
  /\ at[u] = "download" =>
       HistoryOf(adv[u]) \subseteq loose[u] \cup looseKeys \cup UNION Loading(u)
  /\ at[u] = "walk" => HistoryOf(adv[u]) \subseteq Objects(u) \cup looseKeys

LEMMA FetchFrame ==
  ASSUME NEW v, FetchInv(v), Same(v), packKeys \subseteq packKeys',
         idxKeys \subseteq idxKeys', raced'[v] \/ (~raced[v] /\ looseKeys' = looseKeys)
  PROVE  FetchInv(v)'
<1>1. Whole \subseteq Whole' /\ Stored \subseteq Stored'
  BY StoredGrows
<1> QED
  BY <1>1 DEF FetchInv, Same, Loading, HistoryOf, Objects, Readable

LEMMA FetchStep ==
  ASSUME TypeOK, RefsReadable, raced \in [Users -> BOOLEAN], NEW u \in Users,
         User(u), FetchInv(u)
  PROVE  FetchInv(u)'
<1>0. /\ looseKeys' = looseKeys
      /\ \/ raced' = raced
         \/ HandleList(u) /\ raced' = [raced EXCEPT ![u] = FALSE]
  BY UserStep
<1>1. CASE HandleList(u)
  <2>1. /\ at'[u] = "listed" /\ adv'[u] = refs /\ Readable' = Readable
    BY <1>0, <1>1 DEF TypeOK, HandleList, Goto, Readable, Stored, Whole, s3Vars
  <2> QED
    BY <2>1 DEF RefsReadable, FetchInv, HistoryOf
<1>2. CASE HandleFetch(u) \/ HandlePush(u) \/ Snapshot(u)
  <2>1. /\ at[u] \in {"listed", "snapshot"} /\ at'[u] \in {"snapshot", "listPacks"}
        /\ adv' = adv /\ Readable' = Readable
    BY <1>0, <1>2
    DEF TypeOK, HandleFetch, HandlePush, Snapshot, Goto, Readable, Stored, Whole,
        s3Vars, gitVars
  <2> QED
    BY <1>0, <2>1 DEF FetchInv, HistoryOf, HandleList
<1>3. CASE LoadListPacks(u) \/ LoadPack(u)
  <2>1. /\ adv' = adv /\ loose' = loose /\ Whole' = Whole /\ raced' = raced
        /\ at'[u] = AfterDownload(u, todo'[u])
    <3>1. \E rest : /\ Goto(u, AfterDownload(u, rest))
                    /\ todo' = [todo EXCEPT ![u] = rest]
      BY <1>3 DEF LoadListPacks, LoadPack
    <3>2. at'[u] = AfterDownload(u, todo'[u])
      BY <3>1 DEF TypeOK, Goto
    <3> QED
      BY <1>0, <1>3, <3>2
      DEF LoadListPacks, LoadPack, HandleList, Whole, s3Vars, gitVars, localVars
  <2>2. ASSUME ~raced[u]
        PROVE  HistoryOf(adv[u]) \subseteq loose[u] \cup looseKeys \cup UNION Loading(u)'
    <3>1. CASE LoadListPacks(u)
      <4>1. HistoryOf(adv[u]) \subseteq Stored \cup looseKeys
        BY <2>2, <3>1 DEF FetchInv, LoadListPacks, Readable
      <4>2. packs'[u] = packs[u] /\ todo'[u] = ListPacks \ packs[u]
        BY <3>1 DEF TypeOK, LoadListPacks, localVars
      <4>3. Whole \subseteq Loading(u)'
        BY <2>1, <4>2 DEF Loading, Whole, ListPacks
      <4> QED
        BY <4>1, <4>3 DEF Stored
    <3>2. CASE LoadPack(u)
      <4>1. PICK p \in todo[u] :
              /\ packs'[u] = IF p \in Whole THEN packs[u] \cup {p} ELSE packs[u]
              /\ todo'[u] = todo[u] \ {p}
        BY <3>2 DEF TypeOK, LoadPack
      <4>2. Loading(u) \subseteq Loading(u)'
        BY <2>1, <4>1 DEF Loading
      <4> QED
        BY <2>2, <3>2, <4>2 DEF FetchInv, LoadPack
    <3> QED BY <1>3, <3>1, <3>2
  <2>3. /\ at'[u] \in {"download", "walk", "upload", "cas"}
        /\ at'[u] = "walk" => todo'[u] = {}
    BY <2>1 DEF AfterDownload, AfterUpload
  <2>4. HistoryOf(adv[u])' = HistoryOf(adv[u]) /\ Objects(u)' = loose[u] \cup UNION packs'[u]
    BY <2>1 DEF HistoryOf, Objects
  <2>5. todo'[u] = {} => UNION Loading(u)' = UNION packs'[u]
    BY DEF Loading
  <2> QED
    BY <1>0, <2>1, <2>2, <2>3, <2>4, <2>5 DEF FetchInv
<1>4. CASE GetLoose(u)
  <2>1. /\ adv' = adv /\ at' = at /\ packs' = packs /\ raced' = raced
        /\ loose[u] \subseteq loose'[u] /\ at[u] = "walk"
    BY <1>4 DEF TypeOK, GetLoose, gitVars, legacyVars
  <2> QED
    BY <1>0, <2>1 DEF FetchInv, HistoryOf, Objects
<1>5. CASE ~(HandleList(u) \/ HandleFetch(u) \/ HandlePush(u) \/ Snapshot(u)
              \/ LoadListPacks(u) \/ LoadPack(u) \/ GetLoose(u))
  <2>1. at'[u] \notin {"listed", "snapshot", "listPacks", "download", "walk"}
    <3>1. CASE Commit(u) \/ CollectGarbage(u)
      BY <3>1 DEF Commit, CollectGarbage
    <3>2. CASE Exit(u) \/ InitHead(u)
      BY <3>2 DEF TypeOK, Exit, InitHead, Goto
    <3>3. CASE Upload(u) \/ UploadIdx(u) \/ CasRefs(u) \/ CasRejected(u) \/ ForceRef(u)
      <4>1. \E next : /\ Goto(u, next)
                      /\ \/ \E rest : next \in {AfterUpload(rest), AfterCas(rest)}
                         \/ next = "putIdx"
        BY <3>3 DEF Upload, UploadIdx, CasRefs, CasRejected, ForceRef
      <4> QED
        BY <4>1 DEF TypeOK, Goto, AfterUpload, AfterCas
    <3> QED
      BY <1>5, <3>1, <3>2, <3>3, UserStep
      DEF Step, RunFetches, RunPushes, HandleEOF, Walk,
          Report, Die, GetMissing
  <2> QED BY <2>1 DEF FetchInv
<1> QED BY <1>1, <1>2, <1>3, <1>4, <1>5

LEMMA FetchJob ==
  ASSUME MaintenanceTypeOK, NEW j \in Jobs, Gc(j) \/ Repack(j) \/ Stop(j),
         NEW v \in Users
  PROVE  raced'[v] \/ (~raced[v] /\ looseKeys' = looseKeys)
<1>1. CASE DeleteNext(j)
  BY <1>1 DEF DeleteNext, Delete, Has, MaintenanceTypeOK
<1>2. CASE ~DeleteNext(j)
  <2>1. raced' = raced /\ looseKeys' = looseKeys
    BY <1>2
    DEF Gc, GcListRefs, GcVisit, GcListAll, GcDelete, Repack, RepackListAll,
        RepackGet, RepackPutPack, RepackPutIdx, RepackDelete, Stop
  <2> QED BY <2>1 DEF MaintenanceTypeOK
<1> QED BY <1>1, <1>2

LEMMA FetchNext ==
  ASSUME MaintenanceTypeOK, RefsReadable, [MaintenanceNext]_allVars,
         \A u \in Users : FetchInv(u)
  PROVE  \A u \in Users : FetchInv(u)'
<1>1. ASSUME NEW u \in Users, User(u), NEW v \in Users PROVE FetchInv(v)'
  <2>1. CASE v = u
    BY <1>1, <2>1, FetchStep DEF MaintenanceTypeOK
  <2>2. CASE v # u
    <3>1. Same(v) /\ Onward /\ looseKeys' = looseKeys /\ raced'[v] = raced[v]
      BY <1>1, <2>2, LooseOthersKeep, UserOnward, UserStep DEF MaintenanceTypeOK
    <3> QED
      BY <3>1, FetchFrame DEF Onward, MaintenanceTypeOK
  <2> QED BY <2>1, <2>2
<1>2. ASSUME NEW j \in Jobs, Gc(j) \/ Repack(j) \/ Stop(j), NEW v \in Users
      PROVE  FetchInv(v)'
  <2>1. Same(v)
    BY <1>2, JobUsers
  <2>2. packKeys \subseteq packKeys' /\ idxKeys \subseteq idxKeys'
    BY <1>2 DEF Gc, GcListRefs, GcVisit, GcListAll, GcDelete, DeleteNext, Repack,
              RepackListAll, RepackGet, RepackPutPack, RepackPutIdx, RepackDelete,
              Stop, PutPackKey, PutIdxKey, vars, s3Vars
  <2> QED BY <1>2, <2>1, <2>2, FetchJob, FetchFrame
<1>3. CASE UNCHANGED allVars
  <2>1. \A v \in Users : Same(v)
    BY <1>3 DEF allVars, vars, localVars, gitVars, pushVars, Same
  <2>2. UNCHANGED <<packKeys, idxKeys, looseKeys, raced>>
    BY <1>3 DEF allVars, legacyVars, vars, s3Vars
  <2> QED BY <2>1, <2>2, FetchFrame DEF MaintenanceTypeOK
<1> QED BY <1>1, <1>2, <1>3 DEF MaintenanceNext

\* Under the same conditions a fetch only ends with "remote is missing object"
\* when a delete has overtaken it: some object went after its list.
THEOREM FetchMissesOnlyBehindDelete ==
  ASSUME Careful, LocalGC = "never"
  PROVE  MaintenanceSpec => []FetchMissesOnlyRaced
<1> DEFINE Inv == ReadableInv /\ \A u \in Users : FetchInv(u)
<1>1. LegacyInit => Inv
  BY ReadableInit DEF LegacyInit, UsersInit, FetchInv
<1>2. ReadableInv => MaintenanceTypeOK /\ RefsReadable
  BY ReadableRefs DEF ReadableInv
<1>3. Inv /\ [MaintenanceNext]_allVars => Inv'
  BY <1>2, ReadableStep, FetchNext
<1>4. Inv => FetchMissesOnlyRaced
  <2> SUFFICES ASSUME Inv, NEW u \in Users, at[u] = "walk", ~raced[u],
                      NEW c \in Frontier(u)
               PROVE  c \in looseKeys
    BY DEF FetchMissesOnlyRaced
  <2>1. HistoryOf(adv[u]) \subseteq Objects(u) \cup looseKeys
    BY DEF FetchInv
  <2>2. adv[u] \in RefMap
    BY DEF ReadableInv, BucketInv, TypeOK
  <2>3. Tips(u) \subseteq HistoryOf(adv[u])
    BY <2>2, ReachAssumption DEF Tips, HistoryOf, History, RefMap, Sha
  <2>4. \A d \in HistoryOf(adv[u]) : Parents[d] \subseteq HistoryOf(adv[u])
    <3> SUFFICES ASSUME NEW r \in Refs, NEW d \in History(adv[u][r])
                 PROVE  Parents[d] \subseteq History(adv[u][r])
      BY DEF HistoryOf
    <3> QED
      BY <2>2, ReachAssumption, ParentsAssumption DEF History, RefMap, Sha
  <2> QED BY <2>1, <2>3, <2>4 DEF Frontier
<1> HIDE DEF Inv
<1> QED BY <1>1, <1>3, <1>4, PTL DEF MaintenanceSpec
=============================================================================
