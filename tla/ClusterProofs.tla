----------------------------- MODULE ClusterProofs -------------------------
(***************************************************************************)
(* Servers and users of the helper on one repository: no push of either    *)
(* kind loses another one's, whatever the two do at the same time.         *)
(*                                                                         *)
(* HP is HelperProofs, with the theorems about H, whose definitions it has *)
(* under its own name.                                                     *)
(***************************************************************************)
EXTENDS Cluster, ServeProofs

HP == INSTANCE HelperProofs WITH
  FaultAt <- HelperFaultAt, LocalGC <- "never", Exchange <- FALSE,
  adv <- uAdv, want <- uWant, todo <- uTodo, up <- uUp

-----------------------------------------------------------------------------
(* H and HP are the same.                                                  *)

LEMMA HelperFaults == HelperFaultAt \subseteq HP!Steps \ {"idle"}
  BY ClusterAssumption
  DEF H!Steps, HP!Steps, H!FetchSteps, HP!FetchSteps, H!PushSteps, HP!PushSteps

USE DEF H!etcdVars, HP!etcdVars, H!s3Vars, HP!s3Vars, H!localVars, HP!localVars,
        H!gitVars, HP!gitVars, H!pushVars, HP!pushVars, H!Goto, HP!Goto,
        H!NoRefs, HP!NoRefs

LEMMA SameInit == H!Init => HP!Init
  BY DEF H!Init, HP!Init, H!EtcdInit, HP!EtcdInit, H!S3Init, HP!S3Init,
         H!UsersInit, HP!UsersInit

LEMMA SameStep == H!Next => HP!Next
<1> SUFFICES ASSUME NEW u \in Users,
         \/ H!Commit(u) \/ H!CollectGarbage(u)
         \/ H!HandleList(u) \/ H!HandleFetch(u) \/ H!HandlePush(u)
         \/ H!HandleEOF(u) \/ H!RunFetches(u) \/ H!RunPushes(u) \/ H!Die(u)
       PROVE HP!Next
  BY DEF H!Next
<1> USE DEF H!Objects, HP!Objects, H!Commands, HP!Commands, H!Changed,
        HP!Changed, H!Deleted, HP!Deleted, H!Forced, HP!Forced,
        H!ToUpload, HP!ToUpload, H!Complete, HP!Complete, H!Tips, HP!Tips,
        H!AfterUpload, HP!AfterUpload, H!AfterDownload, HP!AfterDownload,
        H!AfterCas, HP!AfterCas, H!Compared, HP!Compared, H!Compares,
        HP!Compares, H!Exit, HP!Exit, H!Whole, HP!Whole, H!Stored, HP!Stored
<1>1. /\ H!Commit(u) => HP!Commit(u)
      /\ H!CollectGarbage(u) => HP!CollectGarbage(u)
      /\ H!HandleList(u) => HP!HandleList(u)
      /\ H!HandleFetch(u) => HP!HandleFetch(u)
  BY DEF H!Commit, HP!Commit, H!CollectGarbage, HP!CollectGarbage,
         H!HandleList, HP!HandleList, H!HandleFetch, HP!HandleFetch
<1>2. H!HandlePush(u) => HP!HandlePush(u)
  BY DEF H!HandlePush, HP!HandlePush, H!RefMap, HP!RefMap, H!Sha, HP!Sha,
         H!NeedsForce, HP!NeedsForce
<1>3. /\ H!HandleEOF(u) => HP!HandleEOF(u)
      /\ H!Walk(u) => HP!Walk(u)
      /\ H!Report(u) => HP!Report(u)
      /\ H!Die(u) => HP!Die(u)
  BY DEF H!HandleEOF, HP!HandleEOF, H!Walk, HP!Walk, H!Report, HP!Report, H!Die,
         HP!Die
<1>4. /\ H!LoadListPacks(u) => HP!LoadListPacks(u)
      /\ H!LoadPack(u) => HP!LoadPack(u)
  BY DEF H!LoadListPacks, HP!LoadListPacks, H!LoadPack, HP!LoadPack,
         H!ListPacks, HP!ListPacks, H!Whole, HP!Whole
<1>5. H!Snapshot(u) => HP!Snapshot(u)
  BY DEF H!Snapshot, HP!Snapshot
<1>6. H!Upload(u) => HP!Upload(u)
  BY DEF H!Upload, HP!Upload, H!NewObjects, HP!NewObjects, H!StopAt,
         HP!StopAt, H!RemotePackHashes, HP!RemotePackHashes, H!PutPackKey,
         HP!PutPackKey
<1>7. H!UploadIdx(u) => HP!UploadIdx(u)
  BY DEF H!UploadIdx, HP!UploadIdx, H!PutIdxKey, HP!PutIdxKey
<1>8. /\ H!CasRefs(u) => HP!CasRefs(u)
      /\ H!CasRejected(u) => HP!CasRejected(u)
  BY DEF H!CasRefs, HP!CasRefs, H!CasRejected, HP!CasRejected,
         H!UpdateRefsCAS, HP!UpdateRefsCAS, H!Puts, HP!Puts
<1>9. /\ H!ForceRef(u) => HP!ForceRef(u)
      /\ H!InitHead(u) => HP!InitHead(u)
  BY DEF H!ForceRef, HP!ForceRef, H!InitHead, HP!InitHead, H!PutRefForce,
         HP!PutRefForce, H!Named, HP!Named, H!PutHEADIfMissing,
         HP!PutHEADIfMissing
<1> QED
  BY <1>1, <1>2, <1>3, <1>4, <1>5, <1>6, <1>7, <1>8, <1>9
  DEF H!RunFetches, HP!RunFetches, H!RunPushes, HP!RunPushes, HP!Next

-----------------------------------------------------------------------------
(* Types, and what git and runPushes sort the commands of a batch by.      *)

ClusterInv == TypeOK /\ HP!NeverBlindInv

USE DEF etcdVars, s3Vars, HP!vars

LEMMA SameTypes ==
  /\ HP!EtcdTypeOK <=> EtcdTypeOK
  /\ HP!EtcdTypeOK' <=> EtcdTypeOK'
  /\ HP!S3TypeOK <=> S3TypeOK
  /\ HP!S3TypeOK' <=> S3TypeOK'
  BY DEF HP!EtcdTypeOK, EtcdTypeOK, HP!RefMap, RefMap, HP!Sha, Sha, HP!Head, Head,
         HP!S3TypeOK, S3TypeOK, HP!Pack, Pack

LEMMA UsersKeep ==
  ASSUME ClusterInv, TypeOK', UNCHANGED userVars PROVE ClusterInv'
<1>1. HP!TypeOK'
  BY SameTypes DEF ClusterInv, HP!NeverBlindInv, HP!TypeOK, TypeOK, userVars
<1>2. HP!OnlyForcedLeft'
  BY DEF ClusterInv, HP!NeverBlindInv, HP!OnlyForcedLeft, HP!Forced,
         HP!Commands, HP!Changed, HP!Deleted, userVars
<1>3. ASSUME NEW u \in Users PROVE HP!Judged(u)'
  BY DEF ClusterInv, HP!NeverBlindInv, HP!Judged, HP!Compared, HP!Forced,
         HP!Commands, HP!Changed, HP!Deleted, userVars
<1> QED BY <1>1, <1>2, <1>3 DEF ClusterInv, HP!NeverBlindInv

LEMMA ServerStepInv ==
  ASSUME ClusterInv, ServerStep PROVE ClusterInv'
  BY TypeStep, UsersKeep DEF ClusterInv, ServerStep

LEMMA HelperStepInv ==
  ASSUME ClusterInv, HelperStep PROVE ClusterInv'
<1>1. HP!Next
  BY SameStep DEF HelperStep
<1>2. HP!NeverBlindInv'
  BY <1>1, HP!NeverBlindStep, HelperFaults, ClusterAssumption, OwnerAssumption,
     ReachAssumption, BranchAssumption, NoShaAssumption
  DEF ClusterInv
<1>3. EtcdTypeOK' /\ S3TypeOK'
  BY <1>2, SameTypes DEF HP!NeverBlindInv, HP!TypeOK
<1>4. /\ UNCHANGED <<cacheVars, pc, handlerVars, localVars, pushVars>>
      /\ owed' \in BOOLEAN /\ quiet' \in [Clients -> BOOLEAN]
  BY DEF HelperStep, ClusterInv, TypeOK
<1>5. TypeOK'
  BY <1>3, <1>4
  DEF ClusterInv, TypeOK, CacheTypeOK, cacheVars, handlerVars, localVars, pushVars
<1> QED BY <1>2, <1>5 DEF ClusterInv

LEMMA ClusterInvStep ==
  ASSUME ClusterInv, [ClusterNext]_clusterVars PROVE ClusterInv'
<1>1. CASE UNCHANGED clusterVars
  BY <1>1, TypeStep, UsersKeep DEF clusterVars, ClusterInv
<1> QED BY <1>1, ServerStepInv, HelperStepInv DEF ClusterNext

LEMMA ClusterInitInv == ClusterInit => ClusterInv
<1> SUFFICES ASSUME ClusterInit PROVE ClusterInv
  OBVIOUS
<1>1. TypeOK
  BY TypeInit DEF ClusterInit
<1>2. HP!Init
  BY SameInit DEF ClusterInit
<1>3. HP!NeverBlindInv
  BY <1>2, HP!NeverBlindInit, HelperFaults, ClusterAssumption, OwnerAssumption,
     ReachAssumption, BranchAssumption, NoShaAssumption
<1> QED BY <1>1, <1>3 DEF ClusterInv

-----------------------------------------------------------------------------
(* Who writes refs.                                                        *)

\* The helper's transaction compares, and its loop writes what has a +.
LEMMA HelperMoves ==
  ASSUME ClusterInv, H!Next, NEW r \in Refs, ~FastForward(refs[r], refs'[r])
  PROVE  \E u \in Users :
           /\ uWant[u][r] = refs'[r]
           /\ \/ at[u] = "force" /\ r \in H!Forced(u)
              \/ at[u] = "cas" /\ old[u][r] = refs[r] /\ uAdv[u][r] # refs[r]
<1>1. refs'[r] # refs[r]
  BY StayIsFastForward DEF ClusterInv, TypeOK
<1>2. ~HP!FastForward(refs[r], refs'[r])
  BY DEF FastForward, HP!FastForward, History, HP!History
<1>3. PICK u \in Users :
        /\ refs'[r] = uWant[u][r]
        /\ \/ at[u] = "force" /\ r \in HP!Forced(u)
           \/ /\ at[u] = "cas" /\ old[u][r] = refs[r]
              /\ uAdv[u][r] = refs[r] => HP!FastForward(refs[r], refs'[r])
  BY <1>1, SameStep, HP!WriteCompares, HelperFaults, ClusterAssumption,
     OwnerAssumption, ReachAssumption, BranchAssumption, NoShaAssumption
  DEF ClusterInv
<1>4. HP!Forced(u) = H!Forced(u)
  BY DEF H!Forced, HP!Forced, H!Commands, HP!Commands, H!Changed, HP!Changed,
         H!Deleted, HP!Deleted
<1> QED BY <1>2, <1>3, <1>4

\* Servers and helpers side by side, any number of each, with every failure of
\* theirs: history is only lost to a pusher that a server showed it, to a +, or
\* to a helper whose list was too early to show it.
THEOREM NobodyLosesUpdates == ClusterSpec => NoLostUpdate
<1>1. ASSUME ClusterInv, [ClusterNext]_clusterVars, NEW r \in Refs,
             ~FastForward(refs[r], refs'[r])
      PROVE  \/ \E c \in Pushers : /\ pc[c] = "cas"
                                   /\ adv[c][r] = refs[r] /\ want[c][r] = refs'[r]
             \/ \E u \in Users : /\ uWant[u][r] = refs'[r]
                                 /\ \/ at[u] = "force" /\ r \in H!Forced(u)
                                    \/ /\ at[u] = "cas" /\ old[u][r] = refs[r]
                                       /\ uAdv[u][r] # refs[r]
  <2>1. refs'[r] # refs[r]
    BY <1>1, StayIsFastForward DEF ClusterInv, TypeOK
  <2>2. CASE ServerStep
    <3>1. PICK c \in Clients : CasRefs(c)
      BY <2>1, <2>2, OnlyCasWritesRefs DEF ServerStep
    <3>2. pc[c] = "cas" /\ c \in Pushers
      BY <1>1, <3>1, PusherSteps DEF ClusterInv, CasRefs, Backend, HookSteps
    <3> QED BY <1>1, <2>1, <3>1, <3>2, CasMoves DEF ClusterInv
  <2>3. CASE HelperStep
    BY <1>1, <2>1, <2>3, HelperMoves DEF HelperStep
  <2>4. ~UNCHANGED clusterVars
    BY <2>1 DEF clusterVars, vars
  <2> QED BY <1>1, <2>2, <2>3, <2>4 DEF ClusterNext
<1>2. ClusterInv /\ [ClusterNext]_clusterVars =>
        [\A r \in Refs : ~FastForward(refs[r], refs'[r]) =>
           \/ \E c \in Pushers : /\ pc[c] = "cas"
                                 /\ adv[c][r] = refs[r] /\ want[c][r] = refs'[r]
           \/ \E u \in Users : /\ uWant[u][r] = refs'[r]
                               /\ \/ at[u] = "force" /\ r \in H!Forced(u)
                                  \/ /\ at[u] = "cas" /\ old[u][r] = refs[r]
                                     /\ uAdv[u][r] # refs[r]]_clusterVars
  BY <1>1
<1>3. ClusterInv /\ [ClusterNext]_clusterVars => ClusterInv'
  BY ClusterInvStep
<1> QED
  BY <1>2, <1>3, ClusterInitInv, PTL DEF ClusterSpec, NoLostUpdate
=============================================================================
