------------------------------- MODULE Cluster -----------------------------
(***************************************************************************)
(* Both ways into one repository at once: servers with their pushers and   *)
(* fetchers (Serve), and users of the remote helper (Helper), over the     *)
(* same etcd keys and the same pack area.  The helper knows neither the    *)
(* lock nor the version.                                                   *)
(*                                                                         *)
(* H is Helper with this module's variables; those whose names Serve has   *)
(* taken begin with u here.                                                *)
(*                                                                         *)
(* Either side makes commits of its own, and gets those of the other from  *)
(* S3: git and go-git never write the same pack, so what both would upload *)
(* at the same moment must not have one name here.                         *)
(***************************************************************************)
EXTENDS Serve

CONSTANTS
  Users,         \* Helper's constants; its users run no git gc of their own
  Parents,
  HelperFaultAt,
  Made           \* the commits made by users, the others by git clients

VARIABLES
  at, loose, packs, uAdv, uWant, force, old, oldHead, uTodo, queue, uUp,
  allOk, applied

H == INSTANCE Helper WITH
  FaultAt <- HelperFaultAt, LocalGC <- "never", Exchange <- FALSE,
  adv <- uAdv, want <- uWant, todo <- uTodo, up <- uUp

\* Helper's assumptions, of its constants here.
ASSUME ClusterAssumption ==
  /\ Made \subseteq Commits /\ HelperFaultAt \subseteq H!Steps \ {"idle"}
  /\ Parents \in [Commits -> SUBSET Commits]
  /\ \A c \in Commits : Parents[c] \subseteq Reach[c]
  /\ \A c \in Commits, S \in SUBSET Commits :
       c \in S /\ (\A d \in S : Parents[d] \subseteq S) => Reach[c] \subseteq S

userVars == <<at, loose, packs, uAdv, uWant, force, old, oldHead, uTodo, queue,
              uUp, allOk, applied>>

clusterVars == <<vars, userVars>>

ClusterInit == Init /\ H!Init

ServerStep ==
  /\ Next
  /\ \A c \in Pushers : HistoryOf(want'[c]) \cap Made \subseteq Stored
  /\ UNCHANGED userVars

\* What a helper writes nobody announces: neither the refs it moves nor the
\* HEAD it writes after them.
HelperStep ==
  /\ H!Next
  /\ \A u \in Users : loose'[u] \subseteq Made
  /\ owed' = (owed \/ refs' # refs \/ head' # head)
  /\ quiet' = [c \in Clients |-> quiet[c] /\ refs' = refs /\ head' = head]
  /\ UNCHANGED <<cacheVars, pc, handlerVars, localVars, pushVars>>

ClusterNext == ServerStep \/ HelperStep

ClusterSpec == ClusterInit /\ [][ClusterNext]_clusterVars

-----------------------------------------------------------------------------
(* Properties.  RefsBacked, SkipSafe and ImplementsRefStore are Serve's, of *)
(* both kinds of pushes now: after a helper's push every server answers as  *)
(* before it, until the next push to a server bumps the version; from then  *)
(* on each of them has what the helper wrote, too.                          *)

\* UpdateRefsCAS, across the two modes: a ref loses history only to a pusher
\* that a server showed the value it replaces, to a +, or to a helper in whose
\* list the value was not yet, and in whose snapshot it already is: the gap
\* of NonFastForwardFails.
NoLostUpdate ==
  [][\A r \in Refs : ~FastForward(refs[r], refs'[r]) =>
       \/ \E c \in Pushers : /\ pc[c] = "cas"
                             /\ adv[c][r] = refs[r] /\ want[c][r] = refs'[r]
       \/ \E u \in Users : /\ uWant[u][r] = refs'[r]
                           /\ \/ at[u] = "force" /\ r \in H!Forced(u)
                              \/ /\ at[u] = "cas" /\ old[u][r] = refs[r]
                                 /\ uAdv[u][r] # refs[r]]_clusterVars

\* HonestReport, where the other writers are servers.
HelperHonest == H!HonestReport
=============================================================================
