--------------------------------- MODULE S3 --------------------------------
(***************************************************************************)
(* The pack area of one repository's bucket prefix, <repo>/packs/.  A pack *)
(* is two keys, written by two requests; no code path deletes either       *)
(* (S3Client.DeletePack has no caller).                                    *)
(***************************************************************************)
EXTENDS Git

VARIABLES
  packKeys,  \* the packs whose pack-<sha>.pack key exists
  idxKeys    \* the packs whose pack-<sha>.idx key exists

s3Vars == <<packKeys, idxKeys>>

S3TypeOK == packKeys \in SUBSET Pack /\ idxKeys \in SUBSET Pack

S3Init == packKeys = {} /\ idxKeys = {}

-----------------------------------------------------------------------------

\* ListPacks returns a base name when either of its two keys is listed.
ListPacks == packKeys \cup idxKeys

\* The packs for which both GetPack calls answer.
Whole == packKeys \cap idxKeys

PutPackKey(p) == packKeys' = packKeys \cup {p} /\ UNCHANGED idxKeys

PutIdxKey(p) == idxKeys' = idxKeys \cup {p} /\ UNCHANGED packKeys

\* What a reader of the bucket can get at.
Stored == UNION Whole
=============================================================================
