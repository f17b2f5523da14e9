-------------------------------- MODULE Loose ------------------------------
(***************************************************************************)
(* The loose area of one repository's bucket prefix, <repo>/objects/: one  *)
(* key per object.  Releases before the pack area filled it; today it only *)
(* shrinks, because S3Client.Put and S3Client.Has have no caller left.     *)
(***************************************************************************)
EXTENDS S3

VARIABLE looseKeys  \* the objects that have a key

LooseTypeOK == looseKeys \in SUBSET Commits

\* ListAll.  S3 lists what is there at one moment.
ListAll == looseKeys

\* Get answers, or says "no such key".
Has(c) == c \in looseKeys

Delete(c) == looseKeys' = looseKeys \ {c}

\* What can be read from the bucket, one way or the other.
Readable == Stored \cup looseKeys
=============================================================================
