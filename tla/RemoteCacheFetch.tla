----------------------- MODULE RemoteCacheFetch -----------------------
(***************************************************************************)
(* RemoteCache implements Fetch: the caller sees a call that is answered,  *)
(* and nothing of base paths, cache and retries.                           *)
(***************************************************************************)
EXTENDS RemoteCache

CONSTANT Nobody   \* no call in progress

ASSUME NobodyAssumption ==
  Nobody \notin [location : Locations, checked : BOOLEAN]

Asked ==
  IF pc = "idle" THEN Nobody
  ELSE [location |-> req.location, checked |-> req.checked]

Verdict ==
  IF answer.result = "NONE" THEN "none"
  ELSE IF answer.result # "SUCCESS" THEN "failed"
  ELSE IF answer.data = Good[answer.location] THEN "genuine"
  ELSE "other"

Abstract ==
  INSTANCE Fetch WITH None <- Nobody, asked <- Asked, verdict <- Verdict

\* Reading through the cache keeps the promises of Fetch: a call that gives
\* a checksum gets the genuine data or a failure, and every call ends.
ImplementsFetch == Abstract!Spec
==========================================================================
