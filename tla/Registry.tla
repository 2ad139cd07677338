------------------------------ MODULE Registry ------------------------------
(***************************************************************************)
(* The requests a pull sends to the registry: src/registry.rs, for one image. *)
(*                                                                          *)
(* Every request starts without a token.  A registry that wants one answers   *)
(* with a challenge; the client fetches a token and sends the request once    *)
(* more.  The tag is asked for first; if it names a list, the manifest of the *)
(* host's platform is asked for by its digest; then the blobs, each by a task *)
(* of its own.  What the registry does, and when, is not mepul's: tags move,  *)
(* tokens expire, requests fail.                                             *)
(***************************************************************************)
EXTENDS Sequences, SequencesExt

CONSTANTS
  List,      \* digests of manifest lists
  Manifest,  \* digests of manifests
  Blob,      \* digests of blobs
  SelectOf,  \* List -> the manifest for this platform, or None
  BlobsOf,   \* Manifest -> sequence of blobs: the config and the layers
  Faults,    \* SUBSET {"registry", "token", "cache", "engine"}
  None

Request == {"tag", "manifest"} \cup Blob

VARIABLES
  tag,    \* what the tag names now
  stage,  \* Request -> how far it is
  token,  \* Request -> the token it was given: None, "good" or "expired"
  index,  \* what the answer to the tag was, or None
  plan,   \* PullPlan: a descriptor and a manifest, or None
  source, \* Blob -> where a resolved blob is: None, "file" or "memory"
  hurt    \* history: requests the world let fail

TypeOK ==
  /\ tag \in List \cup Manifest /\ index \in List \cup Manifest \cup {None}
  /\ stage \in [Request -> {"idle", "sent", "challenged", "retried", "answered", "failed"}]
  /\ token \in [Request -> {None, "good", "expired"}]
  /\ plan \in {None} \cup [descriptor : Manifest, manifest : Manifest]
  /\ source \in [Blob -> {None, "file", "memory"}]
  /\ hurt \subseteq Request

Init ==
  /\ tag \in List \cup Manifest
  /\ stage = [r \in Request |-> "idle"]
  /\ token = [r \in Request |-> None]
  /\ index = None /\ plan = None
  /\ source = [b \in Blob |-> None]
  /\ hurt = {}

Goto(r, s) == stage' = [stage EXCEPT ![r] = s]

-----------------------------------------------------------------------------
(* get_with_auth_and_headers *)

\* When a request is due: in `pull`, or when resolve_blobs finds a blob that is not there.
Due(r) ==
  CASE r = "tag" -> TRUE
    [] r = "manifest" -> index \in List /\ SelectOf[index] # None
    [] r \in Blob -> plan # None /\ r \in Range(BlobsOf[plan.manifest])

Send(r) ==
  /\ stage[r] = "idle" /\ Due(r)
  /\ Goto(r, "sent")
  /\ UNCHANGED <<tag, token, index, plan, source, hurt>>

\* A 401 with a challenge the client understands.
Challenge(r) ==
  /\ stage[r] = "sent"
  /\ Goto(r, "challenged")
  /\ UNCHANGED <<tag, token, index, plan, source, hurt>>

\* Mutant: a token that is there already is used again.
FetchTokenOnce(r) ==
  /\ stage[r] = "challenged"
  /\ Goto(r, "retried")
  /\ token' = [token EXCEPT ![r] = IF token["tag"] = None THEN "good" ELSE token["tag"]]
  /\ UNCHANGED <<tag, index, plan, source, hurt>>

\* fetch_bearer_token, and the request again.
FetchToken(r) ==
  /\ stage[r] = "challenged"
  /\ Goto(r, "retried")
  /\ token' = [token EXCEPT ![r] = "good"]
  /\ UNCHANGED <<tag, index, plan, source, hurt>>

\* A second 401 is an error.
Refused(r) ==
  /\ stage[r] = "retried" /\ token[r] = "expired"
  /\ Goto(r, "failed")
  /\ UNCHANGED <<tag, token, index, plan, source, hurt>>

\* No connection, no usable challenge, no token, an error status, missing headers, a
\* manifest that does not parse, a blob with another size or digest.
RequestFails(r) ==
  /\ "registry" \in Faults
  /\ stage[r] \in {"sent", "challenged", "retried"}
  /\ Goto(r, "failed")
  /\ hurt' = hurt \cup {r}
  /\ UNCHANGED <<tag, token, index, plan, source>>

\* The registry serves the request: unasked for a token, or content with this one.
Served(r) == stage[r] = "sent" \/ (stage[r] = "retried" /\ token[r] = "good")

-----------------------------------------------------------------------------
(* pull, resolve_manifest and fetch_blob: what becomes of an answer *)

TagAnswer ==
  /\ Served("tag")
  /\ Goto("tag", "answered")
  /\ index' = tag
  /\ plan' = IF tag \in Manifest THEN [descriptor |-> tag, manifest |-> tag] ELSE plan
  /\ UNCHANGED <<tag, token, source, hurt>>

\* Mutant: by the tag again.
ManifestByTag ==
  /\ Served("manifest")
  /\ Goto("manifest", "answered")
  /\ plan' = [descriptor |-> SelectOf[index],
              manifest |-> IF tag \in Manifest THEN tag ELSE SelectOf[index]]
  /\ UNCHANGED <<tag, token, index, source, hurt>>

\* The list's entry for the platform is the descriptor, its digest is asked for.
ManifestAnswer ==
  /\ Served("manifest")
  /\ Goto("manifest", "answered")
  /\ plan' = [descriptor |-> SelectOf[index], manifest |-> SelectOf[index]]
  /\ UNCHANGED <<tag, token, index, source, hurt>>

\* The list has nothing for the platform: there is nothing to ask for.
NoPlatform ==
  /\ index \in List /\ SelectOf[index] = None
  /\ stage["manifest"] = "idle"
  /\ Goto("manifest", "failed")
  /\ hurt' = hurt \cup {"manifest"}
  /\ UNCHANGED <<tag, token, index, plan, source>>

\* Size and digest are what the descriptor says; saving it in the cache is Stores's.
BlobAnswer(b) ==
  /\ Served(b)
  /\ Goto(b, "answered")
  /\ source' = [source EXCEPT ![b] = "memory"]
  /\ UNCHANGED <<tag, token, index, plan, hurt>>

\* A file of that name is in the cache, whole or not: no request, and nobody looks inside.
BlobCached(b) ==
  /\ stage[b] = "idle" /\ Due(b)
  /\ Goto(b, "answered")
  /\ source' = [source EXCEPT ![b] = "file"]
  /\ UNCHANGED <<tag, token, index, plan, hurt>>

Resolved == plan # None /\ \A b \in Range(BlobsOf[plan.manifest]) : stage[b] = "answered"
Failed == \E r \in Request : stage[r] = "failed"

-----------------------------------------------------------------------------
(* The registry's own time *)

Retag(t) ==
  /\ t # tag /\ tag' = t
  /\ UNCHANGED <<stage, token, index, plan, source, hurt>>

\* It only hurts a token that is on its way to its one use.
Expire(r) ==
  /\ "token" \in Faults
  /\ token[r] = "good"
  /\ token' = [token EXCEPT ![r] = "expired"]
  /\ hurt' = IF stage[r] = "retried" THEN hurt \cup {r} ELSE hurt
  /\ UNCHANGED <<tag, stage, index, plan, source>>

Exchange(r) == Send(r) \/ Challenge(r) \/ FetchToken(r) \/ Refused(r)
Answer ==
  \/ TagAnswer \/ ManifestAnswer \/ NoPlatform
  \/ \E b \in Blob : BlobAnswer(b) \/ BlobCached(b)
=============================================================================
