---------------------------- MODULE PullCommand ----------------------------
(***************************************************************************)
(* `mepul pull` (src/main.rs): the plan and the blobs from the registry, then *)
(* one archive to the Docker engine.  Composes Registry and DockerLoad.      *)
(***************************************************************************)
EXTENDS Integers, Sequences, SequencesExt

CONSTANTS
  List, Manifest, Blob, SelectOf, BlobsOf,  \* see Registry
  ReqCap, RespCap, MaxEarly,                \* see DockerLoad
  Faults, None

ASSUME PullAssumption ==
  /\ None \notin List \cup Manifest \cup Blob /\ List \cap Manifest = {}
  /\ None \notin {"good", "expired", "200", "200 chunked", "500"}
  /\ {"tag", "manifest"} \cap Blob = {}
  /\ SelectOf \in [List -> Manifest \cup {None}]
  /\ BlobsOf \in [Manifest -> Seq(Blob)]
  /\ ReqCap \in Nat \ {0} /\ RespCap \in Nat \ {0} /\ MaxEarly \in Nat

VARIABLES
  tag, stage, token, index, plan, source, hurt,
  client, archive, onDisk, lost, torn, sent, req, resp, engine, got, out, early, head,
  loaded, pending, broken

R == INSTANCE Registry
D == INSTANCE DockerLoad

registry == <<tag, stage, token, index, plan, source, hurt>>
socket == <<client, archive, onDisk, lost, torn, sent, req, resp, engine, got, out, early,
            head, loaded, pending, broken>>
pullVars == <<registry, socket>>

\* The SelectOf of an index, the index itself if it is a manifest.
Chosen(i) == IF i \in Manifest THEN i ELSE SelectOf[i]

Item == {<<"layout">>, D!End, D!Zero} \cup ({"index"} \X Manifest)
        \cup ({"blob"} \X (Manifest \cup Blob) \X (Manifest \cup Blob))

PullTypeOK ==
  /\ R!TypeOK
  /\ client \in {"off", "stream", "abandon", "head", "refused", "progress", "ok", "err"}
  /\ archive \in Seq(Item) /\ sent \in Seq(Item)
  /\ onDisk \subseteq Item /\ lost \subseteq Item /\ torn \subseteq Item
  /\ req \in Seq(Item) /\ Len(req) <= ReqCap
  /\ resp \in Seq(Seq({"200", "200 chunked", "500", "line", "half", "rest", "zero"}))
  /\ Len(resp) <= RespCap
  /\ engine \in {"reading", "answering", "refusing", "closed"}
  /\ got \in Seq(Item) /\ got \o req = SubSeq(sent, 1, Len(got) + Len(req))
  /\ out \in Seq(Seq({"200", "200 chunked", "500", "line", "half", "rest", "zero"}))
  /\ early \in 0 .. MaxEarly
  /\ head \in {None, "200", "200 chunked", "500"}
  /\ loaded \in Manifest \cup {None}
  /\ pending \in Seq({"line", "half", "rest"})
  /\ broken \subseteq {"connect", "refuse", "die", "cache", "load"}

PullInit == R!Init /\ D!Init

\* A failed task ends the others.
Pulling == client = "off" /\ ~R!Failed

Pull ==
  /\ Pulling
  /\ R!Answer \/ \E r \in R!Request : R!Exchange(r)
  /\ UNCHANGED socket

\* The archive is written from the plan and from where its blobs were found.
Load ==
  /\ Pulling /\ R!Resolved
  /\ D!Connect(D!Archive(plan.descriptor, plan.manifest),
               {<<"blob", b, b>> : b \in {c \in Blob : source[c] = "file"}})
  /\ UNCHANGED registry

Talk ==
  /\ D!Send \/ D!Receive
  /\ UNCHANGED registry

Engine ==
  /\ D!Engine
  /\ UNCHANGED registry

\* The world: nothing of it has to happen.
World ==
  \/ /\ client = "off"
     /\ \/ \E t \in List \cup Manifest : R!Retag(t)
        \/ \E r \in R!Request : R!Expire(r) \/ (Pulling /\ R!RequestFails(r))
     /\ UNCHANGED socket
  \/ /\ D!Refuse \/ D!Die \/ (\E x \in onDisk : D!Lose(x))
        \/ (Pulling /\ R!Resolved /\ D!ConnectFails)
     /\ UNCHANGED registry

Over == R!Failed \/ client \in {"ok", "err"}

PullRest == (Over \/ D!Stuck) /\ UNCHANGED pullVars

PullNext == Pull \/ Load \/ Talk \/ Engine \/ World \/ PullRest

\* The registry answers, mepul goes on, the engine reads, and with the whole body it
\* loads.  Nothing in mepul has a timeout.
PullFairness ==
  /\ WF_pullVars(Pull) /\ WF_pullVars(Load) /\ WF_pullVars(Talk)
  /\ WF_pullVars(Engine /\ (engine = "reading" /\ engine' = "answering" => Last(got) = D!Zero))

PullSpec == PullInit /\ [][PullNext]_pullVars /\ PullFairness

-----------------------------------------------------------------------------
(* Properties *)

\* A pull that says done has put into Docker the manifest its tag named when it was asked
\* about, with all its blobs, though the tag may have moved between the requests, the
\* engine's error may have come after a status of success, in two chunks or without a
\* newline, and the connection may have ended at any point.  The exception: an answer that
\* is not chunked ends with the connection, so that of an engine that dies looks complete.
OkMeansLoaded ==
  client = "ok" =>
    \/ loaded = Chosen(index) /\ D!Good(loaded)
    \/ head = "200" /\ "die" \in broken

\* The end of the body is sent after a whole archive only: index, manifest, an entry for
\* every blob, whatever the file of a cached one holds.
\* A pull that fails while it writes does end its tar stream, but not the body.
EndedWhole ==
  D!Zero \in Range(sent) =>
    sent = Append(D!Archive(Chosen(index), Chosen(index)), D!Zero)

\* A pull only fails for something the world did: tags that move, tokens that expire once
\* they have been used, progress that comes before the body is over and lines that are
\* split or not ended are none of it.  The exception: a cached blob that was sent torn.
\* mepul's own writers can tear it (Stores: they share one temporary file); resolve_blob
\* asks only whether the file exists, append_blob copies what it holds, and no later pull
\* puts it right.
FailsForAReason == Over /\ client # "ok" => hurt # {} \/ broken # {} \/ torn # {}

\* Every pull ends, unless client and engine wait for each other: the engine reports
\* progress nobody reads before the archive is written, and the socket is full both ways.
Returns == <>(Over \/ D!Stuck)
=============================================================================
