----------------------------- MODULE DockerLoad -----------------------------
(***************************************************************************)
(* One call of load_archive (src/docker_engine.rs) that streams the archive   *)
(* of write_oci_archive (src/oci_archive.rs) to the Docker engine.           *)
(*                                                                          *)
(* The socket is a bounded queue each way.  The client writes its whole       *)
(* request before it reads anything.  The engine is not mepul's: it reads the *)
(* body, may report progress before it has all of it, answers chunked or not, *)
(* refuses, or dies.                                                         *)
(***************************************************************************)
EXTENDS Integers, Sequences, SequencesExt

CONSTANTS
  Blob, BlobsOf,  \* as in Registry
  ReqCap,         \* chunks the socket holds on the way to the engine
  RespCap,        \* lines it holds on the way back
  MaxEarly,       \* bound: progress lines before the engine has the whole body
  Faults, None

VARIABLES
  client,   \* where load_archive is
  archive,  \* entries the archive is to have, in order
  onDisk,   \* entries whose bytes are still in a file of the cache
  lost,     \* those whose file is gone
  torn,     \* those whose file did not hold the whole blob when it was sent
  sent,     \* what has been written to the socket
  req,      \* on the way to the engine
  resp,     \* on the way back
  engine,   \* "reading", "answering", "refusing" or "closed"
  got,      \* what the engine has read
  out,      \* what it is about to write
  early,    \* progress lines it has started before it had everything
  head,     \* the status line it has sent: None, "200", "200 chunked" or "500"
  loaded,   \* the manifest it has loaded, or None
  pending,  \* print_complete_json_lines: bytes that are no complete line yet
  broken    \* history: what the world did to the exchange

Init ==
  /\ client = "off" /\ archive = <<>> /\ onDisk = {} /\ lost = {} /\ torn = {}
  /\ sent = <<>> /\ req = <<>> /\ resp = <<>>
  /\ engine = "reading" /\ got = <<>> /\ out = <<>> /\ early = 0
  /\ head = None /\ loaded = None /\ pending = <<>> /\ broken = {}

End == <<"end">>     \* the two empty blocks after the last entry of a tar stream
Zero == <<"zero">>   \* the chunk of size zero that ends a chunked body

\* The client's end of the socket is open.
Open == client \notin {"off", "ok", "err"}

EngineUnchanged == UNCHANGED <<engine, got, out, early, head, loaded, broken>>

-----------------------------------------------------------------------------
(* write_oci_archive and ChunkedWriter: the request *)

\* oci-layout, index.json, the manifest under its descriptor's digest, config and layers;
\* an entry is what it is called and what it holds.
Archive(descriptor, manifest) ==
  <<<<"layout">>, <<"index", descriptor>>, <<"blob", descriptor, manifest>>>>
    \o [i \in DOMAIN BlobsOf[manifest] |-> <<"blob", BlobsOf[manifest][i], BlobsOf[manifest][i]>>]
    \o <<End>>

Connect(entries, files) ==
  /\ client = "off"
  /\ client' = "stream"
  /\ archive' = entries /\ onDisk' = files
  /\ UNCHANGED <<lost, torn, sent, req, resp, pending>> /\ EngineUnchanged

ConnectFails ==
  /\ "engine" \in Faults
  /\ client = "off"
  /\ client' = "err" /\ broken' = broken \cup {"connect"}
  /\ UNCHANGED <<archive, onDisk, lost, torn, sent, req, resp, pending, engine, got, out, early,
                 head, loaded>>

Write(x) ==
  /\ engine # "closed" /\ Len(req) < ReqCap
  /\ req' = Append(req, x) /\ sent' = Append(sent, x)

Due == archive[Len(sent) + 1]
Complete == Len(sent) = Len(archive)

\* One entry, or the end of the archive.  A cached blob is opened when its turn comes, and
\* goes out as it is: nobody looks whether the file holds all of it.
SendEntry ==
  /\ client = "stream" /\ ~Complete
  /\ Due \notin lost
  /\ Write(Due)
  /\ onDisk' = onDisk \ {Due}
  /\ \/ UNCHANGED torn
     \/ "torn" \in Faults /\ Due \in onDisk /\ torn' = torn \cup {Due}
  /\ UNCHANGED <<client, archive, lost, resp, pending>> /\ EngineUnchanged

\* It cannot be opened: write_oci_archive fails.
EntryFails ==
  /\ client = "stream" /\ ~Complete
  /\ Due \in lost
  /\ client' = "abandon"
  /\ UNCHANGED <<archive, onDisk, lost, torn, sent, req, resp, pending>> /\ EngineUnchanged

\* Mutant: the end of the chunked body, too.
AbandonEnded ==
  /\ client = "abandon"
  /\ IF engine = "closed" THEN UNCHANGED <<req, sent>>
     ELSE /\ Len(req) < ReqCap
          /\ req' = Append(Append(req, End), Zero) /\ sent' = Append(Append(sent, End), Zero)
  /\ client' = "err"
  /\ UNCHANGED <<archive, onDisk, lost, torn, resp, pending>> /\ EngineUnchanged

\* The tar::Builder that is dropped on the way out still ends its archive; ChunkedWriter
\* does not end the body.
Abandon ==
  /\ client = "abandon"
  /\ Write(End) \/ (engine = "closed" /\ UNCHANGED <<req, sent>>)
  /\ client' = "err"
  /\ UNCHANGED <<archive, onDisk, lost, torn, resp, pending>> /\ EngineUnchanged

\* Mutant: flushed, not ended.
FinishOpen ==
  /\ client = "stream" /\ Complete
  /\ client' = "head"
  /\ UNCHANGED <<archive, onDisk, lost, torn, sent, req, resp, pending>> /\ EngineUnchanged

\* ChunkedWriter::finish.
Finish ==
  /\ client = "stream" /\ Complete
  /\ Write(Zero)
  /\ client' = "head"
  /\ UNCHANGED <<archive, onDisk, lost, torn, resp, pending>> /\ EngineUnchanged

\* The engine has closed: whatever it answered stays unread.
BrokenPipe ==
  /\ client = "stream" /\ engine = "closed"
  /\ client' = "err"
  /\ UNCHANGED <<archive, onDisk, lost, torn, sent, req, resp, pending>> /\ EngineUnchanged

-----------------------------------------------------------------------------
(* read_response_head, read_progress, read_body: the answer *)

Read == resp # <<>> /\ resp' = Tail(resp)
Eof == resp = <<>> /\ engine = "closed"
ClientDone(result) == client' = result /\ UNCHANGED <<archive, onDisk, lost, torn, sent, req>>

ReadHead ==
  /\ client = "head" /\ Read
  /\ ClientDone(IF Head(resp) = <<"500">> THEN "refused" ELSE "progress")
  /\ UNCHANGED pending /\ EngineUnchanged

\* An empty status line is no success, and there is no body.
NoHead ==
  /\ client = "head" /\ Eof
  /\ ClientDone("err")
  /\ UNCHANGED <<resp, pending>> /\ EngineUnchanged

\* read_body of an answer that is no success.
ReadRefusal ==
  /\ client = "refused"
  /\ Read \/ (Eof /\ UNCHANGED resp)
  /\ ClientDone(IF Eof THEN "err" ELSE "refused")
  /\ UNCHANGED pending /\ EngineUnchanged

\* Lines are "line", which is good, or an error that arrives as "half" and, if the engine
\* ends it with a newline, "rest".
HasError(text) == "rest" \in Range(text)
Incomplete(text) == IF text # <<>> /\ Last(text) = "half" THEN <<"half">> ELSE <<>>

\* Chunked: each chunk is looked at as it comes.  Not chunked: at the end.
ReadLine ==
  LET text == Append(pending, Head(resp)[1]) IN
  /\ client = "progress" /\ resp # <<>> /\ Head(resp) # Zero
  /\ Read
  /\ IF head = "200 chunked"
     THEN /\ ClientDone(IF HasError(text) THEN "err" ELSE "progress")
          /\ pending' = Incomplete(text)
     ELSE ClientDone("progress") /\ pending' = text
  /\ EngineUnchanged

\* Mutant: what is left in the buffer is forgotten.
AnswerEndsAnyhow ==
  /\ client = "progress"
  /\ IF head = "200 chunked" THEN resp # <<>> /\ Head(resp) = Zero /\ Read
     ELSE Eof /\ UNCHANGED resp
  /\ ClientDone(IF HasError(pending) THEN "err" ELSE "ok")
  /\ UNCHANGED pending /\ EngineUnchanged

\* The chunk of size zero, or the end of the connection.  A last line without a newline
\* counts, and one that is cut off does not parse.
AnswerEnds ==
  /\ client = "progress"
  /\ IF head = "200 chunked" THEN resp # <<>> /\ Head(resp) = Zero /\ Read
     ELSE Eof /\ UNCHANGED resp
  /\ ClientDone(IF HasError(pending) \/ Incomplete(pending) # <<>> THEN "err" ELSE "ok")
  /\ UNCHANGED pending /\ EngineUnchanged

\* read_chunked takes the end of the connection for a chunk size that is no number.
AnswerCut ==
  /\ client = "progress" /\ head = "200 chunked" /\ Eof
  /\ ClientDone("err")
  /\ UNCHANGED <<resp, pending>> /\ EngineUnchanged

-----------------------------------------------------------------------------
(* The engine *)

ClientUnchanged == UNCHANGED <<client, archive, onDisk, lost, torn, sent, pending>>

\* Its archive is good when the manifest the index names is there, is that manifest, and
\* has its blobs, whole: it compares what it gets with the digests.
Good(d) ==
  /\ <<"index", d>> \in Range(got) /\ <<"blob", d, d>> \in Range(got)
  /\ \A b \in Range(BlobsOf[d]) : <<"blob", b, b>> \in Range(got) \ torn

\* A line, after the head if that has not been sent.
Say(lines) ==
  IF head # None
  THEN out' = lines /\ UNCHANGED head
  ELSE \E h \in {"200", "200 chunked"} : out' = <<<<h>>>> \o lines /\ head' = h

Take ==
  /\ engine \in {"reading", "answering"} /\ out = <<>> /\ req # <<>>
  /\ req' = Tail(req) /\ got' = Append(got, Head(req))
  /\ \/ UNCHANGED <<out, head, early>>
     \/ engine = "reading" /\ early < MaxEarly /\ Head(req) \notin {End, Zero}
        /\ Say(<<<<"line">>>>) /\ early' = early + 1
  /\ UNCHANGED <<resp, engine, loaded, broken>> /\ ClientUnchanged

\* The engine writes, or waits until somebody reads.
Put ==
  /\ out # <<>> /\ engine # "closed" /\ Len(resp) < RespCap
  /\ resp' = Append(resp, Head(out)) /\ out' = Tail(out)
  /\ UNCHANGED <<req, engine, got, early, head, loaded, broken>> /\ ClientUnchanged

\* With the end of the body, or already with that of the archive, it loads what it has, or fails.
Load ==
  /\ engine = "reading" /\ out = <<>> /\ got # <<>> /\ Last(got) \in {End, Zero}
  /\ engine' = "answering"
  /\ \E h \in IF head = None THEN {"200", "200 chunked"} ELSE {head} :
       LET start == IF head = None THEN <<<<h>>>> ELSE <<>>
           end == IF h = "200 chunked" THEN <<Zero>> ELSE <<>>
       IN
       /\ head' = h
       /\ \/ /\ \E d \in DOMAIN BlobsOf : Good(d) /\ loaded' = d
             /\ out' = start \o <<<<"line">>>> \o end
             /\ UNCHANGED broken
          \/ /\ \/ (\A d \in DOMAIN BlobsOf : ~Good(d)) /\ UNCHANGED broken
                \/ "engine" \in Faults /\ broken' = broken \cup {"load"}
             /\ UNCHANGED loaded
             /\ \E error \in {<<<<"half">>>>, <<<<"half">>, <<"rest">>>>} :
                  out' = start \o error \o end
  /\ UNCHANGED <<req, resp, got, early>> /\ ClientUnchanged

\* It refuses before it has everything: a status, or an error line.
Refuse ==
  /\ "engine" \in Faults
  /\ engine = "reading" /\ out = <<>> /\ got # <<>> /\ Last(got) # Zero
  /\ engine' = "refusing" /\ broken' = broken \cup {"refuse"}
  /\ \/ head = None /\ head' = "500" /\ out' = <<<<"500">>, <<"line">>>>
     \/ Say(<<<<"half">>, <<"rest">>>>)
  /\ UNCHANGED <<req, resp, got, early, loaded>> /\ ClientUnchanged

\* It closes: after an answer not before the body is over, after a refusal at once.
Close ==
  /\ out = <<>>
  /\ \/ engine = "answering" /\ Last(got) = Zero
     \/ engine = "refusing"
     \/ engine \in {"reading", "answering"} /\ client \in {"ok", "err"} /\ req = <<>>
  /\ engine' = "closed"
  /\ UNCHANGED <<req, resp, got, out, early, head, loaded, broken>> /\ ClientUnchanged

\* Nobody is left to read: its answer is dropped.
Drop ==
  /\ client \in {"ok", "err"} /\ engine # "closed" /\ out # <<>>
  /\ engine' = "closed" /\ out' = <<>>
  /\ UNCHANGED <<req, resp, got, early, head, loaded, broken>> /\ ClientUnchanged

Die ==
  /\ "engine" \in Faults
  /\ engine # "closed" /\ Open
  /\ engine' = "closed" /\ out' = <<>> /\ broken' = broken \cup {"die"}
  /\ UNCHANGED <<req, resp, got, early, head, loaded>> /\ ClientUnchanged

\* A file of the cache is removed.
Lose(x) ==
  /\ "cache" \in Faults
  /\ x \in onDisk /\ x \notin lost
  /\ lost' = lost \cup {x} /\ broken' = broken \cup {"cache"}
  /\ UNCHANGED <<client, archive, onDisk, torn, sent, req, resp, engine, got, out, early, head,
                 loaded, pending>>

Send == SendEntry \/ EntryFails \/ Abandon \/ Finish \/ BrokenPipe
Receive == ReadHead \/ NoHead \/ ReadRefusal \/ ReadLine \/ AnswerEnds \/ AnswerCut
Engine == Take \/ Put \/ Load \/ Close \/ Drop

\* The engine waits for somebody to read its progress, the client for somebody to read
\* its archive.
Stuck ==
  /\ client \in {"stream", "abandon"} /\ Len(req) = ReqCap
  /\ engine # "closed" /\ out # <<>> /\ Len(resp) = RespCap
=============================================================================
