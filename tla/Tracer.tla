------------------------------- MODULE Tracer -------------------------------
(***************************************************************************)
(* One traced job, src/trace.rs as src/run.rs uses it: mepul's main thread,  *)
(* the gated job, and the reader thread that polls the ring buffer.          *)
(*                                                                          *)
(* Which tasks the kernel reports is Observer's matter; here the job and     *)
(* its descendants are one source of events that is on once the job is       *)
(* inside its root.                                                          *)
(***************************************************************************)
EXTENDS Integers, SequencesExt

CONSTANTS
  Path,       \* paths a job asks for
  Garbled,    \* those that are not UTF-8: decode drops them
  Probe,      \* the tracepoints; "chroot" is one of them
  RingSize,   \* events the ring holds
  Faults      \* SUBSET {"attach", "kill"}: loading or attaching may fail, the job
              \* may be killed while it is parked

ASSUME ProbeAssumption == "chroot" \in Probe
ASSUME GarbledAssumption == Garbled \subseteq Path
ASSUME RingAssumption == RingSize \in Nat

VARIABLES
  main,       \* what mepul's main thread does next
  seeded,     \* the job's pid is in the map `tracked`
  attached,   \* probes that are live
  job,        \* where the job is
  orphan,     \* the job is over but a descendant of it is not
  inside,     \* the observer has seen the job's chroot
  ring,       \* events submitted and not read yet
  owed,       \* history: what the job asked for inside its root, but for calls that
              \* found the ring full
  reader,     \* the reader thread and its flag `drained`
  sent,       \* the channel (which paths are in it: their order is wording)
  stopping,   \* the flag shared with the reader
  result,     \* the paths stop has collected
  unseen,     \* history: a call of the job inside its root went by unseen
  looked      \* history: the reader began to look when the job was over

mainVars == <<main, seeded, attached, stopping, result>>
jobVars == <<job, orphan, inside, owed, unseen>>
readerVars == <<reader, sent, looked>>
vars == <<mainVars, jobVars, readerVars, ring>>

TypeOK ==
  /\ main \in {"spawn", "seed", "attach", "gate", "write", "wait", "stop", "join",
               "collect", "done", "failed"}
  /\ job \in {"none", "started", "parked", "reading", "host", "image", "over"}
  /\ seeded \in BOOLEAN /\ orphan \in BOOLEAN /\ inside \in BOOLEAN
  /\ stopping \in BOOLEAN /\ unseen \in BOOLEAN /\ looked \in BOOLEAN
  /\ attached \subseteq Probe
  /\ ring \in Seq(Path) /\ Len(ring) <= RingSize
  /\ owed \subseteq Path
  /\ reader \in [pc : {"none", "drain", "check", "gone"}, drained : BOOLEAN]
  /\ sent \subseteq Path \ Garbled /\ result \subseteq Path \ Garbled

Init ==
  /\ main = "spawn" /\ seeded = FALSE /\ attached = {}
  /\ stopping = FALSE /\ result = {}
  /\ job = "none" /\ orphan = FALSE /\ inside = FALSE
  /\ ring = <<>> /\ owed = {} /\ unseen = FALSE
  /\ sent = {} /\ looked = FALSE
  /\ reader = [pc |-> "none", drained |-> FALSE]

-----------------------------------------------------------------------------
(* The main thread: execute in src/run.rs *)

\* GatedJob::spawn.
Spawn ==
  /\ main = "spawn"
  /\ main' = "seed" /\ job' = "started"
  /\ UNCHANGED <<seeded, attached, stopping, result, orphan, inside, owed, unseen,
                 readerVars, ring>>

\* Tracer::start loads the programs and seeds the job's pid, ...
Seed ==
  /\ main = "seed"
  /\ main' = "attach" /\ seeded' = TRUE
  /\ UNCHANGED <<attached, stopping, result, jobVars, readerVars, ring>>

\* ... then attaches the probes one by one, ...
Attach(p) ==
  /\ main = "attach" /\ p \notin attached
  /\ attached' = attached \cup {p}
  /\ UNCHANGED <<main, seeded, stopping, result, jobVars, readerVars, ring>>

\* Mutant of StartReader: a probe that does not attach is not an error.
StartReaderAnyway ==
  /\ main = "attach"
  /\ main' = "gate"
  /\ reader' = [reader EXCEPT !.pc = "drain"]
  /\ UNCHANGED <<seeded, attached, stopping, result, jobVars, sent, looked, ring>>

\* ... and starts the reader.
StartReader ==
  /\ main = "attach" /\ attached = Probe
  /\ main' = "gate"
  /\ reader' = [reader EXCEPT !.pc = "drain"]
  /\ UNCHANGED <<seeded, attached, stopping, result, jobVars, sent, looked, ring>>

\* Any of it fails: `?` ends the run.  Nobody opens the gate.
StartFails ==
  /\ "attach" \in Faults
  /\ main \in {"seed", "attach"}
  /\ main' = "failed"
  /\ UNCHANGED <<seeded, attached, stopping, result, jobVars, readerVars, ring>>

\* release_and_wait opens the gate: a FIFO opens for a writer only while a reader
\* has it open, or waits to.  The job's `read` waits for a line now, ...
OpenGate ==
  /\ main = "gate" /\ job = "parked"
  /\ main' = "write" /\ job' = "reading"
  /\ UNCHANGED <<seeded, attached, stopping, result, orphan, inside, owed, unseen,
                 readerVars, ring>>

\* ... and gets it: `exec` follows.
WriteGate ==
  /\ main = "write" /\ job = "reading"
  /\ main' = "wait" /\ job' = "host"
  /\ UNCHANGED <<seeded, attached, stopping, result, orphan, inside, owed, unseen,
                 readerVars, ring>>

\* Nobody reads any more: EPIPE, and `?` ends the run.
GateBroken ==
  /\ main = "write" /\ job = "over"
  /\ main' = "failed"
  /\ UNCHANGED <<seeded, attached, stopping, result, jobVars, readerVars, ring>>

Wait ==
  /\ main = "wait" /\ job = "over"
  /\ main' = "stop"
  /\ UNCHANGED <<seeded, attached, stopping, result, jobVars, readerVars, ring>>

\* Tracer::stop raises the flag, ...
Stop ==
  /\ main = "stop"
  /\ main' = "join" /\ stopping' = TRUE
  /\ UNCHANGED <<seeded, attached, result, jobVars, readerVars, ring>>

\* ... joins the reader ...
Join ==
  /\ main = "join" /\ reader.pc = "gone"
  /\ main' = "collect"
  /\ UNCHANGED <<seeded, attached, stopping, result, jobVars, readerVars, ring>>

\* ... and empties the channel, keeping what it has not seen before.
Collect(path) ==
  /\ main = "collect" /\ path \in sent
  /\ sent' = sent \ {path}
  /\ result' = result \cup {path}
  /\ UNCHANGED <<main, seeded, attached, stopping, jobVars, reader, looked, ring>>

Collected ==
  /\ main = "collect" /\ sent = {}
  /\ main' = "done"
  /\ UNCHANGED <<seeded, attached, stopping, result, jobVars, readerVars, ring>>

-----------------------------------------------------------------------------
(* The job *)

\* The shell opens the gate for reading, and blocks.
Park ==
  /\ job = "started"
  /\ job' = "parked"
  /\ UNCHANGED <<mainVars, orphan, inside, owed, unseen, readerVars, ring>>

Kill ==
  /\ "kill" \in Faults
  /\ job \in {"started", "parked", "reading"}
  /\ job' = "over"
  /\ UNCHANGED <<mainVars, orphan, inside, owed, unseen, readerVars, ring>>

\* unshare, env and chroot have done their work.
Chroot ==
  /\ job = "host"
  /\ job' = "image"
  /\ inside' = (seeded /\ "chroot" \in attached)
  /\ UNCHANGED <<mainVars, orphan, owed, unseen, readerVars, ring>>

\* A full ring drops what report submits.
Room == Len(ring) < RingSize

\* The job, or what is left of it, asks for a file, as often as it likes: report puts
\* the path into the ring.
Touch(path, p) ==
  /\ job = "image" \/ orphan
  /\ p # "chroot"
  /\ LET seen == inside /\ p \in attached IN
       /\ ring' = IF seen /\ Room THEN Append(ring, path) ELSE ring
       /\ owed' = IF job = "image" /\ (seen => Room) THEN owed \cup {path} ELSE owed
       /\ unseen' = (unseen \/ ~seen)
  /\ UNCHANGED <<mainVars, job, orphan, inside, readerVars>>

\* The process mepul waits for ends; descendants may go on.
End ==
  /\ job \in {"host", "image"}
  /\ job' = "over"
  /\ orphan' \in {FALSE, job = "image"}
  /\ UNCHANGED <<mainVars, inside, owed, unseen, readerVars, ring>>

OrphanEnds ==
  /\ orphan
  /\ orphan' = FALSE
  /\ UNCHANGED <<mainVars, job, inside, owed, unseen, readerVars, ring>>

-----------------------------------------------------------------------------
(* The reader thread: drain *)

\* Mutants of Take: one record per pass, and the flag stays down; a path is passed on
\* as it is.
TakeOne ==
  /\ reader.pc = "drain" /\ ring # <<>>
  /\ ring' = Tail(ring)
  /\ sent' = sent \cup ({Head(ring)} \ Garbled)
  /\ reader' = [reader EXCEPT !.pc = "check"]
  /\ UNCHANGED <<mainVars, jobVars, looked>>
TakeRaw ==
  /\ reader.pc = "drain" /\ ring # <<>>
  /\ ring' = Tail(ring)
  /\ sent' = sent \cup {Head(ring)}
  /\ reader' = [reader EXCEPT !.drained = TRUE]
  /\ UNCHANGED <<mainVars, jobVars, looked>>

\* A record is there: move it to the channel if it decodes.
Take ==
  /\ reader.pc = "drain" /\ ring # <<>>
  /\ ring' = Tail(ring)
  /\ sent' = sent \cup ({Head(ring)} \ Garbled)
  /\ reader' = [reader EXCEPT !.drained = TRUE]
  /\ UNCHANGED <<mainVars, jobVars, looked>>

\* The ring is empty.
Empty ==
  /\ reader.pc = "drain" /\ ring = <<>>
  /\ reader' = [reader EXCEPT !.pc = "check"]
  /\ UNCHANGED <<mainVars, jobVars, sent, looked, ring>>

\* Mutant of Check: `drained` is declared outside the loop.
CheckNoReset ==
  /\ reader.pc = "check"
  /\ IF stopping /\ ~reader.drained
     THEN /\ reader' = [reader EXCEPT !.pc = "gone"]
          /\ UNCHANGED looked
     ELSE /\ reader' = [reader EXCEPT !.pc = "drain"]
          /\ looked' = (looked \/ job = "over")
  /\ UNCHANGED <<mainVars, jobVars, sent, ring>>

\* Leave when asked to and the last look found nothing; look again otherwise.
Check ==
  /\ reader.pc = "check"
  /\ IF stopping /\ ~reader.drained
     THEN /\ reader' = [reader EXCEPT !.pc = "gone"]
          /\ UNCHANGED looked
     ELSE /\ reader' = [pc |-> "drain", drained |-> FALSE]
          /\ looked' = (looked \/ job = "over")
  /\ UNCHANGED <<mainVars, jobVars, sent, ring>>

-----------------------------------------------------------------------------
MainStep ==
  \/ Spawn \/ Seed \/ StartReader \/ OpenGate \/ WriteGate \/ GateBroken
  \/ Wait \/ Stop \/ Join \/ Collected
  \/ \E p \in Probe : Attach(p)
  \/ \E path \in sent : Collect(path)
ReaderStep == Take \/ Empty \/ Check
JobStep == Park \/ Chroot \/ \E path \in Path, p \in Probe : Touch(path, p)

\* The run is over, or the main thread waits for good: the rest may stand still.
Rest == main \in {"done", "failed"} /\ UNCHANGED vars

Next == MainStep \/ ReaderStep \/ JobStep \/ StartFails \/ Kill \/ End \/ OrphanEnds \/ Rest

\* Threads are scheduled, a job gets as far as its command, and jobs end.
Spec ==
  /\ Init /\ [][Next]_vars
  /\ WF_vars(MainStep) /\ WF_vars(ReaderStep)
  /\ WF_vars(Park) /\ WF_vars(End)

-----------------------------------------------------------------------------
(* Properties *)

\* "by the time this returns there is no window in which the job could run
\* unobserved" (Tracer::start): no call the job makes inside its root goes by.  (A call
\* that finds the ring full is seen, and lost: "a 16 MiB ring cannot fill" says drain.)
NothingUnseen == ~unseen

\* What the job asked for and found room for, and decodes, is in the result.
AllKept == owed \ Garbled \subseteq result

\* "The reader drains what is already in the ring before it exits, so the last events of
\* the run are not lost" (stop).  It does if it began to look once the job was over: then
\* every event of the job is returned.  It may also leave with the flag up on a pass that
\* ended before the job's last event.
KeptIfLooked == main = "done" /\ looked => AllKept

\* The gate is open for writing only while somebody reads it: once the job is gone,
\* nobody will.
Stuck == main = "gate" /\ job = "over"

\* What is left of the job goes on submitting for ever.
Fed == []<><<orphan /\ Len(ring') > Len(ring)>>_vars

\* mepul gets its answer, with two exceptions.  The death of the job at the gate keeps
\* it, and for good: "Opens the gate and waits for the job to finish" (release_and_wait).
\* And stop joins a reader that leaves only after a pass that found nothing (drain):
\* descendants that outlive the job, which nothing ends, may feed it for ever.
Returns == <>(main \in {"done", "failed"} \/ []Stuck) \/ Fed
=============================================================================
