---------------------------- MODULE GnupgProcess ----------------------------
(***************************************************************************)
(* GcrGnupgProcess runs gpg and speaks to it over five pipes from a main   *)
(* loop source; GcrGnupgImporter runs it to import queued packets and      *)
(* reads what it says.  The child is the environment: it reads its input   *)
(* or does not, writes to its pipes, closes them in any order, hands them  *)
(* to another process that outlives it, and exits or is killed.            *)
(*                                                                         *)
(* A pipe holds tokens: "n" ends a line, "k" is the text of an IMPORT_OK   *)
(* status record, "t" any other text.                                      *)
(***************************************************************************)
EXTENDS Integers, Sequences, SequencesExt, FiniteSets

CONSTANTS
  MaxPackets,   \* bound: packets queued for import
  MaxWrites,    \* bound: tokens the child writes during one run
  PipeRoom,     \* the packets that the input pipe holds before it is full
  ClosedEarly,  \* the pipes a child may close before it ends
  MaxRuns       \* bound: imports started

VARIABLES
  packets,      \* the importer's memory stream: packets not read yet
  run,          \* the run: [running, complete, error, source, pid, fds,
                \*   error_buf, status_buf, callback, cancel_sig], see Init
  pipe,         \* fd -> [data, open]: what is in each pipe, and whether the
                \*   child's end is open
  child,        \* [alive, status]: the child, and how it ended
  app,          \* [output, attributes, lost, imported, first_error, result,
                \*   called, runs]: what the application heard, and the outputs
                \*   of which it lost some, from the start of a run
  written       \* fd -> all that the child wrote in this run (history)

gvars == <<packets, run, pipe, child, app, written>>

\* The outputs that are passed on to streams of the application.
Sinks == {"output", "attribute"}

Outs == {"status", "attribute", "output", "error"}
Fds == {"input"} \cup Outs

Tokens == [status |-> {"n", "k"}, error |-> {"n", "t"}, output |-> {"t"}, attribute |-> {"t"}]

Closed == [data |-> <<>>, open |-> FALSE]

GInit ==
  /\ packets = 0
  /\ run = [running |-> FALSE, complete |-> FALSE, error |-> "", source |-> FALSE, pid |-> FALSE,
            fds |-> {}, error_buf |-> <<>>, status_buf |-> <<>>, callback |-> FALSE,
            cancelled |-> FALSE]
  /\ pipe = [f \in Fds |-> Closed]
  /\ child = [alive |-> FALSE, status |-> ""]
  /\ app = [output |-> 0, attributes |-> 0, lost |-> {}, imported |-> 0, first_error |-> <<>>,
            result |-> <<>>, called |-> 0, runs |-> 0]
  /\ written = [f \in Outs |-> <<>>]

----------------------------------------------------------------------------
(* The importer. *)

\* _gcr_gnupg_importer_queue_for_parsed: another packet for the stream.
QueuePacket ==
  /\ packets < MaxPackets
  /\ packets' = packets + 1
  /\ UNCHANGED <<run, pipe, child, app, written>>

\* on_process_error_line: the first line is kept.
OnErrorLine(a, line) ==
  IF a.first_error # <<>> THEN a ELSE [a EXCEPT !.first_error = <<line>>]

\* on_process_status_record, of a line that carries the prefix.
OnStatusRecord(a, line) ==
  IF line = <<"k">> THEN [a EXCEPT !.imported = @ + 1] ELSE a

\* on_process_run_complete and _gcr_gnupg_process_run_finish: the error of a run
\* that failed is told with gpg's first words, if it had any.
RunComplete(a, error) ==
  [a EXCEPT !.called = @ + 1,
            !.result = IF error = "" THEN <<"ok">>
                       ELSE IF error = "failed" /\ a.first_error # <<>>
                            THEN <<"failed", a.first_error[1]>>
                            ELSE <<error>>]

----------------------------------------------------------------------------
(* Running the process. *)

\* _gcr_gnupg_process_run_async: the pipes and the child, or an error that the
\* idle callback tells.  The cancellable may be cancelled already.
RunAsync(spawned, cancelled) ==
  /\ ~run.running /\ ~run.complete /\ ~run.callback
  /\ app.runs < MaxRuns
  /\ app' = [app EXCEPT !.first_error = <<>>, !.runs = @ + 1, !.output = 0, !.attributes = 0,
                        !.lost = {}, !.imported = 0, !.result = <<>>]
  /\ written' = [f \in Outs |-> <<>>]
  /\ IF spawned
     THEN /\ run' = [run EXCEPT !.running = TRUE, !.source = TRUE, !.pid = TRUE, !.fds = Fds,
                                !.error_buf = <<>>, !.status_buf = <<>>,
                                !.callback = TRUE, !.cancelled = cancelled,
                                !.error = IF cancelled THEN "cancelled" ELSE @]
          /\ pipe' = [f \in Fds |-> [data |-> <<>>, open |-> TRUE]]
          /\ child' = [alive |-> TRUE, status |-> IF cancelled THEN "term" ELSE ""]
     ELSE /\ run' = [run EXCEPT !.complete = TRUE, !.error = "spawn", !.callback = TRUE]
          /\ UNCHANGED <<pipe, child>>
  /\ UNCHANGED packets

\* run_async_ready_callback, from complete_source_is_done; the importer's
\* callback finishes the run.
Complete(r) ==
  /\ run' = [r EXCEPT !.running = FALSE, !.complete = FALSE, !.error = "", !.callback = FALSE,
                      !.source = FALSE]
  /\ app' = RunComplete(app, r.error)

\* on_run_async_ready_callback_later, after the child could not be started.
RunCallbackLater ==
  /\ run.complete /\ run.callback
  /\ Complete(run)
  /\ UNCHANGED <<packets, pipe, child, written>>

\* _gcr_util_parse_lines: the complete lines of a buffer, and the rest as a line
\* of its own when it is the last.
RECURSIVE ParseLines(_, _)
ParseLines(buffer, isLast) ==
  LET ends == {i \in DOMAIN buffer : buffer[i] = "n"}
      end == CHOOSE i \in ends : \A j \in ends : i =< j
      rest == ParseLines(SubSeq(buffer, end + 1, Len(buffer)), isLast)
  IN  IF ends # {} THEN [lines |-> <<SubSeq(buffer, 1, end - 1)>> \o rest.lines, left |-> rest.left]
      ELSE IF isLast /\ buffer # <<>> THEN [lines |-> <<buffer>>, left |-> <<>>]
      ELSE [lines |-> <<>>, left |-> buffer]

\* Whether the poll reports data, and whether it reports a hang-up.
In(f) == f \in run.fds \ {"input"} /\ pipe[f].data # <<>>
Hup(f) == f \in run.fds \ {"input"} /\ ~pipe[f].open

\* Whether it reports that the input can be written: there is room in the pipe.
\* That nobody reads it any more is reported as G_IO_ERR, never as a hang-up.
Out == "input" \in run.fds /\ Len(pipe["input"].data) < PipeRoom

\* on_gnupg_source_input: the next packet of the stream, written whole.  At the
\* end of the stream, when reading it is cancelled and when the write fails, the
\* pipe is closed.
SourceInput ==
  IF packets = 0 \/ run.cancelled THEN [packets |-> packets, ok |-> FALSE]
  ELSE [packets |-> packets - 1, ok |-> pipe["input"].open]

SourceStatus == ParseLines(run.status_buf \o pipe["status"].data, pipe["status"].data = <<>>)
SourceError == ParseLines(run.error_buf \o pipe["error"].data, Hup("error"))

\* What was read goes to the application's stream, whose failure or refusal,
\* once the run is cancelled, is ignored.
SourceOutput(a, failing) ==
  IF ~In("output") THEN a
  ELSE IF run.cancelled \/ "output" \in failing THEN [a EXCEPT !.lost = @ \cup {"output"}]
  ELSE [a EXCEPT !.output = @ + Len(pipe["output"].data)]
SourceAttribute(a, failing) ==
  IF ~In("attribute") THEN a
  ELSE IF run.cancelled \/ "attribute" \in failing THEN [a EXCEPT !.lost = @ \cup {"attribute"}]
  ELSE [a EXCEPT !.attributes = @ + Len(pipe["attribute"].data)]

\* The source is dispatched: each descriptor in turn, as far as poll says it is
\* ready.  Reading takes all there is; a descriptor that hung up is closed.  A
\* dispatch for nothing but G_IO_ERR on the input changes nothing.
Dispatch(failing) ==
  /\ run.source
  /\ (\E f \in run.fds : In(f) \/ Hup(f)) \/ Out \/ run.fds = {}
  /\ LET input == SourceInput
         hungUp == {f \in run.fds : Hup(f)} \cup (IF Out /\ ~input.ok THEN {"input"} ELSE {})
         statusLines == IF In("status") THEN SourceStatus.lines ELSE <<>>
         errorLines == IF In("error") THEN SourceError.lines ELSE <<>>
         streamed == SourceOutput(SourceAttribute(app, failing), failing)
         told == FoldLeft(OnErrorLine, FoldLeft(OnStatusRecord, streamed, statusLines), errorLines)
         r == [run EXCEPT !.fds = @ \ hungUp,
                          !.status_buf = IF In("status") THEN SourceStatus.left ELSE @,
                          !.error_buf = IF In("error") THEN SourceError.left ELSE @,
                          !.source = (run.fds \ hungUp # {})]
         done == r.fds = {} /\ ~run.pid
     IN  /\ packets' = IF Out THEN input.packets ELSE packets
         /\ pipe' = [f \in Fds |-> IF f \in hungUp THEN Closed
                                   ELSE IF f = "input" /\ Out THEN [pipe[f] EXCEPT !.data = Append(@, "p")]
                                   ELSE IF f \in run.fds \ {"input"} THEN [pipe[f] EXCEPT !.data = <<>>]
                                   ELSE pipe[f]]
         /\ IF done
            THEN /\ run' = [r EXCEPT !.running = FALSE, !.error = "", !.callback = FALSE]
                 /\ app' = RunComplete(told, r.error)
            ELSE run' = r /\ app' = told
  /\ UNCHANGED <<child, written>>

\* Mutant: the run is over when the child is, whatever its pipes still hold.
ChildExitedAtOnce ==
  /\ run.pid /\ ~child.alive
  /\ Complete([run EXCEPT !.pid = FALSE, !.fds = {}])
  /\ UNCHANGED <<packets, pipe, child, written>>

\* on_gnupg_process_child_exited: the child is reaped.
ChildExited ==
  /\ run.pid /\ ~child.alive
  /\ LET failed == \/ child.status \in {"1"}
                   \/ child.status \in {"term", "crash"} /\ run.error # "cancelled"
         r == [run EXCEPT !.pid = FALSE,
                          !.error = IF failed /\ @ = "" THEN "failed" ELSE @]
     IN  IF run.fds = {}
         THEN Complete(r) ELSE run' = r /\ UNCHANGED app
  /\ UNCHANGED <<packets, pipe, child, written>>

\* on_cancellable_cancelled: the error is set and the child is told to end.
Cancel ==
  /\ run.running /\ ~run.cancelled
  /\ run' = [run EXCEPT !.cancelled = TRUE, !.error = IF @ = "" THEN "cancelled" ELSE @]
  /\ child' = IF run.pid /\ child.alive THEN [child EXCEPT !.status = "term"] ELSE child
  /\ UNCHANGED <<packets, pipe, app, written>>

----------------------------------------------------------------------------
(* The child. *)

ChildWrites(f, token) ==
  /\ child.alive /\ pipe[f].open
  /\ Len(written["status"]) + Len(written["error"]) + Len(written["output"])
       + Len(written["attribute"]) < MaxWrites
  /\ pipe' = [pipe EXCEPT ![f].data = Append(@, token)]
  /\ written' = [written EXCEPT ![f] = Append(@, token)]
  /\ UNCHANGED <<packets, run, child, app>>

\* It reads a packet of its input.
ChildReads ==
  /\ child.alive /\ pipe["input"].data # <<>>
  /\ pipe' = [pipe EXCEPT !["input"].data = Tail(@)]
  /\ UNCHANGED <<packets, run, child, app, written>>

ChildCloses(f) ==
  /\ run.running /\ pipe[f].open
  /\ pipe' = [pipe EXCEPT ![f].open = FALSE]
  /\ UNCHANGED <<packets, run, child, app, written>>

\* It ends by itself, or because it was told to; its pipes close with it unless
\* a process it started has them.
ChildEnds(status, keeps) ==
  /\ child.alive
  /\ child' = [child EXCEPT !.alive = FALSE, !.status = IF @ = "term" THEN "term" ELSE status]
  /\ pipe' = [f \in Fds |-> IF f \in keeps THEN pipe[f] ELSE [pipe[f] EXCEPT !.open = FALSE]]
  /\ UNCHANGED <<packets, run, app, written>>

----------------------------------------------------------------------------
GNext ==
  \/ QueuePacket
  \/ \E cancelled \in BOOLEAN : RunAsync(TRUE, cancelled)
  \/ RunAsync(FALSE, FALSE)
  \/ RunCallbackLater
  \/ \E failing \in SUBSET {f \in Sinks : In(f)} : Dispatch(failing)
  \/ ChildExited
  \/ Cancel
  \/ ChildReads
  \/ \E f \in Outs : \E token \in Tokens[f] : ChildWrites(f, token)
  \/ \E f \in ClosedEarly : ChildCloses(f)
  \/ \E status \in {"0", "1", "crash"}, keeps \in {{}, {"output"}} : ChildEnds(status, keeps)

\* The main loop dispatches what is ready, and a child that was started ends and
\* so does what it left behind.
GFairness ==
  /\ WF_gvars(\E failing \in SUBSET Sinks : Dispatch(failing))
  /\ WF_gvars(ChildExited) /\ WF_gvars(RunCallbackLater)
  /\ \A f \in ClosedEarly : WF_gvars(ChildCloses(f))
  /\ WF_gvars(\E status \in {"0", "1", "crash"} : ChildEnds(status, {}))

GSpec == GInit /\ [][GNext]_gvars /\ GFairness

----------------------------------------------------------------------------
\* The lines, complete ones only, in all that was written to a pipe.
WrittenLines(f) == ParseLines(written[f], FALSE).lines

\* The callback runs once for each run, never before the child is reaped and
\* every pipe closed, whichever comes last; by then every complete status line
\* was heard, and all output was passed on, unless the run was cancelled or the
\* application's stream failed, which the run does not tell.
RunEndsOnce ==
  /\ app.called = app.runs - (IF run.callback THEN 1 ELSE 0)
  /\ (run.running => run.callback)
  /\ (app.runs > 0 /\ ~run.callback) =>
        /\ ~run.pid /\ run.fds = {}
        /\ "output" \in app.lost \/ app.output = Len(written["output"])
        /\ "attribute" \in app.lost \/ app.attributes = Len(written["attribute"])
        /\ app.imported >= Len(SelectSeq(WrittenLines("status"), LAMBDA l : l = <<"k">>))

\* The answer is the run's own: cancelled only when this run was, gpg's words
\* only from this run, and success only of a child that ended well.
RunTellsTruth ==
  (app.called > 0 /\ ~run.callback) =>
     LET result == app.result
     IN  /\ result[1] = "cancelled" => run.cancelled
         /\ result[1] = "ok" => child.status = "0"
         /\ (Len(result) = 2 /\ WrittenLines("error") # <<>>) => result[2] = WrittenLines("error")[1]

\* Nobody reads the input any more and the pipe is full: the poll reports
\* G_IO_ERR alone, which on_gnupg_source_dispatch does not look at.  The pipe is
\* never closed and the main loop spins.
InputStuck == "input" \in run.fds /\ ~pipe["input"].open /\ ~Out

\* Every run that was started comes to its end, but for one whose child ended
\* with its input full.
RunsEnd == run.callback ~> (~run.callback \/ InputStuck)
============================================================================
