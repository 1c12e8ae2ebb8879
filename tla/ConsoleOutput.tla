---------------------------- MODULE ConsoleOutput ----------------------------
(***************************************************************************)
(* The output side of a web console (webSocketConsole).  The pumps of the  *)
(* SSH session's stdout and stderr append to one buffer and block while it *)
(* is full; one flush loop sends what has gathered as one frame; Close     *)
(* stops the pumps, waits for the last flush and closes the connection.    *)
(* They share a mutex, a condition variable and channels of capacity one.  *)
(***************************************************************************)
EXTENDS Naturals, Sequences

CONSTANTS
    Writers,    \* the pumps
    MaxWrites,  \* bound on the writes of each pump
    Limit,      \* webConsoleBufferLimit, in writes
    FlushMax    \* webConsoleFlushMaxBytes, in writes

ConsoleOutputAssumption == MaxWrites \in Nat /\ Limit \in Nat

VARIABLES
    buf,       \* writes gathered: <<writer, n>>
    out,       \* the frame being sent
    sent,      \* writes the browser has got
    closed,    \* no more writes are accepted
    wake,      \* wake holds a token
    flushNow,  \* flushNow holds a token
    done,      \* done is closed
    writer,    \* state of each pump: pc and writes accepted
    flusher,   \* state of flushLoop
    closer,    \* state of Close
    accepted,  \* history: writes accepted, in order
    broken     \* history: a frame could not be sent

vars == <<buf, out, sent, closed, wake, flushNow, done, writer, flusher, closer,
          accepted, broken>>

Chunks == Seq(Writers \X (1 .. MaxWrites))

\* "last" and "sendLast" are the flush after done; "stopped": the loop has
\* returned and closed the channel of that name.
TypeOK ==
    /\ buf \in Chunks /\ Len(buf) <= Limit
    /\ out \in Chunks /\ sent \in Chunks /\ accepted \in Chunks
    /\ closed \in BOOLEAN /\ wake \in BOOLEAN /\ flushNow \in BOOLEAN /\ done \in BOOLEAN
    /\ writer \in [Writers ->
          [pc : {"ready", "blocked", "woken", "wake", "wakeNow", "flushNow", "failed"},
           n : 0 .. MaxWrites]]
    /\ flusher \in {"select", "gather", "flush", "last", "send", "sendLast", "stopped"}
    /\ closer \in {"open", "marked", "waiting", "closed"}
    /\ broken \in BOOLEAN

Init ==
    /\ buf = <<>> /\ out = <<>> /\ sent = <<>> /\ accepted = <<>>
    /\ closed = FALSE /\ wake = FALSE /\ flushNow = FALSE /\ done = FALSE
    /\ writer = [w \in Writers |-> [pc |-> "ready", n |-> 0]]
    /\ flusher = "select"
    /\ closer = "open"
    /\ broken = FALSE

\* cond.Broadcast, under the mutex.
Broadcast ==
    writer' = [w \in Writers |-> IF writer[w].pc = "blocked"
                                 THEN [writer[w] EXCEPT !.pc = "woken"] ELSE writer[w]]

-----------------------------------------------------------------------------
(* Seeded faults: what the definitions below would be with a plausible bug. *)

SendOkDrainsWake ==
    /\ flusher \in {"send", "sendLast"}
    /\ sent' = sent \o out
    /\ out' = <<>>
    /\ wake' = FALSE
    /\ flusher' = IF flusher = "send" THEN "select" ELSE "stopped"
    /\ UNCHANGED <<buf, closed, flushNow, done, writer, closer, accepted, broken>>

StopWithoutFlush ==
    /\ flusher \in {"select", "gather"} /\ done
    /\ flusher' = "stopped"
    /\ UNCHANGED <<buf, out, sent, closed, wake, flushNow, done, writer, closer, accepted, broken>>

-----------------------------------------------------------------------------
(* Write *)

\* The wait in the loop of Write: the buffer is full.
WriteBlocks(w) ==
    /\ writer[w].pc \in {"ready", "woken"} /\ writer[w].n < MaxWrites
    /\ ~closed /\ Len(buf) >= Limit
    /\ writer' = [writer EXCEPT ![w].pc = "blocked"]
    /\ UNCHANGED <<buf, out, sent, closed, wake, flushNow, done, flusher, closer, accepted, broken>>

WriteAppends(w) ==
    /\ writer[w].pc \in {"ready", "woken"} /\ writer[w].n < MaxWrites
    /\ ~closed /\ Len(buf) < Limit
    /\ buf' = Append(buf, <<w, writer[w].n + 1>>)
    /\ accepted' = Append(accepted, <<w, writer[w].n + 1>>)
    /\ writer' = [writer EXCEPT ![w] = [pc |-> IF Len(buf') >= FlushMax THEN "wakeNow" ELSE "wake",
                                        n |-> @.n + 1]]
    /\ UNCHANGED <<out, sent, closed, wake, flushNow, done, flusher, closer, broken>>

\* io.ErrClosedPipe: io.Copy ends.
WriteClosed(w) ==
    /\ writer[w].pc \in {"ready", "woken"} /\ closed
    /\ writer' = [writer EXCEPT ![w].pc = "failed"]
    /\ UNCHANGED <<buf, out, sent, closed, wake, flushNow, done, flusher, closer, accepted, broken>>

\* After the unlock: notify(wake), then notify(flushNow) for a large buffer.
NotifyWake(w) ==
    /\ writer[w].pc \in {"wake", "wakeNow"}
    /\ wake' = TRUE
    /\ writer' = [writer EXCEPT ![w].pc = IF @ = "wake" THEN "ready" ELSE "flushNow"]
    /\ UNCHANGED <<buf, out, sent, closed, flushNow, done, flusher, closer, accepted, broken>>

NotifyFlushNow(w) ==
    /\ writer[w].pc = "flushNow"
    /\ flushNow' = TRUE
    /\ writer' = [writer EXCEPT ![w].pc = "ready"]
    /\ UNCHANGED <<buf, out, sent, closed, wake, done, flusher, closer, accepted, broken>>

-----------------------------------------------------------------------------
(* flushLoop and flush *)

LoopDone ==
    /\ flusher \in {"select", "gather"} /\ done
    /\ flusher' = "last"
    /\ UNCHANGED <<buf, out, sent, closed, wake, flushNow, done, writer, closer, accepted, broken>>

LoopWake ==
    /\ flusher = "select" /\ wake
    /\ wake' = FALSE
    /\ flusher' = "gather"
    /\ UNCHANGED <<buf, out, sent, closed, flushNow, done, writer, closer, accepted, broken>>

\* flushNow, or the interval is over.
LoopGathered ==
    /\ flusher = "gather"
    /\ flushNow' \in {FALSE, flushNow}
    /\ flusher' = "flush"
    /\ UNCHANGED <<buf, out, sent, closed, wake, done, writer, closer, accepted, broken>>

FlushNothing ==
    /\ flusher \in {"flush", "last"} /\ buf = <<>>
    /\ flusher' = IF flusher = "flush" THEN "select" ELSE "stopped"
    /\ UNCHANGED <<buf, out, sent, closed, wake, flushNow, done, writer, closer, accepted, broken>>

FlushTakes ==
    /\ flusher \in {"flush", "last"} /\ buf # <<>>
    /\ out' = buf
    /\ buf' = <<>>
    /\ flusher' = IF flusher = "flush" THEN "send" ELSE "sendLast"
    /\ Broadcast
    /\ UNCHANGED <<sent, closed, wake, flushNow, done, closer, accepted, broken>>

SendOk ==
    /\ flusher \in {"send", "sendLast"}
    /\ sent' = sent \o out
    /\ out' = <<>>
    /\ flusher' = IF flusher = "send" THEN "select" ELSE "stopped"
    /\ UNCHANGED <<buf, closed, wake, flushNow, done, writer, closer, accepted, broken>>

\* A slow or dead browser: output is dropped and the console closed.
SendFails ==
    /\ flusher \in {"send", "sendLast"}
    /\ out' = <<>>
    /\ closed' = TRUE
    /\ broken' = TRUE
    /\ Broadcast
    /\ flusher' = "stopped"
    /\ UNCHANGED <<buf, sent, wake, flushNow, done, closer, accepted>>

-----------------------------------------------------------------------------
(* Close, called at the end of the relay *)

CloseMarks ==
    /\ closer = "open"
    /\ closed' = TRUE
    /\ Broadcast
    /\ closer' = "marked"
    /\ UNCHANGED <<buf, out, sent, wake, flushNow, done, flusher, accepted, broken>>

CloseSignals ==
    /\ closer = "marked"
    /\ done' = TRUE
    /\ closer' = "waiting"
    /\ UNCHANGED <<buf, out, sent, closed, wake, flushNow, writer, flusher, accepted, broken>>

CloseReturns ==
    /\ closer = "waiting" /\ flusher = "stopped"
    /\ closer' = "closed"
    /\ UNCHANGED <<buf, out, sent, closed, wake, flushNow, done, writer, flusher, accepted, broken>>

-----------------------------------------------------------------------------

WriterStep(w) ==
    WriteBlocks(w) \/ WriteAppends(w) \/ WriteClosed(w) \/ NotifyWake(w) \/ NotifyFlushNow(w)
FlusherStep ==
    LoopDone \/ LoopWake \/ LoopGathered \/ FlushNothing \/ FlushTakes \/ SendOk \/ SendFails

Next ==
    \/ \E w \in Writers : WriterStep(w)
    \/ FlusherStep
    \/ CloseMarks \/ CloseSignals \/ CloseReturns

\* Goroutines run and sending has a timeout; nothing makes the SSH side produce
\* output or the relay call Close.
Fairness ==
    /\ \A w \in Writers : WF_vars(writer[w].pc # "ready" /\ WriterStep(w))
    /\ WF_vars(FlusherStep)
    /\ WF_vars(CloseSignals) /\ WF_vars(CloseReturns)

Spec == Init /\ [][Next]_vars /\ Fairness

-----------------------------------------------------------------------------
(* Properties *)

\* The browser gets the accepted output in order, nothing twice; until a frame
\* fails, nothing is lost on the way either.
InOrder ==
    /\ Len(sent) <= Len(accepted) /\ sent = SubSeq(accepted, 1, Len(sent))
    /\ ~broken => accepted = sent \o out \o buf

\* Close returns only after everything that was accepted has been sent, unless
\* the browser is gone (handler.go:571).
CloseFlushes == closer = "closed" /\ ~broken => sent = accepted

\* Close goes ahead of the flush loop: the last flush comes after done, the loop ends closed,
\* and with nothing left unless a frame failed.
CloseOrder ==
    /\ closer # "open" => closed
    /\ done <=> closer \in {"waiting", "closed"}
    /\ flusher \in {"last", "sendLast"} => done
    /\ flusher = "stopped" => closed
    /\ closer = "closed" => flusher = "stopped"
    /\ broken => flusher = "stopped"
    /\ out # <<>> => flusher \in {"send", "sendLast"}
    /\ flusher \in {"sendLast", "stopped"} /\ ~broken => buf = <<>>

OutputInv == TypeOK /\ InOrder /\ CloseFlushes /\ CloseOrder

\* No wake-up is lost: gathered output is sent, or the browser is gone, even
\* if no further output comes.
OutputFlushed == buf # <<>> ~> buf = <<>> \/ broken

\* A pump blocked on a full buffer goes on, or learns that it is closed.
NoStuckWriter == \A w \in Writers : writer[w].pc = "blocked" ~> writer[w].pc # "blocked"

\* Close returns, also after the flush loop has given up on a dead browser.
CloseEnds == closer = "marked" ~> closer = "closed"
=============================================================================
