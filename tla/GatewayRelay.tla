---------------------------- MODULE GatewayRelay -----------------------------
(***************************************************************************)
(* One session of the SSH gateway: the client's channel on one side, the   *)
(* session in the VM on the other.  pipeSession copies input and output in *)
(* goroutines and waits for the VM's shell to exit or the client's input   *)
(* to end; then it closes both sides, gives the copies a moment to finish  *)
(* and lets handleSession's deferred calls run.  A write to the VM has no  *)
(* timeout: a VM that takes nothing more holds up the input copy, which    *)
(* then does not see the client's end, and the closing of its session.     *)
(***************************************************************************)
EXTENDS Naturals

CONSTANT MaxOutput  \* bound on the output of the shell

GatewayRelayAssumption == MaxOutput \in Nat

VARIABLES
    client,     \* the client: "open", "eof" (input ended, still reading) or "gone"
    channel,    \* the client's channel and connection are open at the gateway
    shell,      \* the inner session: "running", "exited" or "closed" (by the gateway)
    hung,       \* the VM takes nothing, neither input nor messages of its connection
    unread,     \* output of the shell that is not copied yet
    produced,   \* history: output produced
    delivered,  \* output the client has got
    stdinCopy,  \* the input copy: it closes outerInputDone when it ends
    stdoutCopy, \* the output copy
    pipe,       \* where pipeSession and handleSession are
    keyDeleted  \* deleteEphemeralKey has run, successfully or not

vars == <<client, channel, shell, hung, unread, produced, delivered, stdinCopy, stdoutCopy,
          pipe, keyDeleted>>

TypeOK ==
    /\ client \in {"open", "eof", "gone"}
    /\ channel \in {"open", "closed"}
    /\ shell \in {"running", "exited", "closed"} /\ hung \in BOOLEAN
    /\ unread \in 0 .. MaxOutput /\ produced \in 0 .. MaxOutput /\ delivered \in 0 .. MaxOutput
    /\ unread + delivered <= produced
    /\ stdinCopy \in {"copying", "done"} /\ stdoutCopy \in {"copying", "done"}
    /\ pipe \in {"waiting", "closeInner", "grace", "closing", "draining", "deferred", "ended"}
    /\ keyDeleted \in BOOLEAN

\* From where pipeSession has started the shell and the copies.
Init ==
    /\ client = "open" /\ channel = "open" /\ shell = "running" /\ hung = FALSE
    /\ unread = 0 /\ produced = 0 /\ delivered = 0
    /\ stdinCopy = "copying" /\ stdoutCopy = "copying"
    /\ pipe = "waiting"
    /\ keyDeleted = FALSE

-----------------------------------------------------------------------------
(* Seeded faults: what the definitions below would be with a plausible bug. *)

GraceWithoutTimeout ==
    /\ pipe = "grace" /\ shell = "exited"
    /\ pipe' = "closing"
    /\ UNCHANGED <<client, channel, shell, hung, unread, produced, delivered, stdinCopy, stdoutCopy, keyDeleted>>

-----------------------------------------------------------------------------
(* Client and VM *)

ClientEOF ==
    /\ client = "open"
    /\ client' = "eof"
    /\ UNCHANGED <<channel, shell, hung, unread, produced, delivered, stdinCopy, stdoutCopy, pipe, keyDeleted>>

ClientGone ==
    /\ client # "gone"
    /\ client' = "gone"
    /\ UNCHANGED <<channel, shell, hung, unread, produced, delivered, stdinCopy, stdoutCopy, pipe, keyDeleted>>

ShellOutput ==
    /\ shell = "running" /\ produced < MaxOutput
    /\ produced' = produced + 1
    /\ unread' = unread + 1
    /\ UNCHANGED <<client, channel, shell, hung, delivered, stdinCopy, stdoutCopy, pipe, keyDeleted>>

ShellExits ==
    /\ shell = "running"
    /\ shell' = "exited"
    /\ UNCHANGED <<client, channel, hung, unread, produced, delivered, stdinCopy, stdoutCopy, pipe, keyDeleted>>

VmHangs ==
    /\ shell = "running" /\ ~hung
    /\ hung' = TRUE
    /\ UNCHANGED <<client, channel, shell, unread, produced, delivered, stdinCopy, stdoutCopy, pipe, keyDeleted>>

VmAnswers ==
    /\ hung
    /\ hung' = FALSE
    /\ UNCHANGED <<client, channel, shell, unread, produced, delivered, stdinCopy, stdoutCopy, pipe, keyDeleted>>

\* A write to the inner session comes back; to one that is over it fails at once.
WritesReturn == ~hung \/ shell # "running"

-----------------------------------------------------------------------------
(* The copies *)

\* io.Copy(innerStdin, outerChan) ends when the client's input ends, the channel is
\* closed, or the inner session is over; innerStdin.Close comes after it.  Either may
\* be blocked in a write to the VM.
StdinEnds ==
    /\ stdinCopy = "copying"
    /\ client # "open" \/ channel = "closed" \/ shell # "running"
    /\ stdinCopy' = "done"
    /\ UNCHANGED <<client, channel, shell, hung, unread, produced, delivered, stdoutCopy, pipe, keyDeleted>>

\* One piece of output.  A client that does not read may hold it up for ever.
StdoutCopies ==
    /\ stdoutCopy = "copying" /\ unread > 0 /\ channel = "open" /\ client # "gone"
    /\ unread' = unread - 1
    /\ delivered' = delivered + 1
    /\ UNCHANGED <<client, channel, shell, hung, produced, stdinCopy, stdoutCopy, pipe, keyDeleted>>

\* The output is at its end, or cannot be written any more.
StdoutEnds ==
    /\ stdoutCopy = "copying"
    /\ \/ shell # "running" /\ unread = 0
       \/ channel = "closed" \/ client = "gone"
    /\ stdoutCopy' = "done"
    /\ UNCHANGED <<client, channel, shell, hung, unread, produced, delivered, stdinCopy, pipe, keyDeleted>>

-----------------------------------------------------------------------------
(* pipeSession and the deferred calls of handleSession *)

InnerDone ==
    /\ pipe = "waiting" /\ shell = "exited"
    /\ pipe' = "closing"
    /\ UNCHANGED <<client, channel, shell, hung, unread, produced, delivered, stdinCopy, stdoutCopy, keyDeleted>>

OuterDone ==
    /\ pipe = "waiting" /\ stdinCopy = "done"
    /\ pipe' = "closeInner"
    /\ UNCHANGED <<client, channel, shell, hung, unread, produced, delivered, stdinCopy, stdoutCopy, keyDeleted>>

\* innerSess.Close sends a message, then inner.Close; the grace period starts only now.
CloseInner ==
    /\ pipe = "closeInner"
    /\ shell' = IF shell = "running" THEN "closed" ELSE shell
    /\ pipe' = "grace"
    /\ UNCHANGED <<client, channel, hung, unread, produced, delivered, stdinCopy, stdoutCopy, keyDeleted>>

\* Wait returns, or the five seconds are over.
GraceOver ==
    /\ pipe = "grace"
    /\ pipe' = "closing"
    /\ UNCHANGED <<client, channel, shell, hung, unread, produced, delivered, stdinCopy, stdoutCopy, keyDeleted>>

\* innerStdin, the channel and the client's connection are closed.
CloseOuter ==
    /\ pipe = "closing"
    /\ channel' = "closed"
    /\ pipe' = "draining"
    /\ UNCHANGED <<client, shell, hung, unread, produced, delivered, stdinCopy, stdoutCopy, keyDeleted>>

\* The copies are done: without the second the code allows at most for it.
Drained ==
    /\ pipe = "draining" /\ stdinCopy = "done" /\ stdoutCopy = "done"
    /\ pipe' = "deferred"
    /\ UNCHANGED <<client, channel, shell, hung, unread, produced, delivered, stdinCopy, stdoutCopy, keyDeleted>>

DrainTimeout ==
    /\ pipe = "draining" /\ (stdinCopy # "done" \/ stdoutCopy # "done")
    /\ pipe' = "deferred"
    /\ UNCHANGED <<client, channel, shell, hung, unread, produced, delivered, stdinCopy, stdoutCopy, keyDeleted>>

\* deleteEphemeralKey, inner.Close, ch.Close.
Deferred ==
    /\ pipe = "deferred"
    /\ keyDeleted' = TRUE
    /\ shell' = IF shell = "running" THEN "closed" ELSE shell
    /\ channel' = "closed"
    /\ pipe' = "ended"
    /\ UNCHANGED <<client, hung, unread, produced, delivered, stdinCopy, stdoutCopy>>

-----------------------------------------------------------------------------

Pipe == InnerDone \/ OuterDone \/ GraceOver \/ CloseOuter \/ Drained \/ DrainTimeout \/ Deferred

\* What waits for a write to the VM.
VmWrites == StdinEnds \/ CloseInner

Next ==
    \/ ClientEOF \/ ClientGone \/ ShellOutput \/ ShellExits \/ VmHangs \/ VmAnswers
    \/ VmWrites \/ StdoutCopies \/ StdoutEnds
    \/ Pipe

\* Goroutines run and timers fire; the client need not read, write or leave, the
\* shell need not exit, and a VM that hangs need not answer again.
Fairness ==
    /\ WF_vars(Pipe) /\ WF_vars(StdoutEnds)
    /\ WF_vars(WritesReturn /\ StdinEnds) /\ WF_vars(WritesReturn /\ CloseInner)

Spec == Init /\ [][Next]_vars /\ Fairness

-----------------------------------------------------------------------------
(* Properties *)

Over == shell # "running" \/ client # "open"

TornDown ==
    /\ pipe = "ended" /\ keyDeleted /\ shell # "running"
    /\ stdinCopy = "done" /\ stdoutCopy = "done"

\* The gateway is still at the client's end while the VM takes nothing: nothing but the
\* VM's own end gets it out of there.
HeldByVm == hung /\ shell = "running" /\ pipe \in {"waiting", "closeInner"}

\* A session whose shell exited or whose client stopped sending or left is torn
\* down completely: deletion of its key tried, both sides closed, both copies ended,
\* even if the client never reads and the VM never confirms the end; except while the
\* VM takes nothing.
SessionEnds == Over ~> (TornDown \/ HeldByVm)

\* The gateway never closes a session the client and the shell still use both
\* ways, and it closes the client's side only after the VM's.
NoEarlyClose ==
    channel = "closed" => shell # "running" /\ (client # "open" \/ shell = "exited")

\* The end of the input copy has one of the two reasons a session ends for, pipeSession goes
\* on only with the inner session over, and nothing is closed before.
OverForAReason ==
    LET reason == client # "open" \/ shell = "exited" IN
    /\ stdinCopy = "done" => reason
    /\ pipe # "waiting" => reason
    /\ pipe \notin {"waiting", "closeInner"} => shell # "running"
    /\ channel = "closed" \/ shell = "closed" => pipe \notin {"waiting", "closeInner"}

RelayInv == TypeOK /\ NoEarlyClose /\ OverForAReason
=============================================================================
