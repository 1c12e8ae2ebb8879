----------------------------- MODULE DataProtocol -----------------------------
(***************************************************************************)
(* A running function in data mode.  The guest writes lines to stdout; the *)
(* host's Write looks at each complete line, carries out the ones that are *)
(* requests and puts the reply into a bounded channel the guest reads as   *)
(* its stdin.  Guest and host are one thread: while Write waits for room   *)
(* in the channel nobody reads from it, so only the deadline helps.  After *)
(* the guest ends, Finish treats what is left without a newline as a line. *)
(*                                                                         *)
(* Lines are "op" (a request) or "text"; each written line has size one.   *)
(***************************************************************************)
EXTENDS Naturals, Sequences

CONSTANTS
    MaxOps,     \* maxDataOperationsPerInvocation
    MaxOutput   \* MaxOutputBytes, in lines

DataProtocolAssumption == MaxOps \in Nat /\ MaxOutput \in Nat

VARIABLES
    guest,     \* "running", "sending" (inside Write), "reading" or "ended"
    exec,      \* execute: "idle", "instantiate", "finish", "sendLast", "result" or "returned"
    pending,   \* the line without a newline: "none", "op" or "text"
    total,     \* output taken so far
    ops,       \* requests seen
    applied,   \* the requests that the store has carried out
    held,      \* the reply Write is trying to send, or 0
    replies,   \* the channel
    got,       \* the replies the guest has read
    final,     \* text lines kept for the caller
    texts,     \* history: text lines of the guest that Write took
    exceeded,  \* the output limit was hit
    deadline,  \* the invocation's context is done
    result     \* what execute returns

vars == <<guest, exec, pending, total, ops, applied, held, replies, got, final, texts,
          exceeded, deadline, result>>

\* make(chan []byte, maxDataOperationsPerInvocation + 1)
Capacity == MaxOps + 1

\* A reply is the number of its request, and whether it carries a result.
Reply == [n : Nat, ok : BOOLEAN]
NoReply == [n |-> 0, ok |-> FALSE]

TypeOK ==
    /\ guest \in {"running", "sending", "reading", "ended"}
    /\ exec \in {"idle", "instantiate", "finish", "sendLast", "result", "returned"}
    /\ pending \in {"none", "op", "text"}
    /\ total \in 0 .. MaxOutput
    /\ ops \in 0 .. MaxOutput
    /\ applied \in Seq(1 .. MaxOps)
    /\ held \in Reply
    /\ replies \in Seq(Reply) /\ Len(replies) <= Capacity
    /\ got \in Seq(Reply)
    /\ final \in 0 .. MaxOutput /\ texts \in 0 .. MaxOutput
    /\ exceeded \in BOOLEAN /\ deadline \in BOOLEAN
    /\ result \in {"none", "ok", "timeout", "contextError", "outputLimit"}

Init ==
    /\ guest = "running" /\ exec = "idle"
    /\ pending = "none" /\ total = 0
    /\ ops = 0 /\ applied = << >> /\ held = NoReply
    /\ replies = << >> /\ got = << >>
    /\ final = 0 /\ texts = 0
    /\ exceeded = FALSE /\ deadline = FALSE
    /\ result = "none"

-----------------------------------------------------------------------------
(* Seeded faults: what the definitions below would be with a plausible bug. *)

SendNeverGivesUp == FALSE

-----------------------------------------------------------------------------
(* Lines *)

\* line, for a request: count it, carry it out unless the limit is passed or the
\* context is done, and prepare the reply.
Perform ==
    LET n == ops + 1
        can == n <= MaxOps /\ ~deadline IN
    /\ ops' = n
    /\ applied' = IF can THEN Append(applied, n) ELSE applied
    /\ held' = [n |-> n, ok |-> can]

\* line, for anything else: it belongs to the final output.
Keep == final' = final + 1

-----------------------------------------------------------------------------
(* The guest *)

Running == guest = "running" /\ exec = "instantiate"

Refuse ==
    /\ Running /\ total = MaxOutput
    /\ exceeded' = TRUE
    /\ UNCHANGED <<guest, exec, pending, total, ops, applied, held, replies, got, final, texts, deadline, result>>

\* Write of a whole line, or of the newline that ends a pending one.
WriteOp ==
    /\ Running /\ total < MaxOutput /\ pending \in {"none", "op"}
    /\ total' = total + 1
    /\ pending' = "none"
    /\ Perform
    /\ guest' = "sending"
    /\ UNCHANGED <<exec, replies, got, final, texts, exceeded, deadline, result>>

WriteText ==
    /\ Running /\ total < MaxOutput /\ pending \in {"none", "text"}
    /\ total' = total + 1
    /\ texts' = IF pending = "none" THEN texts + 1 ELSE texts
    /\ pending' = "none"
    /\ Keep
    /\ UNCHANGED <<guest, exec, ops, applied, held, replies, got, exceeded, deadline, result>>

\* Write without a newline only adds to pending.
WritePart(kind) ==
    /\ Running /\ total < MaxOutput /\ pending = "none"
    /\ total' = total + 1
    /\ texts' = IF kind = "text" THEN texts + 1 ELSE texts
    /\ pending' = kind
    /\ UNCHANGED <<guest, exec, ops, applied, held, replies, got, final, exceeded, deadline, result>>

\* Read takes the next reply, or waits for one or for the context.
Read ==
    /\ Running
    /\ IF replies # << >>
       THEN got' = Append(got, Head(replies)) /\ replies' = Tail(replies) /\ UNCHANGED guest
       ELSE guest' = "reading" /\ UNCHANGED <<got, replies>>
    /\ UNCHANGED <<exec, pending, total, ops, applied, held, final, texts, exceeded, deadline, result>>

ReadEOF ==
    /\ guest = "reading" /\ deadline
    /\ guest' = "running"
    /\ UNCHANGED <<exec, pending, total, ops, applied, held, replies, got, final, texts, exceeded, deadline, result>>

\* The guest ends by itself, or the runtime closes it when the context is done.
GuestEnds ==
    /\ Running
    /\ guest' = "ended"
    /\ UNCHANGED <<exec, pending, total, ops, applied, held, replies, got, final, texts, exceeded, deadline, result>>

Killed ==
    /\ Running /\ deadline
    /\ guest' = "ended"
    /\ UNCHANGED <<exec, pending, total, ops, applied, held, replies, got, final, texts, exceeded, deadline, result>>

-----------------------------------------------------------------------------
(* The host *)

\* execute starts the module, with a fresh channel and a deadline.
Instantiate ==
    /\ exec = "idle"
    /\ exec' = "instantiate"
    /\ UNCHANGED <<guest, pending, total, ops, applied, held, replies, got, final, texts, exceeded, deadline, result>>

Deadline ==
    /\ ~deadline /\ exec \notin {"idle", "returned"}
    /\ deadline' = TRUE
    /\ UNCHANGED <<guest, exec, pending, total, ops, applied, held, replies, got, final, texts, exceeded, result>>

\* The select at the end of line: there is room in the channel.
SendReply ==
    /\ guest = "sending" /\ exec = "instantiate" /\ Len(replies) < Capacity
    /\ replies' = Append(replies, held)
    /\ held' = NoReply
    /\ guest' = "running"
    /\ UNCHANGED <<exec, pending, total, ops, applied, got, final, texts, exceeded, deadline, result>>

\* The select at the end of line: the context is done, the reply is lost.
SendAbandoned ==
    /\ guest = "sending" /\ exec = "instantiate" /\ deadline
    /\ held' = NoReply
    /\ guest' = "running"
    /\ UNCHANGED <<exec, pending, total, ops, applied, replies, got, final, texts, exceeded, deadline, result>>

\* InstantiateModule has returned: a done context is reported before anything else.
ReturnTimeout ==
    /\ exec = "instantiate" /\ guest = "ended" /\ deadline
    /\ result' = "timeout" /\ exec' = "returned"
    /\ UNCHANGED <<guest, pending, total, ops, applied, held, replies, got, final, texts, exceeded, deadline>>

Ended ==
    /\ exec = "instantiate" /\ guest = "ended" /\ ~deadline
    /\ exec' = "finish"
    /\ UNCHANGED <<guest, pending, total, ops, applied, held, replies, got, final, texts, exceeded, deadline, result>>

Finish ==
    /\ exec = "finish"
    /\ \/ pending = "none" /\ exec' = "result" /\ UNCHANGED <<ops, applied, held, final>>
       \/ pending = "text" /\ Keep /\ exec' = "result" /\ UNCHANGED <<ops, applied, held>>
       \/ pending = "op" /\ Perform /\ exec' = "sendLast" /\ UNCHANGED final
    /\ pending' = "none"
    /\ UNCHANGED <<guest, total, replies, got, texts, exceeded, deadline, result>>

FinishSends ==
    /\ exec = "sendLast" /\ Len(replies) < Capacity
    /\ replies' = Append(replies, held)
    /\ held' = NoReply
    /\ exec' = "result"
    /\ UNCHANGED <<guest, pending, total, ops, applied, got, final, texts, exceeded, deadline, result>>

\* finishErr is the context's error, not ErrTimeout.
FinishAbandoned ==
    /\ exec = "sendLast" /\ deadline
    /\ held' = NoReply
    /\ result' = "contextError" /\ exec' = "returned"
    /\ UNCHANGED <<guest, pending, total, ops, applied, replies, got, final, texts, exceeded, deadline>>

Return ==
    /\ exec = "result"
    /\ result' = IF exceeded THEN "outputLimit" ELSE "ok"
    /\ exec' = "returned"
    /\ UNCHANGED <<guest, pending, total, ops, applied, held, replies, got, final, texts, exceeded, deadline>>

-----------------------------------------------------------------------------

Guest ==
    \/ Refuse \/ WriteOp \/ WriteText \/ Read \/ GuestEnds
    \/ \E kind \in {"op", "text"} : WritePart(kind)

Host ==
    \/ SendReply \/ SendAbandoned \/ ReturnTimeout \/ Ended \/ Finish \/ FinishSends
    \/ FinishAbandoned \/ Return \/ ReadEOF

Next == Instantiate \/ Guest \/ Host \/ Deadline \/ Killed

\* The deadline is a timer and the runtime ends a guest whose context is done,
\* also one that computes or retries for ever.
Fairness ==
    /\ WF_vars(Host) /\ WF_vars(Deadline) /\ SF_vars(Killed)

Spec == Init /\ [][Next]_vars /\ Fairness

-----------------------------------------------------------------------------
(* Properties *)

Numbers(s) == [i \in 1 .. Len(s) |-> s[i].n]

\* The guest reads the replies of its requests in the order it made them, none
\* missing and none twice, as long as the deadline has not passed.
RepliesInOrder ==
    ~deadline =>
        LET all == got \o replies \o (IF held = NoReply THEN << >> ELSE <<held>>) IN
        Numbers(all) = [i \in 1 .. ops |-> i]

\* At most MaxOps requests reach the store (README: 32 in one execution), and a
\* reply that says ok belongs to a request that was carried out.
OpsLimited ==
    /\ Len(applied) <= MaxOps
    /\ \A i \in 1 .. Len(got) : got[i].ok => \E j \in 1 .. Len(applied) : applied[j] = got[i].n

\* A guest that stays within the limit, and one that makes one request too many
\* and then reads why, never waits in Write, whether it reads replies or not.
NoBlockWithinLimit ==
    (guest = "sending" \/ exec = "sendLast") /\ ops <= MaxOps + 1 => Len(replies) < Capacity

\* A successful result carries all the text the guest wrote, also the last line
\* without a newline, and no output was cut off.
ResultComplete == result = "ok" => final = texts /\ ~exceeded /\ pending = "none"

\* A reply is in Write's hands only while it sends, and after the guest has ended there is
\* nothing more to come.
InPlace ==
    /\ held # NoReply <=> guest = "sending" \/ exec = "sendLast"
    /\ guest = "sending" => exec = "instantiate"
    /\ exec \in {"sendLast", "result"} => pending = "none"
    /\ result = "ok" => exec = "returned" /\ ~exceeded /\ pending = "none"

\* Every request has at most one reply, every line is counted once, and what a reply reports
\* as done was carried out.
Accounted ==
    /\ Len(got) + Len(replies) + (IF held = NoReply THEN 0 ELSE 1) <= ops
    /\ Len(applied) <= ops
    /\ ops + texts + (IF pending = "op" THEN 1 ELSE 0) <= total
    /\ final + (IF pending = "text" THEN 1 ELSE 0) = texts
    /\ \A i \in 1 .. Len(replies) :
          replies[i].ok => \E j \in 1 .. Len(applied) : applied[j] = replies[i].n
    /\ held.ok => \E j \in 1 .. Len(applied) : applied[j] = held.n

DataInv ==
    /\ TypeOK /\ InPlace /\ Accounted
    /\ RepliesInOrder /\ OpsLimited /\ NoBlockWithinLimit /\ ResultComplete

\* Every invocation returns, even if the guest reads replies that never come or
\* makes more requests than there is room for replies.
InvocationReturns == exec = "instantiate" ~> exec = "returned"
=============================================================================
