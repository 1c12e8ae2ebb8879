---------------------------- MODULE HostKeyTrust -----------------------------
(***************************************************************************)
(* Which host keys are trusted.  The SSH gateway (cmd/ssh-gateway/         *)
(* hostkey.go) and the API's web console (access/handler.go) check a VM's  *)
(* key against a known_hosts file, by default the same one, and append the *)
(* key of a host they find no line for.  Nothing locks the file between    *)
(* the look-up and the append.  The other half is the gateway's own key,   *)
(* made at its first start and read at every later one.                    *)
(***************************************************************************)
EXTENDS Naturals, Sequences, FiniteSets

CONSTANTS
    Hosts,      \* addresses of VMs; they are given to other VMs in time
    Keys,       \* host keys of VMs
    Sessions,   \* of either program, one after the other in each
    WebSessions,\* those of them that are web consoles, in the API; the others the gateway's
    OwnKeys,    \* what ed25519.GenerateKey may yield
    NoKey,      \* no line, no file, no key in memory
    Damaged,    \* a file of the gateway's key that does not parse
    MaxLines,   \* bound on the lines of known_hosts
    MaxReplaced \* bound on the changes of hosts

HostKeyTrustAssumption ==
    /\ IsFiniteSet(Sessions) /\ WebSessions \subseteq Sessions
    /\ NoKey \notin Keys \cup OwnKeys /\ Damaged \notin OwnKeys
    /\ MaxLines \in Nat /\ MaxReplaced \in Nat

VARIABLES
    vmKey,      \* vmKey[h]: the key of the VM that has the address h
    replaced,   \* how often that changed
    known,      \* known_hosts: its lines, and whether a line is cut short
    session,    \* the sessions' handshakes with their VMs
    accepted,   \* history: [host, key] of accepted handshakes
    vouched,    \* history: [host, key] the operator has added
    ownFile,    \* the gateway's key file
    gateway,    \* "down", "generated" (not written yet) or "serving", and the key
    served      \* history: keys the gateway has shown to its clients

trustVars == <<vmKey, replaced, known, session, accepted, vouched>>
ownVars == <<ownFile, gateway, served>>
vars == <<trustVars, ownVars>>

Line == [host : Hosts, key : Keys]
Ready == [pc |-> "idle"]
Handshake ==
    [pc : {"idle", "accepted", "refused"}] \cup [pc : {"trust"}, host : Hosts, key : Keys]

TypeOK ==
    /\ vmKey \in [Hosts -> Keys]
    /\ replaced \in 0..MaxReplaced
    /\ known \in [lines : Seq(Line), torn : BOOLEAN] /\ Len(known.lines) <= MaxLines
    /\ session \in [Sessions -> Handshake]
    /\ accepted \subseteq Line /\ vouched \subseteq Line
    /\ ownFile \in OwnKeys \cup {NoKey, Damaged}
    /\ gateway \in [at : {"down"}] \cup [at : {"generated", "serving"}, key : OwnKeys]
    /\ served \subseteq OwnKeys

Init ==
    /\ \E k \in Keys : vmKey = [h \in Hosts |-> k]
    /\ replaced = 0
    /\ known = [lines |-> <<>>, torn |-> FALSE]
    /\ session = [s \in Sessions |-> Ready]
    /\ accepted = {} /\ vouched = {}
    /\ ownFile = NoKey
    /\ gateway = [at |-> "down"]
    /\ served = {}

\* knownhosts: any line of a host may have its key (KeyError.Want has the keys of all).
Want(h) == {known.lines[i].key : i \in {j \in DOMAIN known.lines : known.lines[j].host = h}}

Accepts(s, h, k) ==
    /\ session' = [session EXCEPT ![s] = [pc |-> "accepted"]]
    /\ accepted' = accepted \cup {[host |-> h, key |-> k]}

Refuses(s) ==
    /\ session' = [session EXCEPT ![s] = [pc |-> "refused"]]
    /\ UNCHANGED accepted

-----------------------------------------------------------------------------
(* Seeded faults. *)

\* An error of the append is logged only.
AppendErrorIgnored(s) ==
    /\ session[s].pc = "trust"
    /\ \E torn \in {known.torn, TRUE} : known' = [known EXCEPT !.torn = torn]
    /\ Accepts(s, session[s].host, session[s].key)
    /\ UNCHANGED <<vmKey, replaced, vouched, ownVars>>

-----------------------------------------------------------------------------
(* The same check, written once in each program.                           *)

\* The file is read at every handshake; with a line that does not parse nothing is
\* trusted, and a missing file has no lines.
HostKeyCallback(s, h) ==
    /\ session[s].pc = "idle"
    /\ \/ known.torn /\ Refuses(s)
       \/ ~known.torn /\ vmKey[h] \in Want(h) /\ Accepts(s, h, vmKey[h])
       \/ ~known.torn /\ vmKey[h] \notin Want(h) /\ Want(h) # {} /\ Refuses(s)
       \/ /\ ~known.torn /\ Want(h) = {}
          /\ session' = [session EXCEPT ![s] = [pc |-> "trust", host |-> h, key |-> vmKey[h]]]
          /\ UNCHANGED accepted
    /\ UNCHANGED <<vmKey, replaced, known, vouched, ownVars>>

reloadingInnerHostKeyCallback(s, h) == s \notin WebSessions /\ HostKeyCallback(s, h)

reloadingVMHostKeyCallback(s, h) == s \in WebSessions /\ HostKeyCallback(s, h)

\* One write of one line to the end of the file, whatever other sessions have appended
\* since.
TrustOnFirstUse(s) ==
    /\ session[s].pc = "trust" /\ Len(known.lines) < MaxLines
    /\ known' = [known EXCEPT !.lines = Append(@, [host |-> session[s].host, key |-> session[s].key])]
    /\ Accepts(s, session[s].host, session[s].key)
    /\ UNCHANGED <<vmKey, replaced, vouched, ownVars>>

\* The directory or the file cannot be opened, or the disk is full: nothing or a part of
\* the line is written.
TrustFails(s) ==
    /\ session[s].pc = "trust"
    /\ \E torn \in {known.torn, TRUE} : known' = [known EXCEPT !.torn = torn]
    /\ Refuses(s)
    /\ UNCHANGED <<vmKey, replaced, vouched, ownVars>>

trustInnerHostKeyOnFirstUse(s) == s \notin WebSessions /\ (TrustOnFirstUse(s) \/ TrustFails(s))

trustVMHostKeyOnFirstUse(s) == s \in WebSessions /\ (TrustOnFirstUse(s) \/ TrustFails(s))

SessionOver(s) ==
    /\ session[s].pc \in {"accepted", "refused"}
    /\ session' = [session EXCEPT ![s] = Ready]
    /\ UNCHANGED <<vmKey, replaced, known, accepted, vouched, ownVars>>

\* The address is given to another VM, or the VM is built again.
VMReplaced(h, k) ==
    /\ vmKey[h] # k /\ replaced < MaxReplaced
    /\ vmKey' = [vmKey EXCEPT ![h] = k]
    /\ replaced' = replaced + 1
    /\ UNCHANGED <<known, session, accepted, vouched, ownVars>>

\* The operator's ssh-keyscan >> known_hosts.
OperatorAppends(h) ==
    /\ Len(known.lines) < MaxLines
    /\ known' = [known EXCEPT !.lines = Append(@, [host |-> h, key |-> vmKey[h]])]
    /\ vouched' = vouched \cup {[host |-> h, key |-> vmKey[h]]}
    /\ UNCHANGED <<vmKey, replaced, session, accepted, ownVars>>

-----------------------------------------------------------------------------
(* LoadOrCreateHostKey                                                     *)

\* A start of the gateway: with the key of the file, or with a new one if there is none.
\* If the file cannot be read or parsed the gateway does not start.
ReadHostKey ==
    /\ gateway.at = "down" /\ ownFile \notin {NoKey, Damaged}
    /\ gateway' = [at |-> "serving", key |-> ownFile]
    /\ served' = served \cup {ownFile}
    /\ UNCHANGED <<trustVars, ownFile>>

GenerateKey(k) ==
    /\ gateway.at = "down" /\ ownFile = NoKey /\ k \notin served
    /\ gateway' = [at |-> "generated", key |-> k]
    /\ UNCHANGED <<trustVars, ownFile, served>>

WriteHostKey ==
    /\ gateway.at = "generated"
    /\ ownFile' = gateway.key
    /\ gateway' = [gateway EXCEPT !.at = "serving"]
    /\ served' = served \cup {gateway.key}
    /\ UNCHANGED trustVars

\* The write fails, or the gateway dies, before, during or after it.
WriteInterrupted ==
    /\ gateway.at = "generated"
    /\ ownFile' \in {ownFile, Damaged, gateway.key}
    /\ gateway' = [at |-> "down"]
    /\ UNCHANGED <<trustVars, served>>

GatewayStops ==
    /\ gateway.at = "serving"
    /\ gateway' = [at |-> "down"]
    /\ UNCHANGED <<trustVars, ownFile, served>>

-----------------------------------------------------------------------------

Trust ==
    \/ \E s \in Sessions :
          \/ \E h \in Hosts :
                reloadingInnerHostKeyCallback(s, h) \/ reloadingVMHostKeyCallback(s, h)
          \/ trustInnerHostKeyOnFirstUse(s) \/ trustVMHostKeyOnFirstUse(s)
          \/ SessionOver(s)
    \/ \E h \in Hosts : OperatorAppends(h) \/ \E k \in Keys : VMReplaced(h, k)

Own ==
    \/ ReadHostKey \/ (\E k \in OwnKeys : GenerateKey(k))
    \/ WriteHostKey \/ WriteInterrupted \/ GatewayStops

\* The halves have no state in common: one moves while the other is as it was at first.
Next ==
    \/ gateway.at = "down" /\ ownFile = NoKey /\ Trust
    \/ known.lines = <<>> /\ ~known.torn /\ replaced = 0
       /\ (\A s \in Sessions : session[s] = Ready) /\ Own

Spec == Init /\ [][Next]_vars

-----------------------------------------------------------------------------
(* Properties.                                                             *)

\* A session goes on only with a key the file has by then, so that the next session of
\* either program decides as it did (hostkey.go:65); and the file has no key that neither
\* a session accepted nor the operator added.
KeysPinned ==
    \A h \in Hosts : Want(h) = {a.key : a \in {b \in accepted \cup vouched : b.host = h}}

\* A host's first line closes the door: besides the operator's keys at most one key gets
\* in per session that was under way when it was written, and a session that may still
\* add a key has not added one yet.
Unvouched(h) == {a.key : a \in {b \in accepted \ vouched : b.host = h}}

UnderWay(h) == {s \in Sessions : session[s].pc = "trust" /\ session[s].host = h}

FewKeys ==
    \A h \in Hosts :
        /\ IsFiniteSet(Unvouched(h))
        /\ Cardinality(Unvouched(h)) + Cardinality(UnderWay(h)) <= Cardinality(Sessions)

\* Clients of the gateway never see another host key, whatever start was interrupted
\* ("사용자 known_hosts 안전을 위해", deploy/systemd/ssh-gateway.env.example:21).
OneIdentity == \A k, l \in served : k = l

\* What OneIdentity rests on: the file has the key that was shown, and a key is generated
\* only while there is no file.
KeyKept ==
    /\ \A k \in served : ownFile = k
    /\ gateway.at = "generated" => ownFile = NoKey

HostKeyInv == TypeOK /\ KeysPinned /\ FewKeys /\ OneIdentity /\ KeyKept
=============================================================================
