---------------------------- MODULE NetworkProxy ----------------------------
(***************************************************************************)
(* The TCP proxy fault (internal/fault/network): Proxy.Start, its accept   *)
(* loop and its final result (proxy.go), the handler of each connection    *)
(* with its two stream workers (conn.go), the toxics (latency.go,          *)
(* throttle.go, drip.go, loss.go, rst.go, blackhole.go) and the external   *)
(* backend (external.go).                                                  *)
(*                                                                         *)
(* Toxics are told apart by what they do to a stream or a connection:      *)
(*   "delay"      Latency, Throttle, Drip, Loss without ResetThreshold     *)
(*   "reset"      RST with AfterBytes, alone or beside AfterDuration, and  *)
(*                Loss with ResetThreshold                                 *)
(*   "resetAfter" RST without AfterBytes: hijacks once upstream is dialled *)
(*   "blackhole"  Blackhole: hijacks before upstream is dialled            *)
(*   "none"       no toxic for this direction                              *)
(* Data is counted in chunks, one per Read.  Peers send, half-close, and   *)
(* may stop reading, which blocks Write; they do not abort.                *)
(***************************************************************************)
EXTENDS Naturals, FiniteSets

CONSTANTS
  Conns,       \* bound: connections clients open
  MaxChunks,   \* bound: chunks a peer sends in one direction
  ToxicKinds,  \* the toxics a configuration may use
  Backends     \* subset of {"builtin", "external"}

ASSUME ConstantsAssumption ==
  /\ IsFiniteSet(Conns)
  /\ MaxChunks \in Nat
  /\ ToxicKinds \subseteq {"none", "delay", "reset", "resetAfter", "blackhole"}
  /\ Backends \subseteq {"builtin", "external"}

Direction == {"upstream", "downstream"}

VARIABLES
  toxic,     \* the toxic of each direction (Config.Toxics)
  cancelled, \* the fault's context is done: Duration, Stop or the registry
  run,       \* where the fault's goroutine stands
  listening, \* the listener is open
  remote,    \* the external backend: "clean", "applied"
  conn,      \* where the handler of each connection stands
  affected,  \* connections that get the toxics
  linger0,   \* connections on which SetLinger(0) was called
  worker,    \* the stream worker of each connection and direction
  sent,      \* chunks the source peer has sent
  eof,       \* the source peer has closed its half
  stalled,   \* the destination peer does not read: Write blocks
  taken,     \* chunks read by the worker
  delivered, \* chunks written to the destination
  fin        \* CloseWrite was called on the destination

proxyVars == <<toxic, cancelled, run, listening, remote, conn, affected,
               linger0, worker, sent, eof, stalled, taken, delivered, fin>>

Streams(S) == [Conns -> [Direction -> S]]
EachStream(v) == [c \in Conns |-> [d \in Direction |-> v]]

TypeOK ==
  /\ toxic \in [Direction -> ToxicKinds]
  /\ cancelled \in BOOLEAN
  /\ run \in {"accepting", "draining", "applying", "applied", "sent"}
  /\ listening \in BOOLEAN
  /\ remote \in {"clean", "applied"}
  /\ conn \in [Conns -> {"none", "accepted", "held", "dialing", "dialed",
                         "piping", "done"}]
  /\ affected \in SUBSET Conns
  /\ linger0 \in SUBSET Conns
  /\ worker \in Streams({"off", "top", "reading", "holding", "writing",
                         "ended"})
  /\ sent \in Streams(0..MaxChunks)
  /\ eof \in Streams(BOOLEAN) /\ stalled \in Streams(BOOLEAN)
  /\ \A c \in Conns, d \in Direction :
       /\ taken[c][d] \in 0..sent[c][d]
       /\ delivered[c][d] \in 0..taken[c][d]
  /\ fin \in Streams(BOOLEAN)

(* Validate wants at least one toxic; Start has begun the goroutine.       *)
ProxyInit ==
  /\ toxic \in [Direction -> ToxicKinds]
  /\ \E d \in Direction : toxic[d] # "none"
  /\ cancelled = FALSE
  /\ \E b \in Backends : /\ run = IF b = "builtin" THEN "accepting"
                                                   ELSE "applying"
                         /\ listening = (b = "builtin")
  /\ remote = "clean"
  /\ conn = [c \in Conns |-> "none"]
  /\ affected = {} /\ linger0 = {}
  /\ worker = EachStream("off")
  /\ sent = EachStream(0) /\ eof = EachStream(FALSE)
  /\ stalled = EachStream(FALSE)
  /\ taken = EachStream(0) /\ delivered = EachStream(0)
  /\ fin = EachStream(FALSE)

peers   == <<sent, eof, stalled>>
streams == <<linger0, worker, taken, delivered, fin>>

-----------------------------------------------------------------------------
(* The life of the fault. *)

(* Duration expires, Handle.Stop is called or the parent context ends.     *)
Cancel ==
  /\ ~cancelled
  /\ cancelled' = TRUE
  /\ UNCHANGED <<toxic, run, listening, remote, conn, affected, peers, streams>>

(* A slip: the listener is closed by a defer, after the accept loop.       *)
CloseListenerLate ==
  /\ run = "draining"
  /\ cancelled
  /\ listening
  /\ listening' = FALSE
  /\ UNCHANGED <<toxic, cancelled, run, remote, conn, affected, peers, streams>>

(* The goroutine that closes the listener to unblock Accept.               *)
CloseListener ==
  /\ cancelled
  /\ listening
  /\ listening' = FALSE
  /\ UNCHANGED <<toxic, cancelled, run, remote, conn, affected, peers, streams>>

(* A connection is accepted and drawn into the affected scope or not.      *)
Accept(c) ==
  /\ run = "accepting"
  /\ listening
  /\ conn[c] = "none"
  /\ conn' = [conn EXCEPT ![c] = "accepted"]
  /\ affected' \in {affected, affected \cup {c}}
  /\ UNCHANGED <<toxic, cancelled, run, listening, remote, peers, streams>>

(* Accept fails: the listener is closed, or the error is permanent.        *)
AcceptFails ==
  /\ run = "accepting"
  /\ run' = "draining"
  /\ UNCHANGED <<toxic, cancelled, listening, remote, conn, affected, peers,
                 streams>>

(* wg.Wait(), then the result is sent and the deferred cancel and Close    *)
(* run.                                                                    *)
SendResult ==
  /\ run = "draining"
  /\ \A c \in Conns : conn[c] \in {"none", "done"}
  /\ run' = "sent"
  /\ listening' = FALSE
  /\ cancelled' = TRUE
  /\ UNCHANGED <<toxic, remote, conn, affected, peers, streams>>

(* runExternal: Apply, wait for the context, Remove, send.                 *)
ExternalApply ==
  /\ run = "applying"
  /\ \/ run' = "applied" /\ remote' = "applied" /\ UNCHANGED cancelled
     \/ run' = "sent" /\ cancelled' = TRUE /\ UNCHANGED remote
  /\ UNCHANGED <<toxic, listening, conn, affected, peers, streams>>

ExternalRemove ==
  /\ run = "applied"
  /\ cancelled
  /\ run' = "sent"
  /\ remote' = "clean"
  /\ UNCHANGED <<toxic, cancelled, listening, conn, affected, peers, streams>>

-----------------------------------------------------------------------------
(* The handler of a connection: handleAffected or handlePassthrough. *)

Hijacks(c, kind) == c \in affected /\ \E d \in Direction : toxic[d] = kind

(* The pre-dial hijackers: Blackhole holds the client.                     *)
PreDial(c) ==
  /\ conn[c] = "accepted"
  /\ conn' = [conn EXCEPT ![c] =
                IF Hijacks(c, "blackhole") THEN "held" ELSE "dialing"]
  /\ UNCHANGED <<toxic, cancelled, run, listening, remote, affected, peers,
                 streams>>

ReleaseHeld(c) ==
  /\ conn[c] = "held"
  /\ cancelled
  /\ conn' = [conn EXCEPT ![c] = "done"]
  /\ UNCHANGED <<toxic, cancelled, run, listening, remote, affected, peers,
                 streams>>

(* DialTimeout, which does not look at the context.                        *)
Dial(c) ==
  /\ conn[c] = "dialing"
  /\ \E s \in {"dialed", "done"} : conn' = [conn EXCEPT ![c] = s]
  /\ UNCHANGED <<toxic, cancelled, run, listening, remote, affected, peers,
                 streams>>

(* The post-dial hijackers: RST resets both sides at its time, or gives up *)
(* with the context's error, which is no reset.                            *)
HijackReset(c) ==
  /\ conn[c] = "dialed"
  /\ Hijacks(c, "resetAfter")
  /\ \/ linger0' = linger0 \cup {c}
     \/ cancelled /\ UNCHANGED linger0
  /\ conn' = [conn EXCEPT ![c] = "done"]
  /\ UNCHANGED <<toxic, cancelled, run, listening, remote, affected, peers,
                 worker, taken, delivered, fin>>

(* Otherwise the two stream workers start.                                 *)
StartPipes(c) ==
  /\ conn[c] = "dialed"
  /\ ~Hijacks(c, "resetAfter")
  /\ conn' = [conn EXCEPT ![c] = "piping"]
  /\ worker' = [worker EXCEPT ![c] = [d \in Direction |-> "top"]]
  /\ UNCHANGED <<toxic, cancelled, run, listening, remote, affected, peers,
                 linger0, taken, delivered, fin>>

(* Both workers are back: the deferred Close of client and server.         *)
FinishConn(c) ==
  /\ conn[c] = "piping"
  /\ \A d \in Direction : worker[c][d] = "ended"
  /\ conn' = [conn EXCEPT ![c] = "done"]
  /\ UNCHANGED <<toxic, cancelled, run, listening, remote, affected, peers,
                 streams>>

-----------------------------------------------------------------------------
(* A stream worker. *)

(* An unaffected connection, and a direction without a toxic, is copied.   *)
ToxicOf(c, d) == IF c \in affected THEN toxic[d] ELSE "none"

Moves(c, d, w) == worker' = [worker EXCEPT ![c][d] = w]

(* The top of a toxic's loop; most look at the context there.              *)
EnterRead(c, d) ==
  /\ worker[c][d] = "top"
  /\ Moves(c, d, "reading")
  /\ UNCHANGED <<toxic, cancelled, run, listening, remote, conn, affected,
                 peers, linger0, taken, delivered, fin>>

(* Read returns a chunk, which the toxic may now delay.                    *)
Read(c, d) ==
  /\ worker[c][d] = "reading"
  /\ taken[c][d] < sent[c][d]
  /\ taken' = [taken EXCEPT ![c][d] = @ + 1]
  /\ Moves(c, d, "holding")
  /\ UNCHANGED <<toxic, cancelled, run, listening, remote, conn, affected,
                 peers, linger0, delivered, fin>>

(* The toxic is through with the chunk and calls Write.                    *)
BeginWrite(c, d) ==
  /\ worker[c][d] = "holding"
  /\ Moves(c, d, "writing")
  /\ UNCHANGED <<toxic, cancelled, run, listening, remote, conn, affected,
                 peers, linger0, taken, delivered, fin>>

(* A slip: the chunk is written once by the toxic and once by its caller.  *)
ForwardTwice(c, d) ==
  /\ worker[c][d] = "writing"
  /\ ~stalled[c][d]
  /\ delivered' = [delivered EXCEPT ![c][d] = @ + 2]
  /\ Moves(c, d, "top")
  /\ UNCHANGED <<toxic, cancelled, run, listening, remote, conn, affected,
                 peers, linger0, taken, fin>>

(* Write returns, once the destination has room for the chunk.             *)
Forward(c, d) ==
  /\ worker[c][d] = "writing"
  /\ ~stalled[c][d]
  /\ delivered' = [delivered EXCEPT ![c][d] = @ + 1]
  /\ Moves(c, d, "top")
  /\ UNCHANGED <<toxic, cancelled, run, listening, remote, conn, affected,
                 peers, linger0, taken, fin>>

(* A slip: the destination is not half-closed.                             *)
EndStreamSilently(c, d, isReset) ==
  /\ linger0' = IF isReset THEN linger0 \cup {c} ELSE linger0
  /\ Moves(c, d, "ended")
  /\ UNCHANGED fin

(* A slip: a reset is treated like any other end of the stream.            *)
EndStreamNoReset(c, d, isReset) ==
  /\ fin' = [fin EXCEPT ![c][d] = TRUE]
  /\ Moves(c, d, "ended")
  /\ UNCHANGED linger0

(* streamWorker once Pipe is back: applyRST, then dst.CloseWrite.          *)
EndStream(c, d, isReset) ==
  /\ linger0' = IF isReset THEN linger0 \cup {c} ELSE linger0
  /\ fin' = [fin EXCEPT ![c][d] = TRUE]
  /\ Moves(c, d, "ended")

(* Read returns EOF once everything was read.                              *)
ReadEOF(c, d) ==
  /\ worker[c][d] = "reading"
  /\ eof[c][d]
  /\ taken[c][d] = sent[c][d]
  /\ EndStream(c, d, FALSE)
  /\ UNCHANGED <<toxic, cancelled, run, listening, remote, conn, affected,
                 peers, taken, delivered>>

(* The reset of RST comes at the top of its loop (its time is over) or     *)
(* right after a Write (its bytes are through), that of Loss instead of    *)
(* writing the chunk.                                                      *)
PipeResets(c, d) ==
  /\ worker[c][d] \in {"top", "holding"}
  /\ ToxicOf(c, d) = "reset"
  /\ EndStream(c, d, TRUE)
  /\ UNCHANGED <<toxic, cancelled, run, listening, remote, conn, affected,
                 peers, taken, delivered>>

(* The context is done.  A plain copy is abandoned wherever it stands.  A  *)
(* toxic sees it at the top of its loop or while it delays a chunk, and    *)
(* not while it is blocked in Read or in Write.                            *)
PipeCancelled(c, d) ==
  /\ cancelled
  /\ worker[c][d] \in (IF ToxicOf(c, d) = "none"
                         THEN {"top", "reading", "holding", "writing"}
                         ELSE {"top", "holding"})
  /\ EndStream(c, d, FALSE)
  /\ UNCHANGED <<toxic, cancelled, run, listening, remote, conn, affected,
                 peers, taken, delivered>>

-----------------------------------------------------------------------------
(* The peers: the client of the upstream direction, the upstream server of *)
(* the other.                                                              *)
PeerSends(c, d) ==
  /\ conn[c] = "piping"
  /\ ~eof[c][d]
  /\ sent[c][d] < MaxChunks
  /\ sent' = [sent EXCEPT ![c][d] = @ + 1]
  /\ UNCHANGED <<toxic, cancelled, run, listening, remote, conn, affected, eof,
                 stalled, streams>>

PeerCloses(c, d) ==
  /\ conn[c] = "piping"
  /\ ~eof[c][d]
  /\ eof' = [eof EXCEPT ![c][d] = TRUE]
  /\ UNCHANGED <<toxic, cancelled, run, listening, remote, conn, affected,
                 sent, stalled, streams>>

(* The destination has stopped reading and the buffers towards it are      *)
(* full, which shows in a Write, or it makes room in them again.           *)
PeerStalls(c, d) ==
  /\ conn[c] = "piping"
  /\ worker[c][d] = "writing" \/ stalled[c][d]
  /\ stalled' = [stalled EXCEPT ![c][d] = ~@]
  /\ UNCHANGED <<toxic, cancelled, run, listening, remote, conn, affected,
                 sent, eof, streams>>

-----------------------------------------------------------------------------
FaultStep == CloseListener \/ SendResult \/ ExternalApply \/ ExternalRemove

HandlerStep(c) ==
  \/ PreDial(c) \/ ReleaseHeld(c) \/ Dial(c) \/ HijackReset(c)
  \/ StartPipes(c) \/ FinishConn(c)

WorkerStep(c, d) ==
  \/ EnterRead(c, d) \/ Read(c, d) \/ BeginWrite(c, d) \/ Forward(c, d)
  \/ ReadEOF(c, d) \/ PipeResets(c, d) \/ PipeCancelled(c, d)

PeerStep(c, d) == PeerSends(c, d) \/ PeerCloses(c, d) \/ PeerStalls(c, d)

ProxyNext ==
  \/ Cancel \/ FaultStep \/ AcceptFails
  \/ \E c \in Conns :
       \/ Accept(c) \/ HandlerStep(c)
       \/ \E d \in Direction : WorkerStep(c, d) \/ PeerStep(c, d)

ProxySpec == ProxyInit /\ [][ProxyNext]_proxyVars

(* The goroutines of the fault run, timers fire and the dial has its own   *)
(* timeout; a closed listener makes Accept fail.  A Write gets through to  *)
(* a destination that makes room again and again; whether one does, and    *)
(* whether a source sends or closes, is not assumed, nor is a permanent    *)
(* Accept error.                                                           *)
Fairness ==
  /\ WF_proxyVars(FaultStep)
  /\ WF_proxyVars(~listening /\ AcceptFails)
  /\ \A c \in Conns :
       /\ WF_proxyVars(HandlerStep(c))
       /\ \A d \in Direction : /\ WF_proxyVars(WorkerStep(c, d))
                               /\ SF_proxyVars(Forward(c, d))

ProxyFairSpec == ProxySpec /\ Fairness

-----------------------------------------------------------------------------
(* Properties.                                                             *)

(* While the fault lasts, the end of a stream is passed on only behind all *)
(* of its data: no toxic but a reset may truncate a stream (conn.go:57-73  *)
(* and loss.go:65, "data is delayed not lost").                            *)
FinBehindTheData ==
  \A c \in Conns, d \in Direction :
    fin[c][d] /\ ~cancelled /\ c \notin linger0
    => eof[c][d] /\ delivered[c][d] = sent[c][d]

(* A half-close travels through the proxy: a destination that keeps        *)
(* reading sees the end of the stream although the other direction stays   *)
(* open, and whatever its peer does (conn.go:57-73).                       *)
HalfCloseForwarded ==
  \A c \in Conns, d \in Direction :
    []<>~stalled[c][d] => (eof[c][d] ~> fin[c][d] \/ conn[c] = "done")

(* A toxic blocked in Read of a peer that neither sends nor closes, or in  *)
(* Write to a peer that does not read.                                     *)
StuckInRead ==
  \E c \in Conns, d \in Direction :
    /\ worker[c][d] = "reading" /\ ToxicOf(c, d) # "none"
    /\ taken[c][d] = sent[c][d] /\ ~eof[c][d]

StuckInWrite ==
  \E c \in Conns, d \in Direction :
    worker[c][d] = "writing" /\ ToxicOf(c, d) # "none" /\ stalled[c][d]

(* A cancelled fault drains and sends its result unless some toxic is      *)
(* blocked by a silent source or a destination that does not read, and     *)
(* that for ever: the accept loop, the held and the hijacked connections,  *)
(* the delayed chunks, the plain copies and the external backend all come  *)
(* to an end (proxy.go:81-173, conn.go:34-164).                            *)
CancelEndsUnlessBlocked ==
  cancelled ~> (run = "sent" \/ [](StuckInRead \/ StuckInWrite))

(* "Implementations must respect ctx cancellation and return promptly"     *)
(* (toxic.go:31): a cancelled fault drains and sends its result, whatever  *)
(* the peers do.                                                           *)
CancelEndsFault == cancelled ~> run = "sent"
=============================================================================
